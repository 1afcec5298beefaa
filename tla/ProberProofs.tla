---------------------------- MODULE ProberProofs ----------------------------
(***************************************************************************)
(* Machine-checked proofs about Classifier, for paths of any length made   *)
(* of any hops; then that Prober implements it, so that what is proved of  *)
(* every path holds of the paths that are probed, and of what is lost      *)
(* without a database.                                                     *)
(***************************************************************************)
EXTENDS Prober, SequenceTheorems, WellFoundedInduction, TLAPS

PathOK == hops \in Path

LEMMA PathInvariant == Spec => []PathOK
<1>1. Init => PathOK
  BY DEF Init, Path, PathOK
<1>2. PathOK /\ [Next]_hops => PathOK'
  <2> SUFFICES ASSUME PathOK, Next PROVE PathOK'
    BY DEF PathOK
  <2> DEFINE Any == Hops \cup {Silent}
  <2>1. PICK hop \in Any : hops' = Append(hops, hop)
    BY DEF Next, Extend
  <2>2. Append(hops, hop) \in Seq(Any)
    BY <2>1, AppendProperties DEF PathOK, Path
  <2> QED BY <2>1, <2>2 DEF PathOK, Path
<1> QED BY <1>1, <1>2, PTL DEF Spec

LEMMA VerdictIsStatus == \A path : classifyPath(path) \in ClassificationStatus
  BY DEF classifyPath, ClassificationStatus

\* Every path is classified, as one of the five classifications.
THEOREM TypeCorrect == Spec => []TypeOK
<1>1. PathOK => TypeOK
  BY VerdictIsStatus DEF TypeOK, PathOK
<1> QED BY <1>1, PathInvariant, PTL

\* The three rules that promote a domain all name an overseas hop and a hop
\* before it, both of which responded.
LEMMA BorderEvidence ==
    ASSUME NEW path \in Path, NEW i \in DOMAIN path, Border(path, i)
    PROVE  /\ i \in Responded(path) /\ i + 1 \in Responded(path)
           /\ Overseas(path[i + 1]) /\ i < i + 1
<1>1. i \in Nat
  BY DEF Path
<1> QED BY <1>1 DEF Border, Crossing, Responded

LEMMA EgressEvidence ==
    ASSUME NEW path \in Path, isIEPLPrivateEgress(path)
    PROVE  \E i, k \in Responded(path) : k < i /\ Overseas(path[i])
<1>1. PICK i \in DOMAIN path :
         /\ FirstPublic(path, i) /\ Overseas(path[i])
         /\ \E k \in 1 .. i - 1 : Known(path[k])
  BY DEF isIEPLPrivateEgress
<1>2. PICK k \in 1 .. i - 1 : Known(path[k])
  BY <1>1
<1>3. DOMAIN path = 1 .. Len(path) /\ Len(path) \in Nat
  BY DEF Path
<1>4. k \in DOMAIN path /\ k < i
  BY <1>2, <1>3
<1> QED BY <1>1, <1>2, <1>4 DEF FirstPublic, Known, Responded

\* No path is promoted without evidence.
THEOREM Evidence == Spec => []PromotedOnEvidence
<1>1. PathOK => PromotedOnEvidence
  <2> SUFFICES ASSUME PathOK, Optimized
               PROVE  \E i, k \in Responded(hops) : k < i /\ Overseas(hops[i])
    BY DEF PromotedOnEvidence, Overseas
  <2>1. isChineseCarrierBorder(hops) \/ isIEPLDirect(hops) \/ isIEPLPrivateEgress(hops)
    BY DEF Optimized, classifyPath, OptimizedStatus
  <2>2. CASE isChineseCarrierBorder(hops) \/ isIEPLDirect(hops)
    <3>1. PICK i \in DOMAIN hops : Border(hops, i)
      BY <2>2 DEF isChineseCarrierBorder, isIEPLDirect
    <3> QED BY <3>1, BorderEvidence DEF PathOK
  <2>3. CASE isIEPLPrivateEgress(hops)
    BY <2>3, EgressEvidence DEF PathOK
  <2> QED BY <2>1, <2>2, <2>3
<1> QED BY <1>1, PathInvariant, PTL

\* A hop added at the end of a path leaves its border where it is.
LEMMA BorderStays ==
    ASSUME NEW path \in Path, NEW hop \in Hops \cup {Silent},
           NEW i \in DOMAIN path, Border(path, i)
    PROVE  LET longer == Append(path, hop)
           IN  /\ i \in DOMAIN longer /\ Border(longer, i)
               /\ longer[i + 1] = path[i + 1]
<1> DEFINE longer == Append(path, hop)
<1>1. /\ DOMAIN path = 1 .. Len(path) /\ Len(path) \in Nat
      /\ DOMAIN longer = 1 .. Len(path) + 1
      /\ \A k \in DOMAIN path : longer[k] = path[k]
  BY DEF Path
<1>2. i + 1 \in DOMAIN path
  BY DEF Border, Crossing
<1>3. \A k \in 1 .. i : Crossing(longer, k) <=> Crossing(path, k)
  BY <1>1, <1>2 DEF Crossing
<1> QED BY <1>1, <1>2, <1>3 DEF Border

\* There is one border at most, and the first public hop is one.
LEMMA BorderIsOne ==
    ASSUME NEW path \in Path, NEW i \in DOMAIN path, NEW j \in DOMAIN path
    PROVE  /\ Border(path, i) /\ Border(path, j) => i = j
           /\ FirstPublic(path, i) /\ FirstPublic(path, j) => i = j
<1>1. i \in Nat \ {0} /\ j \in Nat \ {0}
  BY DEF Path
<1>2. i = j \/ i \in 1 .. j - 1 \/ j \in 1 .. i - 1
  BY <1>1
<1>3. Border(path, i) /\ Border(path, j) => i = j
  BY <1>2 DEF Border
<1>4. FirstPublic(path, i) /\ FirstPublic(path, j) => i = j
  BY <1>2 DEF FirstPublic
<1> QED BY <1>3, <1>4

LEMMA RTTs ==
    ASSUME NEW path \in Path
    PROVE  /\ \A i \in DOMAIN path : path[i].rtt \in Nat
           /\ \A i \in DOMAIN path : Border(path, i) => Delta(path, i) \in Int
<1>1. \A i \in DOMAIN path : path[i] \in Hop
  <2>1. Silent \in Hop
    BY DEF Silent, Hop
  <2> QED BY <2>1, ClassifierAssumption DEF Path
<1>2. \A i \in DOMAIN path : path[i].rtt \in Nat
  BY <1>1 DEF Hop
<1>3. \A i \in DOMAIN path : Border(path, i) => i + 1 \in DOMAIN path
  BY DEF Border, Crossing
<1> QED BY <1>2, <1>3 DEF Delta

\* The delta reported fits the classification it is reported with.
THEOREM DeltaFits == Spec => []DeltaFitsVerdict
<1>1. PathOK => DeltaFitsVerdict
  <2> SUFFICES ASSUME PathOK PROVE DeltaFitsVerdict
    OBVIOUS
  <2> DEFINE border == CHOOSE i \in DOMAIN hops : Border(hops, i)
             first  == CHOOSE i \in DOMAIN hops : FirstPublic(hops, i)
             verdict == classifyPath(hops)
             delta  == BorderDelta(hops)
  <2>0. hops \in Path /\ DOMAIN hops \subseteq Nat
    BY DEF PathOK, Path
  <2>1. CASE verdict = "CN2_Premium"
    <3>1. \E i \in DOMAIN hops : Border(hops, i)
      BY <2>1 DEF classifyPath, isChineseCarrierBorder
    <3>2. border \in DOMAIN hops /\ Crossing(hops, border)
      BY <3>1 DEF Border
    <3>3. delta = IF Delta(hops, border) < 0 THEN 0 ELSE Delta(hops, border)
      BY <2>1 DEF BorderDelta
    <3>4. Measured(border, delta)
      BY <3>2, <3>3 DEF Measured
    <3> QED BY <2>1, <3>2, <3>4 DEF DeltaFitsVerdict, Optimized, OptimizedStatus
  <2>2. CASE verdict = "IEPL_Direct" /\ isIEPLDirect(hops)
    <3>1. PICK i \in DOMAIN hops :
             /\ Border(hops, i) /\ Delta(hops, i) \in 0 .. ieplBorderDeltaUpperBoundMS
             /\ hops[i + 1].asn \in chinaCarrierOverseasAS
      BY <2>2 DEF isIEPLDirect
    <3>2. border = i
      BY <2>0, <3>1, BorderIsOne
    <3>3. delta = Delta(hops, i)
      BY <2>2, <3>2 DEF BorderDelta
    <3>4. delta \in 0 .. 5 /\ Crossing(hops, i) /\ hops[i + 1].asn \in {"cn2", "carrier"}
      BY <3>1, <3>3 DEF ieplBorderDeltaUpperBoundMS, Border, chinaCarrierOverseasAS
    <3>5. Measured(i, delta)
      BY <3>3, <3>4 DEF Measured
    <3> QED BY <2>2, <3>4, <3>5 DEF DeltaFitsVerdict, Optimized, OptimizedStatus
  <2>3. CASE verdict = "IEPL_Direct" /\ ~isIEPLDirect(hops)
    <3>1. isIEPLPrivateEgress(hops)
      BY <2>3 DEF classifyPath
    <3>2. PICK i \in DOMAIN hops :
             /\ FirstPublic(hops, i) /\ Overseas(hops[i])
             /\ hops[i].rtt \in 1 .. ieplPrivateEgressMaxRTTMS
      BY <3>1 DEF isIEPLPrivateEgress
    <3>3. first = i
      BY <2>0, <3>2, BorderIsOne
    <3>4. delta = hops[i].rtt
      BY <2>3, <3>3 DEF BorderDelta
    <3>5. delta \in 1 .. 80 /\ i \in Responded(hops)
      BY <3>2, <3>4 DEF ieplPrivateEgressMaxRTTMS, FirstPublic, Known, Responded
    <3>6. asns(hops) \cap {"cn2", "carrier", "cernet"} = {}
      BY <3>1 DEF isIEPLPrivateEgress, containsAnyAS, chinaCarrierOverseasAS, cernetAS
    <3>7. ASSUME NEW k \in 1 .. i - 1 PROVE hops[k].ip \in {"private", "none"}
      <4>1. k \in DOMAIN hops
        BY <2>0, <3>2, <3>7 DEF Path
      <4>2. hops[k] \in Hops \cup {Silent}
        BY <2>0, <4>1 DEF Path
      <4>3. hops[k] = Silent \/ hops[k].responded
        BY <4>2, ClassifierAssumption
      <4>4. Silent.ip = "none"
        BY DEF Silent
      <4> QED BY <3>2, <3>7, <4>3, <4>4 DEF FirstPublic, Known
    <3> QED BY <2>3, <3>2, <3>4, <3>5, <3>6, <3>7
          DEF DeltaFitsVerdict, Optimized, OptimizedStatus
  <2>4. CASE verdict \notin {"CN2_Premium", "IEPL_Direct"}
    <3>1. delta = 0
      BY <2>4 DEF BorderDelta
    <3> QED BY <2>4, <3>1 DEF DeltaFitsVerdict
  <2> QED BY <2>1, <2>2, <2>3, <2>4
<1> QED BY <1>1, PathInvariant, PTL

\* The first public hop stays where it is, as the border does.
LEMMA FirstPublicStays ==
    ASSUME NEW path \in Path, NEW hop \in Hops \cup {Silent},
           NEW i \in DOMAIN path, FirstPublic(path, i)
    PROVE  LET longer == Append(path, hop)
           IN  /\ i \in DOMAIN longer /\ FirstPublic(longer, i)
               /\ \A k \in 1 .. i : longer[k] = path[k]
<1> DEFINE longer == Append(path, hop)
<1>1. /\ DOMAIN path = 1 .. Len(path) /\ Len(path) \in Nat
      /\ DOMAIN longer = 1 .. Len(path) + 1
      /\ \A k \in DOMAIN path : longer[k] = path[k]
  BY DEF Path
<1>2. \A k \in 1 .. i : k \in DOMAIN path
  BY <1>1
<1>3. \A k \in 1 .. i : longer[k] = path[k]
  BY <1>1, <1>2
<1>4. i \in 1 .. i /\ \A k \in 1 .. i - 1 : k \in 1 .. i
  BY <1>1
<1> HIDE DEF longer
<1>5. i \in DOMAIN longer /\ FirstPublic(longer, i)
  BY <1>1, <1>3, <1>4 DEF FirstPublic
<1> QED BY <1>3, <1>5 DEF longer

\* CN2_Premium and its delta outlast every hop, IEPL_Direct and its delta every
\* hop that no table of the code has.
THEOREM Outlasts == Spec => PromotionOutlastsTrace
<1> DEFINE Outside == hops'[Len(hops')].asn \in {"other", "none"}
           Same == classifyPath(hops) = "CN2_Premium" \/ (Optimized /\ Outside) =>
               /\ classifyPath(hops') = classifyPath(hops)
               /\ BorderDelta(hops') = BorderDelta(hops)
<1>1. PathOK /\ [Next]_hops => [Same]_hops
  <2> SUFFICES ASSUME hops \in Path, Next,
                      classifyPath(hops) = "CN2_Premium" \/ (Optimized /\ Outside)
               PROVE  /\ classifyPath(hops') = classifyPath(hops)
                      /\ BorderDelta(hops') = BorderDelta(hops)
    BY DEF PathOK
  <2>1. PICK hop \in Hops \cup {Silent} : hops' = Append(hops, hop)
    BY DEF Next, Extend
  <2> DEFINE n == Len(hops)
  <2>2. /\ hops' \in Path /\ n \in Nat /\ DOMAIN hops = 1 .. n /\ DOMAIN hops' = 1 .. n + 1
        /\ \A k \in 1 .. n : hops'[k] = hops[k]
        /\ Len(hops') = n + 1 /\ hops'[n + 1] = hop
        /\ 1 .. n \subseteq 1 .. n + 1
    BY <2>1 DEF Path
  <2> HIDE DEF n
  <2>3. Outside => hop.asn \in {"other", "none"}
    BY <2>2
  <2> HIDE DEF Outside
  <2>4. /\ asns(hops) \subseteq asns(hops')
        /\ Outside => asns(hops') \subseteq asns(hops) \cup {"other"}
    <3>1. ASSUME NEW a \in asns(hops) PROVE a \in asns(hops')
      <4>1. PICK k \in 1 .. n : a = hops[k].asn
        BY <2>2 DEF asns
      <4>2. k \in 1 .. n + 1 /\ hops'[k] = hops[k]
        BY <2>2
      <4> QED BY <2>2, <4>1, <4>2 DEF asns
    <3>2. ASSUME Outside, NEW a \in asns(hops') PROVE a \in asns(hops) \cup {"other"}
      <4>1. PICK k \in 1 .. n + 1 : a = hops'[k].asn
        BY <2>2 DEF asns
      <4>2. CASE k = n + 1
        BY <2>2, <2>3, <3>2, <4>1, <4>2 DEF asns
      <4>3. CASE k \in 1 .. n
        BY <2>2, <3>2, <4>1, <4>3 DEF asns
      <4> QED BY <2>2, <4>2, <4>3
    <3> QED BY <3>1, <3>2
  <2>5. /\ \A set : containsAnyAS(hops, set) => containsAnyAS(hops', set)
        /\ Outside => \A set : "other" \notin set =>
                          (containsAnyAS(hops', set) <=> containsAnyAS(hops, set))
    BY <2>4 DEF containsAnyAS
  <2>6. ASSUME Outside
        PROVE
        /\ containsAnyAS(hops', cn2PremiumAS) <=> containsAnyAS(hops, cn2PremiumAS)
        /\ containsAnyAS(hops', foreignTransitAS) <=> containsAnyAS(hops, foreignTransitAS)
        /\ containsAnyAS(hops', chinaCarrierOverseasAS \cup cernetAS) <=>
               containsAnyAS(hops, chinaCarrierOverseasAS \cup cernetAS)
    BY <2>5, <2>6 DEF cn2PremiumAS, foreignTransitAS, chinaCarrierOverseasAS, cernetAS
  <2>7. ASSUME NEW i \in DOMAIN hops, Border(hops, i)
        PROVE  /\ i \in DOMAIN hops' /\ Border(hops', i) /\ hops'[i + 1] = hops[i + 1]
               /\ Delta(hops', i) = Delta(hops, i)
               /\ (CHOOSE j \in DOMAIN hops : Border(hops, j)) = i
               /\ (CHOOSE j \in DOMAIN hops' : Border(hops', j)) = i
    <3>1. i \in DOMAIN hops' /\ Border(hops', i) /\ hops'[i + 1] = hops[i + 1]
      BY <2>1, <2>7, BorderStays
    <3>2. Delta(hops', i) = Delta(hops, i)
      BY <2>2, <3>1 DEF Delta
    <3>3. (CHOOSE j \in DOMAIN hops : Border(hops, j)) = i
      BY <2>7, BorderIsOne
    <3>4. (CHOOSE j \in DOMAIN hops' : Border(hops', j)) = i
      BY <2>2, <3>1, BorderIsOne
    <3> QED BY <3>1, <3>2, <3>3, <3>4
  <2>8. ASSUME NEW i \in DOMAIN hops, FirstPublic(hops, i)
        PROVE  /\ i \in DOMAIN hops' /\ FirstPublic(hops', i) /\ hops'[i] = hops[i]
               /\ \A k \in 1 .. i - 1 : hops'[k] = hops[k]
               /\ (CHOOSE j \in DOMAIN hops : FirstPublic(hops, j)) = i
               /\ (CHOOSE j \in DOMAIN hops' : FirstPublic(hops', j)) = i
    <3>1. /\ i \in DOMAIN hops' /\ FirstPublic(hops', i)
          /\ \A k \in 1 .. i : hops'[k] = hops[k]
      BY <2>1, <2>8, FirstPublicStays
    <3>2. i \in 1 .. i /\ \A k \in 1 .. i - 1 : k \in 1 .. i
      BY <2>2
    <3>3. (CHOOSE j \in DOMAIN hops : FirstPublic(hops, j)) = i
      BY <2>8, BorderIsOne
    <3>4. (CHOOSE j \in DOMAIN hops' : FirstPublic(hops', j)) = i
      BY <2>2, <3>1, BorderIsOne
    <3> QED BY <3>1, <3>2, <3>3, <3>4
  <2>9. CASE classifyPath(hops) = "CN2_Premium"
    <3>1. PICK i \in DOMAIN hops :
             Border(hops, i) /\ hops[i + 1].asn \in chinaCarrierOverseasAS
      BY <2>9 DEF classifyPath, isChineseCarrierBorder
    <3>2. isChineseCarrierBorder(hops')
      BY <2>7, <3>1 DEF isChineseCarrierBorder
    <3>3. classifyPath(hops') = "CN2_Premium"
      BY <2>5, <2>9, <3>2 DEF classifyPath
    <3> QED BY <2>7, <2>9, <3>1, <3>3 DEF BorderDelta
  <2>10. CASE Outside /\ classifyPath(hops) = "IEPL_Direct" /\ isIEPLDirect(hops)
    <3>1. PICK i \in DOMAIN hops :
             /\ Border(hops, i) /\ hops[i + 1].asn \in chinaCarrierOverseasAS
             /\ Delta(hops, i) \in 0 .. ieplBorderDeltaUpperBoundMS
      BY <2>10 DEF isIEPLDirect
    <3>2. ~containsAnyAS(hops, foreignTransitAS)
      BY <2>10 DEF isIEPLDirect
    <3>3. isIEPLDirect(hops')
      BY <2>6, <2>7, <2>10, <3>1, <3>2 DEF isIEPLDirect
    <3>4. ~containsAnyAS(hops, cn2PremiumAS)
      BY <2>10, <3>1 DEF classifyPath, isChineseCarrierBorder
    <3>5. classifyPath(hops') = "IEPL_Direct"
      BY <2>6, <2>10, <3>3, <3>4 DEF classifyPath
    <3> QED BY <2>7, <2>10, <3>1, <3>3, <3>5 DEF BorderDelta
  <2>11. CASE Outside /\ classifyPath(hops) = "IEPL_Direct" /\ ~isIEPLDirect(hops)
    <3>1. isIEPLPrivateEgress(hops)
      BY <2>11 DEF classifyPath
    <3>2. PICK i \in DOMAIN hops :
             /\ FirstPublic(hops, i) /\ Overseas(hops[i])
             /\ hops[i].rtt \in 1 .. ieplPrivateEgressMaxRTTMS
             /\ \E k \in 1 .. i - 1 : Known(hops[k])
      BY <3>1 DEF isIEPLPrivateEgress
    <3>3. ~containsAnyAS(hops', chinaCarrierOverseasAS \cup cernetAS)
      BY <2>6, <2>11, <3>1 DEF isIEPLPrivateEgress
    <3>4. isIEPLPrivateEgress(hops')
      BY <2>8, <3>2, <3>3 DEF isIEPLPrivateEgress
    <3>5. ~containsAnyAS(hops', cn2PremiumAS)
      BY <3>3 DEF containsAnyAS, cn2PremiumAS, chinaCarrierOverseasAS
    <3>6. ~isIEPLDirect(hops')
      <4>1. SUFFICES ASSUME NEW j \in DOMAIN hops', Border(hops', j),
                            hops'[j + 1].asn \in chinaCarrierOverseasAS
                     PROVE  FALSE
        BY DEF isIEPLDirect
      <4>2. j + 1 \in DOMAIN hops'
        BY <4>1 DEF Border, Crossing
      <4>3. hops'[j + 1].asn \in asns(hops')
        BY <4>1, <4>2 DEF asns, chinaCarrierOverseasAS
      <4> QED BY <3>3, <4>1, <4>3 DEF containsAnyAS
    <3>7. classifyPath(hops') = "IEPL_Direct"
      BY <3>4, <3>5 DEF classifyPath
    <3>8. BorderDelta(hops) = hops[i].rtt
      BY <2>8, <2>11, <3>2 DEF BorderDelta
    <3>9. BorderDelta(hops') = hops'[i].rtt
      BY <2>8, <3>2, <3>6, <3>7 DEF BorderDelta
    <3>10. hops'[i] = hops[i]
      BY <2>8, <3>2
    <3> QED BY <2>11, <3>7, <3>8, <3>9, <3>10, Zenon
  <2> QED BY <2>9, <2>10, <2>11 DEF Optimized, OptimizedStatus
<1> QED BY <1>1, PathInvariant, PTL DEF Spec, PromotionOutlastsTrace

\* Silent hops at the end of a path add no evidence of any kind.
LEMMA SilenceAddsNothing ==
    ASSUME NEW path \in Path, NEW longer \in Path,
           Len(path) <= Len(longer),
           \A k \in DOMAIN path : longer[k] = path[k],
           \A k \in DOMAIN longer \ DOMAIN path : longer[k] = Silent
    PROVE  /\ asns(longer) = asns(path)
           /\ isIEPLDirect(longer) <=> isIEPLDirect(path)
           /\ isChineseCarrierBorder(longer) <=> isChineseCarrierBorder(path)
           /\ isIEPLPrivateEgress(longer) <=> isIEPLPrivateEgress(path)
           /\ Responded(longer) = Responded(path)
           /\ Reached(longer) <=> Reached(path)
<1> DEFINE n == Len(path)
           m == Len(longer)
<1>1. /\ DOMAIN path = 1 .. n /\ n \in Nat /\ DOMAIN longer = 1 .. m /\ m \in Nat
      /\ n <= m
      /\ \A k \in 1 .. n : longer[k] = path[k]
  BY DEF Path
<1>2. \A k \in 1 .. m : k \notin 1 .. n => longer[k] = Silent
  BY <1>1
<1>3. Silent.asn = "none" /\ ~Silent.responded
  BY DEF Silent
<1>4. 1 .. n \subseteq 1 .. m
  BY <1>1
<1> HIDE DEF n, m
<1>5. asns(longer) = asns(path)
  <2>1. ASSUME NEW a \in asns(longer) PROVE a \in asns(path)
    <3>1. PICK k \in 1 .. m : a = longer[k].asn
      BY <1>1 DEF asns
    <3>2. k \in 1 .. n
      BY <1>2, <1>3, <3>1 DEF asns
    <3> QED BY <1>1, <3>1, <3>2 DEF asns
  <2>2. ASSUME NEW a \in asns(path) PROVE a \in asns(longer)
    <3>1. PICK k \in 1 .. n : a = path[k].asn
      BY <1>1 DEF asns
    <3>2. k \in 1 .. m /\ longer[k] = path[k]
      BY <1>1, <1>4
    <3> QED BY <1>1, <3>1, <3>2 DEF asns
  <2> QED BY <2>1, <2>2
<1>6. \A set : containsAnyAS(longer, set) <=> containsAnyAS(path, set)
  BY <1>5 DEF containsAnyAS
<1>7. ASSUME NEW k \in 1 .. m
      PROVE  /\ Crossing(longer, k) <=> Crossing(path, k)
             /\ Crossing(longer, k) => k \in 1 .. n /\ k + 1 \in 1 .. n
  <2>1. CASE k + 1 \in 1 .. n
    <3>1. k \in 1 .. n /\ k + 1 \in 1 .. m
      BY <1>1, <1>4, <2>1
    <3> QED BY <1>1, <2>1, <3>1 DEF Crossing
  <2>2. CASE k + 1 \notin 1 .. n
    <3>1. ~Crossing(path, k)
      BY <1>1, <2>2 DEF Crossing
    <3>2. ~Crossing(longer, k)
      BY <1>1, <1>2, <1>3, <2>2 DEF Crossing
    <3> QED BY <3>1, <3>2
  <2> QED BY <2>1, <2>2
<1>8. ASSUME NEW k \in 1 .. m
      PROVE  /\ Border(longer, k) <=> Border(path, k)
             /\ Border(longer, k) => /\ k \in 1 .. n
                                     /\ longer[k] = path[k] /\ longer[k + 1] = path[k + 1]
  <2>1. \A l \in 1 .. k - 1 : l \in 1 .. m
    BY <1>1
  <2>2. Border(longer, k) <=> Border(path, k)
    BY <1>7, <2>1 DEF Border
  <2> QED BY <1>1, <1>7, <2>2 DEF Border
<1>9. isIEPLDirect(longer) <=> isIEPLDirect(path)
  BY <1>1, <1>4, <1>6, <1>8 DEF isIEPLDirect, Delta
<1>10. isChineseCarrierBorder(longer) <=> isChineseCarrierBorder(path)
  BY <1>1, <1>4, <1>8 DEF isChineseCarrierBorder
<1>11. ASSUME NEW k \in 1 .. m
       PROVE  Known(longer[k]) <=> k \in 1 .. n /\ Known(path[k])
  BY <1>1, <1>2, <1>3 DEF Known
<1>12. ASSUME NEW k \in 1 .. m
       PROVE  /\ FirstPublic(longer, k) <=> FirstPublic(path, k)
              /\ FirstPublic(longer, k) => k \in 1 .. n
  <2>1. CASE k \notin 1 .. n
    BY <1>1, <1>11, <2>1 DEF FirstPublic
  <2>2. CASE k \in 1 .. n
    <3>1. \A l \in 1 .. k - 1 : l \in 1 .. n /\ l \in 1 .. m
      BY <1>1, <2>2
    <3> QED BY <1>1, <1>11, <2>2, <3>1 DEF FirstPublic
  <2> QED BY <2>1, <2>2
<1>13. isIEPLPrivateEgress(longer) <=> isIEPLPrivateEgress(path)
  <2>1. \A k \in 1 .. n : \A l \in 1 .. k - 1 : Known(longer[l]) <=> Known(path[l])
    <3>1. \A k \in 1 .. n : \A l \in 1 .. k - 1 : l \in 1 .. n
      BY <1>1
    <3> QED BY <1>4, <1>11, <3>1
  <2> QED BY <1>1, <1>4, <1>6, <1>12, <2>1 DEF isIEPLPrivateEgress
<1>14. Responded(longer) = Responded(path)
  BY <1>1, <1>2, <1>3, <1>4 DEF Responded
<1>15. Reached(longer) <=> Reached(path)
  BY <1>1, <1>14 DEF Reached, Responded
<1> QED BY <1>5, <1>9, <1>10, <1>13, <1>14, <1>15

\* A longer silence changes nothing but Standard_163 into Blocked.
THEOREM SilenceHarmless == Spec => SilenceIsHarmless
<1> DEFINE Same == hops' = Append(hops, Silent) =>
               \/ classifyPath(hops') = classifyPath(hops)
               \/ classifyPath(hops) = "Standard_163" /\ classifyPath(hops') = "Blocked"
<1>1. PathOK => [Same]_hops
  <2> SUFFICES ASSUME hops \in Path, hops' = Append(hops, Silent) PROVE Same
    BY DEF PathOK
  <2>1. /\ hops' \in Path /\ Len(hops') = Len(hops) + 1 /\ Len(hops) \in Nat
        /\ DOMAIN hops = 1 .. Len(hops) /\ DOMAIN hops' = 1 .. Len(hops) + 1
        /\ \A k \in DOMAIN hops : hops'[k] = hops[k]
        /\ hops'[Len(hops) + 1] = Silent
    BY DEF Path
  <2>2. /\ Len(hops) <= Len(hops')
        /\ \A k \in DOMAIN hops' \ DOMAIN hops : hops'[k] = Silent
    BY <2>1
  <2>3. /\ asns(hops') = asns(hops)
        /\ isIEPLDirect(hops') <=> isIEPLDirect(hops)
        /\ isChineseCarrierBorder(hops') <=> isChineseCarrierBorder(hops)
        /\ isIEPLPrivateEgress(hops') <=> isIEPLPrivateEgress(hops)
        /\ Responded(hops') = Responded(hops)
        /\ Reached(hops') <=> Reached(hops)
    BY <2>1, <2>2, SilenceAddsNothing
  <2>4. \A set : containsAnyAS(hops', set) <=> containsAnyAS(hops, set)
    BY <2>3 DEF containsAnyAS
  <2>5. isBlocked(hops) => isBlocked(hops')
    <3>1. Responded(hops) \subseteq Nat
      BY <2>1 DEF Responded
    <3> QED BY <2>1, <2>3, <3>1 DEF isBlocked
  <2> QED BY <2>3, <2>4, <2>5 DEF classifyPath
<1> QED BY <1>1, PathInvariant, PTL DEF SilenceIsHarmless

\* Where a Blocked path is cut off after its last answer decides its verdict.
THEOREM CutOff == Spec => []FiveSilentHopsBlock
<1>1. PathOK => FiveSilentHopsBlock
  <2> SUFFICES ASSUME hops \in Path, classifyPath(hops) = "Blocked",
                      NEW n \in 0 .. Len(hops),
                      Responded(SubSeq(hops, 1, n)) = Responded(hops)
               PROVE  classifyPath(SubSeq(hops, 1, n)) =
                         IF \E i \in Responded(hops) : n < i + 5
                            THEN "Standard_163" ELSE "Blocked"
    BY DEF FiveSilentHopsBlock, PathOK
  <2>1. PICK cut : cut = SubSeq(hops, 1, n)
    OBVIOUS
  <2>2. /\ Len(hops) \in Nat /\ DOMAIN hops = 1 .. Len(hops)
        /\ n \in Nat /\ n <= Len(hops)
        /\ \A k \in DOMAIN hops : hops[k] \in Hops \cup {Silent}
    BY DEF Path
  <2>3. /\ cut \in Path /\ Len(cut) = n /\ DOMAIN cut = 1 .. n
        /\ \A k \in 1 .. n : cut[k] = hops[k]
    BY <2>1, <2>2 DEF Path
  <2>4. \A k \in DOMAIN hops \ DOMAIN cut : hops[k] = Silent
    <3>1. ASSUME NEW k \in DOMAIN hops \ DOMAIN cut PROVE hops[k] = Silent
      <4>1. k \notin Responded(hops)
        BY <2>1, <3>1 DEF Responded
      <4>2. ~hops[k].responded
        BY <3>1, <4>1 DEF Responded
      <4> QED BY <2>2, <3>1, <4>2, ClassifierAssumption
    <3> QED BY <3>1
  <2>5. /\ asns(hops) = asns(cut)
        /\ isIEPLDirect(hops) <=> isIEPLDirect(cut)
        /\ isChineseCarrierBorder(hops) <=> isChineseCarrierBorder(cut)
        /\ isIEPLPrivateEgress(hops) <=> isIEPLPrivateEgress(cut)
        /\ Responded(hops) = Responded(cut)
        /\ Reached(hops) <=> Reached(cut)
    BY <2>2, <2>3, <2>4, SilenceAddsNothing
  <2>6. \A set : containsAnyAS(hops, set) <=> containsAnyAS(cut, set)
    BY <2>5 DEF containsAnyAS
  <2>7. isBlocked(hops)
    BY DEF classifyPath
  <2>8. classifyPath(cut) = IF isBlocked(cut) THEN "Blocked" ELSE "Standard_163"
    BY <2>5, <2>6 DEF classifyPath
  <2>9. isBlocked(cut) <=> \A i \in Responded(hops) : i <= n - 5
    BY <2>3, <2>5, <2>7 DEF isBlocked
  <2>10. (\A i \in Responded(hops) : i <= n - 5) <=> ~\E i \in Responded(hops) : n < i + 5
    <3>1. Responded(hops) \subseteq Nat
      BY <2>2 DEF Responded
    <3>2. \A i \in Nat : i <= n - 5 <=> ~(n < i + 5)
      BY <2>2
    <3> QED BY <3>1, <3>2
  <2> QED BY <2>1, <2>8, <2>9, <2>10
<1> QED BY <1>1, PathInvariant, PTL

-----------------------------------------------------------------------------
(* The paths that are probed.                                              *)

DatabasesOK == databases \subseteq Database

\* A set of naturals that is not empty has a least element.
LEMMA Least ==
    ASSUME NEW S \in SUBSET Nat, S # {}
    PROVE  \E m \in S : \A n \in S : m <= n
<1> DEFINE Less == {ss \in Nat \X Nat : ss[1] < ss[2]}
<1>1. OpToRel(<, Nat) = Less
  BY Zenon DEF OpToRel
<1>2. IsWellFoundedOn(Less, Nat)
  BY <1>1, NatLessThanWellFounded, Zenon
<1>3. \E m \in S : \A n \in S : ~(<<n, m>> \in Less)
  <2> HIDE DEF Less
  <2> QED BY <1>2, WFMin
<1>4. PICK m \in S : \A n \in S : ~(<<n, m>> \in Less)
  BY <1>3
<1>5. ASSUME NEW n \in S PROVE m <= n
  <2>1. n \in Nat /\ m \in Nat /\ ~(n < m)
    BY <1>4, <1>5
  <2> QED BY <2>1
<1> QED BY <1>4, <1>5

LEMMA DatabasesInvariant == ProbeSpec => []DatabasesOK
<1>1. ProbeInit => DatabasesOK
  BY ProberAssumption DEF ProbeInit, DatabasesOK, Opened
<1>2. DatabasesOK /\ [ProbeNext]_probeVars => DatabasesOK'
  BY DEF DatabasesOK, ProbeNext, probeVars, Run, RunFails, DecodeHop
<1> QED BY <1>1, <1>2, PTL DEF ProbeSpec

\* A hop is silent, or it is a usable sample with what the databases say of it.
LEMMA HopIsSample ==
    ASSUME NEW samples \in SampleLists
    PROVE  \/ HopOf(samples) = Silent
           \/ \E q \in DOMAIN samples :
                 Usable(samples[q]) /\ HopOf(samples) = EnrichHop(databases, samples[q])
<1> DEFINE usable == {q \in DOMAIN samples : Usable(samples[q])}
<1>1. CASE usable = {}
  BY <1>1 DEF HopOf
<1>2. CASE usable # {}
  <2>1. samples \in Seq(Sample)
    BY ProberAssumption
  <2>2. usable \subseteq Nat /\ DOMAIN samples = 1 .. Len(samples) /\ Len(samples) \in Nat
    BY <2>1
  <2>3. \E first \in usable : \A r \in usable : first <= r
    BY <1>2, <2>2, Least
  <2> QED BY <1>2, <2>3 DEF HopOf
<1> QED BY <1>1, <1>2

\* Every hop is one of those the classifier is given.
LEMMA HopIsKnown ==
    ASSUME DatabasesOK, NEW samples \in SampleLists
    PROVE  HopOf(samples) \in Hops \cup {Silent}
BY HopIsSample, ProberAssumption DEF DatabasesOK

\* The paths that are probed are among those of Classifier: whatever nexttrace
\* prints and whichever databases are open, a probe is a behaviour of Classifier.
THEOREM ProbeImplementsPath == ProbeSpec => Spec
<1>1. ProbeInit => Init
  BY DEF ProbeInit
<1>2. DatabasesOK /\ [ProbeNext]_probeVars => [Next]_hops
  <2> SUFFICES ASSUME DatabasesOK, ProbeNext PROVE [Next]_hops
    BY DEF probeVars
  <2>1. CASE Run \/ RunFails
    BY <2>1 DEF Run, RunFails
  <2>2. ASSUME NEW samples \in SampleLists, DecodeHop(samples) PROVE Next
    BY <2>2, HopIsKnown DEF DecodeHop, Next
  <2> QED BY <2>1, <2>2 DEF ProbeNext
<1> QED BY <1>1, <1>2, DatabasesInvariant, PTL DEF ProbeSpec, Spec

\* Prober is type-correct.
THEOREM ProbeTypeCorrect == ProbeSpec => []ProbeTypeOK
<1> DEFINE StageOK == stage \in {"run", "decode", "empty", "failed"}
<1>1. ProbeInit => StageOK
  BY DEF ProbeInit
<1>2. StageOK /\ [ProbeNext]_probeVars => StageOK'
  BY DEF ProbeNext, probeVars, Run, RunFails, DecodeHop
<1>3. TypeOK /\ DatabasesOK /\ StageOK => ProbeTypeOK
  BY DEF DatabasesOK, ProbeTypeOK
<1>4. ProbeSpec => []StageOK
  BY <1>1, <1>2, PTL DEF ProbeSpec
<1> QED BY <1>3, <1>4, ProbeImplementsPath, TypeCorrect, DatabasesInvariant, PTL

\* No probe promotes a domain without an overseas hop behind another.
THEOREM ProbedEvidence == ProbeSpec => []PromotedOnEvidence
BY ProbeImplementsPath, Evidence, PTL

\* What is known of the verdict on any path holds of a probe's.
THEOREM ProbedVerdicts ==
    ProbeSpec => /\ [](FiveSilentHopsBlock /\ DeltaFitsVerdict)
                 /\ SilenceIsHarmless /\ PromotionOutlastsTrace
BY ProbeImplementsPath, CutOff, DeltaFits, SilenceHarmless, Outlasts, PTL

-----------------------------------------------------------------------------
\* Without a database of countries no hop has one.
Unlocated == "city" \notin databases => \A i \in DOMAIN hops : hops[i].country = ""

LEMMA UnlocatedInvariant == ProbeSpec => []Unlocated
<1>1. ProbeInit => Unlocated
  <2>1. DOMAIN <<>> = {}
    OBVIOUS
  <2> QED BY <2>1 DEF ProbeInit, Init, Unlocated
<1>2. DatabasesOK /\ PathOK /\ Unlocated /\ [ProbeNext]_probeVars => Unlocated'
  <2> SUFFICES ASSUME DatabasesOK, PathOK, Unlocated, ProbeNext PROVE Unlocated'
    BY DEF probeVars, Unlocated
  <2>1. CASE Run \/ RunFails
    BY <2>1 DEF Run, RunFails, Unlocated
  <2>2. ASSUME NEW samples \in SampleLists, DecodeHop(samples) PROVE Unlocated'
    <3>0. SUFFICES ASSUME "city" \notin databases
                   PROVE  \A i \in DOMAIN hops' : hops'[i].country = ""
      BY <2>2 DEF DecodeHop, Unlocated
    <3>1. HopOf(samples).country = ""
      <4>1. CASE HopOf(samples) = Silent
        <5>1. Silent.country = ""
          BY DEF Silent
        <5> QED BY <4>1, <5>1, Zenon
      <4>2. ASSUME NEW q \in DOMAIN samples,
                   HopOf(samples) = EnrichHop(databases, samples[q])
            PROVE  HopOf(samples).country = ""
        <5>1. EnrichHop(databases, samples[q]).country = ""
          BY <3>0 DEF EnrichHop
        <5> QED BY <4>2, <5>1, Zenon
      <4> QED BY <4>1, <4>2, HopIsSample
    <3>2. hops' = Append(hops, HopOf(samples)) /\ HopOf(samples) \in Hops \cup {Silent}
      BY <2>2, HopIsKnown DEF DecodeHop, Extend
    <3>3. \A i \in DOMAIN hops : hops[i].country = ""
      BY <3>0 DEF Unlocated
    <3> HIDE DEF HopOf
    <3>4. ASSUME NEW i \in DOMAIN hops' PROVE hops'[i].country = ""
      <4>1. /\ Len(hops) \in Nat /\ DOMAIN hops = 1 .. Len(hops)
            /\ DOMAIN hops' = 1 .. Len(hops) + 1
            /\ hops'[Len(hops) + 1] = HopOf(samples)
            /\ \A k \in DOMAIN hops : hops'[k] = hops[k]
        BY <3>2 DEF PathOK, Path
      <4>2. CASE i = Len(hops) + 1
        BY <3>1, <4>1, <4>2
      <4>3. CASE i # Len(hops) + 1
        <5>1. i \in DOMAIN hops
          BY <4>1, <4>3
        <5> QED BY <3>3, <4>1, <5>1, Zenon
      <4> QED BY <4>2, <4>3
    <3> QED BY <3>4
  <2> QED BY <2>1, <2>2 DEF ProbeNext
<1> QED
  BY <1>1, <1>2, DatabasesInvariant, ProbeImplementsPath, PathInvariant, PTL DEF ProbeSpec

\* A process that could not open its database of countries promotes nothing.
THEOREM UnlocatedIsDemoted == ProbeSpec => []UnlocatedIsNotPromoted
<1>1. PathOK /\ Unlocated /\ PromotedOnEvidence => UnlocatedIsNotPromoted
  BY DEF Unlocated, PromotedOnEvidence, UnlocatedIsNotPromoted, Overseas, Responded
<1> QED
  BY <1>1, UnlocatedInvariant, ProbedEvidence, ProbeImplementsPath, PathInvariant, PTL
=============================================================================
