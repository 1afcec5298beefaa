----------------------------- MODULE Classifier -----------------------------
(***************************************************************************)
(* The classification of a traced path (backend/internal/classifier).  A   *)
(* path is the sequence of its hops, one per TTL.  Autonomous systems are  *)
(* taken up to the tables of the code: "cn2" is AS4809, "carrier" any      *)
(* other Chinese carrier with overseas points of presence, "cernet" and    *)
(* "transit" the two other tables, "other" an AS in no table and "none" an *)
(* unknown one.  An address is "private" (or shared, loopback, link-local) *)
(* or "public"; "target" is the public address the probe was sent to.      *)
(* RTTs are in milliseconds.                                               *)
(*                                                                         *)
(* Classify is pure; the one variable grows by one hop per step, so that a *)
(* state is one path and a step relates a path to the one it prolongs.     *)
(***************************************************************************)
EXTENDS Model, Sequences, FiniteSets

CONSTANTS
    Hops,          \* the hops that may respond
    MaxTTL,        \* the length of the longest path
    MaxResponding  \* the number of hops of a path that respond

Hop == [responded : BOOLEAN, ip : {"none", "private", "public", "target"},
        country : {"CN", "US", ""}, rtt : Nat,
        asn : {"cn2", "carrier", "cernet", "transit", "other", "none"}]

\* A hop that did not respond has no address, hence nothing is known of it.
Silent == [responded |-> FALSE, ip |-> "none", country |-> "", rtt |-> 0, asn |-> "none"]

ASSUME ClassifierAssumption ==
    /\ Hops \subseteq {h \in Hop : h.responded /\ h.ip # "none"}
    /\ MaxTTL \in Nat
    /\ MaxResponding \in Nat

VARIABLE hops

Path == Seq(Hops \cup {Silent})

-----------------------------------------------------------------------------
chinaCarrierOverseasAS == {"cn2", "carrier"}
cn2PremiumAS == {"cn2"}
cernetAS == {"cernet"}
foreignTransitAS == {"transit"}

ieplBorderDeltaUpperBoundMS == 5
ieplPrivateEgressMaxRTTMS == 80

asns(path) == {path[i].asn : i \in DOMAIN path} \ {"none"}

containsAnyAS(path, set) == asns(path) \cap set # {}

Overseas(hop) == hop.country \notin {"CN", ""}

\* Hops i and i+1 are both known, on the two sides of the border.
Crossing(path, i) ==
    /\ {i, i + 1} \subseteq DOMAIN path
    /\ path[i].responded /\ path[i + 1].responded
    /\ path[i].country = "CN"
    /\ Overseas(path[i + 1])

\* The loops over the hops decide at the first crossing.
Border(path, i) == Crossing(path, i) /\ \A k \in 1 .. i - 1 : ~Crossing(path, k)

Delta(path, i) == path[i + 1].rtt - path[i].rtt

\* Mutant: the border is given the bound of the other rule for IEPL_Direct.
isIEPLDirect_OtherBound(path) ==
    /\ ~containsAnyAS(path, foreignTransitAS)
    /\ \E i \in DOMAIN path :
          /\ Border(path, i)
          /\ path[i + 1].asn \in chinaCarrierOverseasAS
          /\ Delta(path, i) \in 0 .. ieplPrivateEgressMaxRTTMS

isIEPLDirect(path) ==
    /\ ~containsAnyAS(path, foreignTransitAS)
    /\ \E i \in DOMAIN path :
          /\ Border(path, i)
          /\ path[i + 1].asn \in chinaCarrierOverseasAS
          /\ Delta(path, i) \in 0 .. ieplBorderDeltaUpperBoundMS

isChineseCarrierBorder(path) ==
    \E i \in DOMAIN path : Border(path, i) /\ path[i + 1].asn \in chinaCarrierOverseasAS

Known(hop) == hop.responded /\ hop.ip # "none"

\* Mutant: every public hop replaces the one before.
FirstPublic_Last(path, i) ==
    /\ i \in DOMAIN path
    /\ Known(path[i]) /\ path[i].ip # "private"
    /\ \A k \in i + 1 .. Len(path) : Known(path[k]) => path[k].ip = "private"

\* The first known hop that is not private, the only one the rule looks at.
FirstPublic(path, i) ==
    /\ i \in DOMAIN path
    /\ Known(path[i]) /\ path[i].ip # "private"
    /\ \A k \in 1 .. i - 1 : Known(path[k]) => path[k].ip = "private"

\* Mutant: the private hop before the first public one is not asked for.
isIEPLPrivateEgress_NoLan(path) ==
    /\ ~containsAnyAS(path, chinaCarrierOverseasAS \cup cernetAS)
    /\ \E i \in DOMAIN path :
          /\ FirstPublic(path, i)
          /\ Overseas(path[i])
          /\ path[i].rtt \in 1 .. ieplPrivateEgressMaxRTTMS

isIEPLPrivateEgress(path) ==
    /\ ~containsAnyAS(path, chinaCarrierOverseasAS \cup cernetAS)
    /\ \E i \in DOMAIN path :
          /\ FirstPublic(path, i)
          /\ Overseas(path[i])
          /\ path[i].rtt \in 1 .. ieplPrivateEgressMaxRTTMS
          /\ \E k \in 1 .. i - 1 : Known(path[k])

Responded(path) == {i \in DOMAIN path : path[i].responded}

Reached(path) == \E i \in Responded(path) : path[i].ip = "target"

\* Mutant: the tail is a hop short.
isBlocked_ShortTail(path) ==
    /\ ~Reached(path)
    /\ \A i \in Responded(path) : i <= Len(path) - 4

\* No response from the target, and none in the last five hops.
isBlocked(path) ==
    /\ ~Reached(path)
    /\ \A i \in Responded(path) : i <= Len(path) - 5

\* Mutant: a path that no rule names gets the empty status.
classifyPath_Fallthrough(path) ==
    IF containsAnyAS(path, cn2PremiumAS) /\ isChineseCarrierBorder(path)
        THEN "CN2_Premium"
    ELSE IF isIEPLDirect(path) \/ isIEPLPrivateEgress(path) THEN "IEPL_Direct"
    ELSE IF containsAnyAS(path, cernetAS) THEN "CERNET_Detour"
    ELSE IF isBlocked(path) THEN "Blocked"
    ELSE ""

\* Mutant: the rule on silence comes first.
classifyPath_BlockedFirst(path) ==
    IF isBlocked(path) THEN "Blocked"
    ELSE IF containsAnyAS(path, cn2PremiumAS) /\ isChineseCarrierBorder(path)
        THEN "CN2_Premium"
    ELSE IF isIEPLDirect(path) \/ isIEPLPrivateEgress(path) THEN "IEPL_Direct"
    ELSE IF containsAnyAS(path, cernetAS) THEN "CERNET_Detour"
    ELSE "Standard_163"

\* The order matters: the first rule that applies decides.
classifyPath(path) ==
    IF containsAnyAS(path, cn2PremiumAS) /\ isChineseCarrierBorder(path)
        THEN "CN2_Premium"
    ELSE IF isIEPLDirect(path) \/ isIEPLPrivateEgress(path) THEN "IEPL_Direct"
    ELSE IF containsAnyAS(path, cernetAS) THEN "CERNET_Detour"
    ELSE IF isBlocked(path) THEN "Blocked"
    ELSE "Standard_163"

\* PathMetrics.BorderDeltaMS: 0 unless the rule that decided has set it.
BorderDelta(path) ==
    LET border == CHOOSE i \in DOMAIN path : Border(path, i)
        first  == CHOOSE i \in DOMAIN path : FirstPublic(path, i)
    IN  CASE classifyPath(path) = "CN2_Premium" ->
                IF Delta(path, border) < 0 THEN 0 ELSE Delta(path, border)
          [] classifyPath(path) = "IEPL_Direct" ->
                IF isIEPLDirect(path) THEN Delta(path, border) ELSE path[first].rtt
          [] OTHER -> 0

-----------------------------------------------------------------------------
Init == hops = <<>>

Extend(hop) ==
    /\ Len(hops) < MaxTTL
    /\ hop.responded => Cardinality(Responded(hops)) < MaxResponding
    /\ hops' = Append(hops, hop)

Next == \E hop \in Hops \cup {Silent} : Extend(hop)

Spec == Init /\ [][Next]_hops

-----------------------------------------------------------------------------
(* Properties.                                                             *)

TypeOK == hops \in Path /\ classifyPath(hops) \in ClassificationStatus

Optimized == classifyPath(hops) \in OptimizedStatus

\* A domain is promoted to the rulesets on evidence only: an overseas hop that
\* responded, after another hop that responded.  A path that is all silence, or
\* all inside China, or a single hop, or traced without a database of countries,
\* is never promoted.
PromotedOnEvidence ==
    Optimized => \E i, k \in Responded(hops) : k < i /\ hops[i].country \notin {"CN", ""}

\* Where a Blocked path is cut off decides its verdict: cut within five hops of
\* the last answer it was Standard_163, from there on it is Blocked and stays so,
\* and without any answer it is Blocked however short.
FiveSilentHopsBlock ==
    classifyPath(hops) = "Blocked" =>
        \A n \in 0 .. Len(hops) :
           LET cut == SubSeq(hops, 1, n)
           IN  Responded(cut) = Responded(hops) =>
                  classifyPath(cut) =
                      IF \E i \in Responded(hops) : n < i + 5 THEN "Standard_163" ELSE "Blocked"

\* The delta of a crossing, as it is reported.
Measured(i, delta) ==
    /\ Crossing(hops, i)
    /\ delta = IF Delta(hops, i) < 0 THEN 0 ELSE Delta(hops, i)

\* A delta is reported with a promotion only, and is one of the path's: of a
\* crossing, within 5 ms and onto a Chinese carrier when the domain is called
\* IEPL_Direct for it, or the RTT, within 80 ms, of the overseas hop behind a
\* private network, on a path that no Chinese carrier or CERNET is on.
DeltaFitsVerdict ==
    LET delta == BorderDelta(hops)
    IN  /\ ~Optimized => delta = 0
        /\ classifyPath(hops) = "CN2_Premium" => \E i \in DOMAIN hops : Measured(i, delta)
        /\ classifyPath(hops) = "IEPL_Direct" =>
              \/ /\ delta \in 0 .. 5
                 /\ \E i \in DOMAIN hops :
                       /\ Measured(i, delta)
                       /\ hops[i + 1].asn \in {"cn2", "carrier"}
              \/ /\ delta \in 1 .. 80
                 /\ asns(hops) \cap {"cn2", "carrier", "cernet"} = {}
                 /\ \E i \in Responded(hops) :
                       /\ delta = hops[i].rtt /\ Overseas(hops[i])
                       /\ \A k \in 1 .. i - 1 : hops[k].ip \in {"private", "none"}

\* Silence at the end of a path changes nothing but Standard_163 into Blocked:
\* a longer timeout or a larger MaxTTL neither promotes nor demotes a domain.
SilenceIsHarmless ==
    [][hops' = Append(hops, Silent) =>
          \/ classifyPath(hops') = classifyPath(hops)
          \/ classifyPath(hops) = "Standard_163" /\ classifyPath(hops') = "Blocked"]_hops

\* A promotion does not depend on where beyond its evidence the trace was cut off.
\* CN2_Premium and its delta are decided at the border, and no hop beyond it takes
\* them back, not even a foreign transit or a second crossing; those of an
\* IEPL_Direct withstand a hop that is in none of the tables.
PromotionOutlastsTrace ==
    [][(\/ classifyPath(hops) = "CN2_Premium"
        \/ Optimized /\ hops'[Len(hops')].asn \in {"other", "none"}) =>
          /\ classifyPath(hops') = classifyPath(hops)
          /\ BorderDelta(hops') = BorderDelta(hops)]_hops
=============================================================================
