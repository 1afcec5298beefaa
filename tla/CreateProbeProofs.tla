-------------------------- MODULE CreateProbeProofs --------------------------
(***************************************************************************)
(* Machine-checked proofs about CreateProbe, for any lists that include    *)
(* each other in any way, and any requests, over either store.             *)
(***************************************************************************)
EXTENDS CreateProbe, SequenceTheorems, TLAPS

\* Where the handler is tells what there is.
Shape ==
    /\ pc \notin {"parse url", "parse inline"} => stack = <<>>
    /\ pc \notin {"parse url", "parse inline", "answered"} => domains = {}
    /\ pc = "decode" => list = {}
    /\ pc # "answered" => answer = 0

Root(source) == [source |-> source, set |-> FALSE]

\* The sources that could not be fetched.
Lost == Failed({"live", "over"})

\* Nothing is found that the request does not ask for.
Inside ==
    /\ list \cup domains \cup job \subseteq Asked({})
    /\ \A k \in DOMAIN stack :
          [source |-> stack[k].source, set |-> stack[k].set] \in Reach(world, Listings, {})

\* What a line of a list comes to.
Yields(w, n, x, set, cut) ==
    \/ n \in Added(x, set)
    \/ Included(x) /\ x.value \notin cut /\ n \in Expansion(w, {Named(x)}, cut)

\* What an activation has before it.
Left(w, n, f, cut) ==
    \E i \in DOMAIN w[f.source] : i >= f.next /\ Yields(w, n, w[f.source][i], f.set, cut)

\* A name is found, or it is in what the handler has before it.
Owed(n, cut) ==
    \/ n \in list \/ n \in domains
    \/ \E k \in DOMAIN stack : Left(world, n, stack[k], cut)
    \/ pc = "decode" /\ n \in normalizeDomains(request.domains)
    \/ /\ pc \in {"decode", "url"} /\ request.url # NoSource
       /\ n \in Expansion(world, {Root(request.url)}, cut)
    \/ /\ pc \in {"decode", "url", "parse url", "inline"} /\ request.inline # NoSource
       /\ n \in Expansion(world, {Root(Inline)}, cut)

\* Nothing asked for is forgotten.  It has to be said of every larger set of
\* sources that may fail: a list that fails now may have been read before.
Whole ==
    pc # "answered" => \A cut \in SUBSET Sources : Lost \subseteq cut =>
                           \A n \in Asked(cut) : Owed(n, cut)

\* As long as the context is live no fetch has failed because it had ended, and
\* that remains so of a job that Postgres took.
Timely ==
    ctx = "live" \/ (answer = 202 /\ backend = "postgres") =>
        \A f \in skipped : f.ctx = "live"

Done == answer = 202 => Asked(Lost) \subseteq job

IInv == TypeOK /\ Shape /\ Inside /\ Whole /\ Timely /\ Done

-----------------------------------------------------------------------------
(* What a list stands for.                                                 *)

LEMMA LinesAreLines ==
    ASSUME NEW w \in Worlds, NEW s \in Sources, NEW i \in DOMAIN w[s]
    PROVE  /\ w[s] \in Seq(Line) /\ w[s][i] \in Line
           /\ i \in Nat \ {0}
<1>1. w[s] \in Seq(Line)
  BY ParserAssumption
<1> QED BY <1>1

\* A line that includes a list names one; any other adds names.
LEMMA LineSays ==
    ASSUME NEW x \in Line
    PROVE  /\ Included(x) => Named(x) \in Listing
           /\ \A set : Added(x, set) \subseteq Domains
<1>1. CASE x \in [type : Types \ Includes, value : Domains, ignored : BOOLEAN]
  <2>1. ~Included(x) /\ x.value \in Domains
    BY <1>1 DEF Included
  <2>2. addDomain[x.value] \in Domains \cup {NoDomain}
    BY <2>1, ParserAssumption
  <2> QED BY <2>1, <2>2 DEF Added
<1>2. CASE x \in [type : Includes, value : Sources, ignored : BOOLEAN]
  <2>1. x.value \in Sources /\ x.type \in {"RULE-SET", "DOMAIN-SET"}
    BY <1>2 DEF Includes
  <2>2. Named(x) \in Listing
    BY <2>1 DEF Named, Listing
  <2>3. \A set : Added(x, set) = {}
    BY <2>1 DEF Added
  <2> QED BY <2>2, <2>3
<1> QED BY <1>1, <1>2 DEF Line

LEMMA InclusionsAreListings ==
    ASSUME NEW w \in Worlds, NEW l \in Listing, NEW cut
    PROVE  Inclusions(w, l, cut) \subseteq Listing
<1>1. l.source \in Sources
  BY DEF Listing
<1>2. ASSUME NEW x \in Lines(w, l) PROVE x \in Line
  BY <1>1, LinesAreLines DEF Lines
<1> QED BY <1>2, LineSays DEF Inclusions

LEMMA ReachIsClosed ==
    ASSUME NEW w \in Worlds, NEW from \in SUBSET Listing, NEW cut
    PROVE  /\ from \subseteq Reach(w, from, cut)
           /\ Reach(w, from, cut) \subseteq Listing
           /\ Closed(w, Reach(w, from, cut), cut)
<1>1. from \subseteq Reach(w, from, cut) /\ Reach(w, from, cut) \subseteq Listing
  BY DEF Reach
<1>2. ASSUME NEW l \in Reach(w, from, cut), NEW m \in Inclusions(w, l, cut)
      PROVE  m \in Reach(w, from, cut)
  <2>1. m \in Listing
    BY <1>1, InclusionsAreListings
  <2>2. ASSUME NEW S \in SUBSET Listing, from \subseteq S, Closed(w, S, cut)
        PROVE  m \in S
    <3>1. l \in S
      BY <2>2 DEF Reach
    <3> QED BY <2>2, <3>1 DEF Closed
  <2> QED BY <2>1, <2>2 DEF Reach
<1> QED BY <1>1, <1>2 DEF Closed

LEMMA ReachIsLeast ==
    ASSUME NEW w, NEW from, NEW cut, NEW S \in SUBSET Listing,
           from \subseteq S, Closed(w, S, cut)
    PROVE  Reach(w, from, cut) \subseteq S
BY DEF Reach

\* What is reached from some listings is reached from one of them.
LEMMA ReachEach ==
    ASSUME NEW w \in Worlds, NEW from \in SUBSET Listing, NEW cut
    PROVE  \A l \in Reach(w, from, cut) : \E m \in from : l \in Reach(w, {m}, cut)
<1> DEFINE S == {l \in Listing : \E m \in from : l \in Reach(w, {m}, cut)}
<1>1. \A m \in from : {m} \in SUBSET Listing
  OBVIOUS
<1>2. from \subseteq S
  BY <1>1, ReachIsClosed
<1>3. Closed(w, S, cut)
  <2> SUFFICES ASSUME NEW l \in S, NEW k \in Inclusions(w, l, cut) PROVE k \in S
    BY DEF Closed
  <2>1. PICK m \in from : l \in Reach(w, {m}, cut)
    OBVIOUS
  <2>2. k \in Reach(w, {m}, cut)
    BY <1>1, <2>1, ReachIsClosed DEF Closed
  <2>3. k \in Listing
    BY InclusionsAreListings
  <2> QED BY <2>2, <2>3
<1> HIDE DEF S
<1>4. S \in SUBSET Listing
  BY DEF S
<1>5. Reach(w, from, cut) \subseteq S
  BY <1>2, <1>3, <1>4, ReachIsLeast
<1> QED BY <1>5 DEF S

\* A listing reaches itself and what the listings it includes reach.
LEMMA ReachUnfold ==
    ASSUME NEW w \in Worlds, NEW l \in Listing, NEW cut
    PROVE  \A k \in Reach(w, {l}, cut) :
              k = l \/ \E m \in Inclusions(w, l, cut) : k \in Reach(w, {m}, cut)
<1> DEFINE below == Inclusions(w, l, cut)
           S == {k \in Listing : k = l \/ \E m \in below : k \in Reach(w, {m}, cut)}
<1>1. below \subseteq Listing /\ \A m \in below : {m} \in SUBSET Listing
  BY InclusionsAreListings
<1>2. Closed(w, S, cut)
  <2> SUFFICES ASSUME NEW k \in S, NEW m \in Inclusions(w, k, cut) PROVE m \in S
    BY DEF Closed
  <2>0. m \in Listing
    BY InclusionsAreListings
  <2>1. CASE k = l
    BY <1>1, <2>0, <2>1, ReachIsClosed
  <2>2. CASE k # l
    <3>1. PICK b \in below : k \in Reach(w, {b}, cut)
      BY <2>2
    <3>2. m \in Reach(w, {b}, cut)
      BY <1>1, <3>1, ReachIsClosed DEF Closed
    <3> QED BY <2>0, <3>2
  <2> QED BY <2>1, <2>2
<1>3. {l} \subseteq S
  OBVIOUS
<1> HIDE DEF S
<1>4. S \in SUBSET Listing
  BY DEF S
<1>5. Reach(w, {l}, cut) \subseteq S
  BY <1>2, <1>3, <1>4, ReachIsLeast
<1> QED BY <1>5 DEF S

LEMMA InExpansion ==
    ASSUME NEW w, NEW from, NEW cut, NEW n
    PROVE  n \in Expansion(w, from, cut) <=>
              \E l \in Reach(w, from, cut) : \E x \in Lines(w, l) : n \in Added(x, l.set)
BY DEF Expansion

\* A list is what its lines come to.
LEMMA ExpansionUnfold ==
    ASSUME NEW w \in Worlds, NEW l \in Listing, NEW cut, NEW n \in Expansion(w, {l}, cut)
    PROVE  \E x \in Lines(w, l) : Yields(w, n, x, l.set, cut)
<1>1. PICK k \in Reach(w, {l}, cut) : \E x \in Lines(w, k) : n \in Added(x, k.set)
  BY InExpansion
<1>2. CASE k = l
  BY <1>1, <1>2 DEF Yields
<1>3. CASE k # l
  <2>1. PICK m \in Inclusions(w, l, cut) : k \in Reach(w, {m}, cut)
    BY <1>1, <1>3, ReachUnfold
  <2>2. n \in Expansion(w, {m}, cut)
    BY <1>1, <2>1, InExpansion
  <2>3. PICK x \in Lines(w, l) : Included(x) /\ x.value \notin cut /\ m = Named(x)
    BY <2>1 DEF Inclusions
  <2> QED BY <2>2, <2>3 DEF Yields
<1> QED BY <1>2, <1>3

LEMMA ExpansionEach ==
    ASSUME NEW w \in Worlds, NEW from \in SUBSET Listing, NEW cut,
           NEW n \in Expansion(w, from, cut)
    PROVE  \E m \in from : n \in Expansion(w, {m}, cut)
<1>1. PICK k \in Reach(w, from, cut) : \E x \in Lines(w, k) : n \in Added(x, k.set)
  BY InExpansion
<1>2. PICK m \in from : k \in Reach(w, {m}, cut)
  BY ReachEach
<1> QED BY <1>1, <1>2, InExpansion

\* A list that is opened has all its lines before it.
LEMMA OpenLeft ==
    ASSUME NEW w \in Worlds, NEW s \in Sources, NEW set \in BOOLEAN, NEW cut,
           NEW n \in Expansion(w, {[source |-> s, set |-> set]}, cut)
    PROVE  Left(w, n, Open(s, set), cut)
<1> DEFINE l == [source |-> s, set |-> set]
<1>1. l \in Listing /\ l.source = s /\ l.set = set
  BY DEF Listing
<1> HIDE DEF l
<1>2. PICK x \in Lines(w, l) : Yields(w, n, x, set, cut)
  BY <1>1, ExpansionUnfold DEF l
<1>3. PICK i \in DOMAIN w[s] : x = w[s][i]
  BY <1>1, <1>2 DEF Lines
<1>4. i >= 1
  BY <1>3, LinesAreLines
<1>5. Open(s, set).source = s /\ Open(s, set).set = set /\ Open(s, set).next = 1
  BY DEF Open
<1> QED BY <1>2, <1>3, <1>4, <1>5 DEF Left

LEMMA OpenIsFrame ==
    ASSUME NEW s \in Sources, NEW set \in BOOLEAN
    PROVE  /\ Open(s, set) \in Frame
           /\ Open(s, set).source = s /\ Open(s, set).set = set
BY DEF Open, Frame

-----------------------------------------------------------------------------
(* The stack.                                                              *)

LEMMA NoStack ==
    <<>> \in Seq(Frame) /\ DOMAIN <<>> = {} /\ Len(<<>>) = 0
<1>1. Len(<<>>) = 0
  OBVIOUS
<1>2. <<>> \in Seq(Frame) /\ DOMAIN <<>> = {}
  OBVIOUS
<1> QED BY <1>1, <1>2

LEMMA OneFrame ==
    ASSUME NEW f \in Frame
    PROVE  /\ <<f>> \in Seq(Frame) /\ DOMAIN <<f>> = {1} /\ <<f>>[1] = f
<1>1. Len(<<f>>) = 1 /\ <<f>>[1] = f /\ DOMAIN <<f>> = {1}
  OBVIOUS
<1>2. <<f>> \in Seq(Frame)
  OBVIOUS
<1> QED BY <1>1, <1>2

LEMMA Stacked ==
    ASSUME stack \in Seq(Frame), stack # <<>>
    PROVE  /\ Len(stack) \in Nat \ {0} /\ DOMAIN stack = 1 .. Len(stack)
           /\ Top \in Frame
           /\ Rest \in Seq(Frame) /\ Len(Rest) = Len(stack) - 1
           /\ \A k \in 1 .. Len(stack) - 1 : Rest[k] = stack[k]
<1>1. Len(stack) \in Nat \ {0} /\ DOMAIN stack = 1 .. Len(stack)
  BY EmptySeq
<1>2. Top \in Frame
  BY <1>1 DEF Top
<1>3. /\ Rest \in Seq(Frame) /\ Len(Rest) = Len(stack) - 1
      /\ \A k \in 1 .. Len(stack) - 1 : Rest[k] = stack[k]
  BY <1>1, SubSeqProperties DEF Rest
<1> QED BY <1>1, <1>2, <1>3

LEMMA Pushed ==
    ASSUME stack \in Seq(Frame), stack # <<>>, NEW f
    PROVE  LET t == Append(Rest, f)
           IN  /\ f \in Frame => t \in Seq(Frame)
               /\ Len(t) = Len(stack) /\ DOMAIN t = 1 .. Len(stack)
               /\ \A k \in 1 .. Len(stack) - 1 : t[k] = stack[k]
               /\ t[Len(stack)] = f
<1> DEFINE F == Frame \cup {f}
           t == Append(Rest, f)
<1>1. f \in Frame => t \in Seq(Frame)
  BY Stacked, AppendProperties
<1>2. Rest \in Seq(F) /\ f \in F
  BY Stacked
<1>3. /\ t \in Seq(F) /\ Len(t) = Len(Rest) + 1
      /\ \A k \in 1 .. Len(Rest) : t[k] = Rest[k]
      /\ t[Len(Rest) + 1] = f
  <2> HIDE DEF F
  <2> QED BY <1>2, AppendProperties
<1>4. DOMAIN t = 1 .. Len(t)
  BY <1>3
<1> HIDE DEF t
<1>5. Len(Rest) = Len(stack) - 1 /\ Len(stack) \in Nat \ {0}
  BY Stacked
<1>6. Len(t) = Len(stack) /\ t[Len(stack)] = f
  BY <1>3, <1>5
<1>7. \A k \in 1 .. Len(stack) - 1 : t[k] = stack[k]
  BY <1>3, <1>5, Stacked
<1> QED BY <1>1, <1>4, <1>6, <1>7 DEF t

LEMMA AdvancedStack ==
    ASSUME stack \in Seq(Frame), stack # <<>>
    PROVE  /\ Advanced \in Seq(Frame) /\ Len(Advanced) = Len(stack)
           /\ DOMAIN Advanced = DOMAIN stack
           /\ \A k \in 1 .. Len(stack) - 1 : Advanced[k] = stack[k]
           /\ Advanced[Len(stack)].source = Top.source
           /\ Advanced[Len(stack)].set = Top.set
           /\ Advanced[Len(stack)].next = Top.next + 1
<1> DEFINE f == [Top EXCEPT !.next = @ + 1]
<1>1. /\ f \in Frame /\ f.source = Top.source /\ f.set = Top.set /\ f.next = Top.next + 1
  <2>1. Top \in Frame
    BY Stacked
  <2>2. Top.next + 1 \in Nat \ {0}
    BY <2>1 DEF Frame
  <2>3. /\ f.source = Top.source /\ f.set = Top.set /\ f.next = Top.next + 1
    BY <2>1 DEF Frame
  <2>4. f \in Frame
    BY <2>1, <2>2 DEF Frame
  <2> QED BY <2>3, <2>4
<1> HIDE DEF f
<1>2. Advanced = Append(Rest, f)
  BY DEF Advanced, f
<1> QED BY <1>1, <1>2, Pushed, Stacked

\* The line that is scanned is a line of the listing on the top.
LEMMA ScannedLine ==
    ASSUME world \in Worlds, stack \in Seq(Frame), Scanning
    PROVE  /\ stack # <<>> /\ Top.source \in Sources /\ Top.set \in BOOLEAN
           /\ Top.next \in DOMAIN world[Top.source]
           /\ Scanned \in Line
           /\ Scanned \in Lines(world, [source |-> Top.source, set |-> Top.set])
<1>1. stack # <<>> /\ Top \in Frame
  BY Stacked DEF Scanning
<1>2. Top.source \in Sources /\ Top.set \in BOOLEAN /\ Top.next \in Nat \ {0}
  BY <1>1 DEF Frame
<1>3. world[Top.source] \in Seq(Line)
  BY <1>2, ParserAssumption
<1>4. Top.next \in DOMAIN world[Top.source] /\ Scanned \in Line
  BY <1>2, <1>3 DEF Scanning, Scanned
<1> QED BY <1>1, <1>2, <1>4 DEF Lines, Scanned

\* What is left before a line is scanned is what the line comes to and what is
\* left after it.
LEMMA LeftAdvanced ==
    ASSUME world \in Worlds, stack \in Seq(Frame), Scanning,
           NEW n, NEW cut, NEW k \in DOMAIN stack, Left(world, n, stack[k], cut)
    PROVE  \/ Yields(world, n, Scanned, Top.set, cut)
           \/ \E j \in DOMAIN Advanced : Left(world, n, Advanced[j], cut)
<1>1. stack # <<>>
  BY DEF Scanning
<1>2. CASE k # Len(stack)
  <2>1. k \in 1 .. Len(stack) - 1 /\ k \in DOMAIN Advanced
    BY <1>1, <1>2, Stacked, AdvancedStack
  <2> QED BY <1>1, <2>1, AdvancedStack
<1>3. CASE k = Len(stack)
  <2>1. stack[k] = Top /\ Top \in Frame /\ Top.next \in Nat
    BY <1>1, <1>3, Stacked DEF Top, Frame
  <2>2. PICK i \in DOMAIN world[Top.source] :
           i >= Top.next /\ Yields(world, n, world[Top.source][i], Top.set, cut)
    BY <2>1 DEF Left
  <2>3. i \in Nat
    BY <2>1, <2>2, LinesAreLines DEF Frame
  <2>4. CASE i = Top.next
    BY <2>2, <2>4 DEF Scanned
  <2>5. CASE i # Top.next
    <3>1. i >= Top.next + 1
      BY <2>1, <2>2, <2>3, <2>5
    <3>2. Left(world, n, Advanced[Len(stack)], cut)
      BY <1>1, <2>2, <3>1, AdvancedStack DEF Left
    <3>3. Len(stack) \in DOMAIN Advanced
      BY <1>1, Stacked, AdvancedStack
    <3> QED BY <3>2, <3>3
  <2> QED BY <2>4, <2>5
<1> QED BY <1>2, <1>3

\* Nothing is left of a list that is scanned to its end.
LEMMA NothingLeft ==
    ASSUME world \in Worlds, stack \in Seq(Frame), stack # <<>>, ~Scanning,
           NEW n, NEW cut
    PROVE  ~Left(world, n, Top, cut)
<1>1. Top \in Frame
  BY Stacked
<1>2. Top.source \in Sources /\ Top.next \in Nat
  BY <1>1 DEF Frame
<1>3. world[Top.source] \in Seq(Line)
  BY <1>2, ParserAssumption
<1>4. ~(Top.next <= Len(world[Top.source]))
  BY DEF Scanning
<1>5. \A i \in DOMAIN world[Top.source] : ~(i >= Top.next)
  BY <1>2, <1>3, <1>4
<1> QED BY <1>5 DEF Left

-----------------------------------------------------------------------------
(* The request and what it asks for.                                       *)

LEMMA Roots ==
    ASSUME TypeOK
    PROVE  /\ request.domains \subseteq Domains
           /\ request.url # NoSource => request.url \in Sources /\ Root(request.url) \in Listings
           /\ Inline \in Sources
           /\ request.inline # NoSource => Root(Inline) \in Listings
           /\ \A m \in Listings : \/ request.url # NoSource /\ m = Root(request.url)
                                  \/ request.inline # NoSource /\ m = Root(Inline)
           /\ Listings \subseteq Listing
<1>1. request \in Request
  BY ProbeAssumption DEF TypeOK
<1>2. /\ request.domains \subseteq Domains
      /\ request.url # NoSource => request.url \in Sources
      /\ Inline \in Sources
  BY <1>1, ProbeAssumption, ParserAssumption DEF Request
<1>3. \A x : Open(x, FALSE).source = x /\ Open(x, FALSE).set = FALSE
  BY DEF Open
<1>4. \A m : m \in Listings <=> \/ request.url # NoSource /\ m = Root(request.url)
                                \/ request.inline # NoSource /\ m = Root(Inline)
  BY <1>3 DEF Listings, Lists, Root
<1>5. \A x \in Sources : Root(x) \in Listing
  BY DEF Root, Listing
<1> QED BY <1>2, <1>4, <1>5

LEMMA NormalizedNames ==
    ASSUME NEW names \in SUBSET Domains
    PROVE  normalizeDomains(names) \subseteq Domains
BY ParserAssumption DEF normalizeDomains

LEMMA AskedStays ==
    ASSUME UNCHANGED <<world, request>>
    PROVE  /\ Listings' = Listings
           /\ \A cut : Asked(cut)' = Asked(cut)
           /\ \A cut : Reach(world, Listings, cut)' = Reach(world, Listings, cut)
<1>1. Listings' = Listings
  BY DEF Listings, Lists
<1> QED BY <1>1 DEF Asked

LEMMA TypeFacts ==
    ASSUME IInv
    PROVE  /\ TypeOK /\ world \in Worlds /\ stack \in Seq(Frame)
           /\ Listings \in SUBSET Listing
BY Roots DEF IInv, TypeOK, ParserTypeOK

\* A line that is scanned adds what is asked for and includes what is reached.
LEMMA ScannedInside ==
    ASSUME IInv, Scanning
    PROVE  /\ Added(Scanned, Top.set) \subseteq Asked({})
           /\ Included(Scanned) => Named(Scanned) \in Reach(world, Listings, {})
<1> DEFINE l == [source |-> Top.source, set |-> Top.set]
<1>1. Scanned \in Lines(world, l)
  BY TypeFacts, ScannedLine
<1>2. l \in Reach(world, Listings, {}) /\ l.set = Top.set
  <2>1. stack # <<>> /\ Len(stack) \in DOMAIN stack
    BY TypeFacts, ScannedLine, Stacked
  <2> QED BY <2>1 DEF IInv, Inside, Top
<1> HIDE DEF l
<1>3. Added(Scanned, Top.set) \subseteq Asked({})
  BY <1>1, <1>2, InExpansion DEF Asked
<1>4. ASSUME Included(Scanned) PROVE Named(Scanned) \in Reach(world, Listings, {})
  <2>1. Named(Scanned) \in Inclusions(world, l, {})
    BY <1>1, <1>4 DEF Inclusions
  <2> QED BY <1>2, <2>1, TypeFacts, ReachIsClosed DEF Closed
<1> QED BY <1>3, <1>4

-----------------------------------------------------------------------------
(* What the steps have in common.                                          *)

\* A step of the handler that does not answer may forget no name.
LEMMA HandlerStep ==
    ASSUME IInv, pc # "answered", pc' # "answered", UNCHANGED <<world, request>>,
           TypeOK', Shape',
           list' \cup domains' \cup job' \subseteq Asked({}),
           \A k \in DOMAIN stack' :
              [source |-> stack'[k].source, set |-> stack'[k].set]
                  \in Reach(world, Listings, {}),
           UNCHANGED ctx, skipped \subseteq skipped',
           \A f \in skipped' : f \in skipped \/ f.ctx = ctx,
           \A cut \in SUBSET Sources : \A n :
              Lost' \subseteq cut /\ Owed(n, cut) => Owed(n, cut)'
    PROVE  IInv'
<1>1. Inside'
  BY AskedStays DEF Inside
<1>2. Whole'
  <2> SUFFICES ASSUME NEW cut \in SUBSET Sources, Lost' \subseteq cut,
                      NEW n \in Asked(cut)'
               PROVE  Owed(n, cut)'
    BY DEF Whole
  <2>1. n \in Asked(cut) /\ Lost \subseteq cut
    BY AskedStays DEF Lost, Failed
  <2>2. Owed(n, cut)
    BY <2>1 DEF IInv, Whole
  <2> QED BY <2>2
<1>3. answer' # 202
  <2>1. answer' = 0
    BY DEF Shape
  <2> QED BY <2>1
<1>4. Done'
  BY <1>3 DEF Done
<1>5. Timely'
  BY <1>3 DEF IInv, Timely
<1> QED BY <1>1, <1>2, <1>4, <1>5, Zenon DEF IInv

LEMMA ParserTypes ==
    ASSUME TypeOK, UNCHANGED <<world, ctx, backend, request, pc, list, answer, job>>,
           stack' \in Seq(Frame),
           skipped' \subseteq Failure, domains' \subseteq Domains
    PROVE  TypeOK'
<1>1. ParserTypeOK'
  BY DEF TypeOK, ParserTypeOK
<1>2. backend' = backend /\ request' = request /\ pc' = pc /\ list' = list
      /\ answer' = answer /\ job' = job
  OBVIOUS
<1> QED BY <1>1, <1>2 DEF TypeOK

\* A step of the parser may forget none of what its activations have left.
LEMMA ParserStep ==
    ASSUME IInv, stack # <<>>, pc # "answered",
           UNCHANGED <<world, ctx, backend, request, pc, list, answer, job>>,
           stack' \in Seq(Frame),
           skipped \subseteq skipped', skipped' \subseteq Failure,
           \A f \in skipped' : f \in skipped \/ f.ctx = ctx,
           domains \subseteq domains', domains' \subseteq Domains,
           domains' \subseteq Asked({}),
           \A k \in DOMAIN stack' :
              [source |-> stack'[k].source, set |-> stack'[k].set]
                  \in Reach(world, Listings, {}),
           \A cut \in SUBSET Sources : \A n : \A k \in DOMAIN stack :
              Lost' \subseteq cut /\ Left(world, n, stack[k], cut) =>
                 \/ n \in domains'
                 \/ \E j \in DOMAIN stack' : Left(world, n, stack'[j], cut)
    PROVE  IInv'
<1>1. TypeOK'
  BY ParserTypes, TypeFacts
<1>2. pc \in {"parse url", "parse inline"}
  BY DEF IInv, Shape
<1>3. Shape'
  BY <1>2 DEF IInv, Shape
<1>4. list' \cup domains' \cup job' \subseteq Asked({})
  BY DEF IInv, Inside
<1>5. ASSUME NEW cut \in SUBSET Sources, NEW n, Lost' \subseteq cut, Owed(n, cut)
      PROVE  Owed(n, cut)'
  <2>1. CASE n \in list \/ n \in domains
    BY <2>1 DEF Owed
  <2>2. CASE \E k \in DOMAIN stack : Left(world, n, stack[k], cut)
    BY <1>5, <2>2 DEF Owed
  <2>3. CASE pc = "parse url" /\ request.inline # NoSource
             /\ n \in Expansion(world, {Root(Inline)}, cut)
    BY <2>3 DEF Owed
  <2> QED BY <1>2, <1>5, <2>1, <2>2, <2>3 DEF Owed
<1> QED BY <1>1, <1>3, <1>4, <1>5, HandlerStep

\* An answer that refuses needs nothing more.
LEMMA RefusalStep ==
    ASSUME IInv, NEW status \in {400, 500, 502}, Answer(status),
           stack' = <<>>, UNCHANGED <<world, ctx, domains, skipped>>
    PROVE  IInv'
<1>1. TypeOK'
  <2>1. stack' \in Seq(Frame)
    BY ParserAssumption
  <2>2. ParserTypeOK'
    BY <2>1 DEF IInv, TypeOK, ParserTypeOK
  <2> QED BY <2>2 DEF IInv, TypeOK, Answer, Code
<1>2. Shape' /\ Whole' /\ answer' # 202
  BY DEF Shape, Whole, Answer
<1>3. Inside'
  <2>1. DOMAIN stack' = {}
    OBVIOUS
  <2>2. UNCHANGED <<world, request, list, job>>
    BY DEF Answer
  <2> QED BY <2>1, <2>2, AskedStays DEF IInv, Inside
<1>4. Timely' /\ Done'
  BY <1>2 DEF IInv, Timely, Done
<1> QED BY <1>1, <1>2, <1>3, <1>4 DEF IInv

-----------------------------------------------------------------------------
(* The steps of the parser.                                                *)

\* A step of Scan leaves the handler where it is.
Still == UNCHANGED <<world, ctx, backend, request, pc, list, answer, job>>

\* Behind a line the activations are those of before.
LEMMA AdvancedInside ==
    ASSUME IInv, Scanning
    PROVE  \A k \in DOMAIN Advanced :
              [source |-> Advanced[k].source, set |-> Advanced[k].set]
                  \in Reach(world, Listings, {})
<1>1. stack \in Seq(Frame) /\ stack # <<>>
  BY TypeFacts, ScannedLine
<1>2. \A k \in DOMAIN Advanced : /\ Advanced[k].source = stack[k].source
                                 /\ Advanced[k].set = stack[k].set
                                 /\ k \in DOMAIN stack
  BY <1>1, Stacked, AdvancedStack DEF Top
<1> QED BY <1>2 DEF IInv, Inside

LEMMA AddLineStep ==
    ASSUME IInv, AddLine, Still
    PROVE  IInv'
<1>1. /\ world \in Worlds /\ stack \in Seq(Frame) /\ stack # <<>> /\ Scanning
      /\ domains \subseteq Domains /\ skipped \subseteq Failure
      /\ domains \subseteq Asked({}) /\ pc # "answered"
  BY TypeFacts, ScannedLine DEF AddLine, IInv, TypeOK, ParserTypeOK, Inside, Shape
<1>2. /\ stack' = Advanced /\ skipped' = skipped
      /\ domains' = domains \cup Added(Scanned, Top.set) /\ ~Included(Scanned)
  BY DEF AddLine
<1>3. Added(Scanned, Top.set) \subseteq Domains
  BY <1>1, ScannedLine, LineSays
<1>4. Added(Scanned, Top.set) \subseteq Asked({})
  BY <1>1, ScannedInside
<1>5. ASSUME NEW cut \in SUBSET Sources, NEW n, NEW k \in DOMAIN stack,
             Lost' \subseteq cut, Left(world, n, stack[k], cut)
      PROVE  n \in domains' \/ \E j \in DOMAIN stack' : Left(world, n, stack'[j], cut)
  <2>1. \/ Yields(world, n, Scanned, Top.set, cut)
        \/ \E j \in DOMAIN Advanced : Left(world, n, Advanced[j], cut)
    BY <1>1, <1>5, LeftAdvanced
  <2> QED BY <1>2, <2>1 DEF Yields
<1>6. stack' \in Seq(Frame)
  BY <1>1, <1>2, AdvancedStack
<1>7. domains \subseteq domains' /\ domains' \subseteq Domains /\ domains' \subseteq Asked({})
  BY <1>1, <1>2, <1>3, <1>4
<1>8. \A k \in DOMAIN stack' : [source |-> stack'[k].source, set |-> stack'[k].set]
                                   \in Reach(world, Listings, {})
  BY <1>1, <1>2, AdvancedInside
<1> QED BY <1>1, <1>2, <1>5, <1>6, <1>7, <1>8, ParserStep DEF Still

LEMMA SkipIncludeStep ==
    ASSUME IInv, SkipInclude, Still
    PROVE  IInv'
<1>1. /\ world \in Worlds /\ stack \in Seq(Frame) /\ stack # <<>> /\ Scanning
      /\ domains \subseteq Domains /\ skipped \subseteq Failure
      /\ domains \subseteq Asked({}) /\ pc # "answered"
  BY TypeFacts, ScannedLine DEF SkipInclude, IInv, TypeOK, ParserTypeOK, Inside, Shape
<1>2. /\ stack' = Advanced /\ domains' = domains /\ Included(Scanned)
      /\ skipped' = skipped \cup {[source |-> Scanned.value, ctx |-> ctx]}
  BY DEF SkipInclude
<1>3. /\ [source |-> Scanned.value, ctx |-> ctx] \in Failure
      /\ Scanned.value \in Lost'
  <2>1. Scanned.value \in Sources
    BY <1>1, <1>2, ScannedLine, LineSays DEF Named, Listing
  <2>2. ctx \in {"live", "over"}
    BY DEF IInv, TypeOK, ParserTypeOK
  <2>3. PICK f : f = [source |-> Scanned.value, ctx |-> ctx]
    OBVIOUS
  <2>4. f \in Failure /\ f.source = Scanned.value /\ f.ctx \in {"live", "over"}
    BY <2>1, <2>2, <2>3 DEF Failure
  <2>5. f \in skipped'
    BY <1>2, <2>3
  <2>6. f.source \in Lost'
    BY <2>4, <2>5 DEF Lost, Failed
  <2> QED BY <2>3, <2>4, <2>6
<1>4. ASSUME NEW cut \in SUBSET Sources, NEW n, NEW k \in DOMAIN stack,
             Lost' \subseteq cut, Left(world, n, stack[k], cut)
      PROVE  n \in domains' \/ \E j \in DOMAIN stack' : Left(world, n, stack'[j], cut)
  <2>1. \/ Yields(world, n, Scanned, Top.set, cut)
        \/ \E j \in DOMAIN Advanced : Left(world, n, Advanced[j], cut)
    BY <1>1, <1>4, LeftAdvanced
  <2>2. Added(Scanned, Top.set) = {} /\ Scanned.value \in cut
    BY <1>2, <1>3, <1>4 DEF Included, Includes, Added
  <2> QED BY <1>2, <2>1, <2>2 DEF Yields
<1>5. stack' \in Seq(Frame)
  BY <1>1, <1>2, AdvancedStack
<1>6. \A k \in DOMAIN stack' : [source |-> stack'[k].source, set |-> stack'[k].set]
                                   \in Reach(world, Listings, {})
  BY <1>1, <1>2, AdvancedInside
<1>7. /\ skipped \subseteq skipped' /\ skipped' \subseteq Failure
      /\ \A f \in skipped' : f \in skipped \/ f.ctx = ctx
  BY <1>1, <1>2, <1>3
<1> QED BY <1>1, <1>2, <1>4, <1>5, <1>6, <1>7, ParserStep DEF Still

LEMMA IncludeStep ==
    ASSUME IInv, Include, Still
    PROVE  IInv'
<1> DEFINE set == Scanned.type = "DOMAIN-SET"
           source == Scanned.value
           f == Open(source, set)
<1>1. /\ world \in Worlds /\ stack \in Seq(Frame) /\ stack # <<>> /\ Scanning
      /\ domains \subseteq Domains /\ skipped \subseteq Failure
      /\ domains \subseteq Asked({}) /\ pc # "answered"
  BY TypeFacts, ScannedLine
     DEF Include, Fetchable, IInv, TypeOK, ParserTypeOK, Inside, Shape
<1>2. /\ stack' = Append(Advanced, f) /\ domains' = domains /\ skipped' = skipped
      /\ Included(Scanned)
  BY DEF Include
<1>3. /\ source \in Sources /\ set \in BOOLEAN
      /\ Named(Scanned) = [source |-> source, set |-> set]
  BY <1>1, <1>2, ScannedLine, LineSays DEF Named, Listing
<1>4. f \in Frame /\ f.source = source /\ f.set = set
  BY <1>3, OpenIsFrame
<1>5. /\ Advanced \in Seq(Frame) /\ Len(Advanced) = Len(stack) /\ Len(stack) \in Nat \ {0}
      /\ DOMAIN Advanced = 1 .. Len(stack)
  BY <1>1, Stacked, AdvancedStack
<1>6. /\ stack' \in Seq(Frame) /\ Len(stack') = Len(stack) + 1
      /\ DOMAIN stack' = 1 .. Len(stack) + 1
      /\ \A k \in 1 .. Len(stack) : stack'[k] = Advanced[k]
      /\ stack'[Len(stack) + 1] = f
  <2> HIDE DEF f
  <2>1. /\ stack' \in Seq(Frame) /\ Len(stack') = Len(stack) + 1
        /\ \A k \in 1 .. Len(stack) : stack'[k] = Advanced[k]
        /\ stack'[Len(stack) + 1] = f
    BY <1>2, <1>4, <1>5, AppendProperties
  <2> QED BY <2>1
<1> HIDE DEF f
<1>7. ASSUME NEW cut \in SUBSET Sources, NEW n, NEW k \in DOMAIN stack,
             Lost' \subseteq cut, Left(world, n, stack[k], cut)
      PROVE  n \in domains' \/ \E j \in DOMAIN stack' : Left(world, n, stack'[j], cut)
  <2>1. \/ Yields(world, n, Scanned, Top.set, cut)
        \/ \E j \in DOMAIN Advanced : Left(world, n, Advanced[j], cut)
    BY <1>1, <1>7, LeftAdvanced
  <2>2. CASE Yields(world, n, Scanned, Top.set, cut)
    <3>1. Added(Scanned, Top.set) = {}
      BY <1>2 DEF Included, Includes, Added
    <3>2. n \in Expansion(world, {[source |-> source, set |-> set]}, cut)
      BY <1>3, <2>2, <3>1 DEF Yields
    <3>3. Left(world, n, f, cut)
      BY <1>1, <1>3, <3>2, OpenLeft DEF f
    <3>4. Len(stack) + 1 \in DOMAIN stack'
      BY <1>5, <1>6
    <3> QED BY <1>6, <3>3, <3>4
  <2>3. CASE \E j \in DOMAIN Advanced : Left(world, n, Advanced[j], cut)
    <3>1. PICK j \in 1 .. Len(stack) : Left(world, n, Advanced[j], cut)
      BY <1>5, <2>3
    <3>2. j \in DOMAIN stack' /\ stack'[j] = Advanced[j]
      BY <1>5, <1>6
    <3> QED BY <3>1, <3>2
  <2> QED BY <2>1, <2>2, <2>3
<1>8. \A k \in DOMAIN stack' : [source |-> stack'[k].source, set |-> stack'[k].set]
                                   \in Reach(world, Listings, {})
  <2> SUFFICES ASSUME NEW k \in DOMAIN stack'
               PROVE  [source |-> stack'[k].source, set |-> stack'[k].set]
                          \in Reach(world, Listings, {})
    OBVIOUS
  <2>1. CASE k = Len(stack) + 1
    <3>1. Named(Scanned) \in Reach(world, Listings, {})
      BY <1>1, <1>2, ScannedInside
    <3> QED BY <1>3, <1>4, <1>6, <2>1, <3>1
  <2>2. CASE k # Len(stack) + 1
    <3>1. k \in DOMAIN Advanced /\ stack'[k] = Advanced[k]
      BY <1>5, <1>6, <2>2
    <3> QED BY <1>1, <3>1, AdvancedInside
  <2> QED BY <2>1, <2>2
<1> QED BY <1>1, <1>2, <1>6, <1>7, <1>8, ParserStep DEF Still

LEMMA ReturnStep ==
    ASSUME IInv, Return, Still
    PROVE  IInv'
<1>1. /\ world \in Worlds /\ stack \in Seq(Frame)
      /\ domains \subseteq Domains /\ skipped \subseteq Failure
      /\ domains \subseteq Asked({})
      /\ Len(stack) > 1 /\ ~Scanning
  BY TypeFacts DEF Return, IInv, TypeOK, ParserTypeOK, Inside
<1>2. stack # <<>>
  BY <1>1, NoStack
<1>3. stack' = Rest /\ domains' = domains /\ skipped' = skipped /\ pc # "answered"
  BY <1>2 DEF Return, IInv, Shape
<1>4. /\ Rest \in Seq(Frame) /\ Len(Rest) = Len(stack) - 1 /\ Len(stack) \in Nat
      /\ DOMAIN Rest = 1 .. Len(stack) - 1 /\ DOMAIN stack = 1 .. Len(stack)
      /\ \A k \in 1 .. Len(stack) - 1 : Rest[k] = stack[k]
  <2>1. /\ Rest \in Seq(Frame) /\ Len(Rest) = Len(stack) - 1 /\ Len(stack) \in Nat
        /\ DOMAIN stack = 1 .. Len(stack)
        /\ \A k \in 1 .. Len(stack) - 1 : Rest[k] = stack[k]
    BY <1>1, <1>2, Stacked
  <2>2. DOMAIN Rest = 1 .. Len(Rest)
    BY <2>1
  <2> QED BY <2>1, <2>2
<1>5. ASSUME NEW cut \in SUBSET Sources, NEW n, NEW k \in DOMAIN stack,
             Lost' \subseteq cut, Left(world, n, stack[k], cut)
      PROVE  n \in domains' \/ \E j \in DOMAIN stack' : Left(world, n, stack'[j], cut)
  <2>1. k # Len(stack)
    BY <1>1, <1>2, <1>5, NothingLeft DEF Top
  <2>2. k \in 1 .. Len(stack) - 1
    BY <1>4, <2>1
  <2> QED BY <1>3, <1>4, <1>5, <2>2
<1>6. \A k \in DOMAIN stack' : [source |-> stack'[k].source, set |-> stack'[k].set]
                                   \in Reach(world, Listings, {})
  BY <1>3, <1>4 DEF IInv, Inside
<1> QED BY <1>1, <1>2, <1>3, <1>4, <1>5, <1>6, ParserStep DEF Still

-----------------------------------------------------------------------------
(* The steps of the handler.                                               *)

\* Where the handler parses nothing it has no activation and has found nothing
\* that is not in its list.
LEMMA AtInput ==
    ASSUME IInv, pc \notin {"parse url", "parse inline", "answered"}
    PROVE  /\ stack = <<>> /\ DOMAIN stack = {} /\ domains = {} /\ answer = 0
           /\ list \subseteq Domains /\ list \cup job \subseteq Asked({})
<1>1. stack = <<>> /\ domains = {} /\ answer = 0
  BY DEF IInv, Shape
<1>2. list \subseteq Domains /\ list \cup job \subseteq Asked({})
  BY DEF IInv, TypeOK, Inside
<1> QED BY <1>1, <1>2, NoStack

LEMMA InitInv == Init => IInv
<1> SUFFICES ASSUME Init PROVE IInv
  OBVIOUS
<1>1. TypeOK
  <2>1. <<>> \in Seq(Frame)
    BY ParserAssumption
  <2> QED BY <2>1 DEF Init, ParserInit, TypeOK, ParserTypeOK, Code
<1>2. Shape /\ answer # 202 /\ pc = "decode"
  BY DEF Init, ParserInit, Shape
<1>3. Inside
  <2>1. DOMAIN stack = {}
    BY DEF Init, ParserInit
  <2> QED BY <2>1 DEF Init, ParserInit, Inside
<1>4. Whole
  <2> SUFFICES ASSUME NEW cut \in SUBSET Sources, NEW n \in Asked(cut) PROVE Owed(n, cut)
    BY DEF Whole
  <2>1. CASE n \in normalizeDomains(request.domains)
    BY <1>2, <2>1 DEF Owed
  <2>2. CASE n \in Expansion(world, Listings, cut)
    <3>1. world \in Worlds /\ Listings \in SUBSET Listing
      BY <1>1, Roots DEF TypeOK, ParserTypeOK
    <3>2. PICK m \in Listings : n \in Expansion(world, {m}, cut)
      BY <2>2, <3>1, ExpansionEach
    <3>3. \/ request.url # NoSource /\ m = Root(request.url)
          \/ request.inline # NoSource /\ m = Root(Inline)
      BY <1>1, Roots
    <3> QED BY <1>2, <3>2, <3>3 DEF Owed
  <2> QED BY <2>1, <2>2 DEF Asked
<1>5. Timely /\ Done
  BY <1>2 DEF Init, ParserInit, Timely, Done
<1> QED BY <1>1, <1>2, <1>3, <1>4, <1>5 DEF IInv

LEMMA DecodeStep ==
    ASSUME IInv, Decode
    PROVE  IInv'
<1>1. /\ pc = "decode" /\ stack = <<>> /\ DOMAIN stack = {} /\ domains = {} /\ answer = 0
      /\ list = {} /\ job \subseteq Asked({})
  BY AtInput DEF Decode, IInv, Shape
<1>2. UNCHANGED <<world, ctx, stack, domains, skipped>>
  BY DEF Decode, parserVars
<1>3. CASE Answer(400)
  BY <1>1, <1>2, <1>3, RefusalStep
<1>4. CASE /\ list' = normalizeDomains(request.domains) /\ pc' = "url"
           /\ UNCHANGED <<backend, request, answer, job>>
  <2>1. normalizeDomains(request.domains) \subseteq Domains
    BY TypeFacts, Roots, NormalizedNames
  <2>2. TypeOK'
    BY <1>2, <1>4, <2>1 DEF IInv, TypeOK, ParserTypeOK
  <2>3. Shape'
    BY <1>1, <1>2, <1>4 DEF Shape
  <2>4. list' \cup domains' \cup job' \subseteq Asked({})
    BY <1>1, <1>2, <1>4 DEF Asked
  <2>5. ASSUME NEW cut \in SUBSET Sources, NEW n, Owed(n, cut) PROVE Owed(n, cut)'
    <3>1. \/ n \in normalizeDomains(request.domains)
          \/ request.url # NoSource /\ n \in Expansion(world, {Root(request.url)}, cut)
          \/ request.inline # NoSource /\ n \in Expansion(world, {Root(Inline)}, cut)
      BY <1>1, <2>5 DEF Owed
    <3> QED BY <1>2, <1>4, <3>1 DEF Owed
  <2> QED BY <1>1, <1>2, <1>4, <2>2, <2>3, <2>4, <2>5, HandlerStep
<1> QED BY <1>3, <1>4 DEF Decode

LEMMA NoInputStep ==
    ASSUME IInv, NoInput
    PROVE  IInv'
<1>1. /\ UNCHANGED <<world, ctx, stack, domains, skipped, backend, request, list, answer, job>>
      /\ \/ pc = "url" /\ request.url = NoSource /\ pc' = "inline"
         \/ pc = "inline" /\ request.inline = NoSource /\ pc' = "enqueue"
  BY DEF NoInput, Skip, parserVars
<1>2. /\ stack = <<>> /\ DOMAIN stack = {} /\ domains = {} /\ answer = 0
      /\ list \cup job \subseteq Asked({})
  BY <1>1, AtInput
<1>3. TypeOK'
  BY <1>1 DEF IInv, TypeOK, ParserTypeOK
<1>4. Shape'
  BY <1>1, <1>2 DEF Shape
<1>5. ASSUME NEW cut \in SUBSET Sources, NEW n, Owed(n, cut) PROVE Owed(n, cut)'
  <2>1. \/ n \in list
        \/ /\ pc = "url" /\ request.inline # NoSource
           /\ n \in Expansion(world, {Root(Inline)}, cut)
    BY <1>1, <1>2, <1>5 DEF Owed
  <2> QED BY <1>1, <2>1 DEF Owed
<1> QED BY <1>1, <1>2, <1>3, <1>4, <1>5, HandlerStep

\* A list of the request is opened, and all of it is before the parser.
LEMMA OpeningStep ==
    ASSUME IInv, NEW source \in Sources, Root(source) \in Listings,
           \/ pc = "url" /\ request.url = source /\ pc' = "parse url"
           \/ pc = "inline" /\ source = Inline /\ pc' = "parse inline",
           stack' = <<Open(source, FALSE)>>,
           UNCHANGED <<world, ctx, domains, skipped, backend, request, list, answer, job>>
    PROVE  IInv'
<1> DEFINE f == Open(source, FALSE)
<1>1. /\ stack = <<>> /\ DOMAIN stack = {} /\ domains = {} /\ answer = 0
      /\ list \cup job \subseteq Asked({})
  BY AtInput
<1>2. f \in Frame /\ f.source = source /\ f.set = FALSE
  BY OpenIsFrame
<1>3. stack' = <<f>>
  OBVIOUS
<1> HIDE DEF f
<1>4. /\ stack' \in Seq(Frame)
      /\ DOMAIN stack' = {1} /\ stack'[1] = f
  BY <1>2, <1>3, OneFrame
<1>5. TypeOK'
  <2>1. ParserTypeOK'
    BY <1>4 DEF IInv, TypeOK, ParserTypeOK
  <2> QED BY <2>1 DEF IInv, TypeOK
<1>6. Shape'
  BY <1>1 DEF Shape
<1>7. \A k \in DOMAIN stack' : [source |-> stack'[k].source, set |-> stack'[k].set]
                                   \in Reach(world, Listings, {})
  BY <1>2, <1>4, TypeFacts, ReachIsClosed DEF Root
<1>8. ASSUME NEW cut \in SUBSET Sources, NEW n, Owed(n, cut) PROVE Owed(n, cut)'
  <2>1. \/ n \in list
        \/ n \in Expansion(world, {Root(source)}, cut)
        \/ /\ pc = "url" /\ request.inline # NoSource
           /\ n \in Expansion(world, {Root(Inline)}, cut)
    BY <1>1, <1>8 DEF Owed
  <2>2. CASE n \in Expansion(world, {Root(source)}, cut)
    <3>1. Left(world, n, f, cut)
      BY <2>2, TypeFacts, OpenLeft DEF f, Root
    <3> QED BY <1>4, <3>1 DEF Owed
  <2>3. CASE n \in list
    BY <2>3 DEF Owed
  <2>4. CASE /\ pc = "url" /\ request.inline # NoSource
             /\ n \in Expansion(world, {Root(Inline)}, cut)
    <3>1. pc' = "parse url"
      BY <2>4
    <3> QED BY <2>4, <3>1 DEF Owed
  <2> QED BY <2>1, <2>2, <2>3, <2>4
<1> QED BY <1>1, <1>5, <1>6, <1>7, <1>8, HandlerStep

LEMMA FetchListStep ==
    ASSUME IInv, FetchList
    PROVE  IInv'
<1>1. pc = "url" /\ request.url # NoSource
  BY DEF FetchList
<1>2. stack = <<>> /\ request.url \in Sources /\ Root(request.url) \in Listings
  BY <1>1, AtInput, TypeFacts, Roots
<1>3. CASE Answer(502) /\ UNCHANGED parserVars
  BY <1>2, <1>3, RefusalStep DEF parserVars
<1>4. CASE /\ stack' = <<Open(request.url, FALSE)>> /\ pc' = "parse url"
           /\ UNCHANGED <<world, ctx, domains, skipped, backend, request, list, answer, job>>
  BY <1>1, <1>2, <1>4, OpeningStep
<1> QED BY <1>3, <1>4 DEF FetchList

LEMMA ReadInlineStep ==
    ASSUME IInv, ReadInline
    PROVE  IInv'
<1>1. pc = "inline" /\ request.inline # NoSource
  BY DEF ReadInline
<1>2. Inline \in Sources /\ Root(Inline) \in Listings
  BY <1>1, TypeFacts, Roots
<1> QED BY <1>1, <1>2, OpeningStep DEF ReadInline

LEMMA AppendListStep ==
    ASSUME IInv, AppendList
    PROVE  IInv'
<1>0. Len(stack) = 1 /\ ~Scanning
  BY DEF AppendList, Finished
<1>1. /\ stack' = <<>> /\ domains' = {}
      /\ list' = list \cup domains
      /\ pc' = IF pc = "parse url" THEN "inline" ELSE "enqueue"
      /\ UNCHANGED <<world, ctx, skipped, backend, request, answer, job>>
  BY DEF AppendList
<1>2. stack # <<>> /\ world \in Worlds /\ stack \in Seq(Frame)
  <2>1. Len(stack) # 0
    BY <1>0
  <2> QED BY <2>1, NoStack, TypeFacts
<1>3. pc \in {"parse url", "parse inline"} /\ answer = 0
  BY <1>2 DEF IInv, Shape
<1>4. /\ list' \subseteq Domains /\ list' \cup domains' \cup job' \subseteq Asked({})
  BY <1>1 DEF IInv, TypeOK, ParserTypeOK, Inside
<1>5. TypeOK'
  <2>1. stack' \in Seq(Frame)
    BY <1>1, NoStack
  <2>2. ParserTypeOK'
    BY <1>1, <2>1 DEF IInv, TypeOK, ParserTypeOK
  <2>3. pc' \in {"inline", "enqueue"}
    BY <1>1
  <2> QED BY <1>1, <1>4, <2>2, <2>3 DEF IInv, TypeOK
<1>6. Shape'
  BY <1>1, <1>3 DEF Shape
<1>7. DOMAIN stack' = {}
  BY <1>1, NoStack
<1>8. ASSUME NEW cut \in SUBSET Sources, NEW n, Owed(n, cut) PROVE Owed(n, cut)'
  <2>1. DOMAIN stack = {1} /\ stack[1] = Top
    <3>1. DOMAIN stack = 1 .. Len(stack)
      BY <1>2, Stacked
    <3> QED BY <1>0, <3>1 DEF Top
  <2>2. ~ \E k \in DOMAIN stack : Left(world, n, stack[k], cut)
    BY <1>0, <1>2, <2>1, NothingLeft
  <2>3. \/ n \in list'
        \/ /\ pc = "parse url" /\ request.inline # NoSource
           /\ n \in Expansion(world, {Root(Inline)}, cut)
    BY <1>1, <1>3, <1>8, <2>2 DEF Owed
  <2> QED BY <1>1, <2>3 DEF Owed
<1>9. pc' # "answered" /\ pc # "answered"
  BY <1>1, <1>3
<1> QED BY <1>1, <1>4, <1>5, <1>6, <1>7, <1>8, <1>9, HandlerStep

LEMMA EnqueueStep ==
    ASSUME IInv, Enqueue
    PROVE  IInv'
<1>1. pc = "enqueue" /\ UNCHANGED <<world, ctx, stack, domains, skipped>>
  BY DEF Enqueue, parserVars
<1>2. /\ stack = <<>> /\ DOMAIN stack = {} /\ domains = {} /\ list \subseteq Domains
      /\ list \cup job \subseteq Asked({})
  BY <1>1, AtInput
<1>3. CASE Answer(500)
  BY <1>1, <1>2, <1>3, RefusalStep
<1>4. CASE /\ backend = "memory" \/ ctx = "live"
           /\ job' = list /\ answer' = 202 /\ pc' = "answered"
           /\ UNCHANGED <<backend, request, list>>
  <2>1. TypeOK'
    BY <1>1, <1>2, <1>4 DEF IInv, TypeOK, ParserTypeOK, Code
  <2>2. Shape' /\ Whole'
    BY <1>1, <1>2, <1>4 DEF Shape, Whole
  <2>3. Inside'
    BY <1>1, <1>2, <1>4, AskedStays DEF Inside
  <2>4. Done'
    <3>0. PICK lost : lost = Lost
      OBVIOUS
    <3>1. Lost' = lost /\ Asked(lost)' = Asked(lost) /\ job' = list
      BY <1>1, <1>4, <3>0, AskedStays DEF Lost, Failed
    <3>2. lost \in SUBSET Sources
      BY <3>0 DEF IInv, TypeOK, ParserTypeOK, Lost, Failed, Failure
    <3>3. ASSUME NEW n \in Asked(lost) PROVE n \in list
      <4>1. Owed(n, lost)
        BY <1>1, <3>0, <3>2, <3>3 DEF IInv, Whole
      <4> QED BY <1>1, <1>2, <4>1 DEF Owed
    <3> QED BY <3>1, <3>3 DEF Done
  <2>5. Timely'
    BY <1>1, <1>4 DEF IInv, Timely
  <2> QED BY <2>1, <2>2, <2>3, <2>4, <2>5 DEF IInv
<1>5. Answer(500) \/ (/\ backend = "memory" \/ ctx = "live"
                      /\ job' = list /\ answer' = 202 /\ pc' = "answered"
                      /\ UNCHANGED <<backend, request, list>>)
  BY DEF Enqueue
<1> QED BY <1>3, <1>4, <1>5

LEMMA NextInv == IInv /\ [Next]_vars => IInv'
<1> SUFFICES ASSUME IInv, [Next]_vars PROVE IInv'
  OBVIOUS
<1>1. CASE Decode
  BY <1>1, DecodeStep
<1>2. CASE NoInput
  BY <1>2, NoInputStep
<1>3. CASE FetchList
  BY <1>3, FetchListStep
<1>4. CASE ReadInline
  BY <1>4, ReadInlineStep
<1>5. CASE Scan
  <2>1. CASE AddLine
    BY <1>5, <2>1, AddLineStep DEF Scan, AddLine, Still
  <2>2. CASE Include
    BY <1>5, <2>2, IncludeStep DEF Scan, Include, Still
  <2>3. CASE SkipInclude
    BY <1>5, <2>3, SkipIncludeStep DEF Scan, SkipInclude, Still
  <2>4. CASE Return
    BY <1>5, <2>4, ReturnStep DEF Scan, Return, Still
  <2> QED BY <1>5, <2>1, <2>2, <2>3, <2>4 DEF Scan, Parse
<1>6. CASE AppendList
  BY <1>6, AppendListStep
<1>7. CASE NoDomains
  <2>1. stack = <<>>
    BY <1>7, AtInput DEF NoDomains
  <2> QED BY <1>7, <2>1, RefusalStep DEF NoDomains, parserVars
<1>8. CASE Enqueue
  BY <1>8, EnqueueStep
<1>9. CASE ParseFails
  BY <1>9, RefusalStep DEF ParseFails, ReadFails
<1>10. CASE UNCHANGED <<world, stack, domains, skipped, backend, request, pc, list,
                        answer, job>> /\ ctx' \in {ctx, "over"}
  <2>1. TypeOK' /\ Shape'
    BY <1>10 DEF IInv, TypeOK, ParserTypeOK, Shape
  <2>2. Inside'
    BY <1>10, AskedStays DEF IInv, Inside
  <2>3. Whole'
    BY <1>10, AskedStays DEF IInv, Whole, Owed, Lost, Failed
  <2>4. Done'
    <3>1. PICK lost : lost = Lost
      OBVIOUS
    <3>2. Lost' = lost /\ Asked(lost)' = Asked(lost)
      BY <1>10, <3>1, AskedStays DEF Lost, Failed
    <3> QED BY <1>10, <3>1, <3>2 DEF IInv, Done
  <2>5. Timely'
    BY <1>10 DEF IInv, Timely
  <2> QED BY <2>1, <2>2, <2>3, <2>4, <2>5 DEF IInv
<1>11. CASE ContextEnds
  BY <1>10, <1>11 DEF ContextEnds, EndContext
<1>12. CASE UNCHANGED vars
  BY <1>10, <1>12 DEF vars, parserVars, IInv, TypeOK, ParserTypeOK
<1> QED
  BY <1>1, <1>2, <1>3, <1>4, <1>5, <1>6, <1>7, <1>8, <1>9, <1>11, <1>12 DEF Next, Handler

LEMMA Invariance == Spec => []IInv
BY InitInv, NextInv, PTL DEF Spec

-----------------------------------------------------------------------------
\* The parser's stack holds activations of lists there are, and the handler's lists
\* hold domains (surge.go: parseRules, server.go: createProbe).
THEOREM TypeCorrect == Spec => []TypeOK
<1>1. IInv => TypeOK
  BY DEF IInv
<1> QED BY <1>1, Invariance, PTL

\* However the lists of a request include each other, and whichever of them
\* cannot be fetched and when, the job has every domain that the lists reached
\* without those give, and none that no list gives.
THEOREM Expanded == Spec => []JobIsExpansion
<1>1. IInv => JobIsExpansion
  BY DEF IInv, Inside, Done, Lost, JobIsExpansion
<1> QED BY <1>1, Invariance, PTL

\* A job that Postgres took lacks only what lists that failed while the context
\* was live would have given: what was cut short by the deadline is refused.
THEOREM Refused == Spec => []CutShortIsRefused
<1>1. IInv => CutShortIsRefused
  <2> SUFFICES ASSUME IInv, answer = 202, backend = "postgres"
               PROVE  Asked(Failed({"live"})) \subseteq job
    BY DEF CutShortIsRefused
  <2>1. Failed({"live"}) = Lost
    BY DEF IInv, Timely, Lost, Failed
  <2> QED BY <2>1 DEF IInv, Done
<1> QED BY <1>1, Invariance, PTL
=============================================================================
