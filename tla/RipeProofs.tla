------------------------------ MODULE RipeProofs ------------------------------
(***************************************************************************)
(* Machine-checked proofs about RipeClient, for any keys, callers and      *)
(* durations, over either cache.                                           *)
(***************************************************************************)
EXTENDS RipeClient, TLAPS

\* A record is of the past, and its item expires in time.
ItemInv(k) ==
    cache[k].there => /\ cache[k].record <= now
                      /\ cache[k].expiresAt <= cache[k].record + Timeout + TTL

\* A flight is no older than the timeout of its leader's request, and what it
\* brings was made since it asked.
FlightInv(k) ==
    /\ flight[k].pc = "fetch" => flight[k].asked <= now /\ now <= flight[k].asked + Timeout
    /\ flight[k].pc = "store" => /\ flight[k].record <= now
                                 /\ now <= flight[k].record + Timeout

\* A caller that waits waits for a flight.
Awaited(c) == caller[c].pc = "wait" => flight[caller[c].key].pc # "none"

FreshFor(start, answer) ==
    answer.ok => start - answer.record <= IF answer.cached THEN TTL + Timeout ELSE Timeout

CallerInv(c) ==
    /\ caller[c].pc \in {"join", "wait"} => caller[c].start <= now
    /\ caller[c].pc = "done" => FreshFor(caller[c].start, caller[c].answer)
    /\ Awaited(c)

IInv ==
    /\ TypeOK
    /\ \A k \in Keys : ItemInv(k) /\ FlightInv(k)
    /\ \A c \in Callers : CallerInv(c)

-----------------------------------------------------------------------------
(* What the variables are reset to.                                        *)

LEMMA Resets ==
    /\ Failed \in Answer /\ ~Failed.ok
    /\ NoItem \in Item /\ ~NoItem.there
    /\ NoFlight \in Flight /\ NoFlight.pc = "none"
    /\ \A k \in Keys : Idle(k) \in Caller /\ Idle(k).pc = "idle"
<1>1. 0 \in Time /\ 0 \in 0 .. MaxTime + TTL
  BY RipeAssumption DEF Time
<1>2. Failed \in Answer /\ ~Failed.ok
  BY <1>1 DEF Failed, Answer
<1>3. NoItem \in Item /\ ~NoItem.there
  BY <1>1 DEF NoItem, Item
<1>4. NoFlight \in Flight /\ NoFlight.pc = "none"
  BY <1>1 DEF NoFlight, Flight
<1>5. \A k \in Keys : Idle(k) \in Caller /\ Idle(k).pc = "idle"
  BY <1>1, <1>2 DEF Idle, Caller
<1> QED BY <1>2, <1>3, <1>4, <1>5

\* Nobody waits and nothing flies: at the start, and after a restart.
LEMMA Quiet ==
    ASSUME now \in Time, kind \in {"memory", "redis"}, cache \in [Keys -> Item],
           \A k \in Keys : ItemInv(k),
           flight = [k \in Keys |-> NoFlight],
           caller \in [Callers -> Caller], \A c \in Callers : caller[c].pc = "idle"
    PROVE  IInv
<1>1. \A k \in Keys : flight[k].pc = "none"
  BY Resets
<1> QED BY <1>1, Resets DEF IInv, TypeOK, FlightInv, CallerInv, Awaited

LEMMA QuietNext ==
    ASSUME now' \in Time, kind' \in {"memory", "redis"}, cache' \in [Keys -> Item],
           \A k \in Keys : ItemInv(k)',
           flight' = [k \in Keys |-> NoFlight],
           caller' \in [Callers -> Caller], \A c \in Callers : caller'[c].pc = "idle"
    PROVE  IInv'
<1>1. \A k \in Keys : flight'[k].pc = "none"
  BY Resets
<1> QED BY <1>1, Resets DEF IInv, TypeOK, FlightInv, CallerInv, Awaited

LEMMA InitInv == Init => IInv
<1> SUFFICES ASSUME Init PROVE IInv
  OBVIOUS
<1>1. now \in Time /\ kind \in {"memory", "redis"} /\ cache \in [Keys -> Item]
  BY Resets, RipeAssumption DEF Init, Time, buildRIPE
<1>2. \A k \in Keys : ItemInv(k)
  BY Resets DEF Init, ItemInv
<1>3. caller \in [Callers -> Caller] /\ \A c \in Callers : caller[c].pc = "idle"
  BY Resets DEF Init
<1> QED BY <1>1, <1>2, <1>3, Quiet DEF Init

-----------------------------------------------------------------------------
(* The steps of a caller.                                                  *)

LEMMA LookupStep ==
    ASSUME IInv, NEW c \in Callers, NEW k \in Keys, Lookup(c, k)
    PROVE  IInv'
<1> USE DEF IInv, TypeOK
<1>1. now \in Nat /\ TTL \in Nat /\ Timeout \in Nat /\ Idle(k) \in Caller
  BY RipeAssumption, Resets DEF Time
<1>2. PICK s \in Caller : /\ caller' = [caller EXCEPT ![c] = s]
                          /\ s.pc \in {"join", "done"} /\ s.start = now
                          /\ s.pc = "done" => FreshFor(s.start, s.answer)
  <2>1. CASE Hit(k) /\ caller' = [caller EXCEPT ![c] = [Idle(k) EXCEPT
                          !.pc = "done", !.start = now, !.answer = Cached(k)]]
    <3> DEFINE s == [Idle(k) EXCEPT !.pc = "done", !.start = now, !.answer = Cached(k)]
    <3>1. cache[k] \in Item /\ cache[k].there /\ now <= cache[k].expiresAt
      BY <2>1 DEF Hit
    <3>2. Cached(k) \in Answer /\ Cached(k).cached /\ Cached(k).record = cache[k].record
      BY <3>1 DEF Cached, Answer, Item
    <3>3. s \in Caller /\ s.pc = "done" /\ s.start = now /\ s.answer = Cached(k)
      BY <1>1, <3>2 DEF Caller
    <3>4. now - cache[k].record <= TTL + Timeout
      BY <1>1, <3>1 DEF ItemInv, Item, Time
    <3>5. FreshFor(now, Cached(k))
      BY <3>2, <3>4 DEF FreshFor
    <3> QED BY <2>1, <3>3, <3>5
  <2>2. CASE caller' = [caller EXCEPT ![c] = [Idle(k) EXCEPT !.pc = "join", !.start = now]]
    <3> DEFINE s == [Idle(k) EXCEPT !.pc = "join", !.start = now]
    <3>1. s \in Caller /\ s.pc = "join" /\ s.start = now
      BY <1>1 DEF Caller
    <3> QED BY <2>2, <3>1
  <2> QED BY <2>1, <2>2 DEF Lookup
<1>3. UNCHANGED <<now, kind, cache, flight>>
  BY DEF Lookup
<1>4. TypeOK' /\ \A l \in Keys : ItemInv(l)' /\ FlightInv(l)'
  BY <1>2, <1>3 DEF ItemInv, FlightInv
<1>5. ASSUME NEW d \in Callers PROVE CallerInv(d)'
  BY <1>1, <1>2, <1>3 DEF CallerInv, Awaited
<1> QED BY <1>4, <1>5

LEMMA JoinStep ==
    ASSUME IInv, NEW c \in Callers, Join(c)
    PROVE  IInv'
<1> USE DEF IInv, TypeOK
<1> DEFINE k == caller[c].key
<1>1. /\ caller[c].pc = "join" /\ caller[c] \in Caller /\ k \in Keys
      /\ caller' = [caller EXCEPT ![c].pc = "wait"]
      /\ UNCHANGED <<now, kind, cache>>
  BY DEF Join, Caller
<1>2. \/ flight' = flight /\ flight[k].pc # "none"
      \/ flight' = [flight EXCEPT ![k] = [NoFlight EXCEPT !.pc = "check"]]
  BY DEF Join
<1>3. [NoFlight EXCEPT !.pc = "check"] \in Flight /\ [NoFlight EXCEPT !.pc = "check"].pc = "check"
  BY Resets DEF Flight
<1>4. /\ caller'[c].pc = "wait" /\ caller'[c].key = k /\ caller'[c].start = caller[c].start
      /\ \A d \in Callers \ {c} : caller'[d] = caller[d]
  BY <1>1 DEF Caller
<1>5. TypeOK'
  BY <1>1, <1>2, <1>3 DEF Caller
<1>6. flight'[k].pc # "none" /\ \A l \in Keys : l # k => flight'[l] = flight[l]
  BY <1>1, <1>2, <1>3
<1>7. \A l \in Keys : ItemInv(l)' /\ FlightInv(l)'
  BY <1>1, <1>2, <1>3 DEF ItemInv, FlightInv
<1>8. ASSUME NEW d \in Callers PROVE CallerInv(d)'
  <2>1. CASE d = c
    BY <1>1, <1>4, <1>6, <2>1 DEF CallerInv, Awaited
  <2>2. CASE d # c
    <3>1. CallerInv(d) /\ caller'[d] = caller[d] /\ caller[d].key \in Keys /\ now' = now
      BY <1>1, <1>4, <2>2 DEF Caller
    <3>2. flight[caller[d].key].pc # "none" => flight'[caller[d].key].pc # "none"
      BY <1>6, <3>1
    <3> QED BY <3>1, <3>2 DEF CallerInv, Awaited
  <2> QED BY <2>1, <2>2
<1> QED BY <1>5, <1>7, <1>8

LEMMA RespondStep ==
    ASSUME IInv, NEW c \in Callers, Respond(c)
    PROVE  IInv'
<1> USE DEF IInv, TypeOK
<1>1. caller[c].key \in Keys
  BY DEF Caller
<1>2. caller' = [caller EXCEPT ![c] = Idle(caller[c].key)] /\ UNCHANGED <<now, kind, cache, flight>>
  BY DEF Respond
<1>3. caller'[c].pc = "idle" /\ TypeOK'
  BY <1>1, <1>2, Resets
<1>4. \A l \in Keys : ItemInv(l)' /\ FlightInv(l)'
  BY <1>2 DEF ItemInv, FlightInv
<1>5. \A d \in Callers : CallerInv(d)'
  BY <1>2, <1>3 DEF CallerInv, Awaited
<1> QED BY <1>3, <1>4, <1>5

-----------------------------------------------------------------------------
(* The steps of a flight.                                                  *)

\* A flight lands with an answer that is fresh for whoever waited until now.
LEMMA LandStep ==
    ASSUME IInv, NEW k \in Keys, NEW answer \in Answer, Land(k, answer),
           \A start \in Time : start <= now => FreshFor(start, answer),
           now' = now, kind' = kind, cache' \in [Keys -> Item],
           \A l \in Keys : ItemInv(l)'
    PROVE  IInv'
<1> USE DEF IInv, TypeOK
<1>1. flight' = [flight EXCEPT ![k] = NoFlight] /\ flight' \in [Keys -> Flight]
  BY Resets DEF Land
<1>2. ASSUME NEW c \in Callers, c \in Waiting(k)
      PROVE  /\ caller'[c] = [caller[c] EXCEPT !.pc = "done", !.answer = answer]
             /\ caller'[c] \in Caller /\ CallerInv(c)'
  <2>1. caller'[c] = [caller[c] EXCEPT !.pc = "done", !.answer = answer] /\ caller[c] \in Caller
    BY <1>2 DEF Land
  <2>2. /\ caller'[c].pc = "done" /\ caller'[c].answer = answer
        /\ caller'[c].start = caller[c].start /\ caller'[c] \in Caller
    BY <2>1 DEF Caller
  <2>3. caller[c].start \in Time /\ caller[c].start <= now
    BY <1>2, <2>1 DEF CallerInv, Waiting, Caller
  <2> QED BY <2>1, <2>2, <2>3 DEF CallerInv, Awaited
<1>3. ASSUME NEW c \in Callers, c \notin Waiting(k)
      PROVE  caller'[c] = caller[c] /\ CallerInv(c)'
  <2>1. caller'[c] = caller[c] /\ caller[c].key \in Keys
    BY <1>3 DEF Land, Caller
  <2>2. caller[c].pc = "wait" => flight'[caller[c].key] = flight[caller[c].key]
    BY <1>1, <1>3, <2>1 DEF Waiting
  <2> QED BY <2>1, <2>2 DEF CallerInv, Awaited
<1>4. caller' \in [Callers -> Caller]
  <2>1. caller' = [c \in Callers |-> caller'[c]]
    BY DEF Land
  <2>2. \A c \in Callers : caller'[c] \in Caller
    BY <1>2, <1>3
  <2> QED BY <2>1, <2>2
<1>5. \A l \in Keys : FlightInv(l)'
  BY <1>1, Resets DEF FlightInv
<1> QED BY <1>1, <1>2, <1>3, <1>4, <1>5

\* A flight goes on: its waiters stay where they are.
LEMMA FlyStep ==
    ASSUME IInv, NEW k \in Keys, NEW f \in Flight, flight' = [flight EXCEPT ![k] = f],
           f.pc # "none", FlightInv(k)', UNCHANGED <<now, kind, cache, caller>>
    PROVE  IInv'
<1> USE DEF IInv, TypeOK
<1>1. flight'[k] = f /\ \A l \in Keys : l # k => flight'[l] = flight[l]
  OBVIOUS
<1>2. \A l \in Keys : ItemInv(l)' /\ FlightInv(l)'
  BY <1>1 DEF ItemInv, FlightInv
<1>3. ASSUME NEW c \in Callers PROVE CallerInv(c)'
  <2>1. caller[c].key \in Keys
    BY DEF Caller
  <2> QED BY <1>1, <2>1 DEF CallerInv, Awaited
<1> QED BY <1>2, <1>3

LEMMA CallStep ==
    ASSUME IInv, NEW k \in Keys, Call(k)
    PROVE  IInv'
<1> USE DEF IInv, TypeOK
<1>1. now \in Nat /\ TTL \in Nat /\ Timeout \in Nat /\ now \in Time /\ MaxTime \in Nat
  BY RipeAssumption DEF Time
<1>2. flight[k] \in Flight /\ cache[k] \in Item
  OBVIOUS
<1>3. ASSUME Hit(k), Land(k, Cached(k)), UNCHANGED <<now, kind, cache>>
      PROVE  IInv'
  <2>1. Cached(k) \in Answer /\ Cached(k).cached /\ Cached(k).record = cache[k].record
    BY <1>2 DEF Cached, Answer, Item
  <2>2. ASSUME NEW start \in Time, start <= now PROVE FreshFor(start, Cached(k))
    <3>1. start - cache[k].record <= TTL + Timeout
      BY <1>1, <1>2, <1>3, <2>2 DEF Hit, ItemInv, Item, Time
    <3> QED BY <2>1, <3>1 DEF FreshFor
  <2>3. \A l \in Keys : ItemInv(l)'
    BY <1>3 DEF ItemInv
  <2> QED BY <1>3, <2>1, <2>2, <2>3, LandStep
<1>4. ASSUME flight[k].pc = "check", Ask(k), UNCHANGED <<now, kind, cache, caller>>
      PROVE  IInv'
  <2> DEFINE f == [flight[k] EXCEPT !.pc = "fetch", !.asked = now]
  <2>1. f \in Flight /\ f.pc = "fetch" /\ f.asked = now
    BY <1>1, <1>2 DEF Flight
  <2>2. flight' = [flight EXCEPT ![k] = f]
    BY <1>4 DEF Ask
  <2> HIDE DEF f
  <2>3. FlightInv(k)'
    BY <1>1, <1>4, <2>1, <2>2 DEF FlightInv
  <2> QED BY <1>4, <2>1, <2>2, <2>3, FlyStep
<1>5. CASE CheckAgain(k)
  BY <1>3, <1>4, <1>5 DEF CheckAgain
<1>6. CASE Upstream(k)
  <2>1. PICK t \in flight[k].asked .. now :
           flight' = [flight EXCEPT ![k].pc = "store", ![k].record = t]
    BY <1>6 DEF Upstream
  <2> DEFINE f == [flight[k] EXCEPT !.pc = "store", !.record = t]
  <2>2. flight[k].asked \in Nat /\ t \in Time /\ flight[k].asked <= t /\ t <= now
    BY <1>1, <1>2, <2>1 DEF Flight, Time
  <2>3. f \in Flight /\ f.pc = "store" /\ f.record = t
    BY <1>2, <2>2 DEF Flight
  <2>4. flight' = [flight EXCEPT ![k] = f] /\ UNCHANGED <<now, kind, cache, caller>>
    BY <1>6, <2>1 DEF Upstream
  <2>5. now <= flight[k].asked + Timeout /\ t \in Nat
    BY <1>6, <2>2 DEF Upstream, FlightInv, Time
  <2> HIDE DEF f
  <2>6. FlightInv(k)'
    BY <1>1, <2>2, <2>3, <2>4, <2>5 DEF FlightInv
  <2> QED BY <2>3, <2>4, <2>6, FlyStep
<1>7. CASE FetchFails(k)
  <2>1. \A start \in Time : FreshFor(start, Failed)
    BY Resets DEF FreshFor
  <2>2. \A l \in Keys : ItemInv(l)'
    BY <1>7 DEF FetchFails, ItemInv
  <2> QED BY <1>7, <2>1, <2>2, LandStep, Resets DEF FetchFails
<1>8. CASE Store(k)
  <2> DEFINE record == flight[k].record
             answer == [ok |-> TRUE, record |-> record, cached |-> FALSE]
             item == [record |-> record, expiresAt |-> now + TTL, there |-> TRUE]
  <2>1. record \in Time /\ record \in Nat /\ record <= now /\ now <= record + Timeout
    BY <1>1, <1>2, <1>8 DEF Store, FlightInv, Flight, Time
  <2>2. answer \in Answer /\ answer.record = record /\ ~answer.cached
    BY <2>1 DEF Answer
  <2>3. ASSUME NEW start \in Time, start <= now PROVE FreshFor(start, answer)
    <3>1. start - record <= Timeout
      BY <1>1, <2>1, <2>3 DEF Time
    <3> HIDE DEF answer, record
    <3> QED BY <2>2, <3>1 DEF FreshFor
  <2>4. item \in Item /\ item.record = record /\ item.expiresAt = now + TTL
    BY <1>1, <2>1 DEF Item, Time
  <2>5. \/ cache' = [cache EXCEPT ![k] = item]
        \/ cache' = cache
    BY <1>8 DEF Store
  <2>6. Land(k, answer) /\ now' = now /\ kind' = kind
    BY <1>8 DEF Store
  <2> HIDE DEF item, answer, record
  <2>7. cache' \in [Keys -> Item]
    BY <2>4, <2>5
  <2>8. ASSUME NEW l \in Keys PROVE ItemInv(l)'
    BY <1>1, <2>1, <2>4, <2>5, <2>6 DEF ItemInv
  <2> QED BY <2>2, <2>3, <2>6, <2>7, <2>8, LandStep
<1> QED BY <1>5, <1>6, <1>7, <1>8 DEF Call

-----------------------------------------------------------------------------
(* The clock and the process.                                              *)

LEMMA TickStep == ASSUME IInv, Tick PROVE IInv'
<1> USE DEF IInv, TypeOK
<1>1. /\ now \in Nat /\ now' = now + 1 /\ now' \in Time /\ TTL \in Nat /\ Timeout \in Nat
      /\ UNCHANGED <<kind, cache, flight, caller>>
  BY RipeAssumption DEF Tick, Time
<1>2. ASSUME NEW k \in Keys PROVE ItemInv(k)' /\ FlightInv(k)'
  <2>1. /\ cache[k].record \in Nat /\ flight[k].asked \in Nat /\ flight[k].pc # "store"
        /\ flight[k].pc = "fetch" => now < flight[k].asked + Timeout
    BY DEF Tick, Item, Flight, Time
  <2> QED BY <1>1, <2>1 DEF ItemInv, FlightInv
<1>3. ASSUME NEW c \in Callers PROVE CallerInv(c)'
  <2>1. caller[c].start \in Nat
    BY DEF Caller, Time
  <2> QED BY <1>1, <2>1 DEF CallerInv, Awaited
<1> QED BY <1>1, <1>2, <1>3

LEMMA RestartStep == ASSUME IInv, Restart PROVE IInv'
<1> USE DEF IInv, TypeOK
<1>1. now' = now /\ kind' = kind /\ flight' = [k \in Keys |-> NoFlight]
  BY DEF Restart
<1>2. cache' \in [Keys -> Item] /\ \A k \in Keys : ItemInv(k)'
  BY <1>1, Resets DEF Restart, ItemInv
<1>3. caller' \in [Callers -> Caller] /\ \A c \in Callers : caller'[c].pc = "idle"
  <2>1. \A c \in Callers : caller[c].key \in Keys
    BY DEF Caller
  <2> QED BY <2>1, Resets DEF Restart
<1> QED BY <1>1, <1>2, <1>3, QuietNext

LEMMA NextInv == IInv /\ [Next]_vars => IInv'
<1> SUFFICES ASSUME IInv, [Next]_vars PROVE IInv'
  OBVIOUS
<1>1. CASE UNCHANGED vars
  BY <1>1
  DEF vars, IInv, TypeOK, ItemInv, FlightInv, CallerInv, Awaited
<1> QED
  BY <1>1, LookupStep, JoinStep, RespondStep, CallStep, TickStep, RestartStep DEF Next

LEMMA Invariant == Spec => []IInv
  BY InitInv, NextInv, PTL DEF Spec

-----------------------------------------------------------------------------
(* The theorems.                                                           *)

\* Every variable stays in its type in every run.
THEOREM TypeCorrect == Spec => []TypeOK
<1>1. IInv => TypeOK
  BY DEF IInv
<1> QED BY <1>1, Invariant, PTL

\* No answer is older than a timeout, when it was fetched, or than a timeout and
\* a TTL, when it was cached, before its lookup began, however many callers share
\* a flight and whatever the cache fails.
THEOREM Fresh == Spec => []AnswersAreFresh
<1>1. IInv => AnswersAreFresh
  BY DEF IInv, CallerInv, FreshFor, AnswersAreFresh
<1> QED BY <1>1, Invariant, PTL

\* A hit can only come from the flight of the key itself, which lands with it.
LEMMA OnceNext ==
    ASSUME TypeOK, AskedOncePerTTL, [Next]_vars
    PROVE  AskedOncePerTTL'
<1> SUFFICES ASSUME kind' = "memory", NEW k \in Keys, flight'[k].pc \in {"fetch", "store"}
             PROVE  ~Hit(k)'
  BY DEF AskedOncePerTTL
<1>0. kind' = kind
  BY DEF Next, Lookup, Join, Respond, Call, CheckAgain, Upstream, FetchFails,
         Store, Tick, Restart, vars
<1>1. /\ now \in Nat /\ flight \in [Keys -> Flight] /\ cache \in [Keys -> Item]
      /\ kind = "memory"
  BY <1>0, RipeAssumption DEF TypeOK, Time
<1>2. NoFlight.pc = "none" /\ [NoFlight EXCEPT !.pc = "check"].pc = "check"
  BY DEF NoFlight
<1>3. ASSUME NEW l \in Keys, Call(l) PROVE ~Hit(k)'
  <2>1. flight[k].pc \in {"fetch", "store"} => ~Hit(k)
    BY <1>1 DEF AskedOncePerTTL
  <2>2. CASE l # k
    BY <1>1, <1>3, <2>1, <2>2
    DEF Call, CheckAgain, Upstream, FetchFails, Store, Ask, Land, Hit
  <2>3. CASE l = k
    <3>1. CASE CheckAgain(k)
      <4>1. ~Land(k, Cached(k))
        BY <1>1, <1>2 DEF Land
      <4> QED BY <1>1, <3>1, <4>1 DEF CheckAgain, CacheMayFail, Hit
    <3>2. CASE Upstream(k)
      BY <2>1, <3>2 DEF Upstream, Hit
    <3>3. ~FetchFails(k) /\ ~Store(k)
      BY <1>1, <1>2 DEF FetchFails, Store, Land
    <3> QED BY <1>3, <2>3, <3>1, <3>2, <3>3 DEF Call
  <2> QED BY <2>2, <2>3
<1>4. ASSUME NEW c \in Callers, Join(c) PROVE ~Hit(k)'
  BY <1>1, <1>2, <1>4 DEF Join, AskedOncePerTTL, Hit
<1>5. CASE Tick
  <2>1. flight' = flight /\ cache' = cache /\ now' = now + 1
    BY <1>5 DEF Tick
  <2>2. ~Hit(k)
    BY <1>1, <2>1 DEF AskedOncePerTTL
  <2>3. cache[k].expiresAt \in Int
    BY <1>1, RipeAssumption DEF Item
  <2> QED BY <1>1, <2>1, <2>2, <2>3 DEF Hit
<1>6. CASE Restart
  BY <1>2, <1>6 DEF Restart
<1>7. CASE UNCHANGED <<now, cache, flight>>
  BY <1>1, <1>7 DEF AskedOncePerTTL, Hit
<1> QED BY <1>3, <1>4, <1>5, <1>6, <1>7 DEF Next, Lookup, Respond, vars

LEMMA OnceInit == Init => AskedOncePerTTL
BY Resets DEF Init, AskedOncePerTTL

\* Over the memory cache no request to upstream is made, or answered, for a key
\* whose record is cached and good.
THEOREM AskedOnce == Spec => []AskedOncePerTTL
<1>1. IInv => TypeOK
  BY DEF IInv
<1> QED BY <1>1, OnceInit, OnceNext, Invariant, PTL DEF Spec

\* The half of EveryLookupEnds that needs no fairness: no caller is left waiting
\* for a flight that has landed, or that died with its process.
THEOREM NoOrphan == Spec => [](\A c \in Callers : Awaited(c))
<1>1. IInv => \A c \in Callers : Awaited(c)
  BY DEF IInv, CallerInv
<1> QED BY <1>1, Invariant, PTL
=============================================================================
