----------------------------- MODULE DohProofs -----------------------------
(***************************************************************************)
(* Machine-checked proofs about DohResolver, for any domains, workers,     *)
(* answers and durations.                                                  *)
(***************************************************************************)
EXTENDS DohResolver, TLAPS

\* An address is of the past, and its entry expires in time; a lookup under way
\* is no older than its deadline.
EntryInv(d) ==
    cache[d].there => /\ cache[d].ip <= now
                      /\ cache[d].expiresAt <= cache[d].ip + Timeout + cacheTTL

LookupInv(w) ==
    /\ Looking(w) => /\ worker[w].start <= now /\ now <= worker[w].start + Timeout
                     /\ ~worker[w].ok
    /\ worker[w].pc = "done" /\ worker[w].ok =>
          worker[w].start - worker[w].ip <= cacheTTL + Timeout

IInv ==
    /\ TypeOK
    /\ \A d \in Domains : EntryInv(d)
    /\ \A w \in Workers : LookupInv(w)

\* The values a variable is reset to have its type.
LEMMA Resets ==
    /\ NoEntry \in Entry /\ ~NoEntry.there
    /\ \A d \in Domains : Idle(d) \in Lookup /\ Idle(d).pc = "idle"
<1>1. 0 \in Time /\ 0 \in 0 .. MaxTime + cacheTTL
  BY DohAssumption DEF Time
<1>2. NoEntry \in Entry /\ ~NoEntry.there
  BY <1>1 DEF NoEntry, Entry
<1> QED BY <1>1, <1>2 DEF Idle, Lookup

LEMMA InitInv == Init => IInv
<1> SUFFICES ASSUME Init PROVE IInv
  OBVIOUS
<1>1. \A w \in Workers : worker[w] \in Lookup /\ worker[w].pc = "idle"
  BY Resets DEF Init
<1>2. TypeOK
  BY <1>1, Resets, DohAssumption DEF Init, TypeOK, Time
<1> QED BY <1>1, <1>2, Resets DEF Init, IInv, EntryInv, LookupInv, Looking

-----------------------------------------------------------------------------
\* One lemma per action.

LEMMA LookupStep ==
    ASSUME IInv, NEW w \in Workers, NEW d \in Domains, LookupIPv4(w, d)
    PROVE  IInv'
<1> USE DohAssumption
<1> USE DEF IInv, TypeOK, Entry, Lookup, Time
<1>1. CASE /\ Hit(d)
           /\ worker' = [worker EXCEPT ![w] = [Begin(d) EXCEPT
                            !.pc = "done", !.ip = cache[d].ip, !.ok = TRUE]]
           /\ UNCHANGED <<cache, now>>
  <2>1. TypeOK'
    BY <1>1 DEF Begin, Idle
  <2>2. \A e \in Domains : EntryInv(e)'
    BY <1>1 DEF EntryInv
  <2>3. now - cache[d].ip <= cacheTTL + Timeout
    BY <1>1 DEF Hit, EntryInv
  <2>4. \A v \in Workers : LookupInv(v)'
    BY <1>1, <2>3 DEF LookupInv, Looking, Begin, Idle
  <2> QED BY <2>1, <2>2, <2>4
<1>2. CASE /\ cache' = [cache EXCEPT ![d] = NoEntry]
           /\ worker' = [worker EXCEPT ![w] = [Begin(d) EXCEPT !.pc = "miss"]]
           /\ UNCHANGED now
  <2>1. TypeOK'
    BY <1>2, Resets DEF Begin, Idle
  <2>2. \A e \in Domains : EntryInv(e)'
    BY <1>2 DEF EntryInv, NoEntry
  <2>3. \A v \in Workers : LookupInv(v)'
    BY <1>2 DEF LookupInv, Looking, Begin, Idle
  <2> QED BY <2>1, <2>2, <2>3
<1> QED BY <1>1, <1>2 DEF LookupIPv4

LEMMA QueryStep ==
    ASSUME IInv, NEW w \in Workers, Query(w)
    PROVE  IInv'
<1> USE DohAssumption
<1> USE DEF IInv, TypeOK, Entry, Lookup, Time
<1>1. CASE Ask(w)
  BY <1>1 DEF Ask, EntryInv, LookupInv, Looking
<1>2. CASE AskFails(w) \/ Expire(w) \/ (worker[w].pc = "asked" /\ Fail(w) /\ UNCHANGED <<cache, now>>)
  <2>1. /\ worker' = [worker EXCEPT ![w].pc = "done"]
        /\ UNCHANGED <<cache, now>>
    BY <1>2 DEF AskFails, Expire, Fail
  <2>2. TypeOK' /\ \A e \in Domains : EntryInv(e)'
    BY <2>1 DEF EntryInv
  <2>3. ~worker[w].ok
    BY <1>2 DEF AskFails, Expire, LookupInv, Looking
  <2>4. \A v \in Workers : LookupInv(v)'
    BY <2>1, <2>3 DEF LookupInv, Looking
  <2> QED BY <2>2, <2>4
<1>3. ASSUME NEW t \in worker[w].start .. now, worker[w].pc = "asked", now' = now,
             saveCache(worker[w].domain, t),
             worker' = [worker EXCEPT ![w] = [@ EXCEPT !.pc = "done", !.ip = t, !.ok = TRUE]]
      PROVE  IInv'
  <2>1. t \in Time /\ worker[w].start <= t /\ t <= now /\ now <= t + Timeout
    BY <1>3 DEF LookupInv, Looking
  <2>0. now + cacheTTL \in 0 .. MaxTime + cacheTTL
    OBVIOUS
  <2>2. TypeOK'
    BY <1>3, <2>0, <2>1 DEF saveCache
  <2>3. \A e \in Domains : EntryInv(e)'
    BY <1>3, <2>1 DEF saveCache, EntryInv
  <2>4. \A v \in Workers : LookupInv(v)'
    BY <1>3, <2>1 DEF LookupInv, Looking
  <2> QED BY <2>2, <2>3, <2>4
<1> QED BY <1>1, <1>2, <1>3 DEF Query, Answer

LEMMA ReturnStep ==
    ASSUME IInv, NEW w \in Workers, Return(w)
    PROVE  IInv'
BY DohAssumption
   DEF IInv, TypeOK, Entry, Lookup, Time, Return, Idle, EntryInv, LookupInv, Looking

LEMMA TickStep == ASSUME IInv, Tick PROVE IInv'
BY DohAssumption
   DEF IInv, TypeOK, Entry, Lookup, Time, Tick, EntryInv, LookupInv, Looking, Expired

LEMMA RestartStep == ASSUME IInv, Restart PROVE IInv'
BY DohAssumption
   DEF IInv, TypeOK, Entry, Lookup, Time, Restart, Idle, NoEntry, EntryInv, LookupInv, Looking

LEMMA Inductive == Spec => []IInv
<1>1. IInv /\ [Next]_vars => IInv'
  <2> SUFFICES ASSUME IInv, [Next]_vars PROVE IInv'
    OBVIOUS
  <2>1. CASE UNCHANGED vars
    BY <2>1 DEF vars, IInv, TypeOK, EntryInv, LookupInv, Looking
  <2> QED BY <2>1, LookupStep, QueryStep, ReturnStep, TickStep, RestartStep DEF Next
<1> QED BY <1>1, InitInv, PTL DEF Spec

-----------------------------------------------------------------------------
\* The resolver is type-correct.
THEOREM TypeCorrect == Spec => []TypeOK
BY Inductive, PTL DEF IInv

\* No trace is sent to an address older than a TTL and a timeout.
THEOREM Fresh == Spec => []AnswersAreFresh
<1>1. IInv => AnswersAreFresh
  BY DEF IInv, LookupInv, AnswersAreFresh
<1> QED BY <1>1, Inductive, PTL

\* What a slow answer brings back to the cache is at most a timeout older.
THEOREM SetBack == Spec => SetBackAtMostATimeout
<1>1. ASSUME IInv, [Next]_vars
      PROVE  [\A d \in Domains : cache[d].there /\ cache'[d].there =>
                 cache[d].ip - cache'[d].ip <= Timeout]_vars
  <2> USE DohAssumption
  <2> SUFFICES ASSUME NEW d \in Domains, cache[d].there, cache'[d].there, Next
               PROVE  cache[d].ip - cache'[d].ip <= Timeout
    BY <1>1
  <2>1. /\ now \in Nat /\ cache[d].ip \in Nat /\ cache[d].ip <= now
        /\ cache \in [Domains -> Entry]
    BY <1>1 DEF IInv, TypeOK, EntryInv, Entry, Time
  <2>2. CASE cache'[d] = cache[d]
    BY <2>1, <2>2
  <2>3. ASSUME NEW w \in Workers, NEW t \in worker[w].start .. now,
               worker[w].pc = "asked", saveCache(worker[w].domain, t)
        PROVE  cache[d].ip - cache'[d].ip <= Timeout
    <3>1. t \in Nat /\ now <= t + Timeout
      BY <1>1, <2>3 DEF IInv, TypeOK, Lookup, Time, LookupInv, Looking
    <3>2. cache'[d].ip \in {cache[d].ip, t}
      BY <2>1, <2>3 DEF saveCache, Entry
    <3> QED BY <2>1, <3>1, <3>2
  <2>4. ASSUME NEW w \in Workers, NEW e \in Domains, LookupIPv4(w, e)
        PROVE  cache'[d] = cache[d] \/ ~cache'[d].there
    BY <2>1, <2>4 DEF LookupIPv4, NoEntry
  <2>5. ASSUME NEW w \in Workers, Ask(w) \/ AskFails(w) \/ Expire(w) \/ Return(w)
        PROVE  cache'[d] = cache[d]
    BY <2>5 DEF Ask, AskFails, Expire, Return
  <2>6. ASSUME NEW w \in Workers, Answer(w)
        PROVE  cache[d].ip - cache'[d].ip <= Timeout
    BY <2>1, <2>2, <2>3, <2>6 DEF Answer
  <2>7. Tick => cache'[d] = cache[d]
    BY DEF Tick
  <2>8. Restart => ~cache'[d].there
    BY DEF Restart, NoEntry
  <2> QED BY <2>2, <2>4, <2>5, <2>6, <2>7, <2>8 DEF Next, Query
<1> QED BY <1>1, Inductive, PTL DEF Spec, SetBackAtMostATimeout
=============================================================================
