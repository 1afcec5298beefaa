---------------------------- MODULE DohResolver ----------------------------
(***************************************************************************)
(* The DNS-over-HTTPS resolver (backend/internal/resolver) under the       *)
(* workers of all jobs.  A lookup reads the cache, asks the endpoint when  *)
(* it finds nothing good there, and caches the first IPv4 address of the   *)
(* answer.  Lookups of one domain share nothing but the cache: several may *)
(* ask at a time, and what they get is cached in the order it arrives in.  *)
(*                                                                         *)
(* Time is counted in units of which cacheTTL and Timeout are multiples.   *)
(* The address the zone gives at a time is named by that time.             *)
(***************************************************************************)
EXTENDS Integers, Sequences

CONSTANTS
    Domains,
    Workers,     \* the goroutines that resolve, of all jobs
    cacheTTL,    \* how long an address is cached, whatever the zone says
    Timeout,     \* how long a worker waits for a lookup
    Payloads,    \* the lists of records an answer may hold
    MaxTime      \* bound of the clock

\* "A" with an IPv4 address, "A" with something else, any other type.
RecordType == {"A", "bad A", "CNAME"}

ASSUME DohAssumption ==
    /\ cacheTTL \in Nat \ {0}
    /\ Timeout \in Nat
    /\ Payloads \subseteq Seq(RecordType)
    /\ MaxTime \in Nat

VARIABLES
    now,
    cache,   \* domain -> the address cached last
    worker   \* worker -> its lookup and what that returned

vars == <<now, cache, worker>>

Time == 0 .. MaxTime

Entry == [ip : Time, expiresAt : 0 .. MaxTime + cacheTTL, there : BOOLEAN]

NoEntry == [ip |-> 0, expiresAt |-> 0, there |-> FALSE]

\* start: when the lookup began, and with it the deadline of its context.
Lookup == [pc : {"idle", "miss", "asked", "done"}, domain : Domains,
           start : Time, ip : Time, ok : BOOLEAN]

TypeOK ==
    /\ now \in Time
    /\ cache \in [Domains -> Entry]
    /\ worker \in [Workers -> Lookup]

Idle(d) == [pc |-> "idle", domain |-> d, start |-> 0, ip |-> 0, ok |-> FALSE]

Init ==
    /\ now = 0
    /\ cache = [d \in Domains |-> NoEntry]
    /\ worker \in [Workers -> {Idle(d) : d \in Domains}]

-----------------------------------------------------------------------------
\* Mutant: the expiry of an entry is not looked at.
Hit_Expired(d) == cache[d].there

Hit(d) == cache[d].there /\ now <= cache[d].expiresAt

Begin(d) == [Idle(d) EXCEPT !.start = now]

\* LookupIPv4 and its fromCache: an expired entry is deleted on the way.  MaxTime
\* leaves every lookup the time until its deadline.
LookupIPv4(w, d) ==
    /\ worker[w].pc = "idle"
    /\ now + Timeout <= MaxTime
    /\ \/ /\ Hit(d)
          /\ worker' = [worker EXCEPT ![w] = [Begin(d) EXCEPT
                           !.pc = "done", !.ip = cache[d].ip, !.ok = TRUE]]
          /\ UNCHANGED cache
       \/ /\ ~Hit(d)
          /\ cache' = [cache EXCEPT ![d] = NoEntry]
          /\ worker' = [worker EXCEPT ![w] = [Begin(d) EXCEPT !.pc = "miss"]]
    /\ UNCHANGED now

\* The query leaves; nothing is locked while it is under way.
Ask(w) ==
    /\ worker[w].pc = "miss"
    /\ worker' = [worker EXCEPT ![w].pc = "asked"]
    /\ UNCHANGED <<now, cache>>

Fail(w) == worker' = [worker EXCEPT ![w].pc = "done"]

\* Mutant: an entry lives for a TTL from the deadline of its lookup.
saveCache_Late(d, ip) ==
    cache' = [cache EXCEPT ![d] = [ip |-> ip, there |-> TRUE,
                                   expiresAt |-> now + Timeout + cacheTTL]]

\* The entry there may be is replaced, be it older or newer.
saveCache(d, ip) ==
    cache' = [cache EXCEPT ![d] = [ip |-> ip, expiresAt |-> now + cacheTTL, there |-> TRUE]]

HasAddress(payload) == \E i \in DOMAIN payload : payload[i] = "A"

\* The answer arrives now; the zone gave it at some time since it was asked.  The
\* first record that is an IPv4 address counts, whatever comes before it.
Answer(w) ==
    /\ worker[w].pc = "asked"
    /\ \E payload \in Payloads, t \in worker[w].start .. now :
          IF HasAddress(payload)
          THEN /\ saveCache(worker[w].domain, t)
               /\ worker' = [worker EXCEPT ![w] = [@ EXCEPT
                                !.pc = "done", !.ip = t, !.ok = TRUE]]
          ELSE Fail(w) /\ UNCHANGED cache
    /\ UNCHANGED now

\* The endpoint cannot be reached, or answers with an error status or with no JSON.
\* Nothing is cached of a failure.
AskFails(w) ==
    /\ worker[w].pc = "asked"
    /\ Fail(w)
    /\ UNCHANGED <<now, cache>>

Looking(w) == worker[w].pc \in {"miss", "asked"}

\* Mutant: the worker passes on the context it was given, which has no deadline.
Expired_Never(w) == FALSE

\* The deadline of the lookup's context has come.
Expired(w) == Looking(w) /\ now >= worker[w].start + Timeout

\* The context ends a query that the endpoint has not answered.
Expire(w) ==
    /\ worker[w].pc = "asked"
    /\ Expired(w)
    /\ Fail(w)
    /\ UNCHANGED <<now, cache>>

Return(w) ==
    /\ worker[w].pc = "done"
    /\ worker' = [worker EXCEPT ![w] = Idle(worker[w].domain)]
    /\ UNCHANGED <<now, cache>>

-----------------------------------------------------------------------------
\* Mutant: a lookup goes on after its deadline.
Tick_NoDeadline ==
    /\ now < MaxTime
    /\ now' = now + 1
    /\ UNCHANGED <<cache, worker>>

\* A lookup whose deadline has come ends before the next unit of time.
Tick ==
    /\ now < MaxTime
    /\ \A w \in Workers : ~Expired(w)
    /\ now' = now + 1
    /\ UNCHANGED <<cache, worker>>

\* A new process: the cache is a map of the old one.
Restart ==
    /\ cache' = [d \in Domains |-> NoEntry]
    /\ worker' = [w \in Workers |-> Idle(worker[w].domain)]
    /\ UNCHANGED now

Query(w) == Ask(w) \/ Answer(w) \/ AskFails(w) \/ Expire(w)

Next ==
    \/ \E w \in Workers : \/ \E d \in Domains : LookupIPv4(w, d)
                          \/ Query(w)
                          \/ Return(w)
    \/ Tick
    \/ Restart

Spec == Init /\ [][Next]_vars

\* Goroutines run, time passes and the runtime ends a context at its deadline.  That
\* the endpoint answers, or fails, is left to chance.
Fairness ==
    /\ \A w \in Workers : WF_vars(Ask(w)) /\ WF_vars(Expire(w))
    /\ WF_vars(Tick)

FairSpec == Spec /\ Fairness

-----------------------------------------------------------------------------
(* Properties.                                                             *)

\* A trace is never sent to an address the zone gave up more than one TTL and one
\* timeout ago, whichever answer of those under way was cached last.
AnswersAreFresh ==
    \A w \in Workers : worker[w].pc = "done" /\ worker[w].ok =>
        worker[w].start - worker[w].ip <= cacheTTL + Timeout

\* A slow answer may replace a newer one in the cache, as no order is kept, but
\* what it brings back is at most one timeout older.
SetBackAtMostATimeout ==
    [][\A d \in Domains : cache[d].there /\ cache'[d].there =>
          cache[d].ip - cache'[d].ip <= Timeout]_vars

\* No worker of a job hangs in a lookup, be the endpoint silent for ever.
EveryLookupEnds ==
    \A w \in Workers : worker[w].pc = "miss" ~> worker[w].pc \in {"done", "idle"}
=============================================================================
