----------------------------- MODULE RipeClient -----------------------------
(***************************************************************************)
(* The RIPE client (backend/internal/ripe).  A lookup reads the cache,     *)
(* then joins the flight of its key: of the callers of one key at a time a *)
(* single one, the leader, reads the cache again, asks upstream and caches *)
(* the record, with its own context; every caller of the flight gets its   *)
(* result.  The cache is a map of this process or Redis, which may fail.   *)
(*                                                                         *)
(* Time is counted in units of which TTL and Timeout are multiples.  The   *)
(* record upstream gives at a time is named by that time.                  *)
(***************************************************************************)
EXTENDS Integers

CONSTANTS
    Keys,        \* the resources asked for
    Callers,     \* the requests served at a time
    TTL,         \* how long a cached record lives
    Timeout,     \* how long the HTTP client waits for upstream
    RedisURL,    \* TRUE iff REDIS_URL is set
    MaxTime      \* bound of the clock

ASSUME RipeAssumption ==
    /\ TTL \in Nat \ {0}
    /\ Timeout \in Nat
    /\ RedisURL \in BOOLEAN
    /\ MaxTime \in Nat

VARIABLES
    now,
    kind,    \* which cache the process uses
    cache,   \* key -> the record cached last
    flight,  \* key -> the call of the singleflight group
    caller   \* caller -> where its lookup is and what it was told

vars == <<now, kind, cache, flight, caller>>

Time == 0 .. MaxTime

Answer == [ok : BOOLEAN, record : Time, cached : BOOLEAN]

Failed == [ok |-> FALSE, record |-> 0, cached |-> FALSE]

Item == [record : Time, expiresAt : 0 .. MaxTime + TTL, there : BOOLEAN]

NoItem == [record |-> 0, expiresAt |-> 0, there |-> FALSE]

Flight == [pc : {"none", "check", "fetch", "store"}, asked : Time, record : Time]

NoFlight == [pc |-> "none", asked |-> 0, record |-> 0]

Caller == [pc : {"idle", "join", "wait", "done"}, key : Keys, start : Time,
           answer : Answer]

TypeOK ==
    /\ now \in Time
    /\ kind \in {"memory", "redis"}
    /\ cache \in [Keys -> Item]
    /\ flight \in [Keys -> Flight]
    /\ caller \in [Callers -> Caller]

\* Mutant: a URL that does not parse leaves the client without a cache.
buildRIPE_NoCache == IF RedisURL THEN {"redis", "none"} ELSE {"memory"}

\* A URL that does not parse is logged and replaced by memory; an unreachable
\* Redis is not noticed here.
buildRIPE == IF RedisURL THEN {"redis", "memory"} ELSE {"memory"}

Idle(k) == [pc |-> "idle", key |-> k, start |-> 0, answer |-> Failed]

Init ==
    /\ now = 0
    /\ kind \in buildRIPE
    /\ cache = [k \in Keys |-> NoItem]
    /\ flight = [k \in Keys |-> NoFlight]
    /\ caller \in [Callers -> {Idle(k) : k \in Keys}]

-----------------------------------------------------------------------------
\* Mutant: the expiry of an item is not looked at.
Hit_Expired(k) == cache[k].there

Hit(k) == cache[k].there /\ now <= cache[k].expiresAt

\* A statement sent to Redis fails when Redis or the caller's client is gone;
\* the code takes a failed Get for a miss and ignores a failed Set.
CacheMayFail == kind = "redis"

Cached(k) == [ok |-> TRUE, record |-> cache[k].record, cached |-> TRUE]

\* The handler of GET /ripe/{resource}; the lookup's first read of the cache.
Lookup(c, k) ==
    /\ caller[c].pc = "idle"
    /\ \/ /\ Hit(k)
          /\ caller' = [caller EXCEPT ![c] = [Idle(k) EXCEPT
                           !.pc = "done", !.start = now, !.answer = Cached(k)]]
       \/ /\ ~Hit(k) \/ CacheMayFail
          /\ caller' = [caller EXCEPT ![c] = [Idle(k) EXCEPT !.pc = "join", !.start = now]]
    /\ UNCHANGED <<now, kind, cache, flight>>

\* group.Do: lead a flight of the key, or wait for the one there is.
Join(c) ==
    LET k == caller[c].key
    IN  /\ caller[c].pc = "join"
        /\ caller' = [caller EXCEPT ![c].pc = "wait"]
        /\ flight' = IF flight[k].pc = "none"
                     THEN [flight EXCEPT ![k] = [NoFlight EXCEPT !.pc = "check"]]
                     ELSE flight
        /\ UNCHANGED <<now, kind, cache>>

Waiting(k) == {c \in Callers : caller[c].pc = "wait" /\ caller[c].key = k}

\* Mutant: one caller of the flight is woken.
Land_One(k, answer) ==
    /\ flight' = [flight EXCEPT ![k] = NoFlight]
    /\ \E c \in Waiting(k) :
          caller' = [caller EXCEPT ![c] = [@ EXCEPT !.pc = "done", !.answer = answer]]

\* The flight ends, and with it the lookups of all its callers.
Land(k, answer) ==
    /\ flight' = [flight EXCEPT ![k] = NoFlight]
    /\ caller' = [c \in Callers |->
                     IF c \in Waiting(k)
                     THEN [caller[c] EXCEPT !.pc = "done", !.answer = answer]
                     ELSE caller[c]]

Ask(k) == flight' = [flight EXCEPT ![k].pc = "fetch", ![k].asked = now]

\* Mutant: the leader does not read the cache again.
CheckAgain_Skipped(k) ==
    /\ flight[k].pc = "check"
    /\ Ask(k)
    /\ UNCHANGED <<now, kind, cache, caller>>

\* Between a lookup's first miss and its flight another flight may have landed.
CheckAgain(k) ==
    /\ flight[k].pc = "check"
    /\ \/ Hit(k) /\ Land(k, Cached(k))
       \/ (~Hit(k) \/ CacheMayFail) /\ Ask(k) /\ UNCHANGED caller
    /\ UNCHANGED <<now, kind, cache>>

\* The answer arrives now; upstream made it at some time since it was asked.
Upstream(k) ==
    /\ flight[k].pc = "fetch"
    /\ \E t \in flight[k].asked .. now :
          flight' = [flight EXCEPT ![k].pc = "store", ![k].record = t]
    /\ UNCHANGED <<now, kind, cache, caller>>

\* Upstream fails or times out, or the leader's client goes away.
FetchFails(k) ==
    /\ flight[k].pc = "fetch"
    /\ Land(k, Failed)
    /\ UNCHANGED <<now, kind, cache>>

Store(k) ==
    /\ flight[k].pc = "store"
    /\ \/ cache' = [cache EXCEPT ![k] = [record |-> flight[k].record,
                                         expiresAt |-> now + TTL, there |-> TRUE]]
       \/ CacheMayFail /\ UNCHANGED cache
    /\ Land(k, [ok |-> TRUE, record |-> flight[k].record, cached |-> FALSE])
    /\ UNCHANGED <<now, kind>>

Respond(c) ==
    /\ caller[c].pc = "done"
    /\ caller' = [caller EXCEPT ![c] = Idle(caller[c].key)]
    /\ UNCHANGED <<now, kind, cache, flight>>

-----------------------------------------------------------------------------
\* The HTTP client ends a fetch in time, and a fetched record is cached at once.
Tick ==
    /\ now < MaxTime
    /\ \A k \in Keys : /\ flight[k].pc = "fetch" => now < flight[k].asked + Timeout
                       /\ flight[k].pc # "store"
    /\ now' = now + 1
    /\ UNCHANGED <<kind, cache, flight, caller>>

\* A new process with the same configuration: only what is in Redis is left.
Restart ==
    /\ cache' = IF kind = "redis" THEN cache ELSE [k \in Keys |-> NoItem]
    /\ flight' = [k \in Keys |-> NoFlight]
    /\ caller' = [c \in Callers |-> Idle(caller[c].key)]
    /\ UNCHANGED <<now, kind>>

Call(k) == CheckAgain(k) \/ Upstream(k) \/ FetchFails(k) \/ Store(k)

Next ==
    \/ \E c \in Callers : \/ \E k \in Keys : Lookup(c, k)
                          \/ Join(c) \/ Respond(c)
    \/ \E k \in Keys : Call(k)
    \/ Tick
    \/ Restart

Spec == Init /\ [][Next]_vars

\* Goroutines run; a fetch ends, by the answer or by the timeout.
Fairness ==
    /\ \A c \in Callers : WF_vars(Join(c))
    /\ \A k \in Keys : WF_vars(Call(k))

FairSpec == Spec /\ Fairness

-----------------------------------------------------------------------------
(* Properties.                                                             *)

\* A fetched answer was made by upstream at most one timeout before the lookup
\* began (it may have joined a flight that was already waiting), and a cached
\* one at most one TTL before that.
AnswersAreFresh ==
    \A c \in Callers : caller[c].pc = "done" /\ caller[c].answer.ok =>
        LET answer == caller[c].answer
        IN  caller[c].start - answer.record <= IF answer.cached THEN TTL + Timeout ELSE Timeout

\* With the cache in memory upstream is asked once per TTL: as long as a request
\* to upstream or its answer is on the way nothing good is cached for its key,
\* however many callers missed at the same time and whenever flights landed.
AskedOncePerTTL ==
    kind = "memory" =>
        \A k \in Keys : flight[k].pc \in {"fetch", "store"} => ~Hit(k)

\* No lookup waits for ever, whoever leads its flight and however that ends.
EveryLookupEnds ==
    \A c \in Callers : caller[c].pc = "join" ~> caller[c].pc \in {"done", "idle"}
=============================================================================
