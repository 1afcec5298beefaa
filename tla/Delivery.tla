------------------------------ MODULE Delivery ------------------------------
(***************************************************************************)
(* The rulesets handed to Surge and Xray (backend/internal/delivery and    *)
(* its two handlers).  A handler lists the rules of the store, renders the *)
(* domains of the optimized ones and answers 304 when the client's ETag is *)
(* the one of what it rendered.  The list rendered is sorted and without   *)
(* duplicates, so it is the set of its domains here.  The Surge list also  *)
(* carries the second it was generated in.  One name that is no domain     *)
(* makes the whole ruleset an error.                                       *)
(*                                                                         *)
(* The store is what ListOptimizedRules shows of it: the latest result of  *)
(* each domain, which new traces change at any time.  Clients poll with    *)
(* the ETag of the copy they hold.                                         *)
(***************************************************************************)
EXTENDS Model

CONSTANTS
    Domains,          \* the domains of jobs
    NoDomain,         \* what is left of a name of blanks and a dot
    normalizeDomain,  \* a name in lower case without blanks or its first dot
    domainPattern,    \* the names of letters, digits, dots and hyphens
    Clients,
    Statuses,         \* the classifications that traces may have
    Backends,         \* the stores the process may have
    StoreErrors,      \* TRUE iff a query to Postgres may return an error
    MaxTraces,        \* bound of the traces saved
    MaxTime           \* bound of the clock

Names == Domains \cup {NoDomain}

ASSUME DeliveryAssumption ==
    /\ normalizeDomain \in [Domains -> Names]
    /\ domainPattern \subseteq Names
    /\ Statuses \subseteq ClassificationStatus
    /\ Backends \subseteq {"postgres", "memory"}
    /\ StoreErrors \in BOOLEAN
    /\ MaxTraces \in Nat
    /\ MaxTime \in Nat

VARIABLES
    backend,
    latest,   \* domain -> the classification of its latest result
    traces,   \* the number of traces saved
    now,      \* the second
    client    \* client -> the copy it holds and the request it is making

vars == <<backend, latest, traces, now, client>>

\* time: the second in the header of a Surge list, 0 in an Xray object.
Payload == [domains : SUBSET Names, time : 0 .. MaxTime, there : BOOLEAN]

Nothing == [domains |-> {}, time |-> 0, there |-> FALSE]

Rule == [domain : Domains, status : ClassificationStatus]

\* What a request is answered with; 0 is no answer.
Code == {0, 200, 304, 500}

\* window: every ruleset there was since the request was sent.
Client == [pc : {"idle", "sent", "listed", "answered"}, list : {"surge", "xray"},
           copy : Payload, rules : SUBSET Rule, answer : Code,
           body : Payload, window : SUBSET SUBSET Names]

TypeOK ==
    /\ backend \in Backends
    /\ latest \in [Domains -> Statuses \cup {"none"}]
    /\ traces \in 0 .. MaxTraces
    /\ now \in 0 .. MaxTime
    /\ client \in [Clients -> Client]

Idle(list, copy) ==
    [pc |-> "idle", list |-> list, copy |-> copy, rules |-> {}, answer |-> 0,
     body |-> Nothing, window |-> {}]

Init ==
    /\ backend \in Backends
    /\ latest = [d \in Domains |-> "none"]
    /\ traces = 0
    /\ now = 0
    /\ client \in [Clients -> {Idle(l, Nothing) : l \in {"surge", "xray"}}]

-----------------------------------------------------------------------------
Promoted == {d \in Domains : latest[d] \in OptimizedStatus}

\* What the ruleset should say now.
Ruleset == {normalizeDomain[d] : d \in Promoted} \ {NoDomain}

\* Mutant: memory also lists the domains it knows no result of.
ListOptimizedRules_Unknown ==
    LET rules == {[domain |-> d, status |-> latest[d]] : d \in Domains}
    IN  {r \in rules : backend = "postgres" => r.status \in OptimizedStatus}

\* ListOptimizedRules: memory lists the latest result of every domain.
ListOptimizedRules ==
    LET rules == {[domain |-> d, status |-> latest[d]] : d \in Domains}
    IN  {r \in rules : IF backend = "postgres" THEN r.status \in OptimizedStatus
                                               ELSE r.status # "none"}

\* Mutant: the rules listed are taken for optimized ones.
OptimizedDomains_All(rules) == {normalizeDomain[r.domain] : r \in rules} \ {NoDomain}

OptimizedDomains(rules) ==
    {normalizeDomain[r.domain] : r \in {x \in rules : x.status \in OptimizedStatus}}
        \ {NoDomain}

\* Mutant: the Xray object carries the time as well.
Render_Stamped(list, rules) ==
    [domains |-> OptimizedDomains(rules), time |-> now, there |-> TRUE]

Render(list, rules) ==
    [domains |-> OptimizedDomains(rules), time |-> IF list = "surge" THEN now ELSE 0,
     there |-> TRUE]

Renderable(rules) == OptimizedDomains(rules) \subseteq domainPattern

\* Payloads have the same SHA-256 only if they are the same.
ETag(payload) == payload

-----------------------------------------------------------------------------
\* A runner saves a trace of a domain; every request under way is concurrent.
SaveTrace(d, s) ==
    /\ traces < MaxTraces
    /\ traces' = traces + 1
    /\ latest' = [latest EXCEPT ![d] = s]
    /\ client' = [c \in Clients |->
                     IF client[c].pc = "idle" THEN client[c]
                     ELSE [client[c] EXCEPT !.window = @ \cup {Ruleset'}]]
    /\ UNCHANGED <<backend, now>>

\* The client asks, with the ETag of its copy in If-None-Match.
Send(c) ==
    /\ client[c].pc = "idle"
    /\ client' = [client EXCEPT ![c].pc = "sent", ![c].window = {Ruleset}]
    /\ UNCHANGED <<backend, latest, traces, now>>

List(c) ==
    /\ client[c].pc = "sent"
    /\ client' = [client EXCEPT ![c].pc = "listed", ![c].rules = ListOptimizedRules]
    /\ UNCHANGED <<backend, latest, traces, now>>

Answer(c, status, body) ==
    /\ client' = [client EXCEPT ![c] =
                     [@ EXCEPT !.pc = "answered", !.rules = {}, !.answer = status,
                               !.body = body]]
    /\ UNCHANGED <<backend, latest, traces, now>>

ListFails(c) ==
    /\ client[c].pc = "sent"
    /\ backend = "postgres" /\ StoreErrors
    /\ Answer(c, 500, Nothing)

\* Mutant: any If-None-Match is answered with 304.
writeCacheable_Always(c, payload) ==
    IF client[c].copy.there THEN Answer(c, 304, Nothing) ELSE Answer(c, 200, payload)

writeCacheable(c, payload) ==
    IF client[c].copy.there /\ ETag(client[c].copy) = ETag(payload)
    THEN Answer(c, 304, Nothing)
    ELSE Answer(c, 200, payload)

\* RenderSurgeRuleset or RenderXrayRouting, and writeCacheable.
Deliver(c) ==
    /\ client[c].pc = "listed"
    /\ IF Renderable(client[c].rules)
       THEN writeCacheable(c, Render(client[c].list, client[c].rules))
       ELSE Answer(c, 500, Nothing)

\* What the client holds once it has the answer.
Copy(c) == IF client[c].answer = 200 THEN client[c].body ELSE client[c].copy

Receive(c) ==
    /\ client[c].pc = "answered"
    /\ client' = [client EXCEPT ![c] = Idle(@.list, Copy(c))]
    /\ UNCHANGED <<backend, latest, traces, now>>

\* The request or its answer is lost; the client keeps its copy.
Lose(c) ==
    /\ client[c].pc # "idle"
    /\ client' = [client EXCEPT ![c] = Idle(@.list, @.copy)]
    /\ UNCHANGED <<backend, latest, traces, now>>

Tick ==
    /\ now < MaxTime
    /\ now' = now + 1
    /\ UNCHANGED <<backend, latest, traces, client>>

\* A new process on the same store: memory starts empty, clients keep copies.
Restart ==
    /\ latest' = IF backend = "memory" THEN [d \in Domains |-> "none"] ELSE latest
    /\ client' = [c \in Clients |-> Idle(client[c].list, client[c].copy)]
    /\ UNCHANGED <<backend, traces, now>>

-----------------------------------------------------------------------------
Next ==
    \/ \E d \in Domains, s \in Statuses : SaveTrace(d, s)
    \/ \E c \in Clients : \/ Send(c) \/ List(c) \/ ListFails(c) \/ Deliver(c)
                          \/ Receive(c) \/ Lose(c)
    \/ Tick
    \/ Restart

Spec == Init /\ [][Next]_vars

\* Clients poll; a store that fails, an answer that is lost and a process that
\* dies may do so again and again, but not every time.
Fairness ==
    \A c \in Clients : /\ WF_vars(Send(c))
                       /\ SF_vars(List(c))
                       /\ SF_vars(Deliver(c))
                       /\ WF_vars(Receive(c))
                       /\ SF_vars(Receive(c) /\ client[c].answer # 500)

FairSpec == Spec /\ Fairness

-----------------------------------------------------------------------------
(* Properties.                                                             *)

\* Whatever traces are saved while a request is served, by either store, the
\* client ends up with a ruleset that was the right one at some moment since it
\* asked: one it was sent, or the copy it was told it may keep.
PollEndsCurrent ==
    \A c \in Clients : client[c].answer \in {200, 304} =>
        Copy(c).domains \in client[c].window

\* An Xray object whose domains the client has already is not sent again.
UnchangedIsNotSent ==
    \A c \in Clients :
        client[c].list = "xray" /\ client[c].answer = 200 /\ client[c].copy.there =>
            client[c].copy.domains # client[c].body.domains

\* A client that keeps polling has the right ruleset in the end, if no promoted
\* name breaks the rendering for good (one is enough to stop every client).
ClientsCatchUp ==
    \A c \in Clients :
        <>[](Ruleset \subseteq domainPattern) => []<>(client[c].copy.domains = Ruleset)
=============================================================================
