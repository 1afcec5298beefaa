---------------------------- MODULE CreateProbe ----------------------------
(***************************************************************************)
(* The handler of POST /probes (createProbe and fetchSurgeDomains of       *)
(* backend/internal/api): it gathers the domains of the request, of a list *)
(* at surge_url and of one in the request, and has them probed.  Lists are *)
(* expanded by SurgeParser, one after the other, with the request's        *)
(* context, which may end under any of this.                               *)
(*                                                                         *)
(* The lists of names it appends and dedupes are sets here: EnqueueJob     *)
(* dedupes once more, and no order is kept.                                *)
(***************************************************************************)
EXTENDS SurgeParser

CONSTANTS
    NoSource,    \* the empty surge_url or surge_inline
    Inline,      \* the source that stands for the text of surge_inline
    Requests,    \* what clients may send
    Backends     \* the stores the process may have

\* A surge_url that is no URL is the name of a local file.
Request == [domains : SUBSET Domains, url : (Sources \ {Inline}) \cup {NoSource},
            inline : {Inline, NoSource}]

ASSUME ProbeAssumption ==
    /\ NoSource \notin Sources
    /\ Inline \in Sources \ Remote
    /\ Requests \subseteq Request
    /\ Backends \subseteq {"postgres", "memory"}

VARIABLES
    backend,  \* the store
    request,
    pc,       \* the input the handler is at
    list,     \* its local `domains'
    answer,   \* the status it answers with, 0 before
    job       \* the domains of the job it enqueued

vars == <<parserVars, backend, request, pc, list, answer, job>>

\* What a request is answered with; 0 is no answer.
Code == {0, 202, 400, 500, 502}

TypeOK ==
    /\ ParserTypeOK
    /\ backend \in Backends
    /\ request \in Requests
    /\ pc \in {"decode", "url", "parse url", "inline", "parse inline", "enqueue",
              "answered"}
    /\ list \subseteq Domains
    /\ answer \in Code
    /\ job \subseteq Domains

\* normalizeDomains and the loop of addDomain are the same code.
normalizeDomains(names) == {addDomain[d] : d \in names} \ {NoDomain}

Init ==
    /\ ParserInit
    /\ backend \in Backends
    /\ request \in Requests
    /\ pc = "decode"
    /\ list = {}
    /\ answer = 0
    /\ job = {}

-----------------------------------------------------------------------------
Answer(status) ==
    /\ pc' = "answered"
    /\ answer' = status
    /\ UNCHANGED <<backend, request, list, job>>

\* The body decodes or is no JSON object of this shape.
Decode ==
    /\ pc = "decode"
    /\ \/ /\ list' = normalizeDomains(request.domains)
          /\ pc' = "url"
          /\ UNCHANGED <<backend, request, answer, job>>
       \/ Answer(400)
    /\ UNCHANGED parserVars

Skip ==
    \/ pc = "url" /\ request.url = NoSource /\ pc' = "inline"
    \/ pc = "inline" /\ request.inline = NoSource /\ pc' = "enqueue"

NoInput == Skip /\ UNCHANGED <<parserVars, backend, request, list, answer, job>>

\* fetchSurgeDomains: the one fetch whose failure the client is told.
FetchList ==
    /\ pc = "url"
    /\ request.url # NoSource
    /\ \/ /\ Fetchable(request.url)
          /\ stack' = <<Open(request.url, FALSE)>>
          /\ pc' = "parse url"
          /\ UNCHANGED <<world, ctx, domains, skipped, backend, request, list,
                         answer, job>>
       \/ Answer(502) /\ UNCHANGED parserVars

ReadInline ==
    /\ pc = "inline"
    /\ request.inline # NoSource
    /\ stack' = <<Open(Inline, FALSE)>>
    /\ pc' = "parse inline"
    /\ UNCHANGED <<world, ctx, domains, skipped, backend, request, list, answer, job>>

Scan == Parse /\ UNCHANGED <<backend, request, pc, list, answer, job>>

AppendList ==
    /\ Finished
    /\ stack' = <<>>
    /\ domains' = {}
    /\ list' = list \cup domains
    /\ pc' = IF pc = "parse url" THEN "inline" ELSE "enqueue"
    /\ UNCHANGED <<world, ctx, skipped, backend, request, answer, job>>

ParseFails == ReadFails /\ Answer(IF pc = "parse url" THEN 502 ELSE 400)

NoDomains ==
    /\ pc = "enqueue"
    /\ list = {}
    /\ Answer(400)
    /\ UNCHANGED parserVars

\* Mutant: the job is created with a context of its own.
Enqueue_Detached ==
    /\ pc = "enqueue"
    /\ list # {}
    /\ job' = list
    /\ answer' = 202
    /\ pc' = "answered"
    /\ UNCHANGED <<parserVars, backend, request, list>>

\* EnqueueJob: CreateJob of Postgres needs a live context and may fail; the one
\* of memory looks at no context.
Enqueue ==
    /\ pc = "enqueue"
    /\ list # {}
    /\ \/ /\ backend = "memory" \/ ctx = "live"
          /\ job' = list
          /\ answer' = 202
          /\ pc' = "answered"
          /\ UNCHANGED <<backend, request, list>>
       \/ backend = "postgres" /\ Answer(500)
    /\ UNCHANGED parserVars

ContextEnds == EndContext /\ UNCHANGED <<backend, request, pc, list, answer, job>>

Handler ==
    \/ Decode \/ NoInput \/ FetchList \/ ReadInline
    \/ Scan \/ AppendList
    \/ NoDomains \/ Enqueue

Next == Handler \/ ParseFails \/ ContextEnds

Spec == Init /\ [][Next]_vars

\* The handler runs, and a fetch ends with its body, an error or the context, which
\* ends after 30 s at the latest.  A body need not break off.
Fairness == WF_vars(Handler) /\ WF_vars(ContextEnds)

FairSpec == Spec /\ Fairness

-----------------------------------------------------------------------------
(* Properties.                                                             *)

Lists == (IF request.url = NoSource THEN {} ELSE {Open(request.url, FALSE)})
         \cup (IF request.inline = NoSource THEN {} ELSE {Open(Inline, FALSE)})

Listings == {[source |-> l.source, set |-> l.set] : l \in Lists}

Asked(cut) ==
    normalizeDomains(request.domains) \cup Expansion(world, Listings, cut)

\* A job has all the domains its request asks for, except what only a list can
\* give that could not be fetched, and no other, whichever way its lists include
\* each other, in whichever of the two formats a list is read on the way.
JobIsExpansion ==
    answer = 202 => /\ Asked(Failed({"live", "over"})) \subseteq job
                    /\ job \subseteq Asked({})

\* Over Postgres a job is never short of what its lists had to give because the
\* request's context ended under the parser: an accepted job lacks only what lists
\* that failed for reasons of their own would have given.
CutShortIsRefused ==
    answer = 202 /\ backend = "postgres" => Asked(Failed({"live"})) \subseteq job

\* Every request is answered, whichever lists include themselves or each other:
\* the deadline ends those at URLs, the files a process can open the local ones.
EveryRequestIsAnswered == <>(pc = "answered")
=============================================================================
