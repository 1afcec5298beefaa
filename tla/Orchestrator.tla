---------------------------- MODULE Orchestrator ----------------------------
(***************************************************************************)
(* The worker pool of backend/internal/orchestrator.  EnqueueJob stores a  *)
(* job and starts a goroutine, the runner, that executes runJob.  For each *)
(* job the runner starts the workers, a feeder that hands the domains out  *)
(* over the unbuffered channel `tasks' and then closes it, and a closer    *)
(* that closes the unbuffered channel `results' when every worker has      *)
(* ended.  The runner itself collects the results: it tallies one, saves   *)
(* its trace, writes the progress to the store, and takes the next.        *)
(*                                                                         *)
(* A send on an unbuffered channel and its receive are one step of both    *)
(* goroutines.  The list dedupeDomains returns is a set here, and the      *)
(* feeder takes its elements in any order.                                 *)
(***************************************************************************)
EXTENDS JobStore

CONSTANTS
    Workers,      \* the goroutines of one job's pool
    Submissions,  \* the sets of domains requests may ask to probe
    PathStatuses, \* what Classify may say of a path that was traced
    Crashes       \* TRUE iff the process may die and be started again

ASSUME OrchestratorAssumption ==
    /\ Workers # {}
    /\ \A D \in Submissions : D \subseteq Domains /\ IsFiniteSet(D)
    /\ PathStatuses \subseteq ClassificationStatus
    /\ Crashes \in BOOLEAN

VARIABLES
    up,       \* whether the process runs
    clock,    \* the number of traces taken: orders their timestamps
    batch,    \* job -> the domains it was created for
    phase,    \* job -> where its runner is
    job,      \* job -> the runner's copy of the row, with its running tally
    current,  \* job -> the result the runner is recording
    pending,  \* job -> the domains the feeder still has to hand out
    open,     \* job -> which of its two channels are open
    worker    \* job -> worker -> its state

poolVars == <<up, clock, batch, phase, job, current, pending, open, worker>>
vars == <<storeVars, poolVars>>

-----------------------------------------------------------------------------
\* "none": the identifier is unused; "orphan": the row exists but EnqueueJob
\* failed; "load".."update": runJob; "returned", "aborted": runJob returned;
\* "killed": the process died under it.
Phases == {"none", "orphan", "load", "mark", "collect", "save", "update",
           "returned", "aborted", "killed"}

Collecting == {"collect", "save", "update"}
Running    == {"load", "mark"} \cup Collecting

Channels == {"tasks", "results"}

\* A worker holds a domain from its receive on tasks to its send on results.
Holding == {"resolving", "probing", "sending"}

WorkerState == [pc : {"idle", "exited"} \cup Holding,
                task : Domains \cup {NoDomain}, result : Result]

Idle   == [pc |-> "idle", task |-> NoDomain, result |-> NoResult]
Exited == [Idle EXCEPT !.pc = "exited"]

TypeOK ==
    /\ StoreTypeOK
    /\ up \in BOOLEAN
    /\ clock \in Nat
    /\ batch \in [Jobs -> SUBSET Domains]
    /\ phase \in [Jobs -> Phases]
    /\ job \in [Jobs -> Row]
    /\ current \in [Jobs -> Result]
    /\ pending \in [Jobs -> SUBSET Domains]
    /\ open \in [Jobs -> SUBSET Channels]
    /\ worker \in [Jobs -> [Workers -> WorkerState]]

Init ==
    /\ StoreInit
    /\ up = TRUE
    /\ clock = 0
    /\ batch = [j \in Jobs |-> {}]
    /\ phase = [j \in Jobs |-> "none"]
    /\ job = [j \in Jobs |-> NoRow]
    /\ current = [j \in Jobs |-> NoResult]
    /\ pending = [j \in Jobs |-> {}]
    /\ open = [j \in Jobs |-> {}]
    /\ worker = [j \in Jobs |-> [w \in Workers |-> Exited]]

-----------------------------------------------------------------------------
(* EnqueueJob, called by the handler of POST /probes.                      *)

\* A request whose deduplicated list is empty is refused before this.  An
\* error that leaves no row behind changes nothing; an error reported after
\* the INSERT was applied (the request's context ended) leaves a row that
\* nobody will ever run.
EnqueueJob(j, D) ==
    /\ up
    /\ phase[j] = "none"
    /\ D # {}
    /\ batch' = [batch EXCEPT ![j] = D]
    /\ CreateJob(j, Cardinality(D))
    /\ \/ phase' = [phase EXCEPT ![j] = "load"]
       \/ MayFail /\ phase' = [phase EXCEPT ![j] = "orphan"]
    /\ UNCHANGED <<up, clock, job, current, pending, open, worker>>

-----------------------------------------------------------------------------
(* The runner: runJob up to its loop.                                      *)

LoadJob(j) ==
    /\ phase[j] = "load"
    /\ \/ /\ job' = [job EXCEPT ![j] = Lookup(j)]
          /\ phase' = [phase EXCEPT ![j] = "mark"]
       \/ /\ MayFail
          /\ phase' = [phase EXCEPT ![j] = "aborted"]
          /\ UNCHANGED job
    /\ UNCHANGED <<storeVars, up, clock, batch, current, pending, open, worker>>

\* A failed update is logged and the job runs all the same.
MarkRunning(j) ==
    /\ phase[j] = "mark"
    /\ job' = [job EXCEPT ![j].status = "running"]
    /\ UpdateJob(j, job'[j])
    /\ pending' = [pending EXCEPT ![j] = batch[j]]
    /\ open' = [open EXCEPT ![j] = Channels]
    /\ worker' = [worker EXCEPT ![j] = [w \in Workers |-> Idle]]
    /\ phase' = [phase EXCEPT ![j] = "collect"]
    /\ UNCHANGED <<up, clock, batch, current>>

-----------------------------------------------------------------------------
(* The feeder.                                                             *)

\* Mutant: the domain is handed out and stays on the list.
HandOut_Again(j, w) ==
    /\ worker[j][w].pc = "idle"
    /\ \E d \in pending[j] :
          worker' = [worker EXCEPT ![j][w] = [@ EXCEPT !.pc = "resolving", !.task = d]]
    /\ UNCHANGED <<storeVars, up, clock, batch, phase, job, current, pending, open>>

HandOut(j, w) ==
    /\ worker[j][w].pc = "idle"
    /\ \E d \in pending[j] :
          /\ pending' = [pending EXCEPT ![j] = @ \ {d}]
          /\ worker' = [worker EXCEPT ![j][w] =
                           [@ EXCEPT !.pc = "resolving", !.task = d]]
    /\ UNCHANGED <<storeVars, up, clock, batch, phase, job, current, open>>

\* Mutant: the feeder returns without closing the channel.
CloseTasks_Forgotten(j) ==
    /\ "tasks" \in open[j]
    /\ pending[j] = {}
    /\ UNCHANGED vars

CloseTasks(j) ==
    /\ "tasks" \in open[j]
    /\ pending[j] = {}
    /\ open' = [open EXCEPT ![j] = @ \ {"tasks"}]
    /\ UNCHANGED <<storeVars, up, clock, batch, phase, job, current, pending, worker>>

-----------------------------------------------------------------------------
(* A worker: traceDomain, then the send on results.                        *)

\* Classify of a trace taken now.  A lookup or a probe that failed or timed
\* out is reported as Blocked, with the error beside the result.
Traced(d, s, failed) == [domain |-> d, status |-> s, err |-> failed, at |-> clock + 1]

FinishTrace(j, w, result) ==
    /\ worker' = [worker EXCEPT ![j][w] = [@ EXCEPT !.pc = "sending", !.result = result]]
    /\ clock' = clock + 1

Resolve(j, w) ==
    /\ worker[j][w].pc = "resolving"
    /\ \/ /\ worker' = [worker EXCEPT ![j][w].pc = "probing"]
          /\ UNCHANGED clock
       \/ FinishTrace(j, w, Traced(worker[j][w].task, "Blocked", TRUE))
    /\ UNCHANGED <<storeVars, up, batch, phase, job, current, pending, open>>

Probe(j, w) ==
    /\ worker[j][w].pc = "probing"
    /\ \/ \E s \in PathStatuses :
             FinishTrace(j, w, Traced(worker[j][w].task, s, FALSE))
       \/ FinishTrace(j, w, Traced(worker[j][w].task, "Blocked", TRUE))
    /\ UNCHANGED <<storeVars, up, batch, phase, job, current, pending, open>>

\* The channel tasks is closed and drained: the range loop ends.
WorkerExit(j, w) ==
    /\ worker[j][w].pc = "idle"
    /\ "tasks" \notin open[j]
    /\ worker' = [worker EXCEPT ![j][w] = Exited]
    /\ UNCHANGED <<storeVars, up, clock, batch, phase, job, current, pending, open>>

\* Mutant: the closer waits for the feeder instead of the workers.
CloseResults_NoWait(j) ==
    /\ "results" \in open[j]
    /\ "tasks" \notin open[j]
    /\ open' = [open EXCEPT ![j] = @ \ {"results"}]
    /\ UNCHANGED <<storeVars, up, clock, batch, phase, job, current, pending, worker>>

\* The closer: wg.Wait, then close(results).
CloseResults(j) ==
    /\ "results" \in open[j]
    /\ \A w \in Workers : worker[j][w].pc = "exited"
    /\ open' = [open EXCEPT ![j] = @ \ {"results"}]
    /\ UNCHANGED <<storeVars, up, clock, batch, phase, job, current, pending, worker>>

-----------------------------------------------------------------------------
(* The runner: the loop over results and the final write.                  *)

\* From the first UpdateJob of the loop on, the Counts of a row of the memory
\* store are the very map the runner increments.
SharesCounts(j) == backend = "memory" /\ job[j].processed > 0

\* Mutant: a result without an error clears the error of an earlier one.
Tally_ErrorCleared(j, result) ==
    [job[j] EXCEPT !.processed = @ + 1,
                   !.counts = Bump(@, result.status),
                   !.lastErr = result.err]

\* Mutant: a trace that failed is not counted under its classification.
Tally_FailureUncounted(j, result) ==
    [job[j] EXCEPT !.processed = @ + 1,
                   !.counts = IF result.err THEN @ ELSE Bump(@, result.status),
                   !.lastErr = @ \/ result.err]

Tally(j, result) ==
    [job[j] EXCEPT !.processed = @ + 1,
                   !.counts = Bump(@, result.status),
                   !.lastErr = @ \/ result.err]

Receive(j, w) ==
    /\ phase[j] = "collect"
    /\ worker[j][w].pc = "sending"
    /\ job' = [job EXCEPT ![j] = Tally(j, worker[j][w].result)]
    /\ rows' = IF SharesCounts(j)
               THEN [rows EXCEPT !["memory"][j].counts = job'[j].counts]
               ELSE rows
    /\ current' = [current EXCEPT ![j] = worker[j][w].result]
    /\ worker' = [worker EXCEPT ![j][w] = Idle]
    /\ phase' = [phase EXCEPT ![j] = "save"]
    /\ UNCHANGED <<backend, traces, latest, up, clock, batch, pending, open>>

\* Mutant: the trace of a domain that failed is not saved.
SaveResult_FailureSkipped(j) ==
    /\ phase[j] = "save"
    /\ IF current[j].err THEN UNCHANGED storeVars ELSE SaveTrace(j, current[j])
    /\ current' = [current EXCEPT ![j] = NoResult]
    /\ phase' = [phase EXCEPT ![j] = "update"]
    /\ UNCHANGED <<up, clock, batch, job, pending, open, worker>>

SaveResult(j) ==
    /\ phase[j] = "save"
    /\ SaveTrace(j, current[j])
    /\ current' = [current EXCEPT ![j] = NoResult]
    /\ phase' = [phase EXCEPT ![j] = "update"]
    /\ UNCHANGED <<up, clock, batch, job, pending, open, worker>>

WriteProgress(j) ==
    /\ phase[j] = "update"
    /\ UpdateJob(j, job[j])
    /\ phase' = [phase EXCEPT ![j] = "collect"]
    /\ UNCHANGED <<up, clock, batch, job, current, pending, open, worker>>

FinalWrite(j, row) ==
    /\ job' = [job EXCEPT ![j] = row]
    /\ UpdateJob(j, row)
    /\ phase' = [phase EXCEPT ![j] = "returned"]
    /\ UNCHANGED <<up, clock, batch, current, pending, open, worker>>

\* Mutant: the loop ends with the feeder, not with the last result.
Finalize_Early(j) ==
    /\ phase[j] = "collect"
    /\ "tasks" \notin open[j]
    /\ FinalWrite(j, [job[j] EXCEPT !.status = "completed"])

\* Mutant: the final write starts from the job as it was created.
Finalize_Reset(j) ==
    /\ phase[j] = "collect"
    /\ "results" \notin open[j]
    /\ FinalWrite(j, [NoRow EXCEPT !.status = "completed", !.total = job[j].total])

\* Mutant: a job with an error is given the status nobody else assigns.
Finalize_Failed(j) ==
    /\ phase[j] = "collect"
    /\ "results" \notin open[j]
    /\ FinalWrite(j, [job[j] EXCEPT !.status = IF job[j].lastErr
                                               THEN "failed" ELSE "completed"])

Finalize(j) ==
    /\ phase[j] = "collect"
    /\ "results" \notin open[j]
    /\ FinalWrite(j, [job[j] EXCEPT !.status = "completed"])

-----------------------------------------------------------------------------
(* The process dies, or main returns on a signal: Shutdown waits for HTTP  *)
(* handlers only.  Every goroutine ends where it stands.                   *)

Die ==
    /\ up
    /\ up' = FALSE
    /\ LoseMemory
    /\ phase' = [j \in Jobs |-> IF phase[j] \in Running THEN "killed" ELSE phase[j]]
    /\ job' = [j \in Jobs |-> NoRow]
    /\ current' = [j \in Jobs |-> NoResult]
    /\ pending' = [j \in Jobs |-> {}]
    /\ open' = [j \in Jobs |-> {}]
    /\ worker' = [j \in Jobs |-> [w \in Workers |-> Exited]]
    /\ UNCHANGED <<backend, clock, batch>>

Crash == Crashes /\ Die

\* Mutant: the new process queues again the jobs it finds running, and runs none.
Boot_Requeues ==
    /\ ~up
    /\ up' = TRUE
    /\ backend' \in buildStore
    /\ rows' = [rows EXCEPT !["postgres"] = [j \in Jobs |->
                   IF @[j].status = "running" THEN [@[j] EXCEPT !.status = "queued"]
                                              ELSE @[j]]]
    /\ UNCHANGED <<traces, latest, clock, batch, phase, job, current, pending,
                   open, worker>>

\* main: a new process picks its store afresh and resumes no job.
Boot ==
    /\ ~up
    /\ up' = TRUE
    /\ backend' \in buildStore
    /\ UNCHANGED <<rows, traces, latest, clock, batch, phase, job, current, pending,
                   open, worker>>

-----------------------------------------------------------------------------
Runner(j) ==
    \/ LoadJob(j) \/ MarkRunning(j)
    \/ \E w \in Workers : Receive(j, w)
    \/ SaveResult(j) \/ WriteProgress(j) \/ Finalize(j)

Worker(j, w) == Resolve(j, w) \/ Probe(j, w) \/ WorkerExit(j, w)

Feeder(j) == CloseTasks(j) \/ \E w \in Workers : HandOut(j, w)

Next ==
    \/ \E j \in Jobs :
          \/ \E D \in Submissions : EnqueueJob(j, D)
          \/ Runner(j)
          \/ Feeder(j)
          \/ CloseResults(j)
          \/ \E w \in Workers : Worker(j, w)
    \/ Crash
    \/ Boot

Spec == Init /\ [][Next]_vars

\* The Go scheduler starves no goroutine that can go on; a lookup and a probe
\* end because their contexts time out (6 s, ProbeTimeout); a statement sent
\* to Postgres returns; the container is started again when the process dies.
Fairness ==
    /\ \A j \in Jobs :
          /\ WF_vars(Runner(j))
          /\ WF_vars(Feeder(j))
          /\ WF_vars(CloseResults(j))
          /\ \A w \in Workers : WF_vars(Worker(j, w))
    /\ WF_vars(Boot)

FairSpec == Spec /\ Fairness

-----------------------------------------------------------------------------
(* Properties.                                                             *)

Holders(j) == {w \in Workers : worker[j][w].pc \in Holding}
Held(j)    == {worker[j][w].task : w \in Holders(j)}
Tallied(j) == batch[j] \ (pending[j] \cup Held(j))

\* No domain of a job is lost, duplicated or counted twice between the feeder,
\* the workers and the tally: while the runner collects, the domains not yet
\* handed out and those the workers hold, one each, are exactly the ones it
\* has not tallied, however the goroutines interleave.
TasksAccountedFor ==
    \A j \in Jobs : phase[j] \in Collecting =>
        /\ pending[j] \cap Held(j) = {}
        /\ \A v, w \in Holders(j) : worker[j][v].task = worker[j][w].task => v = w
        /\ job[j].processed = Cardinality(Tallied(j))

\* The channel results is closed only when no worker can send on it any more
\* (a send on a closed channel panics and takes the process down).
NoSendOnClosedResults ==
    \A j \in Jobs : "results" \notin open[j] =>
        \A w \in Workers : worker[j][w].pc = "exited"

\* Whatever writes to the store failed on the way, and whatever processes died,
\* a row that says completed was written by a runner that had tallied every
\* domain of the job: its progress is 100 % and its five counters add up to it.
CompletedIsWhole ==
    \A b \in Backends, j \in Jobs : rows[b][j].status = "completed" =>
        /\ rows[b][j].total = Cardinality(batch[j])
        /\ rows[b][j].processed = rows[b][j].total
        /\ CountTotal(rows[b][j].counts) = rows[b][j].total

\* A trace is saved before the progress that counts it is written: whoever
\* reads a row and then the results of the job finds as many results as the
\* row announced.  (Holds where no write fails: a failed save is only logged.)
TracesBackProgress ==
    \A b \in Backends, j \in Jobs :
        rows[b][j].processed <= Cardinality(traces[b][j])

\* Where no write fails, the counters and the error flag of a completed job are
\* the ones its saved traces give.
CountsMatchTraces ==
    \A b \in Backends, j \in Jobs : rows[b][j].status = "completed" =>
        /\ \A s \in ClassificationStatus :
              rows[b][j].counts[s] = Cardinality({r \in traces[b][j] : r.status = s})
        /\ rows[b][j].lastErr = \E r \in traces[b][j] : r.err

\* Each store, seen alone, is the table of records a polling client is
\* promised: Postgres never loses one, the memory store loses all at once.
Durable  == INSTANCE JobRecords WITH record <- rows["postgres"], Volatile <- FALSE
InMemory == INSTANCE JobRecords WITH record <- rows["memory"], Volatile <- TRUE

RefinesDurable  == Durable!RSpec
RefinesInMemory == InMemory!RSpec

\* Every runner that starts ends, unless the process dies under it: neither
\* channel blocks a goroutine for ever, even when every write fails.
EveryRunnerEnds ==
    \A j \in Jobs :
        phase[j] = "load" ~> phase[j] \in {"returned", "aborted", "killed"}

\* The memory store fails no write: over it every accepted job completes, unless
\* the process dies under it.
EveryJobCompletes ==
    \A j \in Jobs :
        phase[j] = "load" /\ backend = "memory"
            ~> Lookup(j).status = "completed" \/ phase[j] = "killed"

-----------------------------------------------------------------------------
(* The inductive invariant behind the three safety properties that hold in *)
(* every configuration: TasksAccountedFor, NoSendOnClosedResults and       *)
(* CompletedIsWhole.                                                       *)

\* The order in which the pipeline of a job shuts down: the list is empty, then
\* tasks is closed, then the workers exit, then results is closed.
ShutdownOrder(j) ==
    /\ "tasks" \notin open[j] => pending[j] = {}
    /\ "tasks" \in open[j] => \A w \in Workers : worker[j][w].pc # "exited"
    /\ "results" \notin open[j] =>
          "tasks" \notin open[j] /\ \A w \in Workers : worker[j][w].pc = "exited"
    /\ phase[j] \notin Collecting => "results" \notin open[j]

\* The part of TasksAccountedFor that needs no cardinality, with the fact that
\* the pipeline carries no other domain than the ones of the job.
TasksApart(j) ==
    /\ IsFiniteSet(batch[j])
    /\ pending[j] \cup Held(j) \subseteq batch[j]
    /\ pending[j] \cap Held(j) = {}
    /\ \A v, w \in Holders(j) : worker[j][v].task = worker[j][w].task => v = w

\* A row that no result has been counted in yet.
Fresh(j, row) ==
    row.total = Cardinality(batch[j]) /\ row.processed = 0 /\ CountTotal(row.counts) = 0

\* What the runner knows of the job agrees with its pipeline.
TallyAgrees(j) ==
    /\ phase[j] = "load" => Fresh(j, Lookup(j))
    /\ phase[j] = "mark" => Fresh(j, job[j])
    /\ phase[j] \in Collecting =>
          /\ job[j].status = "running"
          /\ job[j].total = Cardinality(batch[j])
          /\ job[j].processed = Cardinality(Tallied(j))
          /\ CountTotal(job[j].counts) = job[j].processed

\* Only a runner that returned leaves a completed row behind, and it is whole.
CompletedRow(j) ==
    \A b \in Backends : rows[b][j].status = "completed" =>
        /\ phase[j] = "returned"
        /\ rows[b][j].total = Cardinality(batch[j])
        /\ rows[b][j].processed = rows[b][j].total
        /\ CountTotal(rows[b][j].counts) = rows[b][j].total

JobInv(j) ==
    /\ phase[j] \in Running => up
    /\ ShutdownOrder(j)
    /\ TasksApart(j)
    /\ TallyAgrees(j)
    /\ CompletedRow(j)

IInv == TypeOK /\ \A j \in Jobs : JobInv(j)

-----------------------------------------------------------------------------
(* What the documentation says and the code does not do.                   *)

\* README: /results/latest lists the optimized rules.  The memory store lists
\* the last result of every domain, whatever its classification.
LatestListsOnlyOptimized == \A r \in ListOptimizedRules : r.status \in OptimizedStatus

\* README: /results/latest.  Of two jobs that trace a domain the memory store
\* lists the one that saved last, which may be the older trace.
NewestTraceWins == ListOptimizedRules \subseteq NewestSaved(backend)
=============================================================================
