------------------------- MODULE OrchestratorProofs -------------------------
(***************************************************************************)
(* Machine-checked proofs about Orchestrator, for every number of jobs,    *)
(* domains and workers, either store, failing statements and crashes: its  *)
(* types and its pool, then that each store, under the pool, implements    *)
(* the table of records of JobRecords, then what the traces back.          *)
(***************************************************************************)
EXTENDS Orchestrator, FiniteSetTheorems, TLAPS

-----------------------------------------------------------------------------
(* The counters.                                                           *)

\* Bumping one counter keeps the map a map of counters and adds one to its sum.
LEMMA BumpCounts ==
    ASSUME NEW c \in CountMap, NEW s \in ClassificationStatus
    PROVE  Bump(c, s) \in CountMap /\ CountTotal(Bump(c, s)) = CountTotal(c) + 1
  BY DEF CountMap, Bump, CountTotal, ClassificationStatus

LEMMA EmptyCounts == emptyCounts \in CountMap /\ CountTotal(emptyCounts) = 0
  BY DEF CountMap, emptyCounts, CountTotal, ClassificationStatus

LEMMA EmptyRecords == NoRow \in Row /\ NoResult \in Result /\ Idle \in WorkerState /\ Exited \in WorkerState
  BY EmptyCounts DEF NoRow, Row, NoResult, Result, ClassificationStatus, Idle, Exited,
                     WorkerState, Holding, ProbeJobStatus

-----------------------------------------------------------------------------
(* Type correctness.                                                       *)

LEMMA TypeInit == Init => TypeOK
  BY StoreAssumption, EmptyRecords
  DEF Init, StoreInit, TypeOK, StoreTypeOK, buildStore, Backends, Phases, Channels

\* Replacing the row of one job in the store in use keeps the type of all.
LEMMA RowsType ==
    ASSUME TypeOK, NEW j \in Jobs, NEW row \in Row,
           rows' = [rows EXCEPT ![backend][j] = row]
    PROVE  rows' \in [Backends -> [Jobs -> Row]]
  BY DEF TypeOK, StoreTypeOK

LEMMA UpdateType ==
    ASSUME TypeOK, NEW j \in Jobs, NEW row \in Row, UpdateJob(j, row)
    PROVE  StoreTypeOK'
<1>1. rows' \in [Backends -> [Jobs -> Row]]
  BY RowsType DEF UpdateJob, TypeOK, StoreTypeOK
<1> QED BY <1>1 DEF UpdateJob, TypeOK, StoreTypeOK

\* Replacing the state of one worker by another one keeps the type of all.
LEMMA WorkerType ==
    ASSUME TypeOK, NEW j \in Jobs, NEW w \in Workers, NEW s \in WorkerState,
           worker' = [worker EXCEPT ![j][w] = s]
    PROVE  worker' \in [Jobs -> [Workers -> WorkerState]]
  BY DEF TypeOK

\* An outcome of traceDomain is a result, and a worker may hold it.
LEMMA TracedType ==
    ASSUME TypeOK, NEW j \in Jobs, NEW w \in Workers, NEW s \in ClassificationStatus,
           NEW failed \in BOOLEAN, FinishTrace(j, w, Traced(worker[j][w].task, s, failed))
    PROVE  /\ worker' \in [Jobs -> [Workers -> WorkerState]]
           /\ clock' \in Nat
<1> DEFINE result == Traced(worker[j][w].task, s, failed)
           held == [worker[j][w] EXCEPT !.pc = "sending", !.result = result]
<1>1. worker[j][w] \in WorkerState
  BY DEF TypeOK
<1>2. result \in Result
  BY <1>1 DEF TypeOK, Traced, Result, WorkerState
<1>3. held \in WorkerState
  BY <1>1, <1>2 DEF WorkerState, Holding
<1>4. worker' = [worker EXCEPT ![j][w] = held]
  BY DEF FinishTrace
<1> QED BY <1>3, <1>4, WorkerType DEF FinishTrace, TypeOK

\* The death of the process, of which Crash is one occasion.
LEMMA TypeDie == TypeOK /\ Die => TypeOK'
<1> SUFFICES ASSUME TypeOK, Die PROVE TypeOK'
  OBVIOUS
<1>1. StoreTypeOK'
  BY EmptyRecords DEF Die, LoseMemory, TypeOK, StoreTypeOK
<1>2. phase' \in [Jobs -> Phases]
  BY DEF Die, TypeOK, Phases
<1> QED BY <1>1, <1>2, EmptyRecords DEF Die, TypeOK

\* One step of Next keeps every variable in its type.
LEMMA TypeNext == TypeOK /\ [Next]_vars => TypeOK'
<1> SUFFICES ASSUME TypeOK, [Next]_vars PROVE TypeOK'
  OBVIOUS
<1>1. ASSUME NEW j \in Jobs, NEW D \in Submissions, EnqueueJob(j, D) PROVE TypeOK'
  <2>1. D \subseteq Domains /\ Cardinality(D) \in Nat
    BY OrchestratorAssumption, FS_CardinalityType
  <2>2. [NoRow EXCEPT !.status = "queued", !.total = Cardinality(D)] \in Row
    BY <2>1, EmptyRecords DEF Row, ProbeJobStatus
  <2>3. StoreTypeOK'
    BY <1>1, <2>2 DEF EnqueueJob, CreateJob, TypeOK, StoreTypeOK
  <2>4. phase' \in [Jobs -> Phases]
    BY <1>1 DEF EnqueueJob, TypeOK, Phases
  <2>5. batch' \in [Jobs -> SUBSET Domains]
    BY <1>1, <2>1 DEF EnqueueJob, TypeOK
  <2> QED BY <1>1, <2>3, <2>4, <2>5 DEF EnqueueJob, TypeOK
<1>2. ASSUME NEW j \in Jobs, LoadJob(j) PROVE TypeOK'
  <2>1. StoreTypeOK'
    BY <1>2 DEF LoadJob, TypeOK, StoreTypeOK, storeVars
  <2>2. Lookup(j) \in Row
    BY DEF TypeOK, StoreTypeOK, Lookup
  <2>3. job' \in [Jobs -> Row]
    BY <1>2, <2>2 DEF LoadJob, TypeOK
  <2>4. phase' \in [Jobs -> Phases]
    BY <1>2 DEF LoadJob, TypeOK, Phases
  <2> QED BY <1>2, <2>1, <2>3, <2>4 DEF LoadJob, TypeOK
<1>3. ASSUME NEW j \in Jobs, MarkRunning(j) PROVE TypeOK'
  <2>1. [job[j] EXCEPT !.status = "running"] \in Row
    BY DEF TypeOK, Row, ProbeJobStatus
  <2>2. job' \in [Jobs -> Row] /\ job'[j] = [job[j] EXCEPT !.status = "running"]
    BY <1>3, <2>1 DEF MarkRunning, TypeOK
  <2>3. StoreTypeOK'
    <3>1. UpdateJob(j, [job[j] EXCEPT !.status = "running"])
      BY <1>3, <2>2 DEF MarkRunning, UpdateJob
    <3> QED BY <2>1, <3>1, UpdateType
  <2>4. phase' \in [Jobs -> Phases]
    BY <1>3 DEF MarkRunning, TypeOK, Phases
  <2>5. pending' \in [Jobs -> SUBSET Domains] /\ open' \in [Jobs -> SUBSET Channels]
    BY <1>3 DEF MarkRunning, TypeOK
  <2>6. worker' \in [Jobs -> [Workers -> WorkerState]]
    BY <1>3, EmptyRecords DEF MarkRunning, TypeOK
  <2> QED BY <1>3, <2>2, <2>3, <2>4, <2>5, <2>6 DEF MarkRunning, TypeOK
<1>4. ASSUME NEW j \in Jobs, NEW w \in Workers, HandOut(j, w) PROVE TypeOK'
  <2>1. PICK d \in pending[j] :
           /\ pending' = [pending EXCEPT ![j] = @ \ {d}]
           /\ worker' = [worker EXCEPT ![j][w] =
                           [worker[j][w] EXCEPT !.pc = "resolving", !.task = d]]
    BY <1>4 DEF HandOut
  <2>2. [worker[j][w] EXCEPT !.pc = "resolving", !.task = d] \in WorkerState
    <3>1. worker[j][w] \in WorkerState /\ d \in Domains
      BY <2>1 DEF TypeOK
    <3> QED BY <3>1 DEF WorkerState, Holding
  <2>3. worker' \in [Jobs -> [Workers -> WorkerState]]
    BY <2>1, <2>2, WorkerType
  <2>4. pending' \in [Jobs -> SUBSET Domains]
    BY <2>1 DEF TypeOK
  <2> QED BY <1>4, <2>3, <2>4 DEF HandOut, TypeOK, StoreTypeOK, storeVars
<1>5. ASSUME NEW j \in Jobs, CloseTasks(j) PROVE TypeOK'
  <2>1. open' \in [Jobs -> SUBSET Channels]
    BY <1>5 DEF CloseTasks, TypeOK
  <2> QED BY <1>5, <2>1 DEF CloseTasks, TypeOK, StoreTypeOK, storeVars
<1>6. ASSUME NEW j \in Jobs, CloseResults(j) PROVE TypeOK'
  <2>1. open' \in [Jobs -> SUBSET Channels]
    BY <1>6 DEF CloseResults, TypeOK
  <2> QED BY <1>6, <2>1 DEF CloseResults, TypeOK, StoreTypeOK, storeVars
<1>7. ASSUME NEW j \in Jobs, NEW w \in Workers, Resolve(j, w) PROVE TypeOK'
  <2>1. [worker[j][w] EXCEPT !.pc = "probing"] \in WorkerState
    <3>1. worker[j][w] \in WorkerState
      BY DEF TypeOK
    <3> QED BY <3>1 DEF WorkerState, Holding
  <2>2. worker' \in [Jobs -> [Workers -> WorkerState]] /\ clock' \in Nat
    <3>1. CASE worker' = [worker EXCEPT ![j][w].pc = "probing"] /\ UNCHANGED clock
      <4>1. worker' = [worker EXCEPT ![j][w] = [worker[j][w] EXCEPT !.pc = "probing"]]
        BY <3>1
      <4> QED BY <2>1, <3>1, <4>1, WorkerType DEF TypeOK
    <3>2. CASE FinishTrace(j, w, Traced(worker[j][w].task, "Blocked", TRUE))
      BY <3>2, TracedType DEF ClassificationStatus
    <3> QED BY <1>7, <3>1, <3>2 DEF Resolve
  <2> QED BY <1>7, <2>2 DEF Resolve, TypeOK, StoreTypeOK, storeVars
<1>8. ASSUME NEW j \in Jobs, NEW w \in Workers, Probe(j, w) PROVE TypeOK'
  <2>1. PICK s \in ClassificationStatus, failed \in BOOLEAN :
           FinishTrace(j, w, Traced(worker[j][w].task, s, failed))
    BY <1>8, OrchestratorAssumption DEF Probe, ClassificationStatus
  <2>2. worker' \in [Jobs -> [Workers -> WorkerState]] /\ clock' \in Nat
    BY <2>1, TracedType
  <2> QED BY <1>8, <2>2 DEF Probe, TypeOK, StoreTypeOK, storeVars
<1>9. ASSUME NEW j \in Jobs, NEW w \in Workers, WorkerExit(j, w) PROVE TypeOK'
  <2>1. worker' \in [Jobs -> [Workers -> WorkerState]]
    BY <1>9, EmptyRecords, WorkerType DEF WorkerExit
  <2> QED BY <1>9, <2>1 DEF WorkerExit, TypeOK, StoreTypeOK, storeVars
<1>10. ASSUME NEW j \in Jobs, NEW w \in Workers, Receive(j, w) PROVE TypeOK'
  <2> DEFINE result == worker[j][w].result
  <2>1. result \in Result /\ job[j] \in Row
    BY DEF TypeOK, WorkerState
  <2>2. Bump(job[j].counts, result.status) \in CountMap
    BY <2>1, BumpCounts DEF TypeOK, Row, Result
  <2>3. Tally(j, result) \in Row
    <3> DEFINE processed == job[j].processed + 1
               counts == Bump(job[j].counts, result.status)
               lastErr == job[j].lastErr \/ result.err
    <3>1. processed \in Nat /\ lastErr \in BOOLEAN
      BY <2>1 DEF Row, Result
    <3>2. Tally(j, result) = [job[j] EXCEPT !.processed = processed, !.counts = counts,
                                            !.lastErr = lastErr]
      BY DEF Tally
    <3> HIDE DEF processed, counts, lastErr
    <3>3. counts \in CountMap
      BY <2>2 DEF counts
    <3> QED BY <2>1, <3>1, <3>2, <3>3 DEF Row
  <2>4. job' \in [Jobs -> Row] /\ job'[j].counts \in CountMap
    BY <1>10, <2>3 DEF Receive, TypeOK, Row
  <2>5. [rows["memory"][j] EXCEPT !.counts = job'[j].counts] \in Row
    <3>1. rows["memory"][j] \in Row
      BY DEF TypeOK, StoreTypeOK, Backends
    <3> QED BY <2>4, <3>1 DEF Row
  <2>6. StoreTypeOK'
    <3>1. rows' = rows \/ rows' = [rows EXCEPT !["memory"][j] =
                                    [rows["memory"][j] EXCEPT !.counts = job'[j].counts]]
      BY <1>10 DEF Receive
    <3> QED BY <1>10, <2>5, <3>1 DEF Receive, TypeOK, StoreTypeOK, Backends
  <2>7. worker' \in [Jobs -> [Workers -> WorkerState]]
    BY <1>10, EmptyRecords, WorkerType DEF Receive
  <2>8. current' \in [Jobs -> Result] /\ phase' \in [Jobs -> Phases]
    BY <1>10, <2>1 DEF Receive, TypeOK, Phases
  <2> QED BY <1>10, <2>4, <2>6, <2>7, <2>8 DEF Receive, TypeOK
<1>11. ASSUME NEW j \in Jobs, SaveResult(j) PROVE TypeOK'
  <2>1. current[j] \in Result
    BY DEF TypeOK
  <2>2. traces' \in [Backends -> [Jobs -> SUBSET Result]]
    <3>1. ASSUME NEW kept \in SUBSET Result, traces' = [traces EXCEPT ![backend][j] = kept]
          PROVE  traces' \in [Backends -> [Jobs -> SUBSET Result]]
      BY <3>1 DEF TypeOK, StoreTypeOK
    <3>2. traces[backend][j] \in SUBSET Result
      BY DEF TypeOK, StoreTypeOK
    <3>3. traces[backend][j] \cup {current[j]} \in SUBSET Result
      BY <2>1, <3>2
    <3>4. {r \in traces[backend][j] : r.domain # current[j].domain} \cup {current[j]}
             \in SUBSET Result
      BY <2>1, <3>2
    <3>5. \/ traces' = [traces EXCEPT ![backend][j] = traces[backend][j] \cup {current[j]}]
          \/ traces' = [traces EXCEPT ![backend][j] =
                {r \in traces[backend][j] : r.domain # current[j].domain} \cup {current[j]}]
          \/ traces' = traces
      BY <1>11 DEF SaveResult, SaveTrace
    <3> QED BY <3>1, <3>3, <3>4, <3>5 DEF TypeOK, StoreTypeOK
  <2>3. latest' \in [Domains -> Result]
    BY <1>11, <2>1 DEF SaveResult, SaveTrace, TypeOK, StoreTypeOK
  <2>4. current' \in [Jobs -> Result] /\ phase' \in [Jobs -> Phases]
    BY <1>11, EmptyRecords DEF SaveResult, TypeOK, Phases
  <2> QED BY <1>11, <2>2, <2>3, <2>4 DEF SaveResult, SaveTrace, TypeOK, StoreTypeOK
<1>12. ASSUME NEW j \in Jobs, WriteProgress(j) PROVE TypeOK'
  <2>1. StoreTypeOK'
    BY <1>12, UpdateType DEF WriteProgress, TypeOK
  <2>2. phase' \in [Jobs -> Phases]
    BY <1>12 DEF WriteProgress, TypeOK, Phases
  <2> QED BY <1>12, <2>1, <2>2 DEF WriteProgress, TypeOK
<1>13. ASSUME NEW j \in Jobs, Finalize(j) PROVE TypeOK'
  <2>1. [job[j] EXCEPT !.status = "completed"] \in Row
    <3>1. job[j] \in Row
      BY DEF TypeOK
    <3> QED BY <3>1 DEF Row, ProbeJobStatus
  <2>2. StoreTypeOK'
    BY <1>13, <2>1, UpdateType DEF Finalize, FinalWrite
  <2>3. job' \in [Jobs -> Row]
    BY <1>13, <2>1 DEF Finalize, FinalWrite, TypeOK
  <2>4. phase' \in [Jobs -> Phases]
    BY <1>13 DEF Finalize, FinalWrite, TypeOK, Phases
  <2> QED BY <1>13, <2>2, <2>3, <2>4 DEF Finalize, FinalWrite, TypeOK
<1>14. CASE Crash
  BY <1>14, TypeDie DEF Crash
<1>15. CASE Boot
  BY <1>15 DEF Boot, buildStore, Backends, TypeOK, StoreTypeOK
<1>16. CASE UNCHANGED vars
  BY <1>16 DEF vars, storeVars, poolVars, TypeOK, StoreTypeOK
<1> QED
  BY <1>1, <1>2, <1>3, <1>4, <1>5, <1>6, <1>7, <1>8, <1>9, <1>10, <1>11, <1>12, <1>13,
     <1>14, <1>15, <1>16
  DEF Next, Runner, Feeder, Worker

\* Every variable stays in its type in every run.
THEOREM TypeCorrect == Spec => []TypeOK
  BY TypeInit, TypeNext, PTL DEF Spec

-----------------------------------------------------------------------------
(* The inductive invariant.                                                *)

\* What a step leaves alone when it is a step of another job.
Same(k) ==
    /\ up' = up /\ backend' = backend
    /\ batch'[k] = batch[k] /\ phase'[k] = phase[k] /\ job'[k] = job[k]
    /\ pending'[k] = pending[k] /\ open'[k] = open[k] /\ worker'[k] = worker[k]
    /\ \A b \in Backends : rows'[b][k] = rows[b][k]

\* The invariant of one job does not depend on any other job.
LEMMA OtherJob ==
    ASSUME TypeOK, NEW k \in Jobs, JobInv(k), Same(k)
    PROVE  JobInv(k)'
<1>1. Holders(k)' = Holders(k) /\ Held(k)' = Held(k) /\ Tallied(k)' = Tallied(k)
  BY DEF Same, Holders, Held, Tallied
<1>2. Lookup(k)' = Lookup(k)
  BY DEF Same, Lookup, TypeOK, StoreTypeOK
<1>3. ShutdownOrder(k)'
  BY DEF Same, JobInv, ShutdownOrder
<1>4. TasksApart(k)'
  BY <1>1 DEF Same, JobInv, TasksApart
<1>5. TallyAgrees(k)'
  BY <1>1, <1>2 DEF Same, JobInv, TallyAgrees, Fresh
<1>6. CompletedRow(k)'
  BY DEF Same, JobInv, CompletedRow
<1> QED BY <1>3, <1>4, <1>5, <1>6 DEF Same, JobInv

\* UpdateJob writes the row it is given, in the store in use, or nothing.
LEMMA UpdatedRow ==
    ASSUME TypeOK, NEW j \in Jobs, NEW row, UpdateJob(j, row)
    PROVE  \A b \in Backends : /\ rows'[b][j] = rows[b][j] \/ rows'[b][j] = row
                               /\ \A k \in Jobs \ {j} : rows'[b][k] = rows[b][k]
<1>1. rows' = [rows EXCEPT ![backend][j] = row] \/ rows' = rows
  BY DEF UpdateJob
<1>2. ASSUME NEW b \in Backends, NEW k \in Jobs, rows' = [rows EXCEPT ![backend][j] = row]
      PROVE  rows'[b][k] = IF b = backend /\ k = j THEN row ELSE rows[b][k]
  <2>1. rows \in [Backends -> [Jobs -> Row]] /\ backend \in Backends
    BY DEF TypeOK, StoreTypeOK
  <2>2. rows[b] \in [Jobs -> Row]
    BY <2>1
  <2>3. rows'[b] = IF b = backend THEN [rows[b] EXCEPT ![j] = row] ELSE rows[b]
    BY <1>2, <2>1
  <2> QED BY <2>2, <2>3
<1> QED BY <1>1, <1>2

\* Once results is closed, or before it is opened, a job has no work left.
LEMMA NothingLeft ==
    ASSUME NEW j \in Jobs, ShutdownOrder(j), "results" \notin open[j]
    PROVE  pending[j] = {} /\ Holders(j) = {} /\ Held(j) = {}
  BY DEF ShutdownOrder, Holders, Held, Holding

\* A worker that goes from one stage of its task to the next changes nothing
\* that the rest of the pipeline can tell.
LEMMA NextStage ==
    ASSUME TypeOK, NEW j \in Jobs, NEW w \in Workers, JobInv(j), NEW s,
           worker[j][w].pc \in Holding, s.pc \in Holding, s.task = worker[j][w].task,
           worker' = [worker EXCEPT ![j][w] = s],
           UNCHANGED <<storeVars, up, batch, phase, job, current, pending, open>>
    PROVE  JobInv(j)'
<1>1. \A v \in Workers : /\ worker'[j][v].pc \in Holding <=> worker[j][v].pc \in Holding
                         /\ worker'[j][v].pc = "exited" <=> worker[j][v].pc = "exited"
                         /\ worker'[j][v].task = worker[j][v].task
  BY DEF TypeOK, Holding
<1>2. Holders(j)' = Holders(j)
  BY <1>1 DEF Holders
<1>3. Held(j)' = Held(j)
  BY <1>1, <1>2 DEF Held, Holders
<1>4. Tallied(j)' = Tallied(j) /\ Lookup(j)' = Lookup(j)
  BY <1>3 DEF Tallied, Lookup, storeVars
<1>5. ShutdownOrder(j)'
  BY <1>1 DEF JobInv, ShutdownOrder
<1>6. TasksApart(j)'
  BY <1>1, <1>2, <1>3 DEF JobInv, TasksApart, Holders
<1>7. TallyAgrees(j)'
  BY <1>4 DEF JobInv, TallyAgrees, Fresh
<1>8. CompletedRow(j)'
  BY DEF JobInv, CompletedRow, storeVars
<1> QED BY <1>5, <1>6, <1>7, <1>8 DEF JobInv

LEMMA InvInit == Init => IInv
<1> SUFFICES ASSUME Init PROVE IInv
  OBVIOUS
<1>1. TypeOK
  BY TypeInit
<1>2. ASSUME NEW j \in Jobs PROVE JobInv(j)
  <2>1. Holders(j) = {} /\ Held(j) = {}
    BY DEF Init, Holders, Held, Holding, Exited, Idle
  <2>2. ShutdownOrder(j)
    BY DEF Init, ShutdownOrder, Exited, Idle
  <2>3. TasksApart(j)
    BY <2>1, FS_EmptySet DEF Init, TasksApart
  <2>4. TallyAgrees(j)
    BY DEF Init, TallyAgrees, Collecting
  <2>5. CompletedRow(j)
    BY DEF Init, StoreInit, CompletedRow, NoRow
  <2> QED BY <2>2, <2>3, <2>4, <2>5 DEF Init, JobInv
<1> QED BY <1>1, <1>2 DEF IInv

\* EnqueueJob: the identifier is unused, so nothing of the job exists yet.
LEMMA InvEnqueueJob ==
    ASSUME IInv, TypeOK', NEW j \in Jobs, NEW D \in Submissions, EnqueueJob(j, D)
    PROVE  JobInv(j)'
<1> USE DEF IInv
<1>1. JobInv(j) /\ phase[j] = "none" /\ "results" \notin open[j]
  BY DEF EnqueueJob, JobInv, ShutdownOrder, Collecting
<1>2. pending[j] = {} /\ Holders(j) = {} /\ Held(j) = {}
  BY <1>1, NothingLeft DEF JobInv
<1>3. Holders(j)' = {} /\ Held(j)' = {} /\ pending'[j] = {}
  BY <1>2 DEF EnqueueJob, Holders, Held
<1>4. batch'[j] = D /\ IsFiniteSet(D)
  BY OrchestratorAssumption DEF EnqueueJob, TypeOK
<1>5. phase'[j] \in {"load", "orphan"}
  BY DEF EnqueueJob, TypeOK
<1>6. ShutdownOrder(j)'
  BY <1>1, <1>5 DEF EnqueueJob, JobInv, ShutdownOrder, Collecting
<1>7. TasksApart(j)'
  BY <1>3, <1>4 DEF TasksApart
<1>8. rows'[backend][j] = [NoRow EXCEPT !.status = "queued", !.total = Cardinality(D)]
  BY DEF EnqueueJob, CreateJob, TypeOK, StoreTypeOK
<1>9. TallyAgrees(j)'
  <2>1. Fresh(j, Lookup(j))'
    BY <1>4, <1>8, EmptyCounts DEF Fresh, Lookup, EnqueueJob, CreateJob, NoRow
  <2> QED BY <1>5, <2>1 DEF TallyAgrees, Collecting
<1>10. CompletedRow(j)'
  <2>1. ASSUME NEW b \in Backends PROVE rows'[b][j].status # "completed"
    <3>1. CASE b = backend
      BY <1>8, <3>1 DEF NoRow
    <3>2. CASE b # backend
      BY <1>1, <3>2 DEF EnqueueJob, CreateJob, JobInv, CompletedRow, TypeOK, StoreTypeOK
    <3> QED BY <3>1, <3>2
  <2> QED BY <2>1 DEF CompletedRow
<1> QED BY <1>5, <1>6, <1>7, <1>9, <1>10 DEF JobInv, EnqueueJob

LEMMA InvLoadJob ==
    ASSUME IInv, TypeOK', NEW j \in Jobs, LoadJob(j)
    PROVE  JobInv(j)'
<1> USE DEF IInv
<1>1. JobInv(j) /\ phase[j] = "load" /\ phase'[j] \in {"mark", "aborted"} /\ up
  BY DEF LoadJob, JobInv, TypeOK, Running
<1>2. Holders(j)' = Holders(j) /\ Held(j)' = Held(j)
  BY DEF LoadJob, Holders, Held
<1>3. ShutdownOrder(j)'
  BY <1>1 DEF LoadJob, JobInv, ShutdownOrder, Collecting
<1>4. TasksApart(j)'
  BY <1>1, <1>2 DEF LoadJob, JobInv, TasksApart
<1>5. TallyAgrees(j)'
  <2>1. phase'[j] = "mark" => job'[j] = Lookup(j)
    BY DEF LoadJob, TypeOK
  <2>2. Fresh(j, Lookup(j)) /\ batch' = batch
    BY <1>1 DEF LoadJob, JobInv, TallyAgrees
  <2> QED BY <1>1, <2>1, <2>2 DEF TallyAgrees, Fresh, Collecting
<1>6. CompletedRow(j)'
  BY <1>1 DEF LoadJob, JobInv, CompletedRow, storeVars
<1> QED BY <1>1, <1>3, <1>4, <1>5, <1>6 DEF JobInv, LoadJob

\* MarkRunning starts a pipeline that holds the whole batch in the feeder.
LEMMA InvMarkRunning ==
    ASSUME IInv, TypeOK', NEW j \in Jobs, MarkRunning(j)
    PROVE  JobInv(j)'
<1> USE DEF IInv
<1>1. JobInv(j) /\ phase[j] = "mark" /\ phase'[j] = "collect" /\ up
  BY DEF MarkRunning, JobInv, TypeOK, Running
<1>2. /\ pending'[j] = batch[j] /\ batch' = batch /\ open'[j] = Channels
      /\ \A w \in Workers : worker'[j][w] = Idle
      /\ job'[j] = [job[j] EXCEPT !.status = "running"]
  BY DEF MarkRunning, TypeOK
<1>3. Holders(j)' = {} /\ Held(j)' = {}
  BY <1>2 DEF Holders, Held, Holding, Idle
<1>4. ShutdownOrder(j)'
  BY <1>1, <1>2 DEF ShutdownOrder, Channels, Idle, Collecting
<1>5. TasksApart(j)'
  BY <1>1, <1>2, <1>3 DEF JobInv, TasksApart
<1>6. TallyAgrees(j)'
  <2>1. Tallied(j)' = {} /\ Cardinality({}) = 0
    BY <1>2, <1>3, FS_EmptySet DEF Tallied
  <2>2. Fresh(j, job[j])
    BY <1>1 DEF JobInv, TallyAgrees
  <2>3. /\ job'[j].total = job[j].total /\ job'[j].processed = job[j].processed
        /\ job'[j].counts = job[j].counts /\ job'[j].status = "running"
    BY <1>2 DEF TypeOK, Row
  <2> QED BY <1>1, <1>2, <2>1, <2>2, <2>3 DEF TallyAgrees, Fresh, Collecting
<1>7. CompletedRow(j)'
  <2>1. ASSUME NEW b \in Backends PROVE rows'[b][j].status # "completed"
    <3>1. rows'[b][j] = rows[b][j] \/ rows'[b][j] = job'[j]
      <4>1. UpdateJob(j, [job[j] EXCEPT !.status = "running"])
        BY <1>2 DEF MarkRunning, UpdateJob
      <4> QED BY <1>2, <4>1, UpdatedRow
    <3>2. job'[j].status = "running"
      BY <1>2 DEF TypeOK, Row
    <3> QED BY <1>1, <3>1, <3>2 DEF JobInv, CompletedRow
  <2> QED BY <2>1 DEF CompletedRow
<1> QED BY <1>1, <1>4, <1>5, <1>6, <1>7 DEF JobInv, MarkRunning

\* HandOut moves a domain from the feeder to a worker that held none.
LEMMA InvHandOut ==
    ASSUME IInv, TypeOK', NEW j \in Jobs, NEW w \in Workers, HandOut(j, w)
    PROVE  JobInv(j)'
<1> USE DEF IInv
<1>1. JobInv(j) /\ worker[j][w].pc = "idle"
  BY DEF HandOut
<1>2. PICK d \in pending[j] :
         /\ pending' = [pending EXCEPT ![j] = @ \ {d}]
         /\ worker' = [worker EXCEPT ![j][w] =
                         [worker[j][w] EXCEPT !.pc = "resolving", !.task = d]]
  BY DEF HandOut
<1>3. /\ pending'[j] = pending[j] \ {d}
      /\ worker'[j][w].pc = "resolving" /\ worker'[j][w].task = d
      /\ \A v \in Workers \ {w} : worker'[j][v] = worker[j][v]
  BY <1>2 DEF TypeOK, WorkerState
<1>4. Holders(j)' = Holders(j) \cup {w} /\ w \notin Holders(j)
  BY <1>1, <1>3 DEF Holders, Holding
<1>5. Held(j)' = Held(j) \cup {d} /\ d \notin Held(j)
  <2>1. d \notin Held(j)
    BY <1>1, <1>2 DEF JobInv, TasksApart
  <2>2. Held(j)' = {worker'[j][v].task : v \in Holders(j)'}
    BY DEF Held
  <2>3. \A v \in Holders(j) : worker'[j][v].task = worker[j][v].task
    BY <1>3, <1>4 DEF Holders
  <2> QED BY <1>3, <1>4, <2>1, <2>2, <2>3 DEF Held
<1>6. "tasks" \in open[j] /\ "results" \in open[j] /\ phase[j] \in Collecting
  BY <1>1, <1>2 DEF JobInv, ShutdownOrder
<1>7. UNCHANGED <<rows, backend, up, batch, phase, job, open>>
  BY DEF HandOut, storeVars
<1>8. ShutdownOrder(j)'
  BY <1>1, <1>3, <1>6, <1>7 DEF JobInv, ShutdownOrder
<1>9. TasksApart(j)'
  <2>1. pending[j] \cup Held(j) \subseteq batch[j] /\ pending[j] \cap Held(j) = {}
    BY <1>1 DEF JobInv, TasksApart
  <2>2. ASSUME NEW u \in Holders(j)', NEW v \in Holders(j)',
               worker'[j][u].task = worker'[j][v].task
        PROVE  u = v
    <3>1. ASSUME NEW x \in Holders(j) PROVE worker'[j][x].task \in Held(j)
      BY <1>3, <1>4, <3>1 DEF Held, Holders
    <3>2. CASE u \in Holders(j) /\ v \in Holders(j)
      BY <1>1, <1>3, <1>4, <2>2, <3>2 DEF JobInv, TasksApart, Holders
    <3> QED BY <1>3, <1>4, <1>5, <2>2, <3>1, <3>2
  <2> QED BY <1>1, <1>2, <1>3, <1>5, <1>7, <2>1, <2>2 DEF JobInv, TasksApart
<1>10. TallyAgrees(j)'
  <2>1. Tallied(j)' = Tallied(j)
    BY <1>2, <1>3, <1>5, <1>7 DEF Tallied
  <2> QED BY <1>1, <1>6, <1>7, <2>1 DEF JobInv, TallyAgrees, Collecting
<1>11. CompletedRow(j)'
  BY <1>1, <1>7 DEF JobInv, CompletedRow
<1> QED BY <1>1, <1>7, <1>8, <1>9, <1>10, <1>11 DEF JobInv

LEMMA InvCloseTasks ==
    ASSUME IInv, TypeOK', NEW j \in Jobs, CloseTasks(j)
    PROVE  JobInv(j)'
<1> USE DEF IInv
<1>1. JobInv(j) /\ pending[j] = {} /\ open'[j] = open[j] \ {"tasks"} /\ "tasks" \in open[j]
  BY DEF CloseTasks, TypeOK
<1>2. UNCHANGED <<rows, backend, up, batch, phase, job, pending, worker>>
  BY DEF CloseTasks, storeVars
<1>3. Holders(j)' = Holders(j) /\ Held(j)' = Held(j) /\ Tallied(j)' = Tallied(j)
  BY <1>2 DEF Holders, Held, Tallied
<1>4. ShutdownOrder(j)'
  BY <1>1, <1>2 DEF JobInv, ShutdownOrder
<1>5. TasksApart(j)'
  BY <1>1, <1>2, <1>3 DEF JobInv, TasksApart
<1>6. TallyAgrees(j)'
  BY <1>1, <1>2, <1>3 DEF JobInv, TallyAgrees, Fresh, Lookup
<1>7. CompletedRow(j)'
  BY <1>1, <1>2 DEF JobInv, CompletedRow
<1> QED BY <1>1, <1>2, <1>4, <1>5, <1>6, <1>7 DEF JobInv

\* CloseResults waits for workers that have exited, hence, as there is at least
\* one, for tasks to be closed.
LEMMA InvCloseResults ==
    ASSUME IInv, TypeOK', NEW j \in Jobs, CloseResults(j)
    PROVE  JobInv(j)'
<1> USE DEF IInv
<1>1. /\ JobInv(j) /\ open'[j] = open[j] \ {"results"}
      /\ \A w \in Workers : worker[j][w].pc = "exited"
  BY DEF CloseResults, TypeOK
<1>2. UNCHANGED <<rows, backend, up, batch, phase, job, pending, worker>>
  BY DEF CloseResults, storeVars
<1>3. Holders(j)' = Holders(j) /\ Held(j)' = Held(j) /\ Tallied(j)' = Tallied(j)
  BY <1>2 DEF Holders, Held, Tallied
<1>4. "tasks" \notin open[j]
  BY <1>1, OrchestratorAssumption DEF JobInv, ShutdownOrder
<1>5. ShutdownOrder(j)'
  BY <1>1, <1>2, <1>4 DEF JobInv, ShutdownOrder
<1>6. TasksApart(j)'
  BY <1>1, <1>2, <1>3 DEF JobInv, TasksApart
<1>7. TallyAgrees(j)'
  BY <1>1, <1>2, <1>3 DEF JobInv, TallyAgrees, Fresh, Lookup
<1>8. CompletedRow(j)'
  BY <1>1, <1>2 DEF JobInv, CompletedRow
<1> QED BY <1>1, <1>2, <1>5, <1>6, <1>7, <1>8 DEF JobInv

LEMMA InvResolve ==
    ASSUME IInv, TypeOK', NEW j \in Jobs, NEW w \in Workers, Resolve(j, w)
    PROVE  JobInv(j)'
<1> USE DEF IInv
<1>1. JobInv(j) /\ worker[j][w] \in WorkerState /\ worker[j][w].pc \in Holding
  BY DEF Resolve, TypeOK, Holding
<1>2. PICK s : /\ worker' = [worker EXCEPT ![j][w] = s]
               /\ s.pc \in Holding /\ s.task = worker[j][w].task
  <2>1. ASSUME NEW r, worker' = [worker EXCEPT ![j][w] =
                                   [worker[j][w] EXCEPT !.pc = "sending", !.result = r]]
        PROVE  \E s : /\ worker' = [worker EXCEPT ![j][w] = s]
                      /\ s.pc \in Holding /\ s.task = worker[j][w].task
    <3> DEFINE s == [worker[j][w] EXCEPT !.pc = "sending", !.result = r]
    <3>1. s.pc \in Holding /\ s.task = worker[j][w].task
      BY <1>1 DEF WorkerState, Holding
    <3> QED BY <2>1, <3>1
  <2>2. CASE FinishTrace(j, w, Traced(worker[j][w].task, "Blocked", TRUE))
    BY <2>1, <2>2 DEF FinishTrace
  <2>3. CASE worker' = [worker EXCEPT ![j][w].pc = "probing"]
    <3> DEFINE s == [worker[j][w] EXCEPT !.pc = "probing"]
    <3>1. s.pc \in Holding /\ s.task = worker[j][w].task
      BY <1>1 DEF WorkerState, Holding
    <3>2. worker' = [worker EXCEPT ![j][w] = s]
      BY <2>3
    <3> QED BY <3>1, <3>2
  <2> QED BY <2>2, <2>3 DEF Resolve
<1> QED BY <1>1, <1>2, NextStage DEF Resolve

LEMMA InvProbe ==
    ASSUME IInv, TypeOK', NEW j \in Jobs, NEW w \in Workers, Probe(j, w)
    PROVE  JobInv(j)'
<1> USE DEF IInv
<1>1. JobInv(j) /\ worker[j][w] \in WorkerState /\ worker[j][w].pc \in Holding
  BY DEF Probe, TypeOK, Holding
<1>2. PICK r : worker' = [worker EXCEPT ![j][w] =
                            [worker[j][w] EXCEPT !.pc = "sending", !.result = r]]
  BY DEF Probe, FinishTrace
<1> DEFINE s == [worker[j][w] EXCEPT !.pc = "sending", !.result = r]
<1>3. s.pc \in Holding /\ s.task = worker[j][w].task
  BY <1>1 DEF WorkerState, Holding
<1> QED BY <1>1, <1>2, <1>3, NextStage DEF Probe

\* A worker exits with no task in hand, after tasks was closed.
LEMMA InvWorkerExit ==
    ASSUME IInv, TypeOK', NEW j \in Jobs, NEW w \in Workers, WorkerExit(j, w)
    PROVE  JobInv(j)'
<1> USE DEF IInv
<1>1. /\ JobInv(j) /\ worker[j][w].pc = "idle" /\ "tasks" \notin open[j]
      /\ worker'[j][w] = Exited
      /\ \A v \in Workers \ {w} : worker'[j][v] = worker[j][v]
  BY DEF WorkerExit, TypeOK
<1>2. UNCHANGED <<rows, backend, up, batch, phase, job, pending, open>>
  BY DEF WorkerExit, storeVars
<1>3. Exited.pc = "exited"
  BY DEF Exited, Idle
<1>4. Holders(j)' = Holders(j)
  BY <1>1, <1>3 DEF Holders, Holding
<1>5. Held(j)' = Held(j) /\ Tallied(j)' = Tallied(j)
  <2>1. \A v \in Holders(j) : worker'[j][v] = worker[j][v]
    BY <1>1 DEF Holders, Holding
  <2> QED BY <1>2, <1>4, <2>1 DEF Held, Tallied
<1>6. ShutdownOrder(j)'
  BY <1>1, <1>2, <1>3 DEF JobInv, ShutdownOrder
<1>7. TasksApart(j)'
  <2>1. \A v \in Holders(j) : worker'[j][v] = worker[j][v]
    BY <1>1 DEF Holders, Holding
  <2> QED BY <1>1, <1>2, <1>4, <1>5, <2>1 DEF JobInv, TasksApart
<1>8. TallyAgrees(j)'
  BY <1>1, <1>2, <1>5 DEF JobInv, TallyAgrees, Fresh, Lookup
<1>9. CompletedRow(j)'
  BY <1>1, <1>2 DEF JobInv, CompletedRow
<1> QED BY <1>1, <1>2, <1>6, <1>7, <1>8, <1>9 DEF JobInv

\* Receive takes the only domain its worker holds out of the pipeline and adds
\* it to the tally.
LEMMA InvReceive ==
    ASSUME IInv, TypeOK', NEW j \in Jobs, NEW w \in Workers, Receive(j, w)
    PROVE  JobInv(j)'
<1> USE DEF IInv
<1> DEFINE d == worker[j][w].task
           result == worker[j][w].result
<1>1. /\ JobInv(j) /\ phase[j] = "collect" /\ phase'[j] = "save"
      /\ worker[j][w].pc = "sending" /\ worker'[j][w] = Idle
      /\ \A v \in Workers \ {w} : worker'[j][v] = worker[j][v]
  BY DEF Receive, TypeOK
<1>2. UNCHANGED <<backend, up, batch, pending, open>>
  BY DEF Receive
<1>3. w \in Holders(j) /\ d \in Held(j) /\ Holders(j)' = Holders(j) \ {w}
  BY <1>1 DEF Holders, Held, Holding, Idle
<1>4. \A v \in Holders(j) \ {w} : worker'[j][v] = worker[j][v] /\ worker[j][v].task # d
  BY <1>1, <1>3 DEF JobInv, TasksApart, Holders
<1>5. Held(j)' = Held(j) \ {d}
  <2>1. Held(j)' = {worker'[j][v].task : v \in Holders(j) \ {w}}
    BY <1>3 DEF Held
  <2>2. @ = {worker[j][v].task : v \in Holders(j) \ {w}}
    BY <1>4
  <2> QED BY <1>3, <1>4, <2>1, <2>2 DEF Held
<1>6. d \in batch[j] /\ d \notin pending[j] /\ IsFiniteSet(batch[j])
  BY <1>1, <1>3 DEF JobInv, TasksApart
<1>7. Cardinality(Tallied(j)') = Cardinality(Tallied(j)) + 1
  <2>1. Tallied(j)' = Tallied(j) \cup {d} /\ d \notin Tallied(j)
    BY <1>2, <1>3, <1>5, <1>6 DEF Tallied
  <2>2. IsFiniteSet(Tallied(j))
    BY <1>6, FS_Subset DEF Tallied
  <2> QED BY <2>1, <2>2, FS_AddElement
<1>8. job'[j] = Tally(j, result)
  BY DEF Receive, TypeOK
<1>9. ShutdownOrder(j)'
  BY <1>1, <1>2 DEF JobInv, ShutdownOrder, Collecting, Idle
<1>10. TasksApart(j)'
  BY <1>1, <1>2, <1>3, <1>4, <1>5 DEF JobInv, TasksApart
<1>11. TallyAgrees(j)'
  <2>1. result \in Result /\ job[j] \in Row
    BY DEF TypeOK, WorkerState
  <2>2. CountTotal(Bump(job[j].counts, result.status)) = CountTotal(job[j].counts) + 1
    BY <2>1, BumpCounts DEF Result, Row
  <2>3. /\ job'[j].total = job[j].total /\ job'[j].status = job[j].status
        /\ job'[j].processed = job[j].processed + 1
        /\ job'[j].counts = Bump(job[j].counts, result.status)
    BY <1>8, <2>1 DEF Tally, Row
  <2>4. /\ job[j].total = Cardinality(batch[j]) /\ job[j].status = "running"
        /\ job[j].processed = Cardinality(Tallied(j))
        /\ CountTotal(job[j].counts) = job[j].processed
    BY <1>1 DEF JobInv, TallyAgrees, Collecting
  <2>5. /\ job'[j].total = Cardinality(batch'[j]) /\ job'[j].status = "running"
        /\ job'[j].processed = Cardinality(Tallied(j)')
        /\ CountTotal(job'[j].counts) = job'[j].processed
    BY <1>2, <1>7, <2>2, <2>3, <2>4
  <2> QED BY <1>1, <2>5 DEF TallyAgrees
<1>12. CompletedRow(j)'
  <2>1. ASSUME NEW b \in Backends PROVE rows'[b][j].status = rows[b][j].status
    <3>1. rows[b][j] \in Row /\ rows["memory"][j] \in Row
      BY DEF TypeOK, StoreTypeOK, Backends
    <3>2. rows'[b][j] = rows[b][j] \/
            (b = "memory" /\ rows'[b][j] = [rows["memory"][j] EXCEPT !.counts = job'[j].counts])
      BY DEF Receive, TypeOK, StoreTypeOK, Backends
    <3> QED BY <3>1, <3>2 DEF Row
  <2> QED BY <1>1, <2>1 DEF JobInv, CompletedRow
<1> QED BY <1>1, <1>2, <1>9, <1>10, <1>11, <1>12 DEF JobInv, Running, Collecting

\* SaveResult and WriteProgress change nothing but the store and the phase.
LEMMA InvSaveResult ==
    ASSUME IInv, TypeOK', NEW j \in Jobs, SaveResult(j)
    PROVE  JobInv(j)'
<1> USE DEF IInv
<1>1. JobInv(j) /\ phase[j] = "save" /\ phase'[j] = "update" /\ up
  BY DEF SaveResult, JobInv, TypeOK, Running, Collecting
<1>2. UNCHANGED <<rows, backend, up, batch, job, pending, open, worker>>
  BY DEF SaveResult, SaveTrace
<1>3. Holders(j)' = Holders(j) /\ Held(j)' = Held(j) /\ Tallied(j)' = Tallied(j)
  BY <1>2 DEF Holders, Held, Tallied
<1>4. ShutdownOrder(j)'
  BY <1>1, <1>2 DEF JobInv, ShutdownOrder, Collecting
<1>5. TasksApart(j)'
  BY <1>1, <1>2, <1>3 DEF JobInv, TasksApart
<1>6. TallyAgrees(j)'
  BY <1>1, <1>2, <1>3 DEF JobInv, TallyAgrees, Collecting
<1>7. CompletedRow(j)'
  BY <1>1, <1>2 DEF JobInv, CompletedRow
<1> QED BY <1>1, <1>2, <1>4, <1>5, <1>6, <1>7 DEF JobInv

LEMMA InvWriteProgress ==
    ASSUME IInv, TypeOK', NEW j \in Jobs, WriteProgress(j)
    PROVE  JobInv(j)'
<1> USE DEF IInv
<1>1. JobInv(j) /\ phase[j] = "update" /\ phase'[j] = "collect" /\ up
  BY DEF WriteProgress, JobInv, TypeOK, Running, Collecting
<1>2. UNCHANGED <<backend, up, batch, job, pending, open, worker>>
  BY DEF WriteProgress, UpdateJob
<1>3. Holders(j)' = Holders(j) /\ Held(j)' = Held(j) /\ Tallied(j)' = Tallied(j)
  BY <1>2 DEF Holders, Held, Tallied
<1>4. ShutdownOrder(j)'
  BY <1>1, <1>2 DEF JobInv, ShutdownOrder, Collecting
<1>5. TasksApart(j)'
  BY <1>1, <1>2, <1>3 DEF JobInv, TasksApart
<1>6. TallyAgrees(j)'
  BY <1>1, <1>2, <1>3 DEF JobInv, TallyAgrees, Collecting
<1>7. CompletedRow(j)'
  <2>1. ASSUME NEW b \in Backends PROVE rows'[b][j] = rows[b][j] \/ rows'[b][j] = job[j]
    BY UpdatedRow DEF WriteProgress
  <2>2. phase[j] # "returned" /\ job[j].status # "completed"
    BY <1>1 DEF JobInv, TallyAgrees, Collecting
  <2> QED BY <1>1, <2>1, <2>2 DEF JobInv, CompletedRow
<1> QED BY <1>1, <1>2, <1>4, <1>5, <1>6, <1>7 DEF JobInv

\* Finalize finds results closed: the pipeline is empty, every domain of the
\* batch is tallied, and the row it completes is whole.
LEMMA InvFinalize ==
    ASSUME IInv, TypeOK', NEW j \in Jobs, Finalize(j)
    PROVE  JobInv(j)'
<1> USE DEF IInv
<1> DEFINE row == [job[j] EXCEPT !.status = "completed"]
<1>1. /\ JobInv(j) /\ phase[j] = "collect" /\ phase'[j] = "returned"
      /\ "results" \notin open[j]
  BY DEF Finalize, FinalWrite, TypeOK
<1>2. UNCHANGED <<backend, up, batch, pending, open, worker>>
  BY DEF Finalize, FinalWrite, UpdateJob
<1>3. Holders(j)' = Holders(j) /\ Held(j)' = Held(j)
  BY <1>2 DEF Holders, Held
<1>4. Tallied(j) = batch[j]
  BY <1>1, NothingLeft DEF JobInv, Tallied
<1>5. ShutdownOrder(j)'
  BY <1>1, <1>2 DEF JobInv, ShutdownOrder, Collecting
<1>6. TasksApart(j)'
  BY <1>1, <1>2, <1>3 DEF JobInv, TasksApart
<1>7. TallyAgrees(j)'
  BY <1>1 DEF TallyAgrees, Collecting
<1>8. CompletedRow(j)'
  <2>1. /\ row.total = Cardinality(batch'[j]) /\ row.processed = row.total
        /\ CountTotal(row.counts) = row.total
    BY <1>1, <1>2, <1>4 DEF JobInv, TallyAgrees, Collecting, TypeOK, Row
  <2>2. ASSUME NEW b \in Backends PROVE rows'[b][j] = rows[b][j] \/ rows'[b][j] = row
    BY UpdatedRow DEF Finalize, FinalWrite
  <2>3. ASSUME NEW b \in Backends PROVE rows[b][j].status # "completed"
    BY <1>1 DEF JobInv, CompletedRow
  <2> HIDE DEF row
  <2> QED BY <1>1, <2>1, <2>2, <2>3 DEF CompletedRow
<1> QED BY <1>1, <1>2, <1>5, <1>6, <1>7, <1>8 DEF JobInv, Running, Collecting

\* A crash ends every runner and empties the memory store; the rows that
\* Postgres keeps are as whole as they were.
LEMMA InvDie ==
    ASSUME IInv, TypeOK', Die, NEW k \in Jobs
    PROVE  JobInv(k)'
<1> USE DEF IInv
<1>1. /\ JobInv(k) /\ batch' = batch
      /\ phase'[k] = IF phase[k] \in Running THEN "killed" ELSE phase[k]
      /\ pending'[k] = {} /\ open'[k] = {} /\ \A w \in Workers : worker'[k][w] = Exited
  BY DEF Die, TypeOK
<1>2. phase'[k] \notin Running /\ phase'[k] \notin Collecting
  BY <1>1 DEF Running, Collecting
<1>3. Holders(k)' = {} /\ Held(k)' = {}
  BY <1>1 DEF Holders, Held, Holding, Exited, Idle
<1>4. ShutdownOrder(k)'
  BY <1>1 DEF ShutdownOrder, Exited, Idle
<1>5. TasksApart(k)'
  BY <1>1, <1>3 DEF JobInv, TasksApart
<1>6. TallyAgrees(k)'
  BY <1>2 DEF TallyAgrees, Running
<1>7. CompletedRow(k)'
  <2>1. rows'["memory"][k] = NoRow /\ rows'["postgres"][k] = rows["postgres"][k]
    BY DEF Die, LoseMemory, TypeOK, StoreTypeOK, Backends
  <2>2. "returned" \notin Running
    BY DEF Running, Collecting
  <2>3. NoRow.status # "completed"
    BY DEF NoRow
  <2> QED BY <1>1, <2>1, <2>2, <2>3 DEF JobInv, CompletedRow, Backends
<1> QED BY <1>2, <1>4, <1>5, <1>6, <1>7 DEF JobInv

LEMMA InvBoot ==
    ASSUME IInv, TypeOK', Boot, NEW k \in Jobs
    PROVE  JobInv(k)'
<1> USE DEF IInv
<1>1. JobInv(k) /\ phase[k] \notin Running
  BY DEF Boot, JobInv
<1>2. UNCHANGED <<rows, batch, phase, job, pending, open, worker>>
  BY DEF Boot
<1>3. Holders(k)' = Holders(k) /\ Held(k)' = Held(k)
  BY <1>2 DEF Holders, Held
<1>4. ShutdownOrder(k)'
  BY <1>1, <1>2 DEF JobInv, ShutdownOrder
<1>5. TasksApart(k)'
  BY <1>1, <1>2, <1>3 DEF JobInv, TasksApart
<1>6. TallyAgrees(k)'
  BY <1>1, <1>2 DEF TallyAgrees, Running
<1>7. CompletedRow(k)'
  BY <1>1, <1>2 DEF JobInv, CompletedRow
<1> QED BY <1>1, <1>2, <1>4, <1>5, <1>6, <1>7 DEF JobInv

\* A step of the pool is a step of one job: Same(k) for every other job k.
StepOf(j) ==
    \/ \E D \in Submissions : EnqueueJob(j, D)
    \/ Runner(j) \/ Feeder(j) \/ CloseResults(j)
    \/ \E w \in Workers : Worker(j, w)

LEMMA StepsApart ==
    ASSUME TypeOK, NEW j \in Jobs, StepOf(j), NEW k \in Jobs, k # j
    PROVE  Same(k)
<1>1. ASSUME NEW D \in Submissions, EnqueueJob(j, D) PROVE Same(k)
  BY <1>1 DEF EnqueueJob, CreateJob, Same, TypeOK, StoreTypeOK
<1>2. CASE LoadJob(j)
  BY <1>2 DEF LoadJob, storeVars, Same, TypeOK
<1>3. CASE MarkRunning(j)
  <2>1. UpdateJob(j, [job[j] EXCEPT !.status = "running"])
    BY <1>3 DEF MarkRunning, UpdateJob, TypeOK
  <2>2. \A b \in Backends : rows'[b][k] = rows[b][k]
    BY <2>1, UpdatedRow
  <2> QED BY <1>3, <2>2 DEF MarkRunning, UpdateJob, Same, TypeOK
<1>4. ASSUME NEW w \in Workers, HandOut(j, w) PROVE Same(k)
  BY <1>4 DEF HandOut, storeVars, Same, TypeOK
<1>5. CASE CloseTasks(j)
  BY <1>5 DEF CloseTasks, storeVars, Same, TypeOK
<1>6. CASE CloseResults(j)
  BY <1>6 DEF CloseResults, storeVars, Same, TypeOK
<1>7. ASSUME NEW w \in Workers, Worker(j, w) PROVE Same(k)
  <2>1. worker'[k] = worker[k]
    BY <1>7 DEF Worker, Resolve, Probe, WorkerExit, FinishTrace, TypeOK
  <2> QED BY <1>7, <2>1 DEF Worker, Resolve, Probe, WorkerExit, storeVars, Same
<1>8. ASSUME NEW w \in Workers, Receive(j, w) PROVE Same(k)
  <2>1. \A b \in Backends : rows'[b][k] = rows[b][k]
    BY <1>8 DEF Receive, TypeOK, StoreTypeOK, Backends
  <2> QED BY <1>8, <2>1 DEF Receive, Same, TypeOK
<1>9. CASE SaveResult(j)
  BY <1>9 DEF SaveResult, SaveTrace, Same, TypeOK
<1>10. CASE WriteProgress(j)
  <2>1. \A b \in Backends : rows'[b][k] = rows[b][k]
    BY <1>10, UpdatedRow DEF WriteProgress
  <2> QED BY <1>10, <2>1 DEF WriteProgress, UpdateJob, Same, TypeOK
<1>11. CASE Finalize(j)
  <2>1. \A b \in Backends : rows'[b][k] = rows[b][k]
    BY <1>11, UpdatedRow DEF Finalize, FinalWrite
  <2> QED BY <1>11, <2>1 DEF Finalize, FinalWrite, UpdateJob, Same, TypeOK
<1> QED
  BY <1>1, <1>2, <1>3, <1>4, <1>5, <1>6, <1>7, <1>8, <1>9, <1>10, <1>11
  DEF StepOf, Runner, Feeder

LEMMA InvNext == IInv /\ [Next]_vars => IInv'
<1> SUFFICES ASSUME IInv, [Next]_vars PROVE IInv'
  OBVIOUS
<1>1. TypeOK /\ TypeOK'
  BY TypeNext DEF IInv
<1>2. ASSUME NEW j \in Jobs, StepOf(j) PROVE IInv'
  <2>1. JobInv(j)'
    BY <1>1, <1>2, InvEnqueueJob, InvLoadJob, InvMarkRunning, InvHandOut, InvCloseTasks,
       InvCloseResults, InvResolve, InvProbe, InvWorkerExit, InvReceive, InvSaveResult,
       InvWriteProgress, InvFinalize
    DEF StepOf, Runner, Feeder, Worker
  <2>2. ASSUME NEW k \in Jobs, k # j PROVE JobInv(k)'
    BY <1>1, <1>2, <2>2, StepsApart, OtherJob DEF IInv
  <2> QED BY <1>1, <2>1, <2>2 DEF IInv
<1>3. CASE Crash
  BY <1>1, <1>3, InvDie DEF Crash, IInv
<1>4. CASE Boot
  BY <1>1, <1>4, InvBoot DEF IInv
<1>5. CASE UNCHANGED vars
  <2>1. ASSUME NEW k \in Jobs PROVE Same(k)
    BY <1>5 DEF vars, storeVars, poolVars, Same
  <2> QED BY <1>1, <2>1, OtherJob DEF IInv
<1> QED BY <1>2, <1>3, <1>4, <1>5 DEF Next, StepOf

\* The inductive invariant holds in every run.
THEOREM Inductive == Spec => []IInv
  BY InvInit, InvNext, PTL DEF Spec

-----------------------------------------------------------------------------
(* The safety properties the inductive invariant was made for.             *)

\* However the goroutines interleave, every domain of a job is in the feeder,
\* with one worker, or in the tally, and in one of them only.
THEOREM NoTaskLost == Spec => []TasksAccountedFor
<1>1. IInv => TasksAccountedFor
  BY DEF IInv, JobInv, TasksApart, TallyAgrees, TasksAccountedFor
<1> QED BY <1>1, Inductive, PTL

\* No worker is left to send on results when it is closed.
THEOREM SafeClose == Spec => []NoSendOnClosedResults
<1>1. IInv => NoSendOnClosedResults
  BY DEF IInv, JobInv, ShutdownOrder, NoSendOnClosedResults
<1> QED BY <1>1, Inductive, PTL

\* A row that says completed is whole, in either store, whatever failed.
THEOREM WholeWhenCompleted == Spec => []CompletedIsWhole
<1>1. IInv => CompletedIsWhole
  BY DEF IInv, JobInv, CompletedRow, CompletedIsWhole
<1> QED BY <1>1, Inductive, PTL

-----------------------------------------------------------------------------
(* The table of JobRecords, which each store implements under the pool:    *)
(* what the row in the store has to do with the runner's copy of it.       *)

\* r2 is a later content of the row r1.
Behind(r1, r2) ==
    /\ r2.total = r1.total
    /\ r1.processed <= r2.processed
    /\ \A s \in ClassificationStatus : r1.counts[s] <= r2.counts[s]
    /\ r1.lastErr => r2.lastErr

Created(n) == [NoRow EXCEPT !.status = "queued", !.total = n]

\* The row is unused before the job, untouched until it is marked, and behind
\* the runner's copy from then on: writes may fail, but not over memory.
RowAgrees(j) ==
    /\ phase[j] = "none" => \A b \in Backends : rows[b][j] = NoRow
    /\ phase[j] \in {"load", "mark"} => Lookup(j) = Created(Cardinality(batch[j]))
    /\ phase[j] = "mark" => job[j] = Lookup(j)
    /\ phase[j] \in Collecting =>
          /\ Lookup(j).status \in {"queued", "running"}
          /\ backend = "memory" => Lookup(j).status = "running"
          /\ Behind(Lookup(j), job[j])
    /\ phase[j] \in {"save", "update"} => Lookup(j).processed < job[j].processed

RInv == IInv /\ \A j \in Jobs : RowAgrees(j)

LEMMA RowInit == Init => RInv
<1> SUFFICES ASSUME Init PROVE \A j \in Jobs : RowAgrees(j)
  BY InvInit DEF RInv
<1> QED BY DEF Init, StoreInit, RowAgrees, Collecting

\* A row does not depend on the steps of other jobs.
LEMMA OtherRow ==
    ASSUME TypeOK, NEW k \in Jobs, RowAgrees(k), Same(k)
    PROVE  RowAgrees(k)'
<1>1. Lookup(k)' = Lookup(k)
  BY DEF Same, Lookup, TypeOK, StoreTypeOK
<1> QED BY <1>1 DEF Same, RowAgrees

\* The row of a job changes in the steps of its runner only.
Untouched == UNCHANGED <<rows, backend, batch, phase, job>>

LEMMA UntouchedRow ==
    ASSUME TypeOK, NEW j \in Jobs, RowAgrees(j), Untouched
    PROVE  RowAgrees(j)'
BY DEF Untouched, RowAgrees, Lookup

\* What UpdateJob makes of the row of the store in use.
LEMMA UpdatedLookup ==
    ASSUME TypeOK, NEW j \in Jobs, NEW row, UpdateJob(j, row)
    PROVE  /\ Lookup(j)' = row \/ (MayFail /\ Lookup(j)' = Lookup(j))
           /\ backend' = backend
BY DEF UpdateJob, Lookup, TypeOK, StoreTypeOK

LEMMA BehindSelf == ASSUME NEW r \in Row PROVE Behind(r, r)
BY DEF Behind, Row, CountMap

\* One more result in the tally keeps a row behind it.
LEMMA BehindTally ==
    ASSUME NEW j \in Jobs, NEW r \in Row, NEW result \in Result, job[j] \in Row,
           Behind(r, job[j])
    PROVE  Behind(r, Tally(j, result)) /\ r.processed < Tally(j, result).processed
<1> DEFINE t == Tally(j, result)
<1>1. /\ t.total = job[j].total /\ t.processed = job[j].processed + 1
      /\ t.counts = Bump(job[j].counts, result.status)
      /\ t.lastErr = (job[j].lastErr \/ result.err)
  BY DEF Tally, Row
<1>2. ASSUME NEW s \in ClassificationStatus PROVE r.counts[s] <= t.counts[s]
  <2>1. r.counts[s] \in Nat /\ job[j].counts \in CountMap
    BY DEF Row, CountMap
  <2>2. r.counts[s] <= job[j].counts[s] /\ job[j].counts[s] \in Nat
    BY <2>1 DEF Behind, CountMap
  <2>3. t.counts[s] \in {job[j].counts[s], job[j].counts[s] + 1}
    BY <1>1, <2>1 DEF Bump, CountMap
  <2> HIDE DEF t
  <2> QED BY <2>1, <2>2, <2>3
<1>3. r.processed \in Nat /\ job[j].processed \in Nat /\ r.processed <= job[j].processed
  BY DEF Behind, Row
<1>4. t.total = r.total
  BY <1>1 DEF Behind
<1>5. r.lastErr => t.lastErr
  BY <1>1, Zenon DEF Behind
<1>6. r.processed <= t.processed /\ r.processed < t.processed
  BY <1>1, <1>3
<1> QED BY <1>2, <1>4, <1>5, <1>6, Zenon DEF Behind

LEMMA RowEnqueueJob ==
    ASSUME RInv, NEW j \in Jobs, NEW D \in Submissions, EnqueueJob(j, D)
    PROVE  RowAgrees(j)'
<1> USE DEF RInv, IInv
<1>1. phase'[j] \in {"load", "orphan"} /\ batch'[j] = D
  BY OrchestratorAssumption DEF EnqueueJob, TypeOK
<1>2. Lookup(j)' = Created(Cardinality(batch'[j]))
  BY <1>1 DEF EnqueueJob, CreateJob, Lookup, Created, TypeOK, StoreTypeOK
<1> QED BY <1>1, <1>2 DEF RowAgrees, Collecting

LEMMA RowLoadJob ==
    ASSUME RInv, NEW j \in Jobs, LoadJob(j)
    PROVE  RowAgrees(j)'
<1> USE DEF RInv, IInv
<1>1. Lookup(j)' = Lookup(j) /\ Lookup(j) = Created(Cardinality(batch[j])) /\ batch' = batch
  BY DEF LoadJob, RowAgrees, Lookup, storeVars
<1>2. \/ phase'[j] = "mark" /\ job'[j] = Lookup(j)
      \/ phase'[j] = "aborted"
  BY DEF LoadJob, TypeOK
<1> QED BY <1>1, <1>2 DEF RowAgrees, Collecting

LEMMA RowMarkRunning ==
    ASSUME RInv, NEW j \in Jobs, MarkRunning(j)
    PROVE  RowAgrees(j)'
<1> USE DEF RInv, IInv
<1> DEFINE row == [job[j] EXCEPT !.status = "running"]
<1>1. /\ phase[j] = "mark" /\ phase'[j] = "collect"
      /\ job'[j] = row /\ UpdateJob(j, row)
  BY DEF MarkRunning, TypeOK
<1>2. job[j] = Created(Cardinality(batch[j])) /\ Lookup(j) = job[j] /\ job[j] \in Row
  BY <1>1 DEF RowAgrees, TypeOK
<1>3. job[j].status = "queued" /\ row.status = "running"
  BY <1>2 DEF Created, NoRow, Row
<1>4. Behind(job[j], row) /\ Behind(row, row)
  BY <1>2, BehindSelf DEF Behind, Row, ProbeJobStatus
<1>5. Lookup(j)' = row \/ (backend # "memory" /\ Lookup(j)' = Lookup(j))
  BY <1>1, UpdatedLookup DEF MayFail
<1>6. backend' = backend
  BY <1>1, UpdatedLookup
<1> HIDE DEF row
<1> QED BY <1>1, <1>2, <1>3, <1>4, <1>5, <1>6 DEF RowAgrees

\* Over memory Receive may change the counters of the row, to those of the tally.
LEMMA RowReceive ==
    ASSUME RInv, TypeOK', NEW j \in Jobs, NEW w \in Workers, Receive(j, w)
    PROVE  RowAgrees(j)'
<1> USE DEF RInv, IInv
<1> DEFINE result == worker[j][w].result
           tally == Tally(j, result)
<1>1. /\ phase[j] = "collect" /\ phase'[j] = "save" /\ job'[j] = tally
      /\ backend' = backend
  BY DEF Receive, TypeOK
<1>2. result \in Result /\ job[j] \in Row /\ Lookup(j) \in Row
  BY DEF TypeOK, StoreTypeOK, WorkerState, Lookup
<1>3. /\ Behind(Lookup(j), job[j]) /\ Lookup(j).status \in {"queued", "running"}
      /\ backend = "memory" => Lookup(j).status = "running"
  BY <1>1 DEF RowAgrees, Collecting
<1>4. Behind(Lookup(j), tally) /\ Lookup(j).processed < tally.processed
  BY <1>2, <1>3, BehindTally
<1>5. rows' = rows \/ (backend = "memory" /\
                         rows' = [rows EXCEPT !["memory"][j].counts = tally.counts])
  BY <1>1 DEF Receive, SharesCounts
<1>6. CASE rows' = rows
  <2>1. Lookup(j)' = Lookup(j)
    BY <1>1, <1>6 DEF Lookup
  <2> QED BY <1>1, <1>3, <1>4, <2>1 DEF RowAgrees
<1>7. CASE backend = "memory" /\ rows' = [rows EXCEPT !["memory"][j].counts = tally.counts]
  <2>1. Lookup(j)' = [Lookup(j) EXCEPT !.counts = tally.counts]
    BY <1>1, <1>7 DEF Lookup, TypeOK, StoreTypeOK
  <2>2. tally \in Row
    BY <1>1 DEF TypeOK
  <2>3. /\ Behind(Lookup(j)', tally) /\ Lookup(j)'.processed < tally.processed
        /\ Lookup(j)'.status = "running"
    <3>1. /\ Lookup(j)'.total = Lookup(j).total /\ Lookup(j)'.processed = Lookup(j).processed
          /\ Lookup(j)'.lastErr = Lookup(j).lastErr /\ Lookup(j)'.status = Lookup(j).status
          /\ Lookup(j)'.counts = tally.counts
      BY <1>2, <2>1 DEF Row
    <3>2. \A s \in ClassificationStatus : tally.counts[s] <= tally.counts[s]
      BY <2>2, BehindSelf DEF Behind
    <3> HIDE DEF tally
    <3> QED BY <1>3, <1>4, <1>7, <3>1, <3>2 DEF Behind
  <2> HIDE DEF tally
  <2> QED BY <1>1, <2>3 DEF RowAgrees
<1> QED BY <1>5, <1>6, <1>7

LEMMA RowWriteProgress ==
    ASSUME RInv, NEW j \in Jobs, WriteProgress(j)
    PROVE  RowAgrees(j)'
<1> USE DEF RInv, IInv
<1>1. /\ phase[j] = "update" /\ phase'[j] = "collect" /\ job' = job
      /\ UpdateJob(j, job[j])
  BY DEF WriteProgress, TypeOK
<1>2. job[j].status = "running" /\ job[j] \in Row
  BY <1>1 DEF JobInv, TallyAgrees, Collecting, TypeOK
<1>3. /\ Lookup(j).status \in {"queued", "running"}
      /\ Behind(Lookup(j), job[j])
  BY <1>1 DEF RowAgrees, Collecting
<1>4. /\ Lookup(j)' = job[j] \/ (backend # "memory" /\ Lookup(j)' = Lookup(j))
      /\ backend' = backend
  BY <1>1, UpdatedLookup DEF MayFail
<1> QED BY <1>1, <1>2, <1>3, <1>4, BehindSelf DEF RowAgrees

LEMMA RowDie ==
    ASSUME RInv, Die, NEW k \in Jobs
    PROVE  RowAgrees(k)'
<1> USE DEF RInv, IInv
<1>1. phase'[k] = IF phase[k] \in Running THEN "killed" ELSE phase[k]
  BY DEF Die, TypeOK
<1>2. rows'["memory"][k] = NoRow /\ rows'["postgres"][k] = rows["postgres"][k]
  BY DEF Die, LoseMemory, TypeOK, StoreTypeOK, Backends
<1> QED BY <1>1, <1>2 DEF RowAgrees, Running, Collecting, Backends

LEMMA RowNext == RInv /\ [Next]_vars => RInv'
<1> SUFFICES ASSUME RInv, [Next]_vars PROVE RInv'
  OBVIOUS
<1> USE DEF RInv
<1>1. TypeOK /\ TypeOK' /\ IInv'
  BY InvNext DEF IInv
<1>2. ASSUME NEW j \in Jobs, StepOf(j) PROVE RInv'
  <2>1. RowAgrees(j)'
    <3>1. CASE Feeder(j) \/ CloseResults(j) \/ \E w \in Workers : Worker(j, w)
      <4>1. Untouched
        BY <3>1 DEF Feeder, HandOut, CloseTasks, CloseResults, Worker, Resolve, Probe,
                    WorkerExit, Untouched, storeVars
      <4> QED BY <1>1, <4>1, UntouchedRow
    <3>2. CASE SaveResult(j)
      <4>1. /\ phase[j] = "save" /\ phase'[j] = "update"
            /\ UNCHANGED <<rows, backend, batch, job>>
        BY <1>1, <3>2 DEF SaveResult, SaveTrace, TypeOK
      <4> QED BY <4>1 DEF RowAgrees, Lookup, Collecting
    <3>3. CASE Finalize(j)
      <4>1. phase'[j] = "returned"
        BY <1>1, <3>3 DEF Finalize, FinalWrite, TypeOK
      <4> QED BY <4>1 DEF RowAgrees, Collecting
    <3> QED BY <1>1, <1>2, <3>1, <3>2, <3>3, RowEnqueueJob, RowLoadJob, RowMarkRunning,
               RowReceive, RowWriteProgress
            DEF StepOf, Runner
  <2>2. ASSUME NEW k \in Jobs, k # j PROVE RowAgrees(k)'
    BY <1>1, <1>2, <2>2, StepsApart, OtherRow
  <2> QED BY <1>1, <2>1, <2>2
<1>3. CASE Crash
  BY <1>1, <1>3, RowDie DEF Crash
<1>4. CASE Boot
  <2>1. ASSUME NEW k \in Jobs PROVE RowAgrees(k)'
    <3>1. phase[k] \notin Running /\ UNCHANGED <<rows, phase>>
      BY <1>4 DEF Boot, IInv, JobInv
    <3> QED BY <3>1 DEF RowAgrees, Running, Collecting
  <2> QED BY <1>1, <2>1
<1>5. CASE UNCHANGED vars
  <2>1. Untouched
    BY <1>5 DEF vars, storeVars, poolVars, Untouched
  <2> QED BY <1>1, <2>1, UntouchedRow
<1> QED BY <1>2, <1>3, <1>4, <1>5 DEF Next, StepOf

LEMMA RowInvariant == Spec => []RInv
  BY RowInit, RowNext, PTL DEF Spec

-----------------------------------------------------------------------------
(* The steps of a store, as JobRecords sees them.                          *)

Begins(r1, r2) == r1 = NoRow /\ \E n \in Nat \ {0} : r2 = Created(n)

\* Counters ahead of the progress are seen over memory only.
Advances(b, r1, r2) ==
    /\ r1.status \in {"queued", "running"} /\ r2.status = "running"
    /\ Behind(r1, r2) /\ r2.processed <= r2.total
    /\ IF b = "memory" THEN CountTotal(r2.counts) \in r2.processed .. r2.total
                       ELSE CountTotal(r2.counts) = r2.processed

Ends(r1, r2) ==
    /\ r1.status \in {"queued", "running"} /\ r2.status = "completed"
    /\ Behind(r1, r2) /\ r2.processed = r2.total /\ CountTotal(r2.counts) = r2.total

StoreStep(b) ==
    \/ rows'[b] = rows[b]
    \/ b = "memory" /\ ~up' /\ rows'[b] = [j \in Jobs |-> NoRow]
    \/ \E j \in Jobs :
          /\ rows'[b] = [rows[b] EXCEPT ![j] = rows'[b][j]]
          /\ \/ phase[j] = "none" /\ Begins(rows[b][j], rows'[b][j])
             \/ Advances(b, rows[b][j], rows'[b][j])
             \/ Ends(rows[b][j], rows'[b][j])

\* A step that writes one row of the store in use, or none.
LEMMA WriteIsStoreStep ==
    ASSUME TypeOK, NEW j \in Jobs, NEW row, NEW b \in Backends,
           rows' = rows \/ rows' = [rows EXCEPT ![backend][j] = row],
           \/ phase[j] = "none" /\ Begins(Lookup(j), row)
           \/ Advances(backend, Lookup(j), row)
           \/ Ends(Lookup(j), row)
    PROVE  StoreStep(b)
<1>1. rows \in [Backends -> [Jobs -> Row]] /\ backend \in Backends
  BY DEF TypeOK, StoreTypeOK
<1>2. CASE rows'[b] = rows[b]
  BY <1>2 DEF StoreStep
<1>3. CASE rows' = [rows EXCEPT ![backend][j] = row] /\ b = backend
  <2>1. rows'[b] = [rows[b] EXCEPT ![j] = row] /\ rows'[b][j] = row
    BY <1>1, <1>3
  <2> QED BY <1>3, <2>1 DEF StoreStep, Lookup
<1> QED BY <1>1, <1>2, <1>3

\* While the runner collects, what it has tallied is within the batch.
Bounded(j) ==
    phase[j] \in Collecting =>
        /\ job[j] \in Row /\ Lookup(j) \in Row
        /\ job[j].total = Cardinality(batch[j]) /\ job[j].status = "running"
        /\ job[j].processed <= job[j].total
        /\ CountTotal(job[j].counts) = job[j].processed

LEMMA TallyBounded == IInv => \A j \in Jobs : Bounded(j)
<1> SUFFICES ASSUME IInv, NEW j \in Jobs, phase[j] \in Collecting PROVE Bounded(j)
  BY DEF Bounded
<1>1. job[j] \in Row /\ Lookup(j) \in Row
  BY DEF IInv, TypeOK, StoreTypeOK, Lookup
<1>2. Cardinality(Tallied(j)) <= Cardinality(batch[j])
  BY FS_Subset DEF IInv, JobInv, TasksApart, Tallied
<1> QED BY <1>1, <1>2 DEF IInv, JobInv, TallyAgrees, Bounded

LEMMA TallyBoundedNext == IInv' => (\A j \in Jobs : Bounded(j))'
  BY TallyBounded, PTL

LEMMA EnqueueStores ==
    ASSUME RInv, NEW j \in Jobs, NEW D \in Submissions, EnqueueJob(j, D), NEW b \in Backends
    PROVE  StoreStep(b)
<1> USE DEF RInv, IInv
<1>1. Cardinality(D) \in Nat \ {0}
  BY OrchestratorAssumption, FS_EmptySet, FS_CardinalityType DEF EnqueueJob
<1>2. Lookup(j) = NoRow /\ rows' = [rows EXCEPT ![backend][j] = Created(Cardinality(D))]
  BY DEF EnqueueJob, CreateJob, RowAgrees, Lookup, Created, TypeOK, StoreTypeOK
<1>3. Begins(Lookup(j), Created(Cardinality(D)))
  BY <1>1, <1>2 DEF Begins
<1> QED BY <1>2, <1>3, WriteIsStoreStep DEF EnqueueJob

LEMMA MarkStores ==
    ASSUME RInv, NEW j \in Jobs, MarkRunning(j), NEW b \in Backends
    PROVE  StoreStep(b)
<1> USE DEF RInv, IInv
<1> DEFINE row == [job[j] EXCEPT !.status = "running"]
<1>1. phase[j] = "mark" /\ UpdateJob(j, row)
  BY DEF MarkRunning, UpdateJob, TypeOK
<1>2. /\ job[j] \in Row /\ Lookup(j) = job[j] /\ job[j].status = "queued"
      /\ Fresh(j, job[j]) /\ Cardinality(batch[j]) \in Nat
  BY <1>1, FS_CardinalityType
  DEF RowAgrees, TypeOK, Created, NoRow, JobInv, TallyAgrees, TasksApart
<1>3. /\ row.total = job[j].total /\ row.processed = job[j].processed
      /\ row.counts = job[j].counts /\ row.lastErr = job[j].lastErr /\ row.status = "running"
  BY <1>2 DEF Row
<1>4. Advances(backend, Lookup(j), row)
  <2>1. Behind(Lookup(j), row)
    BY <1>2, <1>3, BehindSelf DEF Behind
  <2> HIDE DEF row
  <2> QED BY <1>2, <1>3, <2>1 DEF Advances, Fresh
<1> HIDE DEF row
<1> QED BY <1>1, <1>4, WriteIsStoreStep DEF UpdateJob

\* The map Receive increments counts one domain that was not tallied yet.
LEMMA ReceiveStores ==
    ASSUME RInv, RInv', NEW j \in Jobs, NEW w \in Workers, Receive(j, w), NEW b \in Backends
    PROVE  StoreStep(b)
<1> USE DEF RInv
<1>1. /\ phase[j] = "collect" /\ phase'[j] = "save" /\ backend' = backend
      /\ rows' = rows \/ (backend = "memory" /\
                         rows' = [rows EXCEPT !["memory"][j].counts = job'[j].counts])
  BY DEF Receive, SharesCounts, IInv, TypeOK
<1>2. CASE rows' = rows
  BY <1>2 DEF StoreStep
<1>3. CASE /\ backend = "memory"
           /\ rows' = [rows EXCEPT !["memory"][j].counts = job'[j].counts]
  <2> DEFINE row == [Lookup(j) EXCEPT !.counts = job'[j].counts]
  <2>1. rows' = [rows EXCEPT ![backend][j] = row] /\ Lookup(j)' = row
    BY <1>1, <1>3 DEF Lookup, IInv, TypeOK, StoreTypeOK
  <2>2. /\ Lookup(j) \in Row /\ job[j] \in Row
        /\ Behind(Lookup(j), job[j]) /\ Lookup(j).status = "running"
    BY <1>1, <1>3, TallyBounded DEF RowAgrees, Collecting, Bounded
  <2>3. /\ job'[j] \in Row /\ job'[j].processed <= job'[j].total
        /\ CountTotal(job'[j].counts) = job'[j].processed
        /\ row.total = job'[j].total /\ row.processed < job'[j].processed
    <3>1. phase'[j] \in Collecting
      BY <1>1 DEF Collecting
    <3>2. /\ job'[j] \in Row /\ job'[j].processed <= job'[j].total
          /\ CountTotal(job'[j].counts) = job'[j].processed
      BY <3>1, TallyBoundedNext DEF Bounded
    <3>3. Behind(Lookup(j)', job'[j]) /\ Lookup(j)'.processed < job'[j].processed
      BY <1>1, <3>1 DEF RowAgrees
    <3> HIDE DEF row
    <3> QED BY <2>1, <3>2, <3>3 DEF Behind
  <2>4. /\ row.total = Lookup(j).total /\ row.processed = Lookup(j).processed
        /\ row.lastErr = Lookup(j).lastErr /\ row.status = Lookup(j).status
        /\ row.counts = job'[j].counts
    BY <2>2 DEF Row
  <2>5. \A s \in ClassificationStatus : Lookup(j).counts[s] <= job'[j].counts[s]
    <3>1. worker[j][w].result \in Result /\ job'[j] = Tally(j, worker[j][w].result)
      BY DEF Receive, IInv, TypeOK, WorkerState
    <3> QED BY <2>2, <3>1, BehindTally DEF Behind
  <2>6. Advances("memory", Lookup(j), row)
    <3>1. row.processed \in Nat /\ row.total \in Nat /\ job'[j].processed \in Nat
      BY <2>2, <2>3, <2>4 DEF Row
    <3>2. Behind(Lookup(j), row)
      BY <2>2, <2>4, <2>5, <3>1 DEF Behind
    <3>3. CountTotal(row.counts) \in row.processed .. row.total
      BY <2>3, <2>4, <3>1
    <3> HIDE DEF row
    <3> QED BY <2>2, <2>3, <2>4, <3>1, <3>2, <3>3 DEF Advances
  <2> HIDE DEF row
  <2> QED BY <1>3, <2>1, <2>6, WriteIsStoreStep DEF IInv
<1> QED BY <1>1, <1>2, <1>3

LEMMA ProgressStores ==
    ASSUME RInv, NEW j \in Jobs, WriteProgress(j), NEW b \in Backends
    PROVE  StoreStep(b)
<1> USE DEF RInv
<1>1. phase[j] \in Collecting /\ UpdateJob(j, job[j])
  BY DEF WriteProgress, Collecting
<1>2. Behind(Lookup(j), job[j]) /\ Lookup(j).status \in {"queued", "running"}
  BY <1>1 DEF RowAgrees
<1>3. Advances(backend, Lookup(j), job[j])
  BY <1>1, <1>2, TallyBounded DEF Advances, Row, Bounded
<1> QED BY <1>1, <1>3, WriteIsStoreStep DEF UpdateJob, IInv

LEMMA FinalizeStores ==
    ASSUME RInv, NEW j \in Jobs, Finalize(j), NEW b \in Backends
    PROVE  StoreStep(b)
<1> USE DEF RInv
<1> DEFINE row == [job[j] EXCEPT !.status = "completed"]
<1>1. phase[j] \in Collecting /\ "results" \notin open[j] /\ UpdateJob(j, row)
  BY DEF Finalize, FinalWrite, Collecting
<1>2. Behind(Lookup(j), job[j]) /\ Lookup(j).status \in {"queued", "running"}
  BY <1>1 DEF RowAgrees
<1>3. job[j].processed = job[j].total
  <2>1. Tallied(j) = batch[j]
    BY <1>1, NothingLeft DEF IInv, JobInv, Tallied
  <2> QED BY <1>1, <2>1 DEF IInv, JobInv, TallyAgrees
<1>4. /\ row.total = job[j].total /\ row.processed = job[j].processed
      /\ row.counts = job[j].counts /\ row.lastErr = job[j].lastErr
      /\ row.status = "completed"
  BY <1>1, TallyBounded DEF Row, Bounded
<1>5. Ends(Lookup(j), row)
  <2>1. Behind(Lookup(j), row)
    BY <1>2, <1>4 DEF Behind
  <2> HIDE DEF row
  <2> QED BY <1>1, <1>2, <1>3, <1>4, <2>1, TallyBounded DEF Ends, Bounded
<1> HIDE DEF row
<1> QED BY <1>1, <1>5, WriteIsStoreStep DEF UpdateJob, IInv

\* Every step of the pool, and its death and restart, is a step of each store.
LEMMA StoreSteps ==
    ASSUME RInv, RInv', [Next]_vars, NEW b \in Backends
    PROVE  StoreStep(b)
<1>1. CASE rows' = rows
  BY <1>1 DEF StoreStep
<1>2. CASE Crash
  BY <1>2 DEF Crash, Die, LoseMemory, RInv, IInv, TypeOK, StoreTypeOK, Backends, StoreStep
<1>3. ASSUME NEW j \in Jobs, StepOf(j) PROVE StoreStep(b)
  <2>1. CASE \/ Feeder(j) \/ CloseResults(j) \/ LoadJob(j) \/ SaveResult(j)
             \/ \E w \in Workers : Worker(j, w)
    BY <1>1, <2>1 DEF Feeder, HandOut, CloseTasks, CloseResults, Worker, Resolve, Probe,
                      WorkerExit, LoadJob, SaveResult, SaveTrace, storeVars
  <2> QED BY <1>3, <2>1, EnqueueStores, MarkStores, ReceiveStores, ProgressStores,
             FinalizeStores
          DEF StepOf, Runner
<1> QED BY <1>1, <1>2, <1>3 DEF Next, StepOf, Boot, vars, storeVars

-----------------------------------------------------------------------------
(* The refinements.                                                        *)

LEMMA DurableNames ==
    /\ Durable!Absent = NoRow
    /\ Durable!ClassificationStatus = ClassificationStatus
    /\ \A counts : Durable!CountTotal(counts) = CountTotal(counts)
BY DEF Durable!Absent, Durable!emptyCounts, Durable!ClassificationStatus, Durable!CountTotal,
       NoRow, emptyCounts, ClassificationStatus, CountTotal

\* Postgres, under the pool, is a durable table of records: whatever statements
\* fail, and whatever processes die, a record is created empty, only grows, its
\* counters back its progress, and it is completed once, for good.
THEOREM DurableRefined == Spec => RefinesDurable
<1>1. Init => Durable!RInit
  BY DurableNames DEF Init, StoreInit, Durable!RInit, Backends
<1>2. RInv /\ RInv' /\ [Next]_vars => [Durable!RNext]_(rows["postgres"])
  <2> SUFFICES ASSUME RInv, RInv', [Next]_vars, rows'["postgres"] # rows["postgres"]
               PROVE  Durable!RNext
    OBVIOUS
  <2>1. PICK j \in Jobs :
          /\ rows'["postgres"] = [rows["postgres"] EXCEPT ![j] = rows'["postgres"][j]]
          /\ \/ Begins(rows["postgres"][j], rows'["postgres"][j])
             \/ Advances("postgres", rows["postgres"][j], rows'["postgres"][j])
             \/ Ends(rows["postgres"][j], rows'["postgres"][j])
    BY StoreSteps DEF StoreStep, Backends
  <2> DEFINE r1 == rows["postgres"][j]
             r2 == rows'["postgres"][j]
  <2>2. Begins(r1, r2) => Durable!Create(j)
    <3> SUFFICES ASSUME r1 = NoRow, NEW n \in Nat \ {0}, r2 = Created(n)
                 PROVE  Durable!Create(j)
      BY DEF Begins
    <3>1. r2.total = n /\ r2 = [NoRow EXCEPT !.status = "queued", !.total = r2.total]
      BY DEF Created, NoRow
    <3>2. rows'["postgres"] = [rows["postgres"] EXCEPT
                                  ![j] = [NoRow EXCEPT !.status = "queued", !.total = r2.total]]
      BY <2>1, <3>1
    <3> QED BY <3>1, <3>2, DurableNames DEF Durable!Create, Durable!Becomes
  <2>3. Behind(r1, r2) /\ r2.processed <= r2.total => Durable!Extends(r1, r2)
    BY DurableNames DEF Behind, Durable!Extends
  <2>4. Advances("postgres", r1, r2) => Durable!Progress(j)
    BY <2>1, <2>3, DurableNames
    DEF Advances, Durable!Progress, Durable!Becomes, Durable!Backed
  <2>5. Ends(r1, r2) => Durable!Complete(j)
    <3>1. r2.total \in Nat
      BY DEF RInv, IInv, TypeOK, StoreTypeOK, Backends, Row
    <3> QED BY <2>1, <2>3, <3>1, DurableNames DEF Ends, Durable!Complete, Durable!Becomes
  <2> QED BY <2>1, <2>2, <2>4, <2>5 DEF Durable!RNext
<1> QED BY <1>1, <1>2, RowInvariant, PTL DEF Spec, RefinesDurable, Durable!RSpec

LEMMA InMemoryNames ==
    /\ InMemory!Absent = NoRow
    /\ InMemory!ClassificationStatus = ClassificationStatus
    /\ \A counts : InMemory!CountTotal(counts) = CountTotal(counts)
BY DEF InMemory!Absent, InMemory!emptyCounts, InMemory!ClassificationStatus, InMemory!CountTotal,
       NoRow, emptyCounts, ClassificationStatus, CountTotal

\* The memory store is one too, but that a death of the process empties it and
\* that its counters run ahead of the progress: a row may be read between an
\* increment of the shared map and the write of the progress that counts it.
THEOREM InMemoryRefined == Spec => RefinesInMemory
<1>1. Init => InMemory!RInit
  BY InMemoryNames DEF Init, StoreInit, InMemory!RInit, Backends
<1>2. RInv /\ RInv' /\ [Next]_vars => [InMemory!RNext]_(rows["memory"])
  <2> SUFFICES ASSUME RInv, RInv', [Next]_vars, rows'["memory"] # rows["memory"],
                      rows'["memory"] # [j \in Jobs |-> NoRow]
               PROVE  InMemory!RNext
    BY InMemoryNames DEF InMemory!RNext, InMemory!LoseAll
  <2>1. PICK j \in Jobs :
          /\ rows'["memory"] = [rows["memory"] EXCEPT ![j] = rows'["memory"][j]]
          /\ \/ Begins(rows["memory"][j], rows'["memory"][j])
             \/ Advances("memory", rows["memory"][j], rows'["memory"][j])
             \/ Ends(rows["memory"][j], rows'["memory"][j])
    BY StoreSteps DEF StoreStep, Backends
  <2> DEFINE r1 == rows["memory"][j]
             r2 == rows'["memory"][j]
  <2>2. Begins(r1, r2) => InMemory!Create(j)
    <3> SUFFICES ASSUME r1 = NoRow, NEW n \in Nat \ {0}, r2 = Created(n)
                 PROVE  InMemory!Create(j)
      BY DEF Begins
    <3>1. r2.total = n /\ r2 = [NoRow EXCEPT !.status = "queued", !.total = r2.total]
      BY DEF Created, NoRow
    <3>2. rows'["memory"] = [rows["memory"] EXCEPT
                                  ![j] = [NoRow EXCEPT !.status = "queued", !.total = r2.total]]
      BY <2>1, <3>1
    <3> QED BY <3>1, <3>2, InMemoryNames DEF InMemory!Create, InMemory!Becomes
  <2>3. Behind(r1, r2) /\ r2.processed <= r2.total => InMemory!Extends(r1, r2)
    BY InMemoryNames DEF Behind, InMemory!Extends
  <2>4. Advances("memory", r1, r2) => InMemory!Progress(j)
    BY <2>1, <2>3, InMemoryNames
    DEF Advances, InMemory!Progress, InMemory!Becomes, InMemory!Backed
  <2>5. Ends(r1, r2) => InMemory!Complete(j)
    <3>1. r2.total \in Nat
      BY DEF RInv, IInv, TypeOK, StoreTypeOK, Backends, Row
    <3> QED BY <2>1, <2>3, <3>1, InMemoryNames DEF Ends, InMemory!Complete, InMemory!Becomes
  <2> QED BY <2>1, <2>2, <2>4, <2>5 DEF InMemory!RNext
<1> QED BY <1>1, <1>2, RowInvariant, PTL DEF Spec, RefinesInMemory, InMemory!RSpec
-----------------------------------------------------------------------------
(* The traces a store has of a job, against the tally and the row.         *)

\* A store whose statements never fail.
Reliable(b) == b = "memory" \/ ~StoreErrors

\* The results the tally of a job stands for: the saved ones, and the one the
\* runner has tallied and not yet saved.
Counted(j) ==
    GetJobTraces(j) \cup (IF phase[j] = "save" THEN {current[j]} ELSE {})

\* The tally is what the counted results give: one for each tallied domain.
TallyFromTraces(j) ==
    /\ job[j].processed = Cardinality(Counted(j))
    /\ \A s \in ClassificationStatus :
          job[j].counts[s] = Cardinality({r \in Counted(j) : r.status = s})
    /\ job[j].lastErr <=> \E r \in Counted(j) : r.err
    /\ \A r \in Counted(j) : r.domain \in Tallied(j)
    /\ phase[j] = "save" => \A r \in GetJobTraces(j) : r.domain # current[j].domain

\* What the properties ask of one row and the traces beside it.
RowBacked(b, j) ==
    /\ IsFiniteSet(traces[b][j])
    /\ rows[b][j].processed <= Cardinality(traces[b][j])
    /\ rows[b][j].status = "completed" =>
          /\ rows[b][j].processed = Cardinality(traces[b][j])
          /\ \A s \in ClassificationStatus :
                rows[b][j].counts[s] = Cardinality({r \in traces[b][j] : r.status = s})
          /\ rows[b][j].lastErr <=> \E r \in traces[b][j] : r.err

TracesAgree(j) ==
    /\ phase[j] \in {"none", "load", "mark"} => \A b \in Backends : traces[b][j] = {}
    /\ \A w \in Workers : worker[j][w].pc = "sending" =>
          worker[j][w].result.domain = worker[j][w].task
    /\ phase[j] \in Collecting /\ ~MayFail => TallyFromTraces(j)
    /\ \A b \in Backends : Reliable(b) => RowBacked(b, j)

TInv == RInv /\ \A j \in Jobs : TracesAgree(j)

\* A result for a domain that no result of a set is for adds one to the set,
\* and to those of its classification.
LEMMA OneMoreResult ==
    ASSUME NEW S \in SUBSET Result, IsFiniteSet(S), NEW r \in Result,
           \A x \in S : x.domain # r.domain
    PROVE  /\ IsFiniteSet(S \cup {r})
           /\ Cardinality(S \cup {r}) = Cardinality(S) + 1
           /\ \A s \in ClassificationStatus :
                 Cardinality({x \in S \cup {r} : x.status = s})
                    = Bump([t \in ClassificationStatus |->
                               Cardinality({x \in S : x.status = t})], r.status)[s]
<1>1. r \notin S
  OBVIOUS
<1>2. ASSUME NEW s \in ClassificationStatus
      PROVE  Cardinality({x \in S \cup {r} : x.status = s})
                = Cardinality({x \in S : x.status = s}) + (IF s = r.status THEN 1 ELSE 0)
  <2> DEFINE of == {x \in S : x.status = s}
  <2>1. IsFiniteSet(of) /\ r \notin of /\ Cardinality(of) \in Nat
    BY <1>1, FS_Subset, FS_CardinalityType
  <2>2. CASE s = r.status
    <3>1. {x \in S \cup {r} : x.status = s} = of \cup {r}
      BY <2>2
    <3>2. Cardinality(of \cup {r}) = Cardinality(of) + 1
      BY <2>1, FS_AddElement
    <3> QED BY <2>2, <3>1, <3>2
  <2>3. CASE s # r.status
    <3>1. {x \in S \cup {r} : x.status = s} = of
      BY <2>3
    <3>2. Cardinality({x \in S \cup {r} : x.status = s}) = Cardinality(of)
      BY <3>1
    <3> HIDE DEF of
    <3>3. Cardinality(of) + (IF s = r.status THEN 1 ELSE 0) = Cardinality(of)
      BY <2>1, <2>3
    <3> QED BY <3>2, <3>3 DEF of
  <2> QED BY <2>2, <2>3
<1>3. r.status \in ClassificationStatus
  BY DEF Result
<1>4. ASSUME NEW s \in ClassificationStatus
      PROVE  Cardinality({x \in S : x.status = s}) \in Nat
  BY FS_Subset, FS_CardinalityType
<1>5. IsFiniteSet(S \cup {r}) /\ Cardinality(S \cup {r}) = Cardinality(S) + 1
  BY <1>1, FS_AddElement
<1> QED BY <1>2, <1>3, <1>4, <1>5 DEF Bump

\* The store in use is reliable just when its statements cannot fail.
LEMMA ReliableInUse == TypeOK => (Reliable(backend) <=> ~MayFail)
  BY DEF TypeOK, StoreTypeOK, Backends, Reliable, MayFail

LEMMA TracesInit == Init => TInv
<1> SUFFICES ASSUME Init PROVE \A j \in Jobs : TracesAgree(j)
  BY RowInit DEF TInv
<1>1. TypeOK
  BY TypeInit
<1>2. ASSUME NEW j \in Jobs PROVE TracesAgree(j)
  <2>1. \A b \in Backends : traces[b][j] = {} /\ rows[b][j] = NoRow
    BY DEF Init, StoreInit
  <2>2. \A w \in Workers : worker[j][w].pc # "sending"
    BY DEF Init, Exited, Idle
  <2>3. phase[j] \notin Collecting
    BY DEF Init, Collecting
  <2>4. ASSUME NEW b \in Backends PROVE RowBacked(b, j)
    <3>1. rows[b][j].status # "completed" /\ rows[b][j].processed = 0
      BY <2>1 DEF NoRow
    <3>2. IsFiniteSet(traces[b][j]) /\ Cardinality(traces[b][j]) = 0
      BY <2>1, FS_EmptySet
    <3> QED BY <3>1, <3>2 DEF RowBacked
  <2> QED BY <2>1, <2>2, <2>3, <2>4 DEF TracesAgree
<1> QED BY <1>2

\* The part of a step that Same does not speak of.
SameTraces(k) == current'[k] = current[k] /\ \A b \in Backends : traces'[b][k] = traces[b][k]

LEMMA TracesApart ==
    ASSUME TypeOK, NEW j \in Jobs, StepOf(j), NEW k \in Jobs, k # j
    PROVE  SameTraces(k)
<1>1. CASE SaveResult(j)
  BY <1>1 DEF SaveResult, SaveTrace, SameTraces, TypeOK, StoreTypeOK
<1>2. ASSUME NEW w \in Workers, Receive(j, w) PROVE SameTraces(k)
  BY <1>2 DEF Receive, SameTraces, TypeOK
<1> QED BY <1>1, <1>2
  DEF StepOf, Runner, Feeder, Worker, EnqueueJob, CreateJob, LoadJob, MarkRunning, UpdateJob,
      HandOut, CloseTasks, CloseResults, Resolve, Probe, WorkerExit, WriteProgress, Finalize,
      FinalWrite, storeVars, SameTraces

\* The traces of a job do not depend on the steps of other jobs.
LEMMA OtherTraces ==
    ASSUME TypeOK, NEW k \in Jobs, TracesAgree(k), Same(k), SameTraces(k)
    PROVE  TracesAgree(k)'
<1>1. GetJobTraces(k)' = GetJobTraces(k) /\ MayFail' = MayFail
  BY DEF Same, SameTraces, GetJobTraces, MayFail, TypeOK, StoreTypeOK
<1>2. Counted(k)' = Counted(k)
  BY <1>1 DEF Counted, Same, SameTraces
<1>3. Tallied(k)' = Tallied(k)
  BY DEF Same, Tallied, Held, Holders
<1>4. ASSUME TallyFromTraces(k) PROVE TallyFromTraces(k)'
  BY <1>1, <1>2, <1>3, <1>4 DEF TallyFromTraces, Same, SameTraces
<1>5. ASSUME NEW b \in Backends, RowBacked(b, k) PROVE RowBacked(b, k)'
  BY <1>5 DEF RowBacked, Same, SameTraces
<1> QED BY <1>1, <1>4, <1>5 DEF TracesAgree, Same, SameTraces, Reliable

\* Every step but SaveResult leaves the traces of a job alone; what is left to
\* show of one is the part on the workers, the tally and the rows.
LEMMA UnsavedTraces ==
    ASSUME TInv, NEW j \in Jobs, UNCHANGED <<traces, backend>>,
           phase'[j] \in {"none", "load", "mark"} => phase[j] \in {"none", "load", "mark"},
           \A w \in Workers : worker'[j][w].pc = "sending" =>
                                worker'[j][w].result.domain = worker'[j][w].task,
           phase'[j] \in Collecting /\ ~MayFail => TallyFromTraces(j)',
           \A b \in Backends : \/ rows'[b][j] = rows[b][j]
                               \/ Reliable(b) => RowBacked(b, j)'
    PROVE  TracesAgree(j)'
<1>1. TracesAgree(j) /\ MayFail' = MayFail
  BY DEF TInv, MayFail
<1>2. ASSUME NEW b \in Backends, Reliable(b), rows'[b][j] = rows[b][j]
      PROVE  RowBacked(b, j)'
  BY <1>1, <1>2 DEF TracesAgree, RowBacked
<1> QED BY <1>1, <1>2 DEF TracesAgree, Reliable

\* A step that the tally does not see.
LEMMA SameTally ==
    ASSUME TInv, NEW j \in Jobs, phase'[j] = phase[j],
           UNCHANGED <<traces, backend, current, batch, job>>,
           Tallied(j)' = Tallied(j), phase[j] \in Collecting, ~MayFail
    PROVE  TallyFromTraces(j)'
<1>1. TallyFromTraces(j)
  BY DEF TInv, TracesAgree
<1>2. GetJobTraces(j)' = GetJobTraces(j) /\ Counted(j)' = Counted(j)
  BY DEF GetJobTraces, Counted
<1> QED BY <1>1, <1>2 DEF TallyFromTraces

LEMMA TracesEnqueueJob ==
    ASSUME TInv, NEW j \in Jobs, NEW D \in Submissions, EnqueueJob(j, D)
    PROVE  TracesAgree(j)'
<1> USE DEF TInv, RInv, IInv
<1>1. /\ phase[j] = "none" /\ phase'[j] \in {"load", "orphan"}
      /\ UNCHANGED <<traces, backend, worker>>
  BY DEF EnqueueJob, CreateJob, TypeOK
<1>2. \A b \in Backends : traces[b][j] = {}
  BY <1>1 DEF TracesAgree
<1>3. rows' = [rows EXCEPT ![backend][j] = Created(Cardinality(D))]
  BY DEF EnqueueJob, CreateJob, Created
<1>4. ASSUME NEW b \in Backends PROVE rows'[b][j] = rows[b][j] \/ RowBacked(b, j)'
  <2>1. CASE b = backend
    <3>1. rows'[b][j] = Created(Cardinality(D))
      BY <1>3, <2>1 DEF TypeOK, StoreTypeOK
    <3>2. rows'[b][j].processed = 0 /\ rows'[b][j].status = "queued"
      BY <3>1 DEF Created, NoRow
    <3>3. traces'[b][j] = {} /\ Cardinality(traces'[b][j]) = 0 /\ IsFiniteSet(traces'[b][j])
      BY <1>1, <1>2, FS_EmptySet
    <3> QED BY <3>2, <3>3 DEF RowBacked
  <2>2. CASE b # backend
    BY <1>3, <2>2 DEF TypeOK, StoreTypeOK
  <2> QED BY <2>1, <2>2
<1> QED BY <1>1, <1>4, UnsavedTraces DEF TracesAgree, Collecting

\* MarkRunning starts from an empty tally and no trace.
LEMMA TracesMarkRunning ==
    ASSUME TInv, TypeOK', NEW j \in Jobs, MarkRunning(j)
    PROVE  TracesAgree(j)'
<1> USE DEF TInv, RInv, IInv
<1> DEFINE row == [job[j] EXCEPT !.status = "running"]
<1>1. /\ phase[j] = "mark" /\ phase'[j] = "collect" /\ job'[j] = row /\ UpdateJob(j, row)
      /\ \A w \in Workers : worker'[j][w] = Idle
      /\ UNCHANGED <<traces, backend>>
  BY DEF MarkRunning, UpdateJob, TypeOK
<1>2. \A b \in Backends : traces[b][j] = {}
  BY <1>1 DEF TracesAgree
<1>3. job[j] = Created(Cardinality(batch[j])) /\ job[j] \in Row
  BY <1>1 DEF RowAgrees, TypeOK
<1>4. /\ row.status = "running" /\ row.processed = 0 /\ row.counts = emptyCounts
      /\ row.lastErr = FALSE
  BY <1>3 DEF Created, NoRow, Row
<1>5. TallyFromTraces(j)'
  <2>1. GetJobTraces(j)' = {} /\ Counted(j)' = {}
    BY <1>1, <1>2 DEF GetJobTraces, Counted, TypeOK, StoreTypeOK
  <2>2. \A s \in ClassificationStatus : {r \in Counted(j)' : r.status = s} = {}
    BY <2>1
  <2> HIDE DEF row
  <2> QED BY <1>1, <1>4, <2>1, <2>2, FS_EmptySet DEF TallyFromTraces, emptyCounts
<1>6. ASSUME NEW b \in Backends PROVE rows'[b][j] = rows[b][j] \/ RowBacked(b, j)'
  <2>1. rows'[b][j] = rows[b][j] \/ rows'[b][j] = row
    BY <1>1, UpdatedRow
  <2>2. traces'[b][j] = {} /\ Cardinality(traces'[b][j]) = 0 /\ IsFiniteSet(traces'[b][j])
    BY <1>1, <1>2, FS_EmptySet
  <2> HIDE DEF row
  <2> QED BY <1>4, <2>1, <2>2 DEF RowBacked
<1>7. \A w \in Workers : worker'[j][w].pc # "sending"
  BY <1>1 DEF Idle
<1> HIDE DEF row
<1> QED BY <1>1, <1>5, <1>6, <1>7, UnsavedTraces

\* The tasks a worker holds before and after one of its steps.
LEMMA TracesWorker ==
    ASSUME TInv, TypeOK', NEW j \in Jobs, NEW w \in Workers, Worker(j, w)
    PROVE  TracesAgree(j)'
<1> USE DEF TInv, RInv, IInv
<1>1. /\ \A v \in Workers \ {w} : worker'[j][v] = worker[j][v]
      /\ UNCHANGED <<storeVars, batch, phase, job, current, pending>>
  <2>1. CASE Resolve(j, w)
    BY <2>1 DEF Resolve, FinishTrace, TypeOK
  <2>2. CASE Probe(j, w)
    <3>1. PICK r : worker' = [worker EXCEPT ![j][w] =
                                [worker[j][w] EXCEPT !.pc = "sending", !.result = r]]
      BY <2>2 DEF Probe, FinishTrace
    <3>2. \A v \in Workers \ {w} : worker'[j][v] = worker[j][v]
      BY <3>1 DEF TypeOK
    <3> QED BY <2>2, <3>2 DEF Probe
  <2>3. CASE WorkerExit(j, w)
    BY <2>3 DEF WorkerExit, TypeOK
  <2> QED BY <2>1, <2>2, <2>3 DEF Worker
<1>2. worker[j][w] \in WorkerState
  BY DEF TypeOK
<1>3. ASSUME NEW s, NEW failed, FinishTrace(j, w, Traced(worker[j][w].task, s, failed))
      PROVE  /\ worker'[j][w].pc = "sending" /\ worker'[j][w].task = worker[j][w].task
             /\ worker'[j][w].result.domain = worker[j][w].task
  BY <1>2, <1>3 DEF FinishTrace, Traced, TypeOK, WorkerState
<1>4. \/ /\ worker[j][w].pc \in Holding /\ worker'[j][w].pc \in Holding
         /\ worker'[j][w].task = worker[j][w].task
         /\ worker'[j][w].pc = "sending" => worker'[j][w].result.domain = worker'[j][w].task
      \/ /\ worker[j][w].pc = "idle" /\ worker'[j][w].pc = "exited"
  <2>1. CASE WorkerExit(j, w)
    BY <2>1 DEF WorkerExit, TypeOK, Exited, Idle
  <2>2. CASE Resolve(j, w)
    <3>1. CASE worker' = [worker EXCEPT ![j][w].pc = "probing"]
      BY <1>2, <2>2, <3>1 DEF Resolve, TypeOK, WorkerState, Holding
    <3> QED BY <1>3, <2>2, <3>1 DEF Resolve, Holding
  <2>3. CASE Probe(j, w)
    BY <1>3, <2>3 DEF Probe, Holding
  <2> QED BY <2>1, <2>2, <2>3 DEF Worker
<1>5. Tallied(j)' = Tallied(j)
  <2>1. Holders(j)' = Holders(j)
    BY <1>1, <1>4 DEF Holders, Holding
  <2>2. \A v \in Holders(j) : worker'[j][v].task = worker[j][v].task
    BY <1>1, <1>4 DEF Holders, Holding
  <2> QED BY <1>1, <2>1, <2>2 DEF Tallied, Held
<1>6. \A v \in Workers : worker'[j][v].pc = "sending" =>
                           worker'[j][v].result.domain = worker'[j][v].task
  BY <1>1, <1>4 DEF TracesAgree
<1> QED BY <1>1, <1>5, <1>6, SameTally, UnsavedTraces DEF storeVars

LEMMA TracesFeeder ==
    ASSUME TInv, TypeOK', NEW j \in Jobs, Feeder(j) \/ CloseResults(j)
    PROVE  TracesAgree(j)'
<1> USE DEF TInv, RInv, IInv
<1>1. UNCHANGED <<storeVars, batch, phase, job, current>>
  BY DEF Feeder, HandOut, CloseTasks, CloseResults
<1>2. ASSUME NEW w \in Workers, HandOut(j, w) PROVE TracesAgree(j)'
  <2>1. PICK d \in pending[j] :
           /\ pending' = [pending EXCEPT ![j] = @ \ {d}]
           /\ worker' = [worker EXCEPT ![j][w] =
                           [worker[j][w] EXCEPT !.pc = "resolving", !.task = d]]
    BY <1>2 DEF HandOut
  <2>2. /\ pending'[j] = pending[j] \ {d} /\ worker[j][w].pc = "idle"
        /\ worker'[j][w].pc = "resolving" /\ worker'[j][w].task = d
        /\ \A v \in Workers \ {w} : worker'[j][v] = worker[j][v]
    BY <1>2, <2>1 DEF HandOut, TypeOK, WorkerState
  <2>3. Tallied(j)' = Tallied(j)
    <3>1. Holders(j)' = Holders(j) \cup {w} /\ w \notin Holders(j)
      BY <2>2 DEF Holders, Holding
    <3>2. \A v \in Holders(j) : worker'[j][v].task = worker[j][v].task
      BY <2>2, <3>1 DEF Holders
    <3>3. Held(j)' = {worker'[j][v].task : v \in Holders(j)'}
      BY DEF Held
    <3>4. @ = Held(j) \cup {d}
      BY <2>2, <3>1, <3>2 DEF Held
    <3> QED BY <1>1, <2>1, <2>2, <3>3, <3>4 DEF Tallied
  <2>4. \A v \in Workers : worker'[j][v].pc = "sending" =>
                             worker'[j][v].result.domain = worker'[j][v].task
    BY <2>2 DEF TracesAgree
  <2> QED BY <1>1, <2>3, <2>4, SameTally, UnsavedTraces DEF storeVars
<1>3. CASE CloseTasks(j) \/ CloseResults(j)
  <2>1. UNCHANGED <<pending, worker>>
    BY <1>3 DEF CloseTasks, CloseResults
  <2>2. Tallied(j)' = Tallied(j)
    BY <1>1, <2>1 DEF Tallied, Held, Holders
  <2> QED BY <1>1, <2>1, <2>2, SameTally, UnsavedTraces DEF storeVars, TracesAgree
<1> QED BY <1>2, <1>3 DEF Feeder

\* Receive counts the result of a domain the tally did not have.
LEMMA TracesReceive ==
    ASSUME TInv, TypeOK', NEW j \in Jobs, NEW w \in Workers, Receive(j, w)
    PROVE  TracesAgree(j)'
<1> USE DEF TInv, RInv, IInv
<1> DEFINE result == worker[j][w].result
           tally == Tally(j, result)
<1>1. /\ phase[j] = "collect" /\ phase'[j] = "save" /\ worker[j][w].pc = "sending"
      /\ job'[j] = tally /\ current'[j] = result /\ worker'[j][w] = Idle
      /\ \A v \in Workers \ {w} : worker'[j][v] = worker[j][v]
      /\ UNCHANGED <<traces, backend, batch, pending>>
  BY DEF Receive, TypeOK
<1>2. result \in Result /\ job[j] \in Row /\ result.domain = worker[j][w].task
  BY <1>1 DEF TypeOK, WorkerState, TracesAgree
<1>3. ASSUME ~MayFail PROVE TallyFromTraces(j)'
  <2> DEFINE saved == GetJobTraces(j)
  <2>1. TallyFromTraces(j) /\ Counted(j) = saved /\ phase[j] \in Collecting
    BY <1>1, <1>3 DEF TracesAgree, Collecting, Counted
  <2>2. IsFiniteSet(saved) /\ saved \in SUBSET Result
    BY <1>3, ReliableInUse DEF TracesAgree, RowBacked, GetJobTraces, TypeOK, StoreTypeOK
  <2>3. saved' = saved /\ Counted(j)' = saved \cup {result}
    BY <1>1 DEF GetJobTraces, Counted
  <2>4. Tallied(j)' = Tallied(j) \cup {result.domain} /\ result.domain \notin Tallied(j)
    <3>1. w \in Holders(j) /\ Holders(j)' = Holders(j) \ {w}
      BY <1>1 DEF Holders, Holding, Idle
    <3>2. \A v \in Holders(j) \ {w} :
             worker'[j][v] = worker[j][v] /\ worker[j][v].task # worker[j][w].task
      BY <1>1, <3>1 DEF JobInv, TasksApart, Holders
    <3>3. Held(j)' = {worker'[j][v].task : v \in Holders(j) \ {w}}
      BY <3>1 DEF Held
    <3>4. @ = {worker[j][v].task : v \in Holders(j) \ {w}}
      BY <3>2
    <3>5. @ = Held(j) \ {result.domain}
      BY <1>2, <3>1, <3>2 DEF Held
    <3>6. result.domain \in Held(j) /\ Held(j) \subseteq batch[j] /\ pending[j] \cap Held(j) = {}
      BY <1>2, <3>1 DEF Held, JobInv, TasksApart
    <3> QED BY <1>1, <3>3, <3>4, <3>5, <3>6 DEF Tallied
  <2>5. \A r \in saved : r.domain \in Tallied(j) /\ r.domain # result.domain
    BY <2>1, <2>4 DEF TallyFromTraces
  <2>6. /\ Cardinality(saved \cup {result}) = Cardinality(saved) + 1
        /\ \A s \in ClassificationStatus :
              Cardinality({x \in saved \cup {result} : x.status = s})
                 = Bump([t \in ClassificationStatus |->
                            Cardinality({x \in saved : x.status = t})], result.status)[s]
    BY <1>2, <2>2, <2>5, OneMoreResult
  <2>7. /\ tally.processed = job[j].processed + 1
        /\ tally.counts = Bump(job[j].counts, result.status)
        /\ tally.lastErr = (job[j].lastErr \/ result.err)
    BY <1>2 DEF Tally, Row
  <2>8. job[j].counts = [t \in ClassificationStatus |-> Cardinality({x \in saved : x.status = t})]
    BY <1>2, <2>1 DEF TallyFromTraces, Row, CountMap
  <2> HIDE DEF saved, tally, result
  <2>9. job'[j].processed = Cardinality(Counted(j)')
    BY <1>1, <2>1, <2>3, <2>6, <2>7 DEF TallyFromTraces
  <2>10. \A s \in ClassificationStatus :
            job'[j].counts[s] = Cardinality({r \in Counted(j)' : r.status = s})
    <3>1. job'[j].counts =
             Bump([t \in ClassificationStatus |-> Cardinality({x \in saved : x.status = t})],
                  result.status)
      BY <1>1, <2>7, <2>8
    <3>2. ASSUME NEW s \in ClassificationStatus
          PROVE  {r \in Counted(j)' : r.status = s} = {x \in saved \cup {result} : x.status = s}
      BY <2>3
    <3> QED BY <2>6, <3>1, <3>2
  <2>11. job'[j].lastErr <=> \E r \in Counted(j)' : r.err
    <3>1. job[j].lastErr <=> \E r \in saved : r.err
      BY <2>1, Zenon DEF TallyFromTraces
    <3> QED BY <1>1, <2>3, <2>7, <3>1, Zenon
  <2>12. \A r \in Counted(j)' : r.domain \in Tallied(j)'
    BY <2>3, <2>4, <2>5
  <2>13. \A r \in GetJobTraces(j)' : r.domain # current'[j].domain
    BY <1>1, <2>3, <2>5 DEF saved
  <2> QED BY <2>9, <2>10, <2>11, <2>12, <2>13, Zenon DEF TallyFromTraces
<1>4. ASSUME NEW b \in Backends, Reliable(b) PROVE rows'[b][j] = rows[b][j] \/ RowBacked(b, j)'
  <2> DEFINE row == [rows["memory"][j] EXCEPT !.counts = tally.counts]
  <2>1. rows' = rows \/ (backend = "memory" /\ rows' = [rows EXCEPT !["memory"][j] = row])
    BY <1>1 DEF Receive, SharesCounts
  <2>2. rows'[b][j] = rows[b][j] \/ (b = "memory" /\ backend = b /\ rows'[b][j] = row)
    BY <2>1 DEF TypeOK, StoreTypeOK, Backends
  <2>3. row.processed = rows["memory"][j].processed /\ row.status = rows["memory"][j].status
    BY DEF TypeOK, StoreTypeOK, Backends, Row
  <2>4. backend = "memory" => rows["memory"][j].status = "running"
    BY <1>1 DEF RowAgrees, Collecting, Lookup
  <2>5. RowBacked(b, j) /\ traces' = traces
    BY <1>1, <1>4 DEF TracesAgree
  <2> HIDE DEF row
  <2> QED BY <2>2, <2>3, <2>4, <2>5 DEF RowBacked
<1>5. \A v \in Workers : worker'[j][v].pc = "sending" =>
                           worker'[j][v].result.domain = worker'[j][v].task
  BY <1>1 DEF TracesAgree, Idle
<1> HIDE DEF TInv, RInv, IInv, result, tally
<1> QED BY <1>1, <1>3, <1>4, <1>5, UnsavedTraces

\* SaveResult moves the result being recorded to the saved ones.
LEMMA TracesSaveResult ==
    ASSUME TInv, TypeOK', NEW j \in Jobs, SaveResult(j)
    PROVE  TracesAgree(j)'
<1> USE DEF TInv, RInv, IInv
<1> DEFINE saved == GetJobTraces(j)
           result == current[j]
<1>1. /\ phase[j] = "save" /\ phase'[j] = "update" /\ phase[j] \in Collecting
      /\ UNCHANGED <<rows, backend, batch, job, pending, worker>>
  BY DEF SaveResult, SaveTrace, TypeOK, Collecting
<1>2. ASSUME ~MayFail
      PROVE  traces' = [traces EXCEPT ![backend][j] = saved \cup {result}]
  <2>1. \A r \in saved : r.domain # result.domain
    BY <1>1, <1>2 DEF TracesAgree, TallyFromTraces
  <2>2. {r \in saved : r.domain # result.domain} = saved
    BY <2>1
  <2> QED BY <1>2, <2>2 DEF SaveResult, SaveTrace, GetJobTraces
<1>3. \A b \in Backends : b # backend => traces'[b][j] = traces[b][j]
  BY DEF SaveResult, SaveTrace, TypeOK, StoreTypeOK
<1>4. ASSUME ~MayFail PROVE TallyFromTraces(j)'
  <2>1. saved' = saved \cup {result}
    BY <1>1, <1>2, <1>4 DEF GetJobTraces, TypeOK, StoreTypeOK
  <2>2. Counted(j) = saved \cup {result}
    BY <1>1 DEF Counted
  <2>3. Counted(j)' = saved'
    BY <1>1 DEF Counted
  <2>4. Tallied(j)' = Tallied(j)
    BY <1>1 DEF Tallied, Held, Holders
  <2>5. TallyFromTraces(j) /\ Counted(j)' = Counted(j)
    BY <1>1, <1>4, <2>1, <2>2, <2>3 DEF TracesAgree
  <2> QED BY <1>1, <2>4, <2>5 DEF TallyFromTraces
<1>5. ASSUME NEW b \in Backends, Reliable(b) PROVE RowBacked(b, j)'
  <2>1. RowBacked(b, j) /\ rows' = rows
    BY <1>1, <1>5 DEF TracesAgree
  <2>2. CASE b # backend
    BY <1>3, <2>1, <2>2 DEF RowBacked
  <2>3. CASE b = backend
    <3>1. traces'[b][j] = saved \cup {result} /\ saved = traces[b][j]
      BY <1>2, <1>5, <2>3, ReliableInUse DEF GetJobTraces, TypeOK, StoreTypeOK
    <3>2. IsFiniteSet(traces'[b][j]) /\ Cardinality(traces[b][j]) <= Cardinality(traces'[b][j])
      BY <2>1, <3>1, FS_AddElement, FS_Subset DEF RowBacked
    <3>3. rows[b][j].status # "completed" /\ rows[b][j].processed \in Nat
      <4>1. Lookup(j) = rows[b][j] /\ Lookup(j).status \in {"queued", "running"}
        BY <1>1, <2>3 DEF RowAgrees, Lookup
      <4> QED BY <4>1 DEF TypeOK, StoreTypeOK, Row
    <3>4. Cardinality(traces[b][j]) \in Nat /\ Cardinality(traces'[b][j]) \in Nat
      BY <2>1, <3>2, FS_CardinalityType DEF RowBacked
    <3> QED BY <2>1, <3>2, <3>3, <3>4 DEF RowBacked
  <2> QED BY <2>2, <2>3
<1>6. MayFail' = MayFail
  BY <1>1 DEF MayFail
<1>7. \A v \in Workers : worker'[j][v].pc = "sending" =>
                           worker'[j][v].result.domain = worker'[j][v].task
  BY <1>1 DEF TracesAgree
<1> QED BY <1>1, <1>4, <1>5, <1>6, <1>7 DEF TracesAgree, Reliable

\* A row written between two results, or at the end, is the tally of the saved.
LEMMA WrittenRow ==
    ASSUME TInv, NEW j \in Jobs, NEW row, NEW b \in Backends, UpdateJob(j, row), Reliable(b),
           phase[j] \in {"collect", "update"}, row.processed = job[j].processed,
           row.counts = job[j].counts, row.lastErr = job[j].lastErr
    PROVE  rows'[b][j] = rows[b][j] \/ RowBacked(b, j)'
<1> USE DEF TInv, RInv, IInv
<1>1. CASE b # backend
  BY <1>1 DEF UpdateJob, TypeOK, StoreTypeOK
<1>2. CASE b = backend
  <2>1. TallyFromTraces(j) /\ Counted(j) = traces[b][j] /\ IsFiniteSet(traces[b][j])
    BY <1>2, ReliableInUse DEF TracesAgree, Collecting, Counted, GetJobTraces, RowBacked
  <2>2. rows'[b][j] = rows[b][j] \/ rows'[b][j] = row
    BY UpdatedRow
  <2>3. traces' = traces /\ job[j].processed \in Nat
    BY DEF UpdateJob, TypeOK, Row
  <2>4. /\ row.processed <= Cardinality(traces'[b][j])
        /\ row.processed = Cardinality(traces'[b][j])
        /\ \A s \in ClassificationStatus :
              row.counts[s] = Cardinality({r \in traces'[b][j] : r.status = s})
    BY <2>1, <2>3 DEF TallyFromTraces
  <2>5. row.lastErr <=> \E r \in traces'[b][j] : r.err
    BY <2>1, <2>3, Zenon DEF TallyFromTraces
  <2> QED BY <2>1, <2>2, <2>3, <2>4, <2>5, Zenon DEF RowBacked
<1> QED BY <1>1, <1>2

LEMMA TracesWriteProgress ==
    ASSUME TInv, TypeOK', NEW j \in Jobs, WriteProgress(j)
    PROVE  TracesAgree(j)'
<1> USE DEF TInv, RInv, IInv
<1>1. /\ phase[j] = "update" /\ phase'[j] = "collect" /\ UpdateJob(j, job[j])
      /\ UNCHANGED <<traces, backend, batch, job, pending, worker, current>>
  BY DEF WriteProgress, UpdateJob, TypeOK
<1>2. ASSUME ~MayFail PROVE TallyFromTraces(j)'
  <2>1. TallyFromTraces(j)
    BY <1>1, <1>2 DEF TracesAgree, Collecting
  <2>2. Counted(j)' = Counted(j) /\ Tallied(j)' = Tallied(j)
    BY <1>1 DEF Counted, GetJobTraces, Tallied, Held, Holders
  <2> QED BY <1>1, <2>1, <2>2 DEF TallyFromTraces
<1>3. \A v \in Workers : worker'[j][v].pc = "sending" =>
                           worker'[j][v].result.domain = worker'[j][v].task
  BY <1>1 DEF TracesAgree
<1>4. ASSUME NEW b \in Backends, Reliable(b) PROVE rows'[b][j] = rows[b][j] \/ RowBacked(b, j)'
  BY <1>1, <1>4, WrittenRow
<1> HIDE DEF TInv
<1> QED BY <1>1, <1>2, <1>3, <1>4, UnsavedTraces

LEMMA TracesFinalize ==
    ASSUME TInv, TypeOK', NEW j \in Jobs, Finalize(j)
    PROVE  TracesAgree(j)'
<1> USE DEF TInv, RInv, IInv
<1> DEFINE row == [job[j] EXCEPT !.status = "completed"]
<1>1. /\ phase[j] = "collect" /\ phase'[j] = "returned" /\ UpdateJob(j, row)
      /\ UNCHANGED <<traces, backend, worker>>
  BY DEF Finalize, FinalWrite, UpdateJob, TypeOK
<1>2. /\ row.processed = job[j].processed /\ row.counts = job[j].counts
      /\ row.lastErr = job[j].lastErr
  BY DEF TypeOK, Row
<1> HIDE DEF row
<1>3. ASSUME NEW b \in Backends, Reliable(b) PROVE rows'[b][j] = rows[b][j] \/ RowBacked(b, j)'
  BY <1>1, <1>2, <1>3, WrittenRow
<1>4. \A v \in Workers : worker'[j][v].pc = "sending" =>
                           worker'[j][v].result.domain = worker'[j][v].task
  BY <1>1 DEF TracesAgree
<1>5. phase'[j] \notin Collecting /\ phase'[j] \notin {"none", "load", "mark"}
  BY <1>1 DEF Collecting
<1> HIDE DEF TInv
<1> QED BY <1>1, <1>3, <1>4, <1>5, UnsavedTraces

\* LoadJob, a restart, and a step that changes nothing.
LEMMA TracesIdle ==
    ASSUME TInv, NEW k \in Jobs, UNCHANGED <<rows, traces, worker>>,
           phase'[k] \in {"none", "load", "mark"} => phase[k] \in {"none", "load", "mark"},
           phase'[k] \notin Collecting
    PROVE  TracesAgree(k)'
<1>1. TracesAgree(k)
  BY DEF TInv
<1>2. ASSUME NEW b \in Backends, RowBacked(b, k) PROVE RowBacked(b, k)'
  BY <1>2 DEF RowBacked
<1> QED BY <1>1, <1>2 DEF TracesAgree, Reliable

LEMMA TracesDie ==
    ASSUME TInv, Die, NEW k \in Jobs
    PROVE  TracesAgree(k)'
<1> USE DEF TInv, RInv, IInv
<1>1. /\ phase'[k] = IF phase[k] \in Running THEN "killed" ELSE phase[k]
      /\ \A w \in Workers : worker'[k][w] = Exited
  BY DEF Die, TypeOK
<1>2. /\ rows'["memory"][k] = NoRow /\ rows'["postgres"][k] = rows["postgres"][k]
      /\ traces'["memory"][k] = {} /\ traces'["postgres"][k] = traces["postgres"][k]
  BY DEF Die, LoseMemory, TypeOK, StoreTypeOK, Backends
<1>3. RowBacked("memory", k)'
  BY <1>2, FS_EmptySet DEF RowBacked, NoRow
<1>4. Reliable("postgres") => RowBacked("postgres", k)'
  BY <1>2 DEF TracesAgree, RowBacked, Backends
<1>5. phase'[k] \in {"none", "load", "mark"} =>
         phase[k] \in {"none", "load", "mark"} /\ \A b \in Backends : traces'[b][k] = {}
  BY <1>1, <1>2 DEF Running, TracesAgree, Backends
<1>6. phase'[k] \notin Collecting
  BY <1>1 DEF Running, Collecting
<1> QED BY <1>1, <1>3, <1>4, <1>5, <1>6 DEF TracesAgree, Reliable, Backends, Exited, Idle

LEMMA TracesNext == TInv /\ [Next]_vars => TInv'
<1> SUFFICES ASSUME TInv, [Next]_vars PROVE TInv'
  OBVIOUS
<1> USE DEF TInv
<1>1. RInv' /\ TypeOK /\ TypeOK'
  BY RowNext, InvNext DEF RInv, IInv
<1>2. ASSUME NEW j \in Jobs, StepOf(j) PROVE TInv'
  <2>1. TracesAgree(j)'
    <3>1. CASE LoadJob(j)
      <4>1. /\ UNCHANGED <<rows, traces, worker>> /\ phase[j] = "load"
            /\ phase'[j] \in {"mark", "aborted"}
        BY <1>1, <3>1 DEF LoadJob, storeVars, TypeOK
      <4> QED BY <4>1, TracesIdle DEF Collecting
    <3> QED BY <1>1, <1>2, <3>1, TracesEnqueueJob, TracesMarkRunning, TracesWorker,
               TracesFeeder, TracesReceive, TracesSaveResult, TracesWriteProgress,
               TracesFinalize
            DEF StepOf, Runner
  <2>2. ASSUME NEW k \in Jobs, k # j PROVE TracesAgree(k)'
    BY <1>1, <1>2, <2>2, StepsApart, TracesApart, OtherTraces
  <2> QED BY <1>1, <2>1, <2>2
<1>3. CASE Crash
  BY <1>1, <1>3, TracesDie DEF Crash
<1>4. CASE Boot
  <2>1. ASSUME NEW k \in Jobs PROVE TracesAgree(k)'
    <3>1. phase[k] \notin Collecting /\ UNCHANGED <<rows, traces, phase, worker>>
      BY <1>4 DEF Boot, RInv, IInv, JobInv, Running
    <3> QED BY <3>1, TracesIdle
  <2> QED BY <1>1, <2>1
<1>5. CASE UNCHANGED vars
  <2>1. ASSUME NEW k \in Jobs PROVE Same(k) /\ SameTraces(k)
    BY <1>5 DEF vars, storeVars, poolVars, Same, SameTraces
  <2> QED BY <1>1, <2>1, OtherTraces
<1> QED BY <1>2, <1>3, <1>4, <1>5 DEF Next, StepOf

LEMMA TracesInvariant == Spec => []TInv
  BY TracesInit, TracesNext, PTL DEF Spec

\* Whoever reads a row and then the results of the job finds as many as the row
\* announced: over memory always, over Postgres where no statement fails.
THEOREM ProgressBacked ==
    ASSUME ~StoreErrors
    PROVE  Spec => []TracesBackProgress
<1>1. TInv => TracesBackProgress
  BY DEF TInv, TracesAgree, RowBacked, Reliable, TracesBackProgress
<1> QED BY <1>1, TracesInvariant, PTL

\* There the counters and the error flag of a completed job are the ones its
\* saved traces give.
THEOREM CountsBacked ==
    ASSUME ~StoreErrors
    PROVE  Spec => []CountsMatchTraces
<1>1. TInv => CountsMatchTraces
  <2> SUFFICES ASSUME TInv, NEW b \in Backends, NEW j \in Jobs,
                      rows[b][j].status = "completed"
               PROVE  /\ \A s \in ClassificationStatus :
                            rows[b][j].counts[s] = Cardinality({r \in traces[b][j] : r.status = s})
                      /\ rows[b][j].lastErr = \E r \in traces[b][j] : r.err
    BY DEF CountsMatchTraces
  <2>1. RowBacked(b, j) /\ rows[b][j].lastErr \in BOOLEAN
    BY DEF TInv, TracesAgree, Reliable, RInv, IInv, TypeOK, StoreTypeOK, Row
  <2> QED BY <2>1, Zenon DEF RowBacked
<1> QED BY <1>1, TracesInvariant, PTL

-----------------------------------------------------------------------------
(* Every runner runs out of steps: the half of EveryRunnerEnds that needs  *)
(* no fairness.                                                            *)

\* The steps a job can ever take: four for a domain, two for a result, one for
\* a worker, a channel and each end of the runner.
DomainSteps == {"hand out", "resolve", "probe", "send"}

Steps(j) ==
    (DomainSteps \X batch[j])
        \cup ({"save", "update"} \X (1 .. Cardinality(batch[j])))
        \cup ({"exit"} \X Workers) \cup ({"close"} \X Channels)
        \cup ({"load", "mark", "return"} \X {j})

At(j, d, stages) ==
    \E w \in Workers : worker[j][w].task = d /\ worker[j][w].pc \in stages

\* The results are numbered in the order the runner receives them.
InPool(j, step, x) ==
    \/ step = "hand out" /\ x \in pending[j]
    \/ step = "resolve" /\ (x \in pending[j] \/ At(j, x, {"resolving"}))
    \/ step = "probe" /\ (x \in pending[j] \/ At(j, x, {"resolving", "probing"}))
    \/ step = "send" /\ (x \in pending[j] \/ At(j, x, Holding))
    \/ step = "save" /\ IF phase[j] = "save" THEN x >= job[j].processed
                                             ELSE x > job[j].processed
    \/ step = "update" /\ IF phase[j] = "collect" THEN x > job[j].processed
                                                  ELSE x >= job[j].processed
    \/ step = "exit" /\ worker[j][x].pc # "exited"
    \/ step = "close" /\ x \in open[j]
    \/ step = "return"

Due(j, step, x) ==
    \/ phase[j] = "load"
    \/ phase[j] = "mark" /\ step # "load"
    \/ phase[j] \in Collecting /\ InPool(j, step, x)

Ahead(j) == {s \in Steps(j) : Due(j, s[1], s[2])}

\* A step of one of the goroutines of the job.
OwnStep(j) ==
    \/ Runner(j) \/ Feeder(j) \/ CloseResults(j)
    \/ \E w \in Workers : Worker(j, w)

\* What a job still has to do is a finite set.
LEMMA StepsAreFinite ==
    ASSUME IInv, IsFiniteSet(Workers), NEW j \in Jobs
    PROVE  IsFiniteSet(Steps(j)) /\ IsFiniteSet(Ahead(j))
<1>1. IsFiniteSet(batch[j]) /\ Cardinality(batch[j]) \in Nat
  BY FS_CardinalityType DEF IInv, JobInv, TasksApart
<1>2. /\ IsFiniteSet(DomainSteps) /\ IsFiniteSet({"save", "update"}) /\ IsFiniteSet({"exit"})
      /\ IsFiniteSet({"close"}) /\ IsFiniteSet({"load", "mark", "return"})
      /\ IsFiniteSet(Channels) /\ IsFiniteSet({j})
  <2>1. ASSUME NEW S, IsFiniteSet(S), NEW x PROVE IsFiniteSet(S \cup {x})
    BY <2>1, FS_AddElement
  <2>2. IsFiniteSet({"save"}) /\ IsFiniteSet({"load"}) /\ IsFiniteSet({"tasks"})
        /\ IsFiniteSet({"hand out"}) /\ IsFiniteSet({"exit"}) /\ IsFiniteSet({"close"})
        /\ IsFiniteSet({j})
    BY FS_Singleton
  <2>3. IsFiniteSet({"save"} \cup {"update"}) /\ IsFiniteSet({"load"} \cup {"mark"})
        /\ IsFiniteSet({"tasks"} \cup {"results"})
        /\ IsFiniteSet({"hand out"} \cup {"resolve"})
    BY <2>1, <2>2
  <2>4. IsFiniteSet(({"load"} \cup {"mark"}) \cup {"return"})
        /\ IsFiniteSet(({"hand out"} \cup {"resolve"}) \cup {"probe"})
    BY <2>1, <2>3
  <2>5. IsFiniteSet((({"hand out"} \cup {"resolve"}) \cup {"probe"}) \cup {"send"})
    BY <2>1, <2>4
  <2>6. /\ {"save", "update"} = {"save"} \cup {"update"}
        /\ {"load", "mark", "return"} = ({"load"} \cup {"mark"}) \cup {"return"}
        /\ Channels = {"tasks"} \cup {"results"}
        /\ DomainSteps = (({"hand out"} \cup {"resolve"}) \cup {"probe"}) \cup {"send"}
    BY DEF Channels, DomainSteps
  <2> QED BY <2>2, <2>3, <2>4, <2>5, <2>6
<1>3. IsFiniteSet(1 .. Cardinality(batch[j]))
  BY <1>1, FS_Interval
<1>4. /\ IsFiniteSet(DomainSteps \X batch[j])
      /\ IsFiniteSet({"save", "update"} \X (1 .. Cardinality(batch[j])))
      /\ IsFiniteSet({"exit"} \X Workers) /\ IsFiniteSet({"close"} \X Channels)
      /\ IsFiniteSet({"load", "mark", "return"} \X {j})
  BY <1>1, <1>2, <1>3, FS_Product
<1>5. IsFiniteSet(Steps(j))
  BY <1>4, FS_Union DEF Steps
<1> QED BY <1>5, FS_Subset DEF Ahead

LEMMA StepsOf ==
    ASSUME NEW j \in Jobs
    PROVE  /\ \A step \in DomainSteps, d \in batch[j] : <<step, d>> \in Steps(j)
           /\ \A n \in 1 .. Cardinality(batch[j]) :
                 <<"save", n>> \in Steps(j) /\ <<"update", n>> \in Steps(j)
           /\ \A w \in Workers : <<"exit", w>> \in Steps(j)
           /\ \A c \in Channels : <<"close", c>> \in Steps(j)
           /\ \A step \in {"load", "mark", "return"} : <<step, j>> \in Steps(j)
BY DEF Steps

LEMMA StepsAre ==
    ASSUME NEW j \in Jobs, NEW step, NEW x, <<step, x>> \in Steps(j)
    PROVE  /\ step = "exit" => x \in Workers
           /\ step \in {"save", "update"} => x \in 1 .. Cardinality(batch[j])
BY DEF Steps, DomainSteps

\* One step fewer.
LEMMA Fewer ==
    ASSUME NEW j \in Jobs, batch' = batch,
           \A step, x : <<step, x>> \in Steps(j) /\ Due(j, step, x)' => Due(j, step, x),
           NEW e, NEW y, <<e, y>> \in Steps(j), Due(j, e, y), ~Due(j, e, y)'
    PROVE  Ahead(j)' \subseteq Ahead(j) /\ Ahead(j)' # Ahead(j)
<1>1. Steps(j)' = Steps(j)
  BY DEF Steps
<1>2. ASSUME NEW s \in Steps(j) PROVE s = <<s[1], s[2]>>
  BY DEF Steps
<1>3. ASSUME NEW s \in Ahead(j)' PROVE s \in Ahead(j)
  <2>1. s \in Steps(j) /\ Due(j, s[1], s[2])'
    BY <1>1, <1>3 DEF Ahead
  <2>2. <<s[1], s[2]>> \in Steps(j)
    BY <1>2, <2>1
  <2> QED BY <2>1, <2>2 DEF Ahead
<1>4. <<e, y>> \in Ahead(j) /\ <<e, y>> \notin Ahead(j)'
  BY DEF Ahead
<1> QED BY <1>3, <1>4

\* The steps of the runner outside its loop.
LEMMA AheadLoad ==
    ASSUME TypeOK, NEW j \in Jobs, LoadJob(j)
    PROVE  Ahead(j)' \subseteq Ahead(j) /\ Ahead(j)' # Ahead(j)
<1>1. /\ phase[j] = "load" /\ phase'[j] \in {"mark", "aborted"} /\ batch' = batch
  BY DEF LoadJob, TypeOK
<1>2. Due(j, "load", j) /\ ~Due(j, "load", j)'
  BY <1>1 DEF Due, Collecting
<1>3. \A step, x : Due(j, step, x)
  BY <1>1 DEF Due
<1> QED BY <1>1, <1>2, <1>3, StepsOf, Fewer

LEMMA AheadMark ==
    ASSUME TypeOK, NEW j \in Jobs, MarkRunning(j)
    PROVE  Ahead(j)' \subseteq Ahead(j) /\ Ahead(j)' # Ahead(j)
<1>1. phase[j] = "mark" /\ phase'[j] = "collect" /\ batch' = batch
  BY DEF MarkRunning, TypeOK
<1>2. Due(j, "mark", j) /\ ~Due(j, "mark", j)'
  BY <1>1 DEF Due, Collecting, InPool
<1>3. \A step, x : Due(j, step, x)' => Due(j, step, x)
  BY <1>1 DEF Due, Collecting, InPool
<1> QED BY <1>1, <1>2, <1>3, StepsOf, Fewer

LEMMA AheadFinalize ==
    ASSUME TypeOK, NEW j \in Jobs, Finalize(j)
    PROVE  Ahead(j)' \subseteq Ahead(j) /\ Ahead(j)' # Ahead(j)
<1>1. phase[j] = "collect" /\ phase'[j] = "returned" /\ batch' = batch
  BY DEF Finalize, FinalWrite, TypeOK
<1>2. Due(j, "return", j)
  BY <1>1 DEF Due, Collecting, InPool
<1>3. \A step, x : ~Due(j, step, x)'
  BY <1>1 DEF Due, Collecting
<1> QED BY <1>1, <1>2, <1>3, StepsOf, Fewer

\* The pipeline has work only while the runner collects.
LEMMA OnlyCollecting ==
    ASSUME IInv, NEW j \in Jobs
    PROVE  /\ open[j] # {} => phase[j] \in Collecting
           /\ \A w \in Workers : worker[j][w].pc # "exited" => phase[j] \in Collecting
BY DEF IInv, JobInv, ShutdownOrder, TypeOK, Channels

\* A task is one of the job's, with one worker, and off the feeder's list.
LEMMA OneHolder ==
    ASSUME IInv, NEW j \in Jobs, NEW w \in Workers, worker[j][w].pc \in Holding
    PROVE  /\ worker[j][w].task \in batch[j] /\ worker[j][w].task \notin pending[j]
           /\ \A v \in Workers \ {w} :
                 worker[j][v].pc \in Holding => worker[j][v].task # worker[j][w].task
<1>1. w \in Holders(j) /\ worker[j][w].task \in Held(j)
  BY DEF Holders, Held
<1>2. TasksApart(j)
  BY DEF IInv, JobInv
<1> QED BY <1>1, <1>2 DEF TasksApart, Holders

\* What the pool has before it when one worker has moved on.
LEMMA WorkerMoved ==
    ASSUME IInv, NEW j \in Jobs, NEW w \in Workers, NEW s,
           worker' = [worker EXCEPT ![j][w] = s]
    PROVE  /\ worker'[j][w] = s
           /\ \A v \in Workers \ {w} : worker'[j][v] = worker[j][v]
BY DEF IInv, TypeOK

LEMMA AheadHandOut ==
    ASSUME IInv, NEW j \in Jobs, NEW w \in Workers, HandOut(j, w)
    PROVE  Ahead(j)' \subseteq Ahead(j) /\ Ahead(j)' # Ahead(j)
<1>1. PICK d \in pending[j] :
         /\ pending' = [pending EXCEPT ![j] = @ \ {d}]
         /\ worker' = [worker EXCEPT ![j][w] = [@ EXCEPT !.pc = "resolving", !.task = d]]
  BY DEF HandOut
<1> DEFINE s == [worker[j][w] EXCEPT !.pc = "resolving", !.task = d]
<1>2. /\ worker[j][w].pc = "idle" /\ phase[j] \in Collecting
      /\ UNCHANGED <<batch, phase, job, open>>
  BY OnlyCollecting DEF HandOut
<1>3. worker' = [worker EXCEPT ![j][w] = s] /\ s.pc = "resolving" /\ s.task = d
  BY <1>1 DEF IInv, TypeOK, WorkerState
<1> HIDE DEF s
<1>4. worker'[j][w] = s /\ \A v \in Workers \ {w} : worker'[j][v] = worker[j][v]
  BY <1>3, WorkerMoved
<1>5. pending'[j] = pending[j] \ {d} /\ d \in batch[j]
  BY <1>1 DEF IInv, TypeOK, JobInv, TasksApart
<1>6. \A x, stages : At(j, x, stages)' => x = d \/ At(j, x, stages)
  BY <1>3, <1>4 DEF At
<1>7. \A step, x : <<step, x>> \in Steps(j) /\ Due(j, step, x)' => Due(j, step, x)
  <2> SUFFICES ASSUME NEW step, NEW x, <<step, x>> \in Steps(j), InPool(j, step, x)'
               PROVE  InPool(j, step, x)
    BY <1>2 DEF Due, Collecting
  <2>1. step = "exit" => worker[j][x].pc # "exited"
    BY <1>2, <1>4, StepsAre DEF InPool
  <2> QED BY <1>2, <1>5, <1>6, <2>1 DEF InPool
<1>8. Due(j, "hand out", d) /\ ~Due(j, "hand out", d)'
  BY <1>2, <1>5 DEF Due, InPool, Collecting
<1>9. <<"hand out", d>> \in Steps(j)
  BY <1>5, StepsOf DEF DomainSteps
<1> QED BY <1>2, <1>7, <1>8, <1>9, Fewer

LEMMA AheadClose ==
    ASSUME IInv, NEW j \in Jobs, CloseTasks(j) \/ CloseResults(j)
    PROVE  Ahead(j)' \subseteq Ahead(j) /\ Ahead(j)' # Ahead(j)
<1>1. PICK c \in Channels : /\ c \in open[j]
                            /\ open' = [open EXCEPT ![j] = @ \ {c}]
                            /\ UNCHANGED <<batch, phase, job, pending, worker>>
  BY DEF CloseTasks, CloseResults, Channels
<1>2. phase[j] \in Collecting /\ open'[j] = open[j] \ {c}
  BY <1>1, OnlyCollecting DEF IInv, TypeOK
<1>3. \A step, x : Due(j, step, x)' => Due(j, step, x)
  <2> SUFFICES ASSUME NEW step, NEW x, InPool(j, step, x)' PROVE InPool(j, step, x)
    BY <1>1, <1>2 DEF Due, Collecting
  <2>1. \A stages : At(j, x, stages)' <=> At(j, x, stages)
    BY <1>1 DEF At
  <2> QED BY <1>1, <1>2, <2>1 DEF InPool
<1>4. Due(j, "close", c) /\ ~Due(j, "close", c)'
  BY <1>1, <1>2 DEF Due, InPool, Collecting
<1> QED BY <1>1, <1>3, <1>4, StepsOf, Fewer

\* A worker passes from a stage of its task to a later one.
LEMMA AheadStage ==
    ASSUME IInv, NEW j \in Jobs, NEW w \in Workers, NEW s,
           UNCHANGED <<batch, phase, job, pending, open>>,
           worker' = [worker EXCEPT ![j][w] = s], s.task = worker[j][w].task,
           \/ worker[j][w].pc = "resolving" /\ s.pc \in {"probing", "sending"}
           \/ worker[j][w].pc = "probing" /\ s.pc = "sending"
    PROVE  Ahead(j)' \subseteq Ahead(j) /\ Ahead(j)' # Ahead(j)
<1> PICK d, e :
       /\ d = worker[j][w].task
       /\ e = IF worker[j][w].pc = "resolving" THEN "resolve" ELSE "probe"
  OBVIOUS
<1>1. /\ d \in batch[j] /\ d \notin pending[j]
      /\ \A v \in Workers \ {w} : worker[j][v].pc \in Holding => worker[j][v].task # d
      /\ phase[j] \in Collecting
  BY OneHolder, OnlyCollecting DEF Holding
<1>2. worker'[j][w] = s /\ \A v \in Workers \ {w} : worker'[j][v] = worker[j][v]
  BY WorkerMoved
<1>3. ASSUME NEW x,
             NEW stages \in {{"resolving"}, {"resolving", "probing"}, Holding},
             At(j, x, stages)'
      PROVE  At(j, x, stages)
  BY <1>2, <1>3 DEF At, Holding
<1>4. \A step, x : <<step, x>> \in Steps(j) /\ Due(j, step, x)' => Due(j, step, x)
  <2> SUFFICES ASSUME NEW step, NEW x, <<step, x>> \in Steps(j), InPool(j, step, x)'
               PROVE  InPool(j, step, x)
    BY <1>1 DEF Due, Collecting
  <2>1. step = "exit" => worker[j][x].pc # "exited"
    BY <1>2, StepsAre DEF InPool
  <2>2. At(j, x, {"resolving"})' => At(j, x, {"resolving"})
    BY <1>3
  <2>3. At(j, x, {"resolving", "probing"})' => At(j, x, {"resolving", "probing"})
    BY <1>3
  <2>4. At(j, x, Holding)' => At(j, x, Holding)
    BY <1>3 DEF Holding
  <2> QED BY <2>1, <2>2, <2>3, <2>4 DEF InPool
<1>5. Due(j, e, d)
  BY <1>1 DEF Due, InPool, At
<1>6. ~Due(j, e, d)'
  <2>1. d \notin pending'[j] /\ phase'[j] \notin {"load", "mark"}
    BY <1>1 DEF Collecting
  <2>2. CASE worker[j][w].pc = "resolving"
    <3>1. e = "resolve" /\ ~At(j, d, {"resolving"})'
      BY <1>1, <1>2, <2>2 DEF At, Holding
    <3> QED BY <2>1, <3>1 DEF Due, InPool
  <2>3. CASE worker[j][w].pc = "probing"
    <3>1. e = "probe" /\ ~At(j, d, {"resolving", "probing"})'
      BY <1>1, <1>2, <2>3 DEF At, Holding
    <3> QED BY <2>1, <3>1 DEF Due, InPool
  <2> QED BY <2>2, <2>3
<1>7. <<e, d>> \in Steps(j)
  BY <1>1, StepsOf DEF DomainSteps
<1> QED BY <1>4, <1>5, <1>6, <1>7, Fewer

LEMMA AheadWorker ==
    ASSUME IInv, NEW j \in Jobs, NEW w \in Workers, Resolve(j, w) \/ Probe(j, w)
    PROVE  Ahead(j)' \subseteq Ahead(j) /\ Ahead(j)' # Ahead(j)
<1>1. worker[j][w] \in WorkerState
  BY DEF IInv, TypeOK
<1>2. \E s : /\ worker' = [worker EXCEPT ![j][w] = s] /\ s.task = worker[j][w].task
             /\ \/ worker[j][w].pc = "resolving" /\ s.pc \in {"probing", "sending"}
                \/ worker[j][w].pc = "probing" /\ s.pc = "sending"
  <2>1. ASSUME NEW r, FinishTrace(j, w, r)
        PROVE  \E s : /\ worker' = [worker EXCEPT ![j][w] = s]
                      /\ s.task = worker[j][w].task /\ s.pc = "sending"
    <3> DEFINE s == [worker[j][w] EXCEPT !.pc = "sending", !.result = r]
    <3>1. worker' = [worker EXCEPT ![j][w] = s]
      BY <2>1 DEF FinishTrace
    <3>2. s.task = worker[j][w].task /\ s.pc = "sending"
      BY <1>1 DEF WorkerState
    <3> QED BY <3>1, <3>2
  <2>2. ASSUME worker' = [worker EXCEPT ![j][w].pc = "probing"]
        PROVE  \E s : /\ worker' = [worker EXCEPT ![j][w] = s]
                      /\ s.task = worker[j][w].task /\ s.pc = "probing"
    <3> DEFINE s == [worker[j][w] EXCEPT !.pc = "probing"]
    <3>1. worker' = [worker EXCEPT ![j][w] = s]
      BY <2>2
    <3>2. s.task = worker[j][w].task /\ s.pc = "probing"
      BY <1>1 DEF WorkerState
    <3> QED BY <3>1, <3>2
  <2>3. CASE Resolve(j, w)
    BY <2>1, <2>2, <2>3 DEF Resolve
  <2>4. CASE Probe(j, w)
    BY <2>1, <2>4 DEF Probe
  <2> QED BY <2>3, <2>4
<1>3. UNCHANGED <<batch, phase, job, pending, open>>
  BY DEF Resolve, Probe
<1> QED BY <1>2, <1>3, AheadStage

LEMMA AheadExit ==
    ASSUME IInv, NEW j \in Jobs, NEW w \in Workers, WorkerExit(j, w)
    PROVE  Ahead(j)' \subseteq Ahead(j) /\ Ahead(j)' # Ahead(j)
<1>1. /\ worker[j][w].pc = "idle" /\ worker' = [worker EXCEPT ![j][w] = Exited]
      /\ UNCHANGED <<batch, phase, job, pending, open>> /\ Exited.pc = "exited"
  BY DEF WorkerExit, Exited, Idle
<1>2. worker'[j][w] = Exited /\ \A v \in Workers \ {w} : worker'[j][v] = worker[j][v]
  BY <1>1, WorkerMoved
<1>3. phase[j] \in Collecting
  BY <1>1, OnlyCollecting
<1>4. \A x, stages : stages \subseteq Holding /\ At(j, x, stages)' => At(j, x, stages)
  BY <1>1, <1>2 DEF At, Holding
<1>5. \A step, x : <<step, x>> \in Steps(j) /\ Due(j, step, x)' => Due(j, step, x)
  <2> SUFFICES ASSUME NEW step, NEW x, <<step, x>> \in Steps(j), InPool(j, step, x)'
               PROVE  InPool(j, step, x)
    BY <1>1, <1>3 DEF Due, Collecting
  <2>1. step = "exit" => worker[j][x].pc # "exited"
    BY <1>1, <1>2, StepsAre DEF InPool
  <2> QED BY <1>1, <1>4, <2>1 DEF InPool, Holding
<1>6. Due(j, "exit", w) /\ ~Due(j, "exit", w)'
  BY <1>1, <1>2, <1>3 DEF Due, InPool, Collecting
<1> QED BY <1>1, <1>5, <1>6, StepsOf, Fewer

\* The runner records one result: it receives it, saves it and writes its progress.
LEMMA AheadReceive ==
    ASSUME IInv, NEW j \in Jobs, NEW w \in Workers, Receive(j, w)
    PROVE  Ahead(j)' \subseteq Ahead(j) /\ Ahead(j)' # Ahead(j)
<1> PICK d : d = worker[j][w].task
  OBVIOUS
<1>1. /\ phase[j] = "collect" /\ phase'[j] = "save" /\ worker[j][w].pc = "sending"
      /\ worker' = [worker EXCEPT ![j][w] = Idle] /\ Idle.pc = "idle"
      /\ UNCHANGED <<batch, pending, open>>
  BY DEF Receive, Idle, IInv, TypeOK
<1>2. worker'[j][w] = Idle /\ \A v \in Workers \ {w} : worker'[j][v] = worker[j][v]
  BY <1>1, WorkerMoved
<1>3. job[j].processed \in Nat /\ job'[j].processed = job[j].processed + 1
  BY DEF Receive, Tally, IInv, TypeOK, Row
<1>4. /\ d \in batch[j] /\ d \notin pending[j]
      /\ \A v \in Workers \ {w} : worker[j][v].pc \in Holding => worker[j][v].task # d
  BY <1>1, OneHolder DEF Holding
<1>5. \A x, stages : stages \subseteq Holding /\ At(j, x, stages)' => At(j, x, stages)
  BY <1>1, <1>2 DEF At, Holding
<1>6. \A step, x : <<step, x>> \in Steps(j) /\ Due(j, step, x)' => Due(j, step, x)
  <2> SUFFICES ASSUME NEW step, NEW x, <<step, x>> \in Steps(j), InPool(j, step, x)'
               PROVE  InPool(j, step, x)
    BY <1>1 DEF Due, Collecting
  <2>1. step = "exit" => worker[j][x].pc # "exited"
    BY <1>1, <1>2, StepsAre DEF InPool
  <2>2. step \in {"save", "update"} => x > job[j].processed
    <3> SUFFICES ASSUME step \in {"save", "update"} PROVE x > job[j].processed
      OBVIOUS
    <3>1. x \in Int
      BY StepsAre
    <3>2. IF step = "save" THEN x >= job'[j].processed ELSE x >= job'[j].processed
      BY <1>1 DEF InPool
    <3> QED BY <1>3, <3>1, <3>2
  <2> QED BY <1>1, <1>5, <2>1, <2>2 DEF InPool, Holding
<1>7. Due(j, "send", d) /\ ~Due(j, "send", d)'
  <2>1. At(j, d, Holding)
    BY <1>1 DEF At, Holding
  <2>2. ~At(j, d, Holding)'
    BY <1>1, <1>2, <1>4 DEF At, Holding
  <2>3. d \notin pending'[j]
    BY <1>1, <1>4
  <2> QED BY <1>1, <2>1, <2>2, <2>3 DEF Due, InPool, Collecting
<1>8. <<"send", d>> \in Steps(j)
  BY <1>4, StepsOf DEF DomainSteps
<1> QED BY <1>1, <1>6, <1>7, <1>8, Fewer

LEMMA AheadRecord ==
    ASSUME RInv, NEW j \in Jobs, SaveResult(j) \/ WriteProgress(j)
    PROVE  Ahead(j)' \subseteq Ahead(j) /\ Ahead(j)' # Ahead(j)
<1> PICK n : n = job[j].processed
  OBVIOUS
<1>1. /\ \/ phase[j] = "save" /\ phase'[j] = "update"
         \/ phase[j] = "update" /\ phase'[j] = "collect"
      /\ UNCHANGED <<batch, job, pending, open, worker>>
  BY DEF SaveResult, WriteProgress, RInv, IInv, TypeOK
<1>2. n \in 1 .. Cardinality(batch[j])
  <2>1. n \in Nat /\ Lookup(j).processed \in Nat
    BY DEF RInv, IInv, TypeOK, StoreTypeOK, Row, Lookup
  <2>2. Lookup(j).processed < n
    BY <1>1 DEF RInv, RowAgrees
  <2>3. n <= Cardinality(batch[j]) /\ Cardinality(batch[j]) \in Nat
    <3>1. TasksApart(j) /\ n = Cardinality(Tallied(j))
      BY <1>1 DEF RInv, IInv, JobInv, TallyAgrees, Collecting
    <3> QED BY <3>1, FS_Subset, FS_CardinalityType DEF TasksApart, Tallied
  <2> QED BY <2>1, <2>2, <2>3
<1>3. ASSUME NEW step, NEW x, <<step, x>> \in Steps(j), Due(j, step, x)'
      PROVE  Due(j, step, x)
  <2>1. InPool(j, step, x)'
    BY <1>1, <1>3 DEF Due
  <2>2. step \in {"save", "update"} => x \in Int
    BY <1>3, StepsAre
  <2>3. \A stages : At(j, x, stages)' <=> At(j, x, stages)
    BY <1>1 DEF At
  <2>4. CASE step \in {"save", "update"}
    <3>1. x > n => x >= n
      BY <1>2, <2>2, <2>4
    <3> QED BY <1>1, <2>1, <2>4, <3>1 DEF Due, InPool, Collecting
  <2>5. CASE step \notin {"save", "update"}
    BY <1>1, <2>1, <2>3, <2>5 DEF Due, InPool, Collecting
  <2> QED BY <2>4, <2>5
<1>4. n >= n /\ ~(n > n)
  BY <1>2
<1>5. CASE phase[j] = "save"
  <2>1. Due(j, "save", n) /\ ~Due(j, "save", n)'
    BY <1>1, <1>4, <1>5 DEF Due, InPool, Collecting
  <2>2. <<"save", n>> \in Steps(j)
    BY <1>2, StepsOf
  <2> QED BY <1>1, <1>3, <2>1, <2>2, Fewer
<1>6. CASE phase[j] = "update"
  <2>1. Due(j, "update", n) /\ ~Due(j, "update", n)'
    BY <1>1, <1>4, <1>6 DEF Due, InPool, Collecting
  <2>2. <<"update", n>> \in Steps(j)
    BY <1>2, StepsOf
  <2> QED BY <1>1, <1>3, <2>1, <2>2, Fewer
<1> QED BY <1>1, <1>5, <1>6

\* Every step of a job's goroutines takes one of the steps it had ahead.
LEMMA AheadOwn ==
    ASSUME RInv, NEW j \in Jobs, OwnStep(j)
    PROVE  Ahead(j)' \subseteq Ahead(j) /\ Ahead(j)' # Ahead(j)
BY AheadLoad, AheadMark, AheadReceive, AheadRecord, AheadFinalize, AheadHandOut, AheadClose,
   AheadWorker, AheadExit
DEF RInv, IInv, OwnStep, Runner, Feeder, Worker

\* What leaves a job alone leaves its steps alone.
LEMMA AheadSame ==
    ASSUME NEW j \in Jobs, Same(j)
    PROVE  Ahead(j)' = Ahead(j)
<1>1. Steps(j)' = Steps(j)
  BY DEF Steps, Same
<1>2. \A x, stages : At(j, x, stages)' <=> At(j, x, stages)
  BY DEF At, Same
<1>3. \A step, x : InPool(j, step, x)' <=> InPool(j, step, x)
  <2> SUFFICES ASSUME NEW step, NEW x PROVE InPool(j, step, x)' <=> InPool(j, step, x)
    OBVIOUS
  <2>1. /\ At(j, x, {"resolving"})' <=> At(j, x, {"resolving"})
        /\ At(j, x, {"resolving", "probing"})' <=> At(j, x, {"resolving", "probing"})
        /\ At(j, x, Holding)' <=> At(j, x, Holding)
    BY <1>2 DEF Holding
  <2>2. /\ pending'[j] = pending[j] /\ phase'[j] = phase[j] /\ job'[j] = job[j]
        /\ worker'[j] = worker[j] /\ open'[j] = open[j]
    BY DEF Same
  <2> QED BY <2>1, <2>2, Zenon DEF InPool
<1>4. \A step, x : Due(j, step, x)' <=> Due(j, step, x)
  BY <1>3 DEF Due, Same
<1> QED BY <1>1, <1>4 DEF Ahead

RunsOutStep(j) ==
    phase[j] \in Running =>
        /\ Ahead(j)' \subseteq Ahead(j)
        /\ OwnStep(j) => Ahead(j)' # Ahead(j)

\* Other jobs leave them where they are; a process that dies takes them all.
LEMMA AheadNext == RInv /\ [Next]_vars => \A j \in Jobs : RunsOutStep(j)
<1> SUFFICES ASSUME RInv, [Next]_vars, NEW j \in Jobs, phase[j] \in Running, ~OwnStep(j)
             PROVE  Ahead(j)' \subseteq Ahead(j)
  BY AheadOwn DEF RunsOutStep
<1>1. TypeOK /\ up
  BY DEF RInv, IInv, JobInv
<1>2. CASE UNCHANGED vars
  BY <1>2, AheadSame DEF vars, storeVars, poolVars, Same
<1>3. ASSUME NEW k \in Jobs, StepOf(k) PROVE Ahead(j)' \subseteq Ahead(j)
  <2>1. CASE k = j
    BY <1>3, <2>1 DEF StepOf, EnqueueJob, OwnStep, Running, Collecting
  <2>2. CASE k # j
    BY <1>1, <1>3, <2>2, StepsApart, AheadSame
  <2> QED BY <2>1, <2>2
<1>4. CASE Crash
  <2>1. phase'[j] = "killed"
    BY <1>4 DEF Crash, Die
  <2> QED BY <2>1 DEF Ahead, Due, Collecting
<1>5. CASE Boot
  BY <1>1, <1>5 DEF Boot
<1> QED BY <1>2, <1>3, <1>4, <1>5 DEF Next, StepOf

\* However the goroutines of its pool interleave, and whatever fails, a job that
\* runs has a set of steps ahead of it to which none is ever added and from which
\* every step of one of its goroutines takes at least one: no goroutine of runJob
\* goes round in a circle.
THEOREM RunsOut == Spec => [][\A j \in Jobs : RunsOutStep(j)]_vars
<1>1. RInv /\ [Next]_vars => [\A j \in Jobs : RunsOutStep(j)]_vars
  BY AheadNext
<1> QED BY <1>1, RowInvariant, PTL DEF Spec

\* That set is finite when the pool is: the runner of a job takes no infinite
\* sequence of steps.
THEOREM StepsFinite ==
    IsFiniteSet(Workers) => (Spec => [](\A j \in Jobs : IsFiniteSet(Ahead(j))))
<1>1. ASSUME IsFiniteSet(Workers), IInv PROVE \A j \in Jobs : IsFiniteSet(Ahead(j))
  BY <1>1, StepsAreFinite
<1>2. ASSUME IsFiniteSet(Workers)
      PROVE  Spec => [](\A j \in Jobs : IsFiniteSet(Ahead(j)))
  <2>1. IInv => \A j \in Jobs : IsFiniteSet(Ahead(j))
    BY <1>1, <1>2
  <2> QED BY <2>1, Inductive, PTL
<1> QED BY <1>2

\* What one of its goroutines may do next when the job has not ended.
CanGoOn(j) ==
    \/ phase[j] \in Running \ {"collect"}
    \/ phase[j] = "collect" /\ "results" \notin open[j]
    \/ \E w \in Workers : worker[j][w].pc \in {"resolving", "probing"}
    \/ phase[j] = "collect" /\ \E w \in Workers : worker[j][w].pc = "sending"
    \/ pending[j] # {} /\ \E w \in Workers : worker[j][w].pc = "idle"
    \/ "tasks" \in open[j] /\ pending[j] = {}
    \/ "tasks" \notin open[j] /\ \E w \in Workers : worker[j][w].pc = "idle"
    \/ "results" \in open[j] /\ \A w \in Workers : worker[j][w].pc = "exited"

\* The goroutines of a job that runs never wait for one another all at once: the
\* runner goes on, or a worker does, or what they wait for on the two unbuffered
\* channels has a sender, a receiver or a closer ready for it.
THEOREM NeverStuck == Spec => [](\A j \in Jobs : phase[j] \in Running => CanGoOn(j))
<1>1. ASSUME IInv, NEW j \in Jobs, phase[j] \in Running PROVE CanGoOn(j)
  <2>1. /\ ShutdownOrder(j)
        /\ \A w \in Workers : worker[j][w].pc \in {"idle", "exited"} \cup Holding
    BY <1>1 DEF IInv, JobInv, TypeOK, WorkerState
  <2>2. SUFFICES ASSUME phase[j] = "collect", "results" \in open[j],
                        \A w \in Workers : worker[j][w].pc \notin Holding
                 PROVE  CanGoOn(j)
    BY <1>1 DEF CanGoOn, Holding
  <2>3. CASE "tasks" \in open[j]
    <3>1. PICK w \in Workers : worker[j][w].pc = "idle"
      BY <2>1, <2>2, <2>3, OrchestratorAssumption DEF ShutdownOrder
    <3> QED BY <2>3, <3>1 DEF CanGoOn
  <2>4. CASE "tasks" \notin open[j]
    BY <2>1, <2>2, <2>4 DEF CanGoOn
  <2> QED BY <2>3, <2>4
<1>2. IInv => \A j \in Jobs : phase[j] \in Running => CanGoOn(j)
  BY <1>1
<1> QED BY <1>2, Inductive, PTL
=============================================================================
