------------------------------- MODULE ApiProofs -------------------------------
(***************************************************************************)
(* Machine-checked proofs about ProbeApi: what a polling client is told,   *)
(* for every number of clients, jobs, domains and workers.                 *)
(***************************************************************************)
EXTENDS ProbeApi, OrchestratorProofs

-----------------------------------------------------------------------------
(* What a poll depends on in the rows of the two stores.                   *)

\* A later content of a row, final if the row was completed.
Later(r1, r2) == Behind(r1, r2) /\ (r1.status = "completed" => r2 = r1)

\* The counters of a row never fall behind its progress nor exceed the total.
RowSane(r) == r.processed <= r.total /\ CountTotal(r.counts) \in r.processed .. r.total

\* A job has a row in one store at the most.  The memory store has rows only
\* while the process that uses it runs, and the counters of a row in which some
\* progress was written are the runner's own.
RowsApart(j) ==
    /\ rows["memory"][j] # NoRow => rows["postgres"][j] = NoRow
    /\ ~up \/ backend = "postgres" => rows["memory"][j] = NoRow
    /\ rows["memory"][j].processed > 0 => rows["memory"][j].counts = job[j].counts

\* The counters run ahead of the saved traces by one at the most.
RowNear(b, j) == CountTotal(rows[b][j].counts) <= Cardinality(traces[b][j]) + 1

AnswerableJob(j) ==
    /\ RowsApart(j)
    /\ \A b \in Backends : RowSane(rows[b][j])
    /\ \A b \in Backends : Reliable(b) => RowNear(b, j)

\* What a client was told of a job is behind the row of the job, if that is
\* still there; a shared map is still the one of that row.
PollBehind(c) ==
    \A j \in poll[c].id :
        /\ poll[c].id = {j}
        /\ phase[j] # "none"
        /\ \A b \in Backends : rows[b][j] # NoRow => Later(poll[c].row, rows[b][j])
        /\ poll[c].shared => poll[c].row.processed > 0 /\ rows["memory"][j] # NoRow

\* What a client was told at the end of a poll is consistent in itself.
PollWhole(c) ==
    Done(c) => /\ poll[c].row.processed <= Cardinality(poll[c].results)
               /\ CountTotal(poll[c].row.counts) <= Cardinality(poll[c].results) + 1
               /\ poll[c].row.status = "completed" =>
                     /\ Cardinality(poll[c].results) = poll[c].row.total
                     /\ \A s \in ClassificationStatus :
                           poll[c].row.counts[s]
                              = Cardinality({r \in poll[c].results : r.status = s})

PollInv(c) ==
    /\ RowSane(poll[c].row)
    /\ PollBehind(c)
    /\ poll[c].pc # "idle" => up
    /\ poll[c].shared => poll[c].pc # "idle" /\ poll[c].id # {}
    /\ ~StoreErrors => PollWhole(c)

AInv ==
    /\ TInv
    /\ poll \in [Clients -> PollState]
    /\ \A j \in Jobs : AnswerableJob(j)
    /\ \A c \in Clients : PollInv(c)

-----------------------------------------------------------------------------
(* The steps of the process, seen by the handlers.                         *)

\* FatalRace kills the process even where Crash may not.
PoolStep == [Next]_vars \/ Die

LEMMA TracesPool == TInv /\ PoolStep => TInv'
<1>1. ASSUME TInv, Die PROVE TInv'
  <2>1. TypeOK'
    BY <1>1, TypeDie DEF TInv, RInv, IInv
  <2>2. IInv'
    BY <1>1, <2>1, InvDie DEF TInv, RInv, IInv
  <2>3. RInv'
    BY <1>1, <2>2, RowDie DEF TInv, RInv
  <2> QED BY <1>1, <2>3, TracesDie DEF TInv
<1> QED BY <1>1, TracesNext DEF PoolStep

LEMMA PoolStoreSteps ==
    ASSUME TInv, PoolStep, NEW b \in Backends
    PROVE  StoreStep(b)
<1>1. RInv /\ RInv'
  BY TracesPool DEF TInv
<1>2. CASE Die
  BY <1>1, <1>2 DEF Die, LoseMemory, RInv, IInv, TypeOK, StoreTypeOK, Backends, StoreStep
<1> QED BY <1>1, <1>2, StoreSteps DEF PoolStep

LEMMA RowType == TypeOK => \A b \in Backends, j \in Jobs : rows[b][j] \in Row
  BY DEF TypeOK, StoreTypeOK

LEMMA RowTypeNext == TypeOK' => (\A b \in Backends, j \in Jobs : rows[b][j] \in Row)'
  BY RowType, PTL

LEMMA LaterSelf == ASSUME NEW r \in Row PROVE Later(r, r)
  BY BehindSelf DEF Later

LEMMA LaterChain ==
    ASSUME NEW r1 \in Row, NEW r2 \in Row, NEW r3 \in Row, Later(r1, r2), Later(r2, r3)
    PROVE  Later(r1, r3)
<1>1. r1.total = r3.total
  BY DEF Later, Behind
<1>2. r1.processed <= r3.processed
  BY DEF Later, Behind, Row
<1>3. ASSUME NEW s \in ClassificationStatus PROVE r1.counts[s] <= r3.counts[s]
  <2>1. r1.counts[s] \in Nat /\ r2.counts[s] \in Nat /\ r3.counts[s] \in Nat
    BY DEF Row, CountMap
  <2>2. r1.counts[s] <= r2.counts[s] /\ r2.counts[s] <= r3.counts[s]
    BY DEF Later, Behind
  <2> QED BY <2>1, <2>2
<1>4. r1.lastErr => r3.lastErr
  BY Zenon DEF Later, Behind
<1>5. r1.status = "completed" => r3 = r1
  BY DEF Later
<1> QED BY <1>1, <1>2, <1>3, <1>4, <1>5, Zenon DEF Later, Behind

\* The sum of the counters is monotone in each of them.
LEMMA CountTotalGrows ==
    ASSUME NEW c1 \in CountMap, NEW c2 \in CountMap,
           \A s \in ClassificationStatus : c1[s] <= c2[s]
    PROVE  CountTotal(c1) \in Nat /\ CountTotal(c2) \in Nat /\ CountTotal(c1) <= CountTotal(c2)
  BY DEF CountMap, ClassificationStatus, CountTotal

\* The row of a job that exists already is left alone, lost with the process,
\* or replaced by a later one.
LEMMA RowMoves ==
    ASSUME TInv, PoolStep, NEW b \in Backends, NEW j \in Jobs, phase[j] # "none"
    PROVE  \/ rows'[b][j] = rows[b][j]
           \/ b = "memory" /\ ~up' /\ rows'[b][j] = NoRow
           \/ rows[b][j] # NoRow /\ rows'[b][j] # NoRow /\ Later(rows[b][j], rows'[b][j])
<1>1. StoreStep(b) /\ rows[b] \in [Jobs -> Row]
  BY PoolStoreSteps DEF TInv, RInv, IInv, TypeOK, StoreTypeOK
<1>2. ASSUME NEW k \in Jobs, rows'[b] = [rows[b] EXCEPT ![k] = rows'[b][k]],
             Advances(b, rows[b][k], rows'[b][k]) \/ Ends(rows[b][k], rows'[b][k])
      PROVE  \/ rows'[b][j] = rows[b][j]
             \/ rows[b][j] # NoRow /\ rows'[b][j] # NoRow /\ Later(rows[b][j], rows'[b][j])
  <2>1. CASE k = j
    <3>1. /\ rows[b][j].status \in {"queued", "running"}
          /\ rows'[b][j].status \in {"running", "completed"}
          /\ Behind(rows[b][j], rows'[b][j])
      BY <1>2, <2>1 DEF Advances, Ends
    <3>2. NoRow.status = "absent"
      BY DEF NoRow
    <3> QED BY <3>1, <3>2 DEF Later
  <2>2. CASE k # j
    BY <1>1, <1>2, <2>2
  <2> QED BY <2>1, <2>2
<1>3. ASSUME NEW k \in Jobs, phase[k] = "none",
             rows'[b] = [rows[b] EXCEPT ![k] = rows'[b][k]]
      PROVE  rows'[b][j] = rows[b][j]
  BY <1>1, <1>3
<1> QED BY <1>1, <1>2, <1>3 DEF StoreStep

LEMMA SaneNoRow == RowSane(NoRow)
  BY EmptyCounts DEF RowSane, NoRow

LEMMA SaneStep ==
    ASSUME TInv, PoolStep, NEW b \in Backends, NEW j \in Jobs, RowSane(rows[b][j])
    PROVE  RowSane(rows'[b][j])
<1>1. StoreStep(b) /\ rows[b] \in [Jobs -> Row] /\ rows'[b][j] \in Row
  BY PoolStoreSteps, TracesPool, RowTypeNext DEF TInv, RInv, IInv, TypeOK, StoreTypeOK
<1>2. ASSUME NEW n \in Nat PROVE RowSane(Created(n))
  <2>1. /\ Created(n).processed = 0 /\ Created(n).total = n
        /\ CountTotal(Created(n).counts) = 0
    BY EmptyCounts DEF Created, NoRow
  <2> QED BY <2>1 DEF RowSane
<1>3. ASSUME Advances(b, rows[b][j], rows'[b][j]) PROVE RowSane(rows'[b][j])
  <2>1. rows'[b][j].processed \in Nat /\ rows'[b][j].total \in Nat
    BY <1>1 DEF Row
  <2> QED BY <1>3, <2>1 DEF Advances, RowSane
<1>4. ASSUME Ends(rows[b][j], rows'[b][j]) PROVE RowSane(rows'[b][j])
  <2>1. rows'[b][j].processed \in Nat /\ rows'[b][j].total \in Nat
    BY <1>1 DEF Row
  <2> QED BY <1>4, <2>1 DEF Ends, RowSane
<1>5. CASE rows'[b] = [k \in Jobs |-> NoRow]
  BY <1>5, SaneNoRow
<1>6. ASSUME NEW k \in Jobs, k # j, rows'[b] = [rows[b] EXCEPT ![k] = rows'[b][k]]
      PROVE  RowSane(rows'[b][j])
  BY <1>1, <1>6
<1> QED BY <1>1, <1>2, <1>3, <1>4, <1>5, <1>6 DEF StoreStep, Begins

\* What a step of one job does to the process and to the two stores: it writes
\* only the store in use, and only while the process runs.
LEMMA StepWritesInUse ==
    ASSUME TInv, NEW j \in Jobs, StepOf(j)
    PROVE  /\ up' = up /\ backend' = backend
           /\ \A b \in Backends : b # backend => rows'[b] = rows[b] /\ traces'[b] = traces[b]
           /\ ~up => rows' = rows
           /\ phase[j] # "none" => phase'[j] # "none"
<1> USE DEF TInv, RInv, IInv
<1>1. phase[j] \in Running => up
  BY DEF JobInv
<1>2. ASSUME NEW row, UpdateJob(j, row)
      PROVE  /\ UNCHANGED <<backend, traces>>
             /\ \A b \in Backends : b # backend => rows'[b] = rows[b]
  BY <1>2 DEF UpdateJob, TypeOK, StoreTypeOK
<1>3. ASSUME NEW D \in Submissions, EnqueueJob(j, D)
      PROVE  /\ up /\ phase[j] = "none" /\ UNCHANGED <<up, backend, traces>>
             /\ \A b \in Backends : b # backend => rows'[b] = rows[b]
  BY <1>3 DEF EnqueueJob, CreateJob, TypeOK, StoreTypeOK
<1>4. CASE \E D \in Submissions : EnqueueJob(j, D)
  BY <1>3, <1>4
<1>5. CASE MarkRunning(j) \/ WriteProgress(j) \/ Finalize(j)
  <2>1. \E row : UpdateJob(j, row)
    BY <1>5 DEF MarkRunning, WriteProgress, Finalize, FinalWrite
  <2>2. up /\ up' = up /\ phase'[j] \in {"collect", "returned"}
    BY <1>1, <1>5
    DEF MarkRunning, WriteProgress, Finalize, FinalWrite, Running, Collecting, TypeOK
  <2> QED BY <1>2, <2>1, <2>2
<1>6. ASSUME NEW w \in Workers, Receive(j, w)
      PROVE  /\ up /\ phase'[j] = "save" /\ UNCHANGED <<up, backend, traces>>
             /\ \A b \in Backends : b # backend => rows'[b] = rows[b]
  BY <1>1, <1>6
  DEF Receive, SharesCounts, Running, Collecting, TypeOK, StoreTypeOK, Backends
<1>7. CASE SaveResult(j)
  <2>1. \A b \in Backends : b # backend => traces'[b] = traces[b]
    BY <1>7 DEF SaveResult, SaveTrace, TypeOK, StoreTypeOK
  <2> QED BY <1>7, <2>1 DEF SaveResult, SaveTrace, TypeOK
<1>8. CASE LoadJob(j)
  BY <1>8 DEF LoadJob, storeVars, TypeOK
<1>9. CASE Feeder(j) \/ CloseResults(j) \/ \E w \in Workers : Worker(j, w)
  BY <1>9 DEF Feeder, HandOut, CloseTasks, CloseResults, Worker, Resolve, Probe, WorkerExit,
              storeVars
<1> QED BY <1>4, <1>5, <1>6, <1>7, <1>8, <1>9 DEF StepOf, Runner

LEMMA PoolCases ==
    PoolStep => \/ \E j \in Jobs : StepOf(j)
                \/ Die \/ Boot \/ UNCHANGED vars
  BY DEF PoolStep, Next, StepOf, Crash

LEMMA PhaseKept ==
    ASSUME TInv, PoolStep, NEW j \in Jobs, phase[j] # "none"
    PROVE  phase'[j] # "none"
<1>1. ASSUME NEW k \in Jobs, StepOf(k) PROVE phase'[j] # "none"
  BY <1>1, StepWritesInUse, StepsApart DEF Same, TInv, RInv, IInv
<1>2. CASE Die
  BY <1>2 DEF Die, TInv, RInv, IInv, TypeOK
<1> QED BY <1>1, <1>2, PoolCases DEF Boot, vars, poolVars

\* The runner keeps the counters of a memory row its own.
LEMMA SharedStep ==
    ASSUME TInv, NEW j \in Jobs, StepOf(j), RowsApart(j),
           rows'["memory"][j].processed > 0
    PROVE  rows'["memory"][j].counts = job'[j].counts
<1> USE DEF TInv, RInv, IInv
<1>1. NoRow.processed = 0
  BY DEF NoRow
<1>2. ASSUME rows'["memory"][j] = rows["memory"][j]
      PROVE  rows["memory"][j].counts = job[j].counts /\ backend = "memory"
  BY <1>1, <1>2 DEF RowsApart, TypeOK, StoreTypeOK, Backends
<1>3. ASSUME NEW row, UpdateJob(j, row), row.counts = job'[j].counts,
             job'[j].counts = job[j].counts
      PROVE  rows'["memory"][j].counts = job'[j].counts
  BY <1>2, <1>3, UpdatedRow DEF Backends
<1>4. ASSUME NEW D \in Submissions, EnqueueJob(j, D)
      PROVE  rows'["memory"][j].counts = job'[j].counts
  <2>1. rows'["memory"][j] = rows["memory"][j] \/ rows'["memory"][j] = Created(Cardinality(D))
    BY <1>4 DEF EnqueueJob, CreateJob, Created, TypeOK, StoreTypeOK, Backends
  <2>2. Created(Cardinality(D)).processed = 0
    BY DEF Created, NoRow
  <2> QED BY <1>2, <1>4, <2>1, <2>2 DEF EnqueueJob
<1>5. CASE LoadJob(j)
  <2>1. rows' = rows /\ (job' = job \/ job'[j] = Lookup(j))
    BY <1>5 DEF LoadJob, storeVars, TypeOK
  <2> QED BY <1>2, <2>1 DEF Lookup
<1>6. CASE MarkRunning(j)
  <2>1. UpdateJob(j, job'[j]) /\ job'[j] = [job[j] EXCEPT !.status = "running"]
    BY <1>6 DEF MarkRunning, TypeOK
  <2>2. job'[j].counts = job[j].counts
    BY <2>1 DEF TypeOK, Row
  <2> QED BY <1>3, <2>1, <2>2
<1>7. ASSUME NEW w \in Workers, Receive(j, w)
      PROVE  rows'["memory"][j].counts = job'[j].counts
  <2>1. CASE SharesCounts(j)
    BY <1>7, <2>1 DEF Receive, TypeOK, StoreTypeOK, Backends, Row
  <2>2. CASE ~SharesCounts(j)
    <3>1. rows'["memory"][j] = rows["memory"][j] /\ phase[j] = "collect"
      BY <1>7, <2>2 DEF Receive
    <3>2. backend = "memory" /\ rows["memory"][j].processed > 0
      BY <1>2, <3>1
    <3>3. Behind(rows["memory"][j], job[j]) /\ job[j] \in Row /\ rows["memory"][j] \in Row
      BY <3>1, <3>2 DEF RowAgrees, Collecting, Lookup, TypeOK, StoreTypeOK, Backends
    <3>4. job[j].processed > 0
      BY <3>2, <3>3 DEF Behind, Row
    <3> QED BY <2>2, <3>2, <3>4 DEF SharesCounts
  <2> QED BY <2>1, <2>2
<1>8. CASE WriteProgress(j)
  BY <1>3, <1>8 DEF WriteProgress
<1>9. CASE Finalize(j)
  <2>1. /\ UpdateJob(j, [job[j] EXCEPT !.status = "completed"])
        /\ job'[j] = [job[j] EXCEPT !.status = "completed"]
    BY <1>9 DEF Finalize, FinalWrite, TypeOK
  <2>2. job'[j].counts = job[j].counts
    BY <2>1 DEF TypeOK, Row
  <2> QED BY <1>3, <2>1, <2>2
<1>10. CASE \/ SaveResult(j) \/ Feeder(j) \/ CloseResults(j)
            \/ \E w \in Workers : Worker(j, w)
  BY <1>2, <1>10
  DEF SaveResult, SaveTrace, Feeder, HandOut, CloseTasks, CloseResults, Worker, Resolve, Probe,
      WorkerExit, storeVars
<1> QED BY <1>4, <1>5, <1>6, <1>7, <1>8, <1>9, <1>10 DEF StepOf, Runner

LEMMA ApartStep ==
    ASSUME TInv, PoolStep, NEW j \in Jobs, RowsApart(j)
    PROVE  RowsApart(j)'
<1>1. TypeOK /\ RowAgrees(j)
  BY DEF TInv, RInv, IInv
<1>2. ASSUME NEW k \in Jobs, StepOf(k) PROVE RowsApart(j)'
  <2>1. CASE k # j
    BY <1>1, <1>2, <2>1, StepsApart DEF Same, RowsApart, Backends
  <2>2. CASE k = j
    <3>1. /\ up' = up /\ backend' = backend
          /\ ~up => rows' = rows
          /\ backend = "postgres" => rows'["memory"] = rows["memory"]
          /\ backend = "memory" => rows'["postgres"] = rows["postgres"]
      BY <1>2, <2>2, StepWritesInUse DEF Backends
    <3>2. rows'["memory"][j] # NoRow => rows'["postgres"][j] = NoRow
      <4>1. CASE phase[j] = "none"
        BY <1>1, <3>1, <4>1 DEF RowAgrees, TypeOK, StoreTypeOK, Backends
      <4>2. CASE phase[j] # "none"
        <5>1. ASSUME NEW b \in Backends, rows'[b][j] # NoRow PROVE rows[b][j] # NoRow
          BY <4>2, <5>1, RowMoves
        <5> QED BY <5>1 DEF RowsApart, Backends
      <4> QED BY <4>1, <4>2
    <3>3. ~up' \/ backend' = "postgres" => rows'["memory"][j] = NoRow
      <4>1. up \in BOOLEAN
        BY <1>1 DEF TypeOK
      <4> QED BY <3>1, <4>1 DEF RowsApart
    <3> QED BY <1>2, <2>2, <3>2, <3>3, SharedStep DEF RowsApart
  <2> QED BY <2>1, <2>2
<1>3. CASE Die
  <2>1. rows'["memory"][j] = NoRow
    BY <1>1, <1>3 DEF Die, LoseMemory, TypeOK, StoreTypeOK, Backends
  <2> QED BY <2>1 DEF RowsApart, NoRow
<1>4. CASE Boot
  BY <1>4 DEF Boot, RowsApart, NoRow
<1>5. CASE UNCHANGED vars
  BY <1>5 DEF vars, storeVars, poolVars, RowsApart
<1> QED BY <1>2, <1>3, <1>4, <1>5, PoolCases

\* In the store in use the counters are behind the tally, and the tally is
\* ahead of the saved traces by the result being recorded.
LEMMA NearInUse ==
    TInv => \A j \in Jobs : phase[j] \in Collecting /\ ~MayFail =>
                /\ RowNear(backend, j)
                /\ CountTotal(job[j].counts) <= Cardinality(traces[backend][j]) + 1
<1> SUFFICES ASSUME TInv, NEW j \in Jobs, phase[j] \in Collecting, ~MayFail
             PROVE  /\ RowNear(backend, j)
                    /\ CountTotal(job[j].counts) <= Cardinality(traces[backend][j]) + 1
  OBVIOUS
<1> USE DEF TInv, RInv, IInv
<1>1. /\ Behind(rows[backend][j], job[j]) /\ job[j] \in Row /\ rows[backend][j] \in Row
      /\ CountTotal(job[j].counts) = job[j].processed
  BY TallyBounded DEF RowAgrees, Lookup, Bounded
<1>2. CountTotal(rows[backend][j].counts) <= CountTotal(job[j].counts)
      /\ CountTotal(rows[backend][j].counts) \in Nat
  BY <1>1, CountTotalGrows DEF Behind, Row
<1>3. /\ IsFiniteSet(traces[backend][j]) /\ job[j].processed = Cardinality(Counted(j))
  BY ReliableInUse DEF TracesAgree, RowBacked, TallyFromTraces, TypeOK, StoreTypeOK
<1>4. Cardinality(Counted(j)) <= Cardinality(traces[backend][j]) + 1
  <2>1. \/ Counted(j) = traces[backend][j]
        \/ Counted(j) = traces[backend][j] \cup {current[j]}
    BY DEF Counted, GetJobTraces
  <2>2. Cardinality(traces[backend][j]) \in Nat
    BY <1>3, FS_CardinalityType
  <2> QED BY <1>3, <2>1, <2>2, FS_AddElement
<1>5. Cardinality(traces[backend][j]) \in Nat /\ job[j].processed \in Nat
  BY <1>1, <1>3, FS_CardinalityType DEF Row
<1> QED BY <1>1, <1>2, <1>3, <1>4, <1>5 DEF RowNear

LEMMA NearInUseNext ==
    TInv' => (\A j \in Jobs : phase[j] \in Collecting /\ ~MayFail =>
                /\ RowNear(backend, j)
                /\ CountTotal(job[j].counts) <= Cardinality(traces[backend][j]) + 1)'
  BY NearInUse, PTL

LEMMA NearStep ==
    ASSUME TInv, PoolStep, NEW b \in Backends, Reliable(b), NEW j \in Jobs, RowNear(b, j)
    PROVE  RowNear(b, j)'
<1>1. TypeOK /\ TInv'
  BY TracesPool DEF TInv, RInv, IInv
<1>2. Cardinality(traces'[b][j]) \in Nat
  BY <1>1, FS_CardinalityType DEF TInv, TracesAgree, RowBacked, Reliable
<1>3. ASSUME CountTotal(rows'[b][j].counts) = 0 PROVE RowNear(b, j)'
  BY <1>2, <1>3 DEF RowNear
<1>4. ASSUME rows'[b][j] = rows[b][j], traces'[b][j] = traces[b][j] PROVE RowNear(b, j)'
  BY <1>4 DEF RowNear
<1>5. ASSUME NEW k \in Jobs, StepOf(k) PROVE RowNear(b, j)'
  <2>1. CASE k # j
    BY <1>1, <1>4, <1>5, <2>1, StepsApart, TracesApart DEF Same, SameTraces
  <2>2. CASE b # backend
    BY <1>4, <1>5, <2>2, StepWritesInUse
  <2>3. CASE k = j /\ b = backend
    <3>1. backend' = backend /\ (MayFail' = MayFail) /\ ~MayFail
      BY <1>1, <1>5, <2>3, StepWritesInUse, ReliableInUse DEF MayFail
    <3>2. CASE phase'[j] \in Collecting
      BY <1>1, <2>3, <3>1, <3>2, NearInUseNext
    <3>3. ASSUME NEW D \in Submissions, EnqueueJob(j, D) PROVE RowNear(b, j)'
      <4>1. rows'[b][j] = Created(Cardinality(D))
        BY <1>1, <2>3, <3>3 DEF EnqueueJob, CreateJob, Created, TypeOK, StoreTypeOK
      <4>2. Created(Cardinality(D)).counts = emptyCounts
        BY DEF Created, NoRow
      <4> QED BY <1>3, <4>1, <4>2, EmptyCounts
    <3>4. CASE Finalize(j)
      <4> DEFINE row == [job[j] EXCEPT !.status = "completed"]
      <4>1. phase[j] \in Collecting /\ UpdateJob(j, row) /\ traces' = traces
        BY <3>4 DEF Finalize, FinalWrite, UpdateJob, Collecting
      <4>2. row.counts = job[j].counts
        BY <1>1 DEF TypeOK, Row
      <4>3. rows'[b][j] = rows[b][j] \/ rows'[b][j] = row
        BY <1>1, <4>1, UpdatedRow
      <4>4. CountTotal(job[j].counts) <= Cardinality(traces[b][j]) + 1
        BY <2>3, <3>1, <4>1, NearInUse
      <4> HIDE DEF row
      <4> QED BY <1>4, <4>1, <4>2, <4>3, <4>4 DEF RowNear
    <3>5. CASE \/ LoadJob(j) \/ Feeder(j) \/ CloseResults(j)
               \/ \E w \in Workers : Worker(j, w)
      BY <1>4, <3>5 DEF LoadJob, Feeder, HandOut, CloseTasks, CloseResults, Worker, Resolve,
                        Probe, WorkerExit, storeVars
    <3>6. ASSUME \/ MarkRunning(j) \/ SaveResult(j) \/ WriteProgress(j)
                 \/ \E w \in Workers : Receive(j, w)
          PROVE  phase'[j] \in Collecting
      BY <1>1, <3>6 DEF MarkRunning, SaveResult, WriteProgress, Receive, TypeOK, Collecting
    <3> QED BY <1>5, <2>3, <3>2, <3>3, <3>4, <3>5, <3>6 DEF StepOf, Runner
  <2> QED BY <2>1, <2>2, <2>3
<1>6. CASE Die
  <2>1. \/ rows'[b][j] = NoRow
        \/ rows'[b][j] = rows[b][j] /\ traces'[b][j] = traces[b][j]
    BY <1>1, <1>6 DEF Die, LoseMemory, TypeOK, StoreTypeOK, Backends
  <2> QED BY <1>3, <1>4, <2>1, EmptyCounts DEF NoRow
<1>7. CASE Boot \/ UNCHANGED vars
  BY <1>4, <1>7 DEF Boot, vars, storeVars
<1> QED BY <1>5, <1>6, <1>7, PoolCases

LEMMA AnswerableStep ==
    ASSUME TInv, PoolStep, NEW j \in Jobs, AnswerableJob(j)
    PROVE  AnswerableJob(j)'
  BY ApartStep, SaneStep, NearStep DEF AnswerableJob, Reliable

-----------------------------------------------------------------------------
(* The polls.                                                              *)

\* A poll that a step of the process leaves alone, and that it does not kill.
LEMMA PollStands ==
    ASSUME AInv, PoolStep, NEW c \in Clients, poll'[c] = poll[c], poll[c].pc # "idle" => up'
    PROVE  PollInv(c)'
<1> USE DEF AInv
<1>1. PollInv(c) /\ poll[c].row \in Row /\ poll[c].id \subseteq Jobs /\ TInv'
  BY TracesPool DEF PollState
<1>2. ASSUME NEW b \in Backends, NEW j \in Jobs PROVE rows[b][j] \in Row /\ rows'[b][j] \in Row
  BY <1>1, RowType, RowTypeNext DEF TInv, RInv, IInv
<1>3. PollBehind(c)'
  <2> SUFFICES ASSUME NEW j \in poll[c].id
               PROVE  /\ poll[c].id = {j}
                      /\ phase'[j] # "none"
                      /\ \A b \in Backends : rows'[b][j] # NoRow => Later(poll[c].row, rows'[b][j])
                      /\ poll[c].shared => poll[c].row.processed > 0 /\ rows'["memory"][j] # NoRow
    BY DEF PollBehind
  <2>1. /\ poll[c].id = {j} /\ j \in Jobs /\ phase[j] # "none"
        /\ poll[c].shared => poll[c].row.processed > 0 /\ rows["memory"][j] # NoRow
        /\ poll[c].shared => up'
    BY <1>1 DEF PollInv, PollBehind
  <2>2. phase'[j] # "none"
    BY <2>1, PhaseKept
  <2>3. ASSUME NEW b \in Backends, rows'[b][j] # NoRow PROVE Later(poll[c].row, rows'[b][j])
    <3>1. rows'[b][j] = rows[b][j] \/ Later(rows[b][j], rows'[b][j])
      BY <2>1, <2>3, RowMoves
    <3>2. rows[b][j] # NoRow
      BY <2>1, <2>3, RowMoves
    <3>3. Later(poll[c].row, rows[b][j])
      BY <1>1, <3>2 DEF PollInv, PollBehind
    <3> QED BY <1>1, <1>2, <2>1, <3>1, <3>3, LaterChain
  <2>4. poll[c].shared => rows'["memory"][j] # NoRow
    BY <2>1, RowMoves DEF Backends
  <2> QED BY <2>1, <2>2, <2>3, <2>4
<1> QED BY <1>1, <1>3 DEF PollInv, PollWhole, Done

LEMMA PollForgotten ==
    ASSUME NEW c \in Clients, poll'[c] = NoPoll
    PROVE  PollInv(c)'
  BY SaneNoRow DEF NoPoll, PollInv, PollBehind, PollWhole, Done

\* A job has a row in one store only: the one that was looked up in.
LEMMA OneRow ==
    ASSUME TypeOK, NEW j \in Jobs, RowsApart(j), Lookup(j) # NoRow,
           NEW b \in Backends, rows[b][j] # NoRow
    PROVE  b = backend
  BY DEF TypeOK, StoreTypeOK, Backends, RowsApart, Lookup

LEMMA PollLookUp ==
    ASSUME AInv, NEW c \in Clients, NEW j \in Jobs, LookUpProbe(c, j)
    PROVE  PollInv(c)'
<1> USE DEF AInv
<1>1. /\ up /\ Lookup(j) # NoRow /\ TypeOK /\ RowAgrees(j) /\ backend \in Backends
      /\ UNCHANGED vars
      /\ poll'[c] = [pc |-> "encoding", id |-> {j}, row |-> Lookup(j),
                     shared |-> backend = "memory" /\ Lookup(j).processed > 0,
                     results |-> {}]
  BY DEF LookUpProbe, TInv, RInv, IInv, TypeOK, StoreTypeOK
<1>2. Lookup(j) \in Row /\ RowSane(Lookup(j))
  BY <1>1, RowType DEF AnswerableJob, Lookup
<1>3. /\ poll'[c].pc = "encoding" /\ poll'[c].id = {j} /\ poll'[c].row = Lookup(j)
      /\ poll'[c].shared => backend = "memory" /\ Lookup(j).processed > 0
  <2> DEFINE shared == backend = "memory" /\ Lookup(j).processed > 0
  <2>1. poll'[c] = [pc |-> "encoding", id |-> {j}, row |-> Lookup(j),
                    shared |-> shared, results |-> {}]
    BY <1>1
  <2> HIDE DEF shared
  <2>2. /\ poll'[c].pc = "encoding" /\ poll'[c].id = {j} /\ poll'[c].row = Lookup(j)
        /\ poll'[c].shared = shared
    BY <2>1
  <2> QED BY <2>2 DEF shared
<1>4. up' = up /\ phase' = phase /\ rows' = rows
  BY <1>1 DEF vars, storeVars, poolVars
<1>5. phase[j] # "none"
  BY <1>1 DEF RowAgrees, Lookup
<1>6. \A b \in Backends : rows[b][j] # NoRow => Later(Lookup(j), rows[b][j])
  BY <1>1, <1>2, OneRow, LaterSelf DEF Lookup, AnswerableJob
<1>7. poll'[c].shared => rows["memory"][j] # NoRow
  BY <1>1, <1>3 DEF Lookup
<1>8. PollBehind(c)'
  BY <1>3, <1>4, <1>5, <1>6, <1>7 DEF PollBehind
<1> QED BY <1>1, <1>2, <1>3, <1>4, <1>8 DEF PollInv, PollWhole, Done

\* Encoding the copy reads counters between the copied ones and those of the
\* row, hence leaves the answer between the two; a completed row has no others.
LEMMA Encoded ==
    ASSUME AInv, NEW c \in Clients, EncodeProbe(c)
    PROVE  /\ poll'[c].pc = "answered" /\ poll'[c].id = poll[c].id
           /\ poll'[c].shared = poll[c].shared
           /\ poll'[c].row \in Row /\ RowSane(poll'[c].row)
           /\ Later(poll[c].row, poll'[c].row)
           /\ poll'[c].row.processed = poll[c].row.processed
           /\ \A j \in poll[c].id : \A b \in Backends :
                 rows[b][j] # NoRow => Later(poll'[c].row, rows[b][j])
<1> USE DEF AInv
<1> DEFINE r == poll[c].row
<1>1. poll[c] \in PollState /\ PollInv(c) /\ r \in Row
  BY DEF PollState
<1>2. PICK counts \in Readable(c) :
         poll'[c] = [poll[c] EXCEPT !.pc = "answered", !.row.counts = counts]
  BY DEF EncodeProbe
<1> DEFINE r2 == [r EXCEPT !.counts = counts]
<1>3. /\ poll'[c].pc = "answered" /\ poll'[c].id = poll[c].id
      /\ poll'[c].shared = poll[c].shared /\ poll'[c].row = r2
  BY <1>1, <1>2 DEF PollState
<1>4. CASE ~poll[c].shared
  <2>1. counts = r.counts
    BY <1>2, <1>4 DEF Readable
  <2>2. r2 = r
    BY <1>1, <2>1 DEF Row
  <2> QED BY <1>1, <1>3, <2>2, LaterSelf DEF PollInv, PollBehind
<1>5. CASE poll[c].shared
  <2>1. PICK j : poll[c].id = {j}
    BY <1>1, <1>5 DEF PollInv, PollBehind
  <2>2. j \in Jobs /\ TypeOK
    BY <1>1, <2>1 DEF PollState, TInv, RInv, IInv
  <2> DEFINE m == rows["memory"][j]
  <2>3. r.processed > 0 /\ m # NoRow /\ Later(r, m) /\ m \in Row
    BY <1>1, <1>5, <2>1, <2>2, RowType DEF PollInv, PollBehind, Backends
  <2>4. m.counts = job[j].counts
    <3>1. m.processed > 0
      BY <1>1, <2>3 DEF Later, Behind, Row
    <3> QED BY <2>2, <3>1 DEF AnswerableJob, RowsApart
  <2>5. (CHOOSE k \in Jobs : k \in poll[c].id) = j
    BY <2>1, <2>2
  <2>6. /\ counts \in [ClassificationStatus -> 0 .. r.total]
        /\ \A s \in ClassificationStatus : r.counts[s] <= counts[s] /\ counts[s] <= m.counts[s]
    BY <1>2, <1>5, <2>4, <2>5 DEF Readable
  <2>7. counts \in CountMap /\ r.counts \in CountMap /\ m.counts \in CountMap
    <3>1. r.total \in Nat
      BY <1>1 DEF Row
    <3> QED BY <1>1, <2>3, <2>6, <3>1 DEF CountMap, Row
  <2> HIDE DEF m
  <2>8. /\ r2.counts = counts /\ r2.total = r.total /\ r2.processed = r.processed
        /\ r2.lastErr = r.lastErr /\ r2.status = r.status /\ r2 \in Row
    BY <1>1, <2>7 DEF Row
  <2>9. r.status = "completed" => r2 = r /\ m = r
    <3> SUFFICES ASSUME r.status = "completed" PROVE r2 = r /\ m = r
      OBVIOUS
    <3>1. m = r
      BY <2>3 DEF Later
    <3>2. \A s \in ClassificationStatus : counts[s] = r.counts[s]
      <4>1. ASSUME NEW s \in ClassificationStatus PROVE counts[s] = r.counts[s]
        <5>1. counts[s] \in Nat /\ r.counts[s] \in Nat
          BY <2>7 DEF CountMap
        <5>2. r.counts[s] <= counts[s] /\ counts[s] <= r.counts[s]
          BY <2>6, <3>1
        <5> QED BY <5>1, <5>2
      <4> QED BY <4>1
    <3>3. counts = r.counts
      BY <2>7, <3>2 DEF CountMap
    <3>4. r2 = r
      BY <1>1, <3>3 DEF Row
    <3> QED BY <3>1, <3>4
  <2>10. RowSane(r2)
    <3>1. CountTotal(r.counts) <= CountTotal(counts) /\ CountTotal(counts) <= CountTotal(m.counts)
      BY <2>6, <2>7, CountTotalGrows
    <3>2. CountTotal(r.counts) \in Nat /\ CountTotal(counts) \in Nat /\ CountTotal(m.counts) \in Nat
      BY <2>6, <2>7, CountTotalGrows
    <3>3. /\ RowSane(r) /\ CountTotal(m.counts) \in m.processed .. m.total
          /\ m.processed \in Nat
      BY <1>1, <2>2, <2>3 DEF PollInv, AnswerableJob, RowSane, Backends, Row, m
    <3>4. m.total = r.total /\ r.total \in Nat /\ r.processed \in Nat
      BY <1>1, <2>3 DEF Later, Behind, Row
    <3> HIDE DEF r2, r
    <3> QED BY <2>8, <3>1, <3>2, <3>3, <3>4 DEF RowSane
  <2>11. Later(r, r2)
    <3>1. r.processed <= r2.processed
      BY <1>1, <2>8 DEF Row
    <3> HIDE DEF r2, r
    <3> QED BY <2>6, <2>8, <2>9, <3>1 DEF Later, Behind
  <2>12. Later(r2, m)
    <3> HIDE DEF r2, r
    <3> QED BY <2>3, <2>6, <2>8, <2>9 DEF Later, Behind
  <2>13. \A b \in Backends : rows[b][j] # NoRow => b = "memory"
    BY <2>2, <2>3 DEF AnswerableJob, RowsApart, Backends, m
  <2> HIDE DEF r2, r
  <2> QED BY <1>3, <2>1, <2>8, <2>10, <2>11, <2>12, <2>13 DEF m, r
<1> QED BY <1>4, <1>5

LEMMA PollEncode ==
    ASSUME AInv, NEW c \in Clients, EncodeProbe(c)
    PROVE  PollInv(c)'
<1>1. PollInv(c) /\ up /\ up' = up /\ rows' = rows /\ phase' = phase
  BY DEF AInv, EncodeProbe, vars, storeVars, poolVars
<1>2. poll'[c].pc = "answered" /\ poll'[c].id = poll[c].id /\ poll'[c].shared = poll[c].shared
  BY Encoded
<1>3. PollBehind(c)'
  BY <1>1, <1>2, Encoded DEF PollInv, PollBehind
<1>4. (poll[c].shared => poll[c].id # {}) /\ (~StoreErrors => PollWhole(c))
  BY <1>1 DEF PollInv
<1> QED BY <1>1, <1>2, <1>3, <1>4, Encoded DEF PollInv, PollWhole, Done

\* The results are read after the row: they back it.
LEMMA PollResults ==
    ASSUME AInv, NEW c \in Clients, GetResults(c)
    PROVE  PollInv(c)'
<1> USE DEF AInv
<1> DEFINE r == poll[c].row
<1>1. CASE poll'[c] = NoPoll
  BY <1>1, PollForgotten
<1>2. ASSUME NEW j \in poll[c].id, Lookup(j) # NoRow,
             poll' = [poll EXCEPT ![c] = [@ EXCEPT !.pc = "idle", !.shared = FALSE,
                                                    !.results = GetJobTraces(j)]]
      PROVE  PollInv(c)'
  <2>1. /\ PollInv(c) /\ r \in Row /\ j \in Jobs /\ TypeOK /\ backend \in Backends
        /\ phase' = phase /\ rows' = rows
    BY DEF PollState, GetResults, vars, storeVars, poolVars, TInv, RInv, IInv, TypeOK, StoreTypeOK
  <2>2. /\ poll'[c].pc = "idle" /\ poll'[c].shared = FALSE /\ poll'[c].id = poll[c].id
        /\ poll'[c].row = r /\ poll'[c].results = traces[backend][j]
    BY <1>2 DEF PollState, GetJobTraces
  <2>3. PollBehind(c)'
    BY <2>1, <2>2 DEF PollInv, PollBehind
  <2>4. Later(r, Lookup(j)) /\ Lookup(j) \in Row
    BY <1>2, <2>1, RowType DEF PollInv, PollBehind, Lookup
  <2>5. ASSUME ~StoreErrors PROVE PollWhole(c)'
    <3>1. Reliable(backend) /\ RowBacked(backend, j) /\ RowNear(backend, j)
      BY <2>1, <2>5 DEF Reliable, AnswerableJob, TInv, TracesAgree
    <3>2. Cardinality(traces[backend][j]) \in Nat
      BY <3>1, FS_CardinalityType DEF RowBacked
    <3>3. r.processed <= Lookup(j).processed /\ Lookup(j).processed <= Cardinality(traces[backend][j])
      BY <2>4, <3>1 DEF Later, Behind, RowBacked, Lookup
    <3>4. /\ CountTotal(r.counts) <= CountTotal(Lookup(j).counts)
          /\ CountTotal(r.counts) \in Nat /\ CountTotal(Lookup(j).counts) \in Nat
      BY <2>1, <2>4, CountTotalGrows DEF Later, Behind, Row
    <3>5. CountTotal(Lookup(j).counts) <= Cardinality(traces[backend][j]) + 1
      BY <3>1 DEF RowNear, Lookup
    <3>6. r.processed <= Cardinality(traces[backend][j])
      BY <2>1, <2>4, <3>2, <3>3 DEF Row
    <3>7. CountTotal(r.counts) <= Cardinality(traces[backend][j]) + 1
      BY <3>2, <3>4, <3>5
    <3>8. r.status = "completed" =>
             /\ Cardinality(traces[backend][j]) = r.total
             /\ \A s \in ClassificationStatus :
                   r.counts[s] = Cardinality({t \in traces[backend][j] : t.status = s})
      <4> SUFFICES ASSUME r.status = "completed"
                   PROVE  /\ Cardinality(traces[backend][j]) = r.total
                          /\ \A s \in ClassificationStatus :
                                r.counts[s] = Cardinality({t \in traces[backend][j] : t.status = s})
        OBVIOUS
      <4>1. r = rows[backend][j]
        BY <2>4 DEF Later, Lookup
      <4>2. r.processed = r.total
        BY <2>1, <4>1 DEF TInv, RInv, IInv, JobInv, CompletedRow
      <4> QED BY <3>1, <4>1, <4>2 DEF RowBacked
    <3> HIDE DEF r
    <3> QED BY <2>2, <3>6, <3>7, <3>8 DEF PollWhole
  <2> QED BY <2>1, <2>2, <2>3, <2>5 DEF PollInv
<1> QED BY <1>1, <1>2 DEF GetResults

LEMMA PollType ==
    ASSUME AInv, [ApiNext]_apiVars
    PROVE  poll' \in [Clients -> PollState]
<1> USE DEF AInv
<1>1. NoPoll \in PollState
  BY EmptyRecords DEF NoPoll, PollState
<1>2. TypeOK /\ TInv
  BY DEF TInv, RInv, IInv
<1>3. ASSUME NEW c \in Clients, NEW j \in Jobs, LookUpProbe(c, j)
      PROVE  poll' \in [Clients -> PollState]
  <2> DEFINE shared == backend = "memory" /\ Lookup(j).processed > 0
             answer == [pc |-> "encoding", id |-> {j}, row |-> Lookup(j), shared |-> shared,
                        results |-> {}]
  <2>1. Lookup(j) \in Row /\ shared \in BOOLEAN
    BY <1>2, RowType DEF Lookup, TypeOK, StoreTypeOK
  <2>2. poll' = [poll EXCEPT ![c] = answer]
    BY <1>3 DEF LookUpProbe
  <2>3. answer \in PollState
    <3> HIDE DEF shared
    <3> QED BY <2>1 DEF PollState
  <2> HIDE DEF answer
  <2> QED BY <2>2, <2>3
<1>4. ASSUME NEW c \in Clients, EncodeProbe(c) PROVE poll' \in [Clients -> PollState]
  <2>1. PICK row : poll' = [poll EXCEPT ![c] = [@ EXCEPT !.pc = "answered", !.row = row]]
    BY <1>4 DEF EncodeProbe
  <2>2. row \in Row
    <3>1. poll'[c].row = row
      BY <2>1 DEF PollState
    <3> QED BY <1>4, <3>1, Encoded
  <2>3. [poll[c] EXCEPT !.pc = "answered", !.row = row] \in PollState
    BY <2>2 DEF PollState
  <2> QED BY <2>1, <2>3
<1>5. ASSUME NEW c \in Clients, GetResults(c) PROVE poll' \in [Clients -> PollState]
  <2>1. CASE poll' = [poll EXCEPT ![c] = NoPoll]
    BY <1>1, <2>1
  <2>2. ASSUME NEW j \in poll[c].id,
               poll' = [poll EXCEPT ![c] = [@ EXCEPT !.pc = "idle", !.shared = FALSE,
                                                      !.results = GetJobTraces(j)]]
        PROVE  poll' \in [Clients -> PollState]
    <3>1. GetJobTraces(j) \in SUBSET Result
      BY <1>2 DEF GetJobTraces, PollState, TypeOK, StoreTypeOK
    <3>2. [poll[c] EXCEPT !.pc = "idle", !.shared = FALSE, !.results = GetJobTraces(j)]
             \in PollState
      BY <3>1 DEF PollState
    <3> QED BY <2>2, <3>2
  <2> QED BY <1>5, <2>1, <2>2 DEF GetResults
<1>6. CASE Forget
  BY <1>1, <1>6 DEF Forget
<1> QED BY <1>3, <1>4, <1>5, <1>6 DEF ApiNext, FatalRace, apiVars

LEMMA ApiInvInit == ApiInit => AInv
<1> SUFFICES ASSUME ApiInit PROVE AInv
  OBVIOUS
<1>1. TInv /\ TypeOK
  BY TracesInit, TypeInit DEF ApiInit
<1>2. poll \in [Clients -> PollState] /\ \A c \in Clients : poll[c] = NoPoll
  BY EmptyRecords DEF ApiInit, NoPoll, PollState
<1>3. ASSUME NEW j \in Jobs PROVE AnswerableJob(j)
  <2>1. \A b \in Backends : rows[b][j] = NoRow /\ traces[b][j] = {}
    BY DEF ApiInit, Init, StoreInit
  <2>2. RowsApart(j)
    BY <2>1 DEF RowsApart, Backends, NoRow
  <2>3. ASSUME NEW b \in Backends PROVE RowNear(b, j)
    BY <2>1, EmptyCounts, FS_EmptySet DEF RowNear, NoRow
  <2> QED BY <2>1, <2>2, <2>3, SaneNoRow DEF AnswerableJob
<1>4. ASSUME NEW c \in Clients PROVE PollInv(c)
  BY <1>2, SaneNoRow DEF NoPoll, PollInv, PollBehind, PollWhole, Done
<1> QED BY <1>1, <1>2, <1>3, <1>4 DEF AInv

\* A step of the API is a step of the process, which each poll survives or is
\* forgotten in, or a step of one client.
LEMMA ApiCases ==
    ASSUME AInv, [ApiNext]_apiVars
    PROVE  \/ PoolStep /\ \A c \in Clients : \/ poll'[c] = poll[c] /\ (poll[c].pc # "idle" => up')
                                             \/ poll'[c] = NoPoll
           \/ \E c \in Clients :
                 /\ UNCHANGED vars
                 /\ \A d \in Clients : d # c => poll'[d] = poll[d]
                 /\ (\E j \in Jobs : LookUpProbe(c, j)) \/ EncodeProbe(c) \/ GetResults(c)
<1> USE DEF AInv
<1>1. \A c \in Clients : poll[c].pc # "idle" => up
  BY DEF PollInv
<1>2. CASE Next /\ up' = up /\ UNCHANGED poll
  BY <1>1, <1>2 DEF PoolStep
<1>3. CASE Die /\ Forget
  BY <1>3 DEF PoolStep, Forget
<1>4. CASE Boot /\ UNCHANGED poll
  BY <1>4 DEF PoolStep, Next, Boot
<1>5. ASSUME NEW c \in Clients,
             (\E j \in Jobs : LookUpProbe(c, j)) \/ EncodeProbe(c) \/ GetResults(c)
      PROVE  UNCHANGED vars /\ \A d \in Clients : d # c => poll'[d] = poll[d]
  <2>1. CASE EncodeProbe(c)
    BY <2>1 DEF EncodeProbe
  <2>2. CASE \E j \in Jobs : LookUpProbe(c, j)
    BY <2>2 DEF LookUpProbe
  <2>3. CASE GetResults(c)
    BY <2>3 DEF GetResults
  <2> QED BY <1>5, <2>1, <2>2, <2>3
<1>6. CASE UNCHANGED apiVars
  <2>1. UNCHANGED vars /\ poll' = poll /\ up' = up
    BY <1>6 DEF apiVars, vars, poolVars
  <2> QED BY <1>1, <2>1 DEF PoolStep
<1> QED BY <1>2, <1>3, <1>4, <1>5, <1>6 DEF ApiNext, Crash, FatalRace

LEMMA ApiInvNext == AInv /\ [ApiNext]_apiVars => AInv'
<1> SUFFICES ASSUME AInv, [ApiNext]_apiVars PROVE AInv'
  OBVIOUS
<1>1. TInv /\ poll' \in [Clients -> PollState]
  BY PollType DEF AInv
<1>2. ASSUME PoolStep PROVE TInv' /\ \A j \in Jobs : AnswerableJob(j)'
  BY <1>1, <1>2, TracesPool, AnswerableStep DEF AInv
<1>3. CASE PoolStep /\ \A c \in Clients : \/ poll'[c] = poll[c] /\ (poll[c].pc # "idle" => up')
                                          \/ poll'[c] = NoPoll
  <2>1. \A c \in Clients : PollInv(c)'
    BY <1>3, PollStands, PollForgotten
  <2> QED BY <1>1, <1>2, <1>3, <2>1 DEF AInv
<1>4. ASSUME NEW c \in Clients, UNCHANGED vars,
             \A d \in Clients : d # c => poll'[d] = poll[d],
             (\E j \in Jobs : LookUpProbe(c, j)) \/ EncodeProbe(c) \/ GetResults(c)
      PROVE  AInv'
  <2>1. PoolStep /\ up' = up
    BY <1>4 DEF PoolStep, vars, poolVars
  <2>2. PollInv(c)'
    BY <1>4, PollLookUp, PollEncode, PollResults
  <2>3. ASSUME NEW d \in Clients, d # c PROVE PollInv(d)'
    BY <1>4, <2>1, <2>3, PollStands DEF AInv, PollInv
  <2> QED BY <1>1, <1>2, <2>1, <2>2, <2>3 DEF AInv
<1> QED BY <1>3, <1>4, ApiCases

LEMMA ApiInvariant == ApiSpec => []AInv
  BY ApiInvInit, ApiInvNext, PTL DEF ApiSpec

-----------------------------------------------------------------------------
(* What a client is told.                                                  *)

\* The variables of the pool, the stores and the polls stay in their types.
THEOREM ApiTypeCorrect == ApiSpec => []ApiTypeOK
<1>1. AInv => ApiTypeOK
  BY DEF AInv, TInv, RInv, IInv, ApiTypeOK
<1> QED BY <1>1, ApiInvariant, PTL

\* No client sees a counter of a job fall, an error vanish or a completed job
\* change between two of its polls, whatever races with the encoder, fails in
\* the store or restarts in between.
THEOREM NeverBack == ApiSpec => PollsNeverGoBack
<1> DEFINE Later2(r1, r2) ==
             /\ r1.processed <= r2.processed
             /\ \A s \in ClassificationStatus : r1.counts[s] <= r2.counts[s]
             /\ r1.lastErr => r2.lastErr
             /\ r1.status = "completed" => r2 = r1
           OneStep == \A c \in Clients : poll[c].id # {} /\ poll'[c].id = poll[c].id =>
                         Later2(poll[c].row, poll'[c].row)
<1>1. AInv /\ [ApiNext]_apiVars => OneStep
  <2> SUFFICES ASSUME AInv, [ApiNext]_apiVars, NEW c \in Clients,
                      poll[c].id # {}, poll'[c].id = poll[c].id
               PROVE  Later(poll[c].row, poll'[c].row)
    BY Zenon DEF Later, Behind
  <2>1. poll[c].row \in Row /\ TypeOK
    BY DEF AInv, PollState, TInv, RInv, IInv
  <2>2. CASE poll'[c] = poll[c]
    BY <2>1, <2>2, LaterSelf
  <2>3. poll'[c] # NoPoll
    BY DEF NoPoll
  <2>4. ASSUME NEW j \in Jobs, LookUpProbe(c, j) PROVE Later(poll[c].row, poll'[c].row)
    <3>1. Lookup(j) # NoRow /\ poll'[c].row = Lookup(j) /\ poll'[c].id = {j}
      BY <2>4 DEF LookUpProbe, AInv
    <3>2. Lookup(j) = rows[backend][j] /\ backend \in Backends /\ j \in poll[c].id
      BY <2>1, <3>1 DEF Lookup, TypeOK, StoreTypeOK
    <3> QED BY <3>1, <3>2 DEF AInv, PollInv, PollBehind
  <2>5. CASE EncodeProbe(c)
    BY <2>5, Encoded
  <2>6. CASE GetResults(c)
    <3>1. poll'[c].row = poll[c].row
      BY <2>3, <2>6 DEF GetResults, AInv, PollState
    <3> QED BY <2>1, <3>1, LaterSelf
  <2> QED BY <2>2, <2>3, <2>4, <2>5, <2>6, ApiCases
<1> QED BY <1>1, ApiInvariant, PTL DEF ApiSpec, PollsNeverGoBack

\* The counters of an answer are never behind its progress nor beyond its total,
\* and where no statement fails the results read next back both, though the
\* counters may be ahead by the one result not yet saved.
THEOREM AnswersBacked ==
    ASSUME ~StoreErrors
    PROVE  ApiSpec => []ResultsBackAnswer
<1>1. AInv => ResultsBackAnswer
  BY DEF AInv, PollInv, RowSane, PollWhole, ResultsBackAnswer
<1> QED BY <1>1, ApiInvariant, PTL

\* Where no statement fails, an answer that says completed comes with all its
\* results, and its counters are the ones they give.
THEOREM CompletedIsFinal ==
    ASSUME ~StoreErrors
    PROVE  ApiSpec => []CompletedAnswerIsFinal
<1>1. AInv => CompletedAnswerIsFinal
  BY DEF AInv, PollInv, PollWhole, CompletedAnswerIsFinal
<1> QED BY <1>1, ApiInvariant, PTL

\* What the pool guarantees it guarantees with handlers reading its rows too,
\* the one that a race with the encoder kills included.
THEOREM PoolSafe ==
    ApiSpec => [](TasksAccountedFor /\ NoSendOnClosedResults /\ CompletedIsWhole)
<1>1. AInv => TasksAccountedFor /\ NoSendOnClosedResults /\ CompletedIsWhole
  <2> SUFFICES ASSUME AInv, NEW j \in Jobs PROVE JobInv(j)
    BY DEF JobInv, TasksApart, TallyAgrees, ShutdownOrder, CompletedRow, TasksAccountedFor,
           NoSendOnClosedResults, CompletedIsWhole
  <2> QED BY DEF AInv, TInv, RInv, IInv
<1> QED BY <1>1, ApiInvariant, PTL
=============================================================================
