----------------------------- MODULE JobRecords -----------------------------
(***************************************************************************)
(* What a client that polls GET /probes/{id} may count on, whatever the    *)
(* pool behind it does: a record is created queued and empty, its progress *)
(* and its counters only grow, the counters back the progress, and it is   *)
(* completed once, with everything counted, and never changes again.  A    *)
(* store that is Volatile may lose all its records at once, and counts a   *)
(* result in the counters of a record before it counts it as processed.    *)
(***************************************************************************)
EXTENDS Model

CONSTANTS Jobs, Volatile

VARIABLE record

Absent == [status |-> "absent", total |-> 0, processed |-> 0,
           counts |-> emptyCounts, lastErr |-> FALSE]

\* r2 is a later content of the row r1.
Extends(r1, r2) ==
    /\ r2.total = r1.total
    /\ r1.processed <= r2.processed
    /\ r2.processed <= r2.total
    /\ \A s \in ClassificationStatus : r1.counts[s] <= r2.counts[s]
    /\ r1.lastErr => r2.lastErr

Backed(r) ==
    IF Volatile THEN CountTotal(r.counts) \in r.processed .. r.total
                ELSE CountTotal(r.counts) = r.processed

RInit == record = [j \in Jobs |-> Absent]

Becomes(j, r) == record' = [record EXCEPT ![j] = r]

Create(j) ==
    /\ record[j] = Absent
    /\ record'[j].total > 0
    /\ Becomes(j, [Absent EXCEPT !.status = "queued", !.total = record'[j].total])

Progress(j) ==
    /\ record[j].status \in {"queued", "running"}
    /\ record'[j].status = "running"
    /\ Extends(record[j], record'[j])
    /\ Backed(record'[j])
    /\ Becomes(j, record'[j])

Complete(j) ==
    /\ record[j].status \in {"queued", "running"}
    /\ record'[j].status = "completed"
    /\ Extends(record[j], record'[j])
    /\ record'[j].processed = record'[j].total
    /\ CountTotal(record'[j].counts) = record'[j].total
    /\ Becomes(j, record'[j])

LoseAll == Volatile /\ record' = [j \in Jobs |-> Absent]

RNext == LoseAll \/ \E j \in Jobs : Create(j) \/ Progress(j) \/ Complete(j)

RSpec == RInit /\ [][RNext]_record
=============================================================================
