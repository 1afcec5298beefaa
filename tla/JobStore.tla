------------------------------ MODULE JobStore ------------------------------
(***************************************************************************)
(* The store of jobs and traces (backend/internal/store) in its two        *)
(* implementations, "postgres" and "memory".  A process uses exactly one,  *)
(* the one buildStore picked when it booted: `backend'.  A row of          *)
(* probe_jobs, or an entry of MemoryStore.jobs, is rows[b][j]; the results *)
(* saved for a job are the set traces[b][j], whose order no operation      *)
(* shows (GetJobTraces sorts by domain); latest is MemoryStore.latest.     *)
(*                                                                         *)
(* Each operation of the store is one statement or one critical section,   *)
(* hence one step of the operator that performs it.                        *)
(***************************************************************************)
EXTENDS Model, FiniteSets

CONSTANTS
    Jobs,         \* the identifiers newID may draw; each is drawn once
    Domains,      \* normalized domain names
    NoDomain,     \* the empty TargetDomain
    DatabaseURL,  \* TRUE iff DATABASE_URL is set
    StoreErrors   \* TRUE iff a statement sent to Postgres may return an error

ASSUME StoreAssumption ==
    /\ NoDomain \notin Domains
    /\ DatabaseURL \in BOOLEAN
    /\ StoreErrors \in BOOLEAN

VARIABLES backend, rows, traces, latest

storeVars == <<backend, rows, traces, latest>>

Backends == {"postgres", "memory"}

\* TraceResult: `at' is TraceTimestamp, `err' says whether Error is set.
Result == [domain : Domains \cup {NoDomain}, status : ClassificationStatus,
           err : BOOLEAN, at : Nat]

NoResult == [domain |-> NoDomain, status |-> "Blocked", err |-> FALSE, at |-> 0]

\* ProbeJob: `lastErr' says whether LastError is set; "absent" is no row.
Row == [status : ProbeJobStatus \cup {"absent"}, total : Nat, processed : Nat,
        counts : CountMap, lastErr : BOOLEAN]

NoRow == [status |-> "absent", total |-> 0, processed |-> 0,
          counts |-> emptyCounts, lastErr |-> FALSE]

StoreTypeOK ==
    /\ backend \in Backends
    /\ rows \in [Backends -> [Jobs -> Row]]
    /\ traces \in [Backends -> [Jobs -> SUBSET Result]]
    /\ latest \in [Domains -> Result]

-----------------------------------------------------------------------------
\* buildStore: Postgres when configured and reachable, otherwise memory.
buildStore == IF DatabaseURL THEN {"postgres", "memory"} ELSE {"memory"}

StoreInit ==
    /\ backend \in buildStore
    /\ rows = [b \in Backends |-> [j \in Jobs |-> NoRow]]
    /\ traces = [b \in Backends |-> [j \in Jobs |-> {}]]
    /\ latest = [d \in Domains |-> NoResult]

\* The death of the process empties the memory store; Postgres keeps its rows.
LoseMemory ==
    /\ rows' = [rows EXCEPT !["memory"] = [j \in Jobs |-> NoRow]]
    /\ traces' = [traces EXCEPT !["memory"] = [j \in Jobs |-> {}]]
    /\ latest' = [d \in Domains |-> NoResult]

MayFail == backend = "postgres" /\ StoreErrors

Lookup(j) == rows[backend][j]

\* Mutant: the row is created with a status the model package does not declare.
CreateJob_Undeclared(j, n) ==
    /\ rows' = [rows EXCEPT ![backend][j] =
                    [NoRow EXCEPT !.status = "pending", !.total = n]]
    /\ UNCHANGED <<backend, traces, latest>>

CreateJob(j, n) ==
    /\ rows' = [rows EXCEPT ![backend][j] =
                    [NoRow EXCEPT !.status = "queued", !.total = n]]
    /\ UNCHANGED <<backend, traces, latest>>

\* The callers of UpdateJob and SaveTrace only log an error, so a statement
\* that was applied but reported as failed is the same as one that succeeded.
UpdateJob(j, job) ==
    /\ \/ rows' = [rows EXCEPT ![backend][j] = job]
       \/ MayFail /\ UNCHANGED rows
    /\ UNCHANGED <<backend, traces, latest>>

\* Memory appends; Postgres upserts on (job_id, target_domain).
SaveTrace(j, result) ==
    /\ \/ /\ backend = "memory"
          /\ traces' = [traces EXCEPT ![backend][j] = @ \cup {result}]
          /\ latest' = [latest EXCEPT ![result.domain] = result]
       \/ /\ backend = "postgres"
          /\ traces' = [traces EXCEPT ![backend][j] =
                           {r \in @ : r.domain # result.domain} \cup {result}]
          /\ UNCHANGED latest
       \/ MayFail /\ UNCHANGED <<traces, latest>>
    /\ UNCHANGED <<backend, rows>>

GetJobTraces(j) == traces[backend][j]

\* The results that no later result for the same domain supersedes.
NewestSaved(b) ==
    LET saved == UNION {traces[b][j] : j \in Jobs}
    IN  {r \in saved : \A other \in saved : other.domain = r.domain => other.at <= r.at}

\* Postgres: the row of each domain with the newest trace_timestamp, kept if
\* it is optimized.  Memory: the last result saved for each domain, unfiltered.
ListOptimizedRules ==
    IF backend = "postgres"
    THEN {r \in NewestSaved("postgres") : r.status \in OptimizedStatus}
    ELSE {latest[d] : d \in Domains} \ {NoResult}
=============================================================================
