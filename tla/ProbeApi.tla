------------------------------ MODULE ProbeApi ------------------------------
(***************************************************************************)
(* The HTTP handlers that read jobs (backend/internal/api) while the pool  *)
(* of Orchestrator runs them.  A client polls as the dashboard does: GET   *)
(* /probes/{id}, then GET /probes/{id}/results.                            *)
(*                                                                         *)
(* getProbe copies the job out of the store and then encodes the copy.     *)
(* The copy's Counts of the memory store is the map the runner goes on     *)
(* incrementing, so encoding it is a data race: the encoder may see each   *)
(* counter before or after any increment made meanwhile, and the Go        *)
(* runtime may notice an increment in the middle of the iteration and end  *)
(* the process ("concurrent map iteration and map write"), which no        *)
(* recover catches.                                                        *)
(***************************************************************************)
EXTENDS Orchestrator

CONSTANTS Clients

VARIABLE poll  \* client -> where it is in its poll and what it was told

apiVars == <<vars, poll>>

\* "idle": between polls, `row' and `results' being what the last one showed;
\* "encoding": getProbe holds the job it looked up; "answered": the client has
\* that answer and is about to ask for the results.
PollState == [pc : {"idle", "encoding", "answered"}, id : SUBSET Jobs,
              row : Row, shared : BOOLEAN, results : SUBSET Result]

NoPoll == [pc |-> "idle", id |-> {}, row |-> NoRow, shared |-> FALSE, results |-> {}]

ApiTypeOK == TypeOK /\ poll \in [Clients -> PollState]

ApiInit == Init /\ poll = [c \in Clients |-> NoPoll]

-----------------------------------------------------------------------------
\* The first half of getProbe.  Any error of the store is answered with 404,
\* which the client forgets.
LookUpProbe(c, j) ==
    /\ up
    /\ poll[c].pc = "idle"
    /\ Lookup(j) # NoRow
    /\ poll' = [poll EXCEPT ![c] =
                   [pc |-> "encoding", id |-> {j}, row |-> Lookup(j),
                    shared |-> backend = "memory" /\ Lookup(j).processed > 0,
                    results |-> {}]]
    /\ UNCHANGED vars

\* What the encoder may read of the counters of the copied job.
Readable(c) ==
    IF ~poll[c].shared THEN {poll[c].row.counts}
    ELSE LET now == job[CHOOSE j \in Jobs : j \in poll[c].id].counts
         IN  {counts \in [ClassificationStatus -> 0 .. poll[c].row.total] :
                 \A s \in ClassificationStatus :
                     poll[c].row.counts[s] <= counts[s] /\ counts[s] <= now[s]}

EncodeProbe(c) ==
    /\ up
    /\ poll[c].pc = "encoding"
    /\ \E counts \in Readable(c) :
          poll' = [poll EXCEPT ![c] = [@ EXCEPT !.pc = "answered", !.row.counts = counts]]
    /\ UNCHANGED vars

\* getProbeResults: GetJobTraces copies the results under the lock.
GetResults(c) ==
    /\ up
    /\ poll[c].pc = "answered"
    /\ \E j \in poll[c].id :
          \/ /\ Lookup(j) # NoRow
             /\ poll' = [poll EXCEPT ![c] = [@ EXCEPT !.pc = "idle", !.shared = FALSE,
                                                      !.results = GetJobTraces(j)]]
          \/ /\ Lookup(j) = NoRow \/ MayFail
             /\ poll' = [poll EXCEPT ![c] = NoPoll]
    /\ UNCHANGED vars

\* The runner is about to increment a map some handler is iterating over.
CountsRace ==
    \E c \in Clients : \E j \in poll[c].id :
        /\ poll[c].pc = "encoding"
        /\ poll[c].shared
        /\ phase[j] = "collect"
        /\ \E w \in Workers : worker[j][w].pc = "sending"

\* The handlers die with the process; what a client was told, it remembers.
Forget == poll' = [c \in Clients |-> IF poll[c].pc = "idle" THEN poll[c] ELSE NoPoll]

FatalRace == CountsRace /\ Die /\ Forget

ApiNext ==
    \/ Next /\ up' = up /\ UNCHANGED poll
    \/ Crash /\ Forget
    \/ Boot /\ UNCHANGED poll
    \/ FatalRace
    \/ \E c \in Clients :
          \/ \E j \in Jobs : LookUpProbe(c, j)
          \/ EncodeProbe(c)
          \/ GetResults(c)

ApiSpec == ApiInit /\ [][ApiNext]_apiVars

\* The goroutines of the pool are scheduled; no client has to poll.
ApiFairSpec == ApiSpec /\ Fairness

-----------------------------------------------------------------------------
(* Properties.                                                             *)

Told(c) == poll[c].id # {} /\ poll[c].pc # "encoding"
Done(c) == poll[c].id # {} /\ poll[c].pc = "idle"

\* The answer of getProbe is never behind its own progress, and the results the
\* client asks for next are never behind the answer: even when the encoder
\* raced with the runner, the counters exceed the results by one at the most,
\* the result the runner had tallied and not yet saved.
ResultsBackAnswer ==
    \A c \in Clients :
        LET row     == poll[c].row
            results == Cardinality(poll[c].results)
        IN  /\ Told(c) => CountTotal(row.counts) \in row.processed .. row.total
            /\ Done(c) => /\ row.processed <= results
                          /\ CountTotal(row.counts) <= results + 1

\* Once a client is told that the job is completed, the counters it was told
\* and the results it gets are final and agree, race or no race.
CompletedAnswerIsFinal ==
    \A c \in Clients : Done(c) /\ poll[c].row.status = "completed" =>
        /\ Cardinality(poll[c].results) = poll[c].row.total
        /\ \A s \in ClassificationStatus :
              poll[c].row.counts[s] = Cardinality({r \in poll[c].results : r.status = s})

\* From one poll of a job to the next the client sees no counter fall, no error
\* vanish and no completed job change, across restarts of the process too.
PollsNeverGoBack ==
    [][\A c \in Clients :
          LET old == poll[c].row
              new == poll'[c].row
          IN  poll[c].id # {} /\ poll'[c].id = poll[c].id =>
                /\ old.processed <= new.processed
                /\ \A s \in ClassificationStatus : old.counts[s] <= new.counts[s]
                /\ old.lastErr => new.lastErr
                /\ old.status = "completed" => new = old]_apiVars

-----------------------------------------------------------------------------
(* What the documentation says and the code does not do.                   *)

\* README: the five counters of a job add up to its progress.  The answer of
\* the memory store mixes a copied Processed with the live Counts.
AnswerCountsAddUp ==
    \A c \in Clients : Told(c) => CountTotal(poll[c].row.counts) = poll[c].row.processed
=============================================================================
