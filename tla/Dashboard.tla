----------------------------- MODULE Dashboard -----------------------------
(***************************************************************************)
(* The polling of web/src/App.tsx.  While the job on the screen is not     *)
(* terminal an interval fires a tick every two seconds; a tick awaits      *)
(* GET /probes/{id}, puts the job on the screen, awaits its results, puts  *)
(* them on the screen and, if the job was completed, awaits the optimized  *)
(* rules.  Nothing cancels a tick, so several may be in flight, their      *)
(* answers late and in any order; any error ends a tick silently.          *)
(*                                                                         *)
(* The server is the table of records that Orchestrator implements: a      *)
(* result is saved, then counted in the job's progress.                    *)
(***************************************************************************)
EXTENDS Integers

CONSTANTS
    Jobs,
    NoJob,     \* nothing on the screen yet
    Ticks,     \* the ticks that may be in flight at a time
    Mount,     \* the one of Ticks that stands for the request made on mounting
    Links,     \* what the connection to the server may be like
    Sizes      \* the number of domains of a job, over each kind of connection

ASSUME DashboardAssumption ==
    /\ NoJob \notin Jobs
    /\ Mount \in Ticks
    /\ Links \subseteq {"prompt", "slow"}
    /\ Sizes \in [Links -> Nat \ {0}]

VARIABLES
    link,     \* "prompt": a request is answered before the next tick and none
              \* fails; "slow": it may be answered at any time or fail
    server,   \* job -> its record and the number of its results saved
    shown,    \* the job on the screen (store.ts: job)
    results,  \* whose results are on the screen, and how many
    rules,    \* job -> how many of its results the rules on the screen reflect
    post,     \* the request to POST /probes; the form allows one at a time
    tick      \* tick -> what it awaits

vars == <<link, server, shown, results, rules, post, tick>>

Total == Sizes[link]

\* The server declares "failed" too and assigns it nowhere.
Record == [status : {"absent", "queued", "running", "completed"},
           saved : 0 .. Total, processed : 0 .. Total]

Absent == [status |-> "absent", saved |-> 0, processed |-> 0]

\* awaits: the answer a tick waits for; seen: the server when it answered;
\* final: the job the tick has shown was completed.
TickState == [awaits : {"nothing", "job", "results", "rules"}, id : Jobs \cup {NoJob},
              final : BOOLEAN, answered : BOOLEAN, seen : [Jobs -> Record]]

None  == [j \in Jobs |-> Absent]
Ended == [awaits |-> "nothing", id |-> NoJob, final |-> FALSE, answered |-> FALSE,
          seen |-> None]

Await(what, j, final) == [Ended EXCEPT !.awaits = what, !.id = j, !.final = final]

TypeOK ==
    /\ link \in Links
    /\ server \in [Jobs -> Record]
    /\ shown \in [id : Jobs \cup {NoJob}, record : Record]
    /\ results \in [id : Jobs \cup {NoJob}, count : 0 .. Total]
    /\ rules \in [Jobs -> 0 .. Total]
    /\ post \in [pc : {"idle", "asked", "created"}, id : Jobs \cup {NoJob}]
    /\ tick \in [Ticks -> TickState]

NoPost == [pc |-> "idle", id |-> NoJob]

Init ==
    /\ link \in Links
    /\ server = None
    /\ shown = [id |-> NoJob, record |-> Absent]
    /\ results = [id |-> NoJob, count |-> 0]
    /\ rules = [j \in Jobs |-> 0]
    /\ post = NoPost
    /\ tick = [t \in Ticks |-> IF t = Mount THEN Await("rules", NoJob, FALSE) ELSE Ended]

-----------------------------------------------------------------------------
(* The server: runJob saves a result, writes the progress, completes.      *)

SetRecord(j, record) ==
    /\ server' = [server EXCEPT ![j] = record]
    /\ UNCHANGED <<link, shown, results, rules, post, tick>>

Save(j) ==
    /\ server[j].status \in {"queued", "running"}
    /\ server[j].saved = server[j].processed
    /\ server[j].saved < Total
    /\ SetRecord(j, [server[j] EXCEPT !.status = "running", !.saved = @ + 1])

Count(j) ==
    /\ server[j].processed < server[j].saved
    /\ SetRecord(j, [server[j] EXCEPT !.processed = @ + 1])

Complete(j) ==
    /\ server[j].status = "running"
    /\ server[j].processed = Total
    /\ SetRecord(j, [server[j] EXCEPT !.status = "completed"])

-----------------------------------------------------------------------------
(* onSubmit.                                                               *)

Submit ==
    /\ post.pc = "idle"
    /\ post' = [post EXCEPT !.pc = "asked"]
    /\ UNCHANGED <<link, server, shown, results, rules, tick>>

CreateProbe(j) ==
    /\ post.pc = "asked"
    /\ server[j] = Absent
    /\ server' = [server EXCEPT ![j].status = "queued"]
    /\ post' = [pc |-> "created", id |-> j]
    /\ UNCHANGED <<link, shown, results, rules, tick>>

\* setJob(created), setResults([]).  The record is the one CreateJob returned.
ShowCreated ==
    /\ post.pc = "created"
    /\ shown' = [id |-> post.id, record |-> [Absent EXCEPT !.status = "queued"]]
    /\ results' = [id |-> post.id, count |-> 0]
    /\ post' = NoPost
    /\ UNCHANGED <<link, server, rules, tick>>

SubmitFails ==
    /\ link = "slow"
    /\ post.pc # "idle"
    /\ post' = NoPost
    /\ UNCHANGED <<link, server, shown, results, rules, tick>>

-----------------------------------------------------------------------------
(* The interval and its ticks.                                             *)

InFlight(t) == tick[t].awaits # "nothing"
AtRest == \A t \in Ticks : ~InFlight(t)

\* Mutant: the effect polls a queued job only.
Armed_Queued == shown.id # NoJob /\ shown.record.status = "queued"

\* The effect on [job]: every setJob replaces the interval by one for that job.
Armed == shown.id # NoJob /\ shown.record.status \notin {"completed", "failed"}

Fire(t) ==
    /\ Armed
    /\ ~InFlight(t)
    /\ link = "prompt" => AtRest
    /\ tick' = [tick EXCEPT ![t] = Await("job", shown.id, FALSE)]
    /\ UNCHANGED <<link, server, shown, results, rules, post>>

Serve(t) ==
    /\ InFlight(t)
    /\ ~tick[t].answered
    /\ tick' = [tick EXCEPT ![t].answered = TRUE, ![t].seen = server]
    /\ UNCHANGED <<link, server, shown, results, rules, post>>

Answered(t, what) == tick[t].awaits = what /\ tick[t].answered


\* Mutant: the table is emptied whenever the job is refreshed.
ShowJob_Clears(t) ==
    LET updated == tick[t].seen[tick[t].id]
    IN  /\ Answered(t, "job")
        /\ shown' = [id |-> tick[t].id, record |-> updated]
        /\ results' = [id |-> tick[t].id, count |-> 0]
        /\ tick' = [tick EXCEPT ![t] =
                       Await("results", tick[t].id, updated.status = "completed")]
        /\ UNCHANGED <<link, server, rules, post>>

\* Mutant: the answer that says completed ends the tick.
ShowJob_Last(t) ==
    LET updated == tick[t].seen[tick[t].id]
    IN  /\ Answered(t, "job")
        /\ shown' = [id |-> tick[t].id, record |-> updated]
        /\ tick' = [tick EXCEPT ![t] = IF updated.status = "completed" THEN Ended
                                       ELSE Await("results", tick[t].id, FALSE)]
        /\ UNCHANGED <<link, server, results, rules, post>>

\* Mutant: the screen is given a status of its own.
ShowJob_Undeclared(t) ==
    /\ Answered(t, "job")
    /\ shown' = [id |-> tick[t].id,
                 record |-> [tick[t].seen[tick[t].id] EXCEPT !.status = "done"]]
    /\ tick' = [tick EXCEPT ![t] = Await("results", tick[t].id, FALSE)]
    /\ UNCHANGED <<link, server, results, rules, post>>

\* setJob(updated).
ShowJob(t) ==
    LET updated == tick[t].seen[tick[t].id]
    IN  /\ Answered(t, "job")
        /\ shown' = [id |-> tick[t].id, record |-> updated]
        /\ tick' = [tick EXCEPT ![t] =
                       Await("results", tick[t].id, updated.status = "completed")]
        /\ UNCHANGED <<link, server, results, rules, post>>

\* setResults(newResults).
ShowResults(t) ==
    /\ Answered(t, "results")
    /\ results' = [id |-> tick[t].id, count |-> tick[t].seen[tick[t].id].saved]
    /\ tick' = [tick EXCEPT ![t] = IF tick[t].final THEN Await("rules", NoJob, FALSE)
                                                    ELSE Ended]
    /\ UNCHANGED <<link, server, shown, rules, post>>

\* setRules(latest), also of the request made on mounting.
ShowRules(t) ==
    /\ Answered(t, "rules")
    /\ rules' = [j \in Jobs |-> tick[t].seen[j].saved]
    /\ tick' = [tick EXCEPT ![t] = Ended]
    /\ UNCHANGED <<link, server, shown, results, post>>

\* An error answer, or the 30 s of axios: the tick is dropped without a word.
Fail(t) ==
    /\ link = "slow"
    /\ InFlight(t)
    /\ tick' = [tick EXCEPT ![t] = Ended]
    /\ UNCHANGED <<link, server, shown, results, rules, post>>

-----------------------------------------------------------------------------
Next ==
    \/ \E j \in Jobs : Save(j) \/ Count(j) \/ Complete(j) \/ CreateProbe(j)
    \/ Submit \/ ShowCreated \/ SubmitFails
    \/ \E t \in Ticks : \/ Fire(t) \/ Serve(t) \/ Fail(t)
                        \/ ShowJob(t) \/ ShowResults(t) \/ ShowRules(t)

Spec == Init /\ [][Next]_vars

\* The server finishes its jobs (EveryJobCompletes) and answers; the interval
\* fires; of the answers to the dashboard's ticks not all are errors.
Fairness ==
    /\ \A j \in Jobs : WF_vars(Save(j) \/ Count(j) \/ Complete(j))
    /\ WF_vars(ShowCreated \/ SubmitFails)
    /\ WF_vars(\E t \in Ticks : Fire(t))
    /\ \A t \in Ticks :
          /\ SF_vars(Serve(t))
          /\ SF_vars(ShowJob(t))
          /\ SF_vars(ShowResults(t))
          /\ SF_vars(ShowRules(t))

FairSpec == Spec /\ Fairness

-----------------------------------------------------------------------------
(* Properties.                                                             *)

\* Over a prompt connection the screen only moves forward for the job it shows,
\* and its table is never behind its progress bar once a tick is over (a tick
\* asks for the job first and its results next).
ScreenNeverGoesBack ==
    [][link = "prompt" /\ shown'.id = shown.id =>
          /\ shown.record.processed <= shown'.record.processed
          /\ results.id = results'.id => results.count <= results'.count
          /\ AtRest' => shown'.record.processed <= results'.count]_vars

\* Over a prompt connection a screen that says completed, with no tick in flight,
\* is whole: no poll follows, and what it shows is all there is, the optimized
\* rules included.
FinalScreenIsWhole ==
    link = "prompt" /\ AtRest /\ shown.record.status = "completed" =>
        /\ results = [id |-> shown.id, count |-> Total]
        /\ rules[shown.id] = Total

\* However late the answers and whichever of them fail, a dashboard that showed a
\* job ends up showing a completed one for good: a late answer that puts an old
\* status back on the screen starts the interval again.
EventuallySettles == shown.id # NoJob ~> [](shown.record.status = "completed")

-----------------------------------------------------------------------------
(* What the documentation says and the code does not do.                   *)

\* README: the UI polls the running job.  A tick of the job shown before, still
\* in flight when a new job is submitted, puts its own job back on the screen,
\* and nothing polls the new one any more.
NewestJobIsShown ==
    [][shown.id # NoJob /\ shown'.id # shown.id => post.pc = "created"]_vars
=============================================================================
