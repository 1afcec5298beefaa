--------------------------- MODULE DashboardProofs ---------------------------
(***************************************************************************)
(* Machine-checked proofs about Dashboard, for any jobs of any size and    *)
(* any number of ticks.                                                    *)
(***************************************************************************)
EXTENDS Dashboard, TLAPS

-----------------------------------------------------------------------------
(* What is on its way from the server to the screen, over any connection.  *)

\* n: the number of domains of the job.
Sound(r, n) ==
    /\ r.processed <= r.saved
    /\ r.status = "absent" => r.saved = 0
    /\ r.status = "completed" => r.processed = n

\* r2 is a later content of the record r1.
Past(r1, r2) ==
    /\ r1.processed <= r2.processed /\ r1.saved <= r2.saved
    /\ r1.status = "completed" => r2.status = "completed"

Exists(j) == server[j].status # "absent"

\* What a tick has seen is no later than what the server has.
Seen(t) ==
    /\ tick[t].id # NoJob => Exists(tick[t].id)
    /\ tick[t].awaits \in {"job", "results"} => tick[t].id # NoJob
    /\ tick[t].answered => \A j \in Jobs : /\ Sound(tick[t].seen[j], Total)
                                           /\ Past(tick[t].seen[j], server[j])

\* Nor is what the screen shows.
Screen ==
    /\ shown.id = NoJob => shown.record = Absent
    /\ shown.id # NoJob => /\ Exists(shown.id)
                           /\ Sound(shown.record, Total)
                           /\ Past(shown.record, server[shown.id])
    /\ results.id # NoJob => /\ Exists(results.id)
                             /\ results.count <= server[results.id].saved

\* A job that is created and not shown yet is known to nothing else.
Fresh ==
    post.pc = "created" => /\ post.id \in Jobs /\ Exists(post.id)
                           /\ shown.id # post.id /\ results.id # post.id
                           /\ \A t \in Ticks : tick[t].id # post.id

SInv ==
    /\ TypeOK
    /\ \A j \in Jobs : Sound(server[j], Total)
    /\ \A t \in Ticks : Seen(t)
    /\ Screen /\ Fresh

-----------------------------------------------------------------------------
(* What a prompt connection adds: one tick at a time.                      *)

Alone == \A s, t \in Ticks : InFlight(s) /\ InFlight(t) => s = t

\* The answer a tick has cannot put an earlier state on the screen.
Forward(t) ==
    /\ Answered(t, "job") /\ tick[t].id = shown.id =>
          shown.record.processed <= tick[t].seen[tick[t].id].processed
    /\ Answered(t, "results") /\ tick[t].id = results.id =>
          results.count <= tick[t].seen[tick[t].id].saved

\* A tick that asks for results asks for those of the job on the screen, unless
\* that job was put there in between and nothing of it is shown yet.
Catching(t) ==
    tick[t].awaits = "results" =>
       \/ shown.record.processed = 0
       \/ /\ tick[t].id = shown.id
          /\ tick[t].answered => shown.record.processed <= tick[t].seen[shown.id].saved

Level ==
    (\A t \in Ticks : tick[t].awaits # "results") => shown.record.processed <= results.count

AllResults == results = [id |-> shown.id, count |-> Total]

\* A completed job is whole on the screen, or the tick that will make it whole
\* is in flight.
Finishing ==
    shown.record.status = "completed" =>
       \/ \E t \in Ticks : /\ tick[t].awaits = "results" /\ tick[t].final
                           /\ tick[t].id = shown.id
                           /\ tick[t].answered => tick[t].seen[shown.id].saved = Total
       \/ \E t \in Ticks : /\ tick[t].awaits = "rules" /\ AllResults
                           /\ tick[t].answered => tick[t].seen[shown.id].saved = Total
       \/ AtRest /\ AllResults /\ rules[shown.id] = Total

PInv ==
    link = "prompt" =>
       Alone /\ (\A t \in Ticks : Forward(t) /\ Catching(t)) /\ Level /\ Finishing

IInv == SInv /\ PInv

-----------------------------------------------------------------------------
(* Types.                                                                  *)

LEMMA SameTypes ==
    ASSUME link' = link
    PROVE  Total' = Total /\ Record' = Record /\ TickState' = TickState
<1>1. Total' = Total
  BY DEF Total
<1>2. Record' = Record
  BY <1>1 DEF Record
<1> QED BY <1>1, <1>2 DEF TickState

LEMMA TotalIsPositive ==
    ASSUME link \in Links
    PROVE  Total \in Nat /\ Total > 0
BY DashboardAssumption DEF Total

LEMMA Absents ==
    ASSUME link \in Links
    PROVE  /\ Absent \in Record /\ None \in [Jobs -> Record]
           /\ Absent.status = "absent" /\ Absent.processed = 0 /\ Absent.saved = 0
<1>1. 0 \in 0 .. Total
  BY TotalIsPositive
<1>2. Absent \in Record
  BY <1>1 DEF Absent, Record
<1>3. Absent.status = "absent" /\ Absent.processed = 0 /\ Absent.saved = 0
  BY DEF Absent
<1> QED BY <1>2, <1>3 DEF None

LEMMA Awaits ==
    ASSUME link \in Links,
           NEW what \in {"job", "results", "rules"}, NEW j \in Jobs \cup {NoJob},
           NEW final \in BOOLEAN
    PROVE  /\ Ended \in TickState /\ Ended.awaits = "nothing" /\ Ended.id = NoJob
           /\ Ended.answered = FALSE
           /\ LET s == Await(what, j, final)
              IN  /\ s \in TickState /\ s.awaits = what /\ s.id = j /\ s.final = final
                  /\ s.answered = FALSE
<1>1. /\ Ended \in TickState /\ Ended.awaits = "nothing" /\ Ended.id = NoJob
      /\ Ended.answered = FALSE
  BY Absents DEF Ended, TickState
<1>2. LET s == Await(what, j, final)
      IN  /\ s \in TickState /\ s.awaits = what /\ s.id = j /\ s.final = final
          /\ s.answered = FALSE
  <2> HIDE DEF Ended
  <2> QED BY <1>1 DEF Await, TickState
<1> QED BY <1>1, <1>2

LEMMA Numbers ==
    ASSUME link \in Links, NEW r \in Record
    PROVE  /\ r.processed \in Nat /\ r.saved \in Nat /\ Total \in Nat
           /\ r.processed <= Total /\ r.saved <= Total
           /\ r.status \in {"absent", "queued", "running", "completed"}
BY TotalIsPositive DEF Record

LEMMA PastTransitive ==
    ASSUME link \in Links, NEW r1 \in Record, NEW r2 \in Record, NEW r3 \in Record,
           Past(r1, r2), Past(r2, r3)
    PROVE  Past(r1, r3)
BY Numbers DEF Past

LEMMA PastReflexive ==
    ASSUME link \in Links, NEW r \in Record
    PROVE  Past(r, r)
BY Numbers DEF Past

LEMMA Facts ==
    ASSUME SInv
    PROVE  /\ link \in Links /\ TypeOK
           /\ \A j \in Jobs : server[j] \in Record /\ Sound(server[j], Total)
           /\ shown.id \in Jobs \cup {NoJob} /\ shown.record \in Record
           /\ results.id \in Jobs \cup {NoJob} /\ results.count \in 0 .. Total
           /\ \A t \in Ticks : /\ tick[t] \in TickState /\ Seen(t)
                               /\ tick[t].id \in Jobs \cup {NoJob}
                               /\ tick[t].final \in BOOLEAN
                               /\ tick[t].seen \in [Jobs -> Record]
           /\ NoJob \notin Jobs
BY DashboardAssumption DEF SInv, TypeOK, TickState

-----------------------------------------------------------------------------
LEMMA InitInv == Init => IInv
<1> SUFFICES ASSUME Init PROVE IInv
  OBVIOUS
<1>1. link \in Links /\ server = None /\ shown = [id |-> NoJob, record |-> Absent]
      /\ results = [id |-> NoJob, count |-> 0] /\ rules = [j \in Jobs |-> 0]
      /\ post = NoPost
  BY DEF Init
<1>2. ASSUME NEW t \in Ticks
      PROVE  /\ tick[t] \in TickState /\ tick[t].awaits \in {"nothing", "rules"}
             /\ tick[t].id = NoJob /\ tick[t].answered = FALSE
             /\ tick[t].awaits = "rules" => t = Mount
  <2>1. CASE t = Mount
    <3>1. tick[t] = Await("rules", NoJob, FALSE)
      BY <2>1 DEF Init
    <3> DEFINE s == Await("rules", NoJob, FALSE)
    <3>2. /\ s \in TickState /\ s.awaits = "rules" /\ s.id = NoJob
          /\ s.answered = FALSE
      <4>1. "rules" \in {"job", "results", "rules"} /\ NoJob \in Jobs \cup {NoJob}
            /\ FALSE \in BOOLEAN
        OBVIOUS
      <4> QED BY <1>1, <4>1, Awaits, Zenon
    <3> HIDE DEF s
    <3> QED BY <2>1, <3>1, <3>2, Zenon DEF s
  <2>2. CASE t # Mount
    <3>1. tick[t] = Ended
      BY <2>2 DEF Init
    <3> QED BY <1>1, <2>2, <3>1, Awaits
  <2> QED BY <2>1, <2>2
<1>3. TypeOK
  <2>1. 0 \in 0 .. Total
    BY <1>1, TotalIsPositive
  <2>2. /\ shown \in [id : Jobs \cup {NoJob}, record : Record]
        /\ results \in [id : Jobs \cup {NoJob}, count : 0 .. Total]
        /\ rules \in [Jobs -> 0 .. Total]
    BY <1>1, <2>1, Absents
  <2>3. post \in [pc : {"idle", "asked", "created"}, id : Jobs \cup {NoJob}]
    BY <1>1 DEF NoPost
  <2>4. tick \in [Ticks -> TickState]
    BY <1>2 DEF Init
  <2> QED BY <1>1, <2>2, <2>3, <2>4, Absents DEF TypeOK
<1>4. \A j \in Jobs : Sound(server[j], Total)
  <2>1. \A j \in Jobs : server[j] = Absent
    BY <1>1 DEF None
  <2>2. Sound(Absent, Total)
    BY <1>1, Absents DEF Sound
  <2> QED BY <2>1, <2>2
<1>5. \A t \in Ticks : Seen(t)
  BY <1>2 DEF Seen
<1>6. Screen
  BY <1>1 DEF Screen
<1>7. Fresh
  BY <1>1 DEF Fresh, NoPost
<1>8. PInv
  <2>1. Alone
    BY <1>2 DEF Alone, InFlight
  <2>2. \A t \in Ticks : Forward(t) /\ Catching(t)
    BY <1>2 DEF Forward, Catching, Answered
  <2>3. shown.record = Absent /\ shown.record.processed = 0 /\ results.count = 0
    BY <1>1, Absents
  <2>4. Level
    BY <2>3 DEF Level
  <2>5. Finishing
    BY <2>3, Absents, <1>1 DEF Finishing
  <2> QED BY <2>1, <2>2, <2>4, <2>5 DEF PInv
<1> QED BY <1>3, <1>4, <1>5, <1>6, <1>7, <1>8 DEF IInv, SInv

-----------------------------------------------------------------------------
(* The server.                                                             *)

\* What the screen and the ticks promise each other does not ask the server.
LEMMA PromptStays ==
    ASSUME PInv, UNCHANGED <<link, shown, results, rules, tick>>
    PROVE  PInv'
<1>1. Total' = Total
  BY DEF Total
<1>2. Alone' <=> Alone
  BY DEF Alone, InFlight
<1>3. \A t \in Ticks : (Forward(t)' <=> Forward(t)) /\ (Catching(t)' <=> Catching(t))
  BY DEF Forward, Catching, Answered
<1>4. Level' <=> Level
  BY DEF Level
<1>5. AllResults' <=> AllResults
  BY <1>1 DEF AllResults
<1>6. Finishing' <=> Finishing
  BY <1>1, <1>5 DEF Finishing, AtRest, InFlight
<1> QED BY <1>2, <1>3, <1>4, <1>6 DEF PInv

\* A record that moves forward leaves what was seen of it behind.
LEMMA ServerInvariant ==
    ASSUME SInv, NEW j \in Jobs, NEW r \in Record,
           server' = [server EXCEPT ![j] = r], UNCHANGED <<link, shown, results, tick>>,
           TypeOK', Sound(r, Total), Past(server[j], r), r.status # "absent"
    PROVE  /\ \A k \in Jobs : Sound(server[k], Total)'
           /\ \A t \in Ticks : Seen(t)'
           /\ Screen'
           /\ \A k \in Jobs : Exists(k) => Exists(k)'
<1>1. Total' = Total
  BY DEF Total
<1>2. ASSUME NEW k \in Jobs
      PROVE  /\ server'[k] \in Record /\ Sound(server'[k], Total)
             /\ Past(server[k], server'[k])
             /\ Exists(k) => Exists(k)'
  <2>0. server'[k] = IF k = j THEN r ELSE server[k]
    BY Facts DEF TypeOK
  <2>1. CASE k = j
    BY <2>0, <2>1 DEF Exists
  <2>2. CASE k # j
    BY <2>0, <2>2, Facts, PastReflexive DEF Exists
  <2> QED BY <2>1, <2>2
<1>3. \A k \in Jobs : Sound(server[k], Total)'
  BY <1>1, <1>2 DEF Sound
<1>4. \A k \in Jobs : \A x \in Record : Past(x, server[k]) => Past(x, server'[k])
  BY <1>2, Facts, PastTransitive
<1>5. ASSUME NEW t \in Ticks PROVE Seen(t)'
  <2>1. tick[t].id # NoJob => Exists(tick[t].id)'
    BY <1>2, Facts DEF Seen
  <2>2. ASSUME tick[t].answered, NEW k \in Jobs
        PROVE  Sound(tick[t].seen[k], Total) /\ Past(tick[t].seen[k], server'[k])
    BY <1>4, <2>2, Facts DEF Seen
  <2>3. tick[t].awaits \in {"job", "results"} => tick[t].id # NoJob
    BY Facts DEF Seen
  <2> QED BY <1>1, <2>1, <2>2, <2>3 DEF Seen, Exists, Sound, Past
<1>6. Screen'
  <2>1. shown.id # NoJob => /\ Exists(shown.id)' /\ Sound(shown.record, Total)
                            /\ Past(shown.record, server'[shown.id])
    BY <1>2, <1>4, Facts DEF SInv, Screen
  <2>2. results.id # NoJob => Exists(results.id)' /\ results.count <= server'[results.id].saved
    <3> SUFFICES ASSUME results.id # NoJob
                 PROVE  Exists(results.id)' /\ results.count <= server'[results.id].saved
      OBVIOUS
    <3>1. results.id \in Jobs /\ Exists(results.id) /\ results.count <= server[results.id].saved
      BY Facts DEF SInv, Screen
    <3>2. server[results.id].saved <= server'[results.id].saved
      BY <1>2, <3>1 DEF Past
    <3>3. /\ results.count \in Nat /\ server[results.id].saved \in Nat
          /\ server'[results.id].saved \in Nat
      BY <1>2, <3>1, Facts, Numbers
    <3> QED BY <1>2, <3>1, <3>2, <3>3
  <2>3. shown.id = NoJob => shown.record = Absent
    BY DEF SInv, Screen
  <2> QED BY <1>1, <2>1, <2>2, <2>3 DEF Screen, Exists, Sound, Past
<1> QED BY <1>2, <1>3, <1>5, <1>6

LEMMA SetRecordStep ==
    ASSUME IInv, NEW j \in Jobs, NEW r \in Record, SetRecord(j, r),
           Sound(r, Total), Past(server[j], r), r.status # "absent"
    PROVE  IInv'
<1>1. SInv /\ PInv /\ link' = link
  BY DEF IInv, SetRecord
<1>2. TypeOK'
  BY <1>1, SameTypes, Facts DEF TypeOK, SetRecord
<1>3. /\ \A k \in Jobs : Sound(server[k], Total)'
      /\ \A t \in Ticks : Seen(t)'
      /\ Screen'
      /\ \A k \in Jobs : Exists(k) => Exists(k)'
  BY <1>1, <1>2, ServerInvariant DEF SetRecord
<1>4. Fresh'
  BY <1>1, <1>3 DEF SInv, Fresh, SetRecord
<1>5. PInv'
  BY <1>1, PromptStays DEF SetRecord
<1> QED BY <1>2, <1>3, <1>4, <1>5 DEF IInv, SInv

LEMMA SaveStep ==
    ASSUME IInv, NEW j \in Jobs, Save(j)
    PROVE  IInv'
<1> DEFINE r == [server[j] EXCEPT !.status = "running", !.saved = @ + 1]
<1>1. /\ link \in Links /\ server[j] \in Record /\ Sound(server[j], Total)
      /\ server[j].saved = server[j].processed /\ server[j].saved < Total
      /\ server[j].status \in {"queued", "running"} /\ SetRecord(j, r)
  BY Facts DEF IInv, Save
<1>2. server[j].saved + 1 \in 0 .. Total
  BY <1>1, Numbers
<1>3. /\ r \in Record /\ r.status = "running"
      /\ r.processed = server[j].processed /\ r.saved = server[j].saved + 1
  BY <1>1, <1>2 DEF Record
<1> HIDE DEF r
<1>4. Sound(r, Total) /\ Past(server[j], r)
  BY <1>1, <1>3, Numbers DEF Sound, Past
<1> QED BY <1>1, <1>3, <1>4, SetRecordStep

LEMMA CountStep ==
    ASSUME IInv, NEW j \in Jobs, Count(j)
    PROVE  IInv'
<1> DEFINE r == [server[j] EXCEPT !.processed = @ + 1]
<1>1. /\ link \in Links /\ server[j] \in Record /\ Sound(server[j], Total)
      /\ server[j].processed < server[j].saved /\ SetRecord(j, r)
  BY Facts DEF IInv, Count
<1>2. server[j].processed + 1 \in 0 .. Total
  BY <1>1, Numbers
<1>3. /\ r \in Record /\ r.status = server[j].status
      /\ r.processed = server[j].processed + 1 /\ r.saved = server[j].saved
  BY <1>1, <1>2 DEF Record
<1> HIDE DEF r
<1>4. server[j].status # "completed"
  BY <1>1, Numbers DEF Sound
<1>5. Sound(r, Total) /\ Past(server[j], r)
  BY <1>1, <1>3, <1>4, Numbers DEF Sound, Past
<1>6. server[j].status # "absent"
  BY <1>1, Numbers DEF Sound
<1> QED BY <1>1, <1>3, <1>5, <1>6, SetRecordStep

LEMMA CompleteStep ==
    ASSUME IInv, NEW j \in Jobs, Complete(j)
    PROVE  IInv'
<1> DEFINE r == [server[j] EXCEPT !.status = "completed"]
<1>1. /\ link \in Links /\ server[j] \in Record /\ Sound(server[j], Total)
      /\ server[j].processed = Total /\ SetRecord(j, r)
  BY Facts DEF IInv, Complete
<1>2. /\ r \in Record /\ r.status = "completed"
      /\ r.processed = server[j].processed /\ r.saved = server[j].saved
  BY <1>1 DEF Record
<1> HIDE DEF r
<1>3. Sound(r, Total) /\ Past(server[j], r)
  BY <1>1, <1>2, Numbers DEF Sound, Past
<1> QED BY <1>1, <1>2, <1>3, SetRecordStep

LEMMA CreateProbeStep ==
    ASSUME IInv, NEW j \in Jobs, CreateProbe(j)
    PROVE  IInv'
<1> DEFINE r == [server[j] EXCEPT !.status = "queued"]
<1>1. /\ SInv /\ PInv /\ server[j] = Absent /\ server' = [server EXCEPT ![j] = r]
      /\ post' = [pc |-> "created", id |-> j]
      /\ UNCHANGED <<link, shown, results, rules, tick>>
  BY DEF IInv, CreateProbe
<1>2. /\ r \in Record /\ r.status = "queued" /\ r.processed = 0 /\ r.saved = 0
  BY <1>1, Facts, Absents DEF Record
<1> HIDE DEF r
<1>3. Sound(r, Total) /\ Past(server[j], r)
  BY <1>1, <1>2, Facts, Absents DEF Sound, Past
<1>4. TypeOK'
  BY <1>1, <1>2, SameTypes, Facts DEF TypeOK
<1>5. /\ \A k \in Jobs : Sound(server[k], Total)'
      /\ \A t \in Ticks : Seen(t)'
      /\ Screen'
  BY <1>1, <1>2, <1>3, <1>4, ServerInvariant
<1>6. Fresh'
  <2>1. ~Exists(j) /\ j # NoJob
    BY <1>1, Facts, Absents DEF Exists
  <2>2. shown.id # j /\ results.id # j
    BY <1>1, <2>1 DEF SInv, Screen
  <2>3. \A t \in Ticks : tick[t].id # j
    BY <1>1, <2>1 DEF SInv, Seen
  <2>4. server'[j].status = "queued"
    BY <1>1, <1>2, Facts DEF TypeOK
  <2>5. Exists(j)'
    BY <2>4 DEF Exists
  <2> QED BY <1>1, <2>2, <2>3, <2>5 DEF Fresh
<1>7. PInv'
  BY <1>1, PromptStays
<1> QED BY <1>4, <1>5, <1>6, <1>7 DEF IInv, SInv

-----------------------------------------------------------------------------
(* The form.                                                               *)

LEMMA SubmitStep ==
    ASSUME IInv, Submit \/ SubmitFails
    PROVE  IInv'
<1>1. /\ SInv /\ PInv /\ post' \in [pc : {"idle", "asked"}, id : Jobs \cup {NoJob}]
      /\ UNCHANGED <<link, server, shown, results, rules, tick>>
  BY Facts DEF IInv, TypeOK, Submit, SubmitFails, NoPost
<1>2. TypeOK'
  BY <1>1, SameTypes, Facts DEF TypeOK
<1>3. Total' = Total
  BY <1>1 DEF Total
<1>4. /\ \A k \in Jobs : Sound(server[k], Total)'
      /\ \A t \in Ticks : Seen(t)'
      /\ Screen'
  BY <1>1, <1>3 DEF SInv, Seen, Screen, Exists, Sound, Past
<1>5. Fresh'
  BY <1>1 DEF Fresh
<1>6. PInv'
  BY <1>1, PromptStays
<1> QED BY <1>2, <1>4, <1>5, <1>6 DEF IInv, SInv

LEMMA ShowCreatedStep ==
    ASSUME IInv, ShowCreated
    PROVE  IInv'
<1> DEFINE r == [Absent EXCEPT !.status = "queued"]
<1>1. /\ SInv /\ PInv /\ post.pc = "created" /\ post' = NoPost
      /\ shown' = [id |-> post.id, record |-> r]
      /\ results' = [id |-> post.id, count |-> 0]
      /\ UNCHANGED <<link, server, rules, tick>>
  BY DEF IInv, ShowCreated
<1>2. r \in Record /\ r.status = "queued" /\ r.processed = 0 /\ r.saved = 0
  BY <1>1, Facts, Absents DEF Record
<1> HIDE DEF r
<1>3. /\ post.id \in Jobs /\ Exists(post.id) /\ \A t \in Ticks : tick[t].id # post.id
  BY <1>1 DEF SInv, Fresh
<1>4. /\ link \in Links /\ Total' = Total /\ 0 \in 0 .. Total
      /\ server[post.id] \in Record
  BY <1>1, <1>3, Facts, TotalIsPositive DEF Total
<1>5. TypeOK'
  <2>1. shown' \in [id : Jobs \cup {NoJob}, record : Record]
    BY <1>1, <1>2, <1>3
  <2>2. results' \in [id : Jobs \cup {NoJob}, count : 0 .. Total]
    BY <1>1, <1>3, <1>4
  <2>3. post' \in [pc : {"idle", "asked", "created"}, id : Jobs \cup {NoJob}]
    BY <1>1 DEF NoPost
  <2> QED BY <1>1, <2>1, <2>2, <2>3, SameTypes, Facts DEF TypeOK
<1>6. /\ \A k \in Jobs : Sound(server[k], Total)'
      /\ \A t \in Ticks : Seen(t)'
  BY <1>1, <1>4 DEF SInv, Seen, Exists, Sound, Past
<1>7. Screen'
  <2>1. Sound(r, Total) /\ Past(r, server[post.id])
    BY <1>2, <1>4, Numbers DEF Sound, Past
  <2>2. 0 <= server[post.id].saved
    BY <1>4, Numbers
  <2>3. shown'.id = post.id /\ shown'.record = r /\ results'.id = post.id
        /\ results'.count = 0 /\ post.id # NoJob
    BY <1>1, <1>3, Facts
  <2> QED BY <1>1, <1>3, <1>4, <2>1, <2>2, <2>3 DEF Screen, Exists, Sound, Past
<1>8. Fresh'
  BY <1>1 DEF Fresh, NoPost
<1>9. PInv'
  <2>1. shown'.id = post.id /\ shown'.record.status = "queued"
        /\ shown'.record.processed = 0 /\ results'.id = post.id /\ results'.count = 0
    BY <1>1, <1>2
  <2>2. Alone => Alone'
    BY <1>1 DEF Alone, InFlight
  <2>3. \A t \in Ticks : Forward(t)' /\ Catching(t)'
    BY <1>1, <1>3, <2>1 DEF Forward, Catching, Answered
  <2>4. Level' /\ Finishing'
    BY <2>1 DEF Level, Finishing
  <2> QED BY <1>1, <2>2, <2>3, <2>4 DEF PInv
<1> QED BY <1>5, <1>6, <1>7, <1>8, <1>9 DEF IInv, SInv

-----------------------------------------------------------------------------
(* The ticks.                                                              *)

\* One tick is given a new content: what it holds must be in the server's past.
LEMMA TickInvariant ==
    ASSUME SInv, NEW t \in Ticks, NEW s \in TickState,
           tick' = [tick EXCEPT ![t] = s], UNCHANGED <<link, server, post>>,
           s.id # NoJob => Exists(s.id),
           s.awaits \in {"job", "results"} => s.id # NoJob,
           s.answered => \A j \in Jobs : /\ Sound(s.seen[j], Total)
                                         /\ Past(s.seen[j], server[j]),
           post.pc = "created" => s.id # post.id
    PROVE  /\ tick' \in [Ticks -> TickState]'
           /\ \A j \in Jobs : Sound(server[j], Total)'
           /\ \A u \in Ticks : Seen(u)'
           /\ post.pc = "created" => \A u \in Ticks : tick'[u].id # post.id
           /\ tick'[t] = s /\ \A u \in Ticks \ {t} : tick'[u] = tick[u]
<1>1. Total' = Total /\ TickState' = TickState
  BY SameTypes DEF Total
<1>2. tick \in [Ticks -> TickState]
  BY Facts DEF TypeOK
<1>3. tick'[t] = s /\ \A u \in Ticks \ {t} : tick'[u] = tick[u]
  BY <1>2
<1>4. tick' \in [Ticks -> TickState]'
  BY <1>1, <1>2
<1>5. \A j \in Jobs : Sound(server[j], Total)'
  BY <1>1 DEF SInv, Sound
<1>6. ASSUME NEW u \in Ticks PROVE Seen(u)'
  <2>1. CASE u = t
    BY <1>1, <1>3, <2>1 DEF Seen, Exists, Sound, Past
  <2>2. CASE u # t
    BY <1>1, <1>3, <2>2 DEF SInv, Seen, Exists, Sound, Past
  <2> QED BY <2>1, <2>2
<1>7. post.pc = "created" => \A u \in Ticks : tick'[u].id # post.id
  BY <1>3 DEF SInv, Fresh
<1> QED BY <1>3, <1>4, <1>5, <1>6, <1>7

\* When nothing but a tick has changed, the screen is as sound as it was.
LEMMA OnlyTicks ==
    ASSUME SInv, UNCHANGED <<link, server, shown, results, rules, post>>,
           tick' \in [Ticks -> TickState]',
           \A j \in Jobs : Sound(server[j], Total)', \A u \in Ticks : Seen(u)',
           post.pc = "created" => \A u \in Ticks : tick'[u].id # post.id
    PROVE  SInv'
<1>1. Total' = Total
  BY DEF Total
<1>2. TypeOK'
  BY SameTypes, Facts DEF TypeOK
<1>3. Screen'
  BY <1>1 DEF SInv, Screen, Exists, Sound, Past
<1>4. Fresh'
  BY DEF SInv, Fresh, Exists
<1> QED BY <1>2, <1>3, <1>4 DEF SInv

\* Over a prompt connection the tick in flight is the only one.
LEMMA Others ==
    ASSUME IInv, link = "prompt", NEW t \in Ticks, InFlight(t)
    PROVE  /\ \A u \in Ticks \ {t} : ~InFlight(u)
           /\ ~AtRest
BY DEF IInv, PInv, Alone, AtRest

LEMMA OnlyTick ==
    ASSUME NEW t \in Ticks, \A u \in Ticks \ {t} : tick'[u].awaits = "nothing",
           Forward(t)', Catching(t)', Level', Finishing'
    PROVE  PInv'
<1>1. Alone'
  BY DEF Alone, InFlight
<1>2. \A u \in Ticks : Forward(u)' /\ Catching(u)'
  BY DEF Forward, Catching, Answered
<1> QED BY <1>1, <1>2 DEF PInv

LEMMA FireStep ==
    ASSUME IInv, NEW t \in Ticks, Fire(t)
    PROVE  IInv'
<1> DEFINE s == Await("job", shown.id, FALSE)
<1>1. /\ SInv /\ Armed /\ tick' = [tick EXCEPT ![t] = s]
      /\ link = "prompt" => AtRest
      /\ UNCHANGED <<link, server, shown, results, rules, post>>
  BY DEF IInv, Fire
<1>2. s \in TickState /\ s.awaits = "job" /\ s.id = shown.id /\ s.answered = FALSE
  BY <1>1, Facts, Awaits, Zenon
<1> HIDE DEF s
<1>3. /\ s.id # NoJob /\ Exists(s.id)
      /\ post.pc = "created" => s.id # post.id
  BY <1>1, <1>2 DEF Armed, SInv, Screen, Fresh
<1>4. /\ tick' \in [Ticks -> TickState]'
      /\ \A j \in Jobs : Sound(server[j], Total)'
      /\ \A u \in Ticks : Seen(u)'
      /\ post.pc = "created" => \A u \in Ticks : tick'[u].id # post.id
      /\ tick'[t] = s /\ \A u \in Ticks \ {t} : tick'[u] = tick[u]
  BY <1>1, <1>2, <1>3, TickInvariant
<1>5. SInv'
  BY <1>1, <1>4, OnlyTicks
<1>6. ASSUME link = "prompt" PROVE PInv'
  <2>1. \A u \in Ticks : tick[u].awaits = "nothing"
    BY <1>1, <1>6 DEF AtRest, InFlight
  <2>2. \A u \in Ticks \ {t} : tick'[u].awaits = "nothing"
    BY <1>4, <2>1
  <2>3. Forward(t)' /\ Catching(t)'
    BY <1>2, <1>4 DEF Forward, Catching, Answered
  <2>4. Level'
    BY <1>1, <1>6, <2>1 DEF IInv, PInv, Level
  <2>5. Finishing'
    BY <1>1 DEF Armed, Finishing
  <2> QED BY <2>2, <2>3, <2>4, <2>5, OnlyTick
<1> QED BY <1>1, <1>5, <1>6 DEF IInv, PInv

LEMMA FailStep ==
    ASSUME IInv, NEW t \in Ticks, Fail(t)
    PROVE  IInv'
<1>1. /\ SInv /\ tick' = [tick EXCEPT ![t] = Ended] /\ link = "slow"
      /\ UNCHANGED <<link, server, shown, results, rules, post>>
  BY DEF IInv, Fail
<1>2. /\ Ended \in TickState /\ Ended.awaits = "nothing" /\ Ended.id = NoJob
      /\ Ended.answered = FALSE
  <2>1. FALSE \in BOOLEAN /\ NoJob \in Jobs \cup {NoJob}
    OBVIOUS
  <2> QED BY <1>1, <2>1, Facts, Awaits
<1>3. post.pc = "created" => post.id # NoJob
  BY <1>1, Facts DEF SInv, Fresh
<1>4. /\ tick' \in [Ticks -> TickState]'
      /\ \A j \in Jobs : Sound(server[j], Total)'
      /\ \A u \in Ticks : Seen(u)'
      /\ post.pc = "created" => \A u \in Ticks : tick'[u].id # post.id
  BY <1>1, <1>2, <1>3, TickInvariant
<1>5. SInv'
  BY <1>1, <1>4, OnlyTicks
<1> QED BY <1>1, <1>5 DEF IInv, PInv

LEMMA ServeStep ==
    ASSUME IInv, NEW t \in Ticks, Serve(t)
    PROVE  IInv'
<1> DEFINE s == [tick[t] EXCEPT !.answered = TRUE, !.seen = server]
<1>1. /\ SInv /\ InFlight(t) /\ tick' = [tick EXCEPT ![t] = s]
      /\ UNCHANGED <<link, server, shown, results, rules, post>>
  BY DEF IInv, Serve
<1>2. tick[t] \in TickState /\ server \in [Jobs -> Record]
  BY <1>1, Facts DEF TypeOK
<1>3. /\ s \in TickState /\ s.awaits = tick[t].awaits /\ s.id = tick[t].id
      /\ s.final = tick[t].final /\ s.answered = TRUE /\ s.seen = server
  BY <1>2 DEF TickState
<1> HIDE DEF s
<1>4. /\ s.id # NoJob => Exists(s.id)
      /\ s.awaits \in {"job", "results"} => s.id # NoJob
      /\ post.pc = "created" => s.id # post.id
  BY <1>1, <1>3 DEF SInv, Seen, Fresh
<1>5. \A j \in Jobs : Sound(s.seen[j], Total) /\ Past(s.seen[j], server[j])
  BY <1>1, <1>3, Facts, PastReflexive
<1>6. /\ tick' \in [Ticks -> TickState]'
      /\ \A j \in Jobs : Sound(server[j], Total)'
      /\ \A u \in Ticks : Seen(u)'
      /\ post.pc = "created" => \A u \in Ticks : tick'[u].id # post.id
      /\ tick'[t] = s /\ \A u \in Ticks \ {t} : tick'[u] = tick[u]
  BY <1>1, <1>3, <1>4, <1>5, TickInvariant
<1>7. SInv'
  BY <1>1, <1>6, OnlyTicks
<1>8. ASSUME link = "prompt" PROVE PInv'
  <2>0. Total' = Total
    BY <1>1 DEF Total
  <2>1. /\ \A u \in Ticks \ {t} : tick[u].awaits = "nothing" /\ tick'[u].awaits = "nothing"
        /\ ~AtRest
    BY <1>1, <1>6, <1>8, Others DEF InFlight
  <2>2. /\ tick'[t].awaits = tick[t].awaits /\ tick'[t].id = tick[t].id
        /\ tick'[t].final = tick[t].final /\ tick'[t].seen = server
    BY <1>3, <1>6
  <2>3. shown.id # NoJob => /\ shown.id \in Jobs /\ server[shown.id] \in Record
                            /\ shown.record.processed <= server[shown.id].processed
                            /\ server[shown.id].processed <= server[shown.id].saved
    BY <1>1, Facts DEF SInv, Screen, Sound, Past
  <2>4. Forward(t)'
    BY <1>1, <1>4, <1>3, <2>2, <2>3 DEF SInv, Screen, Forward, Answered
  <2>5. Catching(t)'
    <3> SUFFICES ASSUME tick[t].awaits = "results", shown.record.processed # 0
                 PROVE  Catching(t)'
      BY <1>1, <2>2 DEF Catching
    <3>1. tick[t].id = shown.id /\ shown.id # NoJob
      BY <1>1, <1>8, <1>3, <1>4 DEF IInv, PInv, Catching
    <3>2. shown.record.processed <= server[shown.id].saved
      BY <1>1, <2>3, <3>1, Facts, Numbers
    <3> QED BY <1>1, <2>2, <3>1, <3>2 DEF Catching
  <2>6. Level'
    <3>1. \A u \in Ticks : tick'[u].awaits = tick[u].awaits
      BY <2>1, <2>2
    <3> QED BY <1>1, <1>8, <3>1 DEF IInv, PInv, Level
  <2>7. Finishing'
    <3> SUFFICES ASSUME shown.record.status = "completed" PROVE Finishing'
      BY <1>1 DEF Finishing
    <3>1. server[shown.id].saved = Total
      <4>1. shown.id # NoJob
        BY <1>1, Facts, Absents DEF SInv, Screen
      <4>2. shown.id \in Jobs /\ server[shown.id].status = "completed"
        BY <1>1, <4>1, Facts DEF SInv, Screen, Past
      <4>3. server[shown.id] \in Record /\ Sound(server[shown.id], Total) /\ link \in Links
        BY <1>1, <4>2, Facts
      <4> QED BY <4>2, <4>3, Numbers DEF Sound
    <3>2. \/ \E u \in Ticks : tick[u].awaits = "results" /\ tick[u].final
                                /\ tick[u].id = shown.id
          \/ \E u \in Ticks : tick[u].awaits = "rules" /\ AllResults
      <4>1. Finishing
        BY <1>8 DEF IInv, PInv
      <4> QED BY <2>1, <4>1, Zenon DEF Finishing
    <3>3. CASE tick[t].awaits = "results" /\ tick[t].final /\ tick[t].id = shown.id
      BY <1>1, <2>0, <2>2, <3>1, <3>3 DEF Finishing
    <3>4. CASE tick[t].awaits = "rules" /\ AllResults
      BY <1>1, <2>0, <2>2, <3>1, <3>4 DEF Finishing, AllResults
    <3> QED BY <2>1, <3>2, <3>3, <3>4
  <2> QED BY <2>1, <2>4, <2>5, <2>6, <2>7, OnlyTick
<1> QED BY <1>1, <1>7, <1>8 DEF IInv, PInv

LEMMA ShowJobStep ==
    ASSUME IInv, NEW t \in Ticks, ShowJob(t)
    PROVE  IInv'
<1> DEFINE j == tick[t].id
           r == tick[t].seen[j]
           s == Await("results", j, r.status = "completed")
<1>1. /\ SInv /\ tick[t].awaits = "job" /\ tick[t].answered
      /\ tick' = [tick EXCEPT ![t] = s] /\ shown' = [id |-> j, record |-> r]
      /\ UNCHANGED <<link, server, results, rules, post>>
  BY DEF IInv, ShowJob, Answered
<1>2. /\ j \in Jobs /\ j # NoJob /\ Exists(j) /\ r \in Record
      /\ Sound(r, Total) /\ Past(r, server[j])
      /\ post.pc = "created" => j # post.id
  BY <1>1, Facts DEF SInv, Seen, Fresh
<1>3. /\ s \in TickState /\ s.awaits = "results" /\ s.id = j /\ s.answered = FALSE
      /\ s.final = (r.status = "completed")
  <2>1. (r.status = "completed") \in BOOLEAN /\ j \in Jobs \cup {NoJob}
    BY <1>2
  <2> QED BY <1>1, <2>1, Facts, Awaits, Zenon
<1> HIDE DEF s
<1>4. /\ tick' \in [Ticks -> TickState]'
      /\ \A k \in Jobs : Sound(server[k], Total)'
      /\ \A u \in Ticks : Seen(u)'
      /\ post.pc = "created" => \A u \in Ticks : tick'[u].id # post.id
      /\ tick'[t] = s /\ \A u \in Ticks \ {t} : tick'[u] = tick[u]
  BY <1>1, <1>2, <1>3, TickInvariant
<1> HIDE DEF r, j
<1>5. shown'.id = j /\ shown'.record = r /\ Total' = Total
  BY <1>1 DEF Total
<1>6. SInv'
  <2>1. shown' \in [id : Jobs \cup {NoJob}, record : Record]
    BY <1>1, <1>2
  <2>2. TypeOK'
    BY <1>1, <1>4, <2>1, SameTypes, Facts DEF TypeOK
  <2>3. Screen'
    BY <1>1, <1>2, <1>5 DEF SInv, Screen, Exists, Sound, Past
  <2>4. Fresh'
    BY <1>1, <1>2, <1>4, <1>5 DEF SInv, Fresh, Exists
  <2> QED BY <1>4, <2>2, <2>3, <2>4 DEF SInv
<1>7. ASSUME link = "prompt" PROVE PInv'
  <2>1. \A u \in Ticks \ {t} : tick'[u].awaits = "nothing"
    BY <1>1, <1>4, <1>7, Others DEF InFlight
  <2>2. Forward(t)' /\ Catching(t)' /\ Level'
    BY <1>3, <1>4, <1>5 DEF Forward, Catching, Level, Answered
  <2>3. Finishing'
    BY <1>3, <1>4, <1>5 DEF Finishing
  <2> QED BY <2>1, <2>2, <2>3, OnlyTick
<1> QED BY <1>1, <1>6, <1>7 DEF IInv, PInv

LEMMA ShowResultsStep ==
    ASSUME IInv, NEW t \in Ticks, ShowResults(t)
    PROVE  IInv'
<1> DEFINE j == tick[t].id
           n == tick[t].seen[j].saved
           s == IF tick[t].final THEN Await("rules", NoJob, FALSE) ELSE Ended
<1>1. /\ SInv /\ PInv /\ tick[t].awaits = "results" /\ tick[t].answered
      /\ tick' = [tick EXCEPT ![t] = s] /\ results' = [id |-> j, count |-> n]
      /\ UNCHANGED <<link, server, shown, rules, post>>
  BY DEF IInv, ShowResults, Answered
<1>2. /\ j \in Jobs /\ j # NoJob /\ Exists(j) /\ tick[t].seen[j] \in Record
      /\ Past(tick[t].seen[j], server[j])
      /\ post.pc = "created" => j # post.id /\ post.id # NoJob
  BY <1>1, Facts DEF SInv, Seen, Fresh
<1>3. /\ s \in TickState /\ s.id = NoJob /\ s.answered = FALSE
      /\ s.awaits = IF tick[t].final THEN "rules" ELSE "nothing"
  <2>1. FALSE \in BOOLEAN /\ NoJob \in Jobs \cup {NoJob}
        /\ "rules" \in {"job", "results", "rules"} /\ link \in Links
    BY <1>1, Facts
  <2>2. CASE tick[t].final
    BY <2>1, <2>2, Awaits, Zenon
  <2>3. CASE ~tick[t].final
    BY <2>1, <2>3, Awaits, Zenon
  <2> QED BY <2>2, <2>3
<1> HIDE DEF s
<1>4. /\ tick' \in [Ticks -> TickState]'
      /\ \A k \in Jobs : Sound(server[k], Total)'
      /\ \A u \in Ticks : Seen(u)'
      /\ post.pc = "created" => \A u \in Ticks : tick'[u].id # post.id
      /\ tick'[t] = s /\ \A u \in Ticks \ {t} : tick'[u] = tick[u]
  <2>1. s.awaits \notin {"job", "results"}
    BY <1>3
  <2> QED BY <1>1, <1>2, <1>3, <2>1, TickInvariant
<1>5. /\ results'.id = j /\ results'.count = n /\ Total' = Total
      /\ n \in 0 .. Total /\ n <= server[j].saved
  <2>1. n \in 0 .. Total
    BY <1>2 DEF Record
  <2> QED BY <1>1, <1>2, <2>1 DEF Total, Past
<1>6. tick[t].final \in BOOLEAN
  BY <1>1, Facts
<1>7. PInv /\ link = "prompt" =>
         /\ shown.record.processed = 0 \/ shown.record.processed <= n
         /\ shown.record.status = "completed" =>
               tick[t].final /\ j = shown.id /\ n = Total
  <2> SUFFICES ASSUME PInv, link = "prompt"
               PROVE  /\ shown.record.processed = 0 \/ shown.record.processed <= n
                      /\ shown.record.status = "completed" =>
                            tick[t].final /\ j = shown.id /\ n = Total
    OBVIOUS
  <2>1. Catching(t) /\ Finishing /\ \A u \in Ticks \ {t} : tick[u].awaits = "nothing"
    BY <1>1, Others DEF PInv, InFlight
  <2>2. shown.record.processed = 0 \/ shown.record.processed <= n
    BY <1>1, <2>1 DEF Catching
  <2>3. ~AtRest /\ tick[t].awaits # "rules"
    BY <1>1 DEF AtRest, InFlight
  <2>4. ASSUME shown.record.status = "completed"
        PROVE  tick[t].final /\ j = shown.id /\ n = Total
    <3>1. \E u \in Ticks : /\ tick[u].awaits = "results" /\ tick[u].final
                           /\ tick[u].id = shown.id
                           /\ tick[u].answered => tick[u].seen[shown.id].saved = Total
      <4>1. \A u \in Ticks : tick[u].awaits # "rules"
        BY <2>1, <2>3
      <4> QED BY <2>1, <2>3, <2>4, <4>1, Zenon DEF Finishing
    <3>2. PICK u \in Ticks : /\ tick[u].awaits = "results" /\ tick[u].final
                             /\ tick[u].id = shown.id
                             /\ tick[u].answered => tick[u].seen[shown.id].saved = Total
      BY <3>1, Zenon
    <3>3. u = t
      BY <2>1, <3>2
    <3> QED BY <1>1, <3>2, <3>3, Zenon
  <2> QED BY <2>2, <2>4
<1> HIDE DEF n, j
<1>8. SInv'
  <2>1. results' \in [id : Jobs \cup {NoJob}, count : 0 .. Total]
    BY <1>1, <1>2, <1>5
  <2>2. TypeOK'
    BY <1>1, <1>4, <2>1, SameTypes, Facts DEF TypeOK
  <2>3. Screen'
    BY <1>1, <1>2, <1>5 DEF SInv, Screen, Exists, Sound, Past
  <2>4. Fresh'
    BY <1>1, <1>2, <1>4, <1>5 DEF SInv, Fresh, Exists
  <2> QED BY <1>4, <2>2, <2>3, <2>4 DEF SInv
<1>9. ASSUME link = "prompt" PROVE PInv'
  <2>1. \A u \in Ticks \ {t} : tick'[u].awaits = "nothing"
    BY <1>1, <1>4, <1>9, Others DEF InFlight
  <2>2. Forward(t)' /\ Catching(t)'
    BY <1>3, <1>4 DEF Forward, Catching, Answered
  <2>3. Level'
    BY <1>1, <1>5, <1>7, <1>9 DEF Level
  <2>4. Finishing'
    <3> SUFFICES ASSUME shown.record.status = "completed" PROVE Finishing'
      BY <1>1 DEF Finishing
    <3>1. tick[t].final /\ j = shown.id /\ n = Total
      BY <1>1, <1>7, <1>9
    <3>2. tick'[t].awaits = "rules" /\ ~tick'[t].answered
      BY <1>3, <1>4, <3>1
    <3>3. AllResults'
      BY <1>1, <1>5, <3>1 DEF AllResults
    <3> QED BY <3>2, <3>3 DEF Finishing
  <2> QED BY <2>1, <2>2, <2>3, <2>4, OnlyTick
<1> QED BY <1>1, <1>8, <1>9 DEF IInv, PInv

LEMMA ShowRulesStep ==
    ASSUME IInv, NEW t \in Ticks, ShowRules(t)
    PROVE  IInv'
<1>1. /\ SInv /\ tick[t].awaits = "rules" /\ tick[t].answered
      /\ tick' = [tick EXCEPT ![t] = Ended]
      /\ rules' = [j \in Jobs |-> tick[t].seen[j].saved]
      /\ UNCHANGED <<link, server, shown, results, post>>
  BY DEF IInv, ShowRules, Answered
<1>2. /\ Ended \in TickState /\ Ended.awaits = "nothing" /\ Ended.id = NoJob
      /\ Ended.answered = FALSE
  <2>1. FALSE \in BOOLEAN /\ NoJob \in Jobs \cup {NoJob}
    OBVIOUS
  <2> QED BY <1>1, <2>1, Facts, Awaits
<1>3. post.pc = "created" => post.id # NoJob
  BY <1>1, Facts DEF SInv, Fresh
<1>4. /\ tick' \in [Ticks -> TickState]'
      /\ \A j \in Jobs : Sound(server[j], Total)'
      /\ \A u \in Ticks : Seen(u)'
      /\ post.pc = "created" => \A u \in Ticks : tick'[u].id # post.id
      /\ tick'[t] = Ended /\ \A u \in Ticks \ {t} : tick'[u] = tick[u]
  BY <1>1, <1>2, <1>3, TickInvariant
<1>5. Total' = Total
  BY <1>1 DEF Total
<1>6. SInv'
  <2>1. rules' \in [Jobs -> 0 .. Total]
    <3>1. \A j \in Jobs : tick[t].seen[j].saved \in 0 .. Total
      BY <1>1, Facts DEF Record
    <3> QED BY <1>1, <3>1
  <2>2. TypeOK'
    BY <1>1, <1>4, <2>1, <1>5, SameTypes, Facts DEF TypeOK
  <2>3. Screen'
    BY <1>1, <1>5 DEF SInv, Screen, Exists, Sound, Past
  <2>4. Fresh'
    BY <1>1, <1>4 DEF SInv, Fresh, Exists
  <2> QED BY <1>4, <2>2, <2>3, <2>4 DEF SInv
<1>7. ASSUME link = "prompt" PROVE PInv'
  <2>1. /\ \A u \in Ticks \ {t} : tick[u].awaits = "nothing" /\ tick'[u].awaits = "nothing"
        /\ ~AtRest
    BY <1>1, <1>4, <1>7, Others DEF InFlight
  <2>2. Forward(t)' /\ Catching(t)'
    BY <1>2, <1>4 DEF Forward, Catching, Answered
  <2>3. \A u \in Ticks : tick[u].awaits # "results"
    BY <1>1, <2>1
  <2>4. Level'
    BY <1>1, <1>7, <2>3 DEF IInv, PInv, Level
  <2>5. Finishing'
    <3> SUFFICES ASSUME shown.record.status = "completed" PROVE Finishing'
      BY <1>1 DEF Finishing
    <3>1. AllResults /\ tick[t].seen[shown.id].saved = Total
      <4>1. Finishing
        BY <1>7 DEF IInv, PInv
      <4>2. PICK u \in Ticks : /\ tick[u].awaits = "rules" /\ AllResults
                               /\ tick[u].answered => tick[u].seen[shown.id].saved = Total
        BY <2>1, <2>3, <4>1, Zenon DEF Finishing
      <4>3. u = t
        BY <2>1, <4>2
      <4> QED BY <1>1, <4>2, <4>3
    <3>2. shown.id \in Jobs
      BY <1>1, Facts, Absents DEF SInv, Screen
    <3>3. rules'[shown.id] = Total
      BY <1>1, <3>1, <3>2
    <3>4. AtRest'
      BY <1>2, <1>4, <2>1 DEF AtRest, InFlight
    <3> QED BY <1>1, <1>5, <3>1, <3>3, <3>4 DEF Finishing, AllResults
  <2> QED BY <2>1, <2>2, <2>4, <2>5, OnlyTick
<1> QED BY <1>1, <1>6, <1>7 DEF IInv, PInv

-----------------------------------------------------------------------------
LEMMA StutterStep ==
    ASSUME IInv, UNCHANGED vars
    PROVE  IInv'
<1>1. SInv /\ PInv /\ UNCHANGED <<link, server, shown, results, rules, post, tick>>
  BY DEF IInv, vars
<1>2. Total' = Total
  BY <1>1 DEF Total
<1>3. TypeOK'
  BY <1>1, SameTypes, Facts DEF TypeOK
<1>4. /\ \A k \in Jobs : Sound(server[k], Total)'
      /\ \A t \in Ticks : Seen(t)'
      /\ Screen' /\ Fresh'
  BY <1>1, <1>2 DEF SInv, Seen, Screen, Fresh, Exists, Sound, Past
<1>5. PInv'
  BY <1>1, PromptStays
<1> QED BY <1>3, <1>4, <1>5 DEF IInv, SInv

LEMMA NextInv == IInv /\ [Next]_vars => IInv'
<1> SUFFICES ASSUME IInv, [Next]_vars PROVE IInv'
  OBVIOUS
<1>1. ASSUME NEW j \in Jobs, Save(j) PROVE IInv'
  BY <1>1, SaveStep
<1>2. ASSUME NEW j \in Jobs, Count(j) PROVE IInv'
  BY <1>2, CountStep
<1>3. ASSUME NEW j \in Jobs, Complete(j) PROVE IInv'
  BY <1>3, CompleteStep
<1>4. ASSUME NEW j \in Jobs, CreateProbe(j) PROVE IInv'
  BY <1>4, CreateProbeStep
<1>5. CASE Submit \/ SubmitFails
  BY <1>5, SubmitStep
<1>6. CASE ShowCreated
  BY <1>6, ShowCreatedStep
<1>7. ASSUME NEW t \in Ticks, Fire(t) PROVE IInv'
  BY <1>7, FireStep
<1>8. ASSUME NEW t \in Ticks, Serve(t) PROVE IInv'
  BY <1>8, ServeStep
<1>9. ASSUME NEW t \in Ticks, Fail(t) PROVE IInv'
  BY <1>9, FailStep
<1>10. ASSUME NEW t \in Ticks, ShowJob(t) PROVE IInv'
  BY <1>10, ShowJobStep
<1>11. ASSUME NEW t \in Ticks, ShowResults(t) PROVE IInv'
  BY <1>11, ShowResultsStep
<1>12. ASSUME NEW t \in Ticks, ShowRules(t) PROVE IInv'
  BY <1>12, ShowRulesStep
<1>13. CASE UNCHANGED vars
  BY <1>13, StutterStep
<1> QED
  BY <1>1, <1>2, <1>3, <1>4, <1>5, <1>6, <1>7, <1>8, <1>9, <1>10, <1>11, <1>12, <1>13
  DEF Next

LEMMA Invariance == Spec => []IInv
BY InitInv, NextInv, PTL DEF Spec

\* App.tsx and store.ts: the screen, the ticks and the server's records keep
\* their shape.
THEOREM TypeCorrect == Spec => []TypeOK
<1>1. IInv => TypeOK
  BY DEF IInv, SInv
<1> QED BY <1>1, Invariance, PTL

-----------------------------------------------------------------------------
(* The screen.                                                             *)

LEMMA Whole == IInv => FinalScreenIsWhole
<1> SUFFICES ASSUME IInv, link = "prompt", AtRest, shown.record.status = "completed"
             PROVE  /\ results = [id |-> shown.id, count |-> Total]
                    /\ rules[shown.id] = Total
  BY DEF FinalScreenIsWhole
<1>1. Finishing /\ \A t \in Ticks : tick[t].awaits = "nothing"
  BY DEF IInv, PInv, AtRest, InFlight
<1>2. AllResults /\ rules[shown.id] = Total
  BY <1>1 DEF Finishing
<1> QED BY <1>2 DEF AllResults

\* Over a prompt connection the polling stops on a screen that is whole: all the
\* results of the completed job and the rules they yield.
THEOREM FinalWhole == Spec => []FinalScreenIsWhole
BY Whole, Invariance, PTL

\* Of the steps that write the screen, one is for a new job and the others cannot
\* write an earlier state.
LEMMA ForwardStep ==
    ASSUME IInv, Next, link = "prompt", shown'.id = shown.id
    PROVE  /\ shown.record.processed <= shown'.record.processed
           /\ results.id = results'.id => results.count <= results'.count
<1>1. shown.record.processed \in Nat /\ results.count \in Nat
  BY Facts, Numbers DEF IInv, TypeOK
<1>2. CASE shown' = shown /\ results' = results
  BY <1>1, <1>2
<1>3. CASE ShowCreated
  <2>1. shown'.id = post.id /\ shown.id # post.id
    BY <1>3 DEF ShowCreated, IInv, SInv, Fresh
  <2> QED BY <2>1
<1>4. ASSUME NEW t \in Ticks, ShowJob(t)
      PROVE  /\ shown.record.processed <= shown'.record.processed
             /\ results' = results
  <2>1. /\ Answered(t, "job") /\ shown'.id = tick[t].id /\ results' = results
        /\ shown'.record = tick[t].seen[tick[t].id]
    BY <1>4 DEF ShowJob
  <2>2. Forward(t)
    BY DEF IInv, PInv
  <2> QED BY <2>1, <2>2 DEF Forward
<1>5. ASSUME NEW t \in Ticks, ShowResults(t)
      PROVE  /\ shown' = shown
             /\ results.id = results'.id => results.count <= results'.count
  <2>1. /\ Answered(t, "results") /\ results'.id = tick[t].id /\ shown' = shown
        /\ results'.count = tick[t].seen[tick[t].id].saved
    BY <1>5 DEF ShowResults
  <2>2. Forward(t)
    BY DEF IInv, PInv
  <2> QED BY <2>1, <2>2 DEF Forward
<1>6. \/ shown' = shown /\ results' = results
      \/ ShowCreated
      \/ \E t \in Ticks : ShowJob(t) \/ ShowResults(t)
  BY DEF Next, Save, Count, Complete, SetRecord, CreateProbe, Submit, SubmitFails,
         Fire, Serve, Fail, ShowRules
<1> QED BY <1>1, <1>2, <1>3, <1>4, <1>5, <1>6

\* No tick in flight awaits results, so the table is level with the bar.
LEMMA RestIsLevel ==
    ASSUME IInv', link' = "prompt", AtRest'
    PROVE  shown'.record.processed <= results'.count
BY DEF IInv, PInv, Level, AtRest, InFlight

\* Over a prompt connection the screen only moves forward for the job it shows,
\* and a tick leaves the table level with the progress bar.
THEOREM NeverBack == Spec => ScreenNeverGoesBack
<1> DEFINE Step ==
      link = "prompt" /\ shown'.id = shown.id =>
         /\ shown.record.processed <= shown'.record.processed
         /\ results.id = results'.id => results.count <= results'.count
         /\ AtRest' => shown'.record.processed <= results'.count
<1>1. IInv /\ IInv' /\ [Next]_vars => [Step]_vars
  <2> SUFFICES ASSUME IInv, IInv', Next, link = "prompt", shown'.id = shown.id
               PROVE  /\ shown.record.processed <= shown'.record.processed
                      /\ results.id = results'.id => results.count <= results'.count
                      /\ AtRest' => shown'.record.processed <= results'.count
    OBVIOUS
  <2>1. link' = link
    BY DEF Next, Save, Count, Complete, SetRecord, CreateProbe, Submit, ShowCreated,
           SubmitFails, Fire, Serve, Fail, ShowJob, ShowResults, ShowRules
  <2> QED BY <2>1, ForwardStep, RestIsLevel
<1> QED BY <1>1, Invariance, PTL DEF Spec, ScreenNeverGoesBack
=============================================================================
