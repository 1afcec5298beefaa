--------------------------- MODULE DeliveryProofs ---------------------------
(***************************************************************************)
(* Machine-checked proofs about Delivery, for any domains and clients, any *)
(* normalization and pattern, over either store.                           *)
(***************************************************************************)
EXTENDS Delivery, TLAPS

\* What a client is told was right at some moment since it asked, and the rules
\* a request has listed render to what was.
Window(s) ==
    /\ s.pc = "listed" => OptimizedDomains(s.rules) \in s.window
    /\ s.answer # 0 => s.pc = "answered"
    /\ s.answer = 200 => s.body.domains \in s.window
    /\ s.answer = 304 => s.copy.domains \in s.window

\* An Xray object carries no time, and is not the one the client has.
Stamps(s) ==
    s.list = "xray" =>
        /\ s.copy.time = 0 /\ s.body.time = 0
        /\ s.answer = 200 /\ s.copy.there => s.copy.domains # s.body.domains

Listens(s) == s.pc # "idle" => Ruleset \in s.window

IInv == TypeOK /\ \A c \in Clients : /\ Listens(client[c])
                                     /\ Window(client[c])
                                     /\ Stamps(client[c])

-----------------------------------------------------------------------------
(* The operators of the module.                                            *)

\* Either store, once what it lists is filtered, yields the right ruleset.
LEMMA ListedIsRuleset == OptimizedDomains(ListOptimizedRules) = Ruleset
<1>1. "none" \notin OptimizedStatus
  BY DEF OptimizedStatus
<1>2. ASSUME NEW n PROVE n \in OptimizedDomains(ListOptimizedRules) <=> n \in Ruleset
  <2>1. ASSUME n \in OptimizedDomains(ListOptimizedRules) PROVE n \in Ruleset
    BY <2>1 DEF OptimizedDomains, ListOptimizedRules, Ruleset, Promoted
  <2>2. ASSUME n \in Ruleset PROVE n \in OptimizedDomains(ListOptimizedRules)
    <3>1. PICK d \in Domains : latest[d] \in OptimizedStatus /\ n = normalizeDomain[d]
      BY <2>2 DEF Ruleset, Promoted
    <3> DEFINE r == [domain |-> d, status |-> latest[d]]
    <3>2. r \in ListOptimizedRules
      BY <1>1, <3>1 DEF ListOptimizedRules
    <3> QED BY <2>2, <3>1, <3>2 DEF OptimizedDomains, Ruleset
  <2> QED BY <2>1, <2>2
<1> QED BY <1>2

LEMMA Listed ==
    ASSUME TypeOK
    PROVE  ListOptimizedRules \subseteq Rule
<1>1. \A d \in Domains : latest[d] # "none" => latest[d] \in ClassificationStatus
  BY DeliveryAssumption DEF TypeOK
<1>2. "none" \notin OptimizedStatus
  BY DEF OptimizedStatus
<1> QED BY <1>1, <1>2 DEF ListOptimizedRules, Rule

LEMMA RulesetNames ==
    /\ Ruleset \subseteq Names
    /\ \A rules \in SUBSET Rule : OptimizedDomains(rules) \subseteq Names
<1>1. Ruleset \subseteq Names
  BY DeliveryAssumption DEF Ruleset, Promoted
<1>2. ASSUME NEW rules \in SUBSET Rule PROVE OptimizedDomains(rules) \subseteq Names
  BY <1>2, DeliveryAssumption DEF OptimizedDomains, Rule
<1> QED BY <1>1, <1>2

\* Payloads with the same parts are the same: an ETag tells no more.
LEMMA SamePayload ==
    ASSUME NEW p \in Payload, NEW q \in Payload,
           p.domains = q.domains, p.time = q.time, p.there = q.there
    PROVE  p = q
<1>1. p = [domains |-> p.domains, time |-> p.time, there |-> p.there]
  BY DEF Payload
<1>2. q = [domains |-> q.domains, time |-> q.time, there |-> q.there]
  BY DEF Payload
<1> QED BY <1>1, <1>2

LEMMA Start ==
    ASSUME NEW l \in {"surge", "xray"}, NEW p \in Payload, l = "xray" => p.time = 0
    PROVE  /\ Idle(l, p) \in Client
           /\ Idle(l, p).pc = "idle"
           /\ Window(Idle(l, p)) /\ Stamps(Idle(l, p))
<1>1. Nothing \in Payload /\ Nothing.time = 0
  BY DeliveryAssumption DEF Nothing, Payload
<1>2. Idle(l, p) \in Client /\ Idle(l, p).pc = "idle"
  BY <1>1 DEF Idle, Client, Code
<1>3. /\ Idle(l, p).answer = 0 /\ Idle(l, p).list = l
      /\ Idle(l, p).copy = p /\ Idle(l, p).body = Nothing
  BY DEF Idle
<1> QED BY <1>1, <1>2, <1>3 DEF Window, Stamps

\* A step of one client that leaves the store alone.
LEMMA OneClient ==
    ASSUME IInv, NEW c \in Clients, NEW s \in Client,
           client' = [client EXCEPT ![c] = s],
           UNCHANGED <<backend, latest, traces, now>>,
           Listens(s), Window(s), Stamps(s)
    PROVE  IInv'
<1>1. TypeOK'
  BY DEF IInv, TypeOK
<1>2. Ruleset' = Ruleset
  BY DEF Ruleset, Promoted
<1>3. ASSUME NEW d \in Clients PROVE client'[d] = IF d = c THEN s ELSE client[d]
  BY DEF IInv, TypeOK
<1>4. ASSUME NEW d \in Clients
      PROVE  Listens(client[d])' /\ Window(client[d])' /\ Stamps(client[d])'
  <2>1. CASE d = c
    <3>1. client'[d] = s
      BY <1>3, <2>1
    <3> QED BY <1>2, <3>1 DEF Listens, Window, Stamps, OptimizedDomains
  <2>2. CASE d # c
    <3>1. client'[d] = client[d] /\ Listens(client[d]) /\ Window(client[d]) /\ Stamps(client[d])
      BY <1>3, <2>2 DEF IInv
    <3> QED BY <1>2, <3>1 DEF Listens, Window, Stamps, OptimizedDomains
  <2> QED BY <2>1, <2>2
<1> QED BY <1>1, <1>4 DEF IInv

-----------------------------------------------------------------------------
(* The steps.                                                              *)

LEMMA InitInv == Init => IInv
<1> SUFFICES ASSUME Init PROVE IInv
  OBVIOUS
<1>1. Nothing \in Payload /\ Nothing.time = 0
  BY DeliveryAssumption DEF Nothing, Payload
<1>2. \A c \in Clients : /\ client[c] \in Client /\ client[c].pc = "idle"
                         /\ Window(client[c]) /\ Stamps(client[c])
  BY <1>1, Start DEF Init
<1>3. TypeOK
  BY <1>2, DeliveryAssumption DEF Init, TypeOK
<1> QED BY <1>2, <1>3 DEF IInv, Listens

LEMMA SaveTraceStep ==
    ASSUME IInv, NEW d \in Domains, NEW s \in Statuses, SaveTrace(d, s)
    PROVE  IInv'
<1>1. Ruleset' \subseteq Names
  BY DeliveryAssumption DEF Ruleset, Promoted
<1>2. ASSUME NEW c \in Clients
      PROVE  /\ client'[c] \in Client
             /\ Listens(client[c])' /\ Window(client[c])' /\ Stamps(client[c])'
  <2>0. client[c] \in Client /\ Window(client[c]) /\ Stamps(client[c])
    BY DEF IInv, TypeOK
  <2>1. CASE client[c].pc = "idle"
    <3>1. client'[c] = client[c]
      BY <2>1 DEF SaveTrace
    <3> QED BY <2>0, <2>1, <3>1 DEF Listens, Window, Stamps, OptimizedDomains
  <2>2. CASE client[c].pc # "idle"
    <3> DEFINE t == [client[c] EXCEPT !.window = @ \cup {Ruleset'}]
    <3>1. client'[c] = t
      BY <2>2 DEF SaveTrace
    <3>2. /\ t.pc = client[c].pc /\ t.list = client[c].list /\ t.copy = client[c].copy
          /\ t.rules = client[c].rules /\ t.answer = client[c].answer
          /\ t.body = client[c].body
          /\ t.window = client[c].window \cup {Ruleset'}
          /\ t \in Client
      BY <1>1, <2>0 DEF Client
    <3> HIDE DEF t
    <3>3. Listens(client[c])'
      BY <3>1, <3>2 DEF Listens
    <3>4. Window(client[c])'
      BY <2>0, <3>1, <3>2 DEF Window, OptimizedDomains
    <3>5. Stamps(client[c])'
      BY <2>0, <3>1, <3>2 DEF Stamps
    <3> QED BY <3>1, <3>2, <3>3, <3>4, <3>5
  <2> QED BY <2>1, <2>2
<1>3. client' = [c \in Clients |-> client'[c]]
  BY DEF SaveTrace
<1>4. TypeOK'
  <2>1. client' \in [Clients -> Client]
    BY <1>2, <1>3
  <2>2. latest' \in [Domains -> Statuses \cup {"none"}] /\ traces' \in 0 .. MaxTraces
    BY DeliveryAssumption DEF IInv, TypeOK, SaveTrace
  <2> QED BY <2>1, <2>2 DEF IInv, TypeOK, SaveTrace
<1> QED BY <1>2, <1>4 DEF IInv

LEMMA SendStep ==
    ASSUME IInv, NEW c \in Clients, Send(c)
    PROVE  IInv'
<1> DEFINE t == [client[c] EXCEPT !.pc = "sent", !.window = {Ruleset}]
<1>1. client[c] \in Client /\ Window(client[c]) /\ Stamps(client[c]) /\ client[c].pc = "idle"
  BY DEF IInv, TypeOK, Send
<1>2. /\ t.pc = "sent" /\ t.window = {Ruleset} /\ t.answer = client[c].answer
      /\ t.list = client[c].list /\ t.copy = client[c].copy /\ t.body = client[c].body
      /\ t \in Client
  <2> HIDE DEF Ruleset
  <2>1. {Ruleset} \in SUBSET SUBSET Names
    BY RulesetNames
  <2> QED BY <1>1, <2>1 DEF Client
<1>3. client' = [client EXCEPT ![c] = t]
  BY DEF Send, IInv, TypeOK
<1> HIDE DEF t
<1>4. Listens(t) /\ Window(t) /\ Stamps(t)
  BY <1>1, <1>2 DEF Listens, Window, Stamps
<1> QED BY <1>2, <1>3, <1>4, OneClient DEF Send

LEMMA ListStep ==
    ASSUME IInv, NEW c \in Clients, List(c)
    PROVE  IInv'
<1> DEFINE t == [client[c] EXCEPT !.pc = "listed", !.rules = ListOptimizedRules]
<1>1. /\ client[c] \in Client /\ Window(client[c]) /\ Stamps(client[c])
      /\ client[c].pc = "sent" /\ Listens(client[c]) /\ TypeOK
  BY DEF IInv, TypeOK, List
<1>2. /\ t.pc = "listed" /\ t.window = client[c].window /\ t.answer = client[c].answer
      /\ t.list = client[c].list /\ t.copy = client[c].copy /\ t.body = client[c].body
      /\ t.rules = ListOptimizedRules
      /\ t \in Client
  BY <1>1, Listed DEF Client
<1>3. client' = [client EXCEPT ![c] = t]
  BY DEF List, IInv, TypeOK
<1> HIDE DEF t
<1>4. OptimizedDomains(t.rules) \in t.window
  BY <1>1, <1>2, ListedIsRuleset DEF Listens
<1>5. Listens(t) /\ Window(t) /\ Stamps(t)
  BY <1>1, <1>2, <1>4 DEF Listens, Window, Stamps
<1> QED BY <1>2, <1>3, <1>5, OneClient DEF List

\* What an answer has to be: an error, a ruleset of the window that the client
\* lacks, or leave to keep one of the window.
LEMMA AnswerStep ==
    ASSUME IInv, NEW c \in Clients, client[c].pc # "idle",
           NEW status \in {200, 304, 500}, NEW body \in Payload, Answer(c, status, body),
           status = 200 => body.domains \in client[c].window,
           status = 304 => client[c].copy.domains \in client[c].window,
           client[c].list = "xray" =>
               /\ body.time = 0
               /\ status = 200 /\ client[c].copy.there =>
                     client[c].copy.domains # body.domains
    PROVE  IInv'
<1> DEFINE t == [client[c] EXCEPT !.pc = "answered", !.rules = {}, !.answer = status,
                                  !.body = body]
<1>1. client[c] \in Client /\ Stamps(client[c]) /\ Listens(client[c])
  BY DEF IInv, TypeOK
<1>2. /\ t.pc = "answered" /\ t.window = client[c].window /\ t.answer = status
      /\ t.list = client[c].list /\ t.copy = client[c].copy /\ t.body = body
      /\ t \in Client
  <2>1. /\ t.pc = "answered" /\ t.window = client[c].window /\ t.answer = status
        /\ t.list = client[c].list /\ t.copy = client[c].copy /\ t.body = body
    BY <1>1 DEF Client
  <2>2. status \in Code /\ {} \in SUBSET Rule
    BY DEF Code
  <2>3. t \in Client
    BY <1>1, <2>2 DEF Client
  <2> QED BY <2>1, <2>3
<1>3. client' = [client EXCEPT ![c] = t]
  BY DEF Answer, IInv, TypeOK
<1> HIDE DEF t
<1>4. Listens(t) /\ Window(t)
  BY <1>1, <1>2 DEF Listens, Window
<1>5. Stamps(t)
  BY <1>1, <1>2 DEF Stamps
<1> QED BY <1>2, <1>3, <1>4, <1>5, OneClient DEF Answer

LEMMA DeliverStep ==
    ASSUME IInv, NEW c \in Clients, Deliver(c)
    PROVE  IInv'
<1> DEFINE rules == client[c].rules
           payload == Render(client[c].list, rules)
<1>1. /\ client[c] \in Client /\ Window(client[c]) /\ Stamps(client[c])
      /\ client[c].pc = "listed" /\ now \in 0 .. MaxTime
  BY DEF IInv, TypeOK, Deliver
<1>2. Nothing \in Payload /\ Nothing.time = 0
  BY DeliveryAssumption DEF Nothing, Payload
<1>3. rules \in SUBSET Rule /\ client[c].copy \in Payload /\ client[c].list \in {"surge", "xray"}
  BY <1>1 DEF Client
<1>4. /\ payload \in Payload /\ payload.there /\ payload.domains = OptimizedDomains(rules)
      /\ client[c].list = "xray" => payload.time = 0
  BY <1>1, <1>3, RulesetNames, DeliveryAssumption DEF Render, Payload
<1>5. OptimizedDomains(rules) \in client[c].window
  BY <1>1 DEF Window
<1>6. CASE Answer(c, 500, Nothing)
  BY <1>1, <1>2, <1>6, AnswerStep
<1>7. CASE client[c].copy = payload /\ Answer(c, 304, Nothing)
  <2>1. client[c].copy.domains \in client[c].window
    BY <1>4, <1>5, <1>7
  <2> QED BY <1>1, <1>2, <1>7, <2>1, AnswerStep
<1>8. CASE ~(client[c].copy.there /\ client[c].copy = payload) /\ Answer(c, 200, payload)
  <2>1. ASSUME client[c].list = "xray", client[c].copy.there
        PROVE  client[c].copy.domains # payload.domains
    <3>1. client[c].copy.time = payload.time /\ client[c].copy.there = payload.there
      BY <1>1, <1>3, <1>4, <2>1 DEF Stamps, Payload
    <3>2. client[c].copy # payload
      BY <1>8, <2>1
    <3> QED BY <1>3, <1>4, <3>1, <3>2, SamePayload
  <2> QED BY <1>1, <1>4, <1>5, <1>8, <2>1, AnswerStep
<1> QED BY <1>6, <1>7, <1>8 DEF Deliver, writeCacheable, ETag

\* A client that is done, or gives up, holds a copy of the kind it asks for.
LEMMA RestStep ==
    ASSUME IInv, NEW c \in Clients, NEW p \in {client[c].copy, client[c].body},
           client' = [client EXCEPT ![c] = Idle(@.list, p)],
           UNCHANGED <<backend, latest, traces, now>>
    PROVE  IInv'
<1>1. client[c] \in Client /\ Stamps(client[c])
  BY DEF IInv, TypeOK
<1>2. client[c].list \in {"surge", "xray"} /\ p \in Payload
  BY <1>1 DEF Client
<1>3. client[c].list = "xray" => p.time = 0
  BY <1>1 DEF Stamps
<1> DEFINE t == Idle(client[c].list, p)
<1>4. t \in Client /\ t.pc = "idle" /\ Window(t) /\ Stamps(t)
  BY <1>2, <1>3, Start
<1>5. client' = [client EXCEPT ![c] = t]
  BY DEF IInv, TypeOK
<1> HIDE DEF t
<1> QED BY <1>4, <1>5, OneClient DEF Listens

LEMMA RestartStep ==
    ASSUME IInv, Restart
    PROVE  IInv'
<1>1. ASSUME NEW c \in Clients
      PROVE  /\ client'[c] \in Client /\ client'[c].pc = "idle"
             /\ Window(client'[c]) /\ Stamps(client'[c])
  <2>1. client[c] \in Client /\ Stamps(client[c])
    BY DEF IInv, TypeOK
  <2>2. client[c].list \in {"surge", "xray"} /\ client[c].copy \in Payload
    BY <2>1 DEF Client
  <2>3. client[c].list = "xray" => client[c].copy.time = 0
    BY <2>1 DEF Stamps
  <2> QED BY <2>2, <2>3, Start DEF Restart
<1>2. \A c \in Clients : Listens(client[c])' /\ Window(client[c])' /\ Stamps(client[c])'
  BY <1>1 DEF Listens, Window, Stamps, OptimizedDomains
<1>3. client' \in [Clients -> Client]
  BY <1>1 DEF Restart
<1>4. latest' \in [Domains -> Statuses \cup {"none"}]
  BY DEF Restart, IInv, TypeOK
<1> QED BY <1>2, <1>3, <1>4 DEF IInv, TypeOK, Restart

LEMMA TickStep ==
    ASSUME IInv, Tick
    PROVE  IInv'
<1>1. TypeOK'
  BY DeliveryAssumption DEF IInv, TypeOK, Tick
<1>2. Ruleset' = Ruleset /\ client' = client
  BY DEF Ruleset, Promoted, Tick
<1> QED BY <1>1, <1>2 DEF IInv, Listens, Window, Stamps, OptimizedDomains

LEMMA NextInv == IInv /\ [Next]_vars => IInv'
<1> SUFFICES ASSUME IInv, [Next]_vars PROVE IInv'
  OBVIOUS
<1>1. ASSUME NEW d \in Domains, NEW s \in Statuses, SaveTrace(d, s) PROVE IInv'
  BY <1>1, SaveTraceStep
<1>2. ASSUME NEW c \in Clients, Send(c) PROVE IInv'
  BY <1>2, SendStep
<1>3. ASSUME NEW c \in Clients, List(c) PROVE IInv'
  BY <1>3, ListStep
<1>4. ASSUME NEW c \in Clients, ListFails(c) PROVE IInv'
  <2>1. Nothing \in Payload /\ Nothing.time = 0
    BY DeliveryAssumption DEF Nothing, Payload
  <2> QED BY <1>4, <2>1, AnswerStep DEF ListFails
<1>5. ASSUME NEW c \in Clients, Deliver(c) PROVE IInv'
  BY <1>5, DeliverStep
<1>6. ASSUME NEW c \in Clients, Receive(c) PROVE IInv'
  <2>1. Copy(c) \in {client[c].copy, client[c].body}
    BY DEF Copy
  <2> QED BY <1>6, <2>1, RestStep DEF Receive
<1>7. ASSUME NEW c \in Clients, Lose(c) PROVE IInv'
  <2>1. client' = [client EXCEPT ![c] = Idle(@.list, client[c].copy)]
    BY <1>7 DEF Lose, IInv, TypeOK
  <2> QED BY <1>7, <2>1, RestStep DEF Lose
<1>8. CASE Tick
  BY <1>8, TickStep
<1>9. CASE Restart
  BY <1>9, RestartStep
<1>10. CASE UNCHANGED vars
  <2>1. Ruleset' = Ruleset /\ client' = client
    BY <1>10 DEF Ruleset, Promoted, vars
  <2>2. TypeOK'
    BY <1>10 DEF IInv, TypeOK, vars
  <2> QED BY <2>1, <2>2 DEF IInv, Listens, Window, Stamps, OptimizedDomains
<1> QED
  BY <1>1, <1>2, <1>3, <1>4, <1>5, <1>6, <1>7, <1>8, <1>9, <1>10 DEF Next

LEMMA Invariance == Spec => []IInv
BY InitInv, NextInv, PTL DEF Spec

-----------------------------------------------------------------------------
\* A ruleset holds names only, and a copy or an answer is a whole ruleset or
\* none (delivery.go, handlers.go: getSurgeRuleset, getXrayRouting).
THEOREM TypeCorrect == Spec => []TypeOK
<1>1. IInv => TypeOK
  BY DEF IInv
<1> QED BY <1>1, Invariance, PTL

\* Whatever is saved while a request is served, a client that is sent a ruleset,
\* or told to keep its copy, ends up with one that was right since it asked.
THEOREM EndsCurrent == Spec => []PollEndsCurrent
<1>1. IInv => PollEndsCurrent
  BY DEF IInv, Window, PollEndsCurrent, Copy
<1> QED BY <1>1, Invariance, PTL

\* An Xray object is sent only to a client that lacks its domains.
THEOREM SentOnlyWhenNew == Spec => []UnchangedIsNotSent
<1>1. IInv => UnchangedIsNotSent
  BY DEF IInv, Stamps, UnchangedIsNotSent
<1> QED BY <1>1, Invariance, PTL
=============================================================================
