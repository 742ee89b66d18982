--------------------------- MODULE AppAgentProofs ---------------------------
(***************************************************************************)
(* Proofs about AppAgent, for any number of apps and of connections: calls *)
(* go by what the poller heard, and what it heard is no older than its     *)
(* last round.                                                             *)
(***************************************************************************)
EXTENDS AppAgent, TLAPS

\* What the statuses and the answer under way say about the apps.
StatusInv ==
  /\ reply # "none" => poll.at = "answer" /\ (reply = "idle") \in since[poll.app]
  /\ \A a \in Apps : (phone[a] = "idle") \in since[a]
  /\ \A a \in Apps : status[a] = "idle" => TRUE \in since[a]
  /\ \A a \in heard : Polled(a) \/ FALSE \in since[a] \/ status[a] = "idle"

Inv == TypeOK /\ StatusInv

-----------------------------------------------------------------------------
(* Types.                                                                  *)

ConnType == [at : {"closed", "reading", "connect", "wait", "ending"}, app : 0 .. AppCount,
             got : {"nothing", "line_is_busy", "answer"}, owed : SUBSET Apps]

\* A record a connection may hold: one that works with an app names it.
ConnRecord(r) == r \in ConnType /\ (r.at \in {"connect", "wait", "ending"} => r.app # 0)

\* What is not about the connections.
RestType ==
  /\ status \in [Apps -> Status]
  /\ poll \in [at : {"sleep", "connect", "answer"}, app : 0 .. AppCount]
  /\ poll.at # "sleep" => poll.app # 0
  /\ reply \in {"none", "idle", "busy"}
  /\ phone \in [Apps -> Phone]
  /\ since \in [Apps -> SUBSET BOOLEAN]
  /\ heard \in SUBSET Apps

LEMMA TypeParts == TypeOK <=> RestType /\ conn \in [Conns -> ConnType] /\ \A c \in Conns : ConnRecord(conn[c])
<1>1. ASSUME conn \in [Conns -> ConnType], NEW c \in Conns
      PROVE  conn[c] \in ConnType
  BY <1>1
<1> QED
  BY <1>1 DEF TypeOK, RestType, ConnRecord, ConnType

\* The same of the next state.
LEMMA TypePartsNext ==
  ASSUME RestType', conn' \in [Conns -> ConnType], \A c \in Conns : ConnRecord(conn'[c])
  PROVE  TypeOK'
<1>1. ASSUME NEW c \in Conns  PROVE conn'[c] \in ConnType
  OBVIOUS
<1> QED
  BY <1>1 DEF TypeOK, RestType, ConnRecord, ConnType

\* A connection that moves to a record of the type keeps the types.
LEMMA MoveType ==
  ASSUME TypeOK, NEW c \in Conns, NEW r, ConnRecord(r), Move(c, r)
  PROVE  TypeOK'
<1>1. RestType'
  BY TypeParts DEF Move, RestType
<1>2. conn' \in [Conns -> ConnType]
  BY TypeParts DEF Move, ConnRecord
<1>3. \A d \in Conns : ConnRecord(conn'[d])
  BY TypeParts DEF Move
<1> QED
  BY <1>1, <1>2, <1>3, TypePartsNext

\* What a connection may become.
LEMMA ConnEdits ==
  ASSUME NEW r \in ConnType, NEW a \in Apps
  PROVE  /\ ConnRecord(Closed(r))
         /\ \A g \in {"nothing", "line_is_busy", "answer"} : ConnRecord(Told(r, g))
         /\ ConnRecord([r EXCEPT !.at = "connect", !.app = a])
         /\ ConnRecord([r EXCEPT !.at = "ending", !.app = a])
         /\ r.app # 0 => ConnRecord([r EXCEPT !.at = "wait"])
         /\ \A o \in SUBSET Apps : [r EXCEPT !.owed = o] \in ConnType
<1>1. 0 \in 0 .. AppCount /\ a \in 0 .. AppCount /\ a # 0
  BY AgentAssumption DEF Apps
<1>2. Closed(r) \in ConnType /\ Closed(r).at = "closed"
  BY <1>1 DEF Closed, ConnType
<1>3. ASSUME NEW g \in {"nothing", "line_is_busy", "answer"}
      PROVE  ConnRecord(Told(r, g))
  BY <1>2, <1>3 DEF Told, ConnType, ConnRecord
<1>4. ConnRecord([r EXCEPT !.at = "connect", !.app = a])
  BY <1>1 DEF ConnType, ConnRecord
<1>5. ConnRecord([r EXCEPT !.at = "ending", !.app = a])
  BY <1>1 DEF ConnType, ConnRecord
<1>6. r.app # 0 => ConnRecord([r EXCEPT !.at = "wait"])
  BY DEF ConnType, ConnRecord
<1>7. ASSUME NEW o \in SUBSET Apps
      PROVE  [r EXCEPT !.owed = o] \in ConnType
  BY <1>7 DEF ConnType
<1> QED
  BY <1>2, <1>3, <1>4, <1>5, <1>6, <1>7 DEF ConnRecord

\* The loop of the broadcast leaves a connection closed or with an app to tell.
LEMMA BroadcastType ==
  ASSUME TypeOK, NEW c \in Conns, NEW r \in ConnType, NEW a \in 0 .. AppCount, Broadcast(c, r, a)
  PROVE  TypeOK'
<1> DEFINE rest == {b \in Apps : b > a /\ status[b] # "offline"}
<1>0. 1 \in Apps
  BY AgentAssumption DEF Apps
<1>1. CASE rest = {}
  BY <1>0, <1>1, ConnEdits, MoveType DEF Broadcast
<1>2. CASE rest # {}
  <2>1. PICK b \in rest : Move(c, [r EXCEPT !.at = "ending", !.app = b])
    BY <1>2 DEF Broadcast
  <2> QED
    BY <2>1, ConnEdits, MoveType
<1> QED
  BY <1>1, <1>2

LEMMA TypeStep ==
  ASSUME TypeOK, [Next]_vars
  PROVE  TypeOK'
<1> USE AgentAssumption
<1>0. \A c \in Conns : conn[c] \in ConnType /\ ConnRecord(conn[c])
  BY TypeParts
<1>1. ASSUME NEW a \in Apps, NEW p \in Phone, PhoneChanges(a, p)  PROVE TypeOK'
  <2>1. ASSUME NEW c \in Conns  PROVE ConnRecord(conn'[c]) /\ conn'[c] \in ConnType
    <3>1. (IF p = "down" THEN conn[c].owed \ {a} ELSE conn[c].owed) \in SUBSET Apps
      BY <1>0 DEF ConnType
    <3>2. conn'[c] = [conn[c] EXCEPT !.owed = IF p = "down" THEN @ \ {a} ELSE @]
      BY <1>1 DEF PhoneChanges
    <3> QED
      BY <1>0, <3>1, <3>2 DEF ConnRecord, ConnType
  <2>2. conn' \in [Conns -> ConnType]
    BY <1>1, <2>1 DEF PhoneChanges
  <2>3. RestType'
    BY <1>1 DEF TypeOK, RestType, PhoneChanges
  <2> QED
    BY <2>1, <2>2, <2>3, TypePartsNext
<1>2. CASE PhoneAnswersPoll
  BY <1>2 DEF TypeOK, PhoneAnswersPoll, Phone, Apps
<1>3. ASSUME NEW st \in [Apps -> Status], NEW a \in Apps, Ask(st, a)
      PROVE  /\ status' \in [Apps -> Status]
             /\ poll' \in [at : {"sleep", "connect", "answer"}, app : 0 .. AppCount]
             /\ poll'.at # "sleep" => poll'.app # 0
             /\ since' \in [Apps -> SUBSET BOOLEAN]
  BY <1>3 DEF TypeOK, Ask, Apps, Status
<1>4. ASSUME NEW st \in [Apps -> Status], AskNext(st)
      PROVE  /\ status' \in [Apps -> Status]
             /\ poll' \in [at : {"sleep", "connect", "answer"}, app : 0 .. AppCount]
             /\ poll'.at # "sleep" => poll'.app # 0
             /\ since' \in [Apps -> SUBSET BOOLEAN]
  <2>1. CASE poll.app < AppCount
    <3>1. poll.app + 1 \in Apps
      BY <2>1 DEF TypeOK, Apps
    <3> QED
      BY <1>3, <1>4, <2>1, <3>1 DEF AskNext
  <2>2. CASE ~(poll.app < AppCount)
    BY <1>4, <2>2 DEF AskNext, TypeOK
  <2> QED
    BY <2>1, <2>2
<1>5. CASE StartRound
  <2>1. 1 \in Apps /\ Ask(status, 1)
    BY <1>5 DEF StartRound, Apps
  <2> QED
    BY <1>3, <1>5, <2>1 DEF TypeOK, StartRound
<1>6. CASE PollConnects
  BY <1>6 DEF TypeOK, PollConnects
<1>7. CASE PollAnswered
  <2>1. [status EXCEPT ![poll.app] = reply] \in [Apps -> Status]
    BY <1>7 DEF TypeOK, PollAnswered, Status
  <2>2. poll.app \in Apps
    BY <1>7 DEF TypeOK, PollAnswered, Apps
  <2> QED
    BY <1>4, <1>7, <2>1, <2>2 DEF TypeOK, PollAnswered
<1>8. CASE PollFails
  BY <1>4, <1>8 DEF TypeOK, PollFails
<1>9. ASSUME NEW c \in Conns, Accept(c) \/ Request(c) \/ Serve(c)  PROVE TypeOK'
  <2>0. 1 \in Apps
    BY DEF Apps
  <2>1. CASE Accept(c)
    <3>1. ConnRecord(Fresh)
      <4>1. 0 \in 0 .. AppCount
        OBVIOUS
      <4> QED
        BY <4>1 DEF ConnRecord, ConnType, Fresh
    <3> QED
      BY <2>1, <3>1, MoveType DEF Accept
  <2>2. CASE ReadFails(c) \/ CallFails(c) \/ CallDropped(c)
    BY <1>0, <2>0, <2>2, ConnEdits, MoveType DEF ReadFails, CallFails, CallDropped
  <2>3. CASE DeliverCall(c)
    <3>1. PICK a \in Apps : Move(c, [conn[c] EXCEPT !.at = "connect", !.app = a])
      BY <2>3 DEF DeliverCall
    <3> QED
      BY <1>0, <3>1, ConnEdits, MoveType
  <2>4. CASE LineIsBusy(c) \/ CallAnswered(c)
    BY <1>0, <2>0, <2>4, ConnEdits, MoveType DEF LineIsBusy, CallAnswered
  <2>5. CASE CallConnects(c)
    <3>1. conn[c].app # 0
      BY <1>0, <2>5 DEF CallConnects, ConnRecord
    <3> QED
      BY <1>0, <2>0, <2>5, <3>1, ConnEdits, MoveType DEF CallConnects
  <2>6. CASE CallEnding(c)
    <3>1. {a \in heard : phone[a] # "down"} \in SUBSET Apps /\ 0 \in 0 .. AppCount
      BY DEF TypeOK
    <3> QED
      BY <1>0, <2>0, <2>6, <3>1, ConnEdits, BroadcastType DEF CallEnding
  <2>7. CASE EndingSent(c)
    <3>1. conn[c].owed \ {conn[c].app} \in SUBSET Apps /\ conn[c].app \in 0 .. AppCount
      BY <1>0 DEF ConnType
    <3> QED
      BY <1>0, <2>0, <2>7, <3>1, ConnEdits, BroadcastType DEF EndingSent
  <2>8. CASE EndingFails(c)
    <3>1. conn[c].owed \ {conn[c].app} \in SUBSET Apps
      BY <1>0 DEF ConnType
    <3> QED
      BY <1>0, <2>0, <2>8, <3>1, ConnEdits, MoveType DEF EndingFails
  <2> QED
    BY <1>9, <2>1, <2>2, <2>3, <2>4, <2>5, <2>6, <2>7, <2>8 DEF Request, Serve
<1>10. CASE UNCHANGED vars
  BY <1>10 DEF TypeOK, vars
<1> QED
  BY <1>1, <1>2, <1>5, <1>6, <1>7, <1>8, <1>9, <1>10 DEF Next, Poller

-----------------------------------------------------------------------------
(* What the agent knows.                                                   *)

\* A step that leaves the poller and the apps alone leaves what is known of them.
LEMMA ConnStep ==
  ASSUME StatusInv, UNCHANGED <<status, poll, reply, phone, since, heard>>
  PROVE  StatusInv'
BY DEF StatusInv, Polled

\* The poller goes on, with st as the statuses and heard' as the apps it heard: what
\* is known of the others stays, and nothing is known of the one that is asked.
LEMMA AskKnows ==
  ASSUME TypeOK, StatusInv, NEW st \in [Apps -> Status],
         AskNext(st) \/ Ask(st, 1),
         phone' = phone, reply' = "none", heard' \subseteq Apps,
         \A a \in Apps : st[a] = "idle" => TRUE \in since[a],
         \A a \in heard' : FALSE \in since[a] \/ st[a] = "idle"
  PROVE  StatusInv'
<1>1. ASSUME NEW b \in Apps, Ask(st, b)
      PROVE  StatusInv'
  <2>1. poll'.at # "sleep" /\ poll'.app = b
    BY <1>1 DEF Ask
  <2>2. ASSUME NEW a \in Apps
        PROVE  /\ (phone'[a] = "idle") \in since'[a]
               /\ status'[a] = "idle" => TRUE \in since'[a]
    BY <1>1 DEF Ask, TypeOK, StatusInv
  <2>3. ASSUME NEW a \in heard', a # b
        PROVE  FALSE \in since'[a] \/ status'[a] = "idle"
    BY <1>1, <2>3 DEF Ask, TypeOK
  <2> QED
    BY <2>1, <2>2, <2>3 DEF StatusInv, Polled
<1>2. CASE AskNext(st) /\ poll.app < AppCount
  <2>1. poll.app + 1 \in Apps
    BY <1>2, AgentAssumption DEF TypeOK, Apps
  <2> QED
    BY <1>1, <1>2, <2>1 DEF AskNext
<1>3. CASE AskNext(st) /\ ~(poll.app < AppCount)
  <2>1. status' = st /\ since' = since
    BY <1>3 DEF AskNext
  <2> QED
    BY <2>1 DEF StatusInv, Polled
<1>4. CASE Ask(st, 1)
  BY <1>1, <1>4, AgentAssumption DEF Apps
<1> QED
  BY <1>2, <1>3, <1>4

LEMMA KnowledgeStep ==
  ASSUME Inv, [Next]_vars
  PROVE  StatusInv'
<1> USE AgentAssumption DEF Inv
<1>1. ASSUME NEW a \in Apps, NEW p \in Phone, PhoneChanges(a, p)  PROVE StatusInv'
  <2>1. \A b \in Apps : since[b] \subseteq since'[b]
    BY <1>1 DEF PhoneChanges, TypeOK
  <2>2. reply # "none" => poll.app \in Apps
    BY DEF TypeOK, StatusInv, Apps
  <2>3. ASSUME NEW b \in Apps
        PROVE  (phone'[b] = "idle") \in since'[b]
    BY <1>1, <2>1 DEF PhoneChanges, StatusInv, TypeOK
  <2>4. UNCHANGED <<status, poll, reply, heard>>
    BY <1>1 DEF PhoneChanges
  <2>5. heard \subseteq Apps
    BY DEF TypeOK
  <2> QED
    BY <2>1, <2>2, <2>3, <2>4, <2>5 DEF StatusInv, Polled
<1>2. CASE PhoneAnswersPoll
  <2>1. poll.app \in Apps
    BY <1>2 DEF TypeOK, PhoneAnswersPoll, Apps
  <2>2. (phone[poll.app] = "idle") \in since[poll.app]
    BY <2>1 DEF StatusInv
  <2> QED
    BY <1>2, <2>2 DEF PhoneAnswersPoll, StatusInv, Polled
<1>3. CASE PollConnects
  <2>1. poll'.app = poll.app /\ poll'.at = "answer" /\ reply = "none"
    BY <1>3 DEF PollConnects, TypeOK, StatusInv
  <2>2. UNCHANGED <<status, reply, phone, since, heard>>
    BY <1>3 DEF PollConnects
  <2> QED
    BY <1>3, <2>1, <2>2 DEF PollConnects, StatusInv, Polled
<1>4. CASE StartRound
  <2>1. reply = "none" /\ \A a \in heard : ~Polled(a)
    BY <1>4 DEF StartRound, StatusInv, Polled, TypeOK
  <2>2. status \in [Apps -> Status] /\ heard \subseteq Apps
    BY DEF TypeOK
  <2> QED
    BY <1>4, <2>1, <2>2, AskKnows DEF StartRound, StatusInv
<1>5. CASE PollAnswered
  <2> DEFINE st == [status EXCEPT ![poll.app] = reply]
  <2>1. poll.app \in Apps /\ (reply = "idle") \in since[poll.app]
    BY <1>5 DEF PollAnswered, TypeOK, StatusInv, Apps
  <2>2. st \in [Apps -> Status]
    BY <1>5 DEF PollAnswered, TypeOK, Status
  <2>3. ASSUME NEW a \in Apps, st[a] = "idle"
        PROVE  TRUE \in since[a]
    BY <2>1, <2>3 DEF TypeOK, StatusInv
  <2>4. ASSUME NEW a \in heard \cup {poll.app}
        PROVE  FALSE \in since[a] \/ st[a] = "idle"
    <3>1. CASE a = poll.app
      BY <2>1, <3>1 DEF TypeOK
    <3>2. CASE a # poll.app
      BY <3>2 DEF TypeOK, StatusInv, Polled
    <3> QED
      BY <3>1, <3>2
  <2>5. heard \cup {poll.app} \subseteq Apps
    BY <2>1 DEF TypeOK
  <2> QED
    BY <1>5, <2>2, <2>3, <2>4, <2>5, AskKnows DEF PollAnswered
<1>6. CASE PollFails
  <2>1. status \in [Apps -> Status] /\ heard \ {poll.app} \subseteq Apps
    BY DEF TypeOK
  <2>2. \A a \in heard \ {poll.app} : FALSE \in since[a] \/ status[a] = "idle"
    BY DEF StatusInv, Polled
  <2> QED
    BY <1>6, <2>1, <2>2, AskKnows DEF PollFails, StatusInv
<1>7. ASSUME NEW c \in Conns, Accept(c) \/ Request(c) \/ Serve(c)  PROVE StatusInv'
  BY <1>7, ConnStep
     DEF Accept, Request, Serve, DeliverCall, LineIsBusy, CallEnding, CallAnswered, CallDropped,
         ReadFails, CallConnects, CallFails, EndingSent, EndingFails, Broadcast, Move
<1>8. CASE UNCHANGED vars
  BY <1>8, ConnStep DEF vars
<1> QED
  BY <1>1, <1>2, <1>3, <1>4, <1>5, <1>6, <1>7, <1>8 DEF Next, Poller

LEMMA InvInit == Init => Inv
<1> SUFFICES ASSUME Init PROVE Inv
  OBVIOUS
<1>1. RestType
  BY AgentAssumption DEF Init, RestType, Apps, Status
<1>2. ASSUME NEW c \in Conns  PROVE conn[c] \in ConnType /\ ConnRecord(conn[c])
  <2>1. 0 \in 0 .. AppCount
    BY AgentAssumption
  <2> QED
    BY <2>1 DEF Init, Fresh, ConnType, ConnRecord
<1>3. conn \in [Conns -> ConnType]
  BY <1>2 DEF Init
<1>4. StatusInv
  BY DEF Init, StatusInv
<1> QED
  BY <1>1, <1>2, <1>3, <1>4, TypeParts DEF Inv

LEMMA Invariance == Spec => []Inv
<1>1. Inv /\ [Next]_vars => Inv'
  BY TypeStep, KnowledgeStep DEF Inv
<1> QED
  BY InvInit, <1>1, PTL DEF Spec

\* Every reachable state of the agent is well typed: every greenlet that works with
\* an app works with one of the list.
THEOREM TypeCorrect == Spec => []TypeOK
<1>1. Inv => TypeOK
  BY DEF Inv
<1> QED
  BY Invariance, <1>1, PTL

-----------------------------------------------------------------------------
(* What the boxes get.                                                     *)

\* What a move makes of its connection and of the others.
LEMMA Moved ==
  ASSUME TypeOK, NEW c \in Conns, NEW r, Move(c, r)
  PROVE  conn'[c] = r /\ \A d \in Conns : d # c => conn'[d] = conn[d]
BY DEF Move, TypeOK

\* The steps in which a box is given to an app, or told that the line is busy.
LEMMA Answers ==
  ASSUME Inv, [Next]_vars, NEW d \in Conns
  PROVE  /\ conn[d].at = "reading" /\ conn'[d].at = "connect" => TRUE \in since[conn'[d].app]
         /\ conn[d].got # "line_is_busy" /\ conn'[d].got = "line_is_busy" => \A a \in Apps : status[a] # "idle"
<1> DEFINE Given == conn[d].at = "reading" /\ conn'[d].at = "connect" => TRUE \in since[conn'[d].app]
<1> DEFINE Refused == conn[d].got # "line_is_busy" /\ conn'[d].got = "line_is_busy"
                        => \A a \in Apps : status[a] # "idle"
<1> USE DEF Inv
<1>0. TypeOK /\ \A c \in Conns : conn[c] \in ConnType
  BY TypeParts
<1>1. CASE UNCHANGED conn
  BY <1>1
<1>2. ASSUME NEW a \in Apps, NEW p \in Phone, PhoneChanges(a, p)  PROVE Given /\ Refused
  <2>1. conn'[d] = [conn[d] EXCEPT !.owed = IF p = "down" THEN @ \ {a} ELSE @]
    BY <1>2 DEF PhoneChanges
  <2>2. conn'[d].at = conn[d].at /\ conn'[d].got = conn[d].got
    BY <1>0, <2>1 DEF ConnType
  <2> QED
    BY <2>2
<1>3. ASSUME NEW c \in Conns, NEW r, Move(c, r),
             c = d => /\ conn[d].at = "reading" /\ r.at = "connect" => TRUE \in since[r.app]
                      /\ conn[d].got # "line_is_busy" /\ r.got = "line_is_busy" => \A a \in Apps : status[a] # "idle"
      PROVE  Given /\ Refused
  BY <1>0, <1>3, Moved
<1>4. ASSUME NEW c \in Conns, NEW r \in ConnType, NEW x, r.at = conn[c].at, r.got = conn[c].got, Broadcast(c, r, x)
      PROVE  Given /\ Refused
  <2>1. CASE Move(c, Closed(r))
    BY <1>3, <1>4, <2>1 DEF Closed, ConnType
  <2>2. ASSUME NEW b \in Apps, Move(c, [r EXCEPT !.at = "ending", !.app = b])
        PROVE  Given /\ Refused
    BY <1>3, <1>4, <2>2 DEF ConnType
  <2> QED
    BY <1>4, <2>1, <2>2 DEF Broadcast
<1>5. ASSUME NEW c \in Conns, Accept(c) \/ Request(c) \/ Serve(c)  PROVE Given /\ Refused
  <2>0. conn[c] \in ConnType
    BY <1>0
  <2>1. CASE Accept(c)
    BY <1>3, <2>1 DEF Accept, Fresh
  <2>2. CASE ReadFails(c) \/ CallFails(c) \/ CallDropped(c)
    BY <1>3, <2>0, <2>2 DEF ReadFails, CallFails, CallDropped, Closed, ConnType
  <2>3. CASE DeliverCall(c)
    <3>1. PICK a \in Apps : status[a] = "idle" /\ Move(c, [conn[c] EXCEPT !.at = "connect", !.app = a])
      BY <2>3 DEF DeliverCall, FirstIdle
    <3>2. TRUE \in since[a]
      BY <3>1 DEF StatusInv
    <3> QED
      BY <1>3, <2>0, <3>1, <3>2 DEF ConnType
  <2>4. CASE LineIsBusy(c)
    BY <1>3, <2>0, <2>4 DEF LineIsBusy, Told, Closed, ConnType
  <2>5. CASE CallAnswered(c)
    BY <1>3, <2>0, <2>5 DEF CallAnswered, Told, Closed, ConnType
  <2>6. CASE CallConnects(c)
    BY <1>3, <2>0, <2>6 DEF CallConnects, ConnType
  <2>7. CASE CallEnding(c)
    <3>1. {a \in heard : phone[a] # "down"} \in SUBSET Apps
      BY DEF TypeOK
    <3> QED
      BY <1>4, <2>0, <2>7, <3>1 DEF CallEnding, ConnType
  <2>8. CASE EndingSent(c)
    <3>1. conn[c].owed \ {conn[c].app} \in SUBSET Apps
      BY <2>0 DEF ConnType
    <3> QED
      BY <1>4, <2>0, <2>8, <3>1 DEF EndingSent, ConnType
  <2>9. CASE EndingFails(c)
    BY <1>3, <2>0, <2>9 DEF EndingFails, Closed, ConnType
  <2> QED
    BY <1>5, <2>1, <2>2, <2>3, <2>4, <2>5, <2>6, <2>7, <2>8, <2>9 DEF Request, Serve
<1>6. CASE PhoneAnswersPoll \/ Poller
  BY <1>1, <1>6 DEF PhoneAnswersPoll, Poller, StartRound, PollConnects, PollAnswered, PollFails
<1> QED
  BY <1>1, <1>2, <1>5, <1>6 DEF Next, vars

\* delivery_call_to_idle_app: a call is given only to an app that really was idle
\* since it was last asked, for any number of apps and of boxes.
THEOREM IdleAppsGetCalls == Spec => CallsGoToIdle
<1>1. Inv /\ [Next]_vars =>
        [\A c \in Conns : conn[c].at = "reading" /\ conn'[c].at = "connect" => TRUE \in since[conn'[c].app]]_vars
  BY Answers
<1> QED
  BY Invariance, <1>1, PTL DEF Spec, CallsGoToIdle

\* Nobody hears line_is_busy while an app that answers has been idle since it was
\* asked, unless it is being asked right then.
THEOREM RefusalsAreNeeded == Spec => NoNeedlessRefusal
<1>1. Inv /\ [Next]_vars =>
        [\A c \in Conns :
           conn[c].got # "line_is_busy" /\ conn'[c].got = "line_is_busy" =>
             \A a \in heard : Polled(a) \/ FALSE \in since[a]]_vars
  <2>1. Inv => \A a \in heard : a \in Apps /\ (Polled(a) \/ FALSE \in since[a] \/ status[a] = "idle")
    BY DEF Inv, StatusInv, TypeOK
  <2> QED
    BY <2>1, Answers
<1> QED
  BY Invariance, <1>1, PTL DEF Spec, NoNeedlessRefusal

-----------------------------------------------------------------------------
(* What the apps get.                                                      *)

\* An app that answered is not taken for offline until it is asked again.
KnownInv == \A a \in heard : Polled(a) \/ status[a] # "offline"

\* The poller goes on, with st as the statuses and heard' as the apps it heard.
LEMMA AskKeeps ==
  ASSUME TypeOK, NEW st \in [Apps -> Status], AskNext(st) \/ Ask(st, 1),
         heard' \subseteq Apps, \A a \in heard' : st[a] # "offline"
  PROVE  KnownInv'
<1>1. ASSUME NEW b \in Apps, Ask(st, b)
      PROVE  KnownInv'
  <2>1. poll'.at # "sleep" /\ poll'.app = b /\ status' = [st EXCEPT ![b] = "offline"]
    BY <1>1 DEF Ask
  <2>2. \A a \in heard' : a # b => status'[a] = st[a]
    BY <2>1
  <2> QED
    BY <2>1, <2>2 DEF KnownInv, Polled
<1>2. CASE AskNext(st) /\ poll.app < AppCount
  <2>1. poll.app + 1 \in Apps
    BY <1>2, AgentAssumption DEF TypeOK, Apps
  <2> QED
    BY <1>1, <1>2, <2>1 DEF AskNext
<1>3. CASE AskNext(st) /\ ~(poll.app < AppCount)
  BY <1>3 DEF AskNext, KnownInv
<1>4. CASE Ask(st, 1)
  BY <1>1, <1>4, AgentAssumption DEF Apps
<1> QED
  BY <1>2, <1>3, <1>4

LEMMA KnownStep ==
  ASSUME TypeOK, KnownInv, [Next]_vars
  PROVE  KnownInv'
<1> USE AgentAssumption
<1>0. heard \subseteq Apps /\ status \in [Apps -> Status]
  BY DEF TypeOK
<1>1. CASE UNCHANGED <<status, poll, heard>>
  BY <1>1 DEF KnownInv, Polled
<1>2. CASE StartRound
  <2>1. \A a \in heard : ~Polled(a)
    BY <1>2 DEF StartRound, Polled
  <2> QED
    BY <1>0, <1>2, <2>1, AskKeeps DEF StartRound, KnownInv
<1>3. CASE PollConnects
  BY <1>3 DEF PollConnects, TypeOK, KnownInv, Polled
<1>4. CASE PollAnswered
  <2> DEFINE st == [status EXCEPT ![poll.app] = reply]
  <2>1. poll.app \in Apps /\ reply \in {"idle", "busy"}
    BY <1>4 DEF PollAnswered, TypeOK, Apps
  <2>2. st \in [Apps -> Status]
    BY <1>0, <2>1 DEF Status
  <2>3. \A a \in heard \cup {poll.app} : st[a] # "offline"
    BY <1>0, <2>1 DEF KnownInv, Polled
  <2> QED
    BY <1>0, <1>4, <2>1, <2>2, <2>3, AskKeeps DEF PollAnswered
<1>5. CASE PollFails
  <2>1. \A a \in heard \ {poll.app} : status[a] # "offline"
    BY DEF KnownInv, Polled
  <2> QED
    BY <1>0, <1>5, <2>1, AskKeeps DEF PollFails
<1>6. ASSUME NEW c \in Conns, Accept(c) \/ Request(c) \/ Serve(c)  PROVE KnownInv'
  BY <1>1, <1>6
     DEF Accept, Request, Serve, DeliverCall, LineIsBusy, CallEnding, CallAnswered, CallDropped,
         ReadFails, CallConnects, CallFails, EndingSent, EndingFails, Broadcast, Move
<1> QED
  BY <1>1, <1>2, <1>3, <1>4, <1>5, <1>6 DEF Next, Poller, PhoneChanges, PhoneAnswersPoll, vars

\* The loop tells the next app after x that is not offline, or ends.
LEMMA Passed ==
  ASSUME TypeOK, KnownInv, NEW c \in Conns, NEW r \in ConnType, NEW x \in 0 .. AppCount,
         Broadcast(c, r, x), NEW a \in heard, x < a, conn'[c].at = "ending" => a < conn'[c].app
  PROVE  Polled(a)
<1> DEFINE rest == {b \in Apps : b > x /\ status[b] # "offline"}
<1>1. a \in Apps
  BY DEF TypeOK
<1>2. ASSUME a \in rest  PROVE FALSE
  <2>1. PICK b \in rest : (\A d \in rest : b <= d) /\ Move(c, [r EXCEPT !.at = "ending", !.app = b])
    BY <1>2 DEF Broadcast
  <2>2. conn'[c] = [r EXCEPT !.at = "ending", !.app = b]
    BY <2>1, Moved
  <2>3. conn'[c].at = "ending" /\ conn'[c].app = b
    BY <2>2 DEF ConnType
  <2>4. a < b /\ b <= a
    BY <1>2, <2>1, <2>3
  <2> QED
    BY <1>1, <2>1, <2>4 DEF Apps
<1>3. a > x
  BY <1>1, AgentAssumption DEF Apps
<1> QED
  BY <1>1, <1>2, <1>3 DEF KnownInv

\* broadcast_call_ending passes over nobody who answered, but the app that is being
\* polled: with what EndingFails does, the whole of why some hear nothing.
THEOREM BroadcastSkipsPolled == Spec => SkipsOnlyPolled
<1>1. Init => KnownInv
  BY DEF Init, KnownInv
<1>2. ASSUME TypeOK, KnownInv, NEW c \in Conns, CallEnding(c) \/ EndingSent(c),
             NEW a \in heard,
             (IF conn[c].at = "reading" THEN 0 ELSE conn[c].app) < a,
             conn'[c].at = "ending" => a < conn'[c].app
      PROVE  Polled(a)
  <2>1. conn[c] \in ConnType /\ 0 \in 0 .. AppCount
    BY <1>2, TypeParts, AgentAssumption
  <2>2. CASE CallEnding(c)
    <3> DEFINE r == [conn[c] EXCEPT !.owed = {b \in heard : phone[b] # "down"}]
    <3>1. r \in ConnType
      BY <1>2, <2>1 DEF TypeOK, ConnType
    <3>2. conn[c].at = "reading" /\ Broadcast(c, r, 0)
      BY <2>2 DEF CallEnding
    <3> HIDE DEF r
    <3> QED
      BY <1>2, <2>1, <3>1, <3>2, Passed
  <2>3. CASE EndingSent(c)
    <3> DEFINE r == [conn[c] EXCEPT !.owed = @ \ {conn[c].app}]
    <3>1. r \in ConnType /\ conn[c].app \in 0 .. AppCount
      BY <2>1 DEF ConnType
    <3>2. conn[c].at = "ending" /\ Broadcast(c, r, conn[c].app)
      BY <2>3 DEF EndingSent
    <3> HIDE DEF r
    <3> QED
      BY <1>2, <3>1, <3>2, Passed
  <2> QED
    BY <1>2, <2>2, <2>3
<1>3. TypeOK /\ KnownInv /\ [Next]_vars =>
        [\A c \in Conns :
           LET from == IF conn[c].at = "reading" THEN 0 ELSE conn[c].app IN
           CallEnding(c) \/ EndingSent(c) =>
             \A a \in heard : from < a /\ (conn'[c].at = "ending" => a < conn'[c].app) => Polled(a)]_vars
  BY <1>2
<1> QED
  BY <1>1, <1>3, KnownStep, TypeCorrect, PTL DEF Spec, SkipsOnlyPolled

-----------------------------------------------------------------------------
(* Who misses a call_ending.                                               *)

\* No app is being asked while a call_ending is owed to it.
NotAsked == \A c \in Conns : \A a \in conn[c].owed : ~Polled(a)

\* Every app that is told of the end of a call can be reached.
AllReachable == [][\A c \in Conns : ~EndingFails(c)]_vars

\* Apps wait for a call_ending only while it is sent, and only ahead of the loop.
OwedInv ==
  \A c \in Conns :
    /\ conn[c].owed \subseteq heard
    /\ conn[c].at # "ending" => conn[c].owed = {}
    /\ \A a \in conn[c].owed : conn[c].app <= a

\* The loop has gone on from app x, with r as the connection.
LEMMA OwedAhead ==
  ASSUME TypeOK, KnownInv, NotAsked', UNCHANGED poll, NEW c \in Conns, NEW r \in ConnType,
         NEW x \in 0 .. AppCount, Broadcast(c, r, x), r.owed \subseteq heard,
         \A a \in r.owed : x < a
  PROVE  /\ conn'[c].owed = r.owed
         /\ \A a \in r.owed : conn'[c].at = "ending" /\ conn'[c].app <= a
<1>1. ASSUME Move(c, Closed(r))  PROVE conn'[c].owed = r.owed /\ conn'[c].app \in Nat
  <2>1. conn'[c] = Closed(r)
    BY <1>1, Moved
  <2> QED
    BY <2>1 DEF Closed, ConnType
<1>2. ASSUME NEW b \in Apps, Move(c, [r EXCEPT !.at = "ending", !.app = b])
      PROVE  conn'[c].owed = r.owed /\ conn'[c].app \in Nat
  <2>1. conn'[c] = [r EXCEPT !.at = "ending", !.app = b]
    BY <1>2, Moved
  <2> QED
    BY <2>1, AgentAssumption DEF ConnType, Apps
<1>3. conn'[c].owed = r.owed /\ conn'[c].app \in Nat
  BY <1>1, <1>2, Zenon DEF Broadcast
<1>4. ASSUME NEW a \in r.owed  PROVE conn'[c].at = "ending" /\ conn'[c].app <= a
  <2>1. ~Polled(a)
    <3>1. ~Polled(a)'
      BY <1>4, <1>3 DEF NotAsked
    <3> QED
      BY <3>1 DEF Polled
  <2>2. a \in Nat
    <3>1. a \in Apps
      BY <1>4 DEF TypeOK
    <3> QED
      BY <3>1, AgentAssumption DEF Apps
  <2>3. a \in heard /\ x < a
    BY <1>4
  <2>4. ~(conn'[c].at = "ending" => a < conn'[c].app)
    BY <2>1, <2>3, Passed
  <2> QED
    BY <1>3, <2>2, <2>4
<1> QED
  BY <1>3, <1>4

\* Every step keeps what is owed ahead of its loop.
LEMMA OwedStep ==
  ASSUME TypeOK, KnownInv, OwedInv, NotAsked, NotAsked', [Next]_vars,
         [\A c \in Conns : ~EndingFails(c)]_vars
  PROVE  OwedInv'
<1> USE AgentAssumption
<1>0. \A c \in Conns : conn[c] \in ConnType
  BY TypeParts
<1>1. CASE UNCHANGED <<conn, heard>>
  BY <1>1 DEF OwedInv
<1>2. ASSUME NEW a \in Apps, NEW p \in Phone, PhoneChanges(a, p)  PROVE OwedInv'
  <2>1. \A c \in Conns : /\ conn'[c].at = conn[c].at /\ conn'[c].app = conn[c].app
                         /\ conn'[c].owed \subseteq conn[c].owed
    BY <1>0, <1>2 DEF PhoneChanges, ConnType
  <2> QED
    BY <1>2, <2>1 DEF PhoneChanges, OwedInv
<1>3. CASE PollAnswered
  BY <1>3 DEF PollAnswered, OwedInv
<1>4. CASE PollFails
  <2>1. \A c \in Conns : poll.app \notin conn[c].owed
    BY <1>4 DEF PollFails, NotAsked, Polled
  <2> QED
    BY <1>4, <2>1 DEF PollFails, OwedInv
<1>5. ASSUME NEW c \in Conns, Accept(c) \/ Request(c) \/ Serve(c)  PROVE OwedInv'
  <2>1. ~EndingFails(c)
    <3> SUFFICES ASSUME EndingFails(c)  PROVE FALSE
      OBVIOUS
    <3> DEFINE r == Closed([conn[c] EXCEPT !.owed = @ \ {conn[c].app}])
    <3>1. conn[c].at = "ending" /\ Move(c, r) /\ UNCHANGED vars
      BY DEF EndingFails
    <3>2. r.at = "closed"
      BY <1>0 DEF Closed, ConnType
    <3> HIDE DEF r
    <3> QED
      BY <3>1, <3>2, Moved DEF vars
  <2>2. heard' = heard /\ poll' = poll /\ \A d \in Conns : d # c => conn'[d] = conn[d]
    BY <1>5
       DEF Accept, Request, Serve, DeliverCall, LineIsBusy, CallEnding, CallAnswered, CallDropped,
           ReadFails, CallConnects, CallFails, EndingSent, EndingFails, Broadcast, Move, TypeOK
  <2>3. SUFFICES /\ conn'[c].owed \subseteq heard
                 /\ conn'[c].at # "ending" => conn'[c].owed = {}
                 /\ \A a \in conn'[c].owed : conn'[c].app <= a
    BY <2>2 DEF OwedInv
  <2>4. CASE CallEnding(c)
    <3> DEFINE r == [conn[c] EXCEPT !.owed = {a \in heard : phone[a] # "down"}]
    <3>1. r \in ConnType /\ r.owed \subseteq heard /\ r.owed \subseteq Apps
      BY <1>0 DEF TypeOK, ConnType
    <3>2. Broadcast(c, r, 0) /\ \A a \in r.owed : 0 < a
      BY <2>4, <3>1 DEF CallEnding, Apps
    <3> HIDE DEF r
    <3>3. 0 \in 0 .. AppCount
      OBVIOUS
    <3> QED
      BY <2>2, <3>1, <3>2, <3>3, OwedAhead
  <2>5. CASE EndingSent(c)
    <3> DEFINE r == [conn[c] EXCEPT !.owed = @ \ {conn[c].app}]
    <3>1. r \in ConnType /\ r.owed \subseteq heard /\ r.owed \subseteq Apps
      BY <1>0 DEF OwedInv, ConnType
    <3>2. conn[c].app \in 0 .. AppCount /\ \A a \in r.owed : conn[c].app <= a /\ a # conn[c].app
      BY <1>0 DEF OwedInv, ConnType
    <3>3. Broadcast(c, r, conn[c].app) /\ \A a \in r.owed : conn[c].app < a
      BY <2>5, <3>1, <3>2 DEF EndingSent, Apps
    <3> HIDE DEF r
    <3> QED
      BY <2>2, <3>1, <3>2, <3>3, OwedAhead
  <2>6. ASSUME ~CallEnding(c), ~EndingSent(c)  PROVE conn'[c].owed = {}
    <3>1. conn[c].at # "ending" => conn[c].owed = {}
      BY DEF OwedInv
    <3>2. CASE Accept(c)
      <4>1. conn'[c] = Fresh
        BY <3>2, Moved DEF Accept
      <4> QED
        BY <4>1 DEF Fresh
    <3>3. CASE DeliverCall(c)
      <4>1. PICK a \in Apps : Move(c, [conn[c] EXCEPT !.at = "connect", !.app = a])
        BY <3>3 DEF DeliverCall
      <4>2. conn'[c] = [conn[c] EXCEPT !.at = "connect", !.app = a] /\ conn[c].at = "reading"
        BY <3>3, <4>1, Moved DEF DeliverCall
      <4> QED
        BY <1>0, <3>1, <4>2 DEF ConnType
    <3>4. CASE LineIsBusy(c) \/ CallAnswered(c)
      <4>1. PICK got : Move(c, Told(conn[c], got)) /\ conn[c].at # "ending"
        BY <3>4 DEF LineIsBusy, CallAnswered
      <4>2. conn'[c] = Told(conn[c], got)
        BY <4>1, Moved
      <4> QED
        BY <1>0, <3>1, <4>1, <4>2 DEF Told, Closed, ConnType
    <3>5. CASE CallDropped(c) \/ ReadFails(c) \/ CallFails(c)
      <4>1. Move(c, Closed(conn[c])) /\ conn[c].at # "ending"
        BY <3>5 DEF CallDropped, ReadFails, CallFails
      <4>2. conn'[c] = Closed(conn[c])
        BY <4>1, Moved
      <4> QED
        BY <1>0, <3>1, <4>1, <4>2 DEF Closed, ConnType
    <3>6. CASE CallConnects(c)
      <4>1. Move(c, [conn[c] EXCEPT !.at = "wait"]) /\ conn[c].at # "ending"
        BY <3>6 DEF CallConnects
      <4>2. conn'[c] = [conn[c] EXCEPT !.at = "wait"]
        BY <4>1, Moved
      <4> QED
        BY <1>0, <3>1, <4>1, <4>2 DEF ConnType
    <3> QED
      BY <1>5, <2>1, <2>6, <3>2, <3>3, <3>4, <3>5, <3>6 DEF Request, Serve
  <2> QED
    BY <2>4, <2>5, <2>6
<1> QED
  BY <1>1, <1>2, <1>3, <1>4, <1>5
     DEF Next, Poller, StartRound, PollConnects, PhoneAnswersPoll, vars

\* A call_ending reaches every app it is owed to if none of them is polled meanwhile and
\* all can be reached: the poll that sets an app offline (appserver.py:49) and the missing
\* except (appserver.py:188) are all there is to it, with any number of apps and boxes.
THEOREM UndisturbedEnding ==
  Init /\ [][Next]_vars /\ []NotAsked /\ AllReachable => []EndingReachesAll
<1>1. Init => TypeOK /\ KnownInv /\ OwedInv
  BY InvInit DEF Inv, Init, KnownInv, OwedInv, Fresh
<1>2. TypeOK /\ KnownInv /\ OwedInv /\ NotAsked /\ NotAsked' /\ [Next]_vars
        /\ [\A c \in Conns : ~EndingFails(c)]_vars
      => TypeOK' /\ KnownInv' /\ OwedInv'
  BY TypeStep, KnownStep, OwedStep
<1>3. OwedInv => EndingReachesAll
  BY DEF OwedInv, EndingReachesAll
<1> QED
  BY <1>1, <1>2, <1>3, PTL DEF AllReachable

=============================================================================
