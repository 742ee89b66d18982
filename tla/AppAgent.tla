------------------------------ MODULE AppAgent ------------------------------
(***************************************************************************)
(* The agent of the property office's phones: it asks each phone app in    *)
(* turn for its state, gives a call that comes in to an idle one, and      *)
(* tells all of them when a call has ended.  It runs as greenlets: an      *)
(* action is what one of them does between two waits for the network.      *)
(* Apps are numbered in the order of app_list.                             *)
(***************************************************************************)
EXTENDS Naturals

CONSTANTS
  AppCount, \* length of app_list
  Conns     \* slots for connections of boxes to the agent

ASSUME AgentAssumption == AppCount \in Nat \ {0}

Apps   == 1 .. AppCount
Status == {"offline", "idle", "busy"}
Phone  == {"down", "idle", "busy"}

VARIABLES
  status, \* app.status
  poll,   \* check_app_status(): which app it asks, and what it waits for
  reply,  \* the answer under way to it
  conn,   \* the greenlet of _service() of each connection
  phone,  \* the apps themselves
  since,  \* history: whether an app was idle, not idle or both since it was last asked
  heard   \* history: the apps whose last finished poll got an answer

vars == <<status, poll, reply, conn, phone, since, heard>>

\* A connection: what its greenlet waits for, and with which app; what the box
\* was told; history: the apps a call_ending is still owed to.
Fresh == [at |-> "reading", app |-> 0, got |-> "nothing", owed |-> {}]

Init ==
  /\ status = [a \in Apps |-> "offline"]
  /\ poll = [at |-> "sleep", app |-> 0]
  /\ reply = "none"
  /\ conn = [c \in Conns |-> [Fresh EXCEPT !.at = "closed"]]
  /\ phone \in [Apps -> Phone]
  /\ since = [a \in Apps |-> {phone[a] = "idle"}]
  /\ heard = {}

Polled(a) == poll.at # "sleep" /\ poll.app = a

-----------------------------------------------------------------------------
(* The apps: they change their state, and answer a poll, as they like.     *)

PhoneChanges(a, p) ==
  /\ phone[a] # p
  /\ phone' = [phone EXCEPT ![a] = p]
  /\ since' = [since EXCEPT ![a] = @ \cup {p = "idle"}]
  /\ conn' = [c \in Conns |-> [conn[c] EXCEPT !.owed = IF p = "down" THEN @ \ {a} ELSE @]]
  /\ UNCHANGED <<status, poll, reply, heard>>

PhoneAnswersPoll ==
  /\ poll.at = "answer"
  /\ reply = "none"
  /\ phone[poll.app] # "down"
  /\ reply' = phone[poll.app]
  /\ UNCHANGED <<status, poll, conn, phone, since, heard>>

-----------------------------------------------------------------------------
(* The poller.                                                             *)

\* Mutant: the old status stands until there is an answer.
AskKeepsStatus(st, a) ==
  /\ poll' = [at |-> "connect", app |-> a]
  /\ status' = st
  /\ since' = [since EXCEPT ![a] = {phone[a] = "idle"}]

\* get_app_status() begins with app a; st is what the apps' statuses are by then.
Ask(st, a) ==
  /\ poll' = [at |-> "connect", app |-> a]
  /\ status' = [st EXCEPT ![a] = "offline"]
  /\ since' = [since EXCEPT ![a] = {phone[a] = "idle"}]

\* Mutant: the loop runs one app too far.
AskNextTooFar(st) ==
  IF poll.app <= AppCount
  THEN Ask(st, poll.app + 1)
  ELSE /\ poll' = [poll EXCEPT !.at = "sleep"]
       /\ status' = st
       /\ UNCHANGED since

\* get_app_status() is over: the next app's turn, or the pause between two rounds.
AskNext(st) ==
  IF poll.app < AppCount
  THEN Ask(st, poll.app + 1)
  ELSE /\ poll' = [poll EXCEPT !.at = "sleep"]
       /\ status' = st
       /\ UNCHANGED since

StartRound ==
  /\ poll.at = "sleep"
  /\ Ask(status, 1)
  /\ UNCHANGED <<reply, conn, phone, heard>>

\* The app is connected and the question is sent.
PollConnects ==
  /\ poll.at = "connect"
  /\ phone[poll.app] # "down"
  /\ poll' = [poll EXCEPT !.at = "answer"]
  /\ UNCHANGED <<status, reply, conn, phone, since, heard>>

PollAnswered ==
  /\ poll.at = "answer"
  /\ reply # "none"
  /\ AskNext([status EXCEPT ![poll.app] = reply])
  /\ reply' = "none"
  /\ heard' = heard \cup {poll.app}
  /\ UNCHANGED <<conn, phone>>

\* Mutant: no except around get_app_status().
PollFailsForGood ==
  /\ poll.at \in {"connect", "answer"}
  /\ poll' = [poll EXCEPT !.at = "ended"]
  /\ UNCHANGED <<status, reply, conn, phone, since, heard>>

\* No connection, no answer in 3 seconds or one that is not understood: the
\* exception is passed over, or no branch takes the answer.
PollFails ==
  /\ poll.at \in {"connect", "answer"}
  /\ AskNext(status)
  /\ reply' = "none"
  /\ heard' = heard \ {poll.app}
  /\ UNCHANGED <<conn, phone>>

-----------------------------------------------------------------------------
(* The connections.                                                        *)

Closed(r)    == [r EXCEPT !.at = "closed", !.app = 0]
Told(r, got) == [Closed(r) EXCEPT !.got = got]

Move(c, r) ==
  /\ conn' = [conn EXCEPT ![c] = r]
  /\ UNCHANGED <<status, poll, reply, phone, since, heard>>

Accept(c) ==
  /\ conn[c].at = "closed"
  /\ Move(c, Fresh)

\* Mutant: the socket has no timeout.
ReadWaits(c) ==
  /\ conn[c].at = "reading"
  /\ Move(c, conn[c])

\* Nothing in 5 seconds, a box that hangs up, a text or method not understood.
ReadFails(c) ==
  /\ conn[c].at = "reading"
  /\ Move(c, Closed(conn[c]))

\* a is the first idle app.
FirstIdle(a) ==
  /\ status[a] = "idle"
  /\ \A b \in 1 .. a - 1 : status[b] # "idle"

\* delivery_call_to_idle_app()
DeliverCall(c) ==
  /\ conn[c].at = "reading"
  /\ \E a \in Apps : FirstIdle(a) /\ Move(c, [conn[c] EXCEPT !.at = "connect", !.app = a])

\* Mutant: a busy app ends the search.
LineIsBusyEarly(c) ==
  /\ conn[c].at = "reading"
  /\ \/ \A a \in Apps : status[a] # "idle"
     \/ \E b \in Apps : status[b] = "busy" /\ \A a \in 1 .. b - 1 : status[a] # "idle"
  /\ Move(c, Told(conn[c], "line_is_busy"))

LineIsBusy(c) ==
  /\ conn[c].at = "reading"
  /\ \A a \in Apps : status[a] # "idle"
  /\ Move(c, Told(conn[c], "line_is_busy"))

\* do_app_call(): the app is connected and gets the call; its answer is awaited
\* without limit.
CallConnects(c) ==
  /\ conn[c].at = "connect"
  /\ phone[conn[c].app] # "down"
  /\ Move(c, [conn[c] EXCEPT !.at = "wait"])

\* ... or it is not, and the exception closes the connection of the box.
CallFails(c) ==
  /\ conn[c].at = "connect"
  /\ Move(c, Closed(conn[c]))

CallAnswered(c) ==
  /\ conn[c].at = "wait"
  /\ phone[conn[c].app] # "down"
  /\ Move(c, Told(conn[c], "answer"))

\* The app closes, or its end of the connection is lost.
CallDropped(c) ==
  /\ conn[c].at = "wait"
  /\ Move(c, Closed(conn[c]))

\* Mutant: only idle apps are told.
BroadcastToIdle(c, r, a) ==
  LET rest == {b \in Apps : b > a /\ status[b] = "idle"} IN
  IF rest = {}
  THEN Move(c, Closed(r))
  ELSE \E b \in rest :
         /\ \A d \in rest : b <= d
         /\ Move(c, [r EXCEPT !.at = "ending", !.app = b])

\* broadcast_call_ending(): the loop goes on to the next app after a that is not
\* offline, with what r says of the connection.
Broadcast(c, r, a) ==
  LET rest == {b \in Apps : b > a /\ status[b] # "offline"} IN
  IF rest = {}
  THEN Move(c, Closed(r))
  ELSE \E b \in rest :
         /\ \A d \in rest : b <= d
         /\ Move(c, [r EXCEPT !.at = "ending", !.app = b])

CallEnding(c) ==
  /\ conn[c].at = "reading"
  /\ Broadcast(c, [conn[c] EXCEPT !.owed = {a \in heard : phone[a] # "down"}], 0)

EndingSent(c) ==
  /\ conn[c].at = "ending"
  /\ phone[conn[c].app] # "down"
  /\ Broadcast(c, [conn[c] EXCEPT !.owed = @ \ {conn[c].app}], conn[c].app)

\* Not connected in 2 seconds: the exception ends the loop.
EndingFails(c) ==
  /\ conn[c].at = "ending"
  /\ Move(c, Closed([conn[c] EXCEPT !.owed = @ \ {conn[c].app}]))

-----------------------------------------------------------------------------
Poller == StartRound \/ PollConnects \/ PollAnswered \/ PollFails

\* What a box or an app makes a connection do ...
Request(c) == DeliverCall(c) \/ LineIsBusy(c) \/ CallEnding(c) \/ CallAnswered(c) \/ CallDropped(c)

\* ... and what becomes of it in any case.
Serve(c) ==
  \/ ReadFails(c)
  \/ CallConnects(c) \/ CallFails(c)
  \/ EndingSent(c) \/ EndingFails(c)

Next ==
  \/ \E a \in Apps, p \in Phone : PhoneChanges(a, p)
  \/ PhoneAnswersPoll
  \/ Poller
  \/ \E c \in Conns : Accept(c) \/ Request(c) \/ Serve(c)

\* gevent runs what is ready, sleep() ends, recv() has a timeout where these
\* actions wait in one, and a connect() succeeds or fails; nothing is expected of
\* the apps and the boxes.
Fairness == WF_vars(Poller) /\ \A c \in Conns : WF_vars(Serve(c))

Spec == Init /\ [][Next]_vars /\ Fairness

-----------------------------------------------------------------------------
(* Properties.                                                             *)

\* Types and ranges of all variables.
TypeOK ==
  /\ status \in [Apps -> Status]
  /\ poll \in [at : {"sleep", "connect", "answer"}, app : 0 .. AppCount]
  /\ poll.at # "sleep" => poll.app # 0
  /\ reply \in {"none", "idle", "busy"}
  /\ conn \in [Conns -> [at : {"closed", "reading", "connect", "wait", "ending"}, app : 0 .. AppCount,
                         got : {"nothing", "line_is_busy", "answer"}, owed : SUBSET Apps]]
  /\ \A c \in Conns : conn[c].at \in {"connect", "wait", "ending"} => conn[c].app # 0
  /\ phone \in [Apps -> Phone]
  /\ since \in [Apps -> SUBSET BOOLEAN]
  /\ heard \in SUBSET Apps

\* delivery_call_to_idle_app: however polls, failures and calls interleave, an app
\* gets a call only if it really was idle at some time since it was last asked:
\* no call goes by the answer of an earlier round.
CallsGoToIdle ==
  [][\A c \in Conns :
       conn[c].at = "reading" /\ conn'[c].at = "connect" => TRUE \in since[conn'[c].app]]_vars

\* A box hears line_is_busy only if each app that is known to answer was busy or
\* down at some time since it was last asked, or is just being asked.
NoNeedlessRefusal ==
  [][\A c \in Conns :
       conn[c].got # "line_is_busy" /\ conn'[c].got = "line_is_busy" =>
         \A a \in heard : Polled(a) \/ FALSE \in since[a]]_vars

\* The loop of broadcast_call_ending, whose steps polls come between, passes over an
\* app that answered its last poll only while the poller is asking it again.
SkipsOnlyPolled ==
  [][\A c \in Conns :
       LET from == IF conn[c].at = "reading" THEN 0 ELSE conn[c].app IN
       CallEnding(c) \/ EndingSent(c) =>
         \A a \in heard : from < a /\ (conn'[c].at = "ending" => a < conn'[c].app) => Polled(a)]_vars

\* An app that is down for good is offline for good from some time on, whatever
\* the other apps do: check_app_status survives every failure and never hangs.
DeadAppNoticed == \A a \in Apps : <>[](phone[a] = "down") => <>[](status[a] = "offline")

\* No connection keeps its greenlet for ever, except where do_app_call waits for
\* the app's answer: all other waits come to an end.
OnlyCallsWait == \A c \in Conns : []<>(conn[c].at \in {"closed", "wait"})

\* README.md:14 of the agent: a call_ending is sent to all apps that are active at
\* that time.  Here: those that answered their last poll, are never down meanwhile
\* and do not fail when it is sent to them.
EndingReachesAll == \A c \in Conns : conn[c].at = "closed" => conn[c].owed = {}

=============================================================================
