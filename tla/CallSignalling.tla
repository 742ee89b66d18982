--------------------------- MODULE CallSignalling ---------------------------
(***************************************************************************)
(* The call signalling of the indoor box: CallServiceManager, which owns   *)
(* the one call line to the outside, InnerDeviceManager, which owns the    *)
(* screens at home, and the Connections both of them listen to.            *)
(*                                                                         *)
(* All handlers run on the thread of InnerController::run(), one at a      *)
(* time.  A read can deliver several messages; Connection::handle_read     *)
(* passes them to the listener one after the other, even when one of them  *)
(* closed the connection, so reader and batch are that loop's state.       *)
(* check_status() belongs to the manager's own service thread, which no    *)
(* code of this tree runs.                                                 *)
(*                                                                         *)
(* A connection is named by a slot of Inner or Outer, free again when      *)
(* nothing refers to its Connection object any more.  Handlers aborted by  *)
(* close() keep the object alive and return at their test of stopped_, all *)
(* but one: the timer of a connection that was called out is bound to a    *)
(* bare this, and check_connect() reads the object after it is destroyed.  *)
(* Screens are told apart by that name.  The code keys them by the second  *)
(* they connected in, so that what is said of screens supposes that no two *)
(* connect within one.                                                     *)
(***************************************************************************)
EXTENDS Naturals, Sequences

CONSTANTS
  Inner,          \* connections of indoor screens (port family_port)
  Outer,          \* connections to outdoor stations (port call_listen_port, and calls out)
  NULL,           \* the empty shared_ptr
  CallerMsgs,     \* what a peer that called in sends
  CalleeMsgs,     \* what a peer that was called sends
  MaxBatch,       \* messages a single read delivers, at most
  ServiceThread   \* does a thread run CallServiceManager's own io_service_?

OuterMsgs == {"call_req", "call_accept", "call_reject", "call_end", "call_keep", "other"}
InnerMsgs == {"join_family", "call_req", "call_req_noaddr", "call_accept", "call_reject",
              "call_end", "call_keep", "open_door"}

ASSUME SignallingAssumption ==
  /\ NULL \notin Inner \cup Outer
  /\ Inner \cap Outer = {}
  /\ CallerMsgs \subseteq OuterMsgs
  /\ CalleeMsgs \subseteq OuterMsgs
  /\ MaxBatch \in Nat
  /\ ServiceThread \in BOOLEAN

VARIABLES
  callreq,       \* callreq_->conn of CallServiceManager, NULL without a call
  live_inside,   \* live_time_inside_  # 0
  live_outside,  \* live_time_outside_ # 0
  outer,         \* [Outer -> state of the Connection]
  calling_conn,  \* calling_conn_ of InnerDeviceManager
  conn_ids,      \* conn_ids_: the connected screens
  device_ids,    \* device_ids_: those that joined the family
  reader,        \* whose handle_read loop is under way, NULL when the thread is idle
  batch,         \* the messages this loop has still to deliver
  sent,          \* what the last step handed to Connection::send
  ringing,       \* screens that show an incoming call
  crashed        \* why the process died, "no" while it lives

callVars   == <<callreq, live_inside, live_outside, outer>>
deviceVars == <<calling_conn, conn_ids, device_ids>>
readVars   == <<reader, batch>>
vars       == <<callVars, deviceVars, readVars, sent, ringing, crashed>>

OuterStates == {"free", "connecting", "out", "in", "stopped", "dangling"}
Open        == {"connecting", "out", "in"}
Vacant      == {"free", "dangling"}
Traffic     == (Inner \cup Outer) \X
               (OuterMsgs \cup InnerMsgs \cup {"join_accept"})

TypeOK ==
  /\ callreq \in Outer \cup {NULL}
  /\ live_inside \in BOOLEAN
  /\ live_outside \in BOOLEAN
  /\ outer \in [Outer -> OuterStates]
  /\ calling_conn \in Inner \cup {NULL}
  /\ conn_ids \subseteq Inner
  /\ device_ids \subseteq Inner
  /\ reader \in Inner \cup Outer \cup {NULL}
  /\ batch \in Seq(OuterMsgs \cup InnerMsgs)
  /\ sent \subseteq Traffic
  /\ ringing \subseteq Inner
  /\ crashed \in {"no", "null_callreq", "bad_address", "dangling"}

Init ==
  /\ callreq = NULL
  /\ live_inside = FALSE
  /\ live_outside = FALSE
  /\ outer = [o \in Outer |-> "free"]
  /\ calling_conn = NULL
  /\ conn_ids = {}
  /\ device_ids = {}
  /\ reader = NULL
  /\ batch = <<>>
  /\ sent = {}
  /\ ringing = {}
  /\ crashed = "no"

-----------------------------------------------------------------------------
(* What the handlers are built from.                                       *)

\* InnerDevice::sendMessage to every device of D.
Broadcast(D, m) == {<<d, m>> : d \in D}

\* A message on the line, when there is a call.
ToLine(m) == IF callreq = NULL THEN {} ELSE {<<callreq, m>>}

\* Mutant: while nobody has answered, nobody is told.
ToCallingOnly(m) == IF calling_conn = NULL THEN {} ELSE {<<calling_conn, m>>}

\* To the screen in the call, or to all of them while nobody has answered.
ToCallingOrAll(m) ==
  IF calling_conn = NULL THEN Broadcast(device_ids, m) ELSE {<<calling_conn, m>>}

\* What is left of a connection nobody holds any more.
Remains(o) == IF outer[o] \in {"connecting", "out"} THEN "dangling" ELSE "free"

\* Mutant: callreq_.reset() without closing the connection.
DropLineLeavesOpen == callreq' = NULL /\ outer' = outer

\* callreq_->conn->close(); callreq_.reset().  The object outlives its close()
\* only in the read loop that is delivering its messages.
DropLine ==
  /\ callreq' = NULL
  /\ outer' = [o \in Outer |-> IF o # callreq THEN outer[o]
                               ELSE IF o = reader THEN "stopped" ELSE Remains(o)]

\* The screens' side of a message: call_req makes one ring, call_end and
\* call_reject silence it, and so does the user of a screen in Q.
RingAfter(Q) ==
  ringing' = {d \in Inner : /\ d \in ringing \/ <<d, "call_req">> \in sent'
                            /\ <<d, "call_end">> \notin sent'
                            /\ <<d, "call_reject">> \notin sent'
                            /\ d \notin Q}

Alive == crashed = "no"
Idle  == Alive /\ reader = NULL

\* The read loop of connection c delivers message m.
Deliver(c, m) ==
  /\ Alive
  /\ reader = c
  /\ batch # <<>>
  /\ Head(batch) = m
  /\ batch' = Tail(batch)
  /\ reader' = reader

Batches(M) == UNION {[1 .. n -> M] : n \in 1 .. MaxBatch}

-----------------------------------------------------------------------------
(* Sockets.                                                                *)

\* A screen connects.
AcceptInner(d) ==
  /\ Idle
  /\ d \notin conn_ids
  /\ conn_ids' = conn_ids \cup {d}
  /\ sent' = {}
  /\ UNCHANGED <<callVars, calling_conn, device_ids, readVars, ringing, crashed>>

\* Mutant: a lost screen stays in the call.
LoseInnerKeepsCalling(d) ==
  /\ Idle
  /\ d \in conn_ids
  /\ conn_ids' = conn_ids \ {d}
  /\ device_ids' = device_ids \ {d}
  /\ sent' = {}
  /\ RingAfter({d})
  /\ UNCHANGED <<callVars, calling_conn, readVars, crashed>>

\* The connection of a screen is lost; if it was in the call, the line is told.
LoseInner(d) ==
  /\ Idle
  /\ d \in conn_ids
  /\ conn_ids' = conn_ids \ {d}
  /\ device_ids' = device_ids \ {d}
  /\ IF calling_conn = d
     THEN calling_conn' = NULL /\ sent' = ToLine("call_end") /\ DropLine
     ELSE sent' = {} /\ UNCHANGED <<calling_conn, callreq, outer>>
  /\ RingAfter({d})
  /\ UNCHANGED <<live_inside, live_outside, readVars, crashed>>

\* Mutant: the test for a call under way is missing.
AcceptCallAlways(o) ==
  /\ Idle
  /\ outer[o] \in Vacant
  /\ callreq' = o
  /\ outer' = [outer EXCEPT ![o] = "in"]
  /\ live_outside' = TRUE
  /\ sent' = {}
  /\ UNCHANGED <<live_inside, deviceVars, readVars, ringing, crashed>>

\* A peer calls in on a free line.
AcceptCall(o) ==
  /\ Idle
  /\ outer[o] \in Vacant
  /\ callreq = NULL
  /\ callreq' = o
  /\ outer' = [outer EXCEPT ![o] = "in"]
  /\ live_outside' = TRUE
  /\ sent' = {}
  /\ UNCHANGED <<live_inside, deviceVars, readVars, ringing, crashed>>

\* Mutant: the refused connection is not closed.
RefuseCallLeavesOpen(o) ==
  /\ Idle
  /\ outer[o] \in Vacant
  /\ callreq # NULL
  /\ sent' = {<<o, "call_reject">>}
  /\ outer' = [outer EXCEPT ![o] = "in"]
  /\ UNCHANGED <<callreq, live_inside, live_outside, deviceVars, readVars, ringing, crashed>>

\* A peer calls in while there is a call: it is refused and closed at once.
RefuseCall(o) ==
  /\ Idle
  /\ outer[o] \in Vacant
  /\ callreq # NULL
  /\ sent' = {<<o, "call_reject">>}
  /\ UNCHANGED <<callVars, deviceVars, readVars, ringing, crashed>>

\* The connection to an outer peer is lost.  The handler clears callreq_ without
\* asking whether it was this connection's.
LoseOuter(o) ==
  /\ Idle
  /\ outer[o] \in {"in", "out"}
  /\ outer' = [outer EXCEPT ![o] = Remains(o)]
  /\ callreq' = NULL
  /\ sent' = ToCallingOrAll("call_end")
  /\ calling_conn' = NULL
  /\ live_inside' = FALSE
  /\ live_outside' = FALSE
  /\ RingAfter({})
  /\ UNCHANGED <<conn_ids, device_ids, readVars, crashed>>

\* An outgoing call is connected: the request follows on callreq_'s connection.
ConnectOk(o) ==
  /\ Idle
  /\ outer[o] = "connecting"
  /\ outer' = [outer EXCEPT ![o] = "out"]
  /\ sent' = ToLine("call_req")
  /\ live_outside' = TRUE
  /\ crashed' = IF callreq = NULL THEN "null_callreq" ELSE crashed
  /\ UNCHANGED <<callreq, live_inside, deviceVars, readVars, ringing>>

\* It could not be connected: callreq_'s connection is closed and the screen told.
ConnectError(o) ==
  /\ Idle
  /\ outer[o] = "connecting"
  /\ callreq' = NULL
  /\ outer' = [x \in Outer |-> IF x \in {o, callreq} THEN Remains(x) ELSE outer[x]]
  /\ sent' = IF calling_conn = NULL THEN {} ELSE {<<calling_conn, "call_reject">>}
  /\ calling_conn' = NULL
  /\ live_inside' = FALSE
  /\ live_outside' = FALSE
  /\ RingAfter({})
  /\ UNCHANGED <<conn_ids, device_ids, readVars, crashed>>

\* The aborted timer of a connection that is gone: check_connect() finds stopped_
\* as close() left it, or whatever the memory holds by now.  (In a connection that
\* took the place of the old one, it finds nothing to do.)
LateTimer(o) ==
  /\ Idle
  /\ outer[o] = "dangling"
  /\ outer' = [outer EXCEPT ![o] = "free"]
  /\ crashed' \in {"no", "dangling"}
  /\ sent' = {}
  /\ UNCHANGED <<callreq, live_inside, live_outside, deviceVars, readVars, ringing>>

\* Data arrives: the read loop begins with the messages it completes.
BeginRead(c, b) ==
  /\ Idle
  /\ reader' = c
  /\ batch' = b
  /\ sent' = {}
  /\ UNCHANGED <<callVars, deviceVars, ringing, crashed>>

ReadInner(d) == d \in conn_ids /\ \E b \in Batches(InnerMsgs) : BeginRead(d, b)

ReadOuter(o) ==
  \/ outer[o] = "in" /\ \E b \in Batches(CallerMsgs) : BeginRead(o, b)
  \/ outer[o] = "out" /\ \E b \in Batches(CalleeMsgs) : BeginRead(o, b)

\* The loop is done.  start_read() on a connection closed meanwhile ends in a
\* handle_read that returns at once.
EndRead ==
  /\ Alive
  /\ reader # NULL
  /\ batch = <<>>
  /\ reader' = NULL
  /\ outer' = [o \in Outer |-> IF outer[o] = "stopped" THEN "free" ELSE outer[o]]
  /\ sent' = {}
  /\ UNCHANGED <<callreq, live_inside, live_outside, deviceVars, batch, ringing, crashed>>

-----------------------------------------------------------------------------
(* Messages of the outer peer o: CallServiceManager::onJsonText.           *)

\* onCallIn dereferences callreq_ unchecked, then asks the screens.  A refusal
\* leaves callreq_ as it is.
OuterCallReq(o) ==
  /\ Deliver(o, "call_req")
  /\ IF callreq = NULL
     THEN crashed' = "null_callreq" /\ sent' = {}
     ELSE /\ crashed' = crashed
          /\ sent' = IF calling_conn # NULL \/ device_ids = {}
                     THEN {<<o, "call_reject">>}
                     ELSE Broadcast(device_ids, "call_req")
  /\ RingAfter({})
  /\ UNCHANGED <<callVars, deviceVars>>

\* onCallAccept: to the screen that dialled, or call_end back if it is gone.
OuterCallAccept(o) ==
  /\ Deliver(o, "call_accept")
  /\ IF calling_conn # NULL
     THEN sent' = {<<calling_conn, "call_accept">>} /\ UNCHANGED <<callreq, outer>>
     ELSE sent' = ToLine("call_end") /\ DropLine
  /\ RingAfter({})
  /\ UNCHANGED <<live_inside, live_outside, deviceVars, crashed>>

\* Mutant: the screen is released without a word.
OuterCallRejectSilent(o) ==
  /\ Deliver(o, "call_reject")
  /\ DropLine
  /\ sent' = {}
  /\ calling_conn' = NULL
  /\ RingAfter({})
  /\ UNCHANGED <<live_inside, live_outside, conn_ids, device_ids, crashed>>

\* onCallReject: only the screen in the call is told.
OuterCallReject(o) ==
  /\ Deliver(o, "call_reject")
  /\ DropLine
  /\ sent' = IF calling_conn = NULL THEN {} ELSE {<<calling_conn, "call_reject">>}
  /\ calling_conn' = NULL
  /\ RingAfter({})
  /\ UNCHANGED <<live_inside, live_outside, conn_ids, device_ids, crashed>>

\* Mutant: the screen is told and stays in the call.
OuterCallEndKeepsScreen(o) ==
  /\ Deliver(o, "call_end")
  /\ DropLine
  /\ sent' = ToCallingOrAll("call_end")
  /\ RingAfter({})
  /\ UNCHANGED <<live_inside, live_outside, deviceVars, crashed>>

\* onCallEnd.
OuterCallEnd(o) ==
  /\ Deliver(o, "call_end")
  /\ DropLine
  /\ sent' = ToCallingOrAll("call_end")
  /\ calling_conn' = NULL
  /\ RingAfter({})
  /\ UNCHANGED <<live_inside, live_outside, conn_ids, device_ids, crashed>>

\* onCallKeep: the peer is alive, and the screens hear of it.
OuterCallKeep(o) ==
  /\ Deliver(o, "call_keep")
  /\ live_outside' = TRUE
  /\ sent' = ToCallingOrAll("call_keep")
  /\ UNCHANGED <<callreq, live_inside, outer, deviceVars, ringing, crashed>>

\* heartbeat, open_door and what does not parse.
OuterOther(o) ==
  /\ Deliver(o, "other")
  /\ sent' = {}
  /\ UNCHANGED <<callVars, deviceVars, ringing, crashed>>

-----------------------------------------------------------------------------
(* Messages of the screen d: InnerDeviceManager::onJsonText.               *)

\* onJoinFamily.
InnerJoin(d) ==
  /\ Deliver(d, "join_family")
  /\ device_ids' = device_ids \cup {d}
  /\ sent' = {<<d, "join_accept">>}
  /\ UNCHANGED <<callVars, calling_conn, conn_ids, ringing, crashed>>

\* onCallOut on a busy line.
InnerCallBusy(d) ==
  /\ Deliver(d, "call_req") \/ Deliver(d, "call_req_noaddr")
  /\ calling_conn # NULL \/ callreq # NULL
  /\ sent' = {<<d, "call_reject">>}
  /\ RingAfter({})
  /\ UNCHANGED <<callVars, deviceVars, crashed>>

\* onCallOut on a free line: callOut() begins to connect, and d is in the call.
InnerCallOut(d) ==
  /\ Deliver(d, "call_req")
  /\ calling_conn = NULL
  /\ callreq = NULL
  /\ \E o \in Outer :
       /\ outer[o] \in Vacant
       /\ callreq' = o
       /\ outer' = [outer EXCEPT ![o] = "connecting"]
  /\ live_inside' = TRUE
  /\ calling_conn' = d
  /\ sent' = {}
  /\ UNCHANGED <<live_outside, conn_ids, device_ids, ringing, crashed>>

\* make_address() throws on a request without a usable dest.ip, and nothing
\* between it and io_service_.run() catches.
InnerCallNoAddress(d) ==
  /\ Deliver(d, "call_req_noaddr")
  /\ calling_conn = NULL
  /\ callreq = NULL
  /\ crashed' = "bad_address"
  /\ sent' = {}
  /\ UNCHANGED <<callVars, deviceVars, ringing>>

\* Mutant: the connection of the line is recorded for that of the screen.
InnerCallAcceptWrongEnd(d) ==
  /\ Deliver(d, "call_accept")
  /\ sent' = Broadcast(device_ids \ {d}, "call_end") \cup ToLine("call_accept")
  /\ calling_conn' = callreq
  /\ RingAfter({d})
  /\ UNCHANGED <<callVars, conn_ids, device_ids, crashed>>

\* onCallAccept: the other screens stop, d is in the call.  acceptCall() returns
\* an empty pointer whether or not there is a call, so its answer is never
\* a MessageCallEnd.
InnerCallAccept(d) ==
  /\ Deliver(d, "call_accept")
  /\ sent' = Broadcast(device_ids \ {d}, "call_end") \cup ToLine("call_accept")
  /\ calling_conn' = d
  /\ RingAfter({d})
  /\ UNCHANGED <<callVars, conn_ids, device_ids, crashed>>

\* Mutant: the screens are told, the line is not.
InnerCallRejectInsideOnly(d) ==
  /\ Deliver(d, "call_reject")
  /\ sent' = Broadcast(device_ids, "call_end")
  /\ calling_conn' = NULL
  /\ RingAfter({d})
  /\ UNCHANGED <<callVars, conn_ids, device_ids, crashed>>

\* Mutant: the line is closed before its peer is told.
InnerCallRejectSilent(d) ==
  /\ Deliver(d, "call_reject")
  /\ sent' = Broadcast(device_ids, "call_end")
  /\ calling_conn' = NULL
  /\ DropLine
  /\ RingAfter({d})
  /\ UNCHANGED <<live_inside, live_outside, conn_ids, device_ids, crashed>>

\* onCallReject: whoever refuses ends the call for all screens.
InnerCallReject(d) ==
  /\ Deliver(d, "call_reject")
  /\ sent' = Broadcast(device_ids, "call_end") \cup ToLine("call_reject")
  /\ calling_conn' = NULL
  /\ DropLine
  /\ RingAfter({d})
  /\ UNCHANGED <<live_inside, live_outside, conn_ids, device_ids, crashed>>

\* onCallEnd counts only from the screen in the call.
InnerCallEnd(d) ==
  /\ Deliver(d, "call_end")
  /\ IF calling_conn = d
     THEN sent' = ToLine("call_end") /\ calling_conn' = NULL /\ DropLine
     ELSE sent' = {} /\ UNCHANGED <<calling_conn, callreq, outer>>
  /\ UNCHANGED <<live_inside, live_outside, conn_ids, device_ids, ringing, crashed>>

\* onCallKeep: from any screen, in the call or not.
InnerCallKeep(d) ==
  /\ Deliver(d, "call_keep")
  /\ live_inside' = TRUE
  /\ sent' = ToLine("call_keep")
  /\ UNCHANGED <<callreq, live_outside, outer, deviceVars, ringing, crashed>>

\* Passed on to the peer of the call, whoever sends it.
InnerOpenDoor(d) ==
  /\ Deliver(d, "open_door")
  /\ sent' = ToLine("open_door")
  /\ UNCHANGED <<callVars, deviceVars, ringing, crashed>>

-----------------------------------------------------------------------------
\* check_status() finds that a side has been silent for too long.  How long it
\* was is left open: a side that never spoke (0) always counts as silent.
CheckStatus ==
  /\ ServiceThread
  /\ Alive
  /\ live_inside \/ live_outside
  /\ sent' = ToCallingOrAll("call_end") \cup ToLine("call_end")
  /\ calling_conn' = NULL
  /\ DropLine
  /\ live_inside' = FALSE
  /\ live_outside' = FALSE
  /\ RingAfter({})
  /\ UNCHANGED <<conn_ids, device_ids, readVars, crashed>>

\* Somebody starts the program again; all its state was in memory.
Restart ==
  /\ ~Alive
  /\ callreq' = NULL
  /\ live_inside' = FALSE
  /\ live_outside' = FALSE
  /\ outer' = [o \in Outer |-> "free"]
  /\ calling_conn' = NULL
  /\ conn_ids' = {}
  /\ device_ids' = {}
  /\ reader' = NULL
  /\ batch' = <<>>
  /\ sent' = {}
  /\ ringing' = {}
  /\ crashed' = "no"

InnerNext(d) ==
  \/ AcceptInner(d) \/ LoseInner(d) \/ ReadInner(d)
  \/ InnerJoin(d) \/ InnerCallBusy(d) \/ InnerCallOut(d) \/ InnerCallNoAddress(d)
  \/ InnerCallAccept(d) \/ InnerCallReject(d) \/ InnerCallEnd(d)
  \/ InnerCallKeep(d) \/ InnerOpenDoor(d)

OuterNext(o) ==
  \/ AcceptCall(o) \/ RefuseCall(o) \/ LoseOuter(o)
  \/ ConnectOk(o) \/ ConnectError(o) \/ LateTimer(o) \/ ReadOuter(o)
  \/ OuterCallReq(o) \/ OuterCallAccept(o) \/ OuterCallReject(o)
  \/ OuterCallEnd(o) \/ OuterCallKeep(o) \/ OuterOther(o)

Next ==
  \/ \E d \in Inner : InnerNext(d)
  \/ \E o \in Outer : OuterNext(o)
  \/ EndRead
  \/ CheckStatus
  \/ Restart

Spec == Init /\ [][Next]_vars

-----------------------------------------------------------------------------
(* Properties.                                                             *)

\* The connections that are open, or being opened, are exactly the one of the
\* current call: refused, ended and failed calls leave no connection behind that
\* could still speak on the line, and no call is left whose connection is gone.
\* onDisconnected, onConnectError and onCallIn rely on it without checking.
OneLine == \A o \in Outer : outer[o] \in Open <=> callreq = o

\* The screen that is recorded in the call is still connected.
CallingIsConnected == calling_conn # NULL => calling_conn \in conn_ids

\* A call going out always has a screen that will be told how it ends, whichever
\* screens answer, refuse or leave meanwhile.
OutgoingHasScreen ==
  callreq # NULL /\ outer[callreq] \in {"connecting", "out"} => calling_conn # NULL

\* callreq_ is dereferenced without a check in onConnected and onCallIn.  It is
\* empty there only for a message that the read loop still delivers from a
\* connection which an earlier message of the same read, or check_status, closed.
NullOnlyAfterHangup ==
  crashed = "null_callreq" => reader \in Outer /\ outer[reader] = "stopped"

\* No screen goes on ringing when the call is answered or over, provided that
\* callers send no answers and no two screens connect within one second.
NoStaleRing == ringing # {} => callreq # NULL /\ calling_conn = NULL

\* A call does not end behind the back of a peer that is connected: its own message
\* or the loss of its connection ended it, or it is sent call_end or call_reject.
PeerIsTold ==
  [][\A o \in Outer :
       callreq = o /\ callreq' # o /\ Alive =>
         \/ outer[o] = "connecting"
         \/ LoseOuter(o) \/ OuterCallEnd(o) \/ OuterCallReject(o)
         \/ <<o, "call_end">> \in sent' \/ <<o, "call_reject">> \in sent']_vars

\* A joined screen does not leave the call behind its user's back: its own message
\* or the loss of its connection took it out, or it is sent call_end or call_reject
\* (no two screens connecting within one second).
ScreenIsTold ==
  [][\A d \in device_ids :
       calling_conn = d /\ calling_conn' # d /\ Alive =>
         \/ LoseInner(d) \/ InnerCallEnd(d) \/ InnerCallReject(d)
         \/ <<d, "call_end">> \in sent' \/ <<d, "call_reject">> \in sent']_vars

\* A screen is in the call only while there is a call: an answer that comes after
\* the caller is gone is answered with call_end and leaves the screen free.
NoCallWithoutLine == calling_conn # NULL => callreq # NULL

\* The two managers, which each keep half of a call, let go of it together whatever
\* ends it: only an answer from a screen that comes after the end leaves one half.
OnlyLateAnswers ==
  [][NoCallWithoutLine /\ ~NoCallWithoutLine' =>
       callreq = NULL /\ \E d \in Inner : InnerCallAccept(d)]_vars

-----------------------------------------------------------------------------
\* The line as the outside sees it.
CL == INSTANCE CallLine WITH
        Peer <- Outer,
        line <- callreq,
        open <- {o \in Outer : outer[o] \in Open}

\* The box keeps to one call at a time, with a free line between two calls.
LineIsExclusive == CL!Spec
=============================================================================
