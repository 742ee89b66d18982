------------------------ MODULE CallSignallingProofs ------------------------
(***************************************************************************)
(* Theorems about CallSignalling, for any number of screens and peers, any *)
(* length of a read, and with or without the service thread.               *)
(*                                                                         *)
(* OneLine is not inductive by itself: a handler that runs for a message   *)
(* of a connection closed earlier in the same read must be known not to    *)
(* meet a new call.  ReadLoop states what the read loop may find.          *)
(***************************************************************************)
EXTENDS CallSignalling, TLAPS

\* A connection that is closed while its messages are being delivered belongs to
\* the read loop; the loop of an outer connection runs on an open or such a closed
\* one, and in the second case no call is under way; that of a screen runs on a
\* screen that is connected.
ReadLoop ==
  /\ \A o \in Outer : outer[o] = "stopped" => reader = o /\ callreq = NULL
  /\ \A o \in Outer : reader = o => outer[o] \in {"in", "out", "stopped"}
  /\ reader \in Inner => reader \in conn_ids

\* The inductive invariant.
LineInv ==
  /\ TypeOK
  /\ ReadLoop
  /\ OneLine
  /\ CallingIsConnected
  /\ OutgoingHasScreen
  /\ NullOnlyAfterHangup

\* What ringing needs on top of it, when callers send no answers.
CallersSendNoAnswers == CallerMsgs \cap {"call_accept", "call_reject"} = {}

RingInv ==
  /\ \A o \in Outer : reader = o /\ outer[o] = "in" =>
       \A i \in 1 .. Len(batch) : batch[i] \in CallerMsgs
  /\ ringing \subseteq device_ids
  /\ NoStaleRing
-----------------------------------------------------------------------------
(* Types.                                                                  *)

\* A read delivers a sequence of messages.
LEMMA BatchesAreSeqs ==
  ASSUME NEW M, NEW b \in Batches(M)
  PROVE  b \in Seq(M)
<1>1. PICK n \in 1 .. MaxBatch : b \in [1 .. n -> M]
  BY DEF Batches
<1>2. n \in Nat
  BY SignallingAssumption
<1> QED
  BY <1>1, <1>2

\* The helpers send known messages to known connections.
LEMMA SentType ==
  ASSUME TypeOK,
         NEW m \in {"call_req", "call_accept", "call_reject", "call_end", "call_keep", "open_door"},
         NEW D \in SUBSET Inner
  PROVE  /\ Broadcast(D, m) \subseteq Traffic
         /\ ToLine(m) \subseteq Traffic
         /\ ToCallingOrAll(m) \subseteq Traffic
BY DEF TypeOK, Broadcast, ToLine, ToCallingOrAll, Traffic, OuterMsgs, InnerMsgs

\* Hanging up keeps the types.
LEMMA DropLineType ==
  ASSUME TypeOK, DropLine
  PROVE  callreq' \in Outer \cup {NULL} /\ outer' \in [Outer -> OuterStates]
BY DEF TypeOK, DropLine, Remains, OuterStates

\* Delivering a message keeps the types.
LEMMA DeliverType ==
  ASSUME TypeOK, NEW c, NEW m, Deliver(c, m)
  PROVE  /\ reader' \in Inner \cup Outer \cup {NULL}
         /\ batch' \in Seq(OuterMsgs \cup InnerMsgs)
BY DEF TypeOK, Deliver

\* A sequence over a set is one over any larger set.
LEMMA SeqMonotone ==
  ASSUME NEW S, NEW T, S \subseteq T, NEW s \in Seq(S)
  PROVE  s \in Seq(T)
OBVIOUS

\* Every step keeps the types.
LEMMA TypeStep ==
  ASSUME TypeOK, [Next]_vars
  PROVE  TypeOK'
<1> USE DEF TypeOK
<1>1. ASSUME NEW d \in Inner, AcceptInner(d)  PROVE TypeOK'
  BY <1>1 DEF AcceptInner, callVars, readVars
<1>2. ASSUME NEW d \in Inner, LoseInner(d)  PROVE TypeOK'
  BY <1>2, SentType, DropLineType DEF LoseInner, readVars, RingAfter
<1>3. ASSUME NEW d \in Inner, ReadInner(d)  PROVE TypeOK'
  <2>1. PICK b \in Batches(InnerMsgs) : BeginRead(d, b)
    BY <1>3 DEF ReadInner
  <2>2. b \in Seq(OuterMsgs \cup InnerMsgs)
    BY BatchesAreSeqs, SeqMonotone
  <2> QED
    BY <2>1, <2>2 DEF BeginRead, callVars, deviceVars
<1>4. ASSUME NEW d \in Inner, InnerJoin(d)  PROVE TypeOK'
  BY <1>4, DeliverType DEF InnerJoin, callVars, Traffic
<1>5. ASSUME NEW d \in Inner, InnerCallBusy(d)  PROVE TypeOK'
  BY <1>5, DeliverType DEF InnerCallBusy, callVars, deviceVars, RingAfter, Traffic, InnerMsgs
<1>6. ASSUME NEW d \in Inner, InnerCallOut(d)  PROVE TypeOK'
  BY <1>6, DeliverType DEF InnerCallOut, OuterStates
<1>7. ASSUME NEW d \in Inner, InnerCallNoAddress(d)  PROVE TypeOK'
  BY <1>7, DeliverType DEF InnerCallNoAddress, callVars, deviceVars
<1>8. ASSUME NEW d \in Inner, InnerCallAccept(d)  PROVE TypeOK'
  BY <1>8, SentType, DeliverType DEF InnerCallAccept, callVars, RingAfter
<1>9. ASSUME NEW d \in Inner, InnerCallReject(d)  PROVE TypeOK'
  BY <1>9, SentType, DropLineType, DeliverType DEF InnerCallReject, RingAfter
<1>10. ASSUME NEW d \in Inner, InnerCallEnd(d)  PROVE TypeOK'
  BY <1>10, SentType, DropLineType, DeliverType DEF InnerCallEnd
<1>11. ASSUME NEW d \in Inner, InnerCallKeep(d)  PROVE TypeOK'
  BY <1>11, SentType, DeliverType DEF InnerCallKeep, deviceVars
<1>12. ASSUME NEW d \in Inner, InnerOpenDoor(d)  PROVE TypeOK'
  BY <1>12, SentType, DeliverType DEF InnerOpenDoor, callVars, deviceVars
<1>13. ASSUME NEW o \in Outer, AcceptCall(o)  PROVE TypeOK'
  BY <1>13 DEF AcceptCall, deviceVars, readVars, OuterStates
<1>14. ASSUME NEW o \in Outer, RefuseCall(o)  PROVE TypeOK'
  BY <1>14 DEF RefuseCall, callVars, deviceVars, readVars, Traffic, InnerMsgs
<1>15. ASSUME NEW o \in Outer, LoseOuter(o)  PROVE TypeOK'
  BY <1>15, SentType DEF LoseOuter, Remains, readVars, RingAfter, OuterStates
<1>16. ASSUME NEW o \in Outer, ConnectOk(o)  PROVE TypeOK'
  BY <1>16, SentType DEF ConnectOk, deviceVars, readVars, OuterStates
<1>17. ASSUME NEW o \in Outer, ConnectError(o)  PROVE TypeOK'
  <2>1. outer' \in [Outer -> OuterStates]
    BY <1>17 DEF ConnectError, Remains, OuterStates
  <2>2. sent' \subseteq Traffic
    BY <1>17 DEF ConnectError, Traffic, OuterMsgs
  <2> QED
    BY <1>17, <2>1, <2>2 DEF ConnectError, readVars, RingAfter
<1>18. ASSUME NEW o \in Outer, LateTimer(o)  PROVE TypeOK'
  BY <1>18 DEF LateTimer, deviceVars, readVars, OuterStates
<1>19. ASSUME NEW o \in Outer, ReadOuter(o)  PROVE TypeOK'
  <2>1. PICK b \in Batches(CallerMsgs) \cup Batches(CalleeMsgs) : BeginRead(o, b)
    BY <1>19 DEF ReadOuter
  <2>2. b \in Seq(OuterMsgs \cup InnerMsgs)
    BY BatchesAreSeqs, SeqMonotone, SignallingAssumption
  <2> QED
    BY <2>1, <2>2 DEF BeginRead, callVars, deviceVars
<1>20. ASSUME NEW o \in Outer, OuterCallReq(o)  PROVE TypeOK'
  BY <1>20, SentType, DeliverType DEF OuterCallReq, callVars, deviceVars, RingAfter, Traffic, InnerMsgs
<1>21. ASSUME NEW o \in Outer, OuterCallAccept(o)  PROVE TypeOK'
  <2>1. CASE calling_conn # NULL
    BY <1>21, <2>1, DeliverType DEF OuterCallAccept, deviceVars, RingAfter, Traffic, OuterMsgs
  <2>2. CASE calling_conn = NULL
    BY <1>21, <2>2, SentType, DropLineType, DeliverType DEF OuterCallAccept, deviceVars, RingAfter
  <2> QED
    BY <2>1, <2>2
<1>22. ASSUME NEW o \in Outer, OuterCallReject(o)  PROVE TypeOK'
  BY <1>22, DropLineType, DeliverType DEF OuterCallReject, RingAfter, Traffic, InnerMsgs
<1>23. ASSUME NEW o \in Outer, OuterCallEnd(o)  PROVE TypeOK'
  BY <1>23, SentType, DropLineType, DeliverType DEF OuterCallEnd, RingAfter
<1>24. ASSUME NEW o \in Outer, OuterCallKeep(o)  PROVE TypeOK'
  BY <1>24, SentType, DeliverType DEF OuterCallKeep, deviceVars
<1>25. ASSUME NEW o \in Outer, OuterOther(o)  PROVE TypeOK'
  BY <1>25, DeliverType DEF OuterOther, callVars, deviceVars
<1>26. CASE EndRead
  BY <1>26 DEF EndRead, deviceVars, OuterStates
<1>27. CASE CheckStatus
  BY <1>27, SentType, DropLineType DEF CheckStatus, readVars, RingAfter
<1>28. CASE Restart
  <2>1. <<>> \in Seq(OuterMsgs \cup InnerMsgs)
    OBVIOUS
  <2>2. outer' \in [Outer -> OuterStates]
    BY <1>28 DEF Restart, OuterStates
  <2> QED
    BY <1>28, <2>1, <2>2 DEF Restart
<1>29. CASE UNCHANGED vars
  BY <1>29 DEF vars, callVars, deviceVars, readVars
<1> QED
  BY <1>1, <1>2, <1>3, <1>4, <1>5, <1>6, <1>7, <1>8, <1>9, <1>10, <1>11, <1>12, <1>13, <1>14, <1>15,
     <1>16, <1>17, <1>18, <1>19, <1>20, <1>21, <1>22, <1>23, <1>24, <1>25, <1>26, <1>27, <1>28, <1>29
     DEF Next, InnerNext, OuterNext

-----------------------------------------------------------------------------
(* The line.                                                               *)

\* Every step preserves the inductive invariant.
LEMMA LineStep ==
  ASSUME LineInv, [Next]_vars
  PROVE  LineInv'
<1> DEFINE J == ReadLoop /\ OneLine /\ CallingIsConnected /\ OutgoingHasScreen /\ NullOnlyAfterHangup
<1> USE SignallingAssumption DEF LineInv, TypeOK, ReadLoop, OneLine, CallingIsConnected, OutgoingHasScreen,
        NullOnlyAfterHangup, Open, callVars, deviceVars, readVars
<1>0. TypeOK'
  BY TypeStep
<1>1. ASSUME NEW d \in Inner, AcceptInner(d)  PROVE J'
  BY <1>1 DEF AcceptInner
<1>2. ASSUME NEW d \in Inner, LoseInner(d)  PROVE J'
  BY <1>2 DEF LoseInner, Idle, DropLine, Remains
<1>3. ASSUME NEW d \in Inner, ReadInner(d)  PROVE J'
  BY <1>3 DEF ReadInner, BeginRead, Idle
<1>4. ASSUME NEW d \in Inner, InnerJoin(d)  PROVE J'
  BY <1>4 DEF InnerJoin, Deliver
<1>5. ASSUME NEW d \in Inner, InnerCallBusy(d)  PROVE J'
  BY <1>5 DEF InnerCallBusy, Deliver
<1>6. ASSUME NEW d \in Inner, InnerCallOut(d)  PROVE J'
  BY <1>6 DEF InnerCallOut, Deliver
<1>7. ASSUME NEW d \in Inner, InnerCallNoAddress(d)  PROVE J'
  BY <1>7 DEF InnerCallNoAddress, Deliver
<1>8. ASSUME NEW d \in Inner, InnerCallAccept(d)  PROVE J'
  BY <1>8 DEF InnerCallAccept, Deliver
<1>9. ASSUME NEW d \in Inner, InnerCallReject(d)  PROVE J'
  BY <1>9 DEF InnerCallReject, Deliver, DropLine, Remains
<1>10. ASSUME NEW d \in Inner, InnerCallEnd(d)  PROVE J'
  BY <1>10 DEF InnerCallEnd, Deliver, DropLine, Remains
<1>11. ASSUME NEW d \in Inner, InnerCallKeep(d)  PROVE J'
  BY <1>11 DEF InnerCallKeep, Deliver
<1>12. ASSUME NEW d \in Inner, InnerOpenDoor(d)  PROVE J'
  BY <1>12 DEF InnerOpenDoor, Deliver
<1>13. ASSUME NEW o \in Outer, AcceptCall(o)  PROVE J'
  BY <1>13 DEF AcceptCall, Idle
<1>14. ASSUME NEW o \in Outer, RefuseCall(o)  PROVE J'
  BY <1>14 DEF RefuseCall
<1>15. ASSUME NEW o \in Outer, LoseOuter(o)  PROVE J'
  BY <1>15 DEF LoseOuter, Idle, Remains
<1>16. ASSUME NEW o \in Outer, ConnectOk(o)  PROVE J'
  BY <1>16 DEF ConnectOk
<1>17. ASSUME NEW o \in Outer, ConnectError(o)  PROVE J'
  BY <1>17 DEF ConnectError, Remains
<1>18. ASSUME NEW o \in Outer, LateTimer(o)  PROVE J'
  BY <1>18 DEF LateTimer
<1>19. ASSUME NEW o \in Outer, ReadOuter(o)  PROVE J'
  BY <1>19 DEF ReadOuter, BeginRead
<1>20. ASSUME NEW o \in Outer, OuterCallReq(o)  PROVE J'
  BY <1>20 DEF OuterCallReq, Deliver
<1>21. ASSUME NEW o \in Outer, OuterCallAccept(o)  PROVE J'
  BY <1>21 DEF OuterCallAccept, Deliver, DropLine
<1>22. ASSUME NEW o \in Outer, OuterCallReject(o)  PROVE J'
  BY <1>22 DEF OuterCallReject, Deliver, DropLine
<1>23. ASSUME NEW o \in Outer, OuterCallEnd(o)  PROVE J'
  BY <1>23 DEF OuterCallEnd, Deliver, DropLine
<1>24. ASSUME NEW o \in Outer, OuterCallKeep(o)  PROVE J'
  BY <1>24 DEF OuterCallKeep, Deliver
<1>25. ASSUME NEW o \in Outer, OuterOther(o)  PROVE J'
  BY <1>25 DEF OuterOther, Deliver
<1>26. CASE EndRead
  BY <1>0, <1>26 DEF EndRead, Alive
<1>27. CASE CheckStatus
  BY <1>0, <1>27 DEF CheckStatus, DropLine, Remains
<1>28. CASE Restart
  BY <1>0, <1>28 DEF Restart
<1>29. CASE UNCHANGED vars
  BY <1>29 DEF vars
<1> QED
  BY <1>0, <1>1, <1>2, <1>3, <1>4, <1>5, <1>6, <1>7, <1>8, <1>9, <1>10, <1>11, <1>12, <1>13, <1>14,
     <1>15, <1>16, <1>17, <1>18, <1>19, <1>20, <1>21, <1>22, <1>23, <1>24, <1>25, <1>26, <1>27, <1>28,
     <1>29 DEF Next, InnerNext, OuterNext

-----------------------------------------------------------------------------
(* The screens.                                                            *)

\* What an open caller's read loop delivers is one of its messages, and so is what
\* remains.
LEMMA DeliverFromCaller ==
  ASSUME TypeOK, NEW c, NEW m, Deliver(c, m),
         \A i \in 1 .. Len(batch) : batch[i] \in CallerMsgs
  PROVE  /\ m \in CallerMsgs
         /\ \A i \in 1 .. Len(batch') : batch'[i] \in CallerMsgs
BY DEF TypeOK, Deliver

\* Every step preserves the invariant of ringing, when callers send no answers.
LEMMA RingStep ==
  ASSUME CallersSendNoAnswers, LineInv, RingInv, [Next]_vars
  PROVE  RingInv'
<1> USE SignallingAssumption DEF CallersSendNoAnswers, LineInv, TypeOK, ReadLoop, OneLine, OutgoingHasScreen,
        RingInv, NoStaleRing, Open, callVars, deviceVars, readVars
<1>1. ASSUME NEW d \in Inner, AcceptInner(d)  PROVE RingInv'
  BY <1>1 DEF AcceptInner
<1>2. ASSUME NEW d \in Inner, LoseInner(d)  PROVE RingInv'
  <2>1. CASE calling_conn = d
    <3>1. ringing' = {}
      BY <1>2, <2>1 DEF LoseInner, RingAfter, ToLine
    <3> QED
      BY <1>2, <2>1, <3>1 DEF LoseInner, Idle
  <2>2. CASE calling_conn # d
    BY <1>2, <2>2 DEF LoseInner, RingAfter
  <2> QED
    BY <2>1, <2>2
<1>3. ASSUME NEW d \in Inner, ReadInner(d)  PROVE RingInv'
  BY <1>3 DEF ReadInner, BeginRead
<1>4. ASSUME NEW d \in Inner, InnerJoin(d)  PROVE RingInv'
  BY <1>4 DEF InnerJoin, Deliver
<1>5. ASSUME NEW d \in Inner, InnerCallBusy(d)  PROVE RingInv'
  BY <1>5 DEF InnerCallBusy, Deliver, RingAfter
<1>6. ASSUME NEW d \in Inner, InnerCallOut(d)  PROVE RingInv'
  BY <1>6 DEF InnerCallOut
<1>7. ASSUME NEW d \in Inner, InnerCallNoAddress(d)  PROVE RingInv'
  BY <1>7 DEF InnerCallNoAddress
<1>8. ASSUME NEW d \in Inner, InnerCallAccept(d)  PROVE RingInv'
  BY <1>8 DEF InnerCallAccept, Deliver, RingAfter, ToLine, Broadcast
<1>9. ASSUME NEW d \in Inner, InnerCallReject(d)  PROVE RingInv'
  BY <1>9 DEF InnerCallReject, DropLine, Remains, RingAfter, ToLine, Broadcast
<1>10. ASSUME NEW d \in Inner, InnerCallEnd(d)  PROVE RingInv'
  BY <1>10 DEF InnerCallEnd, Deliver
<1>11. ASSUME NEW d \in Inner, InnerCallKeep(d)  PROVE RingInv'
  BY <1>11 DEF InnerCallKeep, Deliver
<1>12. ASSUME NEW d \in Inner, InnerOpenDoor(d)  PROVE RingInv'
  BY <1>12 DEF InnerOpenDoor, Deliver
<1>13. ASSUME NEW o \in Outer, AcceptCall(o)  PROVE RingInv'
  BY <1>13 DEF AcceptCall, Vacant
<1>14. ASSUME NEW o \in Outer, RefuseCall(o)  PROVE RingInv'
  BY <1>14 DEF RefuseCall
<1>15. ASSUME NEW o \in Outer, LoseOuter(o)  PROVE RingInv'
  BY <1>15 DEF LoseOuter, Remains, RingAfter, ToCallingOrAll, Broadcast
<1>16. ASSUME NEW o \in Outer, ConnectOk(o)  PROVE RingInv'
  BY <1>16 DEF ConnectOk
<1>17. ASSUME NEW o \in Outer, ConnectError(o)  PROVE RingInv'
  BY <1>17 DEF ConnectError, RingAfter
<1>18. ASSUME NEW o \in Outer, LateTimer(o)  PROVE RingInv'
  BY <1>18 DEF LateTimer
<1>19. ASSUME NEW o \in Outer, ReadOuter(o)  PROVE RingInv'
  <2>1. CASE outer[o] = "in"
    <3>1. PICK b \in Batches(CallerMsgs) : BeginRead(o, b)
      BY <1>19, <2>1 DEF ReadOuter
    <3>2. b \in Seq(CallerMsgs)
      BY BatchesAreSeqs
    <3> QED
      BY <3>1, <3>2 DEF BeginRead
  <2>2. CASE outer[o] = "out"
    BY <1>19, <2>2 DEF ReadOuter, BeginRead
  <2> QED
    BY <1>19, <2>1, <2>2 DEF ReadOuter
<1>20. ASSUME NEW o \in Outer, OuterCallReq(o)  PROVE RingInv'
  <2>1. (outer[o] = "in") => \A i \in 1 .. Len(batch') : batch'[i] \in CallerMsgs
    BY <1>20 DEF OuterCallReq, Deliver
  <2>2. ringing' \subseteq device_ids
    BY <1>20 DEF OuterCallReq, RingAfter, Broadcast
  <2>3. ringing' # {} => callreq # NULL /\ calling_conn = NULL
    BY <1>20 DEF OuterCallReq, RingAfter
  <2> QED
    BY <1>20, <2>1, <2>2, <2>3 DEF OuterCallReq, Deliver
<1>21. ASSUME NEW o \in Outer, OuterCallAccept(o)  PROVE RingInv'
  <2>1. outer[o] # "in"
    BY <1>21 DEF OuterCallAccept, Deliver
  <2>2. ringing = {}
    BY <1>21, <2>1 DEF OuterCallAccept, Deliver
  <2>3. ringing' = {}
    BY <1>21, <2>2 DEF OuterCallAccept, RingAfter, ToLine
  <2>4. outer'[o] # "in" /\ reader' = o
    BY <1>21, <2>1 DEF OuterCallAccept, Deliver, DropLine
  <2> QED
    BY <2>3, <2>4
<1>22. ASSUME NEW o \in Outer, OuterCallReject(o)  PROVE RingInv'
  <2>1. outer[o] # "in"
    BY <1>22 DEF OuterCallReject, Deliver
  <2>2. ringing = {}
    BY <1>22, <2>1 DEF OuterCallReject, Deliver
  <2>3. ringing' = {}
    BY <1>22, <2>2 DEF OuterCallReject, RingAfter
  <2>4. outer'[o] # "in" /\ reader' = o
    BY <1>22, <2>1 DEF OuterCallReject, Deliver, DropLine
  <2> QED
    BY <2>3, <2>4
<1>23. ASSUME NEW o \in Outer, OuterCallEnd(o)  PROVE RingInv'
  BY <1>23 DEF OuterCallEnd, DropLine, Remains, RingAfter, ToCallingOrAll, Broadcast
<1>24. ASSUME NEW o \in Outer, OuterCallKeep(o)  PROVE RingInv'
  BY <1>24 DEF OuterCallKeep, Deliver
<1>25. ASSUME NEW o \in Outer, OuterOther(o)  PROVE RingInv'
  BY <1>25 DEF OuterOther, Deliver
<1>26. ASSUME EndRead  PROVE RingInv'
  BY <1>26 DEF EndRead
<1>27. ASSUME CheckStatus  PROVE RingInv'
  BY <1>27 DEF CheckStatus, DropLine, RingAfter, ToLine, ToCallingOrAll, Broadcast
<1>28. ASSUME Restart  PROVE RingInv'
  BY <1>28 DEF Restart
<1>29. CASE UNCHANGED vars
  BY <1>29 DEF vars
<1> QED
  BY <1>1, <1>2, <1>3, <1>4, <1>5, <1>6, <1>7, <1>8, <1>9, <1>10, <1>11, <1>12, <1>13, <1>14, <1>15,
     <1>16, <1>17, <1>18, <1>19, <1>20, <1>21, <1>22, <1>23, <1>24, <1>25, <1>26, <1>27, <1>28, <1>29
     DEF Next, InnerNext, OuterNext

-----------------------------------------------------------------------------
(* What a step tells those it takes out of a call.                         *)

\* PeerIsTold, for one step and one peer.
LEMMA PeerStep ==
  ASSUME LineInv, [Next]_vars, NEW p \in Outer, callreq = p, callreq' # p, Alive
  PROVE  \/ outer[p] = "connecting"
         \/ LoseOuter(p) \/ OuterCallEnd(p) \/ OuterCallReject(p)
         \/ <<p, "call_end">> \in sent' \/ <<p, "call_reject">> \in sent'
<1> DEFINE Told == \/ outer[p] = "connecting"
                   \/ LoseOuter(p) \/ OuterCallEnd(p) \/ OuterCallReject(p)
                   \/ <<p, "call_end">> \in sent' \/ <<p, "call_reject">> \in sent'
<1> USE SignallingAssumption DEF LineInv, TypeOK, ReadLoop, OneLine, Open, callVars
<1>1. ASSUME NEW d \in Inner, AcceptInner(d)  PROVE Told
  BY <1>1 DEF AcceptInner
<1>2. ASSUME NEW d \in Inner, LoseInner(d)  PROVE Told
  BY <1>2 DEF LoseInner, ToLine
<1>3. ASSUME NEW d \in Inner, ReadInner(d)  PROVE Told
  BY <1>3 DEF ReadInner, BeginRead
<1>4. ASSUME NEW d \in Inner, InnerJoin(d)  PROVE Told
  BY <1>4 DEF InnerJoin
<1>5. ASSUME NEW d \in Inner, InnerCallBusy(d)  PROVE Told
  BY <1>5 DEF InnerCallBusy
<1>6. ASSUME NEW d \in Inner, InnerCallOut(d)  PROVE Told
  BY <1>6 DEF InnerCallOut
<1>7. ASSUME NEW d \in Inner, InnerCallNoAddress(d)  PROVE Told
  BY <1>7 DEF InnerCallNoAddress
<1>8. ASSUME NEW d \in Inner, InnerCallAccept(d)  PROVE Told
  BY <1>8 DEF InnerCallAccept
<1>9. ASSUME NEW d \in Inner, InnerCallReject(d)  PROVE Told
  BY <1>9 DEF InnerCallReject, ToLine
<1>10. ASSUME NEW d \in Inner, InnerCallEnd(d)  PROVE Told
  BY <1>10 DEF InnerCallEnd, ToLine
<1>11. ASSUME NEW d \in Inner, InnerCallKeep(d)  PROVE Told
  BY <1>11 DEF InnerCallKeep
<1>12. ASSUME NEW d \in Inner, InnerOpenDoor(d)  PROVE Told
  BY <1>12 DEF InnerOpenDoor
<1>13. ASSUME NEW o \in Outer, AcceptCall(o)  PROVE Told
  BY <1>13 DEF AcceptCall
<1>14. ASSUME NEW o \in Outer, RefuseCall(o)  PROVE Told
  BY <1>14 DEF RefuseCall
<1>15. ASSUME NEW o \in Outer, LoseOuter(o)  PROVE Told
  BY <1>15 DEF LoseOuter
<1>16. ASSUME NEW o \in Outer, ConnectOk(o)  PROVE Told
  BY <1>16 DEF ConnectOk
<1>17. ASSUME NEW o \in Outer, ConnectError(o)  PROVE Told
  BY <1>17 DEF ConnectError
<1>18. ASSUME NEW o \in Outer, LateTimer(o)  PROVE Told
  BY <1>18 DEF LateTimer
<1>19. ASSUME NEW o \in Outer, ReadOuter(o)  PROVE Told
  BY <1>19 DEF ReadOuter, BeginRead
<1>20. ASSUME NEW o \in Outer, OuterCallReq(o)  PROVE Told
  BY <1>20 DEF OuterCallReq
<1>21. ASSUME NEW o \in Outer, OuterCallAccept(o)  PROVE Told
  BY <1>21 DEF OuterCallAccept, ToLine
<1>22. ASSUME NEW o \in Outer, OuterCallReject(o)  PROVE Told
  BY <1>22 DEF OuterCallReject, Deliver
<1>23. ASSUME NEW o \in Outer, OuterCallEnd(o)  PROVE Told
  BY <1>23 DEF OuterCallEnd, Deliver
<1>24. ASSUME NEW o \in Outer, OuterCallKeep(o)  PROVE Told
  BY <1>24 DEF OuterCallKeep
<1>25. ASSUME NEW o \in Outer, OuterOther(o)  PROVE Told
  BY <1>25 DEF OuterOther
<1>26. ASSUME EndRead  PROVE Told
  BY <1>26 DEF EndRead
<1>27. ASSUME CheckStatus  PROVE Told
  BY <1>27 DEF CheckStatus, ToLine
<1>28. ASSUME Restart  PROVE Told
  BY <1>28 DEF Restart
<1>29. CASE UNCHANGED vars
  BY <1>29 DEF vars
<1> QED
  BY <1>1, <1>2, <1>3, <1>4, <1>5, <1>6, <1>7, <1>8, <1>9, <1>10, <1>11, <1>12, <1>13, <1>14, <1>15,
     <1>16, <1>17, <1>18, <1>19, <1>20, <1>21, <1>22, <1>23, <1>24, <1>25, <1>26, <1>27, <1>28, <1>29
     DEF Next, InnerNext, OuterNext

\* ScreenIsTold, for one step and one screen.
LEMMA ScreenStep ==
  ASSUME LineInv, [Next]_vars, NEW s \in device_ids, calling_conn = s, calling_conn' # s, Alive
  PROVE  \/ LoseInner(s) \/ InnerCallEnd(s) \/ InnerCallReject(s)
         \/ <<s, "call_end">> \in sent' \/ <<s, "call_reject">> \in sent'
<1> DEFINE Told == \/ LoseInner(s) \/ InnerCallEnd(s) \/ InnerCallReject(s)
                   \/ <<s, "call_end">> \in sent' \/ <<s, "call_reject">> \in sent'
<1> USE SignallingAssumption DEF LineInv, TypeOK, deviceVars
<1>1. ASSUME NEW d \in Inner, AcceptInner(d)  PROVE Told
  BY <1>1 DEF AcceptInner
<1>2. ASSUME NEW d \in Inner, LoseInner(d)  PROVE Told
  BY <1>2 DEF LoseInner
<1>3. ASSUME NEW d \in Inner, ReadInner(d)  PROVE Told
  BY <1>3 DEF ReadInner, BeginRead
<1>4. ASSUME NEW d \in Inner, InnerJoin(d)  PROVE Told
  BY <1>4 DEF InnerJoin
<1>5. ASSUME NEW d \in Inner, InnerCallBusy(d)  PROVE Told
  BY <1>5 DEF InnerCallBusy
<1>6. ASSUME NEW d \in Inner, InnerCallOut(d)  PROVE Told
  BY <1>6 DEF InnerCallOut
<1>7. ASSUME NEW d \in Inner, InnerCallNoAddress(d)  PROVE Told
  BY <1>7 DEF InnerCallNoAddress
<1>8. ASSUME NEW d \in Inner, InnerCallAccept(d)  PROVE Told
  BY <1>8 DEF InnerCallAccept, Broadcast
<1>9. ASSUME NEW d \in Inner, InnerCallReject(d)  PROVE Told
  BY <1>9 DEF InnerCallReject, Broadcast
<1>10. ASSUME NEW d \in Inner, InnerCallEnd(d)  PROVE Told
  BY <1>10 DEF InnerCallEnd
<1>11. ASSUME NEW d \in Inner, InnerCallKeep(d)  PROVE Told
  BY <1>11 DEF InnerCallKeep
<1>12. ASSUME NEW d \in Inner, InnerOpenDoor(d)  PROVE Told
  BY <1>12 DEF InnerOpenDoor
<1>13. ASSUME NEW o \in Outer, AcceptCall(o)  PROVE Told
  BY <1>13 DEF AcceptCall
<1>14. ASSUME NEW o \in Outer, RefuseCall(o)  PROVE Told
  BY <1>14 DEF RefuseCall
<1>15. ASSUME NEW o \in Outer, LoseOuter(o)  PROVE Told
  BY <1>15 DEF LoseOuter, ToCallingOrAll
<1>16. ASSUME NEW o \in Outer, ConnectOk(o)  PROVE Told
  BY <1>16 DEF ConnectOk
<1>17. ASSUME NEW o \in Outer, ConnectError(o)  PROVE Told
  BY <1>17 DEF ConnectError
<1>18. ASSUME NEW o \in Outer, LateTimer(o)  PROVE Told
  BY <1>18 DEF LateTimer
<1>19. ASSUME NEW o \in Outer, ReadOuter(o)  PROVE Told
  BY <1>19 DEF ReadOuter, BeginRead, Idle, Alive
<1>20. ASSUME NEW o \in Outer, OuterCallReq(o)  PROVE Told
  BY <1>20 DEF OuterCallReq, Deliver, Alive, RingAfter, ToLine, ToCallingOrAll, Broadcast
<1>21. ASSUME NEW o \in Outer, OuterCallAccept(o)  PROVE Told
  BY <1>21 DEF OuterCallAccept
<1>22. ASSUME NEW o \in Outer, OuterCallReject(o)  PROVE Told
  BY <1>22 DEF OuterCallReject
<1>23. ASSUME NEW o \in Outer, OuterCallEnd(o)  PROVE Told
  BY <1>23 DEF OuterCallEnd, ToCallingOrAll
<1>24. ASSUME NEW o \in Outer, OuterCallKeep(o)  PROVE Told
  BY <1>24 DEF OuterCallKeep
<1>25. ASSUME NEW o \in Outer, OuterOther(o)  PROVE Told
  BY <1>25 DEF OuterOther
<1>26. ASSUME EndRead  PROVE Told
  BY <1>26 DEF EndRead
<1>27. ASSUME CheckStatus  PROVE Told
  BY <1>27 DEF CheckStatus, ToCallingOrAll
<1>28. ASSUME Restart  PROVE Told
  BY <1>28 DEF Restart
<1>29. CASE UNCHANGED vars
  BY <1>29 DEF vars
<1> QED
  BY <1>1, <1>2, <1>3, <1>4, <1>5, <1>6, <1>7, <1>8, <1>9, <1>10, <1>11, <1>12, <1>13, <1>14, <1>15,
     <1>16, <1>17, <1>18, <1>19, <1>20, <1>21, <1>22, <1>23, <1>24, <1>25, <1>26, <1>27, <1>28, <1>29
     DEF Next, InnerNext, OuterNext

\* OnlyLateAnswers, for one step.
LEMMA AnswerStep ==
  ASSUME LineInv, [Next]_vars, NoCallWithoutLine, ~NoCallWithoutLine'
  PROVE  callreq = NULL /\ \E d \in Inner : InnerCallAccept(d)
<1> DEFINE Late == callreq = NULL /\ \E d \in Inner : InnerCallAccept(d)
<1> USE DEF callVars, deviceVars, NoCallWithoutLine
<1>1. ASSUME NEW d \in Inner, AcceptInner(d)  PROVE Late
  BY <1>1 DEF AcceptInner
<1>2. ASSUME NEW d \in Inner, LoseInner(d)  PROVE Late
  BY <1>2 DEF LoseInner, DropLine
<1>3. ASSUME NEW d \in Inner, ReadInner(d)  PROVE Late
  BY <1>3 DEF ReadInner, BeginRead
<1>4. ASSUME NEW d \in Inner, InnerJoin(d)  PROVE Late
  BY <1>4 DEF InnerJoin
<1>5. ASSUME NEW d \in Inner, InnerCallBusy(d)  PROVE Late
  BY <1>5 DEF InnerCallBusy
<1>6. ASSUME NEW d \in Inner, InnerCallOut(d)  PROVE Late
  BY <1>6, SignallingAssumption DEF InnerCallOut
<1>7. ASSUME NEW d \in Inner, InnerCallNoAddress(d)  PROVE Late
  BY <1>7 DEF InnerCallNoAddress
<1>8. ASSUME NEW d \in Inner, InnerCallAccept(d)  PROVE Late
  BY <1>8 DEF InnerCallAccept
<1>9. ASSUME NEW d \in Inner, InnerCallReject(d)  PROVE Late
  BY <1>9 DEF InnerCallReject, DropLine
<1>10. ASSUME NEW d \in Inner, InnerCallEnd(d)  PROVE Late
  BY <1>10 DEF InnerCallEnd, DropLine
<1>11. ASSUME NEW d \in Inner, InnerCallKeep(d)  PROVE Late
  BY <1>11 DEF InnerCallKeep
<1>12. ASSUME NEW d \in Inner, InnerOpenDoor(d)  PROVE Late
  BY <1>12 DEF InnerOpenDoor
<1>13. ASSUME NEW o \in Outer, AcceptCall(o)  PROVE Late
  BY <1>13 DEF AcceptCall
<1>14. ASSUME NEW o \in Outer, RefuseCall(o)  PROVE Late
  BY <1>14 DEF RefuseCall
<1>15. ASSUME NEW o \in Outer, LoseOuter(o)  PROVE Late
  BY <1>15 DEF LoseOuter
<1>16. ASSUME NEW o \in Outer, ConnectOk(o)  PROVE Late
  BY <1>16 DEF ConnectOk
<1>17. ASSUME NEW o \in Outer, ConnectError(o)  PROVE Late
  BY <1>17 DEF ConnectError
<1>18. ASSUME NEW o \in Outer, LateTimer(o)  PROVE Late
  BY <1>18 DEF LateTimer
<1>19. ASSUME NEW o \in Outer, ReadOuter(o)  PROVE Late
  BY <1>19 DEF ReadOuter, BeginRead
<1>20. ASSUME NEW o \in Outer, OuterCallReq(o)  PROVE Late
  BY <1>20 DEF OuterCallReq
<1>21. ASSUME NEW o \in Outer, OuterCallAccept(o)  PROVE Late
  BY <1>21 DEF OuterCallAccept, DropLine
<1>22. ASSUME NEW o \in Outer, OuterCallReject(o)  PROVE Late
  BY <1>22 DEF OuterCallReject, DropLine
<1>23. ASSUME NEW o \in Outer, OuterCallEnd(o)  PROVE Late
  BY <1>23 DEF OuterCallEnd, DropLine
<1>24. ASSUME NEW o \in Outer, OuterCallKeep(o)  PROVE Late
  BY <1>24 DEF OuterCallKeep
<1>25. ASSUME NEW o \in Outer, OuterOther(o)  PROVE Late
  BY <1>25 DEF OuterOther
<1>26. ASSUME EndRead  PROVE Late
  BY <1>26 DEF EndRead
<1>27. ASSUME CheckStatus  PROVE Late
  BY <1>27 DEF CheckStatus, DropLine
<1>28. ASSUME Restart  PROVE Late
  BY <1>28 DEF Restart
<1>29. CASE UNCHANGED vars
  BY <1>29 DEF vars
<1> QED
  BY <1>1, <1>2, <1>3, <1>4, <1>5, <1>6, <1>7, <1>8, <1>9, <1>10, <1>11, <1>12, <1>13, <1>14, <1>15,
     <1>16, <1>17, <1>18, <1>19, <1>20, <1>21, <1>22, <1>23, <1>24, <1>25, <1>26, <1>27, <1>28, <1>29
     DEF Next, InnerNext, OuterNext

\* The line is free, or becomes free, in every step that changes it.
LEMMA LineMoves ==
  ASSUME LineInv, [Next]_vars
  PROVE  callreq' = callreq \/ callreq = NULL \/ callreq' = NULL
<1> USE DEF callVars
<1>1. ASSUME NEW d \in Inner, AcceptInner(d)  PROVE callreq' = callreq \/ callreq = NULL \/ callreq' = NULL
  BY <1>1 DEF AcceptInner
<1>2. ASSUME NEW d \in Inner, LoseInner(d)  PROVE callreq' = callreq \/ callreq = NULL \/ callreq' = NULL
  BY <1>2 DEF LoseInner, DropLine
<1>3. ASSUME NEW d \in Inner, ReadInner(d)  PROVE callreq' = callreq \/ callreq = NULL \/ callreq' = NULL
  BY <1>3 DEF ReadInner, BeginRead
<1>4. ASSUME NEW d \in Inner, InnerJoin(d)  PROVE callreq' = callreq \/ callreq = NULL \/ callreq' = NULL
  BY <1>4 DEF InnerJoin
<1>5. ASSUME NEW d \in Inner, InnerCallBusy(d)  PROVE callreq' = callreq \/ callreq = NULL \/ callreq' = NULL
  BY <1>5 DEF InnerCallBusy
<1>6. ASSUME NEW d \in Inner, InnerCallOut(d)  PROVE callreq' = callreq \/ callreq = NULL \/ callreq' = NULL
  BY <1>6 DEF InnerCallOut
<1>7. ASSUME NEW d \in Inner, InnerCallNoAddress(d)  PROVE callreq' = callreq \/ callreq = NULL \/ callreq' = NULL
  BY <1>7 DEF InnerCallNoAddress
<1>8. ASSUME NEW d \in Inner, InnerCallAccept(d)  PROVE callreq' = callreq \/ callreq = NULL \/ callreq' = NULL
  BY <1>8 DEF InnerCallAccept
<1>9. ASSUME NEW d \in Inner, InnerCallReject(d)  PROVE callreq' = callreq \/ callreq = NULL \/ callreq' = NULL
  BY <1>9 DEF InnerCallReject, DropLine
<1>10. ASSUME NEW d \in Inner, InnerCallEnd(d)  PROVE callreq' = callreq \/ callreq = NULL \/ callreq' = NULL
  BY <1>10 DEF InnerCallEnd, DropLine
<1>11. ASSUME NEW d \in Inner, InnerCallKeep(d)  PROVE callreq' = callreq \/ callreq = NULL \/ callreq' = NULL
  BY <1>11 DEF InnerCallKeep
<1>12. ASSUME NEW d \in Inner, InnerOpenDoor(d)  PROVE callreq' = callreq \/ callreq = NULL \/ callreq' = NULL
  BY <1>12 DEF InnerOpenDoor
<1>13. ASSUME NEW o \in Outer, AcceptCall(o)  PROVE callreq' = callreq \/ callreq = NULL \/ callreq' = NULL
  BY <1>13 DEF AcceptCall
<1>14. ASSUME NEW o \in Outer, RefuseCall(o)  PROVE callreq' = callreq \/ callreq = NULL \/ callreq' = NULL
  BY <1>14 DEF RefuseCall
<1>15. ASSUME NEW o \in Outer, LoseOuter(o)  PROVE callreq' = callreq \/ callreq = NULL \/ callreq' = NULL
  BY <1>15 DEF LoseOuter
<1>16. ASSUME NEW o \in Outer, ConnectOk(o)  PROVE callreq' = callreq \/ callreq = NULL \/ callreq' = NULL
  BY <1>16 DEF ConnectOk
<1>17. ASSUME NEW o \in Outer, ConnectError(o)  PROVE callreq' = callreq \/ callreq = NULL \/ callreq' = NULL
  BY <1>17 DEF ConnectError
<1>18. ASSUME NEW o \in Outer, LateTimer(o)  PROVE callreq' = callreq \/ callreq = NULL \/ callreq' = NULL
  BY <1>18 DEF LateTimer
<1>19. ASSUME NEW o \in Outer, ReadOuter(o)  PROVE callreq' = callreq \/ callreq = NULL \/ callreq' = NULL
  BY <1>19 DEF ReadOuter, BeginRead
<1>20. ASSUME NEW o \in Outer, OuterCallReq(o)  PROVE callreq' = callreq \/ callreq = NULL \/ callreq' = NULL
  BY <1>20 DEF OuterCallReq
<1>21. ASSUME NEW o \in Outer, OuterCallAccept(o)  PROVE callreq' = callreq \/ callreq = NULL \/ callreq' = NULL
  BY <1>21 DEF OuterCallAccept, DropLine
<1>22. ASSUME NEW o \in Outer, OuterCallReject(o)  PROVE callreq' = callreq \/ callreq = NULL \/ callreq' = NULL
  BY <1>22 DEF OuterCallReject, DropLine
<1>23. ASSUME NEW o \in Outer, OuterCallEnd(o)  PROVE callreq' = callreq \/ callreq = NULL \/ callreq' = NULL
  BY <1>23 DEF OuterCallEnd, DropLine
<1>24. ASSUME NEW o \in Outer, OuterCallKeep(o)  PROVE callreq' = callreq \/ callreq = NULL \/ callreq' = NULL
  BY <1>24 DEF OuterCallKeep
<1>25. ASSUME NEW o \in Outer, OuterOther(o)  PROVE callreq' = callreq \/ callreq = NULL \/ callreq' = NULL
  BY <1>25 DEF OuterOther
<1>26. ASSUME EndRead  PROVE callreq' = callreq \/ callreq = NULL \/ callreq' = NULL
  BY <1>26 DEF EndRead
<1>27. ASSUME CheckStatus  PROVE callreq' = callreq \/ callreq = NULL \/ callreq' = NULL
  BY <1>27 DEF CheckStatus, DropLine
<1>28. ASSUME Restart  PROVE callreq' = callreq \/ callreq = NULL \/ callreq' = NULL
  BY <1>28 DEF Restart
<1>29. CASE UNCHANGED vars
  BY <1>29 DEF vars
<1> QED
  BY <1>1, <1>2, <1>3, <1>4, <1>5, <1>6, <1>7, <1>8, <1>9, <1>10, <1>11, <1>12, <1>13, <1>14, <1>15,
     <1>16, <1>17, <1>18, <1>19, <1>20, <1>21, <1>22, <1>23, <1>24, <1>25, <1>26, <1>27, <1>28, <1>29
     DEF Next, InnerNext, OuterNext

-----------------------------------------------------------------------------
(* The theorems.                                                           *)

\* The inductive invariant holds initially and is preserved.
LEMMA LineInvariant == Spec => []LineInv
<1>1. Init => LineInv
  <2>1. <<>> \in Seq(OuterMsgs \cup InnerMsgs)
    OBVIOUS
  <2> QED
    BY <2>1, SignallingAssumption DEF Init, LineInv, TypeOK, OuterStates, ReadLoop, OneLine, Open,
       CallingIsConnected, OutgoingHasScreen, NullOnlyAfterHangup
<1>2. LineInv /\ [Next]_vars => LineInv'
  BY LineStep
<1> QED
  BY <1>1, <1>2, PTL DEF Spec

\* Every state of the program is of the stated types.
THEOREM TypeCorrect == Spec => []TypeOK
BY LineInvariant, PTL DEF LineInv

\* At any time the open connections to the outside are exactly that of the call.
THEOREM LineIsOne == Spec => []OneLine
BY LineInvariant, PTL DEF LineInv

\* The screen recorded in the call is connected.
THEOREM CallingConnected == Spec => []CallingIsConnected
BY LineInvariant, PTL DEF LineInv

\* A call going out has a screen.
THEOREM OutgoingAnswered == Spec => []OutgoingHasScreen
BY LineInvariant, PTL DEF LineInv

\* The empty callreq_ is dereferenced only for messages of a closed connection.
THEOREM NullDereference == Spec => []NullOnlyAfterHangup
BY LineInvariant, PTL DEF LineInv

\* With callers that send no answers, no screen rings on after an answer or the end.
THEOREM RingingStops ==
  ASSUME CallersSendNoAnswers
  PROVE  Spec => []NoStaleRing
<1>1. Init => RingInv
  BY SignallingAssumption DEF Init, RingInv, NoStaleRing
<1>2. LineInv /\ RingInv /\ [Next]_vars => RingInv'
  BY RingStep
<1>3. RingInv => NoStaleRing
  BY DEF RingInv
<1> QED
  BY <1>1, <1>2, <1>3, LineInvariant, PTL DEF Spec

\* No call ends behind the back of a connected peer.
THEOREM PeerTold == Spec => PeerIsTold
<1>1. LineInv /\ [Next]_vars =>
        [\A o \in Outer :
           callreq = o /\ callreq' # o /\ Alive =>
             \/ outer[o] = "connecting"
             \/ LoseOuter(o) \/ OuterCallEnd(o) \/ OuterCallReject(o)
             \/ <<o, "call_end">> \in sent' \/ <<o, "call_reject">> \in sent']_vars
  BY PeerStep
<1> QED
  BY <1>1, LineInvariant, PTL DEF Spec, PeerIsTold

\* No joined screen is taken out of a call without a word.
THEOREM ScreenTold == Spec => ScreenIsTold
<1>1. LineInv /\ [Next]_vars =>
        [\A d \in device_ids :
           calling_conn = d /\ calling_conn' # d /\ Alive =>
             \/ LoseInner(d) \/ InnerCallEnd(d) \/ InnerCallReject(d)
             \/ <<d, "call_end">> \in sent' \/ <<d, "call_reject">> \in sent']_vars
  BY ScreenStep
<1> QED
  BY <1>1, LineInvariant, PTL DEF Spec, ScreenIsTold

\* A call is let go of in both managers at once, but for answers that come late.
THEOREM CallsEndTogether == Spec => OnlyLateAnswers
<1>1. LineInv /\ [Next]_vars =>
        [NoCallWithoutLine /\ ~NoCallWithoutLine' =>
           callreq = NULL /\ \E d \in Inner : InnerCallAccept(d)]_vars
  BY AnswerStep
<1> QED
  BY <1>1, LineInvariant, PTL DEF Spec, OnlyLateAnswers

\* No screen answers a call that is over.
NoLateAnswer == [][callreq = NULL => \A d \in Inner : ~InnerCallAccept(d)]_vars

\* If acceptCall() never meets a lost line, no screen is ever in a call without one:
\* the answer it gives then (call_manager.cpp:337) is the only cause.
THEOREM AnswersInTime == Spec /\ NoLateAnswer => []NoCallWithoutLine
<1>1. Init => NoCallWithoutLine
  BY DEF Init, NoCallWithoutLine
<1>2. LineInv /\ NoCallWithoutLine /\ [Next]_vars
        /\ [callreq = NULL => \A d \in Inner : ~InnerCallAccept(d)]_vars
      => NoCallWithoutLine'
  <2>1. UNCHANGED vars /\ NoCallWithoutLine => NoCallWithoutLine'
    BY DEF vars, callVars, deviceVars, NoCallWithoutLine
  <2> QED
    BY <2>1, AnswerStep
<1> QED
  BY <1>1, <1>2, LineInvariant, PTL DEF Spec, NoLateAnswer

\* The box implements the line it promises to the outside.
THEOREM LineRefinement == Spec => LineIsExclusive
<1> DEFINE open == {o \in Outer : outer[o] \in Open}
<1>1. Init => CL!Init
  BY DEF Init, CL!Init, Open
<1>2. LineInv => open = IF callreq = NULL THEN {} ELSE {callreq}
  BY SignallingAssumption DEF LineInv, TypeOK, OneLine
<1>3. LineInv /\ LineInv' /\ [Next]_vars => [CL!Next]_CL!vars
  <2> SUFFICES ASSUME LineInv, LineInv', [Next]_vars
               PROVE  [CL!Next]_CL!vars
    OBVIOUS
  <2>1. open' = IF callreq' = NULL THEN {} ELSE {callreq'}
    BY SignallingAssumption DEF LineInv, TypeOK, OneLine
  <2>2. CASE callreq' = callreq
    BY <1>2, <2>1, <2>2 DEF CL!vars
  <2>3. CASE callreq = NULL /\ callreq' # NULL
    BY <1>2, <2>1, <2>3 DEF CL!Next, CL!Seize
  <2>4. CASE callreq # NULL /\ callreq' = NULL
    BY <1>2, <2>1, <2>4 DEF CL!Next, CL!Release
  <2> QED
    BY <2>2, <2>3, <2>4, LineMoves
<1> QED
  BY <1>1, <1>3, LineInvariant, PTL DEF Spec, LineIsExclusive, CL!Spec

=============================================================================
