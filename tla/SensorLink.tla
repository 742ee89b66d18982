----------------------------- MODULE SensorLink -----------------------------
(***************************************************************************)
(* The serial link from the sensor board to the alarm zones: the board     *)
(* writes messages, each with a checksum and ended by a separator; the     *)
(* thread of Sensor reads whatever bytes have come, cuts them into lines   *)
(* and hands the messages to SecZoneGuard, which notes the heartbeats; a   *)
(* timer of the main thread looks whether there were any.                  *)
(*                                                                         *)
(* A byte of the model is one byte of a message, two characters on the     *)
(* line.  A checksum is taken to tell a message from anything else.        *)
(* Time is counted in steps of a clock, as far as the guard compares it.   *)
(***************************************************************************)
EXTENDS Naturals, Sequences

CONSTANTS
  Beats,      \* messages of type Heartbeat
  Values,     \* messages of other types
  Size,       \* bytes of an encoded message, its checksum included
  CrcSize,    \* CRC_BIT_SIZE
  Separator,  \* SP
  Bad,        \* a byte the line has damaged
  ReadSize,   \* what one sp_blocking_read() takes at most
  HbInterval, \* heartbeat_interval_
  MaxOffline, \* max_offline_time_
  MaxSent,    \* bound: messages the board sends
  MaxNoise    \* bound: bytes that are damaged or lost

Messages == Beats \cup Values

ASSUME LinkAssumption ==
  /\ Beats \cap Values = {}
  /\ CrcSize \in Nat
  /\ Size \in Nat /\ Size > CrcSize
  /\ Separator # Bad
  /\ {Separator, Bad} \cap (Messages \X (1 .. Size)) = {}
  /\ ReadSize \in Nat \ {0}
  /\ HbInterval \in Nat \ {0}
  /\ MaxOffline \in Nat
  /\ MaxSent \in Nat
  /\ MaxNoise \in Nat

VARIABLES
  sent,      \* the messages the board has sent
  wire,      \* bytes that are sent and not read
  noise,     \* how many bytes the line has damaged
  reader,    \* the thread of Sensor: waits for bytes, cuts lines, is gone; or the process died
  databuf,   \* databuf_
  delivered, \* the messages handed to SecZoneGuard::onMessage
  age,       \* time(NULL) - last_heartbeat_time
  due,       \* until the timer of check_heartbeat expires
  offline,   \* onSensorOffline() was called since the last heartbeat
  silence,   \* time since a heartbeat was last handled, or since the start
  seen,      \* all bytes read so far
  parsed     \* those of them that were handed to parse(), and their separators

boardVars == <<sent, wire, noise>>
readVars  == <<reader, databuf, delivered, seen, parsed>>
timeVars  == <<age, due, offline, silence>>
vars      == <<boardVars, readVars, timeVars>>

Byte == (Messages \X (1 .. Size)) \cup {Separator, Bad}
Age  == 0 .. MaxOffline + 1

\* textEncode(): what stands on the line for message m, its separator not included.
Encoding(m) == [i \in 1 .. Size |-> <<m, i>>]

\* The clock is only compared with MaxOffline.
Later(t) == IF t > MaxOffline THEN t ELSE t + 1

Alive == reader # "crashed"

Init ==
  /\ sent = <<>>
  /\ wire = <<>>
  /\ noise = 0
  /\ reader \in {"read", "none"}  \* open() may fail to open the port
  /\ databuf = <<>>
  /\ delivered = <<>>
  /\ age = 0
  /\ due = HbInterval
  /\ offline = FALSE
  /\ silence = 0
  /\ seen = <<>>
  /\ parsed = <<>>

-----------------------------------------------------------------------------
(* The board and the line.                                                 *)

Send(m) ==
  /\ Len(sent) < MaxSent
  /\ sent' = Append(sent, m)
  /\ wire' = wire \o Encoding(m) \o <<Separator>>
  /\ UNCHANGED <<noise, readVars, timeVars>>

Damage(i) ==
  /\ noise < MaxNoise
  /\ noise' = noise + 1
  /\ \/ \E b \in {Bad, Separator} : wire' = [wire EXCEPT ![i] = b]
     \/ wire' = SubSeq(wire, 1, i - 1) \o SubSeq(wire, i + 1, Len(wire))
  /\ UNCHANGED <<sent, readVars, timeVars>>

-----------------------------------------------------------------------------
(* The thread of Sensor.                                                   *)

\* Mutant: what was left of the bytes read before is dropped.
ReadAnew(n) ==
  /\ reader = "read"
  /\ n <= ReadSize
  /\ reader' = "split"
  /\ databuf' = SubSeq(wire, 1, n)
  /\ wire' = SubSeq(wire, n + 1, Len(wire))
  /\ seen' = seen \o SubSeq(wire, 1, n)
  /\ UNCHANGED <<sent, noise, delivered, parsed, timeVars>>

\* run() and onRecv(): n bytes are read and added to the buffer.
Read(n) ==
  /\ reader = "read"
  /\ n <= ReadSize
  /\ reader' = "split"
  /\ databuf' = databuf \o SubSeq(wire, 1, n)
  /\ wire' = SubSeq(wire, n + 1, Len(wire))
  /\ seen' = seen \o SubSeq(wire, 1, n)
  /\ UNCHANGED <<sent, noise, delivered, parsed, timeVars>>

\* run(): any error of the port ends the thread.
ReadError ==
  /\ reader = "read"
  /\ reader' = "none"
  /\ UNCHANGED <<boardVars, databuf, delivered, seen, parsed, timeVars>>

\* Position i holds the first separator of the buffer.
FirstSeparator(i) ==
  /\ databuf[i] = Separator
  /\ \A j \in 1 .. i - 1 : databuf[j] # Separator

Line(i) == SubSeq(databuf, 1, i - 1)

\* Mutant: the separator is left in the buffer.
RestAndSeparator(i) == SubSeq(databuf, i, Len(databuf))

\* Mutant: the line that was cut off stays in the buffer.
RestAndLine(i) == databuf

\* data_split(): what stays in the buffer when the line up to i is cut off.
Rest(i) == SubSeq(databuf, i + 1, Len(databuf))

\* One round of data_split() and of the loop of onRecv().
CutLine(i) ==
  /\ reader = "split"
  /\ FirstSeparator(i)
  /\ databuf' = Rest(i)
  /\ parsed' = parsed \o Line(i) \o <<Separator>>
  /\ UNCHANGED <<boardVars, seen>>

\* Mutant: heartbeats are not noted.
OnMessageUnnoted(m) ==
  /\ delivered' = Append(delivered, m)
  /\ IF m \in Beats THEN silence' = 0 /\ offline' = FALSE ELSE UNCHANGED <<silence, offline>>
  /\ UNCHANGED <<age, due>>

\* SecZoneGuard::onMessage(); what a port status leads to is in SecZone.
OnMessage(m) ==
  /\ delivered' = Append(delivered, m)
  /\ IF m \in Beats THEN age' = 0 /\ silence' = 0 /\ offline' = FALSE
                    ELSE UNCHANGED <<age, silence, offline>>
  /\ UNCHANGED due

\* parse() accepts the line.
ParseMessage(i) ==
  /\ CutLine(i)
  /\ \E m \in Messages : Line(i) = Encoding(m) /\ OnMessage(m)
  /\ UNCHANGED reader

\* parse() answers empty: odd length, wrong checksum.  With fewer bytes than the
\* checksum takes it has read before the buffer, and then compares what it found.
RejectLine(i) ==
  /\ CutLine(i)
  /\ \A m \in Messages : Line(i) # Encoding(m)
  /\ Line(i) # <<>>
  /\ UNCHANGED <<reader, delivered, timeVars>>

\* ... and when that happens to agree, a string of negative length ends the
\* process; so does an empty line, for there is no buffer to read before.
ParseShortLine(i) ==
  /\ CutLine(i)
  /\ i <= CrcSize
  /\ reader' = "crashed"
  /\ UNCHANGED <<delivered, timeVars>>

\* Mutant: only one line is cut after a read.
EndOfLinesEarly ==
  /\ reader = "split"
  /\ reader' = "read"
  /\ UNCHANGED <<boardVars, databuf, delivered, seen, parsed, timeVars>>

\* No separator is left: onRecv() returns.
EndOfLines ==
  /\ reader = "split"
  /\ \A i \in DOMAIN databuf : databuf[i] # Separator
  /\ reader' = "read"
  /\ UNCHANGED <<boardVars, databuf, delivered, seen, parsed, timeVars>>

-----------------------------------------------------------------------------
(* The clock and the main thread.                                          *)

Tick ==
  /\ age' = Later(age)
  /\ silence' = Later(silence)
  /\ due' = IF due = 0 THEN 0 ELSE due - 1
  /\ UNCHANGED <<boardVars, readVars, offline>>

\* Mutant: the timer is set twice as far.
CheckHeartbeatLate ==
  /\ Alive
  /\ due = 0
  /\ offline' = (offline \/ age > MaxOffline)
  /\ age' = 0
  /\ due' = 2 * HbInterval
  /\ UNCHANGED <<boardVars, readVars, silence>>

\* check_heartbeat(): whatever it finds, it notes the present time.
CheckHeartbeat ==
  /\ Alive
  /\ due = 0
  /\ offline' = (offline \/ age > MaxOffline)
  /\ age' = 0
  /\ due' = HbInterval
  /\ UNCHANGED <<boardVars, readVars, silence>>

-----------------------------------------------------------------------------
ReadSome == \E n \in 1 .. Len(wire) : Read(n)

Cut ==
  \/ \E i \in DOMAIN databuf : ParseMessage(i) \/ RejectLine(i) \/ ParseShortLine(i)
  \/ EndOfLines

Next ==
  \/ \E m \in Messages : Send(m)
  \/ \E i \in DOMAIN wire : Damage(i)
  \/ ReadSome
  \/ ReadError
  \/ Cut
  \/ Tick
  \/ CheckHeartbeat

\* The thread runs while there are bytes, io_service::run() calls the timer that
\* expired, time passes; nothing is expected of the board and the line.
Fairness == WF_vars(ReadSome) /\ WF_vars(Cut) /\ WF_vars(Tick) /\ WF_vars(CheckHeartbeat)

Spec == Init /\ [][Next]_vars /\ Fairness

-----------------------------------------------------------------------------
(* Properties.                                                             *)

\* Types and ranges of all variables.
TypeOK ==
  /\ sent \in Seq(Messages)
  /\ wire \in Seq(Byte)
  /\ noise \in 0 .. MaxNoise
  /\ reader \in {"read", "split", "none", "crashed"}
  /\ databuf \in Seq(Byte)
  /\ delivered \in Seq(Messages)
  /\ age \in Age
  /\ due \in 0 .. HbInterval
  /\ offline \in BOOLEAN
  /\ silence \in Age
  /\ seen \in Seq(Byte)
  /\ parsed \in Seq(Byte)

\* However the bytes are cut into reads, the lines given to parse() and the rest
\* in databuf_ are the bytes read, in their order, none twice and none missing;
\* between two reads the rest holds no complete line (onRecv, data_split).
NoByteLost ==
  /\ parsed \o databuf = seen
  /\ reader = "read" => \A i \in DOMAIN databuf : databuf[i] # Separator

LL == INSTANCE LossyLine WITH Message <- Messages, got <- delivered

\* The link implements the lossy line: each step of the board, the line, the reader
\* and the timer is a message sent, a message delivered, or nothing to the guard.
LinkIsLossyLine == LL!Spec

\* The guard gets messages the board sent, in the order they were sent and none
\* twice, whatever the line does to them; and if it does nothing, all of them,
\* and no line is so short that parse() reads outside its buffer.
Delivery ==
  /\ LL!Remains(delivered, sent)
  /\ noise = 0 => /\ Alive
                  /\ wire = <<>> /\ reader = "read" => delivered = sent

\* onSensorOffline() is called only when no heartbeat was handled for longer than
\* sensor_offline_time, although two threads write last_heartbeat_time.
OfflineIsTrue == [][~offline /\ offline' => silence > MaxOffline]_vars

\* While the thread lives it comes again and again to where every byte is read and
\* every complete line is handled: no line waits for the bytes after it.
NothingStaysBehind ==
  []<>(\/ reader \in {"none", "crashed"}
       \/ wire = <<>> /\ \A i \in DOMAIN databuf : databuf[i] # Separator)

\* seczone.cpp:184 and 160: check_heartbeat looks whether the board's heartbeat has
\* timed out, by default after an hour without one.  Does it notice?
SilenceIsNoticed == silence > MaxOffline ~> offline \/ silence = 0 \/ ~Alive

=============================================================================
