-------------------------- MODULE SensorLinkProofs --------------------------
(***************************************************************************)
(* Proofs about SensorLink, for any messages, any size of reads and any    *)
(* amount of noise: the bytes are neither lost nor doubled on their way    *)
(* into lines, the messages come through as they were sent, and what is    *)
(* reported as silence is silence.                                         *)
(***************************************************************************)
EXTENDS SensorLink, SequenceTheorems, TLAPS

-----------------------------------------------------------------------------
(* Sequences.                                                              *)

\* What the code cuts out of a sequence of bytes is a sequence of bytes.
LEMMA Part ==
  ASSUME NEW S, NEW s \in Seq(S), NEW m \in Nat \ {0}, NEW n \in 0 .. Len(s)
  PROVE  SubSeq(s, m, n) \in Seq(S)
<1>1. \A i \in m .. n : s[i] \in S
  BY ElementOfSeq
<1> QED
  BY <1>1, SubSeqProperties

\* A sequence cut before and after position i, joined again.
LEMMA CutAndJoin ==
  ASSUME NEW S, NEW s \in Seq(S), NEW i \in 1 .. Len(s)
  PROVE  (SubSeq(s, 1, i - 1) \o <<s[i]>>) \o SubSeq(s, i + 1, Len(s)) = s
<1>1. SubSeq(s, 1, i) = SubSeq(s, 1, i - 1) \o <<s[i]>>
  BY SubSeqRecursiveSecond
<1>2. SubSeq(s, 1, i) \o SubSeq(s, i + 1, Len(s)) = SubSeq(s, 1, Len(s))
  BY ConcatAdjacentSubSeq
<1> QED
  BY <1>1, <1>2, SubSeqFull

\* Bytes may be joined in any order.
LEMMA Regroup ==
  \A s, t, u \in Seq(Byte) : (s \o t) \o u = s \o (t \o u)
BY ConcatAssociative

\* An encoded message is a sequence of bytes.
LEMMA EncodingType ==
  ASSUME NEW m \in Messages
  PROVE  Encoding(m) \in Seq(Byte)
<1>1. Size \in Nat
  BY LinkAssumption
<1>2. Encoding(m) \in [1 .. Size -> Byte]
  BY DEF Encoding, Byte
<1> QED
  BY <1>1, <1>2

-----------------------------------------------------------------------------
(* Types.                                                                  *)

\* The clock stays within what the guard compares.
LEMMA LaterType ==
  ASSUME NEW t \in Age
  PROVE  Later(t) \in Age
BY LinkAssumption DEF Age, Later

\* Cutting a line keeps the types of what it touches.
LEMMA CutType ==
  ASSUME TypeOK, NEW i \in DOMAIN databuf, CutLine(i)
  PROVE  /\ databuf' \in Seq(Byte)
         /\ parsed' \in Seq(Byte)
<1>1. i \in 1 .. Len(databuf)
  BY DEF TypeOK
<1>2. Line(i) \in Seq(Byte) /\ Rest(i) \in Seq(Byte)
  BY <1>1, Part DEF TypeOK, Line, Rest
<1>3. <<Separator>> \in Seq(Byte)
  BY DEF Byte
<1> QED
  BY <1>2, <1>3, ConcatProperties DEF TypeOK, CutLine

\* Every step of the link keeps the types.
LEMMA TypeStep ==
  ASSUME TypeOK, [Next]_vars
  PROVE  TypeOK'
<1> USE LinkAssumption
<1>1. ASSUME NEW m \in Messages, Send(m)  PROVE TypeOK'
  <2>1. wire \o Encoding(m) \o <<Separator>> \in Seq(Byte)
    BY EncodingType, ConcatProperties DEF TypeOK, Byte
  <2> QED
    BY <1>1, <2>1 DEF TypeOK, Send, readVars, timeVars
<1>2. ASSUME NEW i \in DOMAIN wire, Damage(i)  PROVE TypeOK'
  <2>1. i \in 1 .. Len(wire)
    BY DEF TypeOK
  <2>2. \A b \in {Bad, Separator} : [wire EXCEPT ![i] = b] \in Seq(Byte)
    BY <2>1, ExceptSeq DEF TypeOK, Byte
  <2>3. SubSeq(wire, 1, i - 1) \in Seq(Byte) /\ SubSeq(wire, i + 1, Len(wire)) \in Seq(Byte)
    BY <2>1, Part DEF TypeOK
  <2>4. SubSeq(wire, 1, i - 1) \o SubSeq(wire, i + 1, Len(wire)) \in Seq(Byte)
    BY <2>3, ConcatProperties
  <2>5. wire' \in Seq(Byte)
    BY <1>2, <2>2, <2>4, Zenon DEF Damage
  <2>6. noise < MaxNoise /\ noise' = noise + 1
    BY <1>2, Zenon DEF Damage
  <2>7. noise' \in 0 .. MaxNoise
    BY <2>6 DEF TypeOK
  <2> QED
    BY <1>2, <2>5, <2>7 DEF TypeOK, Damage, readVars, timeVars
<1>3. ASSUME NEW n \in 1 .. Len(wire), Read(n)  PROVE TypeOK'
  <2>1. SubSeq(wire, 1, n) \in Seq(Byte) /\ SubSeq(wire, n + 1, Len(wire)) \in Seq(Byte)
    BY Part DEF TypeOK
  <2>2. databuf' \in Seq(Byte) /\ seen' \in Seq(Byte)
    BY <1>3, <2>1, ConcatProperties DEF TypeOK, Read
  <2> QED
    BY <1>3, <2>1, <2>2 DEF TypeOK, Read, timeVars
<1>4. ASSUME ReadError  PROVE TypeOK'
  BY <1>4 DEF TypeOK, ReadError, boardVars, timeVars
<1>5. ASSUME NEW i \in DOMAIN databuf, ParseMessage(i)  PROVE TypeOK'
  <2>1. CutLine(i)
    BY <1>5 DEF ParseMessage
  <2>2. PICK m \in Messages : OnMessage(m)
    BY <1>5 DEF ParseMessage
  <2>3. delivered' \in Seq(Messages)
    BY <2>2 DEF TypeOK, OnMessage
  <2>4. age' \in Age /\ silence' \in Age /\ due' \in 0 .. HbInterval
    BY <2>2 DEF TypeOK, OnMessage, Age
  <2>5. offline' \in BOOLEAN
    BY <2>2, Zenon DEF TypeOK, OnMessage
  <2> QED
    BY <1>5, <2>1, <2>3, <2>4, <2>5, CutType DEF TypeOK, ParseMessage, CutLine, boardVars
<1>6. ASSUME NEW i \in DOMAIN databuf, RejectLine(i)  PROVE TypeOK'
  <2>1. CutLine(i)
    BY <1>6 DEF RejectLine
  <2> QED
    BY <1>6, <2>1, CutType DEF TypeOK, RejectLine, CutLine, boardVars, timeVars
<1>7. ASSUME NEW i \in DOMAIN databuf, ParseShortLine(i)  PROVE TypeOK'
  <2>1. CutLine(i)
    BY <1>7 DEF ParseShortLine
  <2> QED
    BY <1>7, <2>1, CutType DEF TypeOK, ParseShortLine, CutLine, boardVars, timeVars
<1>8. ASSUME EndOfLines  PROVE TypeOK'
  BY <1>8 DEF TypeOK, EndOfLines, boardVars, timeVars
<1>9. ASSUME Tick  PROVE TypeOK'
  BY <1>9, LaterType DEF TypeOK, Tick, boardVars, readVars
<1>10. ASSUME CheckHeartbeat  PROVE TypeOK'
  BY <1>10 DEF TypeOK, CheckHeartbeat, boardVars, readVars, Age
<1>11. ASSUME UNCHANGED vars  PROVE TypeOK'
  BY <1>11 DEF TypeOK, vars, boardVars, readVars, timeVars
<1> QED
  BY <1>1, <1>2, <1>3, <1>4, <1>5, <1>6, <1>7, <1>8, <1>9, <1>10, <1>11
     DEF Next, ReadSome, Cut

\* At the start too.
LEMMA InitType == Init => TypeOK
<1>1. <<>> \in Seq(Byte) /\ <<>> \in Seq(Messages)
  BY EmptySeq
<1>2. 0 \in Age /\ 0 \in 0 .. MaxNoise /\ HbInterval \in 0 .. HbInterval
  BY LinkAssumption DEF Age
<1> QED
  BY <1>1, <1>2 DEF Init, TypeOK

\* The variables of the link always have their types.
THEOREM TypeCorrect == Spec => []TypeOK
BY InitType, TypeStep, PTL DEF Spec

-----------------------------------------------------------------------------
(* Bytes.                                                                  *)

\* Cutting a line moves bytes from the buffer to parse() and changes none.
LEMMA CutKeepsBytes ==
  ASSUME TypeOK, NEW i \in DOMAIN databuf, CutLine(i)
  PROVE  parsed' \o databuf' = parsed \o databuf
<1>1. i \in 1 .. Len(databuf) /\ databuf[i] = Separator
  BY DEF TypeOK, CutLine, FirstSeparator
<1>2. Line(i) \in Seq(Byte) /\ Rest(i) \in Seq(Byte) /\ <<Separator>> \in Seq(Byte)
  BY <1>1, Part DEF TypeOK, Line, Rest, Byte
<1>3. Line(i) \o <<Separator>> \in Seq(Byte)
  BY <1>2, ConcatProperties
<1>4. (Line(i) \o <<Separator>>) \o Rest(i) = databuf
  BY <1>1, CutAndJoin DEF TypeOK, Line, Rest
<1>5. parsed' = parsed \o (Line(i) \o <<Separator>>)
  BY <1>2, Regroup, Zenon DEF TypeOK, CutLine
<1>6. parsed \in Seq(Byte) /\ databuf' = Rest(i)
  BY DEF TypeOK, CutLine
<1>7. (parsed \o (Line(i) \o <<Separator>>)) \o Rest(i)
      = parsed \o ((Line(i) \o <<Separator>>) \o Rest(i))
  BY <1>2, <1>3, <1>6, Regroup, Zenon
<1> QED
  BY <1>4, <1>5, <1>6, <1>7, Zenon

\* Every step keeps the account of the bytes.
LEMMA ByteStep ==
  ASSUME TypeOK, NoByteLost, [Next]_vars
  PROVE  NoByteLost'
<1>1. ASSUME UNCHANGED readVars  PROVE NoByteLost'
  BY <1>1 DEF NoByteLost, readVars
<1>2. ASSUME NEW n \in 1 .. Len(wire), Read(n)  PROVE NoByteLost'
  <2>1. SubSeq(wire, 1, n) \in Seq(Byte)
    BY Part DEF TypeOK
  <2>2. parsed \o (databuf \o SubSeq(wire, 1, n)) = (parsed \o databuf) \o SubSeq(wire, 1, n)
    BY <2>1, Regroup, Zenon DEF TypeOK
  <2> QED
    BY <1>2, <2>2 DEF NoByteLost, Read
<1>3. ASSUME ReadError  PROVE NoByteLost'
  BY <1>3 DEF NoByteLost, ReadError
<1>4. ASSUME NEW i \in DOMAIN databuf, ParseMessage(i) \/ RejectLine(i) \/ ParseShortLine(i)
      PROVE  NoByteLost'
  <2>1. CutLine(i)
    BY <1>4 DEF ParseMessage, RejectLine, ParseShortLine
  <2>2. parsed' \o databuf' = seen'
    BY <2>1, CutKeepsBytes DEF NoByteLost, CutLine
  <2>3. reader' # "read"
    BY <1>4, <2>1 DEF ParseMessage, RejectLine, ParseShortLine, CutLine
  <2> QED
    BY <2>2, <2>3 DEF NoByteLost
<1>5. ASSUME EndOfLines  PROVE NoByteLost'
  BY <1>5 DEF NoByteLost, EndOfLines
<1> QED
  BY <1>1, <1>2, <1>3, <1>4, <1>5
     DEF Next, ReadSome, Cut, Send, Damage, Tick, CheckHeartbeat, vars

\* However the bytes are cut into reads, lines and rest are the bytes read (onRecv,
\* data_split).
THEOREM BytesConserved == Spec => []NoByteLost
<1>1. Init => NoByteLost
  BY ConcatEmptySeq, EmptySeq DEF Init, NoByteLost
<1> QED
  BY <1>1, ByteStep, TypeCorrect, PTL DEF Spec

-----------------------------------------------------------------------------
(* Time.                                                                   *)

\* The time the guard goes by is never more than the true silence.
AgeInv == age <= silence

LEMMA AgeStep ==
  ASSUME TypeOK, AgeInv, [Next]_vars
  PROVE  AgeInv'
<1>1. age \in Nat /\ silence \in Nat /\ MaxOffline \in Nat
      /\ age <= MaxOffline + 1 /\ silence <= MaxOffline + 1
  BY LinkAssumption DEF TypeOK, Age
<1>2. ASSUME UNCHANGED timeVars  PROVE AgeInv'
  BY <1>2 DEF AgeInv, timeVars
<1>3. ASSUME NEW i \in DOMAIN databuf, ParseMessage(i)  PROVE AgeInv'
  <2>1. PICK m \in Messages : OnMessage(m)
    BY <1>3 DEF ParseMessage
  <2> QED
    BY <1>1, <2>1 DEF AgeInv, OnMessage
<1>4. ASSUME Tick  PROVE AgeInv'
  BY <1>1, <1>4 DEF AgeInv, Tick, Later
<1>5. ASSUME CheckHeartbeat  PROVE AgeInv'
  BY <1>1, <1>5 DEF AgeInv, CheckHeartbeat
<1> QED
  BY <1>2, <1>3, <1>4, <1>5
     DEF Next, ReadSome, Cut, Send, Damage, Read, ReadError, RejectLine, ParseShortLine,
         EndOfLines, vars

\* A step that reports the board offline does so after true silence.
LEMMA OfflineStep ==
  ASSUME TypeOK, AgeInv, [Next]_vars
  PROVE  ~offline /\ offline' => silence > MaxOffline
<1>1. ASSUME UNCHANGED offline  PROVE ~offline /\ offline' => silence > MaxOffline
  BY <1>1
<1>2. ASSUME NEW i \in DOMAIN databuf, ParseMessage(i)
      PROVE  ~offline /\ offline' => silence > MaxOffline
  <2>1. PICK m \in Messages : OnMessage(m)
    BY <1>2 DEF ParseMessage
  <2> QED
    BY <2>1 DEF OnMessage
<1>3. ASSUME CheckHeartbeat  PROVE ~offline /\ offline' => silence > MaxOffline
  <2>1. age \in Nat /\ silence \in Nat /\ MaxOffline \in Nat
    BY LinkAssumption DEF TypeOK, Age
  <2>2. ~offline /\ offline' => age > MaxOffline
    BY <1>3, Zenon DEF CheckHeartbeat
  <2> QED
    BY <2>1, <2>2 DEF AgeInv
<1> QED
  BY <1>1, <1>2, <1>3
     DEF Next, ReadSome, Cut, Send, Damage, Read, ReadError, RejectLine, ParseShortLine,
         EndOfLines, Tick, vars, timeVars

\* No board that was heard is reported offline (check_heartbeat, onMessage).
THEOREM OfflineSound == Spec => OfflineIsTrue
<1>1. Init => AgeInv
  BY DEF Init, AgeInv
<1>2. TypeOK /\ AgeInv /\ [Next]_vars => [~offline /\ offline' => silence > MaxOffline]_vars
  BY OfflineStep
<1> QED
  BY <1>1, <1>2, AgeStep, TypeCorrect, PTL DEF Spec, OfflineIsTrue

-----------------------------------------------------------------------------
(* Messages.                                                               *)

\* The bytes that were sent and not cut off, lost or damaged.
Stream == databuf \o wire

\* Where sequence P of bytes holds the last byte of a message.
Lasts(P) == {p \in DOMAIN P : P[p] \in Messages \X {Size}}

\* f and g name for each message of d, and for each last byte of P, the message of s
\* it comes from: another one for each, in their order, those of d first.
Origins(d, s, P, f, g) ==
  /\ \A i \in DOMAIN d : s[f[i]] = d[i]
  /\ \A p \in Lasts(P) : P[p] = <<s[g[p]], Size>>
  /\ \A i, j \in DOMAIN d : i < j => f[i] < f[j]
  /\ \A p, q \in Lasts(P) : p < q => g[p] < g[q]
  /\ \A i \in DOMAIN d, p \in Lasts(P) : f[i] < g[p]

Traced(d, s, P) ==
  \E f \in [DOMAIN d -> DOMAIN s], g \in [Lasts(P) -> DOMAIN s] : Origins(d, s, P, f, g)

\* What is delivered and what may still be comes from messages sent, in their order.
TracedInv == Traced(delivered, sent, Stream)

\* Bytes may go, and become anything but the last byte of a message.
LEMMA Thinned ==
  ASSUME NEW d, NEW s, NEW P, NEW Q, Traced(d, s, P), DOMAIN P \subseteq Nat, DOMAIN Q \subseteq Nat,
         NEW e \in [DOMAIN Q -> DOMAIN P],
         \A p, q \in DOMAIN Q : p < q => e[p] < e[q],
         \A p \in Lasts(Q) : Q[p] = P[e[p]]
  PROVE  Traced(d, s, Q)
<1>1. PICK f \in [DOMAIN d -> DOMAIN s], g \in [Lasts(P) -> DOMAIN s] : Origins(d, s, P, f, g)
  BY DEF Traced
<1> DEFINE h == [p \in Lasts(Q) |-> g[e[p]]]
<1>2. \A p \in Lasts(Q) : p \in DOMAIN Q /\ e[p] \in Lasts(P)
  BY DEF Lasts
<1>3. h \in [Lasts(Q) -> DOMAIN s]
  BY <1>2
<1>4. Origins(d, s, Q, f, h)
  BY <1>1, <1>2 DEF Origins
<1> QED
  BY <1>3, <1>4 DEF Traced

\* The message whose last byte stands at r may be delivered, if only what stands after
\* it remains.
LEMMA Taken ==
  ASSUME NEW d \in Seq(Messages), NEW s \in Seq(Messages), NEW P, NEW Q, NEW m \in Messages,
         Traced(d, s, P), DOMAIN P \subseteq Nat, DOMAIN Q \subseteq Nat,
         NEW r \in DOMAIN P, P[r] = <<m, Size>>,
         NEW e \in [DOMAIN Q -> DOMAIN P],
         \A p \in DOMAIN Q : r < e[p],
         \A p, q \in DOMAIN Q : p < q => e[p] < e[q],
         \A p \in Lasts(Q) : Q[p] = P[e[p]]
  PROVE  Traced(Append(d, m), s, Q)
<1>1. PICK f \in [DOMAIN d -> DOMAIN s], g \in [Lasts(P) -> DOMAIN s] : Origins(d, s, P, f, g)
  BY DEF Traced
<1> DEFINE c == Append(d, m)
           k == [i \in DOMAIN c |-> IF i \in DOMAIN d THEN f[i] ELSE g[r]]
           h == [p \in Lasts(Q) |-> g[e[p]]]
<1>2. /\ DOMAIN c = 1 .. Len(d) + 1 /\ DOMAIN d = 1 .. Len(d) /\ Len(d) \in Nat
      /\ \A i \in DOMAIN d : c[i] = d[i]
      /\ c[Len(d) + 1] = m
  BY AppendProperties
<1>3. r \in Lasts(P) /\ s[g[r]] = m
  <2>1. r \in Lasts(P)
    BY DEF Lasts
  <2> QED
    BY <1>1, <2>1 DEF Origins
<1>4. \A p \in Lasts(Q) : p \in DOMAIN Q /\ e[p] \in Lasts(P)
  BY DEF Lasts
<1>5. DOMAIN s \subseteq Nat
  BY LenProperties
<1>6. k \in [DOMAIN c -> DOMAIN s] /\ h \in [Lasts(Q) -> DOMAIN s]
  BY <1>3, <1>4
<1>7. \A i \in DOMAIN c : s[k[i]] = c[i]
  BY <1>1, <1>2, <1>3 DEF Origins
<1>8. \A i, j \in DOMAIN c : i < j => k[i] < k[j]
  BY <1>1, <1>2, <1>3 DEF Origins
<1>9. \A i \in DOMAIN c, p \in Lasts(Q) : k[i] < h[p]
  BY <1>1, <1>2, <1>3, <1>4 DEF Origins
<1>10. \A p, q \in Lasts(Q) : p < q => h[p] < h[q]
  BY <1>1, <1>4 DEF Origins
<1>11. \A p \in Lasts(Q) : Q[p] = <<s[h[p]], Size>>
  BY <1>1, <1>4 DEF Origins
<1>12. Origins(c, s, Q, k, h)
  BY <1>7, <1>8, <1>9, <1>10, <1>11 DEF Origins
<1> HIDE DEF k, h, c
<1>13. Traced(c, s, Q)
  BY <1>6, <1>12 DEF Traced
<1> QED
  BY <1>13 DEF c

\* Neither the separator nor a damaged byte is part of a message.
LEMMA NoMessageByte ==
  /\ Size \in Nat \ {0}
  /\ \A m \in Messages, j \in 1 .. Size : <<m, j>> # Separator /\ <<m, j>> # Bad
  /\ Separator \notin Messages \X {Size} /\ Bad \notin Messages \X {Size}
  /\ Separator # Bad
<1>1. Size \in Nat \ {0} /\ Separator # Bad
  BY LinkAssumption
<1>2. Separator \notin Messages \X (1 .. Size) /\ Bad \notin Messages \X (1 .. Size)
  BY LinkAssumption
<1>3. Size \in 1 .. Size
  BY <1>1
<1> QED
  BY <1>1, <1>2, <1>3

\* A message more is sent.
LEMMA SentTraced ==
  ASSUME NEW d \in Seq(Messages), NEW s \in Seq(Messages), NEW P, NEW Q, NEW m \in Messages,
         NEW n \in Nat, DOMAIN P = 1 .. n, DOMAIN Q = 1 .. n + Size + 1, Traced(d, s, P),
         \A p \in 1 .. n : Q[p] = P[p],
         \A j \in 1 .. Size : Q[n + j] = <<m, j>>,
         Q[n + Size + 1] = Separator
  PROVE  Traced(d, Append(s, m), Q)
<1>1. PICK f \in [DOMAIN d -> DOMAIN s], g \in [Lasts(P) -> DOMAIN s] : Origins(d, s, P, f, g)
  BY DEF Traced
<1> DEFINE t == Append(s, m)
           r == n + Size
           h == [p \in Lasts(Q) |-> IF p = r THEN Len(s) + 1 ELSE g[p]]
<1>2. /\ DOMAIN t = 1 .. Len(s) + 1 /\ DOMAIN s = 1 .. Len(s) /\ Len(s) \in Nat
      /\ \A i \in DOMAIN s : t[i] = s[i]
      /\ t[Len(s) + 1] = m
  BY AppendProperties
<1>3. Size \in Nat \ {0} /\ Separator \notin Messages \X {Size}
  BY NoMessageByte
<1>4. \A p \in Lasts(Q) : p = r \/ (p \in Lasts(P) /\ p < r)
  <2> SUFFICES ASSUME NEW p \in Lasts(Q), p # r  PROVE p \in Lasts(P) /\ p < r
    OBVIOUS
  <2>1. p \in 1 .. r + 1 /\ Q[p] \in Messages \X {Size}
    BY <1>3 DEF Lasts
  <2>2. p # r + 1
    BY <1>3, <2>1
  <2>3. CASE p \in 1 .. n
    BY <1>3, <2>1, <2>3 DEF Lasts
  <2>4. CASE p > n
    <3>1. PICK j \in 1 .. Size : p = n + j
      <4>1. p \in Nat /\ n < p /\ p <= n + Size
        BY <1>3, <2>1, <2>2, <2>4
      <4>2. p - n \in 1 .. Size /\ p = n + (p - n)
        BY <1>3, <4>1
      <4> QED
        BY <4>2
    <3>2. Q[p] = <<m, j>>
      BY <3>1
    <3> QED
      BY <1>3, <2>1, <3>1, <3>2
  <2> QED
    BY <1>3, <2>1, <2>3, <2>4
<1>5. r \in Lasts(Q) /\ Q[r] = <<m, Size>>
  <2>1. Size \in 1 .. Size /\ r \in DOMAIN Q
    BY <1>3
  <2>2. Q[r] = <<m, Size>>
    BY <2>1
  <2>3. <<m, Size>> \in Messages \X {Size}
    OBVIOUS
  <2> QED
    BY <2>1, <2>2, <2>3 DEF Lasts
<1>6. f \in [DOMAIN d -> DOMAIN t]
  BY <1>2
<1>7. h \in [Lasts(Q) -> DOMAIN t]
  BY <1>2, <1>4
<1>8. \A p \in Lasts(P) : p \in 1 .. n /\ g[p] \in 1 .. Len(s)
  BY <1>2, <1>3 DEF Lasts
<1>9. \A p \in Lasts(Q) : Q[p] = <<t[h[p]], Size>>
  BY <1>1, <1>2, <1>4, <1>5, <1>8 DEF Origins
<1>10. \A p, q \in Lasts(Q) : p < q => h[p] < h[q]
  <2> SUFFICES ASSUME NEW p \in Lasts(Q), NEW q \in Lasts(Q), p < q  PROVE h[p] < h[q]
    OBVIOUS
  <2>1. p # r
    <3>1. q = r \/ (q \in 1 .. n /\ q < r)
      BY <1>4, <1>8
    <3> QED
      BY <1>3, <3>1 
  <2>2. p \in Lasts(P)
    BY <1>4, <2>1
  <2> QED
    BY <1>1, <1>2, <1>4, <1>8, <2>1, <2>2 DEF Origins
<1>11. \A i \in DOMAIN d, p \in Lasts(Q) : f[i] < h[p]
  BY <1>1, <1>2, <1>4 DEF Origins
<1>12. Origins(d, t, Q, f, h)
  BY <1>1, <1>2, <1>9, <1>10, <1>11 DEF Origins
<1> HIDE DEF h, t
<1>13. Traced(d, t, Q)
  BY <1>6, <1>7, <1>12 DEF Traced
<1> QED
  BY <1>13 DEF t

\* The stream, byte by byte.
LEMMA StreamBytes ==
  ASSUME NEW b \in Seq(Byte), NEW w \in Seq(Byte)
  PROVE  /\ b \o w \in Seq(Byte)
         /\ Len(b \o w) = Len(b) + Len(w)
         /\ DOMAIN (b \o w) = 1 .. Len(b) + Len(w)
         /\ \A p \in 1 .. Len(b) + Len(w) :
              (b \o w)[p] = IF p <= Len(b) THEN b[p] ELSE w[p - Len(b)]
<1>1. b \o w \in Seq(Byte) /\ Len(b \o w) = Len(b) + Len(w)
  BY ConcatProperties
<1>2. DOMAIN (b \o w) = 1 .. Len(b) + Len(w)
  BY <1>1, LenProperties
<1> QED
  BY <1>1, <1>2, ConcatProperties

\* Sending adds a message and a separator.
LEMMA SendStream ==
  ASSUME TypeOK, NEW m \in Messages, Send(m)
  PROVE  /\ DOMAIN Stream' = 1 .. Len(Stream) + Size + 1
         /\ \A p \in 1 .. Len(Stream) : Stream'[p] = Stream[p]
         /\ \A j \in 1 .. Size : Stream'[Len(Stream) + j] = <<m, j>>
         /\ Stream'[Len(Stream) + Size + 1] = Separator
<1>1. Encoding(m) \in Seq(Byte) /\ <<Separator>> \in Seq(Byte) /\ wire \in Seq(Byte) /\ databuf \in Seq(Byte)
  BY EncodingType DEF TypeOK, Byte
<1>2. Stream \in Seq(Byte) /\ Len(Stream) \in Nat
  BY <1>1, StreamBytes, LenProperties DEF Stream
<1>3. Size \in Nat /\ Len(Encoding(m)) = Size /\ \A j \in 1 .. Size : Encoding(m)[j] = <<m, j>>
  BY <1>1, NoMessageByte, LenProperties DEF Encoding
<1> DEFINE E == Stream \o Encoding(m)
<1>4. E \in Seq(Byte) /\ Len(E) = Len(Stream) + Size
      /\ \A p \in 1 .. Len(Stream) + Size : E[p] = IF p <= Len(Stream) THEN Stream[p] ELSE Encoding(m)[p - Len(Stream)]
  BY <1>1, <1>2, <1>3, StreamBytes
<1>5. Stream' = E \o <<Separator>>
  <2>1. wire \o Encoding(m) \in Seq(Byte)
    BY <1>1, ConcatProperties
  <2>2. databuf \o ((wire \o Encoding(m)) \o <<Separator>>) = (databuf \o (wire \o Encoding(m))) \o <<Separator>>
    BY <1>1, <2>1, Regroup
  <2>3. databuf \o (wire \o Encoding(m)) = (databuf \o wire) \o Encoding(m)
    BY <1>1, Regroup
  <2>4. databuf' = databuf /\ wire' = (wire \o Encoding(m)) \o <<Separator>>
    BY DEF Send, readVars
  <2> QED
    BY <2>2, <2>3, <2>4, Zenon DEF Stream
<1> HIDE DEF E
<1>6. /\ DOMAIN (E \o <<Separator>>) = 1 .. Len(E) + 1
      /\ \A p \in 1 .. Len(E) + 1 : (E \o <<Separator>>)[p] = IF p <= Len(E) THEN E[p] ELSE <<Separator>>[p - Len(E)]
  <2>1. Len(<<Separator>>) = 1
    OBVIOUS
  <2> QED
    BY <1>1, <1>4, <2>1, StreamBytes
<1>7. DOMAIN Stream' = 1 .. Len(Stream) + Size + 1
  BY <1>2, <1>3, <1>4, <1>5, <1>6
<1>8. \A p \in 1 .. Len(Stream) + Size : Stream'[p] = E[p]
  BY <1>2, <1>3, <1>4, <1>5, <1>6
<1>9. Stream'[Len(Stream) + Size + 1] = Separator
  BY <1>2, <1>3, <1>4, <1>5, <1>6
<1>10. \A p \in 1 .. Len(Stream) : Stream'[p] = Stream[p]
  BY <1>2, <1>3, <1>4, <1>8
<1>11. ASSUME NEW j \in 1 .. Size  PROVE Stream'[Len(Stream) + j] = <<m, j>>
  <2>1. Len(Stream) + j \in 1 .. Len(Stream) + Size /\ ~(Len(Stream) + j <= Len(Stream))
        /\ (Len(Stream) + j) - Len(Stream) = j
    BY <1>2, <1>3
  <2> QED
    BY <1>3, <1>4, <1>8, <2>1
<1> QED
  BY <1>7, <1>9, <1>10, <1>11

\* Reading moves bytes within the stream.
LEMMA ReadStream ==
  ASSUME TypeOK, NEW n \in 1 .. Len(wire), Read(n)
  PROVE  Stream' = Stream
<1>1. SubSeq(wire, 1, n) \in Seq(Byte) /\ SubSeq(wire, n + 1, Len(wire)) \in Seq(Byte)
  BY Part DEF TypeOK
<1>2. SubSeq(wire, 1, n) \o SubSeq(wire, n + 1, Len(wire)) = wire
  <2>1. SubSeq(wire, 1, n) \o SubSeq(wire, n + 1, Len(wire)) = SubSeq(wire, 1, Len(wire))
    BY ConcatAdjacentSubSeq DEF TypeOK
  <2> QED
    BY <2>1, SubSeqFull DEF TypeOK
<1>3. (databuf \o SubSeq(wire, 1, n)) \o SubSeq(wire, n + 1, Len(wire))
      = databuf \o (SubSeq(wire, 1, n) \o SubSeq(wire, n + 1, Len(wire)))
  BY <1>1, Regroup DEF TypeOK
<1> QED
  BY <1>2, <1>3, Zenon DEF Stream, Read

\* Cutting takes bytes off its head.
LEMMA CutStream ==
  ASSUME TypeOK, NEW i \in DOMAIN databuf, CutLine(i)
  PROVE  /\ i \in 1 .. Len(databuf)
         /\ Stream' \in Seq(Byte)
         /\ Len(Stream') = Len(Stream) - i
         /\ \A p \in 1 .. Len(Stream) - i : Stream'[p] = Stream[p + i]
<1>1. i \in 1 .. Len(databuf) /\ Len(databuf) \in Nat /\ Len(wire) \in Nat
      /\ databuf \in Seq(Byte) /\ wire \in Seq(Byte)
  BY LenProperties DEF TypeOK
<1>2. Rest(i) \in Seq(Byte)
  BY <1>1, Part DEF Rest
<1>3. Len(Rest(i)) = Len(databuf) - i /\ \A p \in 1 .. Len(databuf) - i : Rest(i)[p] = databuf[p + i]
  <2>1. \A j \in i + 1 .. Len(databuf) : databuf[j] \in Byte
    BY <1>1, ElementOfSeq
  <2> QED
    BY <1>1, <2>1, SubSeqProperties DEF Rest
<1>4. Stream' = Rest(i) \o wire
  BY DEF CutLine, boardVars, Stream
<1>5. /\ Stream' \in Seq(Byte) /\ Len(Stream') = (Len(databuf) - i) + Len(wire)
      /\ \A p \in 1 .. (Len(databuf) - i) + Len(wire) :
           Stream'[p] = IF p <= Len(databuf) - i THEN Rest(i)[p] ELSE wire[p - (Len(databuf) - i)]
  BY <1>1, <1>2, <1>3, <1>4, StreamBytes
<1>6. /\ Len(Stream) = Len(databuf) + Len(wire)
      /\ \A p \in 1 .. Len(databuf) + Len(wire) :
           Stream[p] = IF p <= Len(databuf) THEN databuf[p] ELSE wire[p - Len(databuf)]
  BY <1>1, StreamBytes DEF Stream
<1>7. ASSUME NEW p \in 1 .. Len(Stream) - i  PROVE Stream'[p] = Stream[p + i]
  <2>1. p \in 1 .. (Len(databuf) - i) + Len(wire) /\ p + i \in 1 .. Len(databuf) + Len(wire)
        /\ p - (Len(databuf) - i) = (p + i) - Len(databuf)
        /\ (p <= Len(databuf) - i <=> p + i <= Len(databuf))
    BY <1>1, <1>6
  <2>2. p <= Len(databuf) - i => p \in 1 .. Len(databuf) - i
    BY <1>1, <2>1
  <2>3. p <= Len(databuf) - i => Rest(i)[p] = databuf[p + i]
    BY <1>3, <2>2
  <2> QED
    BY <1>5, <1>6, <2>1, <2>3
<1>8. Len(Stream') = Len(Stream) - i
  BY <1>1, <1>5, <1>6
<1> QED
  BY <1>1, <1>5, <1>7, <1>8

\* Damage changes or takes one byte of it.
LEMMA DamageStream ==
  ASSUME TypeOK, NEW i \in DOMAIN wire, Damage(i)
  PROVE  \E k \in 1 .. Len(Stream) :
           \/ /\ DOMAIN Stream' = 1 .. Len(Stream)
              /\ \A p \in 1 .. Len(Stream) : p # k => Stream'[p] = Stream[p]
              /\ Stream'[k] \in {Bad, Separator}
           \/ /\ DOMAIN Stream' = 1 .. Len(Stream) - 1
              /\ \A p \in 1 .. Len(Stream) - 1 : Stream'[p] = IF p < k THEN Stream[p] ELSE Stream[p + 1]
<1>1. /\ i \in 1 .. Len(wire) /\ Len(databuf) \in Nat /\ Len(wire) \in Nat
      /\ databuf \in Seq(Byte) /\ wire \in Seq(Byte)
      /\ databuf' = databuf
  BY LenProperties DEF TypeOK, Damage, readVars
<1> DEFINE k == Len(databuf) + i
<1>2. k \in 1 .. Len(Stream) /\ Len(Stream) = Len(databuf) + Len(wire)
  BY <1>1, StreamBytes DEF Stream
<1>3. ASSUME NEW b \in {Bad, Separator}, wire' = [wire EXCEPT ![i] = b]
      PROVE  /\ DOMAIN Stream' = 1 .. Len(Stream)
             /\ \A p \in 1 .. Len(Stream) : p # k => Stream'[p] = Stream[p]
             /\ Stream'[k] \in {Bad, Separator}
  <2>1. wire' \in Seq(Byte) /\ Len(wire') = Len(wire)
        /\ \A j \in 1 .. Len(wire) : wire'[j] = IF j = i THEN b ELSE wire[j]
    BY <1>1, <1>3, ExceptSeq DEF Byte
  <2>2. /\ DOMAIN Stream' = 1 .. Len(databuf) + Len(wire)
        /\ \A p \in 1 .. Len(databuf) + Len(wire) :
             Stream'[p] = IF p <= Len(databuf) THEN databuf[p] ELSE wire'[p - Len(databuf)]
    BY <1>1, <2>1, StreamBytes DEF Stream
  <2>3. \A p \in 1 .. Len(databuf) + Len(wire) :
             Stream[p] = IF p <= Len(databuf) THEN databuf[p] ELSE wire[p - Len(databuf)]
    BY <1>1, StreamBytes DEF Stream
  <2>4. ASSUME NEW p \in 1 .. Len(databuf) + Len(wire), p > Len(databuf)
        PROVE  wire'[p - Len(databuf)] = IF p = k THEN b ELSE wire[p - Len(databuf)]
    <3>1. p - Len(databuf) \in 1 .. Len(wire) /\ (p - Len(databuf) = i <=> p = k)
      BY <1>1, <2>4
    <3> QED
      BY <2>1, <3>1
  <2>5. k \in 1 .. Len(databuf) + Len(wire) /\ k > Len(databuf)
    BY <1>1
  <2>6. Stream'[k] = b
    BY <1>1, <2>2, <2>4, <2>5
  <2>7. \A p \in 1 .. Len(databuf) + Len(wire) : p # k => Stream'[p] = Stream[p]
    <3> SUFFICES ASSUME NEW p \in 1 .. Len(databuf) + Len(wire), p # k  PROVE Stream'[p] = Stream[p]
      OBVIOUS
    <3>1. CASE p <= Len(databuf)
      BY <2>2, <2>3, <3>1
    <3>2. CASE p > Len(databuf)
      BY <1>1, <2>2, <2>3, <2>4, <3>2
    <3> QED
      BY <1>1, <3>1, <3>2
  <2> QED
    BY <1>2, <2>2, <2>6, <2>7
<1>4. ASSUME wire' = SubSeq(wire, 1, i - 1) \o SubSeq(wire, i + 1, Len(wire))
      PROVE  /\ DOMAIN Stream' = 1 .. Len(Stream) - 1
             /\ \A p \in 1 .. Len(Stream) - 1 : Stream'[p] = IF p < k THEN Stream[p] ELSE Stream[p + 1]
  <2> DEFINE l == SubSeq(wire, 1, i - 1)
             r == SubSeq(wire, i + 1, Len(wire))
  <2>1. l \in Seq(Byte) /\ Len(l) = i - 1 /\ \A j \in 1 .. i - 1 : l[j] = wire[j]
    <3>1. \A j \in 1 .. i - 1 : wire[j] \in Byte
      BY <1>1, ElementOfSeq
    <3> QED
      BY <1>1, <3>1, SubSeqProperties
  <2>2. r \in Seq(Byte) /\ Len(r) = Len(wire) - i /\ \A j \in 1 .. Len(wire) - i : r[j] = wire[i + j]
    <3>1. \A j \in i + 1 .. Len(wire) : wire[j] \in Byte
      BY <1>1, ElementOfSeq
    <3> QED
      BY <1>1, <3>1, SubSeqProperties
  <2> HIDE DEF l, r
  <2>3. /\ l \o r \in Seq(Byte) /\ Len(l \o r) = Len(wire) - 1
        /\ \A j \in 1 .. Len(wire) - 1 : (l \o r)[j] = IF j < i THEN wire[j] ELSE wire[j + 1]
    BY <1>1, <2>1, <2>2, StreamBytes
  <2>4. wire' = l \o r
    BY <1>4 DEF l, r
  <2>5. /\ DOMAIN Stream' = 1 .. Len(databuf) + Len(wire) - 1
        /\ \A p \in 1 .. Len(databuf) + Len(wire) - 1 :
             Stream'[p] = IF p <= Len(databuf) THEN databuf[p] ELSE wire'[p - Len(databuf)]
    BY <1>1, <2>3, <2>4, StreamBytes DEF Stream
  <2>6. \A p \in 1 .. Len(databuf) + Len(wire) :
             Stream[p] = IF p <= Len(databuf) THEN databuf[p] ELSE wire[p - Len(databuf)]
    BY <1>1, StreamBytes DEF Stream
  <2>7. ASSUME NEW p \in 1 .. Len(databuf) + Len(wire) - 1
        PROVE  Stream'[p] = IF p < k THEN Stream[p] ELSE Stream[p + 1]
    <3>1. CASE p <= Len(databuf)
      <4>1. p < k /\ p \in 1 .. Len(databuf) + Len(wire)
        BY <1>1, <3>1
      <4> QED
        BY <2>5, <2>6, <3>1, <4>1
    <3>2. CASE p > Len(databuf)
      <4>1. p - Len(databuf) \in 1 .. Len(wire) - 1 /\ (p - Len(databuf) < i <=> p < k)
            /\ (p - Len(databuf)) + 1 = (p + 1) - Len(databuf)
            /\ p \in 1 .. Len(databuf) + Len(wire) /\ p + 1 \in 1 .. Len(databuf) + Len(wire)
            /\ ~(p <= Len(databuf)) /\ ~(p + 1 <= Len(databuf))
        BY <1>1, <3>2
      <4>2. Stream'[p] = IF p < k THEN wire[p - Len(databuf)] ELSE wire[(p + 1) - Len(databuf)]
        BY <2>3, <2>4, <2>5, <4>1
      <4>3. Stream[p] = wire[p - Len(databuf)] /\ Stream[p + 1] = wire[(p + 1) - Len(databuf)]
        BY <2>6, <4>1
      <4> QED
        BY <4>2, <4>3
    <3> QED
      BY <1>1, <3>1, <3>2
  <2>8. Len(Stream) - 1 = Len(databuf) + Len(wire) - 1
    BY <1>1, <1>2
  <2> QED
    BY <2>5, <2>7, <2>8
<1>5. (\E b \in {Bad, Separator} : wire' = [wire EXCEPT ![i] = b])
      \/ wire' = SubSeq(wire, 1, i - 1) \o SubSeq(wire, i + 1, Len(wire))
  BY DEF Damage
<1> HIDE DEF k
<1> QED
  BY <1>2, <1>3, <1>4, <1>5

\* A line that is a message stands at the head of the stream.
LEMMA LineOfMessage ==
  ASSUME TypeOK, NEW i \in DOMAIN databuf, CutLine(i), NEW m \in Messages, Line(i) = Encoding(m)
  PROVE  i = Size + 1 /\ Size \in DOMAIN Stream /\ Stream[Size] = <<m, Size>>
<1>1. /\ i \in 1 .. Len(databuf) /\ Len(databuf) \in Nat /\ databuf \in Seq(Byte)
      /\ wire \in Seq(Byte) /\ Len(wire) \in Nat
  BY LenProperties DEF TypeOK
<1>2. Len(Line(i)) = i - 1 /\ \A j \in 1 .. i - 1 : Line(i)[j] = databuf[j]
  <2>1. \A j \in 1 .. i - 1 : databuf[j] \in Byte
    BY <1>1, ElementOfSeq
  <2> QED
    BY <1>1, <2>1, SubSeqProperties DEF Line
<1>3. Size \in Nat \ {0} /\ Len(Encoding(m)) = Size /\ Encoding(m)[Size] = <<m, Size>>
  <2>1. Size \in Nat \ {0}
    BY NoMessageByte
  <2>2. Encoding(m) \in Seq(Byte) /\ DOMAIN Encoding(m) = 1 .. Size
    BY EncodingType DEF Encoding
  <2>3. Encoding(m)[Size] = <<m, Size>>
    BY <2>1 DEF Encoding
  <2> QED
    BY <2>1, <2>2, <2>3, LenProperties
<1>4. i = Size + 1 /\ Size \in 1 .. i - 1 /\ Size \in 1 .. Len(databuf) + Len(wire) /\ Size <= Len(databuf)
  BY <1>1, <1>2, <1>3
<1>5. databuf[Size] = <<m, Size>>
  BY <1>2, <1>3, <1>4
<1> QED
  BY <1>1, <1>4, <1>5, StreamBytes DEF Stream

\* Every step keeps the trace of the messages.
LEMMA TracedStep ==
  ASSUME TypeOK, TracedInv, [Next]_vars
  PROVE  TracedInv'
<1>0. /\ delivered \in Seq(Messages) /\ sent \in Seq(Messages)
      /\ Stream \in Seq(Byte) /\ Len(Stream) \in Nat /\ DOMAIN Stream = 1 .. Len(Stream)
      /\ DOMAIN Stream \subseteq Nat
  BY StreamBytes, LenProperties DEF TypeOK, Stream
<1>1. ASSUME UNCHANGED <<delivered, sent, databuf, wire>>  PROVE TracedInv'
  <2>1. Stream' = Stream
    BY <1>1 DEF Stream
  <2> QED
    BY <1>1, <2>1 DEF TracedInv
<1>2. ASSUME NEW m \in Messages, Send(m)  PROVE TracedInv'
  <2>1. delivered' = delivered /\ sent' = Append(sent, m)
    BY <1>2 DEF Send, readVars
  <2>2. Traced(delivered, Append(sent, m), Stream')
    BY <1>0, <1>2, SendStream, SentTraced DEF TracedInv
  <2> QED
    BY <2>1, <2>2 DEF TracedInv
<1>3. ASSUME NEW i \in DOMAIN wire, Damage(i)  PROVE TracedInv'
  <2>1. UNCHANGED <<delivered, sent>>
    BY <1>3 DEF Damage, readVars
  <2>2. PICK k \in 1 .. Len(Stream) :
           \/ /\ DOMAIN Stream' = 1 .. Len(Stream)
              /\ \A p \in 1 .. Len(Stream) : p # k => Stream'[p] = Stream[p]
              /\ Stream'[k] \in {Bad, Separator}
           \/ /\ DOMAIN Stream' = 1 .. Len(Stream) - 1
              /\ \A p \in 1 .. Len(Stream) - 1 : Stream'[p] = IF p < k THEN Stream[p] ELSE Stream[p + 1]
    BY <1>3, DamageStream
  <2>3. CASE /\ DOMAIN Stream' = 1 .. Len(Stream)
             /\ \A p \in 1 .. Len(Stream) : p # k => Stream'[p] = Stream[p]
             /\ Stream'[k] \in {Bad, Separator}
    <3> DEFINE e == [p \in DOMAIN Stream' |-> p]
    <3>1. e \in [DOMAIN Stream' -> DOMAIN Stream] /\ DOMAIN Stream' \subseteq Nat
          /\ \A p, q \in DOMAIN Stream' : p < q => e[p] < e[q]
      BY <1>0, <2>3
    <3>2. \A p \in Lasts(Stream') : p \in 1 .. Len(Stream) /\ p # k
      BY <2>3, NoMessageByte DEF Lasts
    <3>3. \A p \in Lasts(Stream') : Stream'[p] = Stream[e[p]]
      BY <2>3, <3>2
    <3> HIDE DEF e
    <3>4. Traced(delivered, sent, Stream')
      BY <1>0, <3>1, <3>3, Thinned DEF TracedInv
    <3> QED
      BY <2>1, <3>4 DEF TracedInv
  <2>4. CASE /\ DOMAIN Stream' = 1 .. Len(Stream) - 1
             /\ \A p \in 1 .. Len(Stream) - 1 : Stream'[p] = IF p < k THEN Stream[p] ELSE Stream[p + 1]
    <3> DEFINE e == [p \in DOMAIN Stream' |-> IF p < k THEN p ELSE p + 1]
    <3>1. e \in [DOMAIN Stream' -> DOMAIN Stream] /\ DOMAIN Stream' \subseteq Nat
      BY <1>0, <2>4
    <3>2. \A p, q \in DOMAIN Stream' : p < q => e[p] < e[q]
      BY <1>0, <2>4
    <3>3. \A p \in DOMAIN Stream' : Stream'[p] = Stream[e[p]]
      BY <2>4
    <3>4. \A p \in Lasts(Stream') : Stream'[p] = Stream[e[p]]
      BY <3>3 DEF Lasts
    <3> HIDE DEF e
    <3>5. Traced(delivered, sent, Stream')
      BY <1>0, <3>1, <3>2, <3>4, Thinned DEF TracedInv
    <3> QED
      BY <2>1, <3>5 DEF TracedInv
  <2> QED
    BY <2>2, <2>3, <2>4
<1>4. ASSUME NEW n \in 1 .. Len(wire), Read(n)  PROVE TracedInv'
  <2>1. Stream' = Stream
    BY <1>4, ReadStream
  <2>2. UNCHANGED <<delivered, sent>>
    BY <1>4 DEF Read
  <2> QED
    BY <2>1, <2>2 DEF TracedInv
<1>5. ASSUME NEW i \in DOMAIN databuf, CutLine(i)
      PROVE  \E e \in [DOMAIN Stream' -> DOMAIN Stream] :
               /\ \A p \in DOMAIN Stream' : e[p] = p + i
               /\ \A p \in DOMAIN Stream' : i < e[p]
               /\ \A p, q \in DOMAIN Stream' : p < q => e[p] < e[q]
               /\ \A p \in Lasts(Stream') : Stream'[p] = Stream[e[p]]
               /\ DOMAIN Stream' \subseteq Nat
  <2> DEFINE e == [p \in DOMAIN Stream' |-> p + i]
  <2>1. i \in Nat /\ DOMAIN Stream' = 1 .. Len(Stream) - i
        /\ \A p \in 1 .. Len(Stream) - i : Stream'[p] = Stream[p + i]
    <3>1. Stream' \in Seq(Byte) /\ Len(Stream') = Len(Stream) - i
      BY <1>5, CutStream
    <3> QED
      BY <1>5, <3>1, CutStream, LenProperties
  <2>2. e \in [DOMAIN Stream' -> DOMAIN Stream]
    BY <1>0, <2>1
  <2>3. \A p \in DOMAIN Stream' : e[p] = p + i /\ i < e[p] /\ Stream'[p] = Stream[e[p]]
    BY <2>1
  <2>4. \A p, q \in DOMAIN Stream' : p < q => e[p] < e[q]
    BY <2>1
  <2>5. \A p \in Lasts(Stream') : p \in DOMAIN Stream'
    BY DEF Lasts
  <2>6. DOMAIN Stream' \subseteq Nat
    BY <2>1
  <2> HIDE DEF e
  <2> QED
    BY <2>2, <2>3, <2>4, <2>5, <2>6
<1>6. ASSUME NEW i \in DOMAIN databuf, RejectLine(i) \/ ParseShortLine(i)  PROVE TracedInv'
  <2>1. CutLine(i) /\ UNCHANGED <<delivered, sent>>
    BY <1>6 DEF RejectLine, ParseShortLine, CutLine, boardVars
  <2>2. PICK e \in [DOMAIN Stream' -> DOMAIN Stream] :
               /\ \A p, q \in DOMAIN Stream' : p < q => e[p] < e[q]
               /\ \A p \in Lasts(Stream') : Stream'[p] = Stream[e[p]]
               /\ DOMAIN Stream' \subseteq Nat
    BY <1>5, <2>1
  <2>3. Traced(delivered, sent, Stream')
    BY <1>0, <2>2, Thinned DEF TracedInv
  <2> QED
    BY <2>1, <2>3 DEF TracedInv
<1>7. ASSUME NEW i \in DOMAIN databuf, ParseMessage(i)  PROVE TracedInv'
  <2>1. CutLine(i) /\ sent' = sent
    BY <1>7 DEF ParseMessage, CutLine, boardVars
  <2>2. PICK m \in Messages : Line(i) = Encoding(m) /\ delivered' = Append(delivered, m)
    BY <1>7 DEF ParseMessage, OnMessage
  <2>3. PICK e \in [DOMAIN Stream' -> DOMAIN Stream] :
               /\ \A p \in DOMAIN Stream' : i < e[p]
               /\ \A p, q \in DOMAIN Stream' : p < q => e[p] < e[q]
               /\ \A p \in Lasts(Stream') : Stream'[p] = Stream[e[p]]
               /\ DOMAIN Stream' \subseteq Nat
    BY <1>5, <2>1
  <2>4. i = Size + 1 /\ Size \in DOMAIN Stream /\ Stream[Size] = <<m, Size>>
    BY <1>0, <2>1, <2>2, LineOfMessage
  <2>5. \A p \in DOMAIN Stream' : Size < e[p]
    <3> SUFFICES ASSUME NEW p \in DOMAIN Stream'  PROVE Size < e[p]
      OBVIOUS
    <3>1. e[p] \in Nat /\ i < e[p]
      BY <1>0, <2>3
    <3> QED
      BY <2>4, <3>1, NoMessageByte
  <2>6. Traced(Append(delivered, m), sent, Stream')
    BY <1>0, <2>3, <2>4, <2>5, Taken DEF TracedInv
  <2> QED
    BY <2>1, <2>2, <2>6 DEF TracedInv
<1>8. ASSUME ReadError \/ EndOfLines \/ Tick \/ CheckHeartbeat \/ UNCHANGED vars  PROVE TracedInv'
  <2>1. UNCHANGED <<delivered, sent, databuf, wire>>
    BY <1>8 DEF ReadError, EndOfLines, Tick, CheckHeartbeat, vars, boardVars, readVars
  <2> QED
    BY <1>1, <2>1
<1> QED
  BY <1>2, <1>3, <1>4, <1>6, <1>7, <1>8 DEF Next, ReadSome, Cut

-----------------------------------------------------------------------------
(* A line without noise.                                                   *)

\* Where message k of those sent begins in the stream, after the n that were delivered.
Start(n, k) == (k - n - 1) * (Size + 1)

\* Only a first part of s is delivered, and P holds the rest, message after message.
Clean(d, s, P) ==
  /\ Len(d) <= Len(s)
  /\ \A k \in DOMAIN d : d[k] = s[k]
  /\ Len(P) = Start(Len(d), Len(s) + 1)
  /\ \A k \in Len(d) + 1 .. Len(s) :
       /\ \A j \in 1 .. Size : P[Start(Len(d), k) + j] = <<s[k], j>>
       /\ P[Start(Len(d), k) + Size + 1] = Separator

CleanInv == noise = 0 => Alive /\ Clean(delivered, sent, Stream)

\* One message begins a message's length after the other.
LEMMA Starts ==
  ASSUME NEW n \in Nat, NEW k \in Nat
  PROVE  /\ Start(n, k) \in Int
         /\ Start(n, n + 1) = 0
         /\ Start(n, k + 1) = Start(n, k) + Size + 1
         /\ Start(n + 1, k) = Start(n, k) - (Size + 1)
<1>1. Size \in Nat
  BY NoMessageByte
<1>2. \A a, b \in Int : (a + 1) * b = a * b + b /\ (a - 1) * b = a * b - b /\ 0 * b = 0 /\ a * b \in Int
  OBVIOUS
<1>3. k - n - 1 \in Int /\ (k + 1) - n - 1 = (k - n - 1) + 1 /\ k - (n + 1) - 1 = (k - n - 1) - 1 /\ (n + 1) - n - 1 = 0
  OBVIOUS
<1>4. Size + 1 \in Int
  BY <1>1
<1>5. Start(n, k) \in Int /\ Start(n, n + 1) = 0
  BY <1>2, <1>3, <1>4 DEF Start
<1>6. Start(n, k + 1) = Start(n, k) + (Size + 1)
  BY <1>2, <1>3, <1>4 DEF Start
<1>7. Start(n + 1, k) = Start(n, k) - (Size + 1)
  BY <1>2, <1>3, <1>4 DEF Start
<1> QED
  BY <1>1, <1>5, <1>6, <1>7

\* Every message that is left ends within the stream.
LEMMA StartsWithin ==
  ASSUME NEW n \in Nat, NEW k \in Nat, NEW l \in Nat, n < k, k <= l
  PROVE  0 <= Start(n, k) /\ Start(n, k) + Size + 1 <= Start(n, l + 1)
<1>1. Size \in Nat
  BY NoMessageByte
<1>2. \A a, b \in Nat : 0 <= a * b /\ a * b \in Nat
  OBVIOUS
<1>3. \A a, b, c \in Int : (a + b) * c = a * c + b * c
  OBVIOUS
<1>4. k - n - 1 \in Nat /\ l - k \in Nat /\ Size + 1 \in Nat
  BY <1>1
<1>5. 0 <= Start(n, k) /\ Start(n, k) \in Int
  BY <1>2, <1>4 DEF Start
<1>6. (l + 1) - n - 1 = (k - n - 1) + ((l - k) + 1)
  OBVIOUS
<1>7. Start(n, l + 1) = Start(n, k) + ((l - k) + 1) * (Size + 1)
  BY <1>1, <1>3, <1>4, <1>6 DEF Start
<1>8. ((l - k) + 1) * (Size + 1) = (l - k) * (Size + 1) + (Size + 1)
  <2>1. \A a, b \in Nat : (a + 1) * b = a * b + b
    OBVIOUS
  <2> QED
    BY <1>4, <2>1
<1>9. 0 <= (l - k) * (Size + 1) /\ (l - k) * (Size + 1) \in Nat
  BY <1>2, <1>4
<1> QED
  BY <1>1, <1>5, <1>7, <1>8, <1>9

\* The first separator ends the first message that is left.
LEMMA FirstLine ==
  ASSUME TypeOK, Clean(delivered, sent, Stream), NEW i \in DOMAIN databuf, FirstSeparator(i)
  PROVE  /\ Len(delivered) < Len(sent)
         /\ i = Size + 1
         /\ Line(i) = Encoding(sent[Len(delivered) + 1])
<1> DEFINE k == Len(delivered) + 1
<1>1. /\ i \in 1 .. Len(databuf) /\ Len(databuf) \in Nat /\ databuf \in Seq(Byte)
      /\ wire \in Seq(Byte) /\ Len(wire) \in Nat
      /\ Len(delivered) \in Nat /\ Len(sent) \in Nat /\ sent \in Seq(Messages)
  BY LenProperties DEF TypeOK
<1>2. /\ Len(Stream) = Len(databuf) + Len(wire)
      /\ \A p \in 1 .. Len(databuf) : Stream[p] = databuf[p]
  BY <1>1, StreamBytes DEF Stream
<1>3. Size \in Nat \ {0}
  BY NoMessageByte
<1>4. Start(Len(delivered), k) = 0
  BY <1>1, Starts
<1>5. Len(delivered) < Len(sent)
  <2>1. Len(delivered) <= Len(sent) /\ Len(Stream) = Start(Len(delivered), Len(sent) + 1)
    BY DEF Clean
  <2>2. Len(Stream) # 0
    BY <1>1, <1>2
  <2>3. Len(delivered) # Len(sent)
    BY <1>4, <2>1, <2>2
  <2> QED
    BY <1>1, <2>1, <2>3
<1>6. k \in Len(delivered) + 1 .. Len(sent) /\ sent[k] \in Messages
  BY <1>1, <1>5, ElementOfSeq
<1>7. (\A j \in 1 .. Size : Stream[j] = <<sent[k], j>>) /\ Stream[Size + 1] = Separator
  <2>1. \A j \in 1 .. Size : Stream[0 + j] = <<sent[k], j>>
    BY <1>4, <1>6 DEF Clean
  <2>2. Stream[0 + Size + 1] = Separator
    BY <1>4, <1>6 DEF Clean
  <2> QED
    BY <1>3, <2>1, <2>2
<1>8. databuf[i] = Separator /\ \A j \in 1 .. i - 1 : databuf[j] # Separator
  BY DEF FirstSeparator
<1>9. ~(i <= Size)
  <2> SUFFICES ASSUME i <= Size  PROVE FALSE
    OBVIOUS
  <2>1. i \in 1 .. Size
    BY <1>1, <1>3
  <2>2. databuf[i] = <<sent[k], i>>
    BY <1>1, <1>2, <1>7, <2>1
  <2> QED
    BY <1>6, <1>8, <2>1, <2>2, NoMessageByte
<1>10. ~(i > Size + 1)
  <2> SUFFICES ASSUME i > Size + 1  PROVE FALSE
    OBVIOUS
  <2>1. Size + 1 \in 1 .. i - 1 /\ Size + 1 \in 1 .. Len(databuf)
    BY <1>1, <1>3
  <2> QED
    BY <1>2, <1>7, <1>8, <2>1
<1>11. i = Size + 1
  BY <1>1, <1>3, <1>9, <1>10
<1>12. Line(i) = Encoding(sent[k])
  <2>1. \A j \in 1 .. i - 1 : databuf[j] \in Byte
    BY <1>1, ElementOfSeq
  <2>2. Line(i) \in Seq(Byte) /\ Len(Line(i)) = Size /\ \A j \in 1 .. Size : Line(i)[j] = databuf[j]
    BY <1>1, <1>3, <1>11, <2>1, SubSeqProperties DEF Line
  <2>3. Encoding(sent[k]) \in Seq(Byte) /\ DOMAIN Encoding(sent[k]) = 1 .. Size
        /\ \A j \in 1 .. Size : Encoding(sent[k])[j] = <<sent[k], j>>
    BY <1>6, EncodingType DEF Encoding
  <2>4. Len(Encoding(sent[k])) = Size
    BY <1>3, <2>3, LenProperties
  <2>5. \A j \in 1 .. Size : databuf[j] = <<sent[k], j>>
    BY <1>1, <1>2, <1>3, <1>7, <1>11
  <2> HIDE DEF k
  <2> QED
    BY <2>2, <2>3, <2>4, <2>5, SeqEqual
<1> QED
  BY <1>5, <1>11, <1>12

\* Sending keeps the line clean.
LEMMA SendClean ==
  ASSUME TypeOK, Clean(delivered, sent, Stream), NEW m \in Messages, Send(m)
  PROVE  Clean(delivered, sent', Stream')
<1> DEFINE n == Len(delivered)
           l == Len(sent)
           t == Append(sent, m)
<1>1. n \in Nat /\ l \in Nat /\ sent \in Seq(Messages) /\ Stream \in Seq(Byte) /\ Len(Stream) \in Nat
  BY StreamBytes, LenProperties DEF TypeOK, Stream
<1>2. Size \in Nat \ {0}
  BY NoMessageByte
<1>3. t \in Seq(Messages) /\ Len(t) = l + 1 /\ t[l + 1] = m /\ \A k \in 1 .. l : t[k] = sent[k]
  BY <1>1, AppendProperties
<1>4. sent' = t
  BY DEF Send
<1>5. n <= l /\ (\A k \in DOMAIN delivered : delivered[k] = sent[k]) /\ Len(Stream) = Start(n, l + 1)
      /\ \A k \in n + 1 .. l :
           /\ \A j \in 1 .. Size : Stream[Start(n, k) + j] = <<sent[k], j>>
           /\ Stream[Start(n, k) + Size + 1] = Separator
  BY DEF Clean
<1>6. DOMAIN delivered = 1 .. n
  BY LenProperties DEF TypeOK
<1>7. \A k \in DOMAIN delivered : delivered[k] = t[k]
  BY <1>1, <1>3, <1>5, <1>6
<1>8. /\ DOMAIN Stream' = 1 .. Len(Stream) + Size + 1
      /\ \A p \in 1 .. Len(Stream) : Stream'[p] = Stream[p]
      /\ \A j \in 1 .. Size : Stream'[Len(Stream) + j] = <<m, j>>
      /\ Stream'[Len(Stream) + Size + 1] = Separator
  BY SendStream
<1>9. Len(Stream') = Start(n, (l + 1) + 1)
  <2>1. Stream' \in Seq(Byte)
    <3>1. databuf \in Seq(Byte) /\ wire' \in Seq(Byte) /\ databuf' = databuf
      <4>1. wire' = (wire \o Encoding(m)) \o <<Separator>> /\ databuf' = databuf
        BY DEF Send, readVars
      <4>2. wire \o Encoding(m) \in Seq(Byte) /\ <<Separator>> \in Seq(Byte)
        BY EncodingType, ConcatProperties DEF TypeOK, Byte
      <4> QED
        BY <4>1, <4>2, ConcatProperties DEF TypeOK
    <3> QED
      BY <3>1, ConcatProperties DEF Stream
  <2>2. Len(Stream') = Len(Stream) + Size + 1
    <3>1. DOMAIN Stream' = 1 .. Len(Stream') /\ Len(Stream') \in Nat
      BY <2>1, LenProperties
    <3> QED
      BY <1>1, <1>2, <1>8, <3>1
  <2>3. Start(n, (l + 1) + 1) = Start(n, l + 1) + Size + 1
    BY <1>1, Starts
  <2> QED
    BY <1>5, <2>2, <2>3
<1>10. ASSUME NEW k \in n + 1 .. l + 1
       PROVE  /\ \A j \in 1 .. Size : Stream'[Start(n, k) + j] = <<t[k], j>>
              /\ Stream'[Start(n, k) + Size + 1] = Separator
  <2>1. CASE k = l + 1
    BY <1>1, <1>3, <1>5, <1>8, <2>1
  <2>2. CASE k # l + 1
    <3>1. k \in n + 1 .. l /\ k \in 1 .. l /\ k \in Nat /\ n < k /\ k <= l
      BY <1>1, <2>2
    <3>2. 0 <= Start(n, k) /\ Start(n, k) + Size + 1 <= Len(Stream) /\ Start(n, k) \in Int
      BY <1>1, <1>5, <3>1, Starts, StartsWithin
    <3>3. \A j \in 1 .. Size + 1 : Start(n, k) + j \in 1 .. Len(Stream)
      BY <1>1, <1>2, <3>2
    <3>4. \A j \in 1 .. Size + 1 : Stream'[Start(n, k) + j] = Stream[Start(n, k) + j]
      BY <1>8, <3>3
    <3>5. Stream'[Start(n, k) + (Size + 1)] = Stream[Start(n, k) + (Size + 1)]
      BY <1>2, <3>4
    <3>6. Stream'[Start(n, k) + Size + 1] = Stream[Start(n, k) + Size + 1]
      BY <1>2, <3>2, <3>5
    <3>7. \A j \in 1 .. Size : Stream'[Start(n, k) + j] = Stream[Start(n, k) + j]
      BY <1>2, <3>4
    <3> QED
      BY <1>3, <1>5, <3>1, <3>6, <3>7
  <2> QED
    BY <2>1, <2>2
<1>11. n <= Len(t)
  BY <1>1, <1>3, <1>5
<1> HIDE DEF n, l, t
<1>12. Clean(delivered, t, Stream')
  BY <1>3, <1>7, <1>9, <1>10, <1>11 DEF Clean, n, l
<1> QED
  BY <1>4, <1>12

\* Delivering the first line keeps it so.
LEMMA ParseClean ==
  ASSUME TypeOK, Clean(delivered, sent, Stream), NEW i \in DOMAIN databuf, ParseMessage(i)
  PROVE  Clean(delivered', sent', Stream')
<1> DEFINE n == Len(delivered)
           l == Len(sent)
<1>1. n \in Nat /\ l \in Nat /\ sent \in Seq(Messages) /\ Stream \in Seq(Byte) /\ Len(Stream) \in Nat
      /\ delivered \in Seq(Messages) /\ DOMAIN delivered = 1 .. n
  BY StreamBytes, LenProperties DEF TypeOK, Stream
<1>2. Size \in Nat \ {0}
  BY NoMessageByte
<1>3. CutLine(i) /\ FirstSeparator(i) /\ sent' = sent
  BY DEF ParseMessage, CutLine, boardVars
<1>4. PICK m \in Messages : Line(i) = Encoding(m) /\ delivered' = Append(delivered, m)
  BY DEF ParseMessage, OnMessage
<1>5. n < l /\ i = Size + 1 /\ Line(i) = Encoding(sent[n + 1])
  BY <1>3, FirstLine
<1>6. m = sent[n + 1]
  <2>1. Encoding(m)[1] = Encoding(sent[n + 1])[1]
    BY <1>4, <1>5
  <2>2. 1 \in 1 .. Size
    BY <1>2
  <2>3. Encoding(m)[1] = <<m, 1>> /\ Encoding(sent[n + 1])[1] = <<sent[n + 1], 1>>
    BY <2>2 DEF Encoding
  <2>4. <<m, 1>> = <<sent[n + 1], 1>>
    BY <2>1, <2>3
  <2>5. <<m, 1>>[1] = <<sent[n + 1], 1>>[1]
    BY <2>4
  <2> HIDE DEF n
  <2> QED
    BY <2>5
<1>7. /\ Len(delivered') = n + 1 /\ DOMAIN delivered' = 1 .. n + 1
      /\ delivered'[n + 1] = sent[n + 1] /\ \A k \in 1 .. n : delivered'[k] = delivered[k]
  <2>1. delivered' \in Seq(Messages) /\ Len(delivered') = n + 1
    BY <1>1, <1>4, AppendProperties
  <2>2. DOMAIN delivered' = 1 .. n + 1
    BY <2>1, LenProperties
  <2> QED
    BY <1>1, <1>4, <1>6, <2>1, <2>2, AppendProperties
<1>8. (\A k \in DOMAIN delivered : delivered[k] = sent[k]) /\ Len(Stream) = Start(n, l + 1)
      /\ \A k \in n + 1 .. l :
           /\ \A j \in 1 .. Size : Stream[Start(n, k) + j] = <<sent[k], j>>
           /\ Stream[Start(n, k) + Size + 1] = Separator
  BY DEF Clean
<1>9. \A k \in DOMAIN delivered' : delivered'[k] = sent[k]
  BY <1>1, <1>7, <1>8
<1>10. /\ Len(Stream') = Len(Stream) - (Size + 1)
       /\ \A p \in 1 .. Len(Stream) - (Size + 1) : Stream'[p] = Stream[p + (Size + 1)]
  BY <1>3, <1>5, CutStream
<1>11. Len(Stream') = Start(n + 1, l + 1)
  BY <1>1, <1>8, <1>10, Starts
<1>12. ASSUME NEW k \in (n + 1) + 1 .. l
       PROVE  /\ \A j \in 1 .. Size : Stream'[Start(n + 1, k) + j] = <<sent[k], j>>
              /\ Stream'[Start(n + 1, k) + Size + 1] = Separator
  <2>1. k \in n + 1 .. l /\ k \in Nat /\ n + 1 < k /\ k <= l /\ n + 1 \in Nat
    BY <1>1
  <2>2. /\ Start(n + 1, k) = Start(n, k) - (Size + 1) /\ Start(n, k) \in Int
        /\ 0 <= Start(n + 1, k) /\ Start(n + 1, k) + Size + 1 <= Len(Stream) - (Size + 1)
    BY <1>1, <1>10, <1>11, <2>1, Starts, StartsWithin
  <2>3. ASSUME NEW j \in 1 .. Size + 1
        PROVE  Stream'[Start(n + 1, k) + j] = Stream[Start(n, k) + j]
    <3>1. Start(n + 1, k) + j \in 1 .. Len(Stream) - (Size + 1)
          /\ (Start(n + 1, k) + j) + (Size + 1) = Start(n, k) + j
      <4>1. \A a, b, c, d, e \in Int : a = b - d /\ 0 <= a /\ a + d <= e - d /\ 1 <= c /\ c <= d
              => 1 <= a + c /\ a + c <= e - d /\ (a + c) + d = b + c
        OBVIOUS
      <4>2. Start(n, k) \in Int /\ Start(n + 1, k) \in Int /\ j \in Int /\ Size + 1 \in Int /\ Len(Stream) \in Int
        BY <1>1, <1>2, <2>1, <2>2, Starts
      <4>3. Start(n + 1, k) + (Size + 1) <= Len(Stream) - (Size + 1) /\ 1 <= j /\ j <= Size + 1
        BY <1>2, <2>2, <4>2
      <4>4. Start(n + 1, k) + j \in Int /\ Len(Stream) - (Size + 1) \in Int
        BY <4>2
      <4> HIDE DEF n
      <4> QED
        BY <2>2, <4>1, <4>2, <4>3, <4>4
    <3> QED
      BY <1>10, <3>1
  <2>4. Stream'[Start(n + 1, k) + (Size + 1)] = Stream[Start(n, k) + (Size + 1)]
    BY <1>2, <2>3
  <2>5. Stream'[Start(n + 1, k) + Size + 1] = Stream[Start(n, k) + Size + 1]
    BY <1>2, <2>2, <2>4
  <2>6. \A j \in 1 .. Size : Stream'[Start(n + 1, k) + j] = Stream[Start(n, k) + j]
    BY <1>2, <2>3
  <2> QED
    BY <1>8, <2>1, <2>5, <2>6
<1>13. n + 1 <= l
  BY <1>1, <1>5
<1> HIDE DEF n, l
<1>14. Clean(delivered', sent, Stream')
  BY <1>7, <1>9, <1>11, <1>12, <1>13 DEF Clean, l
<1> QED
  BY <1>3, <1>14

\* Every step keeps a line clean as long as it makes no noise.
LEMMA CleanStep ==
  ASSUME TypeOK, CleanInv, [Next]_vars
  PROVE  CleanInv'
<1>1. ASSUME UNCHANGED <<noise, reader, delivered, sent, Stream>>  PROVE CleanInv'
  BY <1>1 DEF CleanInv, Alive
<1>2. ASSUME NEW m \in Messages, Send(m)  PROVE CleanInv'
  <2>1. UNCHANGED <<noise, reader, delivered>>
    BY <1>2 DEF Send, readVars
  <2> QED
    BY <1>2, <2>1, SendClean DEF CleanInv, Alive
<1>3. ASSUME NEW i \in DOMAIN wire, Damage(i)  PROVE CleanInv'
  <2>1. noise' = noise + 1 /\ noise \in Nat
    BY <1>3, LinkAssumption DEF Damage, TypeOK
  <2> QED
    BY <2>1 DEF CleanInv
<1>4. ASSUME NEW n \in 1 .. Len(wire), Read(n)  PROVE CleanInv'
  <2>1. Stream' = Stream /\ UNCHANGED <<noise, delivered, sent>> /\ reader' # "crashed"
    BY <1>4, ReadStream DEF Read
  <2> QED
    BY <2>1 DEF CleanInv, Alive
<1>5. ASSUME NEW i \in DOMAIN databuf, ParseMessage(i)  PROVE CleanInv'
  <2>1. UNCHANGED <<noise, reader>>
    BY <1>5 DEF ParseMessage, CutLine, boardVars
  <2> QED
    BY <1>5, <2>1, ParseClean DEF CleanInv, Alive
<1>6. ASSUME NEW i \in DOMAIN databuf, RejectLine(i) \/ ParseShortLine(i)  PROVE CleanInv'
  <2>1. CutLine(i) /\ FirstSeparator(i) /\ noise' = noise
    BY <1>6 DEF RejectLine, ParseShortLine, CutLine, boardVars
  <2> SUFFICES ASSUME noise = 0  PROVE FALSE
    BY <2>1 DEF CleanInv
  <2>2. Len(delivered) < Len(sent) /\ i = Size + 1 /\ Line(i) = Encoding(sent[Len(delivered) + 1])
    BY <2>1, FirstLine DEF CleanInv
  <2>3. sent[Len(delivered) + 1] \in Messages
    <3>1. Len(delivered) + 1 \in 1 .. Len(sent)
      BY <2>2, LenProperties DEF TypeOK
    <3> QED
      BY <3>1, ElementOfSeq DEF TypeOK
  <2>4. ~(i <= CrcSize)
    BY <2>2, LinkAssumption
  <2> QED
    BY <1>6, <2>2, <2>3, <2>4 DEF RejectLine, ParseShortLine
<1>7. ASSUME ReadError \/ EndOfLines  PROVE CleanInv'
  <2>1. UNCHANGED <<noise, delivered, sent, databuf, wire>> /\ reader' # "crashed"
    BY <1>7 DEF ReadError, EndOfLines, boardVars
  <2> QED
    BY <2>1 DEF CleanInv, Alive, Stream
<1>8. ASSUME Tick \/ CheckHeartbeat \/ UNCHANGED vars  PROVE CleanInv'
  <2>1. UNCHANGED <<noise, reader, delivered, sent, databuf, wire>>
    BY <1>8 DEF Tick, CheckHeartbeat, vars, boardVars, readVars
  <2> QED
    BY <1>1, <2>1 DEF Stream
<1> QED
  BY <1>2, <1>3, <1>4, <1>5, <1>6, <1>7, <1>8 DEF Next, ReadSome, Cut

-----------------------------------------------------------------------------
(* What the guard gets.                                                    *)

\* Nothing is sent, nothing is delivered, nothing is on the line.
LEMMA InitTraced ==
  Init => TracedInv /\ CleanInv
<1> SUFFICES ASSUME Init  PROVE TracedInv /\ CleanInv
  OBVIOUS
<1>1. /\ delivered = <<>> /\ sent = <<>> /\ databuf = <<>> /\ wire = <<>>
      /\ reader # "crashed" /\ noise = 0
  BY DEF Init
<1>2. Stream = <<>>
  BY <1>1, ConcatEmptySeq, EmptySeq DEF Stream
<1>3. DOMAIN <<>> = {} /\ Len(<<>>) = 0
  OBVIOUS
<1>4. TracedInv
  <2>1. Lasts(<<>>) = {}
    BY <1>3 DEF Lasts
  <2> DEFINE f == [i \in {} |-> 0]
  <2>2. f \in [{} -> {}]
    OBVIOUS
  <2>3. Origins(<<>>, <<>>, <<>>, f, f)
    BY <1>3, <2>1 DEF Origins
  <2> HIDE DEF f
  <2>4. Traced(<<>>, <<>>, <<>>)
    BY <1>3, <2>1, <2>2, <2>3 DEF Traced
  <2> QED
    BY <1>1, <1>2, <2>4 DEF TracedInv
<1>5. CleanInv
  <2>1. Start(0, 0 + 1) = 0
    BY Starts
  <2>2. Clean(<<>>, <<>>, <<>>)
    BY <1>3, <2>1 DEF Clean
  <2> QED
    BY <1>1, <1>2, <2>2 DEF CleanInv, Alive
<1> QED
  BY <1>4, <1>5

\* What is traced remains of what was sent.
LEMMA TracedRemains ==
  TracedInv => LL!Remains(delivered, sent)
<1> SUFFICES ASSUME TracedInv  PROVE LL!Remains(delivered, sent)
  OBVIOUS
<1>1. PICK f \in [DOMAIN delivered -> DOMAIN sent], g \in [Lasts(Stream) -> DOMAIN sent] :
        Origins(delivered, sent, Stream, f, g)
  BY DEF TracedInv, Traced
<1> QED
  BY <1>1 DEF LL!Remains, Origins

\* A clean line that is read to its end has delivered everything.
LEMMA AllDelivered ==
  ASSUME TypeOK, NoByteLost, Clean(delivered, sent, Stream), wire = <<>>, reader = "read"
  PROVE  delivered = sent
<1> DEFINE n == Len(delivered)
           l == Len(sent)
<1>1. /\ n \in Nat /\ l \in Nat /\ delivered \in Seq(Messages) /\ sent \in Seq(Messages)
      /\ DOMAIN delivered = 1 .. n /\ databuf \in Seq(Byte)
      /\ Len(databuf) \in Nat /\ DOMAIN databuf = 1 .. Len(databuf)
  BY LenProperties DEF TypeOK
<1>2. Stream = databuf
  BY <1>1, ConcatEmptySeq DEF Stream
<1>3. ~(n < l)
  <2> SUFFICES ASSUME n < l  PROVE FALSE
    OBVIOUS
  <2>1. n + 1 \in n + 1 .. l /\ n + 1 \in Nat /\ n < n + 1 /\ n + 1 <= l
    BY <1>1
  <2>2. Start(n, n + 1) = 0
    BY <1>1, Starts
  <2>3. Start(n, n + 1) + Size + 1 <= Len(databuf)
    BY <1>1, <1>2, <2>1, StartsWithin DEF Clean
  <2>4. Size + 1 \in DOMAIN databuf
    BY <1>1, <2>2, <2>3, NoMessageByte
  <2>5. databuf[Start(n, n + 1) + Size + 1] = Separator
    BY <1>2, <2>1 DEF Clean
  <2>6. Start(n, n + 1) + Size + 1 = Size + 1
    BY <2>2, NoMessageByte
  <2> QED
    BY <2>4, <2>5, <2>6 DEF NoByteLost
<1>4. n = l /\ \A k \in 1 .. n : delivered[k] = sent[k]
  BY <1>1, <1>3 DEF Clean
<1> QED
  BY <1>1, <1>4, SeqEqual

\* The invariant behind what the guard gets.
LinkInv == TypeOK /\ NoByteLost /\ TracedInv /\ CleanInv

LEMMA LinkInvariant == Spec => []LinkInv
<1>1. TypeOK /\ TracedInv /\ CleanInv /\ [Next]_vars => TracedInv' /\ CleanInv'
  BY TracedStep, CleanStep
<1> QED
  BY <1>1, InitTraced, TypeCorrect, BytesConserved, PTL DEF Spec, LinkInv

\* The guard gets messages the board sent, in their order and none twice; all of them
\* if the line is clean (onRecv, data_split, parse).
THEOREM Delivered == Spec => []Delivery
<1>1. LinkInv => Delivery
  <2> SUFFICES ASSUME LinkInv  PROVE Delivery
    OBVIOUS
  <2>1. LL!Remains(delivered, sent)
    BY TracedRemains DEF LinkInv
  <2>2. noise = 0 => Alive /\ (wire = <<>> /\ reader = "read" => delivered = sent)
    BY AllDelivered DEF LinkInv, CleanInv
  <2> QED
    BY <2>1, <2>2 DEF Delivery
<1> QED
  BY <1>1, LinkInvariant, PTL

\* Each step of the link is a step of the lossy line, or nothing to it.
LEMMA LossyStep ==
  ASSUME LinkInv, LinkInv', [Next]_vars
  PROVE  [LL!Next]_LL!vars
<1>1. ASSUME UNCHANGED <<sent, delivered>>  PROVE [LL!Next]_LL!vars
  BY <1>1 DEF LL!vars
<1>2. ASSUME NEW m \in Messages, Send(m)  PROVE [LL!Next]_LL!vars
  BY <1>2 DEF LL!Next, LL!Send, Send, readVars
<1>3. ASSUME NEW i \in DOMAIN databuf, ParseMessage(i)  PROVE [LL!Next]_LL!vars
  <2>1. sent' = sent
    BY <1>3 DEF ParseMessage, CutLine, boardVars
  <2>2. PICK m \in Messages : delivered' = Append(delivered, m)
    BY <1>3 DEF ParseMessage, OnMessage
  <2>3. LL!Remains(delivered', sent)
    <3>1. LL!Remains(delivered, sent)'
      BY TracedRemains, PTL DEF LinkInv
    <3> QED
      BY <2>1, <3>1 DEF LL!Remains
  <2> QED
    BY <2>1, <2>2, <2>3 DEF LL!Next, LL!Deliver
<1> QED
  BY <1>1, <1>2, <1>3
     DEF Next, ReadSome, Cut, Damage, Read, ReadError, RejectLine, ParseShortLine, CutLine,
         EndOfLines, Tick, CheckHeartbeat, vars, boardVars, readVars, timeVars

\* The link implements the lossy line.
THEOREM LinkRefinement == Spec => LinkIsLossyLine
<1>1. Init => LL!Init
  BY DEF Init, LL!Init
<1> QED
  BY <1>1, LossyStep, LinkInvariant, PTL DEF Spec, LinkIsLossyLine, LL!Spec
-----------------------------------------------------------------------------
(* Why silence goes unnoticed.                                             *)

\* io_service::run() calls check_heartbeat before the clock moves on.
TimerIsPunctual == [][Tick => due # 0]_vars

\* The time the guard goes by never exceeds the interval of its own checks.
Unnoticed == age + due <= HbInterval /\ ~offline

LEMMA UnnoticedStep ==
  ASSUME HbInterval <= MaxOffline, TypeOK, Unnoticed, [Next]_vars, [Tick => due # 0]_vars
  PROVE  Unnoticed'
<1>1. /\ age \in Nat /\ due \in Nat /\ HbInterval \in Nat /\ MaxOffline \in Nat
      /\ age + due <= HbInterval
  BY LinkAssumption DEF TypeOK, Age, Unnoticed
<1>2. ASSUME UNCHANGED timeVars  PROVE Unnoticed'
  BY <1>2 DEF Unnoticed, timeVars
<1>3. ASSUME NEW i \in DOMAIN databuf, ParseMessage(i)  PROVE Unnoticed'
  <2>1. PICK m \in Messages : OnMessage(m)
    BY <1>3 DEF ParseMessage
  <2>2. due' = due /\ (age' = 0 \/ age' = age)
    BY <2>1 DEF OnMessage
  <2>3. ~offline'
    BY <2>1, Zenon DEF OnMessage, Unnoticed
  <2> QED
    BY <1>1, <2>2, <2>3 DEF Unnoticed
<1>4. ASSUME Tick  PROVE Unnoticed'
  <2>1. age' = Later(age) /\ due' = (IF due = 0 THEN 0 ELSE due - 1) /\ offline' = offline
    BY <1>4 DEF Tick
  <2>2. due # 0
    <3>1. CASE UNCHANGED vars
      <4>1. age' = age /\ due' = due
        BY <3>1 DEF vars, timeVars
      <4> QED
        BY <1>1, <2>1, <4>1 DEF Later
    <3>2. CASE Tick => due # 0
      BY <1>4, <3>2
    <3> QED
      BY <3>1, <3>2
  <2>3. (age' = age \/ age' = age + 1) /\ due' = due - 1
    BY <2>1, <2>2 DEF Later
  <2>4. age' + due' <= HbInterval
    <3>1. age + (due - 1) <= HbInterval /\ (age + 1) + (due - 1) <= HbInterval
      BY <1>1
    <3> QED
      BY <2>3, <3>1, Zenon
  <2> QED
    BY <2>1, <2>4 DEF Unnoticed
<1>5. ASSUME CheckHeartbeat  PROVE Unnoticed'
  <2>1. due = 0 /\ ~(age > MaxOffline)
    BY <1>1, <1>5 DEF CheckHeartbeat
  <2>2. ~offline'
    BY <1>5, <2>1, Zenon DEF CheckHeartbeat, Unnoticed
  <2>3. age' = 0 /\ due' = HbInterval
    BY <1>5 DEF CheckHeartbeat
  <2> QED
    BY <1>1, <2>2, <2>3 DEF Unnoticed
<1> QED
  BY <1>2, <1>3, <1>4, <1>5
     DEF Next, ReadSome, Cut, Send, Damage, Read, ReadError, RejectLine, ParseShortLine,
         EndOfLines, vars

\* As long as the timer is on time and its interval no longer than the time after which
\* the board counts as offline, no silence however long is reported: check_heartbeat
\* has overwritten the time of the last heartbeat when it looks again (seczone.cpp:194).
THEOREM SilenceNeverReported ==
  ASSUME HbInterval <= MaxOffline
  PROVE  Init /\ [][Next]_vars /\ TimerIsPunctual => []~offline
<1>1. Init => TypeOK /\ Unnoticed
  BY InitType, LinkAssumption DEF Init, Unnoticed
<1>2. TypeOK /\ Unnoticed /\ [Next]_vars /\ [Tick => due # 0]_vars => TypeOK' /\ Unnoticed'
  BY TypeStep, UnnoticedStep
<1>3. Unnoticed => ~offline
  BY DEF Unnoticed
<1> QED
  BY <1>1, <1>2, <1>3, PTL DEF TimerIsPunctual
=============================================================================
