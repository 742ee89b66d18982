----------------------------- MODULE LossyLine -----------------------------
(***************************************************************************)
(* What the sensor board's link promises, whatever the serial line does    *)
(* and however the bytes are read: messages may be lost, but what arrives  *)
(* was sent, arrives in the order it was sent, and arrives once.           *)
(***************************************************************************)
EXTENDS Naturals, Sequences

CONSTANT Message

VARIABLES sent,  \* the messages the board has sent
          got    \* the messages that have arrived

vars == <<sent, got>>

\* s is what remains of t when some of its members are removed.
Remains(s, t) ==
  \E f \in [DOMAIN s -> DOMAIN t] :
    /\ \A i \in DOMAIN s : s[i] = t[f[i]]
    /\ \A i, j \in DOMAIN s : i < j => f[i] < f[j]

Init == sent = <<>> /\ got = <<>>

Send(m) == sent' = Append(sent, m) /\ UNCHANGED got

\* A message arrives that was sent after those that arrived before it.
Deliver(m) ==
  /\ got' = Append(got, m)
  /\ Remains(got', sent)
  /\ UNCHANGED sent

Next == \E m \in Message : Send(m) \/ Deliver(m)

Spec == Init /\ [][Next]_vars
=============================================================================
