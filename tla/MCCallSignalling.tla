------------------------- MODULE MCCallSignalling -------------------------
(* Small instances of CallSignalling for TLC. *)
EXTENDS CallSignalling, TLC

CONSTANTS d1, d2, o1, o2, o3  \* screens and outer peers, as model values

MCInner == {d1, d2}
MCOuter == {o1, o2, o3}

\* Peers that keep to the protocol: who called sends no answers, who was called
\* sends no requests.
MCCallerMsgs == {"call_req", "call_end", "call_keep", "other"}
MCCalleeMsgs == {"call_accept", "call_reject", "call_end", "call_keep", "other"}

Symmetry == Permutations(MCInner) \cup Permutations(MCOuter)
=============================================================================
