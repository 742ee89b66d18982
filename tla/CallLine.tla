------------------------------ MODULE CallLine ------------------------------
(***************************************************************************)
(* What the indoor box promises the outside world about its telephone      *)
(* line, whatever the devices at home do: the line carries one call at a   *)
(* time, the only open connection to the outside is the one that holds     *)
(* the line, and the line is free for a moment between two calls.          *)
(***************************************************************************)
CONSTANTS Peer,  \* the connections to outdoor stations, other boxes, guards
          NULL   \* no connection

VARIABLES line,  \* the connection that holds the line, or NULL
          open   \* the connections that are open or being opened

vars == <<line, open>>

Init == line = NULL /\ open = {}

\* A call begins, coming in or going out, on a line that is free.
Seize(p) ==
  /\ line = NULL
  /\ open = {}
  /\ line' = p
  /\ open' = {p}

\* The call is over and its connection closed.
Release ==
  /\ line # NULL
  /\ line' = NULL
  /\ open' = {}

Next == Release \/ \E p \in Peer : Seize(p)

Spec == Init /\ [][Next]_vars
=============================================================================
