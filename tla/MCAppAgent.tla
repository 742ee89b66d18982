----------------------------- MODULE MCAppAgent -----------------------------
(* AppAgent with the connections of boxes as model values.                  *)
EXTENDS AppAgent

CONSTANTS c1, c2

=============================================================================
