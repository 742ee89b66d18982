-------------------------- MODULE MCBoxController --------------------------
(* BoxController with model values for addresses.                           *)
EXTENDS BoxController

CONSTANTS other

=============================================================================
