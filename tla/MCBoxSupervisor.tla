-------------------------- MODULE MCBoxSupervisor --------------------------
(* BoxSupervisor with model values for pids.                                *)
EXTENDS BoxSupervisor

CONSTANTS p1, p2

=============================================================================
