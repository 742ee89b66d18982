----------------------------- MODULE MCSecZone ------------------------------
(* Small instances of SecZone for TLC. *)
EXTENDS SecZone

CONSTANTS plain, blank, k1  \* passwords and a key, as model values

MCMasks   == {{}, Zone}
MCStripped == [p \in Passwords |-> IF p = blank THEN NoPassword ELSE p]

\* A sensor board that reports port 0, at any level or always high.
MCReports     == {0} \X Level
MCReportsHigh == {<<0, 1>>}
=============================================================================
