---------------------------- MODULE MCSensorLink ----------------------------
(* SensorLink with one heartbeat and one report as messages.               *)
EXTENDS SensorLink

CONSTANTS beat, open

=============================================================================
