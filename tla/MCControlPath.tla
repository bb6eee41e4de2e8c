----------------------------- MODULE MCControlPath -----------------------------
(* Values for the constants of ControlPath.  One HTTP request at a time:   *)
(* requests meet only in the command channel, where the messages of MQTT   *)
(* compete with it already.                                                *)
EXTENDS ControlPath

CONSTANT c1

OneClient == {c1}
=============================================================================
