--------------------------- MODULE MCMqttSession ---------------------------
(* Instances of MqttSession for TLC.  In all of them the first control       *)
(* message spells a device command and any other is echoed.                  *)
EXTENDS MqttSession
=============================================================================
