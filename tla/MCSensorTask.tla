----------------------------- MODULE MCSensorTask -----------------------------
(* Instances of SensorTask for TLC: a tick that wraps within two answers' life. *)
EXTENDS SensorTask
=============================================================================
