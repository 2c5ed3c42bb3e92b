---------------------------- MODULE MCTimedCalls ----------------------------
(* Instances of TimedCalls for TLC: a tick of 32 values, so that calls begin *)
(* on both sides of the wrap and well away from it.                          *)
EXTENDS TimedCalls
=============================================================================
