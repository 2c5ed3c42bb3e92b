------------------------------ MODULE MCRs485 ------------------------------
(* Instances of Rs485 for TLC: both polls, and coil writes as one frame.     *)
EXTENDS Rs485
=============================================================================
