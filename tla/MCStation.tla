------------------------------ MODULE MCStation ------------------------------
(* Instances of Station for TLC: two devices, so that one may be served      *)
(* while the other is not.                                                   *)
EXTENDS Station
=============================================================================
