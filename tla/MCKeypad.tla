------------------------------ MODULE MCKeypad ------------------------------
(* Instances of Keypad for TLC, with the thresholds scaled down.             *)
EXTENDS Keypad
=============================================================================
