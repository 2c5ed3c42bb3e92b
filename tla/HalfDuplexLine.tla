--------------------------- MODULE HalfDuplexLine ---------------------------
(***************************************************************************)
(* What the RS485 driver promises its bus: the master drives the line only *)
(* to send, one whole frame at a time, and then listens again.             *)
(***************************************************************************)
CONSTANTS Frames, None

VARIABLES driving,  \* the master's transceiver drives the line
          sending   \* the frame on the line, or None

vars == <<driving, sending>>

Init == driving = FALSE /\ sending = None

Turn == ~driving /\ driving' = TRUE /\ UNCHANGED sending

Begin == /\ driving /\ sending = None
         /\ sending' \in Frames
         /\ UNCHANGED driving

End == /\ sending # None
       /\ sending' = None /\ driving' = FALSE

Next == Turn \/ Begin \/ End

Spec == Init /\ [][Next]_vars

(* A line that is taken is also given back. *)
FairSpec == Spec /\ WF_vars(Begin) /\ WF_vars(End)
=============================================================================
