----------------------------- MODULE SharedLine -----------------------------
(***************************************************************************)
(* The RS485 line as its users find it: one frame at a time goes out, the  *)
(* slave gets it unless its own answer to an earlier one is in the way,    *)
(* and a request it has not begun to answer gives way to the next.         *)
(***************************************************************************)
CONSTANTS Frames, None

VARIABLES
  sending,  \* frame being sent, or None
  intact,   \* it reaches the slave unharmed
  request,  \* request the slave has yet to answer, or None
  answering,\* the slave is answering
  stuck     \* rs485_tx_busy is up with nothing being sent

vars == <<sending, intact, request, answering, stuck>>

(* A call that finds the line like this sends, any other is refused. *)
Free == sending = None /\ ~stuck

Init == sending = None /\ intact = FALSE /\ request = None /\ answering = FALSE /\ stuck = FALSE

(* Send_to_Slave_write, Send_to_Slave_read *)
Send(f) ==
  /\ Free /\ sending' = f /\ intact' = ~answering
  /\ UNCHANGED <<request, answering, stuck>>

(* Transmission complete; the caller may not have raised the flag yet, and  *)
(* will then leave it up.                                                   *)
Sent ==
  /\ sending # None /\ sending' = None /\ intact' = FALSE
  /\ request' = IF intact THEN sending ELSE request
  /\ stuck' \in BOOLEAN
  /\ UNCHANGED answering

(* A receiver error takes the flag down: HAL_UART_ErrorCallback. *)
Noise == stuck /\ stuck' = FALSE /\ UNCHANGED <<sending, intact, request, answering>>

(* The slave answers, over any frame that is being sent. *)
Answer ==
  /\ request # None /\ ~answering
  /\ request' = None /\ answering' = TRUE /\ intact' = FALSE
  /\ UNCHANGED <<sending, stuck>>

AnswerEnds == answering /\ answering' = FALSE /\ UNCHANGED <<sending, intact, request, stuck>>

Next == (\E f \in Frames : Send(f)) \/ Sent \/ Noise \/ Answer \/ AnswerEnds

Spec == Init /\ [][Next]_vars
=============================================================================
