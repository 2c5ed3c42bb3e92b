------------------------------- MODULE Rs485 -------------------------------
(***************************************************************************)
(* The half-duplex RS485 master of BSP/RS485.c: the main loop starts a     *)
(* frame by DMA and returns; the DMA and USART2 interrupts of              *)
(* stm32f1xx_it.c and the HAL callbacks of usart.c finish it, turn the     *)
(* transceiver round and collect the answer.  All interrupts of the build  *)
(* have the same preemption priority, so one handler is one action, and it *)
(* may fall between any two steps of the main program.                     *)
(***************************************************************************)

CONSTANTS TempHumi,   \* read request for REG_TEMP_HUM, polled first
          Co2,        \* read request for REG_CO2
          Writes,     \* coil-write frames key and MQTT commands can ask for
          None,       \* no frame
          Part,       \* reception buffer holds a fragment only
          NoiseOnSend \* receiver errors come at any time, a transmission included

Polls  == {TempHumi, Co2}
Frames == Polls \cup Writes

ASSUME FramesAssumption ==
  /\ TempHumi # Co2
  /\ None \notin Frames /\ Part \notin Frames /\ None # Part
  /\ NoiseOnSend \in BOOLEAN

VARIABLES
  pc,        \* where the main program is in Send_to_Slave_read/_write
  req,       \* the frame that call was asked to send
  pollNext,  \* the frame poll_flag selects
  txBuffer,  \* tx_buffer: the frame it spells
  busy,      \* rs485_tx_busy
  dir,       \* level of RS485_Pin: "TX" drives the bus, "RX" listens
  gState,    \* huart2.gState
  txp,       \* transmitter: "none", "dma" (DMA reads tx_buffer), "tc" (last bits)
  intact,    \* the frame leaving the UART reaches the bus unharmed
  rx,        \* reception DMA: .armed, .got, .live
  idle,      \* UART IDLE flag
  slaveReq,  \* request the addressed slave has yet to answer
  line,      \* frame whose answer the slave is emitting, or None
  seen       \* frames answered so far: last_*_tick # 0, CTRL_OK

mainVars == <<pc, req, pollNext>>
txVars   == <<txBuffer, busy, dir, gState, txp, intact>>
rxVars   == <<rx, idle, seen>>
slaveVars == <<slaveReq, line>>
vars == <<mainVars, txVars, rxVars, slaveVars>>

Steps == {"idle", "check", "fill", "abort", "dir", "start", "fallback", "rearm", "mark"}

Reception == [armed : BOOLEAN, got : Frames \cup {None, Part}, live : BOOLEAN]

TypeOK ==
  /\ pc \in Steps
  /\ req \in Frames \cup {None}
  /\ pollNext \in Polls
  /\ txBuffer \in Frames \cup {None}
  /\ busy \in BOOLEAN
  /\ dir \in {"TX", "RX"}
  /\ gState \in {"READY", "BUSY_TX"}
  /\ txp \in {"none", "dma", "tc"}
  /\ intact \in BOOLEAN
  /\ rx \in Reception
  /\ idle \in BOOLEAN
  /\ slaveReq \in Frames \cup {None}
  /\ line \in Frames \cup {None}
  /\ seen \subseteq Frames

(***************************************************************************)
(* The two HAL reception calls.  AbortReceive leaves the DMA counter, and  *)
(* so the length the IDLE handler will compute, as it was; Receive_DMA is  *)
(* refused (HAL_BUSY) while a reception is already armed.                  *)
(***************************************************************************)
AbortReceive(r) == [r EXCEPT !.armed = FALSE, !.live = FALSE]

ReceiveDMA(r) == IF r.armed THEN r ELSE [armed |-> TRUE, got |-> None, live |-> FALSE]

(* Modbus_Parse: a fragment fails the length or CRC test and changes nothing. *)
ModbusParse(got) == IF got \in Frames THEN seen \cup {got} ELSE seen

(* MX_USART2_UART_Init and MX_GPIO_Init: listening, reception armed. *)
Init ==
  /\ pc = "idle" /\ req = None /\ pollNext = TempHumi
  /\ txBuffer = None /\ busy = FALSE /\ dir = "RX"
  /\ gState = "READY" /\ txp = "none" /\ intact = FALSE
  /\ rx = [armed |-> TRUE, got |-> None, live |-> FALSE]
  /\ idle = FALSE /\ slaveReq = None /\ line = None /\ seen = {}

-----------------------------------------------------------------------------
(* Main program. *)

(* Mutant: poll_flag is counted up and never wraps. *)
PollCountsUp ==
  /\ pc = "idle" /\ ~busy
  /\ pc' = "check" /\ req' = pollNext
  /\ pollNext' = IF pollNext = TempHumi THEN Co2 ELSE None
  /\ UNCHANGED <<txVars, rxVars, slaveVars>>

(* RS485_Poll_Slaves: flip poll_flag, then ask for the block it selected.   *)
(* With the bus busy it returns at once, which changes nothing.             *)
Poll ==
  /\ pc = "idle" /\ ~busy
  /\ pc' = "check" /\ req' = pollNext
  /\ pollNext' = IF pollNext = TempHumi THEN Co2 ELSE TempHumi
  /\ UNCHANGED <<txVars, rxVars, slaveVars>>

(* Control_lamp, Control_fun or Control_spray calls Send_to_Slave_write. *)
Command ==
  /\ pc = "idle"
  /\ pc' = "check" /\ req' \in Writes
  /\ UNCHANGED <<pollNext, txVars, rxVars, slaveVars>>

(* if (rs485_tx_busy) return false; *)
Refuse ==
  /\ pc = "check" /\ busy
  /\ pc' = "idle" /\ req' = None
  /\ UNCHANGED <<pollNext, txVars, rxVars, slaveVars>>

(* Mutant: the busy flag is not looked at. *)
AcceptAlways ==
  /\ pc = "check"
  /\ pc' = "fill"
  /\ UNCHANGED <<req, pollNext, txVars, rxVars, slaveVars>>

Accept ==
  /\ pc = "check" /\ ~busy
  /\ pc' = "fill"
  /\ UNCHANGED <<req, pollNext, txVars, rxVars, slaveVars>>

(* The eight bytes are written; a DMA still reading them sends a mixture. *)
Fill ==
  /\ pc = "fill"
  /\ pc' = "abort" /\ txBuffer' = req
  /\ intact' = (intact /\ txp # "dma")
  /\ UNCHANGED <<req, pollNext, busy, dir, gState, txp, rxVars, slaveVars>>

Abort ==
  /\ pc = "abort"
  /\ pc' = "dir" /\ rx' = AbortReceive(rx)
  /\ UNCHANGED <<req, pollNext, txVars, idle, seen, slaveVars>>

(* RS485_TX_MODE: from here on the receiver is cut off the bus. *)
TxMode ==
  /\ pc = "dir"
  /\ pc' = "start" /\ dir' = "TX" /\ rx' = [rx EXCEPT !.live = FALSE]
  /\ UNCHANGED <<req, pollNext, txBuffer, busy, gState, txp, intact, idle, seen, slaveVars>>

(* HAL_UART_Transmit_DMA accepts only when no transmission is going on. *)
StartOk ==
  /\ pc = "start" /\ gState = "READY"
  /\ pc' = "mark" /\ gState' = "BUSY_TX" /\ txp' = "dma"
  /\ intact' = (dir = "TX" /\ line = None)
  /\ UNCHANGED <<req, pollNext, txBuffer, busy, dir, rxVars, slaveVars>>

StartBusy ==
  /\ pc = "start" /\ gState # "READY"
  /\ pc' = "fallback"
  /\ UNCHANGED <<req, pollNext, txVars, rxVars, slaveVars>>

(* The error path: RS485_RX_MODE, then HAL_UART_Receive_DMA, return false. *)
Fallback ==
  /\ pc = "fallback"
  /\ pc' = "rearm" /\ dir' = "RX" /\ intact' = FALSE
  /\ UNCHANGED <<req, pollNext, txBuffer, busy, gState, txp, rxVars, slaveVars>>

Rearm ==
  /\ pc = "rearm"
  /\ pc' = "idle" /\ req' = None /\ rx' = ReceiveDMA(rx)
  /\ UNCHANGED <<pollNext, txVars, idle, seen, slaveVars>>

(* Mutant: rs485_tx_busy is never raised. *)
MarkForgotten ==
  /\ pc = "mark"
  /\ pc' = "idle" /\ req' = None
  /\ UNCHANGED <<pollNext, txVars, rxVars, slaveVars>>

(* rs485_tx_busy = true; return true; *)
Mark ==
  /\ pc = "mark"
  /\ pc' = "idle" /\ req' = None /\ busy' = TRUE
  /\ UNCHANGED <<pollNext, txBuffer, dir, gState, txp, intact, rxVars, slaveVars>>

MainStep == Refuse \/ Accept \/ Fill \/ Abort \/ TxMode \/ StartOk \/ StartBusy
              \/ Fallback \/ Rearm \/ Mark

-----------------------------------------------------------------------------
(* Interrupts.  The receive-complete interrupt of DMA1 channel 6 is not one *)
(* of them: it needs 64 bytes without a pause, the slave's answers have     *)
(* nine at most.                                                            *)

(* Mutant: TC does not interrupt when the DMA is done. *)
DmaTxDoneSilent ==
  /\ txp = "dma"
  /\ txp' = "none"
  /\ UNCHANGED <<mainVars, txBuffer, busy, dir, gState, intact, rxVars, slaveVars>>

(* Mutant: the end of the DMA is taken for the end of the frame.            *)
DmaTxDoneCuts ==
  /\ txp = "dma"
  /\ txp' = "none" /\ gState' = "READY" /\ dir' = "RX" /\ busy' = FALSE
  /\ rx' = ReceiveDMA(rx) /\ intact' = FALSE
  /\ UNCHANGED <<mainVars, txBuffer, idle, seen, slaveVars>>

(* DMA1 channel 7: the last byte has left tx_buffer; wait for TC instead. *)
DmaTxDone ==
  /\ txp = "dma"
  /\ txp' = "tc"
  /\ UNCHANGED <<mainVars, txBuffer, busy, dir, gState, intact, rxVars, slaveVars>>

(* USART2_IRQHandler on IDLE: take the length, stop, parse, arm again. *)
IdleIrq ==
  /\ idle /\ txp # "tc"
  /\ idle' = FALSE /\ seen' = ModbusParse(rx.got)
  /\ rx' = ReceiveDMA(AbortReceive(rx))
  /\ UNCHANGED <<mainVars, txVars, slaveVars>>

(* Mutant: HAL_UART_TxCpltCallback does not arm the reception again. *)
TxCpltNoRearm ==
  /\ txp = "tc"
  /\ txp' = "none" /\ gState' = "READY" /\ dir' = "RX" /\ busy' = FALSE
  /\ seen' = IF idle THEN ModbusParse(rx.got) ELSE seen
  /\ idle' = FALSE
  /\ rx' = IF idle THEN AbortReceive(rx) ELSE rx
  /\ slaveReq' = IF intact THEN txBuffer ELSE slaveReq
  /\ intact' = FALSE
  /\ UNCHANGED <<mainVars, txBuffer, line>>

(* USART2_IRQHandler on TC: the IDLE part first if its flag is up, then     *)
(* HAL_UART_TxCpltCallback.  An unharmed frame has now reached the slave.   *)
TxCpltIrq ==
  /\ txp = "tc"
  /\ txp' = "none" /\ gState' = "READY" /\ dir' = "RX" /\ busy' = FALSE
  /\ seen' = IF idle THEN ModbusParse(rx.got) ELSE seen
  /\ idle' = FALSE
  /\ rx' = ReceiveDMA(IF idle THEN AbortReceive(rx) ELSE rx)
  /\ slaveReq' = IF intact THEN txBuffer ELSE slaveReq
  /\ intact' = FALSE
  /\ UNCHANGED <<mainVars, txBuffer, line>>

(* The line is the slaves': no call has touched it, or its frame is over.   *)
Untouched == {"idle", "check", "fill", "abort", "mark"}
Quiet == pc \in Untouched /\ gState = "READY"

(* A noise or framing error while a reception is armed (EIE is set only     *)
(* then): the HAL ends the reception and calls HAL_UART_ErrorCallback.      *)
(* With IDLE up, clearing that flag reads SR and DR and drops the error.    *)
ErrorIrq ==
  /\ NoiseOnSend \/ Quiet
  /\ rx.armed /\ ~idle
  /\ dir' = "RX" /\ busy' = FALSE
  /\ rx' = ReceiveDMA(AbortReceive(rx))
  /\ intact' = FALSE
  /\ UNCHANGED <<mainVars, txBuffer, gState, txp, idle, seen, slaveVars>>

-----------------------------------------------------------------------------
(* The addressed slave and the bus. *)

SlaveStart ==
  /\ slaveReq # None /\ line = None
  /\ line' = slaveReq /\ slaveReq' = None
  /\ rx' = IF rx.armed /\ dir = "RX" THEN [rx EXCEPT !.got = Part, !.live = (rx.got = None)]
                                    ELSE rx
  /\ intact' = (intact /\ txp = "none")
  /\ UNCHANGED <<mainVars, txBuffer, busy, dir, gState, txp, idle, seen>>

(* A pause inside the answer is long enough to raise IDLE. *)
SlavePause ==
  /\ line # None /\ ~idle
  /\ idle' = TRUE
  /\ UNCHANGED <<mainVars, txVars, rx, seen, slaveVars>>

(* The answer is over: IDLE.  It is in the buffer if nothing cut it. *)
SlaveEnd ==
  /\ line # None
  /\ line' = None /\ idle' = TRUE
  /\ rx' = [rx EXCEPT !.live = FALSE,
                     !.got = IF rx.live THEN line
                             ELSE IF rx.armed /\ dir = "RX" THEN Part ELSE rx.got]
  /\ UNCHANGED <<mainVars, txVars, seen, slaveReq>>

-----------------------------------------------------------------------------
Interrupts == DmaTxDone \/ IdleIrq \/ TxCpltIrq
Slave == SlaveStart \/ SlavePause \/ SlaveEnd

Next == Poll \/ Command \/ MainStep \/ Interrupts \/ ErrorIrq \/ Slave

(* The CPU runs the called function and takes pending interrupts; a slave   *)
(* that started to answer stops.  No call and no answer is ever promised.   *)
Fairness == WF_vars(MainStep) /\ WF_vars(DmaTxDone) /\ WF_vars(IdleIrq)
              /\ WF_vars(TxCpltIrq) /\ WF_vars(SlaveEnd)

Spec == Init /\ [][Next]_vars
FairSpec == Spec /\ Fairness

-----------------------------------------------------------------------------
(* Between two calls, with nothing being sent, the transceiver listens and  *)
(* a reception is armed, whatever the interrupts did to the calls before:   *)
(* every path of RS485.c, usart.c and USART2_IRQHandler hands the bus back. *)
ListeningWhenQuiet ==
  pc = "idle" /\ gState = "READY" => dir = "RX" /\ rx.armed

(* While a frame leaves the UART, rs485_tx_busy is up or is about to be, so *)
(* no other call can get as far as tx_buffer (RS485.c, the test on entry).  *)
BusyCoversSending ==
  gState = "BUSY_TX" => busy \/ pc = "mark"

(* The transceiver never keeps driving the bus: the completion interrupt or *)
(* the error path always gives it back to the slaves.                       *)
BusReleased == dir = "TX" ~> dir = "RX"

(* What RS485.c says of the test on entry: "the previous transmission is    *)
(* not complete, avoid overlapping transmissions".  The frame buffer is not *)
(* rewritten under the DMA that is sending it.                              *)
NoOverlap == pc = "fill" => txp # "dma"

(* Unless a receiver error comes between HAL_UART_AbortReceive and the end  *)
(* of the frame, the driver keeps the promise of a half-duplex line: a      *)
(* frame is sent alone, unchanged and with the driver on to its end.        *)
Line == INSTANCE HalfDuplexLine
          WITH driving <- dir = "TX",
               sending <- IF gState = "BUSY_TX" THEN txBuffer ELSE None
HalfDuplex == Line!FairSpec

(* On the same condition its callers share the line as Station has it: a    *)
(* call is refused only while a frame is out or the flag was left up, what  *)
(* is taken is sent whole, and the slave gets it unless it is answering.    *)
Shared == INSTANCE SharedLine
            WITH sending <- IF gState = "BUSY_TX" THEN txBuffer ELSE None,
                 request <- slaveReq, answering <- line # None,
                 stuck <- gState = "READY" /\ (busy \/ pc = "mark")
RefusedUnlessFree == pc = "check" /\ pc' # "check" => (pc' = "idle" <=> ~Shared!Free)
SharesLine == Shared!Spec /\ [][RefusedUnlessFree]_vars
=============================================================================
