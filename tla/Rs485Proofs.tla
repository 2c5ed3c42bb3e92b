----------------------------- MODULE Rs485Proofs -----------------------------
(***************************************************************************)
(* Proofs about Rs485, for any set of write frames and any number of calls.*)
(***************************************************************************)
EXTENDS Rs485, TLAPS

(***************************************************************************)
(* Type correctness.  TypeOK alone does not say that a call in progress    *)
(* has a frame to send, which Fill needs.                                  *)
(***************************************************************************)
CallHasFrame == pc # "idle" => req \in Frames

LEMMA ReceiveDMAType ==
  ASSUME NEW r \in Reception
  PROVE  /\ AbortReceive(r) \in Reception
         /\ ReceiveDMA(r) \in Reception
  BY DEF AbortReceive, ReceiveDMA, Reception

LEMMA ModbusParseType ==
  ASSUME seen \subseteq Frames, NEW got
  PROVE  ModbusParse(got) \subseteq Frames
  BY DEF ModbusParse

(* Every variable of the driver keeps its range: Modbus_Parse only ever     *)
(* records frames, and every call that is under way has a frame to send.    *)
THEOREM TypeCorrect == Spec => [](TypeOK /\ CallHasFrame)
<1>1. Init => TypeOK /\ CallHasFrame
  <2> SUFFICES ASSUME Init PROVE TypeOK /\ CallHasFrame
    OBVIOUS
  <2>1. rx \in Reception
    BY DEF Init, Reception
  <2>2. QED
    BY <2>1 DEF Init, TypeOK, CallHasFrame, Steps, Polls
<1>2. TypeOK /\ CallHasFrame /\ [Next]_vars => TypeOK' /\ CallHasFrame'
  <2> SUFFICES ASSUME TypeOK, CallHasFrame, [Next]_vars
               PROVE  TypeOK' /\ CallHasFrame'
    OBVIOUS
  <2> USE DEF TypeOK, CallHasFrame, Steps
  <2>1. CASE Poll
    BY <2>1 DEF Poll, Polls, Frames, txVars, rxVars, slaveVars
  <2>2. CASE Command
    BY <2>2 DEF Command, Frames, txVars, rxVars, slaveVars
  <2>3. CASE Refuse
    BY <2>3 DEF Refuse, txVars, rxVars, slaveVars
  <2>4. CASE Accept
    BY <2>4 DEF Accept, txVars, rxVars, slaveVars
  <2>5. CASE Fill
    BY <2>5 DEF Fill, rxVars, slaveVars
  <2>6. CASE Abort
    BY <2>6, ReceiveDMAType DEF Abort, txVars, slaveVars
  <2>7. CASE TxMode
    BY <2>7 DEF TxMode, Reception, slaveVars
  <2>8. CASE StartOk
    BY <2>8 DEF StartOk, rxVars, slaveVars
  <2>9. CASE StartBusy
    BY <2>9 DEF StartBusy, txVars, rxVars, slaveVars
  <2>10. CASE Fallback
    BY <2>10 DEF Fallback, rxVars, slaveVars
  <2>11. CASE Rearm
    BY <2>11, ReceiveDMAType DEF Rearm, txVars, slaveVars
  <2>12. CASE Mark
    BY <2>12 DEF Mark, rxVars, slaveVars
  <2>13. CASE DmaTxDone
    BY <2>13 DEF DmaTxDone, mainVars, rxVars, slaveVars
  <2>14. CASE IdleIrq
    <3>1. ModbusParse(rx.got) \subseteq Frames
      BY ModbusParseType
    <3>2. QED
      BY <2>14, <3>1, ReceiveDMAType DEF IdleIrq, mainVars, txVars, slaveVars
  <2>15. CASE TxCpltIrq
    <3>1. ModbusParse(rx.got) \subseteq Frames
      BY ModbusParseType
    <3>2. seen' \subseteq Frames
      BY <2>15, <3>1 DEF TxCpltIrq
    <3>3. rx' \in Reception
      BY <2>15, ReceiveDMAType DEF TxCpltIrq
    <3>4. slaveReq' \in Frames \cup {None}
      BY <2>15 DEF TxCpltIrq
    <3>5. QED
      BY <2>15, <3>2, <3>3, <3>4 DEF TxCpltIrq, mainVars
  <2>16. CASE ErrorIrq
    <3>1. rx' \in Reception
      BY <2>16, ReceiveDMAType DEF ErrorIrq
    <3>2. QED
      BY <2>16, <3>1 DEF ErrorIrq, mainVars, slaveVars
  <2>17. CASE SlaveStart
    <3>1. rx' \in Reception
      BY <2>17 DEF SlaveStart, Reception
    <3>2. intact' \in BOOLEAN
      BY <2>17 DEF SlaveStart
    <3>3. QED
      BY <2>17, <3>1, <3>2 DEF SlaveStart, mainVars
  <2>18. CASE SlavePause
    BY <2>18 DEF SlavePause, mainVars, txVars, slaveVars
  <2>19. CASE SlaveEnd
    <3>1. rx' \in Reception
      BY <2>19 DEF SlaveEnd, Reception
    <3>2. QED
      BY <2>19, <3>1 DEF SlaveEnd, mainVars, txVars
  <2>20. CASE UNCHANGED vars
    BY <2>20 DEF vars, mainVars, txVars, rxVars, slaveVars
  <2>21. QED
    BY <2>1, <2>2, <2>3, <2>4, <2>5, <2>6, <2>7, <2>8, <2>9, <2>10, <2>11, <2>12, <2>13,
       <2>14, <2>15, <2>16, <2>17, <2>18, <2>19, <2>20
       DEF Next, MainStep, Interrupts, Slave
<1>3. QED
  BY <1>1, <1>2, PTL DEF Spec

-----------------------------------------------------------------------------
(***************************************************************************)
(* The bus is handed back.  ListeningWhenQuiet speaks of the time between  *)
(* two calls only; it is inductive once it also covers the steps in which  *)
(* a call has not touched the bus yet, or already has its frame going, and *)
(* the last step of the error path.                                        *)
(***************************************************************************)
ListeningInv ==
  /\ Quiet => dir = "RX" /\ rx.armed
  /\ pc = "rearm" => dir = "RX"
  /\ gState = "READY" => txp = "none"

LEMMA ReceiveDMAArms ==
  ASSUME NEW r \in Reception
  PROVE  ReceiveDMA(r).armed = TRUE
  BY DEF ReceiveDMA, Reception

LEMMA ListeningInductive ==
  ASSUME TypeOK, CallHasFrame, ListeningInv, [Next]_vars
  PROVE  ListeningInv'
<1> USE DEF ListeningInv, Untouched, Quiet
<1>r. rx \in Reception /\ AbortReceive(rx) \in Reception
  BY ReceiveDMAType DEF TypeOK
<1>1. CASE Poll \/ Command \/ Refuse \/ Accept
  BY <1>1 DEF Poll, Command, Refuse, Accept, txVars, rxVars
<1>2. CASE Fill \/ Abort \/ TxMode
  BY <1>2 DEF Fill, Abort, TxMode, txVars, rxVars
<1>3. CASE StartOk \/ StartBusy \/ Fallback
  BY <1>3 DEF StartOk, StartBusy, Fallback, txVars, rxVars
<1>4. CASE Rearm
  BY <1>4, <1>r, ReceiveDMAArms DEF Rearm, txVars
<1>5. CASE Mark
  BY <1>5 DEF Mark, rxVars
<1>6. CASE DmaTxDone
  BY <1>6 DEF DmaTxDone, mainVars, rxVars
<1>7. CASE IdleIrq
  BY <1>7, <1>r, ReceiveDMAArms DEF IdleIrq, mainVars, txVars
<1>8. CASE TxCpltIrq
  <2>1. rx'.armed = TRUE
    BY <1>8, <1>r, ReceiveDMAArms DEF TxCpltIrq
  <2>2. QED
    BY <1>8, <2>1 DEF TxCpltIrq, mainVars
<1>9. CASE ErrorIrq
  BY <1>9, <1>r, ReceiveDMAArms DEF ErrorIrq, mainVars
<1>10. CASE SlaveStart \/ SlaveEnd
  <2>1. rx'.armed = rx.armed
    BY <1>10, <1>r DEF SlaveStart, SlaveEnd, Reception
  <2>2. QED
    BY <1>10, <2>1 DEF SlaveStart, SlaveEnd, mainVars, txVars
<1>11. CASE SlavePause
  BY <1>11 DEF SlavePause, mainVars, txVars
<1>12. CASE UNCHANGED vars
  BY <1>12 DEF vars, mainVars, txVars, rxVars
<1>13. QED
  BY <1>1, <1>2, <1>3, <1>4, <1>5, <1>6, <1>7, <1>8, <1>9, <1>10, <1>11, <1>12
     DEF Next, MainStep, Interrupts, Slave

(* Whatever calls, interrupts, noise and answers do to each other, between  *)
(* two calls with nothing being sent the transceiver listens and the        *)
(* reception DMA is armed: no path through the driver leaves it deaf.       *)
THEOREM ListensWhenQuiet == Spec => []ListeningWhenQuiet
<1>1. Init => ListeningInv
  BY DEF Init, ListeningInv, Untouched, Quiet
<1>2. TypeOK /\ CallHasFrame /\ ListeningInv /\ [Next]_vars => ListeningInv'
  BY ListeningInductive
<1>3. ListeningInv => ListeningWhenQuiet
  BY DEF ListeningInv, ListeningWhenQuiet, Untouched, Quiet
<1>4. QED
  BY <1>1, <1>2, <1>3, TypeCorrect, PTL DEF Spec

-----------------------------------------------------------------------------
(***************************************************************************)
(* Exclusion on the frame buffer, unless receiver errors hit a frame.  The *)
(* busy flag is raised only after the transmission was started, so for the *)
(* steps before that it must be the idle UART that proves the call alone.  *)
(***************************************************************************)
Exclusive ==
  /\ BusyCoversSending
  /\ pc \in {"fill", "abort", "dir", "start"} => gState = "READY"
  /\ pc \notin {"fallback", "rearm"}

LEMMA ExclusiveInductive ==
  ASSUME ~NoiseOnSend, TypeOK, CallHasFrame, ListeningInv, Exclusive, [Next]_vars
  PROVE  Exclusive'
<1> USE DEF Exclusive, BusyCoversSending
<1>1. CASE Poll \/ Command \/ Refuse \/ Accept
  BY <1>1 DEF Poll, Command, Refuse, Accept, txVars, TypeOK
<1>2. CASE Fill \/ Abort \/ TxMode
  BY <1>2 DEF Fill, Abort, TxMode, txVars
<1>3. CASE StartOk \/ StartBusy \/ Fallback \/ Rearm
  BY <1>3 DEF StartOk, StartBusy, Fallback, Rearm
<1>4. CASE Mark
  BY <1>4 DEF Mark
<1>5. CASE DmaTxDone \/ IdleIrq \/ TxCpltIrq
  BY <1>5 DEF DmaTxDone, IdleIrq, TxCpltIrq, mainVars, txVars
<1>6. CASE ErrorIrq
  BY <1>6 DEF ErrorIrq, Quiet, mainVars
<1>7. CASE SlaveStart \/ SlavePause \/ SlaveEnd
  BY <1>7 DEF SlaveStart, SlavePause, SlaveEnd, mainVars, txVars
<1>8. CASE UNCHANGED vars
  BY <1>8 DEF vars, mainVars, txVars
<1>9. QED
  BY <1>1, <1>2, <1>3, <1>4, <1>5, <1>6, <1>7, <1>8 DEF Next, MainStep, Interrupts, Slave

LEMMA ExclusiveAlways ==
  ASSUME ~NoiseOnSend
  PROVE  Spec => [](TypeOK /\ CallHasFrame /\ ListeningInv /\ Exclusive)
<1>1. Init => ListeningInv /\ Exclusive
  BY DEF Init, ListeningInv, Untouched, Quiet, Exclusive, BusyCoversSending
<1>2. TypeOK /\ CallHasFrame /\ ListeningInv /\ Exclusive /\ [Next]_vars
        => ListeningInv' /\ Exclusive'
  BY ListeningInductive, ExclusiveInductive
<1>3. QED
  BY <1>1, <1>2, TypeCorrect, PTL DEF Spec

(* Unless a receiver error hits a frame, rs485_tx_busy, though raised only  *)
(* after HAL_UART_Transmit_DMA, is up whenever another call could look at it *)
(* while a frame is being sent.                                             *)
THEOREM BusyFlagCovers == ASSUME ~NoiseOnSend PROVE Spec => []BusyCoversSending
<1>1. Exclusive => BusyCoversSending
  BY DEF Exclusive
<1>2. QED
  BY <1>1, ExclusiveAlways, PTL

-----------------------------------------------------------------------------
(***************************************************************************)
(* Refinement.  The frame on the abstract line is tx_buffer while gState   *)
(* says BUSY_TX; the buffer must therefore hold a frame when the DMA is    *)
(* started, and stay as it is until TC.                                    *)
(***************************************************************************)
BufferFilled ==
  /\ pc \in {"abort", "dir", "start", "mark"} => txBuffer \in Frames
  /\ gState = "BUSY_TX" => txBuffer \in Frames

(* A call that has not raised the driver yet finds it down, and one about   *)
(* to start the DMA finds it up.                                            *)
DriverInTurn ==
  /\ pc = "dir" => dir = "RX"
  /\ pc = "start" => dir = "TX"
  /\ txp # "none" => gState = "BUSY_TX"
LineInv == TypeOK /\ CallHasFrame /\ ListeningInv /\ Exclusive /\ BufferFilled /\ DriverInTurn

LEMMA LineInvInductive ==
  ASSUME ~NoiseOnSend, LineInv, [Next]_vars
  PROVE  BufferFilled' /\ DriverInTurn'
<1> USE DEF LineInv, BufferFilled, DriverInTurn, Exclusive
<1>1. CASE Poll \/ Command \/ Refuse \/ Accept
  BY <1>1 DEF Poll, Command, Refuse, Accept, txVars
<1>2. CASE Fill
  BY <1>2 DEF Fill, CallHasFrame
<1>3. CASE Abort
  BY <1>3 DEF Abort, txVars, ListeningInv, Quiet, Untouched
<1>4. CASE TxMode
  BY <1>4 DEF TxMode
<1>5. CASE StartOk \/ StartBusy
  BY <1>5 DEF StartOk, StartBusy
<1>6. CASE Fallback \/ Rearm
  BY <1>6 DEF Fallback, Rearm
<1>7. CASE Mark
  BY <1>7 DEF Mark
<1>8. CASE DmaTxDone \/ IdleIrq \/ TxCpltIrq
  BY <1>8 DEF DmaTxDone, IdleIrq, TxCpltIrq, mainVars, txVars
<1>9. CASE ErrorIrq
  BY <1>9 DEF ErrorIrq, Quiet, Untouched, mainVars
<1>10. CASE SlaveStart \/ SlavePause \/ SlaveEnd
  BY <1>10 DEF SlaveStart, SlavePause, SlaveEnd, mainVars, txVars
<1>11. CASE UNCHANGED vars
  BY <1>11 DEF vars, mainVars, txVars
<1>12. QED
  BY <1>1, <1>2, <1>3, <1>4, <1>5, <1>6, <1>7, <1>8, <1>9, <1>10, <1>11
     DEF Next, MainStep, Interrupts, Slave

LEMMA LineStep ==
  ASSUME ~NoiseOnSend, LineInv, [Next]_vars
  PROVE  [Line!Next]_(Line!vars)
<1> USE DEF LineInv, Line!vars, Line!Next
<1>n. None \notin Frames
  BY FramesAssumption
<1>1. CASE Poll \/ Command \/ Refuse \/ Accept
  BY <1>1 DEF Poll, Command, Refuse, Accept, txVars
<1>2. CASE Fill
  BY <1>2 DEF Fill, Exclusive
<1>3. CASE Abort
  BY <1>3 DEF Abort, txVars
<1>4. CASE TxMode
  <2>1. Line!Turn
    BY <1>4 DEF TxMode, Line!Turn, DriverInTurn
  <2>2. QED
    BY <2>1
<1>5. CASE StartOk
  <2>1. Line!Begin
    BY <1>5 DEF StartOk, Line!Begin, DriverInTurn, BufferFilled
  <2>2. QED
    BY <2>1
<1>6. CASE StartBusy \/ Fallback \/ Rearm
  BY <1>6 DEF StartBusy, Fallback, Rearm, Exclusive
<1>7. CASE Mark
  BY <1>7 DEF Mark
<1>8. CASE DmaTxDone \/ IdleIrq
  BY <1>8 DEF DmaTxDone, IdleIrq, txVars
<1>9. CASE TxCpltIrq
  <2>1. Line!End
    BY <1>9, <1>n DEF TxCpltIrq, Line!End, DriverInTurn, BufferFilled
  <2>2. QED
    BY <2>1
<1>10. CASE ErrorIrq
  BY <1>10 DEF ErrorIrq, ListeningInv, Quiet
<1>11. CASE SlaveStart \/ SlavePause \/ SlaveEnd
  BY <1>11 DEF SlaveStart, SlavePause, SlaveEnd, mainVars, txVars
<1>12. CASE UNCHANGED vars
  BY <1>12 DEF vars, txVars
<1>13. QED
  BY <1>1, <1>2, <1>3, <1>4, <1>5, <1>6, <1>7, <1>8, <1>9, <1>10, <1>11, <1>12
     DEF Next, MainStep, Interrupts, Slave

(* Unless one hits a frame, the driver implements a half-duplex line: it    *)
(* turns the transceiver only when it listens, starts a frame only on a     *)
(* line it drives and that is free, never changes the frame on its way, and *)
(* listens again the moment the frame is over.                              *)
THEOREM ImplementsHalfDuplexLine == ASSUME ~NoiseOnSend PROVE Spec => Line!Spec
<1>1. Init => Line!Init
  BY DEF Init, Line!Init
<1>2. Init => BufferFilled /\ DriverInTurn
  BY DEF Init, BufferFilled, DriverInTurn
<1>3. LineInv /\ [Next]_vars => BufferFilled' /\ DriverInTurn'
  BY LineInvInductive
<1>4. LineInv /\ [Next]_vars => [Line!Next]_(Line!vars)
  BY LineStep
<1>5. QED
  BY <1>1, <1>2, <1>3, <1>4, ExclusiveAlways, PTL DEF Spec, LineInv, Line!Spec

-----------------------------------------------------------------------------
(***************************************************************************)
(* The line as its callers share it.  A call that has passed the test has  *)
(* the flag down until it has started its frame, and only a frame on its   *)
(* way out can be whole.                                                   *)
(***************************************************************************)
FlagInTurn ==
  /\ pc \in {"fill", "abort", "dir", "start"} => ~busy
  /\ gState = "BUSY_TX" => txp # "none"
  /\ intact => gState = "BUSY_TX"
SharedInv == LineInv /\ FlagInTurn

LEMMA FlagInTurnInductive ==
  ASSUME ~NoiseOnSend, SharedInv, [Next]_vars
  PROVE  FlagInTurn'
<1> USE DEF SharedInv, FlagInTurn, LineInv
<1>1. CASE Poll \/ Command \/ Refuse \/ Accept
  BY <1>1 DEF Poll, Command, Refuse, Accept, txVars
<1>2. CASE Fill \/ Abort \/ TxMode
  <2>1. intact' => intact
    BY <1>2 DEF Fill, Abort, TxMode, txVars
  <2>2. QED
    BY <1>2, <2>1 DEF Fill, Abort, TxMode, txVars
<1>3. CASE StartOk \/ StartBusy \/ Fallback \/ Rearm
  BY <1>3 DEF StartOk, StartBusy, Fallback, Rearm, txVars, Exclusive
<1>4. CASE Mark
  BY <1>4 DEF Mark
<1>5. CASE DmaTxDone \/ IdleIrq \/ TxCpltIrq
  BY <1>5 DEF DmaTxDone, IdleIrq, TxCpltIrq, mainVars, txVars
<1>6. CASE ErrorIrq
  BY <1>6 DEF ErrorIrq, mainVars
<1>7. CASE SlaveStart \/ SlavePause \/ SlaveEnd
  <2>1. intact' => intact
    BY <1>7 DEF SlaveStart, SlavePause, SlaveEnd, txVars
  <2>2. QED
    BY <1>7, <2>1 DEF SlaveStart, SlavePause, SlaveEnd, mainVars, txVars
<1>8. CASE UNCHANGED vars
  BY <1>8 DEF vars, mainVars, txVars
<1>9. QED
  BY <1>1, <1>2, <1>3, <1>4, <1>5, <1>6, <1>7, <1>8 DEF Next, MainStep, Interrupts, Slave

(* The shared line at rest: nothing on it changes. *)
LEMMA SharedUntouched ==
  ASSUME UNCHANGED <<txBuffer, gState, intact, slaveVars>>,
         (busy \/ pc = "mark")' <=> (busy \/ pc = "mark")
  PROVE  UNCHANGED Shared!vars
BY DEF Shared!vars, slaveVars

LEMMA SharedStep ==
  ASSUME ~NoiseOnSend, SharedInv, [Next]_vars
  PROVE  [Shared!Next]_(Shared!vars)
<1> USE DEF SharedInv, FlagInTurn, LineInv, Shared!Next
<1>n. None \notin Frames
  BY FramesAssumption
<1>1. CASE Poll \/ Command \/ Refuse \/ Accept
  BY <1>1, SharedUntouched DEF Poll, Command, Refuse, Accept, txVars
<1>2. CASE Fill
  <2>1. gState = "READY" /\ intact = FALSE /\ intact' = FALSE
    BY <1>2 DEF Fill, Exclusive, TypeOK
  <2>2. QED
    BY <1>2, <2>1 DEF Fill, Shared!vars, slaveVars
<1>3. CASE Abort \/ TxMode
  BY <1>3, SharedUntouched DEF Abort, TxMode, txVars, slaveVars
<1>4. CASE StartOk
  <2>1. txBuffer \in Frames /\ dir = "TX" /\ ~busy
    BY <1>4 DEF StartOk, BufferFilled, DriverInTurn
  <2>2. Shared!Free
    BY <1>4, <2>1 DEF StartOk, Shared!Free
  <2>3. Shared!Send(txBuffer)
    BY <1>4, <2>1, <2>2 DEF StartOk, Shared!Send, slaveVars
  <2>4. QED
    BY <2>1, <2>3
<1>5. CASE StartBusy \/ Fallback \/ Rearm
  BY <1>5 DEF StartBusy, Fallback, Rearm, Exclusive
<1>6. CASE Mark
  BY <1>6, SharedUntouched DEF Mark
<1>7. CASE DmaTxDone \/ IdleIrq
  BY <1>7, SharedUntouched DEF DmaTxDone, IdleIrq, mainVars, txVars
<1>8. CASE TxCpltIrq
  <2>1. gState = "BUSY_TX" /\ txBuffer \in Frames
    BY <1>8 DEF TxCpltIrq, DriverInTurn, BufferFilled
  <2>2. Shared!Sent
    BY <1>8, <1>n, <2>1 DEF TxCpltIrq, Shared!Sent, mainVars
  <2>3. QED
    BY <2>2
<1>9. CASE ErrorIrq
  <2>1. gState = "READY" /\ gState' = "READY" /\ intact = FALSE /\ intact' = FALSE
    BY <1>9 DEF ErrorIrq, Quiet, TypeOK
  <2>2. CASE busy /\ pc # "mark"
    <3>1. Shared!Noise
      BY <1>9, <2>1, <2>2 DEF ErrorIrq, Shared!Noise, mainVars, slaveVars
    <3>2. QED
      BY <3>1
  <2>3. CASE ~(busy /\ pc # "mark")
    BY <1>9, <2>1, <2>3 DEF ErrorIrq, Shared!vars, mainVars, slaveVars
  <2>4. QED
    BY <2>2, <2>3
<1>10. CASE SlaveStart
  <2>1. intact' = FALSE
    BY <1>10 DEF SlaveStart
  <2>2. Shared!Answer
    BY <1>10, <2>1 DEF SlaveStart, Shared!Answer, mainVars
  <2>3. QED
    BY <2>2
<1>11. CASE SlavePause
  BY <1>11, SharedUntouched DEF SlavePause, mainVars, txVars
<1>12. CASE SlaveEnd
  <2>1. Shared!AnswerEnds
    BY <1>12 DEF SlaveEnd, Shared!AnswerEnds, mainVars, txVars
  <2>2. QED
    BY <2>1
<1>13. CASE UNCHANGED vars
  BY <1>13, SharedUntouched DEF vars, mainVars, txVars
<1>14. QED
  BY <1>1, <1>2, <1>3, <1>4, <1>5, <1>6, <1>7, <1>8, <1>9, <1>10, <1>11, <1>12, <1>13
     DEF Next, MainStep, Interrupts, Slave

(* The test on entry tells exactly whether the line is free.                *)
LEMMA TestTellsFree ==
  ASSUME SharedInv, [Next]_vars
  PROVE  RefusedUnlessFree
<1> SUFFICES ASSUME pc = "check", pc' # "check"
             PROVE  pc' = "idle" <=> ~Shared!Free
  BY DEF RefusedUnlessFree
<1>1. Refuse \/ Accept
  BY DEF Next, MainStep, Interrupts, Slave, Poll, Command, Fill, Abort, TxMode, StartOk,
         StartBusy, Fallback, Rearm, Mark, DmaTxDone, IdleIrq, TxCpltIrq, ErrorIrq,
         SlaveStart, SlavePause, SlaveEnd, vars, mainVars
<1>2. CASE Refuse
  <2>1. gState = "BUSY_TX" => txBuffer # None
    BY FramesAssumption DEF SharedInv, LineInv, BufferFilled
  <2>2. QED
    BY <1>2, <2>1 DEF Refuse, Shared!Free, SharedInv, LineInv, TypeOK
<1>3. CASE Accept
  BY <1>3 DEF Accept, Shared!Free, SharedInv, LineInv, Exclusive, BusyCoversSending, TypeOK
<1>4. QED
  BY <1>1, <1>2, <1>3

(* Unless a receiver error hits a frame, keys, messages and polls share the *)
(* line as Station has it: of interrupts between the steps of a call and of *)
(* errors before and after it, they see no more than a flag left up.        *)
THEOREM ImplementsSharedLine == ASSUME ~NoiseOnSend PROVE Spec => SharesLine
<1>1. Init => Shared!Init
  BY DEF Init, Shared!Init
<1>2. Init => BufferFilled /\ DriverInTurn /\ FlagInTurn
  BY DEF Init, BufferFilled, DriverInTurn, FlagInTurn
<1>3. LineInv /\ [Next]_vars => BufferFilled' /\ DriverInTurn'
  BY LineInvInductive
<1>4. SharedInv /\ [Next]_vars => FlagInTurn'
  BY FlagInTurnInductive
<1>5. SharedInv /\ [Next]_vars => [Shared!Next]_(Shared!vars)
  BY SharedStep
<1>6. SharedInv /\ [Next]_vars => [RefusedUnlessFree]_vars
  BY TestTellsFree
<1>7. QED
  BY <1>1, <1>2, <1>3, <1>4, <1>5, <1>6, ExclusiveAlways, PTL
     DEF Spec, LineInv, SharedInv, Shared!Spec, SharesLine
=============================================================================
