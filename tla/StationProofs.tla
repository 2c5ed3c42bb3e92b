---------------------------- MODULE StationProofs ----------------------------
(***************************************************************************)
(* Station, for any number of devices: the coils follow g_device.          *)
(* CoilFollows is inductive with TypeOK: it speaks of the command under    *)
(* way, not only of coils at rest.                                         *)
(***************************************************************************)
EXTENDS Station, TLAPS

(* Neither a poll nor the absence of a frame writes a coil. *)
LEMMA OnlyWritesWrite == \A d : ~IsWrite(Poll, d) /\ ~IsWrite(None, d)
BY FramesAssumption DEF IsWrite

(* A write writes its own device's coil. *)
LEMMA WriteOf ==
  ASSUME NEW d \in Devices, NEW s \in States
  PROVE  LET w == [dev |-> d, to |-> s]
         IN w \in Writes /\ w \in Frames /\ (\A c : IsWrite(w, c) <=> c = d)
BY DEF Writes, Frames, IsWrite

(* What is being written is a state. *)
LEMMA WriteTo ==
  ASSUME NEW f, NEW d, IsWrite(f, d)
  PROVE  f.to \in States
BY DEF IsWrite, Writes

LEMMA OppositeType == \A s \in States : Opposite(s) \in States
BY DEF States, Opposite

(* A command keeps the types of what it changes. *)
LEMMA ControlType ==
  ASSUME TypeOK, NEW d \in Devices, NEW s \in States, Control(d, s)
  PROVE  /\ sending' \in Frames \cup {None} /\ intact' \in BOOLEAN
         /\ missed' \in [Devices -> BOOLEAN]
         /\ UNCHANGED <<request, answering, stuck, coil>>
<1>1. UNCHANGED <<request, answering, stuck, coil>>
  BY DEF Control, Line!Send, lineVars
<1>2. sending' \in Frames \cup {None} /\ intact' \in BOOLEAN
  <2>1. [dev |-> d, to |-> s] \in Frames
    BY WriteOf
  <2>2. CASE Line!Send([dev |-> d, to |-> s])
    BY <2>1, <2>2 DEF Line!Send, TypeOK
  <2>3. CASE UNCHANGED lineVars
    BY <2>3 DEF lineVars, TypeOK
  <2> QED  BY <2>2, <2>3 DEF Control
<1>3. missed' \in [Devices -> BOOLEAN]
  BY DEF Control, TypeOK
<1> QED  BY <1>1, <1>2, <1>3

(* Every variable keeps its range. *)
THEOREM TypeCorrect == Spec => []TypeOK
<1>1. Init => TypeOK
  <2> SUFFICES ASSUME Init PROVE TypeOK
    OBVIOUS
  <2>1. [d \in Devices |-> "off"] \in [Devices -> States]
    BY DEF States
  <2>2. [d \in Devices |-> FALSE] \in [Devices -> BOOLEAN]
    OBVIOUS
  <2>3. 0 \in 0..N
    BY DevicesAssumption
  <2> QED  BY <2>1, <2>2, <2>3 DEF Init, Line!Init, TypeOK
<1>2. TypeOK /\ [Next]_vars => TypeOK'
  <2> SUFFICES ASSUME TypeOK, [Next]_vars PROVE TypeOK'
    OBVIOUS
  <2>1. CASE UNCHANGED vars
    BY <2>1 DEF vars, loopVars, busVars, lineVars, TypeOK
  <2>2. CASE Message
    <3>1. PICK m \in Messages : Execute(m)
      BY <2>2 DEF Message
    <3>2. m.id \in Devices /\ m.set[m.id] \in States
      BY <3>1, DevicesAssumption DEF Execute, Messages, Names, Devices
    <3>3. dev' \in [Devices -> States]
      BY <3>1, <3>2 DEF Execute, TypeOK
    <3>4. Control(m.id, m.set[m.id])
      BY <3>1 DEF Execute
    <3> QED  BY <2>2, <3>2, <3>3, <3>4, ControlType DEF Message, loopVars, TypeOK
  <2>3. CASE MqttDone
    BY <2>3 DEF MqttDone, busVars, lineVars, TypeOK
  <2>4. CASE PollSlaves
    BY <2>4 DEF PollSlaves, Line!Send, busVars, lineVars, Frames, TypeOK
  <2>5. ASSUME NEW sent \in BOOLEAN, Upload(sent) PROVE TypeOK'
    BY <2>5, DevicesAssumption DEF Upload, busVars, lineVars, TypeOK
  <2>6. CASE UploadNotDue
    BY <2>6, DevicesAssumption DEF UploadNotDue, busVars, lineVars, TypeOK
  <2>7. CASE KeyNotPressed
    BY <2>7, DevicesAssumption DEF KeyNotPressed, busVars, lineVars, TypeOK
  <2>8. CASE KeyPressed
    <3>1. at \in Devices
      BY <2>8 DEF KeyPressed, TypeOK, Devices
    <3>2. dev' \in [Devices -> States]
      BY <2>8, <3>1, OppositeType DEF KeyPressed, TypeOK
    <3>3. dev'[at] \in States
      BY <3>1, <3>2
    <3>4. pub' \in [Devices -> States]
      BY <2>8, <3>1, <3>3 DEF KeyPressed, TypeOK
    <3>5. Control(at, dev'[at])
      BY <2>8 DEF KeyPressed
    <3>6. at' \in 0..N /\ flags' \subseteq Devices /\ UNCHANGED pc
      BY <2>8, DevicesAssumption DEF KeyPressed, TypeOK
    <3> QED  BY <3>1, <3>2, <3>3, <3>4, <3>5, <3>6, ControlType DEF TypeOK
  <2>9. CASE KeyDone
    BY <2>9 DEF KeyDone, busVars, lineVars, TypeOK
  <2>10. CASE Press
    BY <2>10 DEF Press, loopVars, busVars, lineVars, TypeOK
  <2>11. CASE TxDone
    <3>1. missed' \in [Devices -> BOOLEAN]
      BY <2>11 DEF TxDone, TypeOK
    <3> QED  BY <2>11, <3>1 DEF TxDone, Line!Sent, loopVars, TypeOK
  <2>12. CASE SlaveStart
    <3>1. coil' \in [Devices -> States]
      BY <2>12, WriteTo DEF SlaveStart, TypeOK
    <3>2. missed' \in [Devices -> BOOLEAN]
      BY <2>12 DEF SlaveStart, TypeOK
    <3> QED  BY <2>12, <3>1, <3>2 DEF SlaveStart, Line!Answer, loopVars, TypeOK
  <2>13. CASE SlaveEnd
    BY <2>13 DEF SlaveEnd, Line!AnswerEnds, loopVars, TypeOK
  <2>14. CASE Noise
    BY <2>14 DEF Noise, Line!Noise, loopVars, TypeOK
  <2> QED
    BY <2>1, <2>2, <2>3, <2>4, <2>5, <2>6, <2>7, <2>8, <2>9, <2>10, <2>11, <2>12, <2>13, <2>14
       DEF Next, MainStep
<1> QED  BY <1>1, <1>2, PTL DEF Spec

-----------------------------------------------------------------------------
(* A command for d, and no other, changes where coils end up: to what it    *)
(* says if it is taken, and d is missed if it is not.                       *)
LEMMA ControlFollows ==
  ASSUME TypeOK, CoilFollows, NEW d \in Devices, NEW s \in States, Control(d, s),
         dev' = [dev EXCEPT ![d] = s]
  PROVE  CoilFollows'
<1> DEFINE w == [dev |-> d, to |-> s]
<1>1. UNCHANGED <<request, answering, coil>>
  BY ControlType
<1>2. CASE ~Line!Free \/ answering
  <2>1. missed' = [missed EXCEPT ![d] = TRUE]
    BY <1>2 DEF Control
  <2>2. ASSUME NEW c \in Devices, ~missed'[c]
        PROVE  Destined(c)' = dev'[c] /\ (IsWrite(sending', c) => intact')
    <3>1. c # d /\ ~missed[c] /\ dev'[c] = dev[c]
      BY <2>1, <2>2 DEF TypeOK
    <3>2. Destined(c) = dev[c] /\ (IsWrite(sending, c) => intact)
      BY <3>1 DEF CoilFollows
    <3>3. CASE ~Line!Free
      <4>1. UNCHANGED <<sending, intact>>
        BY <3>3 DEF Control, Line!Send, lineVars
      <4> QED  BY <1>1, <3>1, <3>2, <4>1 DEF Destined
    <3>4. CASE Line!Free
      <4>1. sending = None /\ sending' = w
        BY <3>4 DEF Control, Line!Send, Line!Free
      <4>2. ~IsWrite(sending, c) /\ ~IsWrite(sending', c)
        BY <3>1, <3>4, <4>1, WriteOf, OnlyWritesWrite
      <4> QED  BY <1>1, <3>1, <3>2, <4>2 DEF Destined
    <3> QED  BY <3>3, <3>4
  <2> QED  BY <2>2 DEF CoilFollows
<1>3. CASE Line!Free /\ ~answering
  <2>1. sending = None /\ sending' = w /\ intact' = TRUE
    BY <1>3 DEF Control, Line!Send, Line!Free
  <2>2. ASSUME NEW c \in Devices, ~missed'[c]
        PROVE  Destined(c)' = dev'[c] /\ (IsWrite(sending', c) => intact')
    <3>1. CASE c = d
      <4>1. IsWrite(sending', c)
        BY <2>1, <3>1, WriteOf
      <4> QED  BY <2>1, <3>1, <4>1 DEF Destined, TypeOK
    <3>2. CASE c # d
      <4>1. ~missed[c] /\ dev'[c] = dev[c]
        BY <2>2, <3>2 DEF Control, TypeOK
      <4>2. ~IsWrite(sending, c) /\ ~IsWrite(sending', c)
        BY <1>3, <2>1, <3>2, WriteOf, OnlyWritesWrite
      <4>3. Destined(c) = dev[c]
        BY <4>1 DEF CoilFollows
      <4> QED  BY <1>1, <4>1, <4>2, <4>3 DEF Destined
    <3> QED  BY <3>1, <3>2
  <2> QED  BY <2>2 DEF CoilFollows
<1> QED  BY <1>2, <1>3

(* Steps that leave the bus and the devices alone change nothing of it.     *)
LEMMA FollowsUnchanged ==
  ASSUME CoilFollows, UNCHANGED busVars, UNCHANGED dev
  PROVE  CoilFollows'
BY DEF CoilFollows, Destined, busVars, lineVars

(* Where the coils end up when a frame has been sent. *)
LEMMA TxDoneFollows ==
  ASSUME TypeOK, CoilFollows, TxDone
  PROVE  CoilFollows'
<1>1. ASSUME NEW d \in Devices, ~missed'[d]
      PROVE  Destined(d)' = dev'[d] /\ (IsWrite(sending', d) => intact')
  <2>1. ~missed[d] /\ ~(intact /\ IsWrite(request, d) /\ ~IsWrite(sending, d))
    BY <1>1 DEF TxDone, Line!Sent
  <2>2. Destined(d) = dev[d] /\ (IsWrite(sending, d) => intact)
    BY <2>1 DEF CoilFollows
  <2>3. ~IsWrite(sending', d) /\ UNCHANGED <<dev, coil>>
    BY OnlyWritesWrite DEF TxDone, Line!Sent
  <2>4. CASE intact
    <3>1. request' = sending
      BY <2>4 DEF TxDone, Line!Sent
    <3> QED  BY <2>1, <2>2, <2>3, <2>4, <3>1 DEF Destined
  <2>5. CASE ~intact
    <3>1. request' = request
      BY <2>5 DEF TxDone, Line!Sent
    <3> QED  BY <2>2, <2>3, <2>5, <3>1 DEF Destined
  <2> QED  BY <2>4, <2>5
<1> QED  BY <1>1 DEF CoilFollows

(* Where the coils end up when the slave executes a request. *)
LEMMA SlaveStartFollows ==
  ASSUME TypeOK, CoilFollows, SlaveStart
  PROVE  CoilFollows'
<1>1. ASSUME NEW d \in Devices, ~missed'[d]
      PROVE  Destined(d)' = dev'[d] /\ (IsWrite(sending', d) => intact')
  <2>1. ~missed[d] /\ ~IsWrite(sending, d)
    BY <1>1 DEF SlaveStart, Line!Answer
  <2>2. Destined(d) = dev[d]
    BY <2>1 DEF CoilFollows
  <2>3. sending' = sending /\ dev' = dev /\ request' = None
    BY DEF SlaveStart, Line!Answer
  <2>4. coil'[d] = IF IsWrite(request, d) THEN request.to ELSE coil[d]
    BY DEF SlaveStart, Line!Answer
  <2>5. ~IsWrite(request', d)
    BY <2>3, OnlyWritesWrite
  <2> QED  BY <2>1, <2>2, <2>3, <2>4, <2>5 DEF Destined
<1> QED  BY <1>1 DEF CoilFollows

(* Whatever order keys, messages, polls and answers come in, the coils end  *)
(* up as g_device says, refused and lost commands apart.                    *)
THEOREM CoilsFollow == Spec => []CoilFollows
<1>1. Init => CoilFollows
  BY OnlyWritesWrite DEF Init, Line!Init, CoilFollows, Destined
<1>2. TypeOK /\ CoilFollows /\ [Next]_vars => CoilFollows'
  <2> SUFFICES ASSUME TypeOK, CoilFollows, [Next]_vars PROVE CoilFollows'
    OBVIOUS
  <2>1. CASE UNCHANGED vars
    BY <2>1, FollowsUnchanged DEF vars
  <2>2. CASE Message
    <3>1. PICK m \in Messages : Execute(m)
      BY <2>2 DEF Message
    <3>2. m.id \in Devices /\ m.set[m.id] \in States
      BY <3>1, DevicesAssumption DEF Execute, Messages, Names, Devices
    <3> QED  BY <3>1, <3>2, ControlFollows DEF Execute
  <2>3. CASE MqttDone \/ UploadNotDue \/ KeyNotPressed \/ KeyDone \/ Press
    BY <2>3, FollowsUnchanged DEF MqttDone, UploadNotDue, KeyNotPressed, KeyDone, Press
  <2>4. CASE PollSlaves
    <3>1. CASE UNCHANGED busVars
      BY <2>4, <3>1, FollowsUnchanged DEF PollSlaves
    <3>2. CASE Line!Send(Poll) /\ UNCHANGED <<coil, missed>>
      BY <2>4, <3>2, OnlyWritesWrite
         DEF PollSlaves, Line!Send, Line!Free, CoilFollows, Destined
    <3> QED  BY <2>4, <3>1, <3>2 DEF PollSlaves
  <2>5. ASSUME NEW sent \in BOOLEAN, Upload(sent) PROVE CoilFollows'
    BY <2>5, FollowsUnchanged DEF Upload
  <2>6. CASE KeyPressed
    <3>1. at \in Devices
      BY <2>6 DEF KeyPressed, TypeOK, Devices
    <3>2. Opposite(dev[at]) \in States
      BY <3>1, OppositeType DEF TypeOK
    <3>3. dev' = [dev EXCEPT ![at] = Opposite(dev[at])] /\ dev'[at] = Opposite(dev[at])
      BY <2>6, <3>1 DEF KeyPressed, TypeOK
    <3>4. Control(at, Opposite(dev[at]))
      BY <2>6, <3>3 DEF KeyPressed
    <3> QED  BY <3>1, <3>2, <3>3, <3>4, ControlFollows
  <2>7. CASE TxDone
    BY <2>7, TxDoneFollows
  <2>8. CASE SlaveStart
    BY <2>8, SlaveStartFollows
  <2>9. CASE SlaveEnd \/ Noise
    BY <2>9 DEF SlaveEnd, Noise, Line!AnswerEnds, Line!Noise, CoilFollows, Destined
  <2> QED  BY <2>1, <2>2, <2>3, <2>4, <2>5, <2>6, <2>7, <2>8, <2>9 DEF Next, MainStep
<1> QED  BY <1>1, <1>2, TypeCorrect, PTL DEF Spec

=============================================================================
