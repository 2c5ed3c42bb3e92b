------------------------------- MODULE Station -------------------------------
(***************************************************************************)
(* The devices of the gateway: g_device, the coils on the RS485 bus and    *)
(* the state published for them.  The main loop takes control messages     *)
(* (mqtt_app.c), polls and publishes (sensor.c) and serves the key flags   *)
(* (control.c).  The bus is SharedLine, which Rs485 implements as long as  *)
(* no receiver error comes while a frame is being sent.                    *)
(***************************************************************************)
EXTENDS Integers

CONSTANTS N,     \* devices; a device is its id: lamp 0, fan 1, spray 2
          Poll,  \* a read request of RS485_Poll_Slaves
          None   \* no frame

ASSUME DevicesAssumption == N \in Nat \ {0} /\ Poll # None

Devices == 0 .. N - 1
States == {"on", "off"}
Opposite(s) == IF s = "on" THEN "off" ELSE "on"

(* A coil write names a device and a state. *)
Writes == [dev : Devices, to : States]

ASSUME FramesAssumption == Poll \notin Writes /\ None \notin Writes

Frames == Writes \cup {Poll}

VARIABLES
  pc,       \* part of the main loop: "mqtt", "poll", "status", "key"
  at,       \* device whose flag key_control tests next
  flags,    \* devices whose key flag is up
  dev,      \* g_device.lamp_state, .fun_state, .spray_state
  pub,      \* state of each device last published
  sending, intact, request, answering, stuck,  \* the line
  coil,     \* coils of the slave
  missed    \* the last command for this device was refused or lost

loopVars == <<pc, at>>
lineVars == <<sending, intact, request, answering, stuck>>
busVars  == <<lineVars, coil, missed>>
vars == <<loopVars, flags, dev, pub, busVars>>

Line == INSTANCE SharedLine

TypeOK ==
  /\ pc \in {"mqtt", "poll", "status", "key"} /\ at \in 0..N
  /\ flags \subseteq Devices
  /\ dev \in [Devices -> States] /\ pub \in [Devices -> States]
  /\ sending \in Frames \cup {None} /\ request \in Frames \cup {None}
  /\ intact \in BOOLEAN /\ answering \in BOOLEAN /\ stuck \in BOOLEAN
  /\ coil \in [Devices -> States] /\ missed \in [Devices -> BOOLEAN]

(* g_device is zero-initialised; the coils are taken to be off, too. *)
Init ==
  /\ pc = "mqtt" /\ at = 0 /\ flags = {}
  /\ dev = [d \in Devices |-> "off"] /\ pub = dev
  /\ Line!Init
  /\ coil = dev /\ missed = [d \in Devices |-> FALSE]

-----------------------------------------------------------------------------
(* Send_to_Slave_write and Send_to_Slave_read. *)

IsWrite(f, d) == f \in Writes /\ f.dev = d

(* Mutant: every device writes the lamp's register. *)
ControlLamp(d, s) ==
  /\ Line!Send([dev |-> 0, to |-> s]) \/ (~Line!Free /\ UNCHANGED lineVars)
  /\ missed' = [missed EXCEPT ![d] = (~Line!Free \/ answering)]
  /\ UNCHANGED coil

(* Control_lamp, Control_fun, Control_spray: whether the frame was taken is *)
(* not looked at.                                                           *)
Control(d, s) ==
  /\ Line!Send([dev |-> d, to |-> s]) \/ (~Line!Free /\ UNCHANGED lineVars)
  /\ missed' = [missed EXCEPT ![d] = (~Line!Free \/ answering)]
  /\ UNCHANGED coil

-----------------------------------------------------------------------------
(* mqtt_loop: control messages.  A message gives states to some of the      *)
(* names "lamp", "fun", "spray", "alarm" (here N) and has at most one "id", *)
(* which stands for the number cJSON makes of it.                           *)

NoId == -1
Names == 0..N
Messages == [set : [Names -> States \cup {"none"}], id : Names \cup {NoId}]

(* Parse_JSON_Command, its loop over the names as one step: without an id   *)
(* it returns at the first name with a state; with one, the passes for all  *)
(* other names change nothing, since no two devices have the same id.       *)
Execute(m) ==
  /\ m.id \in Devices /\ m.set[m.id] # "none"
  /\ dev' = [dev EXCEPT ![m.id] = m.set[m.id]]
  /\ Control(m.id, m.set[m.id])

(* messageArrived; a message that is not executed is echoed or ignored.     *)
(* More than the code can do: it prints for about 5 ms before the command,  *)
(* so that a frame sent for the message before is over by then.             *)
Message ==
  /\ pc = "mqtt" /\ \E m \in Messages : Execute(m)
  /\ UNCHANGED <<loopVars, flags, pub>>

MqttDone ==
  /\ pc = "mqtt" /\ pc' = "poll"
  /\ UNCHANGED <<at, flags, dev, pub, busVars>>

-----------------------------------------------------------------------------
(* Sensor_task.  Any pass may find a job due. *)

(* RS485_Poll_Slaves *)
PollSlaves ==
  /\ pc = "poll" /\ pc' = "status"
  /\ \/ Line!Send(Poll) /\ UNCHANGED <<coil, missed>>
     \/ UNCHANGED busVars
  /\ UNCHANGED <<at, flags, dev, pub>>

(* MQTTPublish fails while there is no session: sent is whether it does not. *)

(* Mutant: the document leaves out all but the lamp. *)
UploadLamp(sent) ==
  /\ pc = "status" /\ pc' = "key" /\ at' = 0
  /\ pub' = IF sent THEN [pub EXCEPT ![0] = dev[0]] ELSE pub
  /\ UNCHANGED <<flags, dev, busVars>>

(* Send_All_Device_Status *)
Upload(sent) ==
  /\ pc = "status" /\ pc' = "key" /\ at' = 0
  /\ pub' = IF sent THEN dev ELSE pub
  /\ UNCHANGED <<flags, dev, busVars>>

UploadNotDue ==
  /\ pc = "status" /\ pc' = "key" /\ at' = 0
  /\ UNCHANGED <<flags, dev, pub, busVars>>

-----------------------------------------------------------------------------
(* key_control. *)

KeyNotPressed ==
  /\ pc = "key" /\ at < N /\ at \notin flags
  /\ at' = at + 1
  /\ UNCHANGED <<pc, flags, dev, pub, busVars>>

(* Mutant: the coil is written before the state is toggled. *)
KeyWritesFirst ==
  /\ pc = "key" /\ at < N /\ at \in flags
  /\ at' = at + 1 /\ flags' = flags \ {at}
  /\ dev' = [dev EXCEPT ![at] = Opposite(@)]
  /\ Control(at, dev[at])
  /\ pub' \in {pub, [pub EXCEPT ![at] = dev'[at]]}
  /\ UNCHANGED pc

(* The flag is taken down, the device toggled, written and published. *)
KeyPressed ==
  /\ pc = "key" /\ at < N /\ at \in flags
  /\ at' = at + 1 /\ flags' = flags \ {at}
  /\ dev' = [dev EXCEPT ![at] = Opposite(@)]
  /\ Control(at, dev'[at])
  /\ pub' \in {pub, [pub EXCEPT ![at] = dev'[at]]}
  /\ UNCHANGED pc

(* Mutant: one test too many. *)
KeyDoneLate ==
  /\ pc = "key" /\ at >= N
  /\ IF at = N THEN at' = N + 1 /\ UNCHANGED pc ELSE pc' = "mqtt" /\ UNCHANGED at
  /\ UNCHANGED <<flags, dev, pub, busVars>>

KeyDone ==
  /\ pc = "key" /\ at = N /\ pc' = "mqtt"
  /\ UNCHANGED <<at, flags, dev, pub, busVars>>

MainStep == MqttDone \/ PollSlaves \/ UploadNotDue \/ KeyNotPressed \/ KeyPressed \/ KeyDone
              \/ \E sent \in BOOLEAN : Upload(sent)

-----------------------------------------------------------------------------
(* Interrupts, the bus and the slave. *)

(* TIM4 raises a flag. *)
Press ==
  /\ \E d \in Devices \ flags : flags' = flags \cup {d}
  /\ UNCHANGED <<loopVars, dev, pub, busVars>>

(* Transmit complete.  A request the slave had not begun to answer is lost. *)
TxDone ==
  /\ Line!Sent
  /\ missed' = [d \in Devices |->
                  missed[d] \/ (intact /\ IsWrite(request, d) /\ ~IsWrite(sending, d))]
  /\ UNCHANGED <<loopVars, flags, dev, pub, coil>>

(* The slave executes its request and answers, over any frame being sent.   *)
SlaveStart ==
  /\ Line!Answer
  /\ coil' = [d \in Devices |-> IF IsWrite(request, d) THEN request.to ELSE coil[d]]
  /\ missed' = [d \in Devices |-> missed[d] \/ IsWrite(sending, d)]
  /\ UNCHANGED <<loopVars, flags, dev, pub>>

SlaveEnd == Line!AnswerEnds /\ UNCHANGED <<loopVars, flags, dev, pub, coil, missed>>

(* A receiver error with no frame being sent. *)
Noise == Line!Noise /\ UNCHANGED <<loopVars, flags, dev, pub, coil, missed>>

-----------------------------------------------------------------------------
Next == Message \/ MainStep \/ Press \/ TxDone \/ SlaveStart \/ SlaveEnd \/ Noise

(* The main loop turns, a status falls due every two seconds and goes out   *)
(* whenever there is a session; a frame ends, the slave answers and stops.  *)
Fairness == WF_vars(MainStep) /\ SF_vars(Upload(TRUE))
              /\ WF_vars(TxDone) /\ WF_vars(SlaveStart) /\ WF_vars(SlaveEnd)

Spec == Init /\ [][Next]_vars
FairSpec == Spec /\ Fairness

-----------------------------------------------------------------------------
(* Where the coil of d is going to end up. *)
Destined(d) == IF IsWrite(sending, d) THEN sending.to
               ELSE IF IsWrite(request, d) THEN request.to
               ELSE coil[d]

(* Whatever order keys, messages, polls and answers come in, a coil ends up *)
(* as g_device says, unless the last command for it was refused on a busy   *)
(* line or lost in a collision: an older command never overtakes a newer.   *)
CoilFollows ==
  \A d \in Devices : ~missed[d] => Destined(d) = dev[d] /\ (IsWrite(sending, d) => intact)

(* A command that was taken reaches its coil or is overtaken by a miss.     *)
CommandSettles ==
  \A d \in Devices : coil[d] # dev[d] ~> (coil[d] = dev[d] \/ missed[d])

(* A state published that no longer holds is put right, however it changed. *)
PublishedInTheEnd == \A d \in Devices : pub[d] # dev[d] ~> pub[d] = dev[d]
=============================================================================
