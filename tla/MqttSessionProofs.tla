-------------------------- MODULE MqttSessionProofs --------------------------
(***************************************************************************)
(* MqttSession, for buffers of any size, any number of control messages    *)
(* and any number of faults of any kind: what the session promises.        *)
(***************************************************************************)
EXTENDS MqttSession, TLAPS

PUBLICATION == Packet("PUBLISH", 0)
PING == Packet("PINGREQ", 0)

(* TypeOK in two parts, since the provers keep numbers and flags apart. *)
Data ==
  /\ pc \in Steps
  /\ handlers \in 0..5
  /\ due \subseteq {"ping", "command", "retry"}
  /\ chip \in {"up", "low", "high"}
  /\ sr \in {"CLOSED", "INIT", "SYNSENT", "ESTABLISHED", "CLOSE_WAIT"}
  /\ rx \in Seq(Packets) /\ Len(rx) <= MaxRx
  /\ tx \in Seq(Packets) /\ Len(tx) <= MaxTx
  /\ broker \in {"down", "tcp", "refused", "session", "subscribed"}
  /\ published \in 0..MaxPub /\ lastRun \in 0..MaxPub /\ runs \in Nat
  /\ faults \in 0..MaxFaults
Flags == connected \in BOOLEAN /\ pingOut \in BOOLEAN /\ sip \in BOOLEAN /\ link \in BOOLEAN

(* The two parts are TypeOK. *)
LEMMA TypeParts == TypeOK <=> Data /\ Flags
BY DEF TypeOK, Data, Flags, Open, MAX_MESSAGE_HANDLERS

(***************************************************************************)
(* Control messages in the receive buffer are in the order the broker      *)
(* forwarded them, all of them younger than the one handled last.          *)
(***************************************************************************)
Younger(q, n) == \A i \in 1..Len(q) : q[i].type = "PUBLISH" => n < q[i].n
RxOrdered ==
  /\ lastRun <= published /\ Younger(rx, lastRun)
  /\ \A i \in 1..Len(rx) : rx[i].type = "PUBLISH" => rx[i].n <= published
  /\ \A i, j \in 1..Len(rx) :
       i < j /\ rx[i].type = "PUBLISH" /\ rx[j].type = "PUBLISH" => rx[i].n < rx[j].n

-----------------------------------------------------------------------------
(* Packets and buffers. *)

(* The bounds are natural numbers. *)
LEMMA Bounds == MaxRx \in Nat /\ MaxTx \in Nat /\ MaxPub \in Nat /\ MaxFaults \in Nat
                /\ MaxRx > 0 /\ MaxTx > 0
BY BoundsAssumption

(* A packet is what it is made of. *)
LEMMA PacketType ==
  ASSUME NEW t \in PacketTypes, NEW n \in Nat
  PROVE  Packet(t, n) \in Packets /\ Packet(t, n).type = t /\ Packet(t, n).n = n
BY DEF Packet, Packets

(* Nothing to read is no packet of any type. *)
LEMMA NothingType == Nothing \in Packets /\ Nothing.type = "none"
BY DEF Nothing, Packet, Packets

(* A packet appended comes last. *)
LEMMA AppendProps ==
  ASSUME NEW q \in Seq(Packets), NEW p \in Packets
  PROVE  /\ Append(q, p) \in Seq(Packets) /\ Len(Append(q, p)) = Len(q) + 1
         /\ Append(q, p)[Len(q) + 1] = p
         /\ \A i \in 1..Len(q) : Append(q, p)[i] = q[i]
OBVIOUS

(* Taking the first packet moves the others up. *)
LEMMA TailProps ==
  ASSUME NEW q \in Seq(Packets), q # <<>>
  PROVE  /\ Len(q) \in Nat /\ Len(q) > 0 /\ Head(q) \in Packets /\ Head(q) = q[1]
         /\ Tail(q) \in Seq(Packets) /\ Len(Tail(q)) = Len(q) - 1
         /\ \A i \in 1..Len(Tail(q)) : Tail(q)[i] = q[i + 1]
OBVIOUS

(* An empty buffer. *)
LEMMA EmptyProps == <<>> \in Seq(Packets) /\ Len(<<>>) = 0
OBVIOUS

(* sendPacket appends the packet, if there is room, or leaves the buffer.   *)
LEMMA SendsOutcome ==
  ASSUME NEW q, NEW p, NEW s \in Sends(q, p)
  PROVE  \/ s.ok = TRUE /\ s.buf = Append(q, p) /\ Len(q) < MaxTx /\ sr \in Open
         \/ s.ok = FALSE /\ s.buf = q
BY DEF Sends, Writable

(* Restarting a timer lets none run out. *)
LEMMA RestartSubset ==
  ASSUME NEW timers, NEW ok
  PROVE  Restart(timers, ok) \subseteq timers
BY DEF Restart

(* What a pass of cycle() may do: run the handler, echo a message of the    *)
(* broker on a connected session, then ping if no ping is outstanding.      *)
LEMMA CycleEffect ==
  ASSUME NEW p, Cycle(p)
  PROVE  /\ runs' = runs + (IF p.type = "PUBLISH" THEN handlers ELSE 0)
         /\ lastRun' = IF p.type = "PUBLISH" /\ handlers > 0 THEN p.n ELSE lastRun
         /\ due' \subseteq due
         /\ \E e : /\ \/ e = tx
                      \/ e = Append(tx, PUBLICATION) /\ Len(tx) < MaxTx /\ connected
                   /\ \/ /\ tx' = Append(e, PING) /\ Len(e) < MaxTx
                         /\ pingOut' = TRUE /\ ~(p.type # "PINGRESP" /\ pingOut)
                      \/ tx' = e /\ pingOut' = (p.type # "PINGRESP" /\ pingOut)
<1> DEFINE calls == Deliveries(p)
           echoes == IF calls > 0 THEN MessageArrived(p) ELSE {[buf |-> tx, ok |-> FALSE]}
           waiting == p.type # "PINGRESP" /\ pingOut
<1>1. /\ runs' = runs + calls /\ lastRun' = (IF calls > 0 THEN p.n ELSE lastRun)
      /\ \E echo \in echoes : Keepalive(echo.buf, Restart(due, echo.ok), waiting)
  BY DEF Cycle
<1>2. calls = IF p.type = "PUBLISH" THEN handlers ELSE 0
  BY DEF Deliveries
<1>3. PICK echo \in echoes : Keepalive(echo.buf, Restart(due, echo.ok), waiting)
  BY <1>1
<1>4. \/ echo.buf = tx
      \/ echo.buf = Append(tx, PUBLICATION) /\ Len(tx) < MaxTx /\ connected
  <2>1. CASE echo \in Sends(tx, PUBLICATION) /\ connected
    BY <2>1, SendsOutcome
  <2>2. CASE echo = [buf |-> tx, ok |-> FALSE]
    BY <2>2
  <2> QED  BY <2>1, <2>2 DEF MessageArrived, PUBLICATION
<1>5. Restart(due, echo.ok) \subseteq due
  BY RestartSubset
<1> DEFINE e == echo.buf
           timers == Restart(due, echo.ok)
<1>6. \/ /\ tx' = Append(e, PING) /\ Len(e) < MaxTx
         /\ pingOut' = TRUE /\ ~waiting /\ due' \subseteq timers
      \/ tx' = e /\ pingOut' = waiting /\ due' \subseteq timers
  <2> HIDE DEF e, timers, waiting, calls, echoes
  <2>1. waiting \in BOOLEAN
    BY DEF waiting
  <2>2. Keepalive(e, timers, waiting)
    BY <1>3 DEF e, timers
  <2>3. CASE "ping" \in timers /\ ~waiting
    <3>1. PICK s \in Sends(e, PING) :
            tx' = s.buf /\ pingOut' = s.ok /\ due' = Restart(timers, s.ok)
      BY <2>2, <2>3 DEF Keepalive, PING
    <3>2. due' \subseteq timers
      BY <3>1, RestartSubset
    <3>3. CASE s.ok = TRUE /\ s.buf = Append(e, PING) /\ Len(e) < MaxTx
      BY <2>3, <3>1, <3>2, <3>3
    <3>4. CASE s.ok = FALSE /\ s.buf = e
      BY <2>1, <2>3, <3>1, <3>2, <3>4
    <3> QED  BY <3>3, <3>4, SendsOutcome
  <2>4. CASE ~("ping" \in timers /\ ~waiting)
    BY <2>2, <2>4 DEF Keepalive
  <2> QED  BY <2>3, <2>4
<1> QED
  <2>1. due' \subseteq due
    BY <1>5, <1>6
  <2>2. /\ runs' = runs + (IF p.type = "PUBLISH" THEN handlers ELSE 0)
        /\ lastRun' = IF p.type = "PUBLISH" /\ handlers > 0 THEN p.n ELSE lastRun
    BY <1>1, <1>2
  <2>3. \E x : /\ \/ x = tx
                  \/ x = Append(tx, PUBLICATION) /\ Len(tx) < MaxTx /\ connected
               /\ \/ /\ tx' = Append(x, PING) /\ Len(x) < MaxTx
                     /\ pingOut' = TRUE /\ ~(p.type # "PINGRESP" /\ pingOut)
                  \/ tx' = x /\ pingOut' = (p.type # "PINGRESP" /\ pingOut)
    BY <1>4, <1>6
  <2> QED  BY <2>1, <2>2, <2>3
-----------------------------------------------------------------------------
(* Types, with the order of the messages that lastRun is taken from. *)

(* The first packet of the receive buffer. *)
LEMMA HeadInOrder ==
  ASSUME Data, RxOrdered, rx # <<>>
  PROVE  /\ Head(rx) \in Packets /\ Tail(rx) \in Seq(Packets) /\ Len(Tail(rx)) <= MaxRx
         /\ Head(rx).type = "PUBLISH" => lastRun < Head(rx).n /\ Head(rx).n <= published
<1>1. rx \in Seq(Packets) /\ Len(rx) <= MaxRx
  BY DEF Data
<1>2. Len(rx) > 0 /\ Head(rx) = rx[1] /\ Len(rx) \in Nat
  BY <1>1, TailProps
<1>3. Head(rx).type = "PUBLISH" => lastRun < Head(rx).n /\ Head(rx).n <= published
  BY <1>2 DEF RxOrdered, Younger
<1> QED  BY <1>1, <1>2, <1>3, TailProps, Bounds

(* A buffer left alone or emptied is within its bound. *)
LEMMA Emptied ==
  ASSUME NEW q \in Seq(Packets), NEW m \in Nat, Len(q) <= m, NEW r, r = q \/ r = <<>>
  PROVE  r \in Seq(Packets) /\ Len(r) <= m
<1>1. CASE r = q
  BY <1>1
<1>2. CASE r = <<>>
  BY <1>2
<1> QED  BY <1>1, <1>2

(* So is one with room to which a packet is added. *)
LEMMA RoomForOne ==
  ASSUME NEW q \in Seq(Packets), NEW p \in Packets, NEW m \in Nat, Len(q) < m
  PROVE  Append(q, p) \in Seq(Packets) /\ Len(Append(q, p)) <= m
BY AppendProps

(* And the transmit buffer after sendPacket. *)
LEMMA SendsType ==
  ASSUME NEW q \in Seq(Packets), Len(q) <= MaxTx, NEW p \in Packets, NEW s \in Sends(q, p)
  PROVE  s.buf \in Seq(Packets) /\ Len(s.buf) <= MaxTx
<1>1. CASE s.buf = q
  BY <1>1
<1>2. CASE s.buf = Append(q, p) /\ Len(q) < MaxTx
  BY <1>2, RoomForOne, Bounds
<1> QED  BY <1>1, <1>2, SendsOutcome

(* What the client sends by itself are packets. *)
LEMMA OwnPackets == PUBLICATION \in Packets /\ PING \in Packets
BY PacketType DEF PUBLICATION, PING, PacketTypes

(* A pass of cycle() keeps the types. *)
LEMMA CycleType ==
  ASSUME Data, NEW p \in Packets, Cycle(p),
         p.type = "PUBLISH" => lastRun < p.n /\ p.n <= published
  PROVE  /\ tx' \in Seq(Packets) /\ Len(tx') <= MaxTx
         /\ due' \subseteq {"ping", "command", "retry"}
         /\ lastRun' \in 0..MaxPub /\ runs' \in Nat
<1>1. PICK e :
        /\ e = tx \/ (e = Append(tx, PUBLICATION) /\ Len(tx) < MaxTx)
        /\ (tx' = Append(e, PING) /\ Len(e) < MaxTx) \/ tx' = e
  BY CycleEffect
<1>2. e \in Seq(Packets) /\ Len(e) <= MaxTx
  BY <1>1, RoomForOne, OwnPackets, Bounds DEF Data
<1>3. tx' \in Seq(Packets) /\ Len(tx') <= MaxTx
  BY <1>1, <1>2, RoomForOne, OwnPackets, Bounds
<1>4. due' \subseteq {"ping", "command", "retry"}
  BY CycleEffect DEF Data
<1>5. lastRun' \in 0..MaxPub
  <2>1. lastRun' = lastRun \/ (p.type = "PUBLISH" /\ lastRun' = p.n)
    BY CycleEffect
  <2>2. p.n \in Nat
    BY DEF Packets
  <2> QED  BY <2>1, <2>2, Bounds DEF Data
<1>6. runs' \in Nat
  <2>1. runs' = runs + handlers \/ runs' = runs + 0
    BY CycleEffect
  <2> QED  BY <2>1 DEF Data
<1> QED  BY <1>3, <1>4, <1>5, <1>6

(* A step of the client that neither sends nor receives. *)
Quiet ==
  TcpSip \/ TcpClosed \/ TcpOpened \/ TcpWait \/ TcpSent \/ TcpEstablished
    \/ ClientInit \/ MqttLoop \/ CheckVersion \/ AppDone

(* It keeps the types. *)
LEMMA QuietData == Data /\ Quiet => Data'
<1> SUFFICES ASSUME Data, Quiet PROVE Data'
  OBVIOUS
<1> USE DEF clientVars, chipVars, netVars, appVars
<1>1. UNCHANGED <<chip, sip, sr, rx, tx, netVars, appVars, faults>>
  BY DEF Quiet, TcpSip, TcpClosed, TcpOpened, TcpWait, TcpSent, TcpEstablished, ClientInit,
         MqttLoop, CheckVersion, AppDone
<1>2. due' \subseteq due
  BY DEF Quiet, TcpSip, TcpClosed, TcpOpened, TcpWait, TcpSent, TcpEstablished, ClientInit,
         MqttLoop, CheckVersion, AppDone
<1>3. pc' \in Steps
  BY DEF Quiet, TcpSip, TcpClosed, TcpOpened, TcpWait, TcpSent, TcpEstablished, ClientInit,
         MqttLoop, CheckVersion, AppDone, Steps
<1>4. handlers' \in {0, handlers}
  BY DEF Quiet, TcpSip, TcpClosed, TcpOpened, TcpWait, TcpSent, TcpEstablished, ClientInit,
         MqttLoop, CheckVersion, AppDone
<1> QED  BY <1>1, <1>2, <1>3, <1>4 DEF Data

(* So do the requests that are answered. *)
LEMMA SendRequestData ==
  ASSUME Data, NEW type \in PacketTypes, NEW onSent \in Steps, SendRequest(type, onSent)
  PROVE  Data'
<1> USE DEF clientVars, chipVars, netVars, appVars
<1>1. PICK s \in Sends(tx, Packet(type, 0)) :
        /\ tx' = s.buf /\ due' = Restart(due \ {"command"}, s.ok)
        /\ pc' = IF s.ok THEN onSent ELSE "app"
  BY DEF SendRequest
<1>2. tx' \in Seq(Packets) /\ Len(tx') <= MaxTx
  <2>1. Packet(type, 0) \in Packets
    BY PacketType
  <2> QED  BY <1>1, <2>1, SendsType DEF Data
<1>3. due' \subseteq {"ping", "command", "retry"}
  BY <1>1, RestartSubset DEF Data
<1>4. pc' \in Steps
  BY <1>1 DEF Steps
<1>5. UNCHANGED <<handlers, chip, sr, rx, broker, published, lastRun, runs, faults>>
  BY DEF SendRequest
<1> QED  BY <1>2, <1>3, <1>4, <1>5 DEF Data

(* So does every step of the program. *)
LEMMA MainStepData == Data /\ RxOrdered /\ MainStep => Data'
<1> SUFFICES ASSUME Data, RxOrdered, MainStep PROVE Data'
  OBVIOUS
<1> USE DEF clientVars, chipVars, netVars, appVars
<1>1. CASE Quiet
  BY <1>1, QuietData
<1>2. CASE TcpClose \/ TcpOpen
  <2>1. UNCHANGED <<handlers, due, chip, published, lastRun, runs, faults>>
    BY <1>2 DEF TcpClose, TcpOpen
  <2>2. pc' \in Steps /\ sr' \in {sr, "CLOSED", "INIT"} /\ broker' \in {broker, "down"}
    BY <1>2 DEF TcpClose, TcpOpen, Steps
  <2>3. rx' \in {rx, <<>>} /\ tx' \in {tx, <<>>}
    BY <1>2 DEF TcpClose, TcpOpen
  <2>4. /\ rx' \in Seq(Packets) /\ Len(rx') <= MaxRx
        /\ tx' \in Seq(Packets) /\ Len(tx') <= MaxTx
    BY <2>3, Emptied, Bounds DEF Data
  <2> QED  BY <2>1, <2>2, <2>4 DEF Data
<1>3. CASE TcpConnect
  BY <1>3 DEF TcpConnect, Data, Steps
<1>4. CASE MQTTConnect \/ MQTTSubscribe
  BY <1>4, SendRequestData DEF MQTTConnect, MQTTSubscribe, PacketTypes, Steps
<1>5. CASE AwaitConnack \/ AwaitSuback
  <2>1. UNCHANGED <<chip, sr, broker, published, faults>>
    BY <1>5 DEF AwaitConnack, AwaitSuback
  <2>2. pc' \in Steps /\ handlers' \in 0..5
    BY <1>5 DEF AwaitConnack, AwaitSuback, Steps, Data, MAX_MESSAGE_HANDLERS
  <2>3. CASE rx # <<>> /\ rx' = Tail(rx) /\ Cycle(Head(rx))
    BY <2>1, <2>2, <2>3, HeadInOrder, CycleType DEF Data
  <2>4. CASE UNCHANGED <<due, rx, tx, lastRun, runs>>
    BY <2>1, <2>2, <2>4 DEF Data
  <2> QED  BY <1>5, <2>3, <2>4 DEF AwaitConnack, AwaitSuback, Readable
<1>6. CASE MQTTYield
  <2>1. UNCHANGED <<handlers, chip, sr, broker, published, faults>> /\ pc' = "version"
    BY <1>6 DEF MQTTYield
  <2>2. CASE rx # <<>> /\ rx' = Tail(rx) /\ Cycle(Head(rx))
    BY <2>1, <2>2, HeadInOrder, CycleType DEF Data, Steps
  <2>3. CASE rx' = rx /\ Cycle(Nothing)
    BY <2>1, <2>3, NothingType, CycleType DEF Data, Steps
  <2> QED  BY <1>6, <2>2, <2>3 DEF MQTTYield, Readable
<1>7. CASE AppPublish
  <2>1. PICK s \in Sends(tx, PUBLICATION) : tx' = s.buf /\ due' = Restart(due, s.ok)
    BY <1>7 DEF AppPublish, PUBLICATION
  <2>2. tx' \in Seq(Packets) /\ Len(tx') <= MaxTx
    BY <2>1, SendsType, OwnPackets DEF Data
  <2>3. due' \subseteq {"ping", "command", "retry"}
    BY <2>1, RestartSubset DEF Data
  <2>4. UNCHANGED <<pc, handlers, chip, sr, rx, broker, published, lastRun, runs, faults>>
    BY <1>7 DEF AppPublish
  <2> QED  BY <2>2, <2>3, <2>4 DEF Data
<1> QED
  BY <1>1, <1>2, <1>3, <1>4, <1>5, <1>6, <1>7 DEF MainStep, TcpSteps, Quiet

(* So do the timers. *)
LEMMA TimersData == Data /\ Timers => Data'
<1> USE DEF clientVars, chipVars, netVars, appVars
<1>1. Data /\ (ExpireCommand \/ ExpirePing \/ ExpireRetry) => Data'
  BY DEF ExpireCommand, ExpirePing, ExpireRetry, Data
<1>2. Data /\ AnswerLate => Data'
  BY Bounds DEF AnswerLate, Fault, Data
<1> QED  BY <1>1, <1>2 DEF Timers

(* The broker takes the first packet, answers it or drops the connection.   *)
LEMMA BrokerReadsEffect ==
  ASSUME Data, BrokerReads
  PROVE  /\ tx # <<>> /\ Len(rx) < MaxRx /\ broker # "down"
         /\ \/ /\ tx' = Tail(tx) /\ UNCHANGED sr
               /\ \/ /\ Head(tx).type = "CONNECT" /\ broker = "tcp" /\ broker' = "session"
                     /\ rx' = Append(rx, Packet("CONNACK", 0)) /\ UNCHANGED faults
                  \/ /\ Head(tx).type = "CONNECT" /\ broker = "tcp" /\ broker' = "refused"
                     /\ rx' = Append(rx, Packet("CONNACK", REFUSED)) /\ Fault("refuse")
                  \/ /\ Head(tx).type = "SUBSCRIBE" /\ broker \in {"session", "subscribed"}
                     /\ broker' = "subscribed"
                     /\ rx' = Append(rx, Packet("SUBACK", 0)) /\ UNCHANGED faults
                  \/ /\ Head(tx).type = "SUBSCRIBE" /\ broker \in {"session", "subscribed"}
                     /\ broker' = broker
                     /\ rx' = Append(rx, Packet("SUBACK", SUBFAIL)) /\ Fault("refuse")
                  \/ /\ Head(tx).type = "PINGREQ" /\ broker \in {"session", "subscribed"}
                     /\ broker' = broker
                     /\ rx' = Append(rx, Packet("PINGRESP", 0)) /\ UNCHANGED faults
                  \/ /\ Head(tx).type = "PUBLISH" /\ broker \in {"session", "subscribed"}
                     /\ UNCHANGED <<rx, broker, faults>>
            \/ /\ tx' = <<>> /\ sr' = "CLOSE_WAIT" /\ broker' = "down"
               /\ UNCHANGED <<rx, faults>>
         /\ UNCHANGED <<pc, clientVars, due, chip, sip, link, published, appVars>>
BY DEF BrokerReads

(* The number of faults is bounded. *)
LEMMA FaultCount ==
  ASSUME Data, UNCHANGED faults \/ \E kind : Fault(kind)
  PROVE  faults' \in 0..MaxFaults
BY Bounds DEF Fault, Data

(* So does the environment. *)
LEMMA EnvironmentData == Data /\ Environment => Data'
<1> SUFFICES ASSUME Data, Environment PROVE Data'
  OBVIOUS
<1> USE DEF clientVars, chipVars, netVars, appVars
<1>1. CASE SpiLost \/ SpiBack \/ LinkLost \/ LinkBack
  <2>1. UNCHANGED <<pc, handlers, due, sr, rx, tx, published, lastRun, runs>>
    BY <1>1 DEF SpiLost, SpiBack, LinkLost, LinkBack
  <2>2. chip' \in {chip, "up", "low", "high"} /\ broker' \in {broker, "down"}
    BY <1>1 DEF SpiLost, SpiBack, LinkLost, LinkBack
  <2>3. UNCHANGED faults \/ Fault("spi") \/ Fault("vanish")
    BY <1>1 DEF SpiLost, SpiBack, LinkLost, LinkBack
  <2>4. faults' \in 0..MaxFaults
    BY <2>3, FaultCount
  <2> QED  BY <2>1, <2>2, <2>4 DEF Data
<1>2. CASE ChipReset \/ TcpLost \/ BrokerCloses
  <2>1. UNCHANGED <<pc, handlers, due, chip, published, lastRun, runs>>
    BY <1>2 DEF ChipReset, TcpLost, BrokerCloses
  <2>2. /\ sr' \in {"CLOSED", "CLOSE_WAIT"} /\ broker' = "down"
        /\ rx' \in {rx, <<>>} /\ tx' = <<>>
    BY <1>2 DEF ChipReset, TcpLost, BrokerCloses
  <2>3. UNCHANGED faults \/ Fault("reset") \/ Fault("close") \/ Fault("earlyclose")
    BY <1>2 DEF ChipReset, TcpLost, BrokerCloses
  <2>4. faults' \in 0..MaxFaults
    BY <2>3, FaultCount
  <2>5. /\ rx' \in Seq(Packets) /\ Len(rx') <= MaxRx
        /\ tx' \in Seq(Packets) /\ Len(tx') <= MaxTx
    BY <2>2, Emptied, Bounds DEF Data
  <2> QED  BY <2>1, <2>2, <2>4, <2>5 DEF Data
<1>3. CASE TcpAccepted \/ TcpRefused
  <2>1. UNCHANGED <<pc, handlers, due, chip, rx, tx, published, lastRun, runs>>
    BY <1>3 DEF TcpAccepted, TcpRefused
  <2>2. sr' \in {"ESTABLISHED", "CLOSED"} /\ broker' \in {broker, "tcp"}
    BY <1>3 DEF TcpAccepted, TcpRefused
  <2>3. UNCHANGED faults \/ Fault("refuse")
    BY <1>3 DEF TcpAccepted, TcpRefused
  <2>4. faults' \in 0..MaxFaults
    BY <2>3, FaultCount
  <2> QED  BY <2>1, <2>2, <2>4 DEF Data
<1>4. CASE BrokerReads
  <2>1. tx # <<>> /\ Len(rx) < MaxRx
    BY <1>4, BrokerReadsEffect
  <2>2. UNCHANGED <<pc, handlers, due, chip, published, lastRun, runs>>
    BY <1>4, BrokerReadsEffect
  <2>3. tx' \in {<<>>, Tail(tx)}
    BY <1>4, BrokerReadsEffect
  <2>4. tx' \in Seq(Packets) /\ Len(tx') <= MaxTx
    <3>1. CASE tx' = <<>>
      BY <3>1, EmptyProps, Bounds
    <3>2. CASE tx' = Tail(tx)
      BY <2>1, <3>2, TailProps, Bounds DEF Data
    <3> QED  BY <2>3, <3>1, <3>2
  <2>5. /\ sr' \in {sr, "CLOSE_WAIT"}
        /\ broker' \in {broker, "session", "refused", "subscribed", "down"}
        /\ UNCHANGED faults \/ Fault("refuse")
    BY <1>4, BrokerReadsEffect
  <2>6. rx' = rx \/ \E p \in Packets : rx' = Append(rx, p)
    <3>1. /\ Packet("CONNACK", 0) \in Packets /\ Packet("CONNACK", REFUSED) \in Packets
          /\ Packet("SUBACK", 0) \in Packets /\ Packet("SUBACK", SUBFAIL) \in Packets
          /\ Packet("PINGRESP", 0) \in Packets
      BY PacketType DEF PacketTypes, REFUSED, SUBFAIL
    <3> QED  BY <1>4, <3>1, BrokerReadsEffect
  <2>7. rx' \in Seq(Packets) /\ Len(rx') <= MaxRx
    BY <2>1, <2>6, RoomForOne, Bounds DEF Data
  <2>8. faults' \in 0..MaxFaults
    BY <2>5, FaultCount
  <2> QED  BY <2>2, <2>4, <2>5, <2>7, <2>8 DEF Data
<1>5. CASE BrokerPublishes
  <2>1. /\ published < MaxPub /\ Len(rx) < MaxRx /\ published' = published + 1
        /\ rx' = Append(rx, Packet("PUBLISH", published + 1))
        /\ UNCHANGED <<pc, handlers, due, chip, sr, tx, broker, lastRun, runs, faults>>
    BY <1>5 DEF BrokerPublishes
  <2>2. Packet("PUBLISH", published + 1) \in Packets
    BY PacketType DEF PacketTypes, Data
  <2>3. rx' \in Seq(Packets) /\ Len(rx') <= MaxRx
    BY <2>1, <2>2, RoomForOne, Bounds DEF Data
  <2> QED  BY <2>1, <2>3, Bounds DEF Data
<1> QED
  BY <1>1, <1>2, <1>3, <1>4, <1>5 DEF Environment

(* The flags stay flags. *)
LEMMA FlagsStep == Flags /\ [Next]_vars => Flags'
<1> SUFFICES ASSUME Flags, [Next]_vars PROVE Flags'
  OBVIOUS
<1> USE DEF clientVars, chipVars, netVars, appVars
<1>1. sip' \in BOOLEAN /\ link' \in BOOLEAN
  <2>1. sip' \in {sip, FALSE} /\ link' \in {link, TRUE, FALSE}
    BY DEF Next, MainStep, Timers, Environment, TcpSteps, TcpSip, TcpClose, TcpClosed, TcpOpen,
           TcpOpened, TcpWait, TcpConnect, TcpSent, TcpEstablished, ClientInit, MQTTConnect,
           AwaitConnack, MQTTSubscribe, AwaitSuback, SendRequest, MqttLoop, MQTTYield,
           CheckVersion, AppPublish, AppDone, ExpireCommand, AnswerLate, ExpirePing,
           ExpireRetry, SpiLost, SpiBack, ChipReset, LinkLost, LinkBack, TcpLost, TcpAccepted,
           TcpRefused, BrokerReads, BrokerPublishes, BrokerCloses, vars
  <2> QED  BY <2>1 DEF Flags
<1>2. connected' \in BOOLEAN
  <2>1. CASE AwaitConnack
    BY <2>1 DEF AwaitConnack, Flags
  <2>2. CASE CheckVersion
    BY <2>2 DEF CheckVersion
  <2>3. CASE connected' \in {connected, FALSE}
    BY <2>3 DEF Flags
  <2> QED
    BY <2>1, <2>2, <2>3
       DEF Next, MainStep, Timers, Environment, TcpSteps, TcpSip, TcpClose, TcpClosed, TcpOpen,
           TcpOpened, TcpWait, TcpConnect, TcpSent, TcpEstablished, ClientInit, MQTTConnect,
           MQTTSubscribe, AwaitSuback, SendRequest, MqttLoop, MQTTYield,
           AppPublish, AppDone, ExpireCommand, AnswerLate, ExpirePing,
           ExpireRetry, SpiLost, SpiBack, ChipReset, LinkLost, LinkBack, TcpLost, TcpAccepted,
           TcpRefused, BrokerReads, BrokerPublishes, BrokerCloses, vars
<1>3. pingOut' \in BOOLEAN
  <2>1. ASSUME NEW p, Cycle(p) PROVE pingOut' \in BOOLEAN
    BY <2>1, CycleEffect DEF Flags
  <2>2. CASE AwaitConnack \/ AwaitSuback \/ MQTTYield
    BY <2>1, <2>2 DEF AwaitConnack, AwaitSuback, MQTTYield, Flags
  <2>3. CASE pingOut' \in {pingOut, FALSE}
    BY <2>3 DEF Flags
  <2> QED
    BY <2>2, <2>3
       DEF Next, MainStep, Timers, Environment, TcpSteps, TcpSip, TcpClose, TcpClosed, TcpOpen,
           TcpOpened, TcpWait, TcpConnect, TcpSent, TcpEstablished, ClientInit, MQTTConnect,
           MQTTSubscribe, SendRequest, MqttLoop,
           CheckVersion, AppPublish, AppDone, ExpireCommand, AnswerLate, ExpirePing,
           ExpireRetry, SpiLost, SpiBack, ChipReset, LinkLost, LinkBack, TcpLost, TcpAccepted,
           TcpRefused, BrokerReads, BrokerPublishes, BrokerCloses, vars
<1> QED  BY <1>1, <1>2, <1>3 DEF Flags

(***************************************************************************)
(* What the steps do to the receive buffer, the handler and the broker's   *)
(* count, on which the order of the control messages rests.                *)
(***************************************************************************)
orderVars == <<rx, lastRun, published, runs>>

(* The client reads packet p and handles it. *)
Reads(p) == /\ runs' = runs + (IF p.type = "PUBLISH" THEN handlers ELSE 0)
            /\ lastRun' = IF p.type = "PUBLISH" /\ handlers > 0 THEN p.n ELSE lastRun
            /\ UNCHANGED published

(* The steps that call cycle() read a packet or none. *)
LEMMA ReadingSteps ==
  ASSUME Data, AwaitConnack \/ AwaitSuback \/ MQTTYield
  PROVE  \/ rx # <<>> /\ rx' = Tail(rx) /\ Reads(Head(rx))
         \/ UNCHANGED orderVars
<1>1. ASSUME NEW p, Cycle(p), UNCHANGED published PROVE Reads(p)
  BY <1>1, CycleEffect DEF Reads
<1>2. CASE AwaitConnack \/ AwaitSuback
  BY <1>1, <1>2 DEF AwaitConnack, AwaitSuback, Readable, netVars, appVars, orderVars
<1>3. CASE MQTTYield
  <2>1. CASE Readable
    BY <1>1, <1>3, <2>1 DEF MQTTYield, Readable, netVars
  <2>2. CASE ~Readable
    <3>1. rx' = rx /\ Cycle(Nothing) /\ UNCHANGED published
      BY <1>3, <2>2 DEF MQTTYield, netVars
    <3>2. UNCHANGED lastRun /\ runs' = runs + 0
      BY <3>1, NothingType, CycleEffect
    <3>3. UNCHANGED <<rx, lastRun, published>>
      BY <3>1, <3>2
    <3> QED  BY <3>2, <3>3 DEF orderVars, Data
  <2> QED  BY <2>1, <2>2
<1> QED  BY <1>2, <1>3

(* Every step leaves the order alone, empties the buffer, reads its first packet or adds one. *)
LEMMA OrderSteps ==
  ASSUME Data, [Next]_vars
  PROVE  \/ UNCHANGED orderVars
         \/ rx' = <<>> /\ UNCHANGED <<lastRun, published, runs>>
         \/ /\ rx # <<>> /\ rx' = Tail(rx) /\ Reads(Head(rx))
            /\ AwaitConnack \/ AwaitSuback \/ MQTTYield
         \/ /\ rx' = Append(rx, Packet("PUBLISH", published + 1))
            /\ published' = published + 1 /\ UNCHANGED <<lastRun, runs>>
         \/ /\ \E p \in Packets : rx' = Append(rx, p) /\ p.type # "PUBLISH"
            /\ UNCHANGED <<lastRun, published, runs>>
<1> USE DEF clientVars, chipVars, netVars, appVars, orderVars
<1>1. CASE AwaitConnack \/ AwaitSuback \/ MQTTYield
  BY <1>1, ReadingSteps
<1>2. CASE BrokerReads
  <2>1. \A t \in PacketTypes, n \in Nat : Packet(t, n) \in Packets /\ Packet(t, n).type = t
    BY PacketType
  <2>2. /\ {"CONNACK", "SUBACK", "PINGRESP"} \subseteq PacketTypes
        /\ {0, REFUSED, SUBFAIL} \subseteq Nat
    BY DEF PacketTypes, REFUSED, SUBFAIL
  <2>3. \/ UNCHANGED rx
        \/ \E t \in {"CONNACK", "SUBACK", "PINGRESP"}, n \in {0, REFUSED, SUBFAIL} :
             rx' = Append(rx, Packet(t, n))
    BY <1>2, BrokerReadsEffect
  <2>4. UNCHANGED <<lastRun, published, runs>>
    BY <1>2, BrokerReadsEffect
  <2> QED  BY <2>1, <2>2, <2>3, <2>4
<1>3. CASE BrokerPublishes
  BY <1>3 DEF BrokerPublishes
<1>4. CASE rx' \in {rx, <<>>} /\ UNCHANGED <<lastRun, published, runs>>
  BY <1>4
<1> QED
  BY <1>1, <1>2, <1>3, <1>4
     DEF Next, MainStep, Timers, Environment, TcpSteps, TcpSip, TcpClose, TcpClosed, TcpOpen,
         TcpOpened, TcpWait, TcpConnect, TcpSent, TcpEstablished, ClientInit, MQTTConnect,
         MQTTSubscribe, SendRequest, MqttLoop,
         CheckVersion, AppPublish, AppDone, ExpireCommand, AnswerLate, ExpirePing,
         ExpireRetry, SpiLost, SpiBack, ChipReset, LinkLost, LinkBack, TcpLost, TcpAccepted,
         TcpRefused, BrokerCloses, vars

(* The order is kept by every step. *)
LEMMA OrderKept ==
  ASSUME Data, RxOrdered, [Next]_vars
  PROVE  RxOrdered'
<1>0. rx \in Seq(Packets) /\ Len(rx) \in Nat /\ lastRun \in Nat /\ published \in Nat
      /\ \A i \in 1..Len(rx) : rx[i] \in Packets /\ rx[i].n \in Nat
  <2>1. rx \in Seq(Packets) /\ lastRun \in Nat /\ published \in Nat
    BY Bounds DEF Data
  <2>2. Len(rx) \in Nat /\ \A i \in 1..Len(rx) : rx[i] \in Packets
    BY <2>1
  <2>3. \A p \in Packets : p.n \in Nat
    BY DEF Packets
  <2> QED  BY <2>1, <2>2, <2>3
<1>1. CASE UNCHANGED orderVars
  BY <1>1 DEF orderVars, RxOrdered, Younger
<1>2. CASE rx' = <<>> /\ UNCHANGED <<lastRun, published, runs>>
  <2>1. 1..Len(rx') = {}
    BY <1>2
  <2> QED  BY <1>2, <2>1 DEF RxOrdered, Younger
<1>3. CASE rx # <<>> /\ rx' = Tail(rx) /\ Reads(Head(rx))
  <2>1. /\ Len(rx) > 0 /\ Head(rx) = rx[1] /\ Len(rx') = Len(rx) - 1
        /\ \A i \in 1..Len(rx') : rx'[i] = rx[i + 1]
    BY <1>0, <1>3, TailProps
  <2>2. \A i \in 1..Len(rx') : i + 1 \in 1..Len(rx) /\ 1 < i + 1
    BY <1>0, <2>1
  <2>3. UNCHANGED published
    BY <1>3 DEF Reads
  <2>4. \/ lastRun' = lastRun
        \/ lastRun' = rx[1].n /\ rx[1].type = "PUBLISH"
    BY <1>3, <2>1 DEF Reads
  <2>5. lastRun' <= published'
    BY <1>0, <2>1, <2>3, <2>4 DEF RxOrdered
  <2>6. Younger(rx, lastRun)'
    <3> SUFFICES ASSUME NEW i \in 1..Len(rx'), rx'[i].type = "PUBLISH" PROVE lastRun' < rx'[i].n
      BY DEF Younger
    <3>1. rx'[i] = rx[i + 1] /\ i + 1 \in 1..Len(rx) /\ 1 \in 1..Len(rx) /\ 1 < i + 1
      BY <1>0, <2>1, <2>2
    <3>2. lastRun < rx[i + 1].n
      BY <3>1 DEF RxOrdered, Younger
    <3>3. rx[1].type = "PUBLISH" => rx[1].n < rx[i + 1].n
      BY <3>1 DEF RxOrdered
    <3> QED  BY <2>4, <3>1, <3>2, <3>3
  <2>7. \A i \in 1..Len(rx') : rx'[i].type = "PUBLISH" => rx'[i].n <= published'
    BY <2>1, <2>2, <2>3 DEF RxOrdered
  <2>8. ASSUME NEW i \in 1..Len(rx'), NEW j \in 1..Len(rx'),
               i < j, rx'[i].type = "PUBLISH", rx'[j].type = "PUBLISH"
        PROVE  rx'[i].n < rx'[j].n
    <3>1. rx'[i] = rx[i + 1] /\ rx'[j] = rx[j + 1]
      BY <2>1
    <3>2. i + 1 \in 1..Len(rx) /\ j + 1 \in 1..Len(rx) /\ i + 1 < j + 1
      BY <2>2, <2>8
    <3> QED  BY <2>8, <3>1, <3>2 DEF RxOrdered
  <2> QED  BY <2>5, <2>6, <2>7, <2>8 DEF RxOrdered
<1>4. ASSUME NEW p \in Packets, rx' = Append(rx, p), lastRun' = lastRun,
             published' \in Nat, published <= published',
             p.type = "PUBLISH" => p.n = published' /\ published < published'
      PROVE  RxOrdered'
  <2>1. /\ Len(rx') = Len(rx) + 1 /\ rx'[Len(rx) + 1] = p
        /\ \A i \in 1..Len(rx) : rx'[i] = rx[i]
    BY <1>0, <1>4, AppendProps
  <2>2. \A i \in 1..Len(rx') : i \in 1..Len(rx) \/ i = Len(rx) + 1
    BY <1>0, <2>1
  <2>3. lastRun' <= published'
    BY <1>0, <1>4 DEF RxOrdered
  <2>4. \A i \in 1..Len(rx') : rx'[i].type = "PUBLISH" => lastRun' < rx'[i].n /\ rx'[i].n <= published'
    <3> SUFFICES ASSUME NEW i \in 1..Len(rx'), rx'[i].type = "PUBLISH"
                 PROVE  lastRun' < rx'[i].n /\ rx'[i].n <= published'
      OBVIOUS
    <3>1. CASE i \in 1..Len(rx)
      <4>1. lastRun < rx[i].n /\ rx[i].n <= published
        BY <2>1, <3>1 DEF RxOrdered, Younger
      <4> QED  BY <1>0, <1>4, <2>1, <3>1, <4>1
    <3>2. CASE i = Len(rx) + 1
      BY <1>0, <1>4, <2>1, <3>2 DEF RxOrdered
    <3> QED  BY <2>2, <3>1, <3>2
  <2>5. ASSUME NEW i \in 1..Len(rx'), NEW j \in 1..Len(rx'),
               i < j, rx'[i].type = "PUBLISH", rx'[j].type = "PUBLISH"
        PROVE  rx'[i].n < rx'[j].n
    <3>1. i \in 1..Len(rx)
      BY <1>0, <2>1, <2>5
    <3>2. CASE j \in 1..Len(rx)
      BY <2>1, <2>5, <3>1, <3>2 DEF RxOrdered
    <3>3. CASE j = Len(rx) + 1
      <4>1. rx'[i].n <= published /\ rx'[i].n \in Nat
        BY <1>0, <2>1, <2>5, <3>1 DEF RxOrdered
      <4>2. rx'[j].n = published' /\ published < published'
        BY <1>4, <2>1, <2>5, <3>3
      <4> QED  BY <1>0, <1>4, <4>1, <4>2
    <3> QED  BY <2>2, <3>2, <3>3
  <2> QED  BY <2>3, <2>4, <2>5 DEF RxOrdered, Younger
<1>5. CASE /\ rx' = Append(rx, Packet("PUBLISH", published + 1))
           /\ published' = published + 1 /\ UNCHANGED <<lastRun, runs>>
  <2>1. /\ Packet("PUBLISH", published + 1) \in Packets
        /\ Packet("PUBLISH", published + 1).n = published'
    BY <1>0, <1>5, PacketType DEF PacketTypes
  <2>2. published' \in Nat /\ published <= published' /\ published < published'
    BY <1>0, <1>5
  <2> QED  BY <1>4, <1>5, <2>1, <2>2
<1>6. CASE /\ \E p \in Packets : rx' = Append(rx, p) /\ p.type # "PUBLISH"
           /\ UNCHANGED <<lastRun, published, runs>>
  BY <1>0, <1>4, <1>6
<1> QED  BY <1>1, <1>2, <1>3, <1>5, <1>6, OrderSteps

(***************************************************************************)
(* At most one handler is registered, none while a session is being set up. *)
(***************************************************************************)
OneHandler == /\ handlers \in {0, 1}
              /\ pc \in {"connect", "connack", "subscribe", "suback"} => handlers = 0

(* The table starts over with each session and gains one handler in it. *)
LEMMA OneHandlerKept == OneHandler /\ [Next]_vars => OneHandler'
<1> SUFFICES ASSUME OneHandler, [Next]_vars PROVE OneHandler'
  OBVIOUS
<1> USE DEF clientVars, chipVars, netVars, appVars, OneHandler
<1>1. CASE UNCHANGED <<pc, handlers>>
  BY <1>1
<1>2. CASE TcpSteps
  BY <1>2 DEF TcpSteps, TcpSip, TcpClose, TcpClosed, TcpOpen, TcpOpened, TcpWait, TcpConnect,
              TcpSent, TcpEstablished
<1>3. CASE ClientInit \/ MQTTConnect \/ MQTTSubscribe \/ AwaitConnack
  BY <1>3 DEF ClientInit, MQTTConnect, MQTTSubscribe, SendRequest, AwaitConnack
<1>4. CASE AwaitSuback
  BY <1>4 DEF AwaitSuback
<1>5. CASE MqttLoop \/ MQTTYield \/ CheckVersion \/ AppDone
  BY <1>5 DEF MqttLoop, MQTTYield, CheckVersion, AppDone
<1> QED
  BY <1>1, <1>2, <1>3, <1>4, <1>5
     DEF Next, MainStep, Timers, Environment, AppPublish, ExpireCommand, AnswerLate,
         ExpirePing, ExpireRetry, SpiLost, SpiBack, ChipReset, LinkLost, LinkBack, TcpLost,
         TcpAccepted, TcpRefused, BrokerReads, BrokerPublishes, BrokerCloses, vars

DeliveryInv == Data /\ RxOrdered /\ OneHandler

(* Every step keeps the types. *)
LEMMA DataKept == Data /\ RxOrdered /\ [Next]_vars => Data'
<1>1. Data /\ UNCHANGED vars => Data'
  BY DEF Data, vars, clientVars, chipVars, netVars, appVars
<1> QED  BY <1>1, MainStepData, TimersData, EnvironmentData DEF Next

(* The program starts with all of it. *)
LEMMA DeliveryInit == Init => DeliveryInv /\ Flags
<1> SUFFICES ASSUME Init PROVE DeliveryInv /\ Flags
  OBVIOUS
<1>1. 1..Len(rx) = {}
  BY DEF Init
<1>2. Data
  BY EmptyProps, Bounds DEF Init, Data, Steps
<1>3. RxOrdered /\ OneHandler
  BY <1>1 DEF Init, RxOrdered, Younger, OneHandler
<1>4. Flags
  BY DEF Init, Flags
<1> QED  BY <1>2, <1>3, <1>4 DEF DeliveryInv

(* Every variable keeps its range: buffers, handler table and counters are  *)
(* never overrun.                                                           *)
THEOREM TypeCorrect == Spec => []TypeOK
<1>1. DeliveryInv /\ Flags /\ [Next]_vars => DeliveryInv' /\ Flags'
  BY DataKept, OrderKept, OneHandlerKept, FlagsStep DEF DeliveryInv
<1>2. DeliveryInv /\ Flags => TypeOK
  BY TypeParts DEF DeliveryInv
<1> QED  BY DeliveryInit, <1>1, <1>2, PTL DEF Spec

(* A step of the session is a step of CommandDelivery: a message forwarded, *)
(* or one handled that is younger than all before it, or neither.           *)
LEMMA DeliverySteps ==
  ASSUME DeliveryInv, [Next]_vars
  PROVE  [Delivery!Next]_(Delivery!vars)
<1> USE DEF DeliveryInv, Delivery!Next, Delivery!Publish, Delivery!Handle, Delivery!vars
<1>1. CASE UNCHANGED <<lastRun, published, runs>>
  BY <1>1
<1>2. CASE rx # <<>> /\ Reads(Head(rx))
  <2>1. /\ Head(rx) \in Packets
        /\ Head(rx).type = "PUBLISH" => lastRun < Head(rx).n /\ Head(rx).n <= published
    BY <1>2, HeadInOrder
  <2>2. lastRun \in Nat /\ published \in Nat /\ runs \in Nat /\ Head(rx).n \in Nat
    BY <2>1, Bounds DEF Data, Packets
  <2>3. CASE Head(rx).type = "PUBLISH" /\ handlers > 0
    <3>1. handlers = 1
      BY <2>3 DEF OneHandler
    <3>2. lastRun' = Head(rx).n /\ runs' = runs + 1 /\ UNCHANGED published
      BY <1>2, <2>3, <3>1 DEF Reads
    <3>3. lastRun' \in (lastRun + 1)..published
      BY <2>1, <2>2, <2>3, <3>2
    <3> QED  BY <3>2, <3>3
  <2>4. CASE ~(Head(rx).type = "PUBLISH" /\ handlers > 0)
    <3>1. UNCHANGED <<lastRun, published>>
      BY <1>2, <2>4 DEF Reads
    <3>2. runs' = runs + 0
      BY <1>2, <2>4 DEF Reads, OneHandler
    <3> QED  BY <2>2, <3>1, <3>2
  <2> QED  BY <2>3, <2>4
<1>3. CASE published' = published + 1 /\ UNCHANGED <<lastRun, runs>>
  BY <1>3
<1> QED  BY <1>1, <1>2, <1>3, OrderSteps DEF orderVars

(* Over any number of connections, with any faults, a control message is    *)
(* handled at most once and never after a younger one.                      *)
THEOREM HandlesOnceInOrder == Spec => AtMostOnceInOrder
<1>1. Init => Delivery!Init
  BY DEF Init, Delivery!Init
<1>2. DeliveryInv /\ [Next]_vars => DeliveryInv'
  BY DataKept, OrderKept, OneHandlerKept DEF DeliveryInv
<1>3. DeliveryInv /\ [Next]_vars => [Delivery!Next]_(Delivery!vars)
  BY DeliverySteps
<1>4. Init => DeliveryInv
  BY DeliveryInit
<1> QED  BY <1>1, <1>2, <1>3, <1>4, PTL DEF Spec, AtMostOnceInOrder, Delivery!Spec

-----------------------------------------------------------------------------
(***************************************************************************)
(* The session.  Where the program is tells whether it may take itself for *)
(* connected; while the broker has not answered the CONNECT of this TCP    *)
(* connection the buffers hold nothing but that CONNECT; and after that    *)
(* they hold none.                                                         *)
(***************************************************************************)
Some(q, type) == \E i \in 1..Len(q) : q[i].type = type
Once(q, type) == \E i \in 1..Len(q) : \A j \in 1..Len(q) : (q[j].type = type) <=> (j = i)

Unanswered == {"tcp_sip", "tcp_close", "tcp_closed", "tcp_open", "tcp_opened", "tcp_wait",
               "tcp_connect", "tcp_sent", "tcp_est", "init", "connect", "connack"}
Believed == /\ pc \in {"subscribe", "suback", "yield", "version"} => connected
            /\ pc \in Unanswered => ~connected

Opening == sr \in {"INIT", "SYNSENT"} => rx = <<>> /\ tx = <<>> /\ ~connected
PeerThere == broker # "down" => sr = "ESTABLISHED"
Accepted ==
  broker = "tcp" => /\ rx = <<>> /\ ~connected
                    /\ tx = <<>> \/ (Len(tx) = 1 /\ tx[1].type = "CONNECT" /\ ~pingOut)
Denied ==
  broker = "refused" =>
    ~connected /\ \A i \in 1..Len(rx) : rx[i].type = "CONNACK" => rx[i].n # 0
Answered == broker \in {"refused", "session", "subscribed"} => ~Some(tx, "CONNECT")
FirstTurn ==
  /\ pc \in {"tcp_sent", "tcp_est", "init", "connect"} =>
       broker = "down" \/ (broker = "tcp" /\ tx = <<>>)
  /\ pc = "connect" => ~pingOut


(* A type in a longer buffer was there or has come with the packet. *)
LEMMA SomeAppend ==
  ASSUME NEW q \in Seq(Packets), NEW p \in Packets, NEW t, Some(Append(q, p), t)
  PROVE  Some(q, t) \/ p.type = t
BY AppendProps DEF Some

(* What the rest of a buffer holds the buffer holds. *)
LEMMA SomeTail ==
  ASSUME NEW q \in Seq(Packets), q # <<>>, NEW t, Some(Tail(q), t)
  PROVE  Some(q, t)
<1>1. PICK i \in 1..Len(Tail(q)) : Tail(q)[i].type = t
  BY DEF Some
<1>2. q[i + 1].type = t /\ i + 1 \in 1..Len(q)
  BY <1>1, TailProps
<1> QED  BY <1>2 DEF Some

(* An empty buffer holds no type. *)
LEMMA SomeEmpty ==
  ASSUME NEW t
  PROVE  ~Some(<<>>, t)
BY DEF Some

(* Where the program is. *)
LEMMA BelievedKept == Believed /\ [Next]_vars => Believed'
<1> SUFFICES ASSUME Believed, [Next]_vars PROVE Believed'
  OBVIOUS
<1> USE DEF clientVars, chipVars, netVars, appVars, Believed, Unanswered
<1>1. CASE UNCHANGED <<pc, connected>>
  BY <1>1
<1>2. CASE TcpSteps
  BY <1>2 DEF TcpSteps, TcpSip, TcpClose, TcpClosed, TcpOpen, TcpOpened, TcpWait, TcpConnect,
              TcpSent, TcpEstablished
<1>3. CASE ClientInit \/ MQTTConnect \/ MQTTSubscribe
  BY <1>3 DEF ClientInit, MQTTConnect, MQTTSubscribe, SendRequest
<1>4. CASE AwaitConnack
  BY <1>4 DEF AwaitConnack
<1>5. CASE AwaitSuback \/ MqttLoop \/ MQTTYield \/ CheckVersion \/ AppDone
  BY <1>5 DEF AwaitSuback, MqttLoop, MQTTYield, CheckVersion, AppDone
<1> QED
  BY <1>1, <1>2, <1>3, <1>4, <1>5
     DEF Next, MainStep, Timers, Environment, AppPublish, ExpireCommand, AnswerLate,
         ExpirePing, ExpireRetry, SpiLost, SpiBack, ChipReset, LinkLost, LinkBack, TcpLost,
         TcpAccepted, TcpRefused, BrokerReads, BrokerPublishes, BrokerCloses, vars

(* Only a program that believes in its session, or has an answer to read,   *)
(* sends anything but CONNECT.                                              *)
LEMMA ReadingSends ==
  ASSUME Data, Flags, AwaitConnack \/ AwaitSuback \/ MQTTYield
  PROVE  /\ \E p \in Packets : \E e :
              /\ \/ rx # <<>> /\ rx' = Tail(rx) /\ p = Head(rx)
                 \/ rx' = rx /\ p.type = "none"
              /\ e = tx \/ e = Append(tx, PUBLICATION)
              /\ \/ tx' = Append(e, PING) /\ pingOut' = TRUE /\ ~(p.type # "PINGRESP" /\ pingOut)
                 \/ tx' = e /\ pingOut' = (p.type # "PINGRESP" /\ pingOut)
         /\ UNCHANGED <<sr, broker>>
<1> USE DEF chipVars, netVars
<1>1. ASSUME NEW p, Cycle(p)
      PROVE  \E e : /\ e = tx \/ e = Append(tx, PUBLICATION)
                    /\ \/ /\ tx' = Append(e, PING) /\ pingOut' = TRUE
                          /\ ~(p.type # "PINGRESP" /\ pingOut)
                       \/ tx' = e /\ pingOut' = (p.type # "PINGRESP" /\ pingOut)
  BY <1>1, CycleEffect
<1>2. UNCHANGED <<sr, broker>>
  BY DEF AwaitConnack, AwaitSuback, MQTTYield
<1>3. CASE rx # <<>> /\ rx' = Tail(rx) /\ Cycle(Head(rx))
  <2>1. Head(rx) \in Packets
    BY <1>3, TailProps DEF Data
  <2> QED  BY <1>1, <1>2, <1>3, <2>1
<1>4. CASE rx' = rx /\ Cycle(Nothing)
  BY <1>1, <1>2, <1>4, NothingType
<1>5. CASE UNCHANGED <<rx, tx, pingOut>>
  <2>1. Nothing \in Packets /\ Nothing.type = "none" /\ Nothing.type # "PINGRESP"
    BY NothingType
  <2>2. pingOut' = (Nothing.type # "PINGRESP" /\ pingOut)
    BY <1>5, <2>1 DEF Flags
  <2> QED  BY <1>2, <1>5, <2>1, <2>2
<1> QED  BY <1>3, <1>4, <1>5 DEF AwaitConnack, AwaitSuback, MQTTYield, Readable

Peer == Opening /\ PeerThere /\ Accepted /\ Denied /\ Answered /\ FirstTurn

(* Steps of the program that leave the connection alone. *)
LEMMA PeerUntouched ==
  ASSUME Peer, UNCHANGED <<sr, rx, tx>>, broker' \in {broker, "down"},
         connected' => connected, pingOut' => pingOut,
         pc' \in {"tcp_sent", "tcp_est", "init", "connect"} =>
           broker = "down" \/ (broker = "tcp" /\ tx = <<>>),
         pc' = "connect" => ~pingOut'
  PROVE  Peer'
BY DEF Peer, Opening, PeerThere, Accepted, Denied, Answered, FirstTurn

(* Steps after which there is no connection. *)
LEMMA PeerGone ==
  ASSUME Peer, UNCHANGED <<connected, pingOut>>, broker' = "down", tx' = <<>>,
         sr' \notin {"INIT", "SYNSENT"} \/ (rx' = <<>> /\ ~connected),
         pc' = "connect" => pc = "connect"
  PROVE  Peer'
BY SomeEmpty DEF Peer, Opening, PeerThere, Accepted, Denied, Answered, FirstTurn

(* socket() and connect() of ConnectNetwork. *)
LEMMA TcpStepsPeer == Peer /\ Believed /\ TcpSteps => Peer'
<1> SUFFICES ASSUME Peer, Believed, TcpSteps PROVE Peer'
  OBVIOUS
<1> USE DEF clientVars, chipVars, netVars, appVars
<1>0. UNCHANGED <<connected, pingOut>> /\ ~connected /\ pc' # "connect"
  BY DEF TcpSteps, TcpSip, TcpClose, TcpClosed, TcpOpen, TcpOpened, TcpWait, TcpConnect,
         TcpSent, TcpEstablished, Believed, Unanswered
<1>1. CASE TcpSip \/ TcpClosed \/ TcpOpened \/ TcpWait \/ TcpSent \/ TcpEstablished
  <2>1. UNCHANGED <<sr, rx, tx, broker>>
    BY <1>1 DEF TcpSip, TcpClosed, TcpOpened, TcpWait, TcpSent, TcpEstablished
  <2>2. pc' \in {"tcp_sent", "tcp_est", "init", "connect"} => pc \in {"tcp_sent", "tcp_est"}
    BY <1>1 DEF TcpSip, TcpClosed, TcpOpened, TcpWait, TcpSent, TcpEstablished
  <2> QED  BY <1>0, <2>1, <2>2, PeerUntouched DEF Peer, FirstTurn
<1>2. CASE TcpClose \/ TcpOpen
  <2>1. pc' \notin {"tcp_sent", "tcp_est", "init", "connect"}
    BY <1>2 DEF TcpClose, TcpOpen
  <2>2. CASE rx' = <<>> /\ tx' = <<>> /\ broker' = "down"
    BY <1>0, <2>1, <2>2, PeerGone
  <2>3. CASE UNCHANGED <<sr, rx, tx, broker>>
    BY <1>0, <2>1, <2>3, PeerUntouched
  <2> QED  BY <1>2, <2>2, <2>3 DEF TcpClose, TcpOpen
<1>3. CASE TcpConnect
  <2>1. UNCHANGED <<rx, tx, broker>>
    BY <1>3 DEF TcpConnect
  <2>2. CASE sr = "INIT" /\ sr' = "SYNSENT"
    <3>1. rx = <<>> /\ tx = <<>> /\ broker = "down"
      BY <2>2 DEF Peer, Opening, PeerThere
    <3> QED  BY <1>0, <2>1, <2>2, <3>1, PeerGone
  <2>3. CASE pc' = "app" /\ UNCHANGED sr
    BY <1>0, <2>1, <2>3, PeerUntouched
  <2> QED  BY <1>3, <2>2, <2>3 DEF TcpConnect
<1> QED  BY <1>1, <1>2, <1>3 DEF TcpSteps

(* Sending: CONNECT first, anything else only in a session. *)
LEMMA AppendedPeer ==
  ASSUME Data, Peer, NEW p \in Packets, tx' \in {tx, Append(tx, p)}, p.type # "CONNECT",
         connected, UNCHANGED <<sr, rx, broker, connected, pingOut>>,
         pc' \notin {"tcp_sent", "tcp_est", "init", "connect"}
  PROVE  Peer'
<1>1. Some(tx', "CONNECT") => Some(tx, "CONNECT")
  BY SomeAppend DEF Data
<1> QED
  BY <1>1 DEF Peer, Opening, PeerThere, Accepted, Denied, Answered, FirstTurn

(* CONNECT is sent into an empty buffer or to nobody. *)
LEMMA ConnectPeer ==
  ASSUME Data, Peer, MQTTConnect
  PROVE  Peer'
<1> USE DEF clientVars, chipVars, netVars, appVars
<1>1. PICK s \in Sends(tx, Packet("CONNECT", 0)) :
        tx' = s.buf /\ pc' = IF s.ok THEN "connack" ELSE "app"
  BY DEF MQTTConnect, SendRequest
<1>2. UNCHANGED <<sr, rx, broker, connected, pingOut>> /\ pc = "connect"
      /\ pc' \in {"connack", "app"}
  BY <1>1 DEF MQTTConnect, SendRequest
<1>3. ~pingOut /\ (broker = "down" \/ (broker = "tcp" /\ tx = <<>>))
  BY <1>2 DEF Peer, FirstTurn
<1>4. CASE tx' = tx
  BY <1>2, <1>4, PeerUntouched
<1>5. CASE tx' = Append(tx, Packet("CONNECT", 0)) /\ sr \in Open
  <2>1. Packet("CONNECT", 0) \in Packets /\ Packet("CONNECT", 0).type = "CONNECT"
    BY PacketType DEF PacketTypes
  <2>2. tx = <<>> => Len(tx') = 1 /\ tx'[1].type = "CONNECT"
    BY <1>5, <2>1, AppendProps, EmptyProps
  <2> QED
    BY <1>2, <1>3, <1>5, <2>2
       DEF Peer, Opening, PeerThere, Accepted, Denied, Answered, FirstTurn, Open
<1> QED  BY <1>1, <1>4, <1>5, SendsOutcome

(* Reading and what it sends, in a session or with an answer to read. *)
LEMMA ReadingPeer ==
  ASSUME Data, Flags, Believed, Peer, AwaitConnack \/ AwaitSuback \/ MQTTYield
  PROVE  Peer'
<1> USE DEF clientVars, chipVars, netVars, appVars
<1>1. pc' \notin {"tcp_sent", "tcp_est", "init", "connect"}
  BY DEF AwaitConnack, AwaitSuback, MQTTYield
<1>2. CASE UNCHANGED <<connected, pingOut, rx, tx>>
  <2>1. UNCHANGED <<sr, broker>>
    BY DEF AwaitConnack, AwaitSuback, MQTTYield
  <2> QED  BY <1>1, <1>2, <2>1, PeerUntouched
<1>3. ASSUME rx # <<>> \/ connected
      PROVE  Peer'
  <2>1. sr \notin {"INIT", "SYNSENT"} /\ broker # "tcp"
    BY <1>3 DEF Peer, Opening, Accepted
  <2>2. UNCHANGED <<sr, broker>>
    BY ReadingSends
  <2>3. PICK e : /\ e = tx \/ e = Append(tx, PUBLICATION)
                 /\ tx' = Append(e, PING) \/ tx' = e
    BY ReadingSends
  <2>4. Some(tx', "CONNECT") => Some(tx, "CONNECT")
    <3>1. /\ PUBLICATION \in Packets /\ PUBLICATION.type # "CONNECT"
          /\ PING \in Packets /\ PING.type # "CONNECT"
      BY PacketType DEF PUBLICATION, PING, PacketTypes
    <3>2. e \in Seq(Packets)
      BY <2>3, <3>1, AppendProps DEF Data
    <3>3. Some(e, "CONNECT") => Some(tx, "CONNECT")
      BY <2>3, <3>1, SomeAppend DEF Data
    <3>4. Some(tx', "CONNECT") => Some(e, "CONNECT")
      BY <2>3, <3>1, <3>2, SomeAppend
    <3> QED  BY <3>3, <3>4
  <2>5. Denied'
    <3> SUFFICES ASSUME broker = "refused" PROVE Denied'
      BY <2>2 DEF Denied
    <3>1. ~connected /\ rx # <<>>
          /\ \A i \in 1..Len(rx) : rx[i].type = "CONNACK" => rx[i].n # 0
      BY <1>3 DEF Peer, Denied
    <3>2. AwaitConnack
      BY <3>1 DEF Believed, AwaitSuback, MQTTYield
    <3>3. rx' = Tail(rx) \/ rx' = rx
      BY <3>2 DEF AwaitConnack
    <3>4. \A i \in 1..Len(rx') : rx'[i].type = "CONNACK" => rx'[i].n # 0
      <4>1. CASE rx' = Tail(rx)
        <5>1. \A i \in 1..Len(rx') : rx'[i] = rx[i + 1] /\ i + 1 \in 1..Len(rx)
          BY <3>1, <4>1, TailProps DEF Data
        <5> QED  BY <3>1, <5>1
      <4>2. CASE rx' = rx
        BY <3>1, <4>2
      <4> QED  BY <3>3, <4>1, <4>2
    <3>5. ~connected'
      <4>1. Head(rx) = rx[1] /\ 1 \in 1..Len(rx)
        BY <3>1, TailProps DEF Data
      <4>2. Head(rx).type = "CONNACK" => ~(Head(rx).n = 0)
        BY <3>1, <4>1
      <4> QED  BY <3>1, <3>2, <4>2 DEF AwaitConnack
    <3> QED  BY <3>4, <3>5 DEF Denied
  <2> QED
    BY <1>1, <2>1, <2>2, <2>4, <2>5
       DEF Peer, Opening, PeerThere, Accepted, Answered, FirstTurn
<1>4. connected \/ rx # <<>> \/ UNCHANGED <<connected, pingOut, rx, tx>>
  BY DEF Believed, AwaitConnack, AwaitSuback, MQTTYield, Readable
<1> QED  BY <1>2, <1>3, <1>4

(* Every step of the program. *)
LEMMA MainStepPeer == Data /\ Flags /\ Believed /\ Peer /\ MainStep => Peer'
<1> SUFFICES ASSUME Data, Flags, Believed, Peer, MainStep PROVE Peer'
  OBVIOUS
<1> USE DEF clientVars, chipVars, netVars, appVars
<1>1. CASE TcpSteps
  BY <1>1, TcpStepsPeer
<1>2. CASE ClientInit
  <2>1. /\ pc = "init" /\ pc' = "connect" /\ connected' = FALSE /\ pingOut' = FALSE
        /\ UNCHANGED <<sr, rx, tx, broker>>
    BY <1>2 DEF ClientInit
  <2> QED  BY <2>1, PeerUntouched DEF Peer, FirstTurn
<1>3. CASE MQTTConnect
  BY <1>3, ConnectPeer
<1>4. CASE AwaitConnack \/ AwaitSuback \/ MQTTYield
  BY <1>4, ReadingPeer
<1>5. CASE MQTTSubscribe
  <2>1. PICK s \in Sends(tx, Packet("SUBSCRIBE", 0)) :
          tx' = s.buf /\ pc' = IF s.ok THEN "suback" ELSE "app"
    BY <1>5 DEF MQTTSubscribe, SendRequest
  <2>2. UNCHANGED <<sr, rx, broker, connected, pingOut>> /\ connected
    BY <1>5 DEF MQTTSubscribe, SendRequest, Believed
  <2>3. Packet("SUBSCRIBE", 0) \in Packets /\ Packet("SUBSCRIBE", 0).type = "SUBSCRIBE"
    BY PacketType DEF PacketTypes
  <2>4. tx' \in {tx, Append(tx, Packet("SUBSCRIBE", 0))}
    BY <2>1, SendsOutcome
  <2>5. pc' \in {"suback", "app"}
    BY <2>1
  <2> QED  BY <2>2, <2>3, <2>4, <2>5, AppendedPeer
<1>6. CASE AppPublish
  <2>1. PICK s \in Sends(tx, PUBLICATION) : tx' = s.buf
    BY <1>6 DEF AppPublish, PUBLICATION
  <2>2. UNCHANGED <<pc, sr, rx, broker, connected, pingOut>> /\ connected /\ pc = "app"
    BY <1>6 DEF AppPublish
  <2>3. PUBLICATION \in Packets /\ PUBLICATION.type = "PUBLISH"
    BY PacketType DEF PUBLICATION, PacketTypes
  <2>4. tx' \in {tx, Append(tx, PUBLICATION)}
    BY <2>1, SendsOutcome
  <2> QED  BY <2>2, <2>3, <2>4, AppendedPeer
<1>7. CASE MqttLoop \/ CheckVersion \/ AppDone
  <2>1. UNCHANGED <<sr, rx, tx, broker, pingOut>>
    BY <1>7 DEF MqttLoop, CheckVersion, AppDone
  <2>2. pc' \in {"yield", "tcp_sip", "app", "loop"} /\ (connected' => connected)
    BY <1>7 DEF MqttLoop, CheckVersion, AppDone, Believed
  <2> QED  BY <2>1, <2>2, PeerUntouched
<1> QED  BY <1>1, <1>2, <1>3, <1>4, <1>5, <1>6, <1>7 DEF MainStep

(* The broker reads CONNECT first. *)
LEMMA BrokerReadsPeer ==
  ASSUME Data, Peer, BrokerReads
  PROVE  Peer'
<1> USE DEF clientVars, netVars, appVars
<1>1. tx # <<>> /\ broker # "down" /\ UNCHANGED <<pc, connected, pingOut>>
  BY BrokerReadsEffect
<1>2. sr = "ESTABLISHED" /\ pc \notin {"tcp_sent", "tcp_est", "init", "connect"}
  BY <1>1 DEF Peer, PeerThere, FirstTurn, Accepted
<1>3. Some(Tail(tx), "CONNECT") => Some(tx, "CONNECT")
  BY <1>1, SomeTail DEF Data
<1>4. CASE /\ broker = "tcp" /\ tx' = Tail(tx) /\ UNCHANGED sr
           /\ \/ broker' = "session"
              \/ broker' = "refused" /\ rx' = Append(rx, Packet("CONNACK", REFUSED))
  <2>1. rx = <<>> /\ ~connected /\ Len(tx) = 1
    BY <1>1, <1>4 DEF Peer, Accepted
  <2>2. Len(tx') = 0
    BY <1>1, <1>4, <2>1, TailProps DEF Data
  <2>3. ~Some(tx', "CONNECT")
    BY <2>2 DEF Some
  <2>4. CASE broker' = "session"
    BY <1>1, <1>2, <1>4, <2>3, <2>4
       DEF Peer, Opening, PeerThere, Accepted, Denied, Answered, FirstTurn
  <2>5. CASE broker' = "refused" /\ rx' = Append(rx, Packet("CONNACK", REFUSED))
    <3>1. /\ Packet("CONNACK", REFUSED) \in Packets
          /\ Packet("CONNACK", REFUSED).n = 5
      BY PacketType DEF PacketTypes, REFUSED
    <3>2. Len(rx') = 1 /\ rx'[1].n # 0
      BY <2>1, <2>5, <3>1, AppendProps, EmptyProps
    <3>3. \A i \in 1..Len(rx') : rx'[i].n # 0
      BY <3>2
    <3> QED
      BY <1>1, <1>2, <1>4, <2>1, <2>3, <2>5, <3>3
         DEF Peer, Opening, PeerThere, Accepted, Denied, Answered, FirstTurn
  <2> QED  BY <1>4, <2>4, <2>5
<1>5. CASE broker \in {"session", "subscribed"} /\ broker' \in {"session", "subscribed"}
           /\ tx' = Tail(tx) /\ UNCHANGED sr
  BY <1>1, <1>2, <1>3, <1>5
     DEF Peer, Opening, PeerThere, Accepted, Denied, Answered, FirstTurn
<1>6. CASE tx' = <<>> /\ sr' = "CLOSE_WAIT" /\ broker' = "down"
  BY <1>1, <1>6, PeerGone
<1>7. \/ /\ broker = "tcp" /\ tx' = Tail(tx) /\ UNCHANGED sr
         /\ \/ broker' = "session"
            \/ broker' = "refused" /\ rx' = Append(rx, Packet("CONNACK", REFUSED))
      \/ /\ broker \in {"session", "subscribed"} /\ broker' \in {"session", "subscribed"}
         /\ tx' = Tail(tx) /\ UNCHANGED sr
      \/ tx' = <<>> /\ sr' = "CLOSE_WAIT" /\ broker' = "down"
  BY BrokerReadsEffect
<1> QED  BY <1>4, <1>5, <1>6, <1>7

(* Every step of the environment. *)
LEMMA EnvironmentPeer == Data /\ Peer /\ Environment => Peer'
<1> SUFFICES ASSUME Data, Peer, Environment PROVE Peer'
  OBVIOUS
<1> USE DEF clientVars, chipVars, netVars, appVars
<1>0. UNCHANGED <<pc, connected, pingOut>>
  BY DEF Environment, SpiLost, SpiBack, ChipReset, LinkLost, LinkBack, TcpLost, TcpAccepted,
         TcpRefused, BrokerReads, BrokerPublishes, BrokerCloses
<1>1. CASE SpiLost \/ SpiBack \/ LinkLost \/ LinkBack
  <2>1. UNCHANGED <<sr, rx, tx>> /\ broker' \in {broker, "down"}
    BY <1>1 DEF SpiLost, SpiBack, LinkLost, LinkBack
  <2> QED  BY <1>0, <2>1, PeerUntouched DEF Peer, FirstTurn
<1>2. CASE ChipReset \/ TcpLost \/ BrokerCloses
  <2>1. broker' = "down" /\ tx' = <<>> /\ sr' \in {"CLOSED", "CLOSE_WAIT"}
    BY <1>2 DEF ChipReset, TcpLost, BrokerCloses
  <2> QED  BY <1>0, <2>1, PeerGone
<1>3. CASE TcpAccepted
  <2>1. /\ sr = "SYNSENT" /\ sr' = "ESTABLISHED" /\ broker' = "tcp" /\ UNCHANGED <<rx, tx>>
    BY <1>3 DEF TcpAccepted
  <2> QED
    BY <1>0, <2>1 DEF Peer, Opening, PeerThere, Accepted, Denied, Answered, FirstTurn
<1>4. CASE TcpRefused
  <2>1. sr = "SYNSENT" /\ sr' = "CLOSED" /\ UNCHANGED <<rx, tx, broker>>
    BY <1>4 DEF TcpRefused
  <2> QED
    BY <1>0, <2>1 DEF Peer, Opening, PeerThere, Accepted, Denied, Answered, FirstTurn
<1>5. CASE BrokerReads
  BY <1>5, BrokerReadsPeer
<1>6. CASE BrokerPublishes
  <2>1. broker = "subscribed" /\ UNCHANGED <<sr, tx, broker>>
    BY <1>6 DEF BrokerPublishes
  <2> QED
    BY <1>0, <2>1 DEF Peer, Opening, PeerThere, Accepted, Denied, Answered, FirstTurn
<1> QED  BY <1>1, <1>2, <1>3, <1>4, <1>5, <1>6 DEF Environment

(* Every step. *)
LEMMA PeerKept == Data /\ Flags /\ Believed /\ Peer /\ [Next]_vars => Peer'
<1> SUFFICES ASSUME Data, Flags, Believed, Peer, [Next]_vars PROVE Peer'
  OBVIOUS
<1> USE DEF clientVars, chipVars, netVars, appVars
<1>1. CASE Timers \/ UNCHANGED vars
  <2>1. UNCHANGED <<pc, sr, rx, tx, broker, connected, pingOut>>
    BY <1>1 DEF Timers, ExpireCommand, AnswerLate, ExpirePing, ExpireRetry, vars
  <2> QED  BY <2>1, PeerUntouched DEF Peer, FirstTurn
<1> QED  BY <1>1, MainStepPeer, EnvironmentPeer DEF Next

SessionInv == DeliveryInv /\ Flags /\ Believed /\ Peer

(* The program starts without a session. *)
LEMMA SessionInit == Init => SessionInv
<1> SUFFICES ASSUME Init PROVE SessionInv
  OBVIOUS
<1>1. DeliveryInv /\ Flags
  BY DeliveryInit
<1>2. Believed /\ Peer
  BY SomeEmpty DEF Init, Believed, Unanswered, Peer, Opening, PeerThere, Accepted, Denied,
                   Answered, FirstTurn
<1> QED  BY <1>1, <1>2 DEF SessionInv

(* Every step keeps the whole invariant. *)
LEMMA SessionStep == SessionInv /\ [Next]_vars => SessionInv'
BY DataKept, OrderKept, OneHandlerKept, FlagsStep, BelievedKept, PeerKept
   DEF SessionInv, DeliveryInv

(* The device never takes itself for connected while the broker at the      *)
(* other end has refused it or has not answered its CONNECT.                *)
THEOREM SessionIsAgreed == Spec => []SessionAgreed
<1>1. SessionInv => SessionAgreed
  BY DEF SessionInv, DeliveryInv, Data, Peer, Accepted, Denied, SessionAgreed
<1> QED  BY SessionInit, SessionStep, <1>1, PTL DEF Spec

(* On every connection CONNECT is the first packet, and comes once. *)
THEOREM ConnectComesFirst == Spec => []ConnectFirst
<1>1. ASSUME SessionInv, broker # "down", NEW i \in 1..Len(tx)
      PROVE  (tx[i].type = "CONNECT") <=> (i = 1 /\ broker = "tcp")
  <2>1. CASE broker = "tcp"
    <3>1. tx # <<>> /\ Len(tx) \in Nat
      BY <1>1 DEF SessionInv, DeliveryInv, Data
    <3>2. Len(tx) = 1 /\ tx[1].type = "CONNECT"
      BY <1>1, <2>1, <3>1 DEF SessionInv, Peer, Accepted
    <3>3. i = 1
      BY <3>2
    <3> QED  BY <2>1, <3>2, <3>3
  <2>2. CASE broker \in {"refused", "session", "subscribed"}
    BY <2>2, <1>1 DEF SessionInv, Peer, Answered, Some
  <2> QED  BY <1>1, <2>1, <2>2 DEF SessionInv, DeliveryInv, Data
<1>2. SessionInv => ConnectFirst
  BY <1>1 DEF ConnectFirst
<1> QED  BY SessionInit, SessionStep, <1>2, PTL DEF Spec

-----------------------------------------------------------------------------
(* The subscription: a grant in the receive buffer is the broker's own.     *)
Granted(q) == \E i \in 1..Len(q) : q[i].type = "SUBACK" /\ q[i].n # SUBFAIL
GrantsHold == broker # "down" /\ Granted(rx) => broker = "subscribed"

(* A grant in a longer buffer was there or has come. *)
LEMMA GrantedAppend ==
  ASSUME NEW q \in Seq(Packets), NEW p \in Packets, Granted(Append(q, p))
  PROVE  Granted(q) \/ (p.type = "SUBACK" /\ p.n # SUBFAIL)
<1>1. PICK i \in 1..Len(Append(q, p)) :
        Append(q, p)[i].type = "SUBACK" /\ Append(q, p)[i].n # SUBFAIL
  BY DEF Granted
<1>2. /\ Len(Append(q, p)) = Len(q) + 1 /\ Append(q, p)[Len(q) + 1] = p /\ Len(q) \in Nat
      /\ \A j \in 1..Len(q) : Append(q, p)[j] = q[j]
  BY AppendProps
<1>3. CASE i \in 1..Len(q)
  BY <1>1, <1>2, <1>3 DEF Granted
<1>4. CASE i = Len(q) + 1
  BY <1>1, <1>2, <1>4
<1> QED  BY <1>2, <1>3, <1>4

(* A grant at the head, or behind it, is in the buffer. *)
LEMMA GrantedTail ==
  ASSUME NEW q \in Seq(Packets), q # <<>>
  PROVE  /\ Granted(Tail(q)) => Granted(q)
         /\ Head(q).type = "SUBACK" /\ Head(q).n # SUBFAIL => Granted(q)
<1>1. /\ Head(q) = q[1] /\ 1 \in 1..Len(q)
      /\ \A i \in 1..Len(Tail(q)) : Tail(q)[i] = q[i + 1] /\ i + 1 \in 1..Len(q)
  BY TailProps
<1> QED  BY <1>1 DEF Granted

(* The broker grants a subscription after CONNECT, and keeps it.            *)
LEMMA BrokerReadsGrants ==
  ASSUME Data, Peer, GrantsHold, SubscriptionAgreed, BrokerReads
  PROVE  GrantsHold' /\ SubscriptionAgreed'
<1> USE DEF clientVars
<1>1. rx \in Seq(Packets) /\ tx # <<>> /\ broker # "down" /\ UNCHANGED <<connected, handlers>>
  BY BrokerReadsEffect DEF Data
<1>2. CASE broker' \in {"down", "subscribed"}
  BY <1>2 DEF GrantsHold, SubscriptionAgreed
<1>3. CASE /\ broker = "tcp"
           /\ \/ rx' = Append(rx, Packet("CONNACK", 0))
              \/ rx' = Append(rx, Packet("CONNACK", REFUSED))
  <2>1. rx = <<>> /\ ~connected
    BY <1>3 DEF Peer, Accepted
  <2>2. ~Granted(rx)
    BY <2>1 DEF Granted
  <2>3. /\ Packet("CONNACK", 0) \in Packets /\ Packet("CONNACK", 0).type = "CONNACK"
        /\ Packet("CONNACK", REFUSED) \in Packets /\ Packet("CONNACK", REFUSED).type = "CONNACK"
    BY PacketType DEF PacketTypes, REFUSED
  <2>4. ~Granted(rx')
    BY <1>1, <1>3, <2>2, <2>3, GrantedAppend
  <2> QED  BY <1>1, <2>1, <2>4 DEF GrantsHold, SubscriptionAgreed
<1>4. CASE /\ broker' = broker
           /\ \/ UNCHANGED rx
              \/ rx' = Append(rx, Packet("SUBACK", SUBFAIL))
              \/ rx' = Append(rx, Packet("PINGRESP", 0))
  <2>1. /\ Packet("SUBACK", SUBFAIL) \in Packets /\ Packet("SUBACK", SUBFAIL).n = SUBFAIL
        /\ Packet("PINGRESP", 0) \in Packets /\ Packet("PINGRESP", 0).type = "PINGRESP"
    BY PacketType DEF PacketTypes, SUBFAIL
  <2>2. Granted(rx') => Granted(rx)
    BY <1>1, <1>4, <2>1, GrantedAppend
  <2> QED  BY <1>1, <1>4, <2>2 DEF GrantsHold, SubscriptionAgreed
<1> QED  BY <1>2, <1>3, <1>4, BrokerReadsEffect

(* Every step: a handler is registered on a grant of the broker in place.   *)
LEMMA GrantsKept ==
  ASSUME Data, Flags, Believed, OneHandler, Peer, GrantsHold, SubscriptionAgreed, [Next]_vars
  PROVE  GrantsHold' /\ SubscriptionAgreed'
<1> USE DEF clientVars, chipVars, netVars, appVars
<1>1. CASE broker' = "down"
  BY <1>1 DEF GrantsHold, SubscriptionAgreed
<1>2. CASE UNCHANGED <<rx, broker>> /\ (connected' => connected) /\ handlers' \in {0, handlers}
  <2>1. handlers' > 0 => handlers > 0
    BY <1>2 DEF Data
  <2> QED  BY <1>2, <2>1 DEF GrantsHold, SubscriptionAgreed
<1>3. CASE TcpAccepted
  <2>1. sr = "SYNSENT" /\ UNCHANGED <<rx, connected>>
    BY <1>3 DEF TcpAccepted
  <2>2. rx = <<>> /\ ~connected
    BY <2>1 DEF Peer, Opening
  <2>3. ~Granted(rx)
    BY <2>2 DEF Granted
  <2> QED  BY <2>1, <2>2, <2>3 DEF GrantsHold, SubscriptionAgreed
<1>4. CASE AwaitConnack \/ AwaitSuback \/ MQTTYield
  <2>1. UNCHANGED broker
    BY <1>4 DEF AwaitConnack, AwaitSuback, MQTTYield
  <2>2. rx' = rx \/ (rx # <<>> /\ rx' = Tail(rx))
    BY <1>4, ReadingSends
  <2>3. Granted(rx') => Granted(rx)
    BY <2>2, GrantedTail DEF Data
  <2>4. CASE AwaitSuback
    <3>1. CASE /\ rx # <<>> /\ Head(rx).type = "SUBACK" /\ Head(rx).n # SUBFAIL
      <4>1. Granted(rx)
        BY <3>1, GrantedTail DEF Data
      <4> QED  BY <2>1, <4>1 DEF GrantsHold, SubscriptionAgreed
    <3>2. CASE UNCHANGED handlers
      <4>1. UNCHANGED connected
        BY <2>4 DEF AwaitSuback
      <4> QED  BY <2>1, <2>3, <3>2, <4>1 DEF GrantsHold, SubscriptionAgreed
    <3> QED  BY <2>4, <3>1, <3>2 DEF AwaitSuback, Readable
  <2>5. CASE AwaitConnack
    <3>1. handlers' = 0
      BY <2>5 DEF AwaitConnack, OneHandler
    <3> QED  BY <2>1, <2>3, <3>1 DEF GrantsHold, SubscriptionAgreed
  <2>6. CASE MQTTYield
    <3>1. UNCHANGED <<connected, handlers>>
      BY <2>6 DEF MQTTYield
    <3> QED  BY <2>1, <2>3, <3>1 DEF GrantsHold, SubscriptionAgreed
  <2> QED  BY <1>4, <2>4, <2>5, <2>6
<1>5. CASE BrokerReads
  BY <1>5, BrokerReadsGrants
<1>6. CASE BrokerPublishes
  <2>1. broker = "subscribed" /\ UNCHANGED broker
    BY <1>6 DEF BrokerPublishes
  <2> QED  BY <2>1 DEF GrantsHold, SubscriptionAgreed
<1>7. CASE LinkBack
  <2>1. UNCHANGED <<rx, connected, handlers>> /\ broker' \in {broker, "down"}
    BY <1>7 DEF LinkBack
  <2> QED  BY <2>1 DEF GrantsHold, SubscriptionAgreed
<1>8. CASE CheckVersion
  <2>1. UNCHANGED <<rx, broker, handlers>> /\ connected
    BY <1>8 DEF CheckVersion, Believed
  <2> QED  BY <2>1 DEF GrantsHold, SubscriptionAgreed
<1> QED
  BY <1>1, <1>2, <1>3, <1>4, <1>5, <1>6, <1>7, <1>8
     DEF Next, MainStep, Timers, Environment, TcpSteps, TcpSip, TcpClose, TcpClosed, TcpOpen,
         TcpOpened, TcpWait, TcpConnect, TcpSent, TcpEstablished, ClientInit, MQTTConnect,
         MQTTSubscribe, SendRequest, MqttLoop, AppPublish, AppDone, ExpireCommand, AnswerLate,
         ExpirePing, ExpireRetry, SpiLost, SpiBack, ChipReset, LinkLost, TcpLost, TcpRefused,
         BrokerCloses, vars

(* A connected device with a handler is subscribed at the broker it is      *)
(* connected to.                                                            *)
THEOREM SubscriptionIsAgreed == Spec => []SubscriptionAgreed
<1>1. Init => GrantsHold /\ SubscriptionAgreed
  BY DEF Init, GrantsHold, SubscriptionAgreed
<1>2. SessionInv /\ GrantsHold /\ SubscriptionAgreed /\ [Next]_vars => GrantsHold' /\ SubscriptionAgreed'
  BY GrantsKept DEF SessionInv, DeliveryInv
<1> QED  BY SessionInit, SessionStep, <1>1, <1>2, PTL DEF Spec

-----------------------------------------------------------------------------
(***************************************************************************)
(* The keep-alive.  In a session an outstanding ping is either on its way  *)
(* to the broker or back, once; otherwise there is none under way.         *)
(***************************************************************************)
OnItsWay(out, in) == \/ Once(out, "PINGREQ") /\ ~Some(in, "PINGRESP")
                     \/ Once(in, "PINGRESP") /\ ~Some(out, "PINGREQ")
NoneUnderWay(out, in) == ~Some(out, "PINGREQ") /\ ~Some(in, "PINGRESP")
Balanced(out, in, flag) == (flag => OnItsWay(out, in)) /\ (~flag => NoneUnderWay(out, in))
PingInv == broker \in {"session", "subscribed"} => Balanced(tx, rx, pingOut)

(* Once stays once when something else is added, *)
LEMMA OnceAppendOther ==
  ASSUME NEW q \in Seq(Packets), NEW p \in Packets, NEW t, p.type # t, Once(q, t)
  PROVE  Once(Append(q, p), t)
<1>1. PICK i \in 1..Len(q) : \A j \in 1..Len(q) : (q[j].type = t) <=> (j = i)
  BY DEF Once
<1>2. /\ Len(Append(q, p)) = Len(q) + 1 /\ Append(q, p)[Len(q) + 1] = p /\ Len(q) \in Nat
      /\ \A j \in 1..Len(q) : Append(q, p)[j] = q[j]
  BY AppendProps
<1>3. i \in 1..Len(Append(q, p)) /\ i # Len(q) + 1
  BY <1>2
<1>4. ASSUME NEW j \in 1..Len(Append(q, p)) PROVE (Append(q, p)[j].type = t) <=> (j = i)
  <2>1. CASE j \in 1..Len(q)
    BY <1>1, <1>2, <2>1
  <2>2. CASE j = Len(q) + 1
    BY <1>2, <1>3, <2>2
  <2> QED  BY <1>2, <2>1, <2>2
<1> QED  BY <1>3, <1>4 DEF Once

(* is once when the first of the type is, *)
LEMMA OnceAppendFirst ==
  ASSUME NEW q \in Seq(Packets), NEW p \in Packets, NEW t, p.type = t, ~Some(q, t)
  PROVE  Once(Append(q, p), t)
<1>1. /\ Len(Append(q, p)) = Len(q) + 1 /\ Append(q, p)[Len(q) + 1] = p /\ Len(q) \in Nat
      /\ \A j \in 1..Len(q) : Append(q, p)[j] = q[j]
  BY AppendProps
<1>2. ASSUME NEW j \in 1..Len(Append(q, p))
      PROVE  (Append(q, p)[j].type = t) <=> (j = Len(q) + 1)
  <2>1. CASE j \in 1..Len(q)
    BY <1>1, <2>1 DEF Some
  <2>2. CASE j = Len(q) + 1
    BY <1>1, <2>2
  <2> QED  BY <1>1, <2>1, <2>2
<1>3. Len(q) + 1 \in 1..Len(Append(q, p))
  BY <1>1
<1> QED  BY <1>2, <1>3 DEF Once

(* and is over when the one of the type is taken. *)
LEMMA OnceTail ==
  ASSUME NEW q \in Seq(Packets), q # <<>>, NEW t, Once(q, t)
  PROVE  IF Head(q).type = t THEN ~Some(Tail(q), t) ELSE Once(Tail(q), t)
<1>1. PICK i \in 1..Len(q) : \A j \in 1..Len(q) : (q[j].type = t) <=> (j = i)
  BY DEF Once
<1>2. /\ Len(q) \in Nat /\ Len(q) > 0 /\ Head(q) = q[1] /\ Len(Tail(q)) = Len(q) - 1
      /\ \A j \in 1..Len(Tail(q)) : Tail(q)[j] = q[j + 1] /\ j + 1 \in 1..Len(q)
  BY TailProps
<1>3. CASE Head(q).type = t
  <2>1. i = 1
    BY <1>1, <1>2, <1>3
  <2>2. \A j \in 1..Len(Tail(q)) : Tail(q)[j].type # t
    BY <1>1, <1>2, <2>1
  <2> QED  BY <1>3, <2>2 DEF Some
<1>4. CASE Head(q).type # t
  <2>1. i # 1 /\ i - 1 \in 1..Len(Tail(q))
    BY <1>1, <1>2, <1>4
  <2>2. \A j \in 1..Len(Tail(q)) : (Tail(q)[j].type = t) <=> (j = i - 1)
    BY <1>1, <1>2
  <2> QED  BY <1>4, <2>1, <2>2 DEF Once
<1> QED  BY <1>3, <1>4

(* The first packet of a buffer is in it. *)
LEMMA SomeHead ==
  ASSUME NEW q \in Seq(Packets), q # <<>>
  PROVE  Some(q, Head(q).type)
<1>1. Head(q) = q[1] /\ 1 \in 1..Len(q)
  BY TailProps
<1> QED  BY <1>1 DEF Some

(* Packets that are no pings do not count. *)
LEMMA BalancedOut ==
  ASSUME NEW out \in Seq(Packets), NEW in, NEW flag, Balanced(out, in, flag),
         NEW p \in Packets, p.type # "PINGREQ"
  PROVE  Balanced(Append(out, p), in, flag)
<1>1. Once(out, "PINGREQ") => Once(Append(out, p), "PINGREQ")
  BY OnceAppendOther
<1>2. Some(Append(out, p), "PINGREQ") => Some(out, "PINGREQ")
  BY SomeAppend
<1> QED  BY <1>1, <1>2 DEF Balanced, OnItsWay, NoneUnderWay

(* On the way back neither. *)
LEMMA BalancedIn ==
  ASSUME NEW out, NEW in \in Seq(Packets), NEW flag, Balanced(out, in, flag),
         NEW p \in Packets, p.type # "PINGRESP"
  PROVE  Balanced(out, Append(in, p), flag)
<1>1. Once(in, "PINGRESP") => Once(Append(in, p), "PINGRESP")
  BY OnceAppendOther
<1>2. Some(Append(in, p), "PINGRESP") => Some(in, "PINGRESP")
  BY SomeAppend
<1> QED  BY <1>1, <1>2 DEF Balanced, OnItsWay, NoneUnderWay

(* Taking a packet from the transmit buffer, a ping apart. *)
LEMMA BalancedSent ==
  ASSUME NEW out \in Seq(Packets), out # <<>>, NEW in, NEW flag, Balanced(out, in, flag),
         Head(out).type # "PINGREQ"
  PROVE  Balanced(Tail(out), in, flag)
<1>1. Once(out, "PINGREQ") => Once(Tail(out), "PINGREQ")
  BY OnceTail
<1>2. Some(Tail(out), "PINGREQ") => Some(out, "PINGREQ")
  BY SomeTail
<1> QED  BY <1>1, <1>2 DEF Balanced, OnItsWay, NoneUnderWay

(* The client reads a packet: PINGRESP is the end of the ping. *)
LEMMA BalancedRead ==
  ASSUME NEW out, NEW in \in Seq(Packets), in # <<>>, NEW flag, Balanced(out, in, flag)
  PROVE  Balanced(out, Tail(in), Head(in).type # "PINGRESP" /\ flag)
<1>1. Some(Tail(in), "PINGRESP") => Some(in, "PINGRESP")
  BY SomeTail
<1>2. CASE Head(in).type = "PINGRESP"
  <2>1. Some(in, "PINGRESP")
    BY <1>2, SomeHead
  <2>2. Once(in, "PINGRESP") => ~Some(Tail(in), "PINGRESP")
    BY <1>2, OnceTail
  <2> QED  BY <1>2, <2>1, <2>2 DEF Balanced, OnItsWay, NoneUnderWay
<1>3. CASE Head(in).type # "PINGRESP"
  <2>1. Once(in, "PINGRESP") => Once(Tail(in), "PINGRESP")
    BY <1>3, OnceTail
  <2> QED  BY <1>1, <1>3, <2>1 DEF Balanced, OnItsWay, NoneUnderWay
<1> QED  BY <1>2, <1>3

(* keepalive sends a ping. *)
LEMMA BalancedPing ==
  ASSUME NEW out \in Seq(Packets), NEW in, NoneUnderWay(out, in)
  PROVE  Balanced(Append(out, PING), in, TRUE)
<1>1. PING \in Packets /\ PING.type = "PINGREQ"
  BY PacketType DEF PING, PacketTypes
<1>2. ~Some(out, "PINGREQ") /\ ~Some(in, "PINGRESP")
  BY DEF NoneUnderWay
<1>3. Once(Append(out, PING), "PINGREQ")
  BY <1>1, <1>2, OnceAppendFirst
<1> QED  BY <1>2, <1>3 DEF Balanced, OnItsWay

(* The broker answers it. *)
LEMMA BalancedAnswer ==
  ASSUME NEW out \in Seq(Packets), out # <<>>, NEW in \in Seq(Packets), NEW flag,
         Balanced(out, in, flag), Head(out).type = "PINGREQ"
  PROVE  Balanced(Tail(out), Append(in, Packet("PINGRESP", 0)), flag)
<1>1. Packet("PINGRESP", 0) \in Packets /\ Packet("PINGRESP", 0).type = "PINGRESP"
  BY PacketType DEF PacketTypes
<1>2. Some(out, "PINGREQ")
  BY SomeHead
<1>3. flag /\ Once(out, "PINGREQ") /\ ~Some(in, "PINGRESP")
  BY <1>2 DEF Balanced, OnItsWay, NoneUnderWay
<1>4. ~Some(Tail(out), "PINGREQ")
  BY <1>3, OnceTail
<1>5. Once(Append(in, Packet("PINGRESP", 0)), "PINGRESP")
  BY <1>1, <1>3, OnceAppendFirst
<1> QED  BY <1>3, <1>4, <1>5 DEF Balanced, OnItsWay

(* A pass of cycle() takes the answer, and pings if none is outstanding. *)
LEMMA ReadingPing ==
  ASSUME Data, Flags, PingInv, AwaitConnack \/ AwaitSuback \/ MQTTYield
  PROVE  PingInv'
<1> SUFFICES ASSUME broker \in {"session", "subscribed"}
             PROVE  Balanced(tx', rx', pingOut')
  BY ReadingSends DEF PingInv
<1>1. rx \in Seq(Packets) /\ tx \in Seq(Packets)
  BY DEF Data
<1>2. Balanced(tx, rx, pingOut)
  BY DEF PingInv
<1> DEFINE Took(p) == \/ rx # <<>> /\ rx' = Tail(rx) /\ p = Head(rx)
                      \/ rx' = rx /\ p.type = "none"
           Sent(p, e) ==
             /\ e = tx \/ e = Append(tx, PUBLICATION)
             /\ \/ tx' = Append(e, PING) /\ pingOut' = TRUE /\ ~(p.type # "PINGRESP" /\ pingOut)
                \/ tx' = e /\ pingOut' = (p.type # "PINGRESP" /\ pingOut)
<1>p. PICK p \in Packets : \E e : Took(p) /\ Sent(p, e)
  BY ReadingSends
<1>e. PICK e : Took(p) /\ Sent(p, e)
  BY <1>p
<1>3. /\ \/ rx # <<>> /\ rx' = Tail(rx) /\ p = Head(rx)
         \/ rx' = rx /\ p.type = "none"
      /\ e = tx \/ e = Append(tx, PUBLICATION)
      /\ \/ tx' = Append(e, PING) /\ pingOut' = TRUE /\ ~(p.type # "PINGRESP" /\ pingOut)
         \/ tx' = e /\ pingOut' = (p.type # "PINGRESP" /\ pingOut)
  BY <1>e
<1> HIDE DEF Took, Sent
<1> DEFINE waiting == p.type # "PINGRESP" /\ pingOut
<1>4. Balanced(tx, rx', waiting)
  <2>1. CASE rx # <<>> /\ rx' = Tail(rx) /\ p = Head(rx)
    BY <1>1, <1>2, <2>1, BalancedRead
  <2>2. CASE rx' = rx /\ p.type = "none"
    BY <1>2, <2>2 DEF Balanced
  <2> QED  BY <1>3, <2>1, <2>2
<1>5. e \in Seq(Packets) /\ Balanced(e, rx', waiting)
  <2>1. PUBLICATION \in Packets /\ PUBLICATION.type # "PINGREQ"
    BY PacketType DEF PUBLICATION, PacketTypes
  <2>2. e = tx \/ e = Append(tx, PUBLICATION)
    BY <1>3
  <2> HIDE DEF waiting
  <2>3. CASE e = tx
    BY <1>1, <1>4, <2>3
  <2>4. CASE e = Append(tx, PUBLICATION)
    BY <1>1, <1>4, <2>1, <2>4, AppendProps, BalancedOut
  <2> QED  BY <2>2, <2>3, <2>4
<1>6. CASE tx' = Append(e, PING) /\ pingOut' = TRUE /\ ~waiting
  <2> HIDE DEF waiting
  <2>1. Balanced(Append(e, PING), rx', TRUE)
    <3>1. NoneUnderWay(e, rx')
      BY <1>5, <1>6 DEF Balanced
    <3> QED  BY <1>5, <3>1, BalancedPing
  <2>2. tx' = Append(e, PING) /\ pingOut'
    BY <1>6
  <2> QED  BY <2>1, <2>2 DEF Balanced
<1>7. CASE tx' = e /\ pingOut' = waiting
  BY <1>5, <1>7
<1>8. \/ tx' = Append(e, PING) /\ pingOut' = TRUE /\ ~waiting
      \/ tx' = e /\ pingOut' = waiting
  BY <1>3
<1> HIDE DEF waiting
<1> QED  BY <1>6, <1>7, <1>8

(* Sending something else does not count. *)
LEMMA SendingPing ==
  ASSUME Data, PingInv, NEW p \in Packets, tx' \in {tx, Append(tx, p)}, p.type # "PINGREQ",
         UNCHANGED <<rx, broker, pingOut>>
  PROVE  PingInv'
<1>1. CASE tx' = tx
  BY <1>1 DEF PingInv
<1>2. CASE tx' = Append(tx, p)
  BY <1>2, BalancedOut DEF PingInv, Data
<1> QED  BY <1>1, <1>2

(* The broker answers a ping once. *)
LEMMA BrokerReadsPing ==
  ASSUME Data, Peer, PingInv, BrokerReads
  PROVE  PingInv'
<1> USE DEF clientVars
<1>1. tx \in Seq(Packets) /\ rx \in Seq(Packets) /\ tx # <<>> /\ UNCHANGED pingOut
  BY BrokerReadsEffect DEF Data
<1>2. CASE broker' \notin {"session", "subscribed"}
  BY <1>2 DEF PingInv
<1>3. CASE /\ Head(tx).type = "CONNECT" /\ broker = "tcp"
           /\ tx' = Tail(tx) /\ rx' = Append(rx, Packet("CONNACK", 0))
  <2>1. rx = <<>> /\ Len(tx) = 1 /\ tx[1].type = "CONNECT" /\ ~pingOut
    BY <1>1, <1>3 DEF Peer, Accepted
  <2>2. \A i \in 1..Len(tx) : tx[i].type # "PINGREQ"
    BY <2>1
  <2>3. Balanced(tx, rx, pingOut)
    BY <2>1, <2>2, SomeEmpty DEF Balanced, NoneUnderWay, Some
  <2>4. Packet("CONNACK", 0) \in Packets /\ Packet("CONNACK", 0).type = "CONNACK"
    BY PacketType DEF PacketTypes
  <2>5. Balanced(Tail(tx), rx, pingOut)
    BY <1>1, <1>3, <2>3, BalancedSent
  <2>6. Balanced(Tail(tx), Append(rx, Packet("CONNACK", 0)), pingOut)
    BY <1>1, <2>4, <2>5, BalancedIn
  <2> QED  BY <1>1, <1>3, <2>6 DEF PingInv
<1>4. CASE /\ Head(tx).type = "PINGREQ" /\ broker \in {"session", "subscribed"}
           /\ tx' = Tail(tx) /\ rx' = Append(rx, Packet("PINGRESP", 0))
  BY <1>1, <1>4, BalancedAnswer DEF PingInv
<1>5. CASE /\ Head(tx).type \in {"SUBSCRIBE", "PUBLISH"} /\ broker \in {"session", "subscribed"}
           /\ tx' = Tail(tx)
           /\ \/ UNCHANGED rx
              \/ rx' = Append(rx, Packet("SUBACK", 0))
              \/ rx' = Append(rx, Packet("SUBACK", SUBFAIL))
  <2>1. Balanced(Tail(tx), rx, pingOut)
    BY <1>1, <1>5, BalancedSent DEF PingInv
  <2>2. /\ Packet("SUBACK", 0) \in Packets /\ Packet("SUBACK", 0).type = "SUBACK"
        /\ Packet("SUBACK", SUBFAIL) \in Packets /\ Packet("SUBACK", SUBFAIL).type = "SUBACK"
    BY PacketType DEF PacketTypes, SUBFAIL
  <2>3. Balanced(Tail(tx), rx', pingOut)
    BY <1>1, <1>5, <2>1, <2>2, BalancedIn
  <2> QED  BY <1>1, <1>5, <2>3 DEF PingInv
<1> QED  BY <1>2, <1>3, <1>4, <1>5, BrokerReadsEffect

(* Every step keeps the balance. *)
LEMMA PingKept ==
  ASSUME Data, Flags, Peer, PingInv, [Next]_vars
  PROVE  PingInv'
<1> USE DEF clientVars, chipVars, netVars, appVars
<1>1. CASE UNCHANGED <<tx, rx, pingOut>> /\ broker' \in {broker, "down", "tcp"}
  BY <1>1 DEF PingInv
<1>2. CASE broker' = "down"
  BY <1>2 DEF PingInv
<1>3. CASE ClientInit
  BY <1>3 DEF ClientInit, PingInv, Peer, FirstTurn
<1>4. CASE MQTTConnect \/ MQTTSubscribe
  <2>1. /\ Packet("CONNECT", 0) \in Packets /\ Packet("CONNECT", 0).type = "CONNECT"
        /\ Packet("SUBSCRIBE", 0) \in Packets /\ Packet("SUBSCRIBE", 0).type = "SUBSCRIBE"
    BY PacketType DEF PacketTypes
  <2>2. ASSUME NEW t, NEW onSent, SendRequest(t, onSent)
        PROVE  tx' \in {tx, Append(tx, Packet(t, 0))} /\ UNCHANGED <<rx, broker, pingOut>>
    BY <2>2, SendsOutcome DEF SendRequest
  <2> QED  BY <1>4, <2>1, <2>2, SendingPing DEF MQTTConnect, MQTTSubscribe
<1>5. CASE AppPublish
  <2>1. PUBLICATION \in Packets /\ PUBLICATION.type = "PUBLISH"
    BY PacketType DEF PUBLICATION, PacketTypes
  <2>2. tx' \in {tx, Append(tx, PUBLICATION)} /\ UNCHANGED <<rx, broker, pingOut>>
    BY <1>5, SendsOutcome DEF AppPublish, PUBLICATION
  <2> QED  BY <2>1, <2>2, SendingPing
<1>6. CASE AwaitConnack \/ AwaitSuback \/ MQTTYield
  BY <1>6, ReadingPing
<1>7. CASE BrokerReads
  BY <1>7, BrokerReadsPing
<1>8. CASE BrokerPublishes
  <2>1. /\ rx' = Append(rx, Packet("PUBLISH", published + 1))
        /\ UNCHANGED <<tx, broker, pingOut>>
    BY <1>8 DEF BrokerPublishes
  <2>2. /\ Packet("PUBLISH", published + 1) \in Packets
        /\ Packet("PUBLISH", published + 1).type = "PUBLISH"
    BY PacketType DEF PacketTypes, Data
  <2> QED  BY <2>1, <2>2, BalancedIn DEF PingInv, Data
<1> QED
  BY <1>1, <1>2, <1>3, <1>4, <1>5, <1>6, <1>7, <1>8
     DEF Next, MainStep, Timers, Environment, TcpSteps, TcpSip, TcpClose, TcpClosed, TcpOpen,
         TcpOpened, TcpWait, TcpConnect, TcpSent, TcpEstablished, MqttLoop,
         CheckVersion, AppDone, ExpireCommand, AnswerLate, ExpirePing,
         ExpireRetry, SpiLost, SpiBack, ChipReset, LinkLost, LinkBack, TcpLost, TcpAccepted,
         TcpRefused, BrokerCloses, vars

(* An outstanding ping is under way, there or back, and there is no other;  *)
(* the client never waits for an answer that cannot come while the session  *)
(* lasts.                                                                   *)
THEOREM PingsAccounted == Spec => []PingAccounted
<1>1. Init => PingInv
  BY DEF Init, PingInv
<1>2. SessionInv /\ PingInv /\ [Next]_vars => PingInv'
  BY PingKept DEF SessionInv, DeliveryInv
<1>3. ASSUME NEW q, NEW t
      PROVE  /\ ~Some(q, t) => Among(q, t) = {}
             /\ Once(q, t) => \E i \in Among(q, t) : Among(q, t) = {i}
  <2>1. ~Some(q, t) => Among(q, t) = {}
    BY DEF Some, Among
  <2>2. ASSUME Once(q, t) PROVE \E i \in Among(q, t) : Among(q, t) = {i}
    <3>1. PICK i \in 1..Len(q) : \A j \in 1..Len(q) : (q[j].type = t) <=> (j = i)
      BY <2>2 DEF Once
    <3>2. i \in Among(q, t) /\ Among(q, t) = {i}
      BY <3>1 DEF Among
    <3> QED  BY <3>2
  <2> QED  BY <2>1, <2>2
<1>4. PingInv => PingAccounted
  BY <1>3 DEF PingInv, Balanced, OnItsWay, NoneUnderWay, PingAccounted
<1> QED  BY SessionInit, SessionStep, <1>1, <1>2, <1>4, PTL DEF Spec
=============================================================================
