---------------------------- MODULE MqttSession ----------------------------
(***************************************************************************)
(* The MQTT session of the device: mqtt_init and mqtt_loop of              *)
(* BSP/mqtt_app.c, the client library under them (MQTTClient.c, with       *)
(* mqtt_interface.c and the TCP part of socket.c), run by the main loop of *)
(* Core/Src/main.c.  The client is one sequential program; around it move  *)
(* the W5500 with its SPI link, the network and the broker, which may act  *)
(* between any two of its steps.  A packet is read or written whole.       *)
(***************************************************************************)
EXTENDS Naturals, Sequences

CONSTANTS MaxRx,      \* packets the W5500 receive buffer holds
          MaxTx,      \* packets its transmit buffer holds
          MaxPub,     \* control messages the broker forwards
          Commands,   \* those of them that spell a device command
          Faults,     \* kinds of faults the environment may produce
          MaxFaults   \* how many of them

FaultKinds == {"close", "earlyclose", "vanish", "slow", "refuse", "spi", "reset"}

ASSUME BoundsAssumption ==
  /\ MaxRx \in Nat \ {0} /\ MaxTx \in Nat \ {0}
  /\ MaxPub \in Nat /\ MaxFaults \in Nat
  /\ Commands \subseteq 1..MaxPub /\ Faults \subseteq FaultKinds

VARIABLES
  pc,         \* where the main program is
  connected,  \* g_MQTTclient.isconnected
  handlers,   \* messageHandlers[] slots holding messageArrived
  pingOut,    \* g_MQTTclient.ping_outstanding
  due,        \* timers that have expired: "ping", "command", "retry"
  chip,       \* what the SPI returns: "up", or all bits "low" or "high"
  sip,        \* whether SIPR holds the address w5500_init wrote
  sr,         \* Sn_SR of MQTT_SOCKET
  rx,         \* packets in its receive buffer
  tx,         \* packets sent that the broker has not taken yet
  link,       \* whether segments travel between W5500 and broker
  broker,     \* the broker's side of this TCP connection
  published,  \* control messages forwarded so far
  lastRun,    \* the youngest of them messageArrived has handled
  runs,       \* how often messageArrived has run
  faults      \* faults so far

clientVars == <<connected, handlers, pingOut>>
chipVars   == <<chip, sip, sr>>
netVars    == <<link, broker, published>>
appVars    == <<lastRun, runs>>
vars == <<pc, clientVars, due, chipVars, rx, tx, netVars, appVars, faults>>

MAX_MESSAGE_HANDLERS == 5

Steps == {"tcp_sip", "tcp_close", "tcp_closed", "tcp_open", "tcp_opened", "tcp_wait",
          "tcp_connect", "tcp_sent", "tcp_est", "init", "connect", "connack", "subscribe", "suback",
          "loop", "yield", "version", "app"}

(* n is a return code for CONNACK and SUBACK, a number for a PUBLISH in rx. *)
PacketTypes == {"CONNECT", "CONNACK", "SUBSCRIBE", "SUBACK", "PUBLISH",
                "PINGREQ", "PINGRESP"}
Packet(t, n) == [type |-> t, n |-> n]
Packets == [type : PacketTypes \cup {"none"}, n : Nat]
Nothing == Packet("none", 0)
REFUSED == 5
SUBFAIL == 128

Open == {"ESTABLISHED", "CLOSE_WAIT"}

TypeOK ==
  /\ pc \in Steps
  /\ connected \in BOOLEAN /\ pingOut \in BOOLEAN
  /\ handlers \in 0..MAX_MESSAGE_HANDLERS
  /\ due \subseteq {"ping", "command", "retry"}
  /\ chip \in {"up", "low", "high"} /\ sip \in BOOLEAN
  /\ sr \in {"CLOSED", "INIT", "SYNSENT"} \cup Open
  /\ rx \in Seq(Packets) /\ Len(rx) <= MaxRx
  /\ tx \in Seq(Packets) /\ Len(tx) <= MaxTx
  /\ link \in BOOLEAN
  /\ broker \in {"down", "tcp", "refused", "session", "subscribed"}
  /\ published \in 0..MaxPub /\ lastRun \in 0..MaxPub /\ runs \in Nat
  /\ faults \in 0..MaxFaults

(* The first statement of main after w5500_init that matters: mqtt_init(). *)
Init ==
  /\ pc = "tcp_sip" /\ connected = FALSE /\ handlers = 0 /\ pingOut = FALSE
  /\ due = {} /\ chip = "up" /\ sip = TRUE /\ sr = "CLOSED"
  /\ rx = <<>> /\ tx = <<>> /\ link = TRUE /\ broker = "down"
  /\ published = 0 /\ lastRun = 0 /\ runs = 0 /\ faults = 0

-----------------------------------------------------------------------------
(* sendPacket over w5x00_write over send.                                   *)

(* Mutant: send() without the test of the free size. *)
WritableUnchecked(q) == chip = "up" /\ sr \in Open

(* send() accepts a packet: socket open, room in the buffer. *)
Writable(q) == chip = "up" /\ sr \in Open /\ Len(q) < MaxTx

(* The outcomes of sendPacket with q in the buffer: the buffer and success. *)
(* While earlier data stays unacknowledged send() answers SOCK_BUSY, and    *)
(* sendPacket gives up when its timer runs out.                             *)
Sends(q, p) ==
  (IF Writable(q) THEN {[buf |-> Append(q, p), ok |-> TRUE]} ELSE {})
    \cup (IF ~Writable(q) \/ (~link /\ q # <<>>) THEN {[buf |-> q, ok |-> FALSE]} ELSE {})

(* A packet that was sent restarts the ping timer. *)
Restart(timers, ok) == IF ok THEN timers \ {"ping"} ELSE timers

-----------------------------------------------------------------------------
(* socket() and connect() of ConnectNetwork.  A register reads 0x00 or 0xFF *)
(* throughout while the SPI is out, and writes get lost; each wait loop is  *)
(* a guard, so a loop that spins for good is a step that stays disabled.    *)

(* Mutant: a socket that is still established is used again. *)
TcpReused ==
  /\ pc = "tcp_sip"
  /\ pc' = IF chip = "up" /\ sr = "ESTABLISHED" THEN "init" ELSE "tcp_close"
  /\ UNCHANGED <<clientVars, due, chipVars, rx, tx, netVars, appVars, faults>>

(* getSIPR: an all-zero address ends socket() with SOCKERR_SOCKINIT. *)
TcpSip ==
  /\ pc = "tcp_sip"
  /\ pc' = IF chip = "high" \/ (chip = "up" /\ sip) THEN "tcp_close" ELSE "app"
  /\ UNCHANGED <<clientVars, due, chipVars, rx, tx, netVars, appVars, faults>>

(* close(): setSn_CR(sn, Sn_CR_CLOSE) and the driver's own flags; then       *)
(* while (getSn_CR(sn)); ... while (getSn_SR(sn) != SOCK_CLOSED);            *)
TcpClose ==
  /\ pc = "tcp_close"
  /\ pc' = "tcp_closed"
  /\ IF chip = "up"
       THEN sr' = "CLOSED" /\ rx' = <<>> /\ tx' = <<>> /\ broker' = "down"
       ELSE UNCHANGED <<sr, rx, tx, broker>>
  /\ UNCHANGED <<clientVars, due, chip, sip, link, published, appVars, faults>>

TcpClosed ==
  /\ pc = "tcp_closed"
  /\ chip = "low" \/ (chip = "up" /\ sr = "CLOSED")
  /\ pc' = "tcp_open"
  /\ UNCHANGED <<clientVars, due, chipVars, rx, tx, netVars, appVars, faults>>

(* setSn_MR, setSn_PORTR, setSn_CR(sn, Sn_CR_OPEN); while (getSn_CR(sn));    *)
(* Opening a socket whose close was lost may or may not take effect.         *)
TcpOpen ==
  /\ pc = "tcp_open"
  /\ pc' = "tcp_opened"
  /\ \/ /\ chip = "up"
        /\ sr' = "INIT" /\ rx' = <<>> /\ tx' = <<>> /\ broker' = "down"
     \/ (chip # "up" \/ sr # "CLOSED") /\ UNCHANGED <<sr, rx, tx, broker>>
  /\ UNCHANGED <<clientVars, due, chip, sip, link, published, appVars, faults>>

TcpOpened ==
  /\ pc = "tcp_opened" /\ chip # "high"
  /\ pc' = "tcp_wait"
  /\ UNCHANGED <<clientVars, due, chipVars, rx, tx, netVars, appVars, faults>>

(* while (getSn_SR(sn) == SOCK_CLOSED); *)
TcpWait ==
  /\ pc = "tcp_wait"
  /\ chip = "high" \/ (chip = "up" /\ sr # "CLOSED")
  /\ pc' = "tcp_connect"
  /\ UNCHANGED <<clientVars, due, chipVars, rx, tx, netVars, appVars, faults>>

(* connect(): the CHECK_ macros, Sn_CR_CONNECT, while (getSn_CR(sn)); *)
TcpConnect ==
  /\ pc = "tcp_connect"
  /\ IF chip = "up" /\ sr = "INIT"
       THEN pc' = "tcp_sent" /\ sr' = "SYNSENT"
       ELSE pc' = "app" /\ UNCHANGED sr
  /\ UNCHANGED <<clientVars, due, chip, sip, rx, tx, netVars, appVars, faults>>

TcpSent ==
  /\ pc = "tcp_sent" /\ chip # "high"
  /\ pc' = "tcp_est"
  /\ UNCHANGED <<clientVars, due, chipVars, rx, tx, netVars, appVars, faults>>

(* while (getSn_SR(sn) != SOCK_ESTABLISHED): leaves on TIMEOUT or CLOSED.   *)
(* A dead SPI reads as one of these two.                                    *)
TcpEstablished ==
  /\ pc = "tcp_est"
  /\ \/ chip = "up" /\ sr = "ESTABLISHED" /\ pc' = "init"
     \/ (chip # "up" \/ sr = "CLOSED") /\ pc' = "app"
  /\ UNCHANGED <<clientVars, due, chipVars, rx, tx, netVars, appVars, faults>>

TcpSteps == TcpSip \/ TcpClose \/ TcpClosed \/ TcpOpen \/ TcpOpened \/ TcpWait
              \/ TcpConnect \/ TcpSent \/ TcpEstablished

-----------------------------------------------------------------------------
(* MQTTClientInit, MQTTConnect, MQTTSubscribe and the waits for an answer.  *)

(* Mutant: messageHandlers[] is not cleared. *)
ClientInitKeepsHandlers ==
  /\ pc = "init"
  /\ pc' = "connect"
  /\ connected' = FALSE /\ pingOut' = FALSE
  /\ UNCHANGED <<handlers, due, chipVars, rx, tx, netVars, appVars, faults>>

(* MQTTClientInit: every field of the client starts over. *)
ClientInit ==
  /\ pc = "init"
  /\ pc' = "connect"
  /\ connected' = FALSE /\ handlers' = 0 /\ pingOut' = FALSE
  /\ UNCHANGED <<due, chipVars, rx, tx, netVars, appVars, faults>>

(* Both calls start a command timer, send their packet and wait. *)
SendRequest(type, onSent) ==
  /\ \E s \in Sends(tx, Packet(type, 0)) :
       /\ tx' = s.buf
       /\ due' = Restart(due \ {"command"}, s.ok)
       /\ pc' = IF s.ok THEN onSent ELSE "app"
  /\ UNCHANGED <<clientVars, chipVars, rx, netVars, appVars, faults>>

MQTTConnect   == pc = "connect" /\ SendRequest("CONNECT", "connack")
MQTTSubscribe == pc = "subscribe" /\ SendRequest("SUBSCRIBE", "suback")

(* Mutant: recv() refuses data left behind by a peer that has closed. *)
ReadableOpenOnly == chip = "up" /\ sr = "ESTABLISHED" /\ rx # <<>>

(* readPacket finds a packet: RX_RSR is not zero and recv() accepts. *)
Readable == chip = "up" /\ sr \in Open /\ rx # <<>>

(* Mutant: a second ping although the first is outstanding. *)
KeepaliveInsists(buf, timers, waiting) ==
  IF "ping" \in timers
    THEN \E s \in Sends(buf, Packet("PINGREQ", 0)) :
           tx' = s.buf /\ pingOut' = (s.ok \/ waiting) /\ due' = Restart(timers, s.ok)
    ELSE tx' = buf /\ pingOut' = waiting /\ due' = timers

(* keepalive(): PINGREQ when the ping timer is due and none is outstanding. *)
Keepalive(buf, timers, waiting) ==
  IF "ping" \in timers /\ ~waiting
    THEN \E s \in Sends(buf, Packet("PINGREQ", 0)) :
           tx' = s.buf /\ pingOut' = s.ok /\ due' = Restart(timers, s.ok)
    ELSE tx' = buf /\ pingOut' = waiting /\ due' = timers

(* deliverMessage: every handler slot whose filter matches is called. *)
Deliveries(p) == IF p.type = "PUBLISH" THEN handlers ELSE 0

(* messageArrived: a device command is executed, anything else is echoed,   *)
(* which MQTTPublish refuses on a session that is not connected.            *)
MessageArrived(p) ==
  IF p.n \notin Commands /\ connected
    THEN Sends(tx, Packet("PUBLISH", 0))
    ELSE {[buf |-> tx, ok |-> FALSE]}

(* cycle() with packet p, or with Nothing read: dispatch, then keepalive(). *)
Cycle(p) ==
  LET calls == Deliveries(p)
      echoes == IF calls > 0 THEN MessageArrived(p) ELSE {[buf |-> tx, ok |-> FALSE]}
      waiting == p.type # "PINGRESP" /\ pingOut
  IN  /\ runs' = runs + calls
      /\ lastRun' = IF calls > 0 THEN p.n ELSE lastRun
      /\ \E echo \in echoes :
           Keepalive(echo.buf, Restart(due, echo.ok), waiting)

(* Mutant: the return code in CONNACK is ignored. *)
AwaitAnyConnack ==
  /\ pc = "connack"
  /\ \/ /\ Readable /\ "command" \notin due
        /\ rx' = Tail(rx) /\ Cycle(Head(rx))
        /\ IF Head(rx).type = "CONNACK"
             THEN connected' = TRUE /\ pc' = "subscribe"
             ELSE UNCHANGED <<connected, pc>>
     \/ /\ "command" \in due
        /\ pc' = "app"
        /\ UNCHANGED <<connected, pingOut, due, rx, tx, appVars>>
  /\ UNCHANGED <<handlers, chipVars, netVars, faults>>

(* Mutant: waitfor() sets the command timer anew in every turn. *)
AwaitConnackForever ==
  /\ pc = "connack"
  /\ \/ /\ Readable /\ "command" \notin due
        /\ rx' = Tail(rx) /\ Cycle(Head(rx))
        /\ IF Head(rx).type = "CONNACK"
             THEN /\ connected' = (Head(rx).n = 0)
                  /\ pc' = IF Head(rx).n = 0 THEN "subscribe" ELSE "app"
             ELSE UNCHANGED <<connected, pc>>
     \/ /\ "command" \in due /\ due' = due \ {"command"}
        /\ UNCHANGED <<pc, connected, pingOut, rx, tx, appVars>>
  /\ UNCHANGED <<handlers, chipVars, netVars, faults>>

(* waitfor(): cycle until the answer comes or the command timer expires.    *)
(* Within a wait the ping timer cannot expire: it runs 60 s, a command 5 s, *)
(* and sending the request restarted it; so an empty cycle changes nothing. *)
AwaitConnack ==
  /\ pc = "connack"
  /\ \/ /\ Readable /\ "command" \notin due
        /\ rx' = Tail(rx) /\ Cycle(Head(rx))
        /\ IF Head(rx).type = "CONNACK"
             THEN /\ connected' = (Head(rx).n = 0)
                  /\ pc' = IF Head(rx).n = 0 THEN "subscribe" ELSE "app"
             ELSE UNCHANGED <<connected, pc>>
     \/ /\ "command" \in due
        /\ pc' = "app"
        /\ UNCHANGED <<connected, pingOut, due, rx, tx, appVars>>
  /\ UNCHANGED <<handlers, chipVars, netVars, faults>>

(* Mutant: the grant in SUBACK is not looked at. *)
AwaitAnySuback ==
  /\ pc = "suback"
  /\ \/ /\ Readable /\ "command" \notin due
        /\ rx' = Tail(rx) /\ Cycle(Head(rx))
        /\ IF Head(rx).type = "SUBACK"
             THEN /\ pc' = "app"
                  /\ handlers' = IF handlers < MAX_MESSAGE_HANDLERS
                                   THEN handlers + 1 ELSE handlers
             ELSE UNCHANGED <<handlers, pc>>
     \/ /\ "command" \in due
        /\ pc' = "app"
        /\ UNCHANGED <<handlers, pingOut, due, rx, tx, appVars>>
  /\ UNCHANGED <<connected, chipVars, netVars, faults>>

(* The handler is registered in a free slot when SUBACK grants the topic;   *)
(* whatever MQTTSubscribe returns, mqtt_init ends and stays connected.      *)
AwaitSuback ==
  /\ pc = "suback"
  /\ \/ /\ Readable /\ "command" \notin due
        /\ rx' = Tail(rx) /\ Cycle(Head(rx))
        /\ IF Head(rx).type = "SUBACK"
             THEN /\ pc' = "app"
                  /\ handlers' = IF Head(rx).n # SUBFAIL /\ handlers < MAX_MESSAGE_HANDLERS
                                   THEN handlers + 1 ELSE handlers
             ELSE UNCHANGED <<handlers, pc>>
     \/ /\ "command" \in due
        /\ pc' = "app"
        /\ UNCHANGED <<handlers, pingOut, due, rx, tx, appVars>>
  /\ UNCHANGED <<connected, chipVars, netVars, faults>>

-----------------------------------------------------------------------------
(* The main loop: mqtt_loop, then Sensor_task and key_control.              *)

(* Mutant: no second attempt to connect. *)
MqttLoopNoRetry ==
  /\ pc = "loop"
  /\ pc' = IF connected THEN "yield" ELSE "app"
  /\ UNCHANGED <<clientVars, due, chipVars, rx, tx, netVars, appVars, faults>>

(* A connected session is served; otherwise mqtt_init runs every 5 s. *)
MqttLoop ==
  /\ pc = "loop"
  /\ pc' = IF connected THEN "yield" ELSE IF "retry" \in due THEN "tcp_sip" ELSE "app"
  /\ due' = IF connected THEN due ELSE due \ {"retry"}
  /\ UNCHANGED <<clientVars, chipVars, rx, tx, netVars, appVars, faults>>

(* MQTTYield(&g_MQTTclient, 50): one cycle; its result is not looked at. *)
MQTTYield ==
  /\ pc = "yield"
  /\ pc' = "version"
  /\ IF Readable THEN rx' = Tail(rx) /\ Cycle(Head(rx))
                 ELSE rx' = rx /\ Cycle(Nothing)
  /\ UNCHANGED <<connected, handlers, chipVars, netVars, faults>>

(* if (getVERSIONR() != 0x04) isconnected = 0; *)
CheckVersion ==
  /\ pc = "version"
  /\ pc' = "app" /\ connected' = (chip = "up")
  /\ UNCHANGED <<handlers, pingOut, due, chipVars, rx, tx, netVars, appVars, faults>>

(* Sensor_task and key_control publish any number of QoS 0 messages.        *)
AppPublish ==
  /\ pc = "app" /\ connected
  /\ \E s \in Sends(tx, Packet("PUBLISH", 0)) : tx' = s.buf /\ due' = Restart(due, s.ok)
  /\ UNCHANGED <<pc, clientVars, chipVars, rx, netVars, appVars, faults>>

AppDone ==
  /\ pc = "app"
  /\ pc' = "loop"
  /\ UNCHANGED <<clientVars, due, chipVars, rx, tx, netVars, appVars, faults>>

MainStep == TcpSteps \/ ClientInit \/ MQTTConnect \/ AwaitConnack \/ MQTTSubscribe
              \/ AwaitSuback \/ MqttLoop \/ MQTTYield \/ CheckVersion
              \/ AppPublish \/ AppDone

-----------------------------------------------------------------------------
(* Time.                                                                    *)

Fault(kind) == kind \in Faults /\ faults < MaxFaults /\ faults' = faults + 1

(* No answer can come any more, unless something else changes first. *)
Hopeless == ~Readable /\ (chip # "up" \/ ~link \/ broker \in {"down", "refused"})

(* The 5 s of a command pass: the peer is gone, or ("slow") merely late. *)
Waiting == pc \in {"connack", "suback"} /\ "command" \notin due

ExpireCommand ==
  /\ Waiting /\ Hopeless
  /\ due' = due \cup {"command"}
  /\ UNCHANGED <<pc, clientVars, chipVars, rx, tx, netVars, appVars, faults>>

AnswerLate ==
  /\ Waiting /\ ~Hopeless /\ Fault("slow")
  /\ due' = due \cup {"command"}
  /\ UNCHANGED <<pc, clientVars, chipVars, rx, tx, netVars, appVars>>

(* keepAliveInterval has passed since the last packet was sent. *)
ExpirePing ==
  /\ connected /\ pc \notin {"subscribe", "suback"} /\ "ping" \notin due
  /\ due' = due \cup {"ping"}
  /\ UNCHANGED <<pc, clientVars, chipVars, rx, tx, netVars, appVars, faults>>

(* 5 s since last_reconnect_tick. *)
ExpireRetry ==
  /\ "retry" \notin due
  /\ due' = due \cup {"retry"}
  /\ UNCHANGED <<pc, clientVars, chipVars, rx, tx, netVars, appVars, faults>>

-----------------------------------------------------------------------------
(* W5500 and SPI, network, broker: the environment.                         *)

SpiLost ==
  /\ chip = "up" /\ Fault("spi")
  /\ chip' \in {"low", "high"}
  /\ UNCHANGED <<pc, clientVars, due, sip, sr, rx, tx, netVars, appVars>>

SpiBack ==
  /\ chip # "up"
  /\ chip' = "up"
  /\ UNCHANGED <<pc, clientVars, due, sip, sr, rx, tx, netVars, appVars, faults>>

(* The W5500 restarts, by a brown-out say: all its registers are at reset. *)
ChipReset ==
  /\ Fault("reset")
  /\ sip' = FALSE /\ sr' = "CLOSED" /\ rx' = <<>> /\ tx' = <<>> /\ broker' = "down"
  /\ UNCHANGED <<pc, clientVars, due, chip, link, published, appVars>>

LinkLost ==
  /\ link /\ Fault("vanish")
  /\ link' = FALSE
  /\ UNCHANGED <<pc, clientVars, due, chipVars, rx, tx, broker, published, appVars>>

(* After a long outage the broker has dropped the connection. *)
LinkBack ==
  /\ ~link
  /\ link' = TRUE /\ broker' \in {broker, "down"}
  /\ UNCHANGED <<pc, clientVars, due, chipVars, rx, tx, published, appVars, faults>>

(* The W5500 gives up retransmitting, or its segment meets no connection.   *)
TcpLost ==
  /\ sr \in Open /\ tx # <<>> /\ (~link \/ broker = "down")
  /\ sr' = "CLOSED" /\ tx' = <<>> /\ broker' = "down"
  /\ UNCHANGED <<pc, clientVars, due, chip, sip, rx, link, published, appVars, faults>>

TcpAccepted ==
  /\ sr = "SYNSENT" /\ link
  /\ sr' = "ESTABLISHED" /\ broker' = "tcp"
  /\ UNCHANGED <<pc, clientVars, due, chip, sip, rx, tx, link, published, appVars, faults>>

TcpRefused ==
  /\ sr = "SYNSENT"
  /\ \/ ~link /\ UNCHANGED faults
     \/ link /\ Fault("refuse")
  /\ sr' = "CLOSED"
  /\ UNCHANGED <<pc, clientVars, due, chip, sip, rx, tx, netVars, appVars>>

(* The broker reads the next packet; a request is granted or refused, and a *)
(* packet out of place makes it drop the connection.                        *)
BrokerReads ==
  /\ link /\ broker # "down" /\ tx # <<>> /\ Len(rx) < MaxRx
  /\ LET p == Head(tx)
         Grant(type, code, state) ==
           /\ rx' = Append(rx, Packet(type, code)) /\ broker' = state
           /\ tx' = Tail(tx) /\ UNCHANGED sr
     IN  \/ /\ p.type = "CONNECT" /\ broker = "tcp"
            /\ \/ Grant("CONNACK", 0, "session") /\ UNCHANGED faults
               \/ Fault("refuse") /\ Grant("CONNACK", REFUSED, "refused")
         \/ /\ p.type = "SUBSCRIBE" /\ broker \in {"session", "subscribed"}
            /\ \/ Grant("SUBACK", 0, "subscribed") /\ UNCHANGED faults
               \/ Fault("refuse") /\ Grant("SUBACK", SUBFAIL, broker)
         \/ /\ p.type = "PINGREQ" /\ broker \in {"session", "subscribed"}
            /\ Grant("PINGRESP", 0, broker) /\ UNCHANGED faults
         \/ /\ p.type = "PUBLISH" /\ broker \in {"session", "subscribed"}
            /\ tx' = Tail(tx) /\ UNCHANGED <<rx, sr, broker, faults>>
         \/ /\ broker = "refused" \/ (p.type = "CONNECT") # (broker = "tcp")
            /\ tx' = <<>> /\ sr' = "CLOSE_WAIT" /\ broker' = "down"
            /\ UNCHANGED <<rx, faults>>
  /\ UNCHANGED <<pc, clientVars, due, chip, sip, link, published, appVars>>

(* A control message reaches the device. *)
BrokerPublishes ==
  /\ link /\ broker = "subscribed" /\ published < MaxPub /\ Len(rx) < MaxRx
  /\ published' = published + 1
  /\ rx' = Append(rx, Packet("PUBLISH", published + 1))
  /\ UNCHANGED <<pc, clientVars, due, chipVars, tx, link, broker, appVars, faults>>

(* The broker closes: after a refusal, on a restart, or ("earlyclose") with *)
(* the TCP connection hardly accepted.                                      *)
BrokerCloses ==
  /\ link
  /\ \/ broker = "refused" /\ UNCHANGED faults
     \/ broker \in {"session", "subscribed"} /\ Fault("close")
     \/ broker = "tcp" /\ Fault("earlyclose")
  /\ sr' = "CLOSE_WAIT" /\ tx' = <<>> /\ broker' = "down"
  /\ UNCHANGED <<pc, clientVars, due, chip, sip, rx, link, published, appVars>>

Environment == SpiLost \/ SpiBack \/ ChipReset \/ LinkLost \/ LinkBack \/ TcpLost
                 \/ TcpAccepted \/ TcpRefused \/ BrokerReads \/ BrokerPublishes \/ BrokerCloses

Timers == ExpireCommand \/ AnswerLate \/ ExpirePing \/ ExpireRetry

Next == MainStep \/ Timers \/ Environment

(* The CPU keeps running and SysTick counting; a pass of the main loop      *)
(* publishes finitely often; outages end, and a broker that is up answers.  *)
Fairness ==
  /\ WF_vars(MainStep) /\ WF_vars(AppDone)
  /\ WF_vars(ExpireCommand) /\ WF_vars(ExpireRetry)
  /\ WF_vars(SpiBack) /\ WF_vars(LinkBack) /\ WF_vars(TcpLost)
  /\ WF_vars(TcpAccepted) /\ WF_vars(BrokerReads)

Spec == Init /\ [][Next]_vars
FairSpec == Spec /\ Fairness

-----------------------------------------------------------------------------
(* Safety.                                                                  *)

(* MQTTConnect sets isconnected only on an accepting CONNACK, and every new *)
(* connection starts from MQTTClientInit: the device never takes itself for *)
(* connected while the broker at the other end of this TCP connection has   *)
(* refused it or has not seen its CONNECT.                                  *)
SessionAgreed == connected /\ broker # "down" => broker \in {"session", "subscribed"}

(* MQTTSubscribe registers messageArrived only when SUBACK grants the topic *)
(* and MQTTClientInit takes it out again: a device that counts as connected *)
(* and has a handler is subscribed at the broker it is connected to, not    *)
(* by a grant of an older session.                                          *)
SubscriptionAgreed ==
  connected /\ handlers > 0 /\ broker # "down" => broker = "subscribed"

(* Over the reconnects of mqtt_loop, CONNECT is the first packet on every   *)
(* TCP connection and comes once; nothing of an older connection precedes it.*)
ConnectFirst ==
  broker # "down" =>
    \A i \in 1..Len(tx) : (tx[i].type = "CONNECT") <=> (i = 1 /\ broker = "tcp")

(* keepalive pings only when ping_outstanding is clear and cycle clears it  *)
(* on PINGRESP: an outstanding ping is on its way there or back, and there  *)
(* is never a second one.  Were the flag up with no ping under way, the     *)
(* client would never ping again and the broker would drop it.              *)
Among(q, type) == {i \in 1..Len(q) : q[i].type = type}

PingAccounted ==
  broker \in {"session", "subscribed"} =>
    IF pingOut THEN \/ \E i \in Among(tx, "PINGREQ") : Among(tx, "PINGREQ") = {i} /\ Among(rx, "PINGRESP") = {}
                    \/ \E i \in Among(rx, "PINGRESP") : Among(rx, "PINGRESP") = {i} /\ Among(tx, "PINGREQ") = {}
               ELSE Among(tx, "PINGREQ") = {} /\ Among(rx, "PINGRESP") = {}

(* Control messages are handled at most once and in order, whatever fails.  *)
Delivery == INSTANCE CommandDelivery
AtMostOnceInOrder == Delivery!Spec

-----------------------------------------------------------------------------
(* Liveness.                                                                *)

(* mqtt_loop's retry: a device that knows it is not connected gets there.   *)
Reconnects == ~connected ~> connected

(* "MQTTYield ... manages heartbeat and reconnection on timeout": a lost    *)
(* TCP connection is eventually noticed.                                    *)
LossNoticed == (connected /\ sr # "ESTABLISHED") ~> ~connected

(* The main loop comes round again and again.                               *)
KeepsTurning == []<>(pc = "loop")

(* A control message in the receive buffer of a subscribed device reaches   *)
(* messageArrived, even if the broker has closed meanwhile, unless the      *)
(* connection is gone altogether.                                           *)
HandledOrCut ==
  \A n \in 1..MaxPub :
    (handlers > 0 /\ \E i \in 1..Len(rx) : rx[i] = Packet("PUBLISH", n))
      ~> (lastRun >= n \/ sr = "CLOSED")
=============================================================================
