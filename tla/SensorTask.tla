----------------------------- MODULE SensorTask -----------------------------
(***************************************************************************)
(* Sensor_task of BSP/sensor.c and the documents mqtt_app.c makes of what  *)
(* it reads.  A value comes from the bus when the slave answered lately    *)
(* (RS485_GetEnv, aged by HAL_GetTick) and is made up or read elsewhere    *)
(* when not.  The answer is stored by the receive interrupt, between any   *)
(* two steps; GetEnv reads the tick before it turns interrupts off.        *)
(***************************************************************************)
EXTENDS Ticks

CONSTANTS Fresh,              \* 5000
          MockMin, MockStart, MockMax,  \* 400, 450, 1200, in steps of 10
          Threshold,          \* CO2_THRESHOLD
          Co2Answers,         \* CO2 values the slave may send
          MaxCall             \* bound: ticks between GetEnv's two reads

ASSUME SensorAssumption ==
  /\ Fresh \in Nat \ {0} /\ MaxCall \in Nat /\ Fresh + MaxCall < Wrap
  /\ MockMin \in Nat /\ MockStart \in Nat /\ MockMax \in Nat /\ Threshold \in Nat
  /\ MockMin < MockMax /\ MockMin <= MockStart /\ MockStart <= MockMax
  /\ Co2Answers \subseteq Nat

Quantities == {"th", "co2"}
Jobs == {"none", "read", "status"}

(* A temperature or humidity of 0 is 0, any other pair is 1. *)
Answers(q) == IF q = "th" THEN {0, 1} ELSE Co2Answers

VARIABLES
  clock,     \* HAL_GetTick
  tick,      \* last_temp_humi_tick, last_co2_tick
  env,       \* env
  silent,    \* ticks since the slave last answered, at most Wrap
  job,       \* periodic job Sensor_task is at
  q,         \* quantity it reads
  reading,   \* GetEnv has read the tick
  now,       \* that tick, or 0
  delay,     \* ticks since then, or 0
  used,      \* where the value last read came from
  mock,      \* mock_co2
  direction, \* 1 "up" or -1 "down"
  alarm,     \* g_device.co2_alarm
  lastAlert, \* last_alert
  basis      \* alarm was computed from env.co2 as it still is

busVars  == <<tick, env, silent>>
timeVars == <<clock, delay>>
mockVars == <<mock, direction>>
alarmVars == <<alarm, lastAlert>>
vars == <<busVars, timeVars, job, q, reading, now, used, mockVars, alarmVars, basis>>

TypeOK ==
  /\ clock \in TickValues /\ tick \in [Quantities -> TickValues]
  /\ env \in [Quantities -> Nat] /\ silent \in [Quantities -> 0..Wrap]
  /\ job \in Jobs /\ q \in Quantities /\ reading \in BOOLEAN
  /\ now \in TickValues /\ delay \in 0..MaxCall
  /\ used \in {"none", "bus", "mock", "dht", "unset"}
  /\ mock \in MockMin..MockMax /\ direction \in {"up", "down"}
  /\ alarm \in {0, 1} /\ lastAlert \in {0, 1} /\ basis \in BOOLEAN

Init ==
  /\ clock = 0 /\ delay = 0 /\ now = 0
  /\ tick = [p \in Quantities |-> 0] /\ env = tick
  /\ silent = [p \in Quantities |-> Wrap]
  /\ job = "none" /\ q = "co2" /\ reading = FALSE
  /\ used = "none"
  /\ mock = MockStart /\ direction = "up"
  /\ alarm = 0 /\ lastAlert = 0 /\ basis = FALSE

-----------------------------------------------------------------------------
(* RS485_GetEnv, and the tests the two Sensor_Read functions make on it.    *)

TakeTick ==
  /\ job # "none" /\ ~reading
  /\ reading' = TRUE /\ now' = clock /\ used' = "none"
  /\ UNCHANGED <<busVars, timeVars, job, q, mockVars, alarmVars, basis>>

(* The copy is made with interrupts off; now is a local of GetEnv. *)
Return == reading' = FALSE /\ now' = 0 /\ delay' = 0

(* Mutant: an answer is good for one tick too long. *)
UseBusLonger(p) == tick[p] # 0 /\ Since(now, tick[p]) <= Fresh /\ env[p] # 0

(* An age of 2^32 - 1 means that there is no answer, and so does tick 0.    *)
UseBus(p) == /\ tick[p] # 0 /\ Since(now, tick[p]) # Wrap - 1
             /\ Since(now, tick[p]) < Fresh /\ env[p] # 0

Opposite(d) == IF d = "up" THEN "down" ELSE "up"

(* Mutant: the ramp turns one step late. *)
RampLate ==
  LET turn == IF direction = "up" THEN mock > MockMax ELSE mock <= MockMin
  IN /\ direction' = IF turn THEN Opposite(direction) ELSE direction
     /\ mock' = IF direction' = "up" THEN mock + 1 ELSE mock - 1

(* Without a CO2 value, mock_co2 goes up and down between its bounds.       *)
Ramp ==
  LET turn == IF direction = "up" THEN mock >= MockMax ELSE mock <= MockMin
  IN /\ direction' = IF turn THEN Opposite(direction) ELSE direction
     /\ mock' = IF direction' = "up" THEN mock + 1 ELSE mock - 1

(* Sensor_Read_CO2 *)
ReadCo2 ==
  \/ UseBus("co2") /\ used' = "bus" /\ UNCHANGED mockVars
  \/ ~UseBus("co2") /\ used' = "mock" /\ Ramp

(* Sensor_Read_TempHumi.  dht11_read_data may fail, and reports a checksum  *)
(* that does not match as success: the caller's variables stay as they were.*)
ReadTempHumi ==
  \/ UseBus("th") /\ used' = "bus"
  \/ ~UseBus("th") /\ used' \in {"dht", "unset"}

-----------------------------------------------------------------------------
(* Sensor_task.  Any pass may find a job due. *)

Due(j) ==
  /\ job = "none" /\ job' = j
  /\ q' = IF j = "read" THEN "co2" ELSE "th"
  /\ UNCHANGED <<busVars, timeVars, reading, now, used, mockVars, alarmVars, basis>>

Alert(co2) == IF co2 > Threshold THEN 1 ELSE 0

(* Mutant: last_alert is not kept. *)
AlertUnlatched(co2) ==
  /\ alarm' = IF Alert(co2) # lastAlert THEN Alert(co2) ELSE alarm
  /\ UNCHANGED lastAlert

(* CO2_Alert_Check *)
Alert_Check(co2) ==
  IF Alert(co2) # lastAlert THEN alarm' = Alert(co2) /\ lastAlert' = Alert(co2)
                            ELSE UNCHANGED alarmVars

(* CO2 is published and checked; temperature and humidity follow if there   *)
(* is a session.                                                            *)
CheckCo2 ==
  /\ job = "read" /\ q = "co2" /\ reading /\ Return
  /\ ReadCo2
  /\ Alert_Check(IF used' = "bus" THEN env["co2"] ELSE mock')
  /\ basis' = (used' = "bus")
  /\ \/ q' = "th" /\ UNCHANGED job
     \/ job' = "none" /\ UNCHANGED q
  /\ UNCHANGED <<busVars, clock>>

(* Publish_sensor_temp_humi *)
PublishTempHumi ==
  /\ job = "read" /\ q = "th" /\ reading /\ Return
  /\ ReadTempHumi /\ job' = "none"
  /\ UNCHANGED <<busVars, clock, q, mockVars, alarmVars, basis>>

(* Send_All_Device_Status: temperature and humidity, then CO2, then the alarm. *)
StatusTempHumi ==
  /\ job = "status" /\ q = "th" /\ reading /\ Return
  /\ ReadTempHumi /\ q' = "co2"
  /\ UNCHANGED <<busVars, clock, job, mockVars, alarmVars, basis>>

StatusCo2 ==
  /\ job = "status" /\ q = "co2" /\ reading /\ Return
  /\ ReadCo2 /\ job' = "none"
  /\ UNCHANGED <<busVars, clock, q, alarmVars, basis>>

-----------------------------------------------------------------------------
(* Interrupts. *)

(* HAL_IncTick; GetEnv takes MaxCall ticks at most. *)
Tick ==
  /\ reading => delay < MaxCall
  /\ clock' = Advance(clock, 1)
  /\ delay' = IF reading THEN delay + 1 ELSE delay
  /\ silent' = [p \in Quantities |-> IF silent[p] < Wrap THEN silent[p] + 1 ELSE Wrap]
  /\ UNCHANGED <<tick, env, job, q, reading, now, used, mockVars, alarmVars, basis>>

(* Modbus_Parse stores the answer to a read request. *)
Answer(p) ==
  /\ \E v \in Answers(p) : env' = [env EXCEPT ![p] = v]
  /\ tick' = [tick EXCEPT ![p] = clock]
  /\ silent' = [silent EXCEPT ![p] = 0]
  /\ basis' = (basis /\ p # "co2")
  /\ UNCHANGED <<timeVars, job, q, reading, now, used, mockVars, alarmVars>>

-----------------------------------------------------------------------------
Next == \/ \E j \in {"read", "status"} : Due(j)
        \/ TakeTick \/ CheckCo2 \/ PublishTempHumi \/ StatusTempHumi \/ StatusCo2
        \/ Tick \/ \E p \in Quantities : Answer(p)

Spec == Init /\ [][Next]_vars

-----------------------------------------------------------------------------
(* A step of the task that takes its value of p from the bus or elsewhere.  *)
Reads(p) == reading /\ q = p /\ ~reading'

(* A value taken from the bus is no older than Fresh: when the tick was     *)
(* read, the slave had answered, less than Fresh ticks before.  Only an     *)
(* answer a whole wrap old (49.7 days) may pass for a fresh one.            *)
BusIsFresh ==
  \A p \in Quantities : Reads(p) /\ used' = "bus" =>
    \/ delay <= silent[p] /\ silent[p] - delay < Fresh
    \/ silent[p] = Wrap
BusMeansFresh == [][BusIsFresh]_vars

(* A value is made up, or read from the DHT11, only when the slave had not  *)
(* answered for Fresh ticks -- or answered zero, at tick 0, or in a later   *)
(* tick than the one GetEnv had read already.                               *)
BusIsSilent ==
  \A p \in Quantities : Reads(p) /\ used' # "bus" =>
    \/ silent[p] - delay >= Fresh \/ silent[p] < delay
    \/ env[p] = 0 \/ tick[p] = 0
FallbackMeansSilent == [][BusIsSilent]_vars

(* The alarm of a status document agrees with its CO2 value if both come    *)
(* from the bus and no CO2 answer arrived since the check.                  *)
StatusAgrees ==
  [][job = "status" /\ Reads("co2") /\ used' = "bus" /\ basis =>
       alarm = Alert(env["co2"])]_vars
=============================================================================
