--------------------------- MODULE SensorTaskProofs ---------------------------
(***************************************************************************)
(* SensorTask: the three safety properties of its run, for every width of  *)
(* the tick and every freshness limit below it.  They rest on two facts    *)
(* the code never states: the stored tick is as old as the answer, and the *)
(* tick GetEnv holds is no older than its call.                            *)
(***************************************************************************)
EXTENDS SensorTask, TicksProofs

(* An answer less than a wrap old is as old as its tick says. *)
AgesKept == \A p \in Quantities : silent[p] < Wrap => Since(clock, tick[p]) = silent[p]

(* The tick GetEnv holds is delay ticks old. *)
NowHeld == IF reading THEN Since(clock, now) = delay ELSE delay = 0

(* last_alert follows the alarm, and basis means what it says. *)
AlarmKept == lastAlert = alarm /\ (basis => alarm = Alert(env["co2"]))

Inv == TypeOK /\ AgesKept /\ NowHeld /\ AlarmKept

(* The values the variables start from, and return to, are in their ranges. *)
LEMMA Bounds ==
  /\ 0 \in TickValues /\ 0 \in 0..MaxCall /\ Wrap \in 0..Wrap
  /\ MockStart \in MockMin..MockMax
BY SensorAssumption, WrapAssumption DEF TickValues

-----------------------------------------------------------------------------
(* The ramp of mock_co2 keeps within its bounds. *)
LEMMA RampBounded ==
  ASSUME TypeOK, Ramp
  PROVE  mock' \in MockMin..MockMax /\ direction' \in {"up", "down"}
<1>1. CASE direction = "up" /\ mock >= MockMax
  BY <1>1, SensorAssumption DEF TypeOK, Ramp, Opposite
<1>2. CASE direction = "up" /\ ~(mock >= MockMax)
  BY <1>2, SensorAssumption DEF TypeOK, Ramp, Opposite
<1>3. CASE direction = "down" /\ mock <= MockMin
  BY <1>3, SensorAssumption DEF TypeOK, Ramp, Opposite
<1>4. CASE direction = "down" /\ ~(mock <= MockMin)
  BY <1>4, SensorAssumption DEF TypeOK, Ramp, Opposite
<1> QED  BY <1>1, <1>2, <1>3, <1>4 DEF TypeOK

(* What a read does to the mock value and to used. *)
LEMMA ReadCo2Type ==
  ASSUME TypeOK, ReadCo2
  PROVE  mock' \in MockMin..MockMax /\ direction' \in {"up", "down"} /\ used' \in {"bus", "mock"}
BY RampBounded DEF ReadCo2, TypeOK, mockVars

(* The alarm after a check is what the check found. *)
LEMMA CheckLatches ==
  ASSUME NEW co2, lastAlert = alarm, Alert_Check(co2)
  PROVE  alarm' = Alert(co2) /\ lastAlert' = alarm' /\ alarm' \in {0, 1}
<1>1. CASE Alert(co2) # lastAlert
  BY <1>1 DEF Alert_Check, Alert
<1>2. CASE Alert(co2) = lastAlert
  BY <1>2 DEF Alert_Check, Alert, alarmVars
<1> QED  BY <1>1, <1>2

(* The invariant holds at the start. *)
LEMMA InitInv == Init => Inv
<1> SUFFICES ASSUME Init PROVE Inv
  OBVIOUS
<1>1. TypeOK
  BY Bounds DEF Init, TypeOK, Quantities, Jobs
<1>2. AgesKept /\ NowHeld /\ AlarmKept
  BY WrapAssumption DEF Init, AgesKept, NowHeld, AlarmKept, Quantities
<1> QED  BY <1>1, <1>2 DEF Inv

(* Every step keeps it. *)
LEMMA NextInv == Inv /\ [Next]_vars => Inv'
<1> SUFFICES ASSUME Inv, [Next]_vars PROVE Inv'
  OBVIOUS
<1> USE DEF Inv
<1>1. CASE UNCHANGED vars
  BY <1>1 DEF vars, busVars, timeVars, mockVars, alarmVars, TypeOK, AgesKept, NowHeld, AlarmKept
<1>2. ASSUME NEW j \in {"read", "status"}, Due(j) PROVE Inv'
  <2>1. TypeOK'
    BY <1>2 DEF Due, busVars, timeVars, mockVars, alarmVars, TypeOK, Quantities, Jobs
  <2>2. AgesKept' /\ NowHeld' /\ AlarmKept'
    BY <1>2 DEF Due, busVars, timeVars, alarmVars, AgesKept, NowHeld, AlarmKept
  <2> QED  BY <2>1, <2>2
<1>3. CASE TakeTick
  <2>1. TypeOK'
    BY <1>3 DEF TakeTick, busVars, timeVars, mockVars, alarmVars, TypeOK
  <2>2. Since(clock, clock) = 0
    BY WrapAssumption DEF Since, TypeOK, TickValues
  <2>3. AgesKept' /\ NowHeld' /\ AlarmKept'
    BY <1>3, <2>2 DEF TakeTick, busVars, timeVars, alarmVars, AgesKept, NowHeld, AlarmKept
  <2> QED  BY <2>1, <2>3
<1>4. CASE CheckCo2
  <2> DEFINE co2 == IF used' = "bus" THEN env["co2"] ELSE mock'
  <2>1. mock' \in MockMin..MockMax /\ direction' \in {"up", "down"} /\ used' \in {"bus", "mock"}
    BY <1>4, ReadCo2Type DEF CheckCo2
  <2>3. alarm' = Alert(co2) /\ lastAlert' = alarm' /\ alarm' \in {0, 1}
    <3>1. Alert_Check(co2) /\ lastAlert = alarm
      BY <1>4 DEF CheckCo2, AlarmKept
    <3> HIDE DEF co2
    <3> QED  BY <3>1, CheckLatches
  <2>4. TypeOK'
    <3> HIDE DEF co2
    <3> QED  BY <1>4, <2>1, <2>3, Bounds DEF CheckCo2, Return, busVars, TypeOK, Quantities, Jobs
  <2>5. AgesKept' /\ NowHeld'
    BY <1>4 DEF CheckCo2, Return, busVars, AgesKept, NowHeld
  <2>6. AlarmKept'
    BY <1>4, <2>3 DEF CheckCo2, busVars, AlarmKept
  <2> QED  BY <2>4, <2>5, <2>6
<1>5. CASE PublishTempHumi
  <2>1. TypeOK'
    BY <1>5, Bounds DEF PublishTempHumi, ReadTempHumi, Return, busVars, mockVars, alarmVars, TypeOK, Jobs
  <2>2. AgesKept' /\ NowHeld' /\ AlarmKept'
    BY <1>5 DEF PublishTempHumi, Return, busVars, alarmVars, AgesKept, NowHeld, AlarmKept
  <2> QED  BY <2>1, <2>2
<1>6. CASE StatusTempHumi
  <2>1. TypeOK'
    BY <1>6, Bounds DEF StatusTempHumi, ReadTempHumi, Return, busVars, mockVars, alarmVars, TypeOK, Quantities
  <2>2. AgesKept' /\ NowHeld' /\ AlarmKept'
    BY <1>6 DEF StatusTempHumi, Return, busVars, alarmVars, AgesKept, NowHeld, AlarmKept
  <2> QED  BY <2>1, <2>2
<1>7. CASE StatusCo2
  <2>1. TypeOK'
    BY <1>7, ReadCo2Type, Bounds DEF StatusCo2, Return, busVars, alarmVars, TypeOK, Jobs
  <2>2. AgesKept' /\ NowHeld' /\ AlarmKept'
    BY <1>7 DEF StatusCo2, Return, busVars, alarmVars, AgesKept, NowHeld, AlarmKept
  <2> QED  BY <2>1, <2>2
<1>8. CASE Tick
  <2>1. clock' \in TickValues
    <3>1. 1 \in TickValues
      BY SensorAssumption, WrapAssumption DEF TickValues
    <3> QED  BY <1>8, <3>1, AdvanceType DEF Tick, TypeOK
  <2>2. TypeOK'
    BY <1>8, <2>1, SensorAssumption, WrapAssumption DEF Tick, mockVars, alarmVars, TypeOK
  <2>3. ASSUME NEW p \in Quantities, silent'[p] < Wrap PROVE Since(clock', tick'[p]) = silent'[p]
    <3>1. silent[p] < Wrap /\ silent'[p] = silent[p] + 1
      BY <1>8, <2>3, WrapAssumption DEF Tick, TypeOK
    <3>2. Since(clock, tick[p]) + 1 < Wrap /\ Since(clock, tick[p]) = silent[p]
      BY <2>3, <3>1 DEF AgesKept
    <3> QED  BY <1>8, <3>1, <3>2, SinceNext DEF Tick, TypeOK
  <2>4. NowHeld'
    <3>1. CASE reading
      <4>1. Since(clock, now) = delay /\ delay' = delay + 1 /\ delay + 1 < Wrap
        BY <1>8, <3>1, SensorAssumption, WrapAssumption DEF Tick, NowHeld, TypeOK
      <4>2. Since(Advance(clock, 1), now) = delay + 1
        BY <4>1, SinceNext DEF TypeOK
      <4> QED  BY <1>8, <3>1, <4>1, <4>2 DEF Tick, NowHeld
    <3>2. CASE ~reading
      BY <1>8, <3>2 DEF Tick, NowHeld
    <3> QED  BY <3>1, <3>2
  <2>5. AlarmKept'
    BY <1>8 DEF Tick, alarmVars, AlarmKept
  <2> QED  BY <2>2, <2>3, <2>4, <2>5 DEF AgesKept
<1>9. ASSUME NEW p \in Quantities, Answer(p) PROVE Inv'
  <2>1. Answers(p) \subseteq Nat
    BY SensorAssumption DEF Answers
  <2>2. TypeOK'
    BY <1>9, <2>1, WrapAssumption DEF Answer, timeVars, mockVars, alarmVars, TypeOK
  <2>3. Since(clock, clock) = 0
    BY WrapAssumption DEF Since, TypeOK, TickValues
  <2>4. AgesKept'
    BY <1>9, <2>3 DEF Answer, timeVars, AgesKept, TypeOK
  <2>5. NowHeld'
    BY <1>9 DEF Answer, timeVars, NowHeld
  <2>6. AlarmKept'
    <3>1. lastAlert' = alarm'
      BY <1>9 DEF Answer, alarmVars, AlarmKept
    <3>2. CASE p = "co2"
      BY <1>9, <3>1, <3>2 DEF Answer, AlarmKept
    <3>3. CASE p # "co2"
      <4>1. env'["co2"] = env["co2"]
        BY <1>9, <3>3 DEF Answer, TypeOK, Quantities
      <4>2. basis' => basis
        BY <1>9 DEF Answer
      <4>3. alarm' = alarm
        BY <1>9 DEF Answer, alarmVars
      <4> QED  BY <3>1, <4>1, <4>2, <4>3 DEF AlarmKept, Alert
    <3> QED  BY <3>2, <3>3
  <2> QED  BY <2>2, <2>4, <2>5, <2>6
<1> QED  BY <1>1, <1>2, <1>3, <1>4, <1>5, <1>6, <1>7, <1>8, <1>9 DEF Next

(* Every reachable state satisfies the invariant. *)
LEMMA InvHolds == Spec => []Inv
BY InitInv, NextInv, PTL DEF Spec

-----------------------------------------------------------------------------
(* Every variable keeps its range, mock_co2 its bounds among them. *)
THEOREM TypeCorrect == Spec => []TypeOK
<1>1. Inv => TypeOK
  BY DEF Inv
<1> QED  BY <1>1, InvHolds, PTL

(* How old, by GetEnv's arithmetic, the answer for p is. *)
LEMMA AgeAsSeen ==
  ASSUME Inv, reading, NEW p \in Quantities, silent[p] < Wrap
  PROVE  Since(now, tick[p]) = IF silent[p] >= delay THEN silent[p] - delay
                                                     ELSE silent[p] - delay + Wrap
<1>1. Since(clock, now) = delay /\ delay \in TickValues
  BY SensorAssumption, WrapAssumption DEF Inv, NowHeld, TypeOK, TickValues
<1>2. Since(clock, tick[p]) = silent[p]
  BY DEF Inv, AgesKept
<1>3. now \in TickValues /\ clock \in TickValues /\ tick[p] \in TickValues
  BY DEF Inv, TypeOK
<1> QED  BY <1>1, <1>2, <1>3, SinceEarlier

(* A step that reads p has taken it from the bus just when UseBus allows. *)
LEMMA ReadsStep ==
  ASSUME Next, NEW p \in Quantities, Reads(p)
  PROVE  /\ used' = "bus" => UseBus(p)
         /\ used' # "bus" => ~UseBus(p)
<1>1. ~\E j \in {"read", "status"} : Due(j)
  BY DEF Due, Reads
<1>2. ~TakeTick /\ ~Tick /\ ~\E s \in Quantities : Answer(s)
  BY DEF TakeTick, Tick, Answer, Reads
<1>3. CheckCo2 \/ PublishTempHumi \/ StatusTempHumi \/ StatusCo2
  BY <1>1, <1>2 DEF Next
<1> QED  BY <1>3 DEF CheckCo2, PublishTempHumi, StatusTempHumi, StatusCo2, ReadCo2, ReadTempHumi, Reads

(* A value taken from the bus is fresh. *)
THEOREM BusFresh == Spec => BusMeansFresh
<1>1. ASSUME Inv, Next, NEW p \in Quantities, Reads(p), used' = "bus"
      PROVE  (delay <= silent[p] /\ silent[p] - delay < Fresh) \/ silent[p] = Wrap
  <2>1. Since(now, tick[p]) < Fresh
    BY <1>1, ReadsStep DEF UseBus
  <2>2. CASE silent[p] < Wrap
    <3>1. silent[p] \in Nat /\ delay \in 0..MaxCall
      BY <1>1 DEF Inv, TypeOK
    <3> QED  BY <1>1, <2>1, <2>2, <3>1, AgeAsSeen, SensorAssumption, WrapAssumption DEF Reads
  <2> QED  BY <1>1, <2>2, WrapAssumption DEF Inv, TypeOK
<1>2. Inv /\ [Next]_vars => [BusIsFresh]_vars
  BY <1>1 DEF BusIsFresh
<1> QED  BY <1>2, InvHolds, PTL DEF Spec, BusMeansFresh

(* A value is made up only when the bus was silent, with the exceptions the *)
(* property names.                                                          *)
THEOREM FallbackSilent == Spec => FallbackMeansSilent
<1>1. ASSUME Inv, Next, NEW p \in Quantities, Reads(p), used' # "bus"
      PROVE  silent[p] - delay >= Fresh \/ silent[p] < delay \/ env[p] = 0 \/ tick[p] = 0
  <2>1. ~UseBus(p)
    BY <1>1, ReadsStep
  <2>2. silent[p] \in 0..Wrap /\ delay \in 0..MaxCall
    BY <1>1 DEF Inv, TypeOK
  <2>3. CASE silent[p] = Wrap
    BY <2>2, <2>3, SensorAssumption, WrapAssumption
  <2>4. CASE silent[p] < Wrap
    <3>1. Since(now, tick[p]) = IF silent[p] >= delay THEN silent[p] - delay
                                                      ELSE silent[p] - delay + Wrap
      BY <1>1, <2>4, AgeAsSeen DEF Reads
    <3> QED  BY <2>1, <2>2, <3>1, SensorAssumption, WrapAssumption DEF UseBus
  <2> QED  BY <2>2, <2>3, <2>4, WrapAssumption
<1>2. Inv /\ [Next]_vars => [BusIsSilent]_vars
  BY <1>1 DEF BusIsSilent
<1> QED  BY <1>2, InvHolds, PTL DEF Spec, FallbackMeansSilent

(* The alarm of a status document agrees with its CO2 value. *)
THEOREM AlarmAgrees == Spec => StatusAgrees
<1>1. Inv /\ [Next]_vars => [job = "status" /\ Reads("co2") /\ used' = "bus" /\ basis =>
        alarm = Alert(env["co2"])]_vars
  BY DEF Inv, AlarmKept
<1> QED  BY <1>1, InvHolds, PTL DEF Spec, StatusAgrees
=============================================================================
