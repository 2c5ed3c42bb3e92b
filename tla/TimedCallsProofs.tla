-------------------------- MODULE TimedCallsProofs --------------------------
(***************************************************************************)
(* No call of the MQTT client outlasts WaitBound, for any timeout, any     *)
(* pace of the program and any width of the tick, unless the tick wraps    *)
(* under a running timer; and none is cut short, but right before a wrap.  *)
(* The argument bounds, place by place, when the last step of the call     *)
(* was, and within a read or write what its limit still allows.            *)
(***************************************************************************)
EXTENDS TimedCalls, TicksProofs

(* When the call under way began. *)
Began == IF end >= Timeout THEN end - Timeout ELSE end - Timeout + Wrap

(* When its last step was, in ticks since it began. *)
Last == waited - delay

(* Ticks since the read or write under way took its start_tick. *)
Elapsed == Since(clock, start)

(* A read or write whose limit ran out at b, had it been entered at once.   *)
Limited(b) ==
  IF called
    THEN /\ Elapsed <= waited /\ Elapsed - delay <= limit
         /\ waited - Elapsed + limit <= b + MaxStep
    ELSE Last + limit <= b

(* The length bytes: all with the limit that was left before the first, so  *)
(* with none if the time was over by then.                                  *)
BytesFrom(l) == IF l = 0 THEN Timeout + 4 * MaxStep ELSE Timeout - l
BytesBy(l, k) == BytesFrom(l) + k * l + k * (2 * MaxStep)
ByteLimited ==
  /\ len >= 1 /\ limit <= Timeout
  /\ IF called
       THEN /\ Elapsed <= waited /\ Elapsed - delay <= limit
            /\ waited - Elapsed <= BytesBy(limit, len - 1) + MaxStep
       ELSE Last <= BytesBy(limit, len - 1)

Pace ==
  /\ pc \in {"send", "lengthLeft"} => Last <= Timeout + 3 * MaxStep
  /\ pc \in {"sendLeft", "headerLeft"} => Last < Timeout
  /\ pc \in {"write", "header"} => Limited(Timeout + MaxStep)
  /\ pc = "length" => ByteLimited
  /\ pc = "bodyLeft" => Last <= WaitBound - 4 * MaxStep
  /\ pc = "body" => Limited(WaitBound - 3 * MaxStep)
  /\ pc = "wait" => Last <= WaitBound - MaxStep

Clocked ==
  IF pc = "idle" THEN waited = 0 /\ delay = 0
                 ELSE waited <= WaitBound => clock = Advance(Began, waited)

IInv ==
  /\ TypeOK /\ Clocked
  /\ called => pc \in Loops
  /\ pc # "idle" /\ ~AtEdge => Pace /\ waited <= WaitBound /\ delay <= waited

USE TimedCallsAssumption, WrapAssumption

(* The bound is that of the longer of its two ways. *)
LEMMA BoundIs ==
  /\ WaitBound \in Nat /\ WaitBound < Wrap
  /\ WaitBound >= 4 * Timeout + 12 * MaxStep /\ WaitBound >= Timeout + 16 * MaxStep
BY DEF WaitBound, MaxLengthBytes

LEMMA Zeros ==
  0 \in TickValues /\ 0 \in 0 .. WaitBound + 1 /\ 0 \in 0..MaxStep /\ 0 \in 0..MaxLengthBytes
BY BoundIs DEF TickValues, MaxLengthBytes

LEMMA LimitType ==
  ASSUME NEW e \in TickValues, NEW c \in TickValues
  PROVE  AsUnsigned(LeftMS(e, c)) \in TickValues
BY DEF AsUnsigned, LeftMS, AsInt, Expired, TickValues

(* The timer of the call under way was set for Timeout when it began. *)
LEMMA BeganIs ==
  ASSUME TypeOK
  PROVE  /\ Began \in TickValues /\ Timeout \in TickValues
         /\ Deadline(Began, Timeout) = end
         /\ Began + Timeout >= Wrap <=> end < Timeout
BY BoundIs DEF TypeOK, Began, Deadline, Advance, TickValues

(* Away from the edge the timer is late for nothing, and what it has left   *)
(* never ends after Timeout.                                                *)
LEMMA TimerInTime ==
  ASSUME TypeOK, Clocked, pc # "idle", ~AtEdge, waited <= WaitBound
  PROVE  /\ ~Expired(end, clock) => waited < Timeout
         /\ LET left == AsUnsigned(LeftMS(end, clock))
            IN  left = 0 \/ waited + left = Timeout
<1>1. waited \in TickValues /\ clock = Advance(Began, waited)
  BY BoundIs DEF TypeOK, Clocked, TickValues
<1>2. /\ Expired(end, clock) <=>
            IF (Began + Timeout >= Wrap) = (Began + waited >= Wrap)
              THEN Timeout <= waited ELSE Began + Timeout >= Wrap
      /\ AsUnsigned(LeftMS(end, clock)) =
            IF Expired(end, clock) THEN 0
              ELSE Timeout - waited
                     + IF (Began + Timeout >= Wrap) = (Began + waited >= Wrap) THEN 0 ELSE Wrap
  BY <1>1, BeganIs, TimerAccounted
<1>3. end >= Timeout => Began + waited < Wrap
  BY <1>1, BoundIs DEF AtEdge, Began, TypeOK, TickValues
<1>4. Timeout \in Int /\ waited \in Int /\ Began \in Int
  BY <1>1, BeganIs DEF TickValues
<1>5. CASE Began + waited >= Wrap
  BY <1>2, <1>3, <1>4, <1>5, BeganIs DEF TypeOK, TickValues
<1>6. CASE ~(Began + waited >= Wrap)
  BY <1>2, <1>4, <1>6
<1> QED
  BY <1>5, <1>6

(* The timer is early only before the tick wraps. *)
LEMMA TimerNotEarly ==
  ASSUME TypeOK, Clocked, pc # "idle", Expired(end, clock), waited < Timeout
  PROVE  clock >= Wrap - Timeout
<1>1. waited \in TickValues /\ waited <= WaitBound /\ clock = Advance(Began, waited)
  BY BoundIs DEF TypeOK, Clocked, TickValues
<1> QED
  BY <1>1 DEF TypeOK, Began, Advance, Expired, TickValues

-----------------------------------------------------------------------------
LEMMA InitInv == Init => IInv
<1> SUFFICES ASSUME Init PROVE IInv
  OBVIOUS
<1>1. TypeOK
  BY Zeros DEF Init, TypeOK, Calls
<1> QED
  BY <1>1 DEF Init, IInv, Clocked

(* A call that returns leaves nothing behind. *)
LEMMA ReturnInv ==
  ASSUME IInv, Return
  PROVE  IInv'
<1>1. TypeOK'
  BY Zeros DEF IInv, Return, NoIo, TypeOK, Calls
<1> QED
  BY <1>1 DEF Return, NoIo, IInv, Clocked

(* A step to a place between two reads or writes, its pace shown. *)
LEMMA GoesInv ==
  ASSUME IInv, pc # "idle", NEW p \in {"send", "wait"} \cup Lefts, Goes(p),
         ~AtEdge /\ Pace /\ waited <= WaitBound =>
           /\ p \in {"send", "lengthLeft"} => waited <= Timeout + 3 * MaxStep
           /\ p \in {"sendLeft", "headerLeft"} => waited < Timeout
           /\ p = "bodyLeft" => waited <= WaitBound - 4 * MaxStep
           /\ p = "wait" => waited <= WaitBound - MaxStep
  PROVE  IInv'
<1>1. TypeOK'
  BY Zeros DEF IInv, Goes, NoIo, TypeOK, Tests, Lefts
<1>2. Clocked'
  BY DEF IInv, Goes, Lefts, Clocked, Began
<1>3. ASSUME ~AtEdge'
      PROVE  Pace' /\ (waited <= WaitBound)' /\ (delay <= waited)'
  <2>1. ~AtEdge /\ Pace /\ waited <= WaitBound
    BY <1>3 DEF IInv, Goes, AtEdge
  <2>2. Last' = waited
    BY DEF Last, Goes, IInv, TypeOK
  <2>3. pc' \notin {"write", "header", "length", "body"}
    BY DEF Goes, Lefts
  <2>4. Pace'
    BY <2>1, <2>2, <2>3 DEF Pace, Goes
  <2> QED
    BY <2>1, <2>4 DEF Goes, IInv, TypeOK
<1> QED
  BY <1>1, <1>2, <1>3 DEF IInv, Goes, NoIo

LEMMA CycleEndsInv ==
  ASSUME IInv, pc # "idle", NEW awaited \in BOOLEAN, CycleEnds(awaited),
         ~AtEdge /\ Pace /\ waited <= WaitBound => waited <= WaitBound - MaxStep
  PROVE  IInv'
<1>1. CASE Return
  BY <1>1, ReturnInv
<1>2. CASE Goes("wait")
  BY <1>2, GoesInv
<1> QED
  BY <1>1, <1>2 DEF CycleEnds

(* Where a read or write that was entered may be when it ends. *)
LEMMA LimitedEnds ==
  ASSUME TypeOK, called, NEW b \in Int, Limited(b)
  PROVE  waited <= b + 2 * MaxStep
<1>1. /\ limit \in Int /\ waited \in Int /\ Elapsed \in Int /\ delay \in Int /\ delay <= MaxStep
  BY SinceType, BoundIs DEF TypeOK, TickValues, Elapsed
<1> QED
  BY <1>1 DEF Limited

LEMMA BytesEnd ==
  ASSUME TypeOK, called, ByteLimited
  PROVE  waited <= BytesBy(limit, len)
<1>1. /\ len \in Int /\ limit \in Int /\ waited \in Int /\ Elapsed \in Int /\ delay \in Int
      /\ delay <= MaxStep /\ BytesFrom(limit) \in Int
  BY SinceType, BoundIs DEF TypeOK, MaxLengthBytes, TickValues, Elapsed, BytesFrom
<1>2. Elapsed - delay <= limit /\ waited - Elapsed <= BytesBy(limit, len - 1) + MaxStep
  BY DEF ByteLimited
<1>3. len \in {1, 2, 3, 4}
  BY DEF ByteLimited, TypeOK, MaxLengthBytes
<1> QED
  BY <1>1, <1>2, <1>3 DEF BytesBy

(* Four bytes leave the rest of the call its four steps. *)
LEMMA BytesBound ==
  ASSUME TypeOK, limit <= Timeout, len >= 1
  PROVE  BytesBy(limit, len) <= WaitBound - 4 * MaxStep
<1>1. len \in {1, 2, 3, 4} /\ limit \in Nat
  BY DEF TypeOK, MaxLengthBytes, TickValues
<1> QED
  BY <1>1, BoundIs DEF BytesBy, BytesFrom

-----------------------------------------------------------------------------
(* The steps of a call. *)

LEMMA BeginInv == ASSUME IInv, NEW c \in Calls, Begin(c) PROVE IInv'
<1>1. Deadline(clock, Timeout) \in TickValues
  BY BoundIs DEF IInv, TypeOK, Deadline, Advance, TickValues
<1>2. TypeOK'
  BY <1>1 DEF IInv, Begin, ioVars, TypeOK, Tests, Lefts
<1>3. waited' = 0 /\ delay' = 0 /\ clock' = clock
  BY DEF IInv, Begin, Clocked
<1>4. Began' = clock
  BY <1>3, BoundIs DEF IInv, TypeOK, Begin, Deadline, Advance, Began, TickValues
<1>5. Clocked'
  BY <1>3, <1>4 DEF Clocked, Begin, IInv, TypeOK, Advance, TickValues
<1>6. Pace'
  BY <1>3 DEF Pace, Begin, Last
<1>7. (called => pc \in Loops)'
  BY DEF IInv, Begin, ioVars, Loops
<1> QED
  BY <1>2, <1>3, <1>5, <1>6, <1>7, BoundIs DEF IInv

LEMMA TimerInv == ASSUME IInv, TimeUp \/ InTime PROVE IInv'
<1>1. CASE TimeUp
  BY <1>1, ReturnInv DEF TimeUp
<1>2. CASE InTime
  <2>1. ~AtEdge /\ waited <= WaitBound => waited < Timeout
    BY <1>2, TimerInTime DEF InTime, IInv, Tests
  <2> QED
    BY <1>2, <2>1, GoesInv DEF InTime, Tests, Lefts
<1> QED
  BY <1>1, <1>2

LEMMA TakeLimitInv == ASSUME IInv, TakeLimit PROVE IInv'
<1> DEFINE left == AsUnsigned(LeftMS(end, clock))
<1>1. TypeOK'
  BY LimitType, Zeros DEF IInv, TakeLimit, TypeOK, Lefts, Loops, MaxLengthBytes
<1>2. Clocked'
  BY DEF IInv, TakeLimit, Lefts, Clocked, Began
<1>3. ASSUME ~AtEdge'
      PROVE  Pace' /\ (waited <= WaitBound)' /\ (delay <= waited)'
  <2>1. ~AtEdge /\ Pace /\ waited <= WaitBound /\ waited' = waited /\ delay' = 0
    BY <1>3 DEF IInv, TakeLimit, AtEdge, Lefts
  <2>2. Last' = waited
    BY <2>1 DEF Last, IInv, TypeOK
  <2>3. left = 0 \/ waited + left = Timeout
    BY <2>1, TimerInTime DEF IInv, TakeLimit, Lefts
  <2>4. waited \in Nat /\ delay \in Nat /\ delay <= MaxStep /\ left \in Nat
    BY LimitType, BoundIs DEF IInv, TypeOK, TickValues
  <2>9. called' = FALSE /\ limit' = left
    BY <1>1 DEF TakeLimit, Lefts, Loops, IInv, TypeOK
  <2> HIDE DEF left
  <2>5. ASSUME pc \in {"sendLeft", "headerLeft"} PROVE Pace'
    <3>1. waited - delay < Timeout
      BY <2>1, <2>5 DEF Pace, Last
    <3>2. waited + left <= Timeout + MaxStep
      BY <2>3, <2>4, <3>1
    <3> QED
      BY <2>2, <2>9, <2>5, <3>2 DEF Pace, TakeLimit, Limited
  <2>6. ASSUME pc = "lengthLeft" PROVE Pace'
    <3>1. waited - delay <= Timeout + 3 * MaxStep
      BY <2>1, <2>6 DEF Pace, Last
    <3>2. waited <= Timeout + 4 * MaxStep
      BY <2>4, <3>1
    <3>3. left <= Timeout
      BY <2>3, <2>4
    <3>4. waited <= BytesBy(left, 0)
      BY <2>3, <2>4, <3>2 DEF BytesBy, BytesFrom
    <3>5. len' = 1
      BY <2>6 DEF TakeLimit
    <3> QED
      BY <2>2, <2>9, <2>6, <3>3, <3>4, <3>5 DEF Pace, TakeLimit, ByteLimited
  <2>7. ASSUME pc = "bodyLeft" PROVE Pace'
    <3>1. waited - delay <= WaitBound - 4 * MaxStep
      BY <2>1, <2>7 DEF Pace, Last
    <3>2. waited + left <= WaitBound - 3 * MaxStep
      BY <2>3, <2>4, <3>1, BoundIs
    <3> QED
      BY <2>2, <2>9, <2>7, <3>2 DEF Pace, TakeLimit, Limited
  <2>8. Pace'
    BY <2>5, <2>6, <2>7 DEF TakeLimit, Lefts
  <2> QED
    BY <2>1, <2>4, <2>8
<1>4. (called => pc \in Loops)'
  BY DEF IInv, TakeLimit, Lefts, Loops
<1> QED
  BY <1>1, <1>2, <1>3, <1>4 DEF IInv

-----------------------------------------------------------------------------
(* Inside a read or write. *)

(* What the arithmetic of a step starts from. *)
LEMMA Numbers ==
  ASSUME TypeOK
  PROVE  /\ waited \in Nat /\ delay \in Nat /\ delay <= MaxStep /\ limit \in Nat
         /\ Elapsed \in Nat /\ Elapsed < Wrap /\ Last \in Int /\ Last = waited - delay
         /\ \A k \in Int : BytesBy(limit, k) \in Int
BY SinceType, BoundIs DEF TypeOK, Elapsed, Last, BytesBy, BytesFrom, TickValues

LEMMA EnterInv == ASSUME IInv, Enter PROVE IInv'
<1>1. TypeOK'
  BY Zeros DEF IInv, Enter, TypeOK
<1>2. Clocked' /\ (called => pc \in Loops)'
  BY DEF IInv, Enter, Loops, Clocked, Began
<1>3. ASSUME ~AtEdge'
      PROVE  Pace' /\ (waited <= WaitBound)' /\ (delay <= waited)'
  <2>1. ~AtEdge /\ Pace /\ waited <= WaitBound /\ called = FALSE /\ pc \in Loops
    BY <1>3 DEF IInv, Enter, AtEdge, Loops, TypeOK
  <2>2. /\ waited' = waited /\ delay' = 0 /\ limit' = limit /\ len' = len /\ pc' = pc
        /\ called' = TRUE
    BY DEF Enter
  <2>3. Elapsed' = 0
    BY DEF Enter, Elapsed, Since, IInv, TypeOK, TickValues
  <2>4. ASSUME NEW b \in Int, Limited(b) PROVE Limited(b)'
    <3>1. waited + limit <= b + MaxStep
      BY <2>1, <2>4, Numbers DEF Limited, IInv
    <3> QED
      BY <2>2, <2>3, <3>1, Numbers DEF Limited, IInv
  <2>5. ASSUME ByteLimited PROVE ByteLimited'
    <3>1. waited <= BytesBy(limit, len - 1) + MaxStep /\ BytesBy(limit, len - 1) \in Int
      BY <2>1, <2>5, Numbers DEF ByteLimited, IInv, TypeOK, MaxLengthBytes
    <3> QED
      BY <2>2, <2>3, <2>5, <3>1, Numbers DEF ByteLimited, IInv
  <2>6. Pace'
    BY <2>1, <2>2, <2>4, <2>5, BoundIs DEF Pace, Loops
  <2> QED
    BY <2>1, <2>2, <2>6, Numbers DEF IInv
<1> QED
  BY <1>1, <1>2, <1>3 DEF IInv

LEMMA LookAgainInv == ASSUME IInv, LookAgain PROVE IInv'
<1>1. TypeOK'
  BY Zeros DEF IInv, LookAgain, ioVars, TypeOK
<1>2. Clocked' /\ (called => pc \in Loops)'
  BY DEF IInv, LookAgain, ioVars, Loops, Clocked, Began
<1>3. ASSUME ~AtEdge'
      PROVE  Pace' /\ (waited <= WaitBound)' /\ (delay <= waited)'
  <2>1. ~AtEdge /\ Pace /\ waited <= WaitBound /\ called = TRUE /\ pc \in Loops
    BY <1>3 DEF IInv, LookAgain, ioVars, AtEdge, Loops, TypeOK
  <2>2. /\ waited' = waited /\ delay' = 0 /\ limit' = limit /\ len' = len /\ pc' = pc
        /\ called' = called /\ Elapsed' = Elapsed
    BY DEF LookAgain, ioVars, Elapsed
  <2>3. Elapsed <= limit
    BY Numbers DEF LookAgain, Over, Elapsed, IInv
  <2>4. ASSUME NEW b \in Int, Limited(b) PROVE Limited(b)'
    BY <2>1, <2>2, <2>3, <2>4, Numbers DEF Limited, IInv
  <2>5. ASSUME ByteLimited PROVE ByteLimited'
    BY <2>1, <2>2, <2>3, <2>5, Numbers DEF ByteLimited, IInv
  <2>6. Pace'
    BY <2>1, <2>2, <2>4, <2>5, BoundIs DEF Pace, Loops
  <2> QED
    BY <2>1, <2>2, <2>6, Numbers DEF IInv
<1> QED
  BY <1>1, <1>2, <1>3 DEF IInv

(* A read or write ends in time for what may come next. *)
LEMMA EndsInTime ==
  ASSUME TypeOK, called, Pace
  PROVE  /\ pc \in {"write", "header"} => waited <= Timeout + 3 * MaxStep
         /\ pc = "length" => waited <= WaitBound - 4 * MaxStep
         /\ pc = "body" => waited <= WaitBound - MaxStep
<1>1. CASE pc \in {"write", "header"}
  BY <1>1, LimitedEnds DEF Pace
<1>2. CASE pc = "length"
  <2>1. ByteLimited
    BY <1>2 DEF Pace
  <2>2. waited <= BytesBy(limit, len) /\ BytesBy(limit, len) <= WaitBound - 4 * MaxStep
    BY <2>1, BytesEnd, BytesBound DEF ByteLimited
  <2> QED
    BY <1>2, <2>2, Numbers, BoundIs DEF TypeOK, MaxLengthBytes
<1>3. CASE pc = "body"
  BY <1>3, LimitedEnds, BoundIs, Numbers DEF Pace
<1> QED
  BY <1>1, <1>2, <1>3

LEMMA SendInv == ASSUME IInv, Written \/ WriteShort \/ WriteError PROVE IInv'
<1> USE DEF Inside
<1>1. pc = "write" /\ called
  BY DEF Written, WriteShort, WriteError
<1>2. ~AtEdge /\ Pace /\ waited <= WaitBound => waited <= Timeout + 3 * MaxStep
  BY <1>1, EndsInTime DEF IInv
<1>3. ~AtEdge /\ Pace /\ waited <= WaitBound => waited <= WaitBound - MaxStep
  BY <1>2, BoundIs, Numbers DEF IInv
<1>4. CASE Goes("wait")
  BY <1>1, <1>3, <1>4, GoesInv
<1>5. CASE Goes("send")
  BY <1>1, <1>2, <1>5, GoesInv
<1>6. CASE Return
  BY <1>6, ReturnInv
<1> QED
  BY <1>4, <1>5, <1>6 DEF Written, WriteShort, WriteError

LEMMA ReadInv ==
  ASSUME IInv, HeaderRead \/ LengthDone \/ BodyRead \/ ReadFails
  PROVE  IInv'
<1> USE DEF Inside
<1>1. pc \in {"header", "length", "body"} /\ called
  BY DEF HeaderRead, LengthDone, BodyRead, ReadFails
<1>2. ~AtEdge /\ Pace /\ waited <= WaitBound => waited <= WaitBound - MaxStep
  BY <1>1, EndsInTime, BoundIs, Numbers DEF IInv
<1>3. CASE HeaderRead
  <2>1. ~AtEdge /\ Pace /\ waited <= WaitBound => waited <= Timeout + 3 * MaxStep
    BY <1>3, EndsInTime DEF IInv, HeaderRead
  <2> QED
    BY <1>1, <1>3, <2>1, GoesInv DEF HeaderRead, Lefts
<1>4. CASE LengthDone /\ Goes("bodyLeft")
  <2>1. ~AtEdge /\ Pace /\ waited <= WaitBound => waited <= WaitBound - 4 * MaxStep
    BY <1>4, EndsInTime DEF IInv, LengthDone
  <2> QED
    BY <1>1, <1>4, <2>1, GoesInv DEF Lefts
<1>5. CASE \E awaited \in BOOLEAN : CycleEnds(awaited)
  BY <1>1, <1>2, <1>5, CycleEndsInv
<1> QED
  BY <1>3, <1>4, <1>5 DEF LengthDone, LengthEnds, BodyRead, ReadFails

LEMMA LengthByteInv == ASSUME IInv, LengthByte PROVE IInv'
<1> USE DEF Inside
<1>1. TypeOK'
  <2>1. len' \in 0..MaxLengthBytes
    BY DEF IInv, LengthByte, TypeOK, MaxLengthBytes
  <2> QED
    BY <2>1, Zeros DEF IInv, LengthByte, TypeOK
<1>2. Clocked' /\ (called => pc \in Loops)'
  BY DEF IInv, LengthByte, Clocked, Began
<1>3. ASSUME ~AtEdge'
      PROVE  Pace' /\ (waited <= WaitBound)' /\ (delay <= waited)'
  <2>1. ~AtEdge /\ Pace /\ waited <= WaitBound /\ called
    BY <1>3 DEF IInv, LengthByte, AtEdge
  <2>2. /\ waited' = waited /\ delay' = 0 /\ limit' = limit /\ len' = len + 1 /\ pc' = pc
        /\ called' = FALSE /\ pc = "length"
    BY DEF LengthByte
  <2>3. ByteLimited /\ waited <= BytesBy(limit, len)
    BY <2>1, <2>2, BytesEnd DEF Pace, IInv
  <2>4. len \in Nat
    BY DEF IInv, TypeOK, MaxLengthBytes
  <2>5. Last' = waited /\ len' - 1 = len /\ len' >= 1
    BY <2>2, <2>4, Numbers DEF Last, IInv
  <2>6. ByteLimited'
    BY <2>2, <2>3, <2>5 DEF ByteLimited
  <2>7. Pace'
    BY <2>2, <2>6 DEF Pace
  <2> QED
    BY <2>1, <2>2, <2>7, Numbers DEF IInv
<1> QED
  BY <1>1, <1>2, <1>3 DEF IInv

-----------------------------------------------------------------------------
(* The clock. *)

(* With a step still to come within MaxStep, the bound is not reached. *)
LEMMA NotYet ==
  ASSUME TypeOK, Pace, pc # "idle", delay < MaxStep
  PROVE  waited < WaitBound
<1>1. CASE pc \in Tests \cup Lefts
  <2>1. Last <= WaitBound - MaxStep
    BY <1>1, Numbers, BoundIs DEF Pace, Tests, Lefts
  <2> QED
    BY <2>1, Numbers, BoundIs
<1>2. ASSUME NEW b \in Int, b <= WaitBound - 3 * MaxStep, Limited(b)
      PROVE  waited < WaitBound
  BY <1>2, Numbers, BoundIs DEF Limited, TypeOK
<1>3. CASE pc = "length"
  <2>1. ByteLimited
    BY <1>3 DEF Pace
  <2>2. BytesBy(limit, len) <= WaitBound - 4 * MaxStep
    BY <2>1, BytesBound DEF ByteLimited
  <2>3. len \in {1, 2, 3, 4}
    BY <2>1 DEF ByteLimited, TypeOK, MaxLengthBytes
  <2>4. BytesBy(limit, len - 1) + limit + 2 * MaxStep = BytesBy(limit, len)
    <3>1. limit \in Nat /\ BytesFrom(limit) \in Int
      BY Numbers DEF BytesFrom
    <3> QED
      BY <2>3, <3>1 DEF BytesBy
  <2>5. BytesBy(limit, len) \in Int /\ BytesBy(limit, len - 1) \in Int
    BY <2>3, Numbers
  <2>6. CASE called
    BY <2>1, <2>2, <2>4, <2>5, <2>6, Numbers, BoundIs DEF ByteLimited
  <2>7. CASE ~called
    BY <2>1, <2>2, <2>4, <2>5, <2>7, Numbers, BoundIs DEF ByteLimited
  <2> QED
    BY <2>6, <2>7
<1>4. CASE pc \in {"write", "header"}
  <2>1. Timeout + MaxStep \in Int /\ Timeout + MaxStep <= WaitBound - 3 * MaxStep
    BY BoundIs
  <2> QED
    BY <1>2, <1>4, <2>1 DEF Pace
<1>5. CASE pc = "body"
  BY <1>2, <1>5, BoundIs DEF Pace
<1> QED
  BY <1>1, <1>3, <1>4, <1>5 DEF TypeOK, Loops

LEMMA TickInv == ASSUME IInv, Tick PROVE IInv'
<1>1. clock' \in TickValues /\ clock' = Advance(clock, 1)
  BY DEF IInv, Tick, TypeOK, Advance, TickValues
<1>2. CASE pc = "idle"
  <2>1. UNCHANGED <<pc, call, end, ioVars, waited, delay>>
    BY <1>2 DEF Tick
  <2> QED
    BY <1>1, <1>2, <2>1 DEF IInv, TypeOK, Clocked, ioVars
<1>3. CASE pc # "idle"
  <2>1. /\ UNCHANGED <<pc, call, end, limit, called, start, len>>
        /\ delay < MaxStep /\ delay' = delay + 1
        /\ waited' = IF waited <= WaitBound THEN waited + 1 ELSE waited
    BY <1>3 DEF Tick, ioVars
  <2>2. waited' \in 0 .. WaitBound + 1 /\ delay' \in 0..MaxStep
    BY <2>1, BoundIs DEF IInv, TypeOK
  <2>3. TypeOK'
    BY <1>1, <2>1, <2>2 DEF IInv, TypeOK
  <2>4. Clocked'
    <3>1. CASE waited + 1 <= WaitBound
      <4>1. clock = Advance(Began, waited) /\ waited' = waited + 1 /\ Began' = Began
        BY <1>3, <2>1, <3>1, BoundIs DEF IInv, TypeOK, Clocked, Began
      <4>2. waited + 1 < Wrap /\ waited \in Nat
        BY <3>1, BoundIs DEF IInv, TypeOK
      <4>3. clock' = Advance(Began, waited + 1)
        BY <1>1, <4>1, <4>2, BeganIs DEF IInv, Advance, TickValues
      <4> QED
        BY <1>3, <2>1, <4>1, <4>3 DEF Clocked
    <3>2. CASE ~(waited + 1 <= WaitBound)
      <4>1. ~(waited' <= WaitBound)
        BY <2>1, <3>2, BoundIs DEF IInv, TypeOK
      <4> QED
        BY <1>3, <2>1, <4>1 DEF Clocked
    <3> QED
      BY <3>1, <3>2
  <2>5. ASSUME ~AtEdge'
        PROVE  Pace' /\ (waited <= WaitBound)' /\ (delay <= waited)'
    <3>1. ~AtEdge /\ Pace /\ waited <= WaitBound /\ delay <= waited
      BY <1>3, <2>1, <2>5 DEF IInv, AtEdge
    <3>2. waited < WaitBound
      BY <1>3, <2>1, <3>1, NotYet DEF IInv
    <3>3. waited' = waited + 1 /\ Last' = Last
      BY <2>1, <3>1, Numbers DEF IInv, Last
    <3>4. Elapsed <= waited => Elapsed' = Elapsed + 1
      <4>1. ASSUME Elapsed <= waited PROVE Elapsed + 1 < Wrap
        BY <3>2, <4>1, Numbers, BoundIs DEF IInv
      <4> QED
        BY <1>1, <2>1, <4>1, SinceNext DEF IInv, TypeOK, Elapsed
    <3>5. ASSUME NEW b \in Int, Limited(b) PROVE Limited(b)'
      BY <2>1, <3>3, <3>4, <3>5, Numbers DEF Limited, IInv
    <3>6. ASSUME ByteLimited PROVE ByteLimited'
      BY <2>1, <3>3, <3>4, <3>6, Numbers DEF ByteLimited, IInv
    <3>7. Pace'
      BY <2>1, <3>1, <3>3, <3>5, <3>6, BoundIs DEF Pace
    <3> QED
      BY <2>1, <3>1, <3>2, <3>3, <3>7, Numbers, BoundIs DEF IInv
  <2> QED
    BY <2>1, <2>3, <2>4, <2>5, <1>3 DEF IInv
<1> QED
  BY <1>2, <1>3

-----------------------------------------------------------------------------
LEMMA StutterInv == ASSUME IInv, UNCHANGED vars PROVE IInv'
BY DEF vars, ioVars, IInv, TypeOK, Clocked, Began, AtEdge, Pace, Last, Limited, Elapsed,
       ByteLimited

LEMMA NextInv == ASSUME IInv, [Next]_vars PROVE IInv'
<1>1. CASE Step
  BY <1>1, TimerInv, TakeLimitInv, EnterInv, LookAgainInv, SendInv, ReadInv, LengthByteInv DEF Step
<1>2. CASE Tick
  BY <1>2, TickInv
<1>3. CASE \E c \in Calls : Begin(c)
  BY <1>3, BeginInv
<1>4. CASE UNCHANGED vars
  BY <1>4, StutterInv
<1> QED
  BY <1>1, <1>2, <1>3, <1>4 DEF Next

LEMMA Invariance == Spec => []IInv
BY InitInv, NextInv, PTL DEF Spec

(* TypeOK: every variable of a timed call keeps its range; decodePacket     *)
(* never asks for a fifth length byte.                                      *)
THEOREM TypeCorrect == Spec => []TypeOK
<1>1. IInv => TypeOK
  BY DEF IInv
<1> QED
  BY <1>1, Invariance, PTL

(* WaitEnds: for every timeout, pace and width of the tick, no call of the  *)
(* client keeps the main loop for longer than WaitBound, unless the tick    *)
(* wraps under its timer.                                                   *)
THEOREM CallsEnd == Spec => []WaitEnds
<1>1. IInv => WaitEnds
  <2> SUFFICES ASSUME IInv, ~AtEdge PROVE waited <= WaitBound
    BY BoundIs, Numbers DEF IInv, WaitEnds
  <2> QED
    BY BoundIs DEF IInv, Clocked
<1> QED
  BY <1>1, Invariance, PTL

(* NotCutShort: the timer ends no call before its time, but in the last     *)
(* ticks before a wrap.                                                     *)
THEOREM CallsNotCutShort == Spec => NotCutShort
<1>1. ASSUME IInv, [Next]_vars PROVE [GivesUp]_vars
  <2>1. CASE Next /\ pc \in Tests /\ pc' = "idle"
    <3>1. TimeUp
      BY <2>1 DEF Next, Step, TimeUp, InTime, Goes, TakeLimit, Enter, LookAgain, ioVars, Inside,
                  Written, WriteShort, WriteError, HeaderRead, LengthByte, LengthDone, BodyRead,
                  ReadFails, Tick, Begin, Tests, Lefts, Loops
    <3>2. Expired(end, clock) /\ pc # "idle"
      BY <3>1 DEF TimeUp, Tests
    <3>3. waited >= Timeout \/ clock >= Wrap - Timeout
      <4>1. CASE waited < Timeout
        BY <1>1, <3>2, <4>1, TimerNotEarly DEF IInv
      <4>2. CASE ~(waited < Timeout)
        BY <1>1, <4>2, Numbers DEF IInv
      <4> QED
        BY <4>1, <4>2
    <3> QED
      BY <3>3 DEF GivesUp
  <2>2. CASE ~(pc \in Tests /\ pc' = "idle")
    BY <2>2 DEF GivesUp
  <2> QED
    BY <1>1, <2>1, <2>2
<1> QED
  BY <1>1, Invariance, PTL DEF Spec, NotCutShort
=============================================================================
