----------------------------- MODULE TimedCalls -----------------------------
(***************************************************************************)
(* How long a call of the MQTT client keeps the main loop: MQTTConnect,    *)
(* MQTTSubscribe, MQTTPublish and MQTTYield set one Timer and hand what is *)
(* left of it to every read and write, each of which takes a tick of its   *)
(* own and measures from there.  The clock runs on between any two steps.  *)
(***************************************************************************)
EXTENDS Ticks

CONSTANTS Timeout,  \* command_timeout_ms, or the argument of MQTTYield
          MaxStep   \* ticks from one step of the call to the next, with what
                    \* lies between: a handler, a ping, the SPI's registers

Calls == {"command", "publish", "yield"}   \* command: MQTTConnect, MQTTSubscribe
MaxLengthBytes == 4

(* Four bytes of the remaining length may each take the whole timeout, or,  *)
(* with a short timeout, every step may be late.                            *)
WaitBound == IF 4 * MaxStep <= 3 * Timeout THEN 4 * Timeout + 12 * MaxStep
                                           ELSE Timeout + 16 * MaxStep

ASSUME TimedCallsAssumption ==
  /\ Timeout \in Nat \ {0} /\ MaxStep \in Nat \ {0}
  /\ WaitBound < Wrap

VARIABLES
  clock,   \* HAL_GetTick
  pc,      \* where the call is: the test of the timer ("send", "wait"),
           \* TimerLeftMS ("...Left"), the loop of a read or write, or "idle"
  call,    \* which call it is
  end,     \* Timer.end_time
  limit,   \* timeout, as w5x00_read and w5x00_write compare it
  called,  \* they have taken their start_tick
  start,   \* start_tick
  len,     \* of decodePacket: length bytes asked for
  waited,  \* ticks since the call began, counted to WaitBound + 1
  delay    \* ticks since its last step

ioVars == <<limit, called, start, len>>
vars == <<clock, pc, call, end, ioVars, waited, delay>>

Tests == {"send", "wait"}
Lefts == {"sendLeft", "headerLeft", "lengthLeft", "bodyLeft"}
Loops == {"write", "header", "length", "body"}

TypeOK ==
  /\ clock \in TickValues /\ pc \in {"idle"} \cup Tests \cup Lefts \cup Loops
  /\ call \in Calls /\ end \in TickValues
  /\ limit \in TickValues /\ called \in BOOLEAN /\ start \in TickValues
  /\ len \in 0..MaxLengthBytes
  /\ waited \in 0 .. WaitBound + 1 /\ delay \in 0..MaxStep

Init ==
  /\ clock = 0 /\ pc = "idle" /\ call = "yield" /\ end = 0
  /\ limit = 0 /\ called = FALSE /\ start = 0 /\ len = 0
  /\ waited = 0 /\ delay = 0

-----------------------------------------------------------------------------
(* The steps of a call. *)

(* No read or write under way. *)
NoIo == limit' = 0 /\ called' = FALSE /\ start' = 0 /\ len' = 0

Goes(p) ==
  /\ pc' = p /\ delay' = 0 /\ NoIo
  /\ UNCHANGED <<clock, call, end, waited>>

Return ==
  /\ pc' = "idle" /\ call' = "yield" /\ end' = 0
  /\ NoIo /\ waited' = 0 /\ delay' = 0
  /\ UNCHANGED clock

(* waitfor takes the next turn unless this was the packet it waits for.     *)
CycleEnds(awaited) == IF call = "yield" \/ awaited THEN Return ELSE Goes("wait")

-----------------------------------------------------------------------------
(* The Timer. *)

Begin(c) ==
  /\ pc = "idle"
  /\ pc' = IF c = "yield" THEN "headerLeft" ELSE "send"
  /\ call' = c /\ end' = Deadline(clock, Timeout)
  /\ UNCHANGED <<clock, ioVars, waited, delay>>

(* The loops of sendPacket and waitfor. *)
TimeUp == pc \in Tests /\ Expired(end, clock) /\ Return

InTime ==
  /\ pc \in Tests /\ ~Expired(end, clock)
  /\ Goes(IF pc = "send" THEN "sendLeft" ELSE "headerLeft")

(* TimerLeftMS, as an argument of the next read or write, or of decodePacket. *)
TakeLimit ==
  /\ \/ pc = "sendLeft"   /\ pc' = "write"
     \/ pc = "headerLeft" /\ pc' = "header"
     \/ pc = "lengthLeft" /\ pc' = "length"
     \/ pc = "bodyLeft"   /\ pc' = "body"
  /\ limit' = AsUnsigned(LeftMS(end, clock))
  /\ len' = IF pc = "lengthLeft" THEN 1 ELSE 0
  /\ delay' = 0
  /\ UNCHANGED <<clock, call, end, called, start, waited>>

-----------------------------------------------------------------------------
(* w5x00_read and w5x00_write. *)

Enter ==
  /\ pc \in Loops /\ ~called
  /\ called' = TRUE /\ start' = clock /\ delay' = 0
  /\ UNCHANGED <<clock, pc, call, end, limit, len, waited>>

Over == Since(clock, start) > limit
Inside(p) == pc = p /\ called

(* Nothing, or not all, has come or gone. *)
LookAgain ==
  /\ pc \in Loops /\ called /\ ~Over
  /\ delay' = 0
  /\ UNCHANGED <<clock, pc, call, end, ioVars, waited>>

(* sendPacket: all is written, or some until the time is over, or the       *)
(* socket reports an error (or, in a second round, more than the packet).   *)
Written    == Inside("write") /\ IF call = "publish" THEN Return ELSE Goes("wait")
WriteShort == Inside("write") /\ Over /\ Goes("send")
WriteError == Inside("write") /\ Return

(* readPacket: a read ends with all it was asked for or, when the time is   *)
(* over or on an error, without.                                            *)
HeaderRead == Inside("header") /\ Goes("lengthLeft")

(* The result of decodePacket is not looked at. *)
LengthEnds == Goes("bodyLeft") \/ \E awaited \in BOOLEAN : CycleEnds(awaited)

(* Mutant: one length byte too many. *)
LengthByteFive ==
  /\ Inside("length") /\ len <= MaxLengthBytes
  /\ len' = len + 1 /\ called' = FALSE /\ start' = 0 /\ delay' = 0
  /\ UNCHANGED <<clock, pc, call, end, limit, waited>>

(* Every byte is read with the whole of what was left before the first.     *)
LengthByte ==
  /\ Inside("length") /\ len < MaxLengthBytes
  /\ len' = len + 1 /\ called' = FALSE /\ start' = 0 /\ delay' = 0
  /\ UNCHANGED <<clock, pc, call, end, limit, waited>>

LengthDone == Inside("length") /\ LengthEnds

BodyRead == Inside("body") /\ \E awaited \in BOOLEAN : CycleEnds(awaited)

ReadFails == (Inside("header") \/ Inside("body")) /\ CycleEnds(FALSE)

-----------------------------------------------------------------------------
(* The clock; a call is never longer than MaxStep without a step. *)
Tick ==
  /\ clock' = Advance(clock, 1)
  /\ \/ pc = "idle" /\ UNCHANGED <<waited, delay>>
     \/ /\ pc # "idle" /\ delay < MaxStep /\ delay' = delay + 1
        /\ waited' = IF waited <= WaitBound THEN waited + 1 ELSE waited
  /\ UNCHANGED <<pc, call, end, ioVars>>

Step == TimeUp \/ InTime \/ TakeLimit \/ Enter \/ LookAgain \/ Written \/ WriteShort
          \/ WriteError \/ HeaderRead \/ LengthByte \/ LengthDone \/ BodyRead \/ ReadFails

Next == Step \/ Tick \/ \E c \in Calls : Begin(c)

Spec == Init /\ [][Next]_vars

-----------------------------------------------------------------------------
(* The call began so close to the wrap that the tick could pass it while    *)
(* the timer runs, its deadline not having wrapped.                         *)
AtEdge == end >= Timeout /\ Wrap - end <= WaitBound - Timeout

(* However slowly packets dribble in and however many others come first, a  *)
(* call of the client ends within WaitBound.  The only one that may not is  *)
(* one that was under way, its deadline not wrapped, when the tick wrapped: *)
(* that one may keep the main loop for the 49.7 days of a whole wrap.       *)
WaitEnds == waited > WaitBound => AtEdge

(* MQTTConnect, MQTTSubscribe and MQTTPublish never give up for want of     *)
(* time before their time is over, but in the last ticks before a wrap.     *)
GivesUp == pc \in Tests /\ pc' = "idle" => waited >= Timeout \/ clock >= Wrap - Timeout
NotCutShort == [][GivesUp]_vars
=============================================================================
