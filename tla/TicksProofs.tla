----------------------------- MODULE TicksProofs -----------------------------
(***************************************************************************)
(* What the tick's arithmetic gives, for every width of the tick: ages are *)
(* exact across a wrap, the deadlines of Timer are not.                    *)
(***************************************************************************)
EXTENDS Ticks, TLAPS

(* The tick stays in its range. *)
LEMMA AdvanceType ==
  ASSUME NEW t \in TickValues, NEW e \in TickValues
  PROVE  Advance(t, e) \in TickValues
BY WrapAssumption DEF Advance, TickValues

(* A difference of ticks is a tick. *)
LEMMA SinceType ==
  ASSUME NEW t \in TickValues, NEW s \in TickValues
  PROVE  Since(t, s) \in TickValues
BY WrapAssumption DEF Since, TickValues

(* now - then is the time that passed, whether or not the tick wrapped in   *)
(* between, if less than a wrap passed: RS485_GetEnv's ages and the periods *)
(* of Sensor_task and mqtt_loop.                                            *)
THEOREM SinceExact ==
  ASSUME NEW t \in TickValues, NEW e \in TickValues
  PROVE  Since(Advance(t, e), t) = e
BY WrapAssumption DEF Since, Advance, TickValues

(* One more millisecond makes an age one larger until it starts again at 0. *)
LEMMA SinceNext ==
  ASSUME NEW t \in TickValues, NEW s \in TickValues, Since(t, s) + 1 < Wrap
  PROVE  Since(Advance(t, 1), s) = Since(t, s) + 1
BY WrapAssumption DEF Since, Advance, TickValues

(* A tick read d before t is as old, against s, as t less d, or a wrap more. *)
LEMMA SinceEarlier ==
  ASSUME NEW r \in TickValues, NEW s \in TickValues, NEW t \in TickValues,
         NEW d \in TickValues, Since(t, r) = d
  PROVE  Since(r, s) = IF Since(t, s) >= d THEN Since(t, s) - d ELSE Since(t, s) - d + Wrap
BY WrapAssumption DEF Since, TickValues

(* An int goes back to the uint32_t it came from: what TimerLeftMS returns  *)
(* as int is compared by w5x00_read and w5x00_write as it was before.       *)
LEMMA RoundTrip ==
  ASSUME NEW u \in TickValues
  PROVE  AsUnsigned(AsInt(u)) = u
BY WrapAssumption DEF AsUnsigned, AsInt, TickValues

(* A Timer works as long as neither its deadline nor the tick wraps: it     *)
(* expires when its time is over, and what is left is the rest of it.       *)
THEOREM TimerExact ==
  ASSUME NEW start \in TickValues, NEW timeout \in Nat, NEW e \in Nat,
         start + timeout < Wrap, start + e < Wrap, 2 * timeout < Wrap
  PROVE  LET end == Deadline(start, timeout)
             now == Advance(start, e)
         IN /\ Expired(end, now) <=> e >= timeout
            /\ ~Expired(end, now) => LeftMS(end, now) = timeout - e
BY WrapAssumption DEF Deadline, Expired, LeftMS, AsInt, Advance, TickValues

(* A Timer whose deadline wraps has expired when it is set, and stays so    *)
(* until the tick wraps: a wait for an acknowledgement ends at once.        *)
THEOREM TimerEarly ==
  ASSUME NEW start \in TickValues, NEW timeout \in TickValues, NEW e \in Nat,
         start + timeout >= Wrap, start + e < Wrap
  PROVE  Expired(Deadline(start, timeout), Advance(start, e))
BY WrapAssumption DEF Deadline, Expired, Advance, TickValues

(* A Timer still running when the tick wraps does not expire until the tick *)
(* has come round again.  What is left is, as the int TimerLeftMS returns,  *)
(* a negative number, and a whole wrap too much as w5x00_read compares it.  *)
THEOREM TimerLate ==
  ASSUME NEW start \in TickValues, NEW timeout \in Nat, NEW e \in TickValues,
         start + timeout < Wrap, start + e >= Wrap
  PROVE  LET end == Deadline(start, timeout)
             now == Advance(start, e)
         IN /\ ~Expired(end, now)
            /\ AsUnsigned(LeftMS(end, now)) = timeout - e + Wrap
            /\ 2 * (e - timeout) <= Wrap => LeftMS(end, now) = timeout - e
BY WrapAssumption DEF Deadline, Expired, LeftMS, AsInt, AsUnsigned, Advance, TickValues

(* Whatever the timeout and the time passed, less than a wrap each, a Timer *)
(* errs only in those two ways.                                             *)
THEOREM TimerAccounted ==
  ASSUME NEW start \in TickValues, NEW timeout \in TickValues, NEW e \in TickValues
  PROVE  LET end == Deadline(start, timeout)
             now == Advance(start, e)
             deadlineWraps == start + timeout >= Wrap
             tickWraps == start + e >= Wrap
         IN  /\ Expired(end, now) <=>
                  IF deadlineWraps = tickWraps THEN timeout <= e ELSE deadlineWraps
             /\ AsUnsigned(LeftMS(end, now)) =
                  IF Expired(end, now) THEN 0
                    ELSE timeout - e + IF deadlineWraps = tickWraps THEN 0 ELSE Wrap
<1>1. CASE start + timeout < Wrap /\ start + e < Wrap
  BY <1>1, WrapAssumption DEF Deadline, Expired, LeftMS, AsInt, AsUnsigned, Advance, TickValues
<1>2. CASE start + timeout < Wrap /\ start + e >= Wrap
  BY <1>2, WrapAssumption DEF Deadline, Expired, LeftMS, AsInt, AsUnsigned, Advance, TickValues
<1>3. CASE start + timeout >= Wrap /\ start + e < Wrap
  BY <1>3, WrapAssumption DEF Deadline, Expired, LeftMS, AsInt, AsUnsigned, Advance, TickValues
<1>4. CASE start + timeout >= Wrap /\ start + e >= Wrap
  BY <1>4, WrapAssumption DEF Deadline, Expired, LeftMS, AsInt, AsUnsigned, Advance, TickValues
<1> QED
  BY <1>1, <1>2, <1>3, <1>4, WrapAssumption DEF TickValues
=============================================================================
