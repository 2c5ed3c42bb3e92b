-------------------------------- MODULE Ticks --------------------------------
(***************************************************************************)
(* Arithmetic on HAL_GetTick, a uint32_t of milliseconds that wraps: ages  *)
(* by unsigned subtraction (RS485.c, sensor.c, mqtt_app.c) and the Timer   *)
(* of mqtt_interface.c, whose deadline is compared with >=.                *)
(***************************************************************************)
EXTENDS Integers

CONSTANT Wrap   \* 2^32

ASSUME WrapAssumption == Wrap \in Nat \ {0}

TickValues == 0 .. Wrap - 1

(* Where the tick stands when e milliseconds, less than a wrap, have passed. *)
Advance(t, e) == IF t + e < Wrap THEN t + e ELSE t + e - Wrap

(* Mutant: the difference is stopped at the wrap. *)
SinceStops(now, then) == IF now >= then THEN now - then ELSE Wrap - 1

(* now - then on uint32_t *)
Since(now, then) == IF now >= then THEN now - then ELSE now - then + Wrap

(* TimerCountdownMS, TimerIsExpired *)
Deadline(now, timeout) == Advance(now, timeout)

(* Mutant: the timer expires a millisecond early. *)
ExpiredEarly(end, now) == now + 1 >= end

Expired(end, now) == now >= end

(* A uint32_t returned as int, and an int compared with a uint32_t. *)
AsInt(u) == IF 2 * u < Wrap THEN u ELSE u - Wrap
AsUnsigned(i) == IF i < 0 THEN i + Wrap ELSE i

(* TimerLeftMS *)

(* Mutant: it relies on the timer still running. *)
LeftUntested(end, now) == AsInt(Since(end, now))

LeftMS(end, now) == IF Expired(end, now) THEN 0 ELSE AsInt(end - now)
=============================================================================
