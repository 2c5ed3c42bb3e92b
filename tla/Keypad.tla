------------------------------- MODULE Keypad -------------------------------
(***************************************************************************)
(* The key of BSP/control.c: key_scan samples it in the TIM4 interrupt,    *)
(* once a millisecond, and classifies a press when it ends; key_control,   *)
(* in the main loop, serves the three flags.  The interrupt falls between  *)
(* any two steps of key_control, and any number of times between two of    *)
(* its calls.                                                              *)
(***************************************************************************)
EXTENDS Integers

CONSTANTS Long, LongLong,  \* 1000 and 3000 samples
          Wrap,            \* long_time is a uint16_t: 65536
          MaxHold,         \* bound: samples the key is held in a row
          MaxPending       \* bound: presses of one kind that wait for an action

ASSUME ThresholdAssumption ==
  /\ Long \in Nat /\ LongLong \in Nat /\ Wrap \in Nat
  /\ 0 < Long /\ Long < LongLong /\ LongLong < Wrap
  /\ MaxHold \in Nat /\ MaxPending \in Nat

(* The flags key_control tests, in this order: lamp, fan, spray. *)
Kinds == {"flage", "long_flage", "long_long_flage"}

(* Mutant: the third test is missing. *)
AfterSkipsSpray(kind) == IF kind = "flage" THEN "long_flage" ELSE "flage"

After(kind) == CASE kind = "flage" -> "long_flage"
                 [] kind = "long_flage" -> "long_long_flage"
                 [] kind = "long_long_flage" -> "flage"

VARIABLES
  count,     \* key.count: 0 released, 1 bouncing, 2 pressed
  longTime,  \* key.long_time
  flags,     \* the flags that are set
  at,        \* flag key_control is looking at
  step,      \* what it does with it: "test", "clear", "act"
  held,      \* samples for which the key has been down
  pending,   \* presses of each kind since the flag was last cleared, and the
             \* one whose action is under way
  owed       \* kinds with no action since the last press

keyVars == <<count, longTime, held>>
mainVars == <<at, step>>
vars == <<keyVars, flags, mainVars, pending, owed>>

TypeOK ==
  /\ count \in 0..2 /\ longTime \in 0..(Wrap - 1)
  /\ flags \subseteq Kinds /\ owed \subseteq Kinds
  /\ at \in Kinds /\ step \in {"test", "clear", "act"}
  /\ held \in Nat /\ pending \in [Kinds -> Int]

Init ==
  /\ count = 0 /\ longTime = 0 /\ flags = {} /\ at = "flage" /\ step = "test"
  /\ held = 0 /\ pending = [k \in Kinds |-> 0] /\ owed = {}

-----------------------------------------------------------------------------
(* TIM4: key.sta is sampled, then key_scan switches on key.count. *)

Kind(time) == CASE time >= LongLong -> "long_long_flage"
                [] time >= Long /\ time < LongLong -> "long_flage"
                [] time < Long -> "flage"

Up(next) == count' = next /\ held' = 0 /\ UNCHANGED longTime
Down(next, time) == /\ held < MaxHold
                    /\ count' = next /\ held' = held + 1 /\ longTime' = time

(* Mutant: long_time is wider than the model says. *)
SampleWide ==
  /\ \/ count = 0 /\ (Up(0) \/ Down(1, 0))
     \/ count = 1 /\ (Up(0) \/ Down(2, longTime))
     \/ count = 2 /\ Down(2, longTime + 1)
  /\ UNCHANGED <<flags, mainVars, pending, owed>>

(* While the key is not released: debounce, then count. *)
Sample ==
  /\ \/ count = 0 /\ (Up(0) \/ Down(1, 0))
     \/ count = 1 /\ (Up(0) \/ Down(2, longTime))
     \/ count = 2 /\ Down(2, (longTime + 1) % Wrap)
  /\ UNCHANGED <<flags, mainVars, pending, owed>>

(* Mutant: the press is timed one sample too short at the long threshold. *)
ReleaseLate ==
  LET kind == IF longTime = Long THEN "flage" ELSE Kind(longTime)
  IN  /\ count = 2 /\ pending[kind] < MaxPending
      /\ Up(0)
      /\ flags' = flags \cup {kind}
      /\ pending' = [pending EXCEPT ![kind] = @ + 1]
      /\ owed' = owed \cup {kind}
      /\ UNCHANGED mainVars

(* The first sample with the key up ends the press; its length picks a flag. *)
Release ==
  LET kind == Kind(longTime)
  IN  /\ count = 2 /\ pending[kind] < MaxPending
      /\ Up(0)
      /\ flags' = flags \cup {kind}
      /\ pending' = [pending EXCEPT ![kind] = @ + 1]
      /\ owed' = owed \cup {kind}
      /\ UNCHANGED mainVars

-----------------------------------------------------------------------------
(* key_control. *)

(* if (key.flage == 1), and so on for the other two. *)
Test ==
  /\ step = "test"
  /\ IF at \in flags THEN step' = "clear" /\ UNCHANGED at
                     ELSE at' = After(at) /\ UNCHANGED step
  /\ UNCHANGED <<keyVars, flags, pending, owed>>

(* Mutant: the flag is not cleared. *)
ClearForgotten ==
  /\ step = "clear"
  /\ step' = "act"
  /\ pending' = [pending EXCEPT ![at] = IF @ > 1 THEN 1 ELSE @]
  /\ UNCHANGED <<keyVars, flags, at, owed>>

(* key.flage = 0;  presses whose flag was up already share this action. *)
Clear ==
  /\ step = "clear"
  /\ step' = "act" /\ flags' = flags \ {at}
  /\ pending' = [pending EXCEPT ![at] = IF @ > 1 THEN 1 ELSE @]
  /\ UNCHANGED <<keyVars, at, owed>>

(* Mutant: with the device toggled, all flags are reset. *)
ActResetsAll ==
  /\ step = "act"
  /\ step' = "test" /\ at' = After(at) /\ flags' = {}
  /\ pending' = [pending EXCEPT ![at] = @ - 1]
  /\ owed' = owed \ {at}
  /\ UNCHANGED keyVars

(* The device is toggled, the coil written, the command published. *)
Act ==
  /\ step = "act"
  /\ step' = "test" /\ at' = After(at)
  /\ pending' = [pending EXCEPT ![at] = @ - 1]
  /\ owed' = owed \ {at}
  /\ UNCHANGED <<keyVars, flags>>

KeyControl == Test \/ Clear \/ Act
Next == Sample \/ Release \/ KeyControl

(* The main loop comes round to key_control again and again. *)
Spec == Init /\ [][Next]_vars
FairSpec == Spec /\ WF_vars(KeyControl)

-----------------------------------------------------------------------------
(* A flag raised by the interrupt at any step of key_control, before or     *)
(* after the flag is cleared, is never wiped out unserved: a press has an   *)
(* action after it, or its flag is still up, or its action is next.         *)
NoPressForgotten == \A k \in owed : k \in flags \/ (at = k /\ step = "act")

(* No press is acted upon twice, however the interrupt and the three tests  *)
(* fall: each toggle of a device has a press since the one before it.       *)
EachActionHasItsPress == \A k \in Kinds : pending[k] >= 0

(* A press is classified by the samples the key really was down for, two of *)
(* which go to debouncing, modulo the width of long_time: presses that last *)
(* a wrap more or less are told apart by nothing.                           *)
Classified ==
  \A k \in Kinds : pending'[k] = pending[k] + 1 => k = Kind((held - 2) % Wrap)
PressClassified == [][Classified]_vars

(* A press is answered by an action in the end. *)
PressServed == \A k \in Kinds : k \in owed ~> k \notin owed
=============================================================================
