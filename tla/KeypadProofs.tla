---------------------------- MODULE KeypadProofs ----------------------------
(***************************************************************************)
(* Proofs about Keypad, for any thresholds and any number of presses.      *)
(***************************************************************************)
EXTENDS Keypad, TLAPS

(***************************************************************************)
(* Every flag that is up and the action under way have a press of their    *)
(* own.  The invariant needs the flag key_control has just seen: only the  *)
(* interrupt writes flags besides it, and it only raises them.             *)
(***************************************************************************)
Claims(k) == (IF k \in flags THEN 1 ELSE 0) + (IF at = k /\ step = "act" THEN 1 ELSE 0)

KeyInv ==
  /\ TypeOK
  /\ step = "clear" => at \in flags
  /\ \A k \in Kinds : pending[k] >= Claims(k)
  /\ NoPressForgotten

LEMMA KindType == ASSUME NEW t \in Nat PROVE Kind(t) \in Kinds
  BY ThresholdAssumption DEF Kind, Kinds

LEMMA AfterType == ASSUME NEW k \in Kinds PROVE After(k) \in Kinds
  BY DEF After, Kinds

LEMMA KeyInvInit == Init => KeyInv
<1> SUFFICES ASSUME Init PROVE KeyInv
  OBVIOUS
<1>1. TypeOK
  BY ThresholdAssumption DEF Init, TypeOK, Kinds
<1>2. \A k \in Kinds : pending[k] >= Claims(k)
  BY DEF Init, Claims
<1>3. QED
  BY <1>1, <1>2 DEF Init, KeyInv, NoPressForgotten

LEMMA KeyInvStep == KeyInv /\ [Next]_vars => KeyInv'
<1> SUFFICES ASSUME KeyInv, [Next]_vars PROVE KeyInv'
  OBVIOUS
<1> USE DEF KeyInv
<1>1. CASE Sample
  <2>1. longTime' \in 0..(Wrap - 1) /\ count' \in 0..2 /\ held' \in Nat
    BY <1>1, ThresholdAssumption DEF Sample, Up, Down, TypeOK
  <2>2. UNCHANGED <<flags, at, step, pending, owed>>
    BY <1>1 DEF Sample, mainVars
  <2>3. QED
    BY <2>1, <2>2 DEF TypeOK, Claims, NoPressForgotten
<1>2. CASE Release
  <2> DEFINE kind == Kind(longTime)
  <2>1. kind \in Kinds
    BY KindType DEF TypeOK
  <2>2. /\ count' = 0 /\ held' = 0
        /\ UNCHANGED <<longTime, at, step>>
        /\ flags' = flags \cup {kind}
        /\ pending' = [pending EXCEPT ![kind] = @ + 1]
        /\ owed' = owed \cup {kind}
    BY <1>2 DEF Release, Up, mainVars
  <2> HIDE DEF kind
  <2>3. TypeOK'
    BY <2>1, <2>2 DEF TypeOK
  <2>4. ASSUME NEW k \in Kinds PROVE pending'[k] >= Claims(k)'
    BY <2>1, <2>2 DEF TypeOK, Claims
  <2>5. NoPressForgotten'
    BY <2>1, <2>2 DEF NoPressForgotten
  <2>6. QED
    BY <2>2, <2>3, <2>4, <2>5
<1>3. CASE Test
  <2>1. UNCHANGED <<count, longTime, held, flags, pending, owed>>
    BY <1>3 DEF Test, keyVars
  <2>2. /\ step = "test"
        /\ \/ at \in flags /\ step' = "clear" /\ at' = at
           \/ at' = After(at) /\ step' = "test"
    BY <1>3 DEF Test
  <2>3. at' \in Kinds
    BY <2>2, AfterType DEF TypeOK
  <2>4. QED
    BY <2>1, <2>2, <2>3 DEF TypeOK, Claims, NoPressForgotten
<1>4. CASE Clear
  <2>1. UNCHANGED <<count, longTime, held, at, owed>>
    BY <1>4 DEF Clear, keyVars
  <2>2. /\ step = "clear" /\ step' = "act" /\ flags' = flags \ {at}
        /\ pending' = [pending EXCEPT ![at] = IF @ > 1 THEN 1 ELSE @]
    BY <1>4 DEF Clear
  <2>3. TypeOK'
    BY <2>1, <2>2 DEF TypeOK
  <2>4. ASSUME NEW k \in Kinds PROVE pending'[k] >= Claims(k)'
    BY <2>1, <2>2 DEF TypeOK, Claims
  <2>5. NoPressForgotten'
    BY <2>1, <2>2 DEF NoPressForgotten
  <2>6. QED
    BY <2>2, <2>3, <2>4, <2>5
<1>5. CASE Act
  <2>1. /\ step = "act" /\ step' = "test" /\ at' = After(at)
        /\ pending' = [pending EXCEPT ![at] = @ - 1]
        /\ owed' = owed \ {at}
        /\ UNCHANGED <<count, longTime, held, flags>>
    BY <1>5 DEF Act, keyVars
  <2>2. at \in Kinds /\ at' \in Kinds
    BY <2>1, AfterType DEF TypeOK
  <2>3. TypeOK'
    BY <2>1, <2>2 DEF TypeOK
  <2>4. ASSUME NEW k \in Kinds PROVE pending'[k] >= Claims(k)'
    BY <2>1, <2>2 DEF TypeOK, Claims
  <2>5. QED
    BY <2>1, <2>3, <2>4 DEF NoPressForgotten
<1>6. CASE UNCHANGED vars
  BY <1>6 DEF vars, keyVars, mainVars, TypeOK, Claims, NoPressForgotten
<1>7. QED
  BY <1>1, <1>2, <1>3, <1>4, <1>5, <1>6 DEF Next, KeyControl

(* However the TIM4 interrupt falls between the test, the clearing and the  *)
(* action of key_control, no press is wiped out unserved ...                *)
THEOREM PressesKept == Spec => []NoPressForgotten
<1>1. KeyInv => NoPressForgotten
  BY DEF KeyInv
<1>2. QED
  BY <1>1, KeyInvInit, KeyInvStep, PTL DEF Spec

(* ... and no action comes without a press since the one before it.         *)
THEOREM ActionsMatched == Spec => []EachActionHasItsPress
<1>1. KeyInv => EachActionHasItsPress
  BY DEF KeyInv, EachActionHasItsPress, Claims, TypeOK
<1>2. QED
  BY <1>1, KeyInvInit, KeyInvStep, PTL DEF Spec
-----------------------------------------------------------------------------

(* Every variable of the scanner keeps its range, long_time its width.      *)
THEOREM TypeCorrect == Spec => []TypeOK
<1>1. KeyInv => TypeOK
  BY DEF KeyInv
<1>2. QED
  BY <1>1, KeyInvInit, KeyInvStep, PTL DEF Spec

-----------------------------------------------------------------------------
(***************************************************************************)
(* long_time is the length of the press, its two samples of debouncing     *)
(* apart, modulo its width.                                                *)
(***************************************************************************)
TimeKept ==
  /\ count = 0 => held = 0
  /\ count = 1 => held = 1 /\ longTime = 0
  /\ count = 2 => held >= 2 /\ longTime = (held - 2) % Wrap

LEMMA SmallModulus ==
  ASSUME NEW n \in Nat, n < Wrap
  PROVE  n % Wrap = n
  BY ThresholdAssumption

LEMMA Division ==
  ASSUME NEW n \in Nat
  PROVE  /\ n = Wrap * (n \div Wrap) + (n % Wrap)
         /\ n % Wrap \in 0..(Wrap - 1) /\ n \div Wrap \in Nat
  BY ThresholdAssumption

LEMMA Remainder ==
  ASSUME NEW n \in Nat, NEW q \in Nat, NEW r \in Nat, r < Wrap, n = Wrap * q + r
  PROVE  n % Wrap = r
  BY ThresholdAssumption

(* Counting modulo the width, sample by sample, is the count modulo the width. *)
LEMMA WrappedCount ==
  ASSUME NEW n \in Nat
  PROVE  ((n % Wrap) + 1) % Wrap = (n + 1) % Wrap
<1> DEFINE r == n % Wrap
           q == n \div Wrap
<1>1. n = Wrap * q + r /\ r \in 0..(Wrap - 1) /\ q \in Nat
  BY Division
<1> HIDE DEF r, q
<1>2. CASE r + 1 < Wrap
  <2>1. n + 1 = Wrap * q + (r + 1)
    BY <1>1, ThresholdAssumption
  <2>2. (n + 1) % Wrap = r + 1
    BY <1>1, <1>2, <2>1, Remainder, ThresholdAssumption
  <2>3. (r + 1) % Wrap = r + 1
    BY <1>1, <1>2, SmallModulus
  <2>4. QED
    BY <2>2, <2>3 DEF r
<1>3. CASE r + 1 = Wrap
  <2>1. n + 1 = Wrap * (q + 1) + 0
    BY <1>1, <1>3, ThresholdAssumption
  <2>2. (n + 1) % Wrap = 0
    BY <1>1, <2>1, Remainder, ThresholdAssumption
  <2>3. (r + 1) % Wrap = 0
    BY <1>3, ThresholdAssumption
  <2>4. QED
    BY <2>2, <2>3 DEF r
<1>4. QED
  BY <1>1, <1>2, <1>3, ThresholdAssumption

LEMMA TimeKeptStep == TypeOK /\ TimeKept /\ [Next]_vars => TimeKept'
<1> SUFFICES ASSUME TypeOK, TimeKept, [Next]_vars PROVE TimeKept'
  OBVIOUS
<1>1. CASE Sample
  <2>1. CASE count = 0
    BY <1>1, <2>1 DEF Sample, Up, Down, TimeKept, TypeOK
  <2>2. CASE count = 1
    BY <1>1, <2>2, ThresholdAssumption DEF Sample, Up, Down, TimeKept, TypeOK
  <2>3. CASE count = 2
    <3>1. count' = 2 /\ held' = held + 1 /\ longTime' = (longTime + 1) % Wrap
      BY <1>1, <2>3 DEF Sample, Down
    <3>2. held \in Nat /\ held >= 2 /\ longTime = (held - 2) % Wrap
      BY <2>3 DEF TimeKept, TypeOK
    <3>3. longTime' = ((held - 2) + 1) % Wrap
      BY <3>1, <3>2, WrappedCount
    <3>4. (held - 2) + 1 = held' - 2
      BY <3>1, <3>2
    <3>5. QED
      BY <3>1, <3>2, <3>3, <3>4 DEF TimeKept
  <2>4. QED
    BY <2>1, <2>2, <2>3 DEF TypeOK
<1>2. CASE Release
  BY <1>2 DEF Release, Up, TimeKept
<1>3. CASE KeyControl \/ UNCHANGED vars
  BY <1>3 DEF KeyControl, Test, Clear, Act, keyVars, vars, TimeKept
<1>4. QED
  BY <1>1, <1>2, <1>3 DEF Next

(* A press is classified by the time the key really was down, whenever the  *)
(* interrupt and key_control run, modulo the width of long_time: so rightly *)
(* as long as that has not wrapped, and like a shorter press when it has.   *)
THEOREM PressesClassified == Spec => PressClassified
<1>1. Init => TimeKept
  BY DEF Init, TimeKept
<1>2. TypeOK /\ TimeKept /\ [Next]_vars => [Classified]_vars
  <2> SUFFICES ASSUME TypeOK, TimeKept, Next, NEW k \in Kinds,
                      pending'[k] = pending[k] + 1
               PROVE  k = Kind((held - 2) % Wrap)
    BY DEF Classified
  <2>1. pending[k] \in Int
    BY DEF TypeOK
  <2>2. CASE Release
    <3>1. count = 2 /\ longTime = (held - 2) % Wrap
      BY <2>2 DEF Release, TimeKept
    <3>2. pending' = [pending EXCEPT ![Kind(longTime)] = @ + 1]
      BY <2>2 DEF Release
    <3>3. QED
      BY <2>1, <3>1, <3>2 DEF TypeOK
  <2>3. CASE Sample \/ Test
    BY <2>1, <2>3 DEF Sample, Test
  <2>4. CASE Clear
    BY <2>1, <2>4 DEF Clear, TypeOK
  <2>5. CASE Act
    BY <2>1, <2>5 DEF Act, TypeOK
  <2>6. QED
    BY <2>2, <2>3, <2>4, <2>5 DEF Next, KeyControl
<1>3. QED
  BY <1>1, <1>2, TimeKeptStep, TypeCorrect, PTL DEF Spec, PressClassified
=============================================================================
