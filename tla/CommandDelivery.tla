-------------------------- MODULE CommandDelivery --------------------------
(***************************************************************************)
(* What the device promises whoever publishes control messages to it with  *)
(* QoS 0: each message is handled at most once, and never after a younger  *)
(* one.  Messages are numbered in the order the broker forwards them; any  *)
(* number of them may be lost.                                             *)
(***************************************************************************)
EXTENDS Naturals

VARIABLES published,  \* messages forwarded so far
          lastRun,    \* the youngest message handled so far
          runs        \* how often the handler has run

vars == <<published, lastRun, runs>>

Init == published = 0 /\ lastRun = 0 /\ runs = 0

Publish == published' = published + 1 /\ UNCHANGED <<lastRun, runs>>

Handle == /\ lastRun' \in (lastRun + 1) .. published
          /\ runs' = runs + 1
          /\ UNCHANGED published

Next == Publish \/ Handle

Spec == Init /\ [][Next]_vars
=============================================================================
