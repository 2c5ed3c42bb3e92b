--------------------------- MODULE MCPacketReader ---------------------------
(* Instances of PacketReader for TLC: a two-byte remaining length, a packet   *)
(* without a body and a one-byte remaining length, in radix 3.               *)
EXTENDS PacketReader, Sequences

MCDigits == <<[low |-> 1, high |-> 1], [low |-> 0, high |-> 0], [low |-> 2, high |-> 0]>>
MCStart == <<0, 7, 9, 13>>
=============================================================================
