---------------------------- MODULE PacketReader ----------------------------
(***************************************************************************)
(* readPacket and decodePacket of MQTTClient.c over w5x00_read: the client *)
(* takes packets out of a TCP byte stream that arrives in pieces, under a  *)
(* timer.  A byte is identified by its packet and its place in it; what    *)
(* the client makes of it depends on the role it gives to it, and a byte   *)
(* taken for what it is not may spell anything.  The connection stays up.  *)
(***************************************************************************)
EXTENDS Integers

CONSTANTS Packets,  \* number of packets the broker sends
          Digits,   \* Digits[k]: the two digits of packet k's remaining length
          Radix,    \* of these digits: 128
          Start     \* Start[k]: where packet k starts in the stream

MAX_NO_OF_REMAINING_LENGTH_BYTES == 4

ASSUME DigitsAssumption ==
  /\ Packets \in Nat /\ Radix \in Nat \ {0, 1}
  /\ Digits \in [1..Packets -> [low : 0..(Radix - 1), high : 0..(Radix - 1)]]

Body(k) == Digits[k].low + Digits[k].high * Radix
LengthBytes(k) == IF Digits[k].high = 0 THEN 1 ELSE 2
Size(k) == 1 + LengthBytes(k) + Body(k)

(* The packets follow one another.                                          *)
ASSUME StartAssumption ==
  /\ Start \in [1..(Packets + 1) -> Nat] /\ Start[1] = 0
  /\ \A k \in 1..Packets : Start[k + 1] = Start[k] + Size(k)
  /\ \A j, k \in 1..(Packets + 1) : j < k => Start[j] < Start[k]

VARIABLES
  arrived,   \* bytes in the receive buffer of the W5500
  coming,    \* bytes of the packet being sent that have not arrived
  sent,      \* packets the broker has begun to send
  pos,       \* bytes of the stream read so far
  role,      \* what the client reads it as: "header", "length", "body"
  cur,       \* packet whose header byte opened the current read, 0 for none
  digits,    \* remaining-length bytes read
  multiplier,\* of the next digit
  rem,       \* value decoded so far, then body bytes still to read
  looked,    \* the current call of mqttread has looked at the buffer
  expired,   \* the timer of this cycle has run out
  delivered, \* packets handed to cycle() whole, so far
  misread,   \* something else was handed to cycle() as a packet
  cut        \* a read was given up after its header

streamVars == <<arrived, coming, sent, pos>>
lengthVars == <<digits, multiplier>>
outcome    == <<delivered, misread, cut>>
vars == <<streamVars, role, cur, lengthVars, rem, looked, expired, outcome>>

TypeOK ==
  /\ arrived \in Nat /\ coming \in Nat /\ sent \in 0..Packets
  /\ pos \in Nat
  /\ role \in {"header", "length", "body"} /\ cur \in 0..Packets
  /\ digits \in 0..MAX_NO_OF_REMAINING_LENGTH_BYTES
  /\ multiplier \in Nat /\ rem \in Nat
  /\ looked \in BOOLEAN /\ expired \in BOOLEAN /\ misread \in BOOLEAN /\ cut \in BOOLEAN
  /\ delivered \in 0..Packets

Init ==
  /\ arrived = 0 /\ coming = 0 /\ sent = 0 /\ pos = 0
  /\ role = "header" /\ cur = 0 /\ digits = 0 /\ multiplier = 1 /\ rem = 0
  /\ looked = FALSE /\ expired = FALSE
  /\ delivered = 0 /\ misread = FALSE /\ cut = FALSE

-----------------------------------------------------------------------------
(* The broker and TCP: a packet is sent, its bytes arrive in pieces. *)

Send ==
  /\ coming = 0 /\ sent < Packets
  /\ sent' = sent + 1 /\ coming' = Size(sent + 1)
  /\ UNCHANGED <<arrived, pos, role, cur, lengthVars, rem, looked, expired, outcome>>

Segment ==
  /\ \E n \in 1..coming : arrived' = arrived + n /\ coming' = coming - n
  /\ UNCHANGED <<sent, pos, role, cur, lengthVars, rem, looked, expired, outcome>>

-----------------------------------------------------------------------------
(* w5x00_read.  Bytes taken from the buffer advance along the stream.       *)

Consume(n) ==
  /\ n \in 1..arrived /\ arrived' = arrived - n
  /\ pos' = pos + n
  /\ UNCHANGED <<coming, sent>>

LookInVain ==
  /\ arrived = 0 /\ looked' = TRUE
  /\ UNCHANGED <<streamVars, role, cur, lengthVars, rem, expired, outcome>>

-----------------------------------------------------------------------------
(* readPacket. *)

(* The next call of readPacket, in a cycle whose timer has not run out. *)
Again == role' = "header" /\ cur' = 0 /\ digits' = 0 /\ multiplier' = 1 /\ rem' = 0
         /\ looked' = FALSE /\ expired' = FALSE

(* The packet type goes to cycle(), which parses what is in readbuf. *)
HandOver ==
  /\ IF cur # 0 /\ pos' = Start[cur + 1]
       THEN delivered' = cur /\ UNCHANGED misread
       ELSE misread' = TRUE /\ UNCHANGED delivered
  /\ Again

ReadHeader ==
  /\ role = "header" /\ Consume(1)
  /\ \/ \E k \in 1..Packets : pos = Start[k] /\ cur' = k
     \/ (\A k \in 1..Packets : pos # Start[k]) /\ cur' = 0
  /\ role' = "length" /\ looked' = FALSE /\ UNCHANGED <<lengthVars, rem>>
  /\ UNCHANGED <<expired, outcome>>

(* The digit a length byte spells and whether another one follows. *)
Spelled ==
  IF cur # 0 /\ digits < LengthBytes(cur) /\ pos = Start[cur] + 1 + digits
    THEN {[digit |-> IF digits = 0 THEN Digits[cur].low ELSE Digits[cur].high,
           more  |-> digits + 1 < LengthBytes(cur)]}
    ELSE [digit : 0..(Radix - 1), more : BOOLEAN]

(* The remaining length is known: read that many bytes, if there are any. *)
LengthKnown(value) ==
  IF value = 0 THEN HandOver
               ELSE role' = "body" /\ UNCHANGED <<cur, expired, delivered, misread>>
                    /\ rem' = value /\ looked' = FALSE

NextDigit == digits' = digits + 1 /\ multiplier' = multiplier * Radix

(* Mutant: every length byte is taken for the last one. *)
ReadLengthOnce ==
  /\ role = "length" /\ Consume(1)
  /\ \E b \in Spelled : LengthKnown(b.digit) /\ (b.digit # 0 => NextDigit)
  /\ UNCHANGED cut

(* Mutant: no bound on the number of length bytes. *)
ReadLengthOn ==
  /\ role = "length" /\ Consume(1)
  /\ \E b \in Spelled :
       LET value == rem + b.digit * multiplier
       IN  IF b.more
             THEN /\ NextDigit /\ rem' = value /\ looked' = FALSE
                  /\ UNCHANGED <<role, cur, expired, delivered, misread>>
             ELSE LengthKnown(value) /\ (value # 0 => NextDigit)
  /\ UNCHANGED cut

(* decodePacket: least significant digit first, at most four of them. *)
ReadLength ==
  /\ role = "length" /\ Consume(1)
  /\ \E b \in Spelled :
       LET value == rem + b.digit * multiplier
       IN  IF b.more /\ digits + 1 < MAX_NO_OF_REMAINING_LENGTH_BYTES
             THEN /\ NextDigit /\ rem' = value /\ looked' = FALSE
                  /\ UNCHANGED <<role, cur, expired, delivered, misread>>
             ELSE LengthKnown(value) /\ (value # 0 => NextDigit)
  /\ UNCHANGED cut

(* Mutant: a piece of the body is all that is read. *)
ReadBodyOnce ==
  /\ role = "body"
  /\ LET n == IF arrived < rem THEN arrived ELSE rem
     IN  Consume(n) /\ IF n < rem THEN Again /\ UNCHANGED <<delivered, misread>>
                                  ELSE HandOver
  /\ UNCHANGED cut

(* The rest of the packet: what the buffer holds of it, then the timer. *)
ReadBody ==
  /\ role = "body"
  /\ LET n == IF arrived < rem THEN arrived ELSE rem
     IN  /\ Consume(n)
         /\ IF n < rem
              THEN rem' = rem - n /\ looked' = TRUE
                   /\ UNCHANGED <<role, cur, lengthVars, expired, delivered, misread>>
              ELSE HandOver
  /\ UNCHANGED cut

(* The timer has run out on a read that is not complete.  Without a header, *)
(* or within the body, readPacket fails; in the length decodePacket stops   *)
(* and the value decoded so far counts.                                     *)
GiveUp ==
  /\ expired /\ looked /\ UNCHANGED streamVars
  /\ \/ role \in {"header", "body"} /\ Again /\ UNCHANGED <<delivered, misread>>
     \/ role = "length" /\ LengthKnown(rem) /\ (rem # 0 => UNCHANGED lengthVars)
  /\ cut' = (cut \/ role # "header")

Expire ==
  /\ ~expired /\ expired' = TRUE
  /\ UNCHANGED <<streamVars, role, cur, lengthVars, rem, looked, outcome>>

ReadPacket == LookInVain \/ ReadHeader \/ ReadLength \/ ReadBody \/ GiveUp
Next == Send \/ Segment \/ ReadPacket \/ Expire

(* TCP brings every byte in the end and mqtt_loop never stops to yield. *)
Spec == Init /\ [][Next]_vars
FairSpec == Spec /\ WF_vars(ReadPacket) /\ WF_vars(Segment)

-----------------------------------------------------------------------------
(* What readPacket hands to cycle is a packet as it was sent, never bytes   *)
(* of one taken for another, and the next one after the last.               *)
WholePackets == ~misread /\ (cur # 0 => cur = delivered + 1)

(* Whatever pieces a packet arrives in, and whenever the timer runs out     *)
(* between packets, the reader keeps in step with the stream, until a read  *)
(* is given up after its header.                                            *)
InStepUntilCut == ~cut => WholePackets

(* As long as none is, every packet sent is handed over.                    *)
AllDelivered == \A k \in 1..Packets : sent >= k ~> (delivered >= k \/ cut)
=============================================================================
