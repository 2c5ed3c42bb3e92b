-------------------------- MODULE PacketReaderProofs --------------------------
(***************************************************************************)
(* PacketReader, for any number of packets of any lengths in any pieces:   *)
(* the reader keeps in step with the stream until a read is given up after *)
(* its header.                                                             *)
(***************************************************************************)
EXTENDS PacketReader, TLAPS

(***************************************************************************)
(* In step: the packet under way is the next one to be delivered, what has *)
(* been read of it is what its role says, and the digits decoded are the   *)
(* packet's own.                                                           *)
(***************************************************************************)
InHeader == cur = 0 /\ digits = 0 /\ multiplier = 1 /\ rem = 0 /\ pos = Start[delivered + 1]
InLength ==
  /\ cur = delivered + 1 /\ cur <= Packets /\ pos = Start[cur] + 1 + digits
  /\ \/ digits = 0 /\ multiplier = 1 /\ rem = 0
     \/ /\ digits = 1 /\ Digits[cur].high # 0
        /\ multiplier = Radix /\ rem = Digits[cur].low
InBody ==
  cur = delivered + 1 /\ cur <= Packets /\ rem > 0 /\ pos + rem = Start[cur + 1]

InStep ==
  /\ ~misread
  /\ role = "header" => InHeader
  /\ role = "length" => InLength
  /\ role = "body" => InBody

(* The stream is as long as the packets sent. *)
Stream == pos + arrived + coming = Start[sent + 1]

ReaderInv == TypeOK /\ Stream /\ (~cut => InStep)

(* The fourth digit is the last: decodePacket counts before it reads. *)
DigitsLeft == (role = "header" => digits = 0) /\ (role = "length" => digits < 4)

(* TypeOK in two parts: what is a number or a name, and what is a flag.     *)
Numbers ==
  /\ arrived \in Nat /\ coming \in Nat /\ sent \in 0..Packets /\ pos \in Nat
  /\ role \in {"header", "length", "body"} /\ cur \in 0..Packets
  /\ digits \in 0..4 /\ multiplier \in Nat /\ rem \in Nat /\ delivered \in 0..Packets
Flags == looked \in BOOLEAN /\ expired \in BOOLEAN /\ misread \in BOOLEAN /\ cut \in BOOLEAN

LEMMA TypeParts == TypeOK <=> Numbers /\ Flags
BY DEF TypeOK, Numbers, Flags, MAX_NO_OF_REMAINING_LENGTH_BYTES

(* A remaining length is a natural number. *)
LEMMA PacketsType == Packets \in Nat /\ Radix \in Nat
BY DigitsAssumption

LEMMA BodyType ==
  ASSUME NEW k \in 1..Packets
  PROVE  Body(k) \in Nat /\ Digits[k].low \in Nat /\ Digits[k].high \in Nat
BY DigitsAssumption DEF Body

(* The product of a digit and a multiplier is a natural number. *)
LEMMA ProductType ==
  ASSUME NEW a \in Nat, NEW b \in Nat
  PROVE  a * b \in Nat
OBVIOUS

(* Every byte spells a digit. *)
LEMMA SpelledType ==
  ASSUME TypeOK, NEW b \in Spelled
  PROVE  b.digit \in Nat
BY DigitsAssumption DEF Spelled, TypeOK

(* What is handed over, or not, keeps the types. *)
LEMMA HandOverType ==
  ASSUME TypeOK, HandOver
  PROVE  /\ role' = "header" /\ cur' = 0 /\ digits' = 0 /\ multiplier' = 1 /\ rem' = 0
         /\ looked' = FALSE /\ expired' = FALSE /\ misread' \in BOOLEAN
         /\ delivered' \in 0..Packets
<1>1. misread' \in BOOLEAN /\ delivered' \in 0..Packets
  <2>1. CASE cur # 0 /\ pos' = Start[cur + 1]
    BY <2>1 DEF HandOver, TypeOK
  <2>2. CASE ~(cur # 0 /\ pos' = Start[cur + 1])
    BY <2>2 DEF HandOver, TypeOK
  <2> QED  BY <2>1, <2>2
<1> QED  BY <1>1 DEF HandOver, Again

(* A length that is known leads to the body or to the next packet. *)
LEMMA LengthKnownType ==
  ASSUME TypeOK, NEW v \in Nat, LengthKnown(v), v # 0 => digits' \in 0..4 /\ multiplier' \in Nat
  PROVE  /\ role' \in {"header", "body"} /\ cur' \in 0..Packets
         /\ digits' \in 0..4 /\ multiplier' \in Nat /\ rem' \in Nat
         /\ looked' \in BOOLEAN /\ expired' \in BOOLEAN /\ misread' \in BOOLEAN
         /\ delivered' \in 0..Packets /\ (role' = "header" => digits' = 0)
<1>1. CASE v = 0
  BY <1>1, HandOverType, PacketsType DEF LengthKnown
<1>2. CASE v # 0
  BY <1>2 DEF LengthKnown, TypeOK
<1> QED  BY <1>1, <1>2

(* Every variable keeps its range; decodePacket reads four digits at most.  *)
LEMMA TypeStep == TypeOK /\ DigitsLeft /\ [Next]_vars => TypeOK' /\ DigitsLeft'
<1> SUFFICES ASSUME TypeOK, DigitsLeft, [Next]_vars PROVE TypeOK' /\ DigitsLeft'
  OBVIOUS
<1> USE DEF MAX_NO_OF_REMAINING_LENGTH_BYTES
<1>1. CASE UNCHANGED vars
  BY <1>1 DEF vars, streamVars, lengthVars, outcome, TypeOK, DigitsLeft
<1>2. CASE Send
  <2>1. sent + 1 \in 1..Packets /\ Size(sent + 1) \in Nat
    BY <1>2, BodyType, PacketsType DEF Send, Size, LengthBytes, TypeOK
  <2> QED  BY <1>2, <2>1 DEF Send, lengthVars, outcome, TypeOK, DigitsLeft
<1>3. CASE Segment
  BY <1>3 DEF Segment, lengthVars, outcome, TypeOK, DigitsLeft
<1>4. CASE LookInVain
  BY <1>4 DEF LookInVain, streamVars, lengthVars, outcome, TypeOK, DigitsLeft
<1>5. CASE ReadHeader
  <2>1. arrived' \in Nat /\ pos' \in Nat /\ UNCHANGED <<coming, sent>>
    BY <1>5 DEF ReadHeader, Consume, TypeOK
  <2>2. cur' \in 0..Packets
    BY <1>5, PacketsType DEF ReadHeader
  <2>3. Numbers' /\ DigitsLeft'
    BY <1>5, <2>1, <2>2 DEF ReadHeader, lengthVars, outcome, TypeOK, Numbers, DigitsLeft
  <2>4. Flags'
    BY <1>5 DEF ReadHeader, outcome, TypeOK, Flags
  <2> QED  BY <2>3, <2>4 DEF TypeOK, Numbers, Flags
<1>6. CASE ReadLength
  <2>1. arrived' \in Nat /\ pos' \in Nat /\ UNCHANGED <<coming, sent, cut>>
    BY <1>6 DEF ReadLength, Consume, TypeOK
  <2>2. PICK b \in Spelled :
          IF b.more /\ digits + 1 < 4
            THEN /\ NextDigit /\ rem' = rem + b.digit * multiplier /\ looked' = FALSE
                 /\ UNCHANGED <<role, cur, expired, delivered, misread>>
            ELSE /\ LengthKnown(rem + b.digit * multiplier)
                 /\ (rem + b.digit * multiplier # 0 => NextDigit)
    BY <1>6 DEF ReadLength
  <2> DEFINE value == rem + b.digit * multiplier
  <2>3. value \in Nat
    BY SpelledType, ProductType DEF TypeOK
  <2>4. NextDigit => digits' \in 0..4 /\ multiplier' \in Nat
    BY <1>6, PacketsType, ProductType DEF ReadLength, NextDigit, TypeOK, DigitsLeft
  <2> HIDE DEF value
  <2>5. CASE b.more /\ digits + 1 < 4
    <3>1. /\ NextDigit /\ rem' = value /\ looked' = FALSE
          /\ UNCHANGED <<role, cur, expired, delivered, misread>>
      BY <2>2, <2>5 DEF value
    <3>2. digits' = digits + 1 /\ role = "length"
      BY <1>6, <3>1 DEF ReadLength, NextDigit
    <3> QED  BY <2>1, <2>3, <2>4, <2>5, <3>1, <3>2 DEF TypeOK, DigitsLeft
  <2>6. CASE ~(b.more /\ digits + 1 < 4)
    <3>1. LengthKnown(value) /\ (value # 0 => NextDigit)
      BY <2>2, <2>6 DEF value
    <3> QED  BY <2>1, <2>3, <2>4, <3>1, LengthKnownType DEF TypeOK, DigitsLeft
  <2> QED  BY <2>5, <2>6
<1>7. CASE ReadBody
  <2> DEFINE n == IF arrived < rem THEN arrived ELSE rem
  <2>1. n \in Nat /\ n <= rem /\ arrived' \in Nat /\ pos' \in Nat /\ UNCHANGED <<coming, sent, cut>>
    BY <1>7 DEF ReadBody, Consume, TypeOK
  <2>2. IF n < rem THEN /\ rem' = rem - n /\ looked' = TRUE
                        /\ UNCHANGED <<role, cur, lengthVars, expired, delivered, misread>>
                   ELSE HandOver
    BY <1>7 DEF ReadBody
  <2> HIDE DEF n
  <2>3. CASE n < rem
    BY <2>1, <2>2, <2>3 DEF lengthVars, TypeOK, DigitsLeft
  <2>4. CASE ~(n < rem)
    <3>1. HandOver
      BY <2>2, <2>4
    <3>2. Numbers' /\ DigitsLeft'
      <4>1. /\ role' = "header" /\ cur' = 0 /\ digits' = 0 /\ multiplier' = 1 /\ rem' = 0
            /\ delivered' \in 0..Packets
        BY <3>1, HandOverType
      <4>2. arrived' \in Nat /\ pos' \in Nat /\ UNCHANGED <<coming, sent>>
        BY <2>1
      <4> QED  BY <4>1, <4>2, PacketsType DEF TypeOK, Numbers, DigitsLeft
    <3>3. Flags'
      BY <2>1, <3>1, HandOverType DEF TypeOK, Flags
    <3> QED  BY <3>2, <3>3 DEF TypeOK, Numbers, Flags
  <2> QED  BY <2>3, <2>4
<1>8. CASE GiveUp
  <2>1. UNCHANGED streamVars /\ cut' \in BOOLEAN
    BY <1>8 DEF GiveUp, TypeOK
  <2>2. CASE Again /\ UNCHANGED <<delivered, misread>>
    <3>1. Numbers' /\ DigitsLeft'
      BY <2>1, <2>2, PacketsType DEF Again, streamVars, TypeOK, Numbers, DigitsLeft
    <3>2. Flags'
      BY <2>1, <2>2 DEF Again, TypeOK, Flags
    <3> QED  BY <3>1, <3>2 DEF TypeOK, Numbers, Flags
  <2>3. CASE LengthKnown(rem) /\ (rem # 0 => UNCHANGED lengthVars)
    <3>1. /\ role' \in {"header", "body"} /\ cur' \in 0..Packets
          /\ digits' \in 0..4 /\ multiplier' \in Nat /\ rem' \in Nat
          /\ looked' \in BOOLEAN /\ expired' \in BOOLEAN /\ misread' \in BOOLEAN
          /\ delivered' \in 0..Packets /\ (role' = "header" => digits' = 0)
      BY <2>3, LengthKnownType DEF lengthVars, TypeOK
    <3>2. Numbers' /\ DigitsLeft'
      BY <2>1, <3>1 DEF streamVars, TypeOK, Numbers, DigitsLeft
    <3>3. Flags'
      BY <2>1, <3>1 DEF Flags
    <3> QED  BY <3>2, <3>3 DEF TypeOK, Numbers, Flags
  <2> QED  BY <1>8, <2>2, <2>3 DEF GiveUp
<1>9. CASE Expire
  BY <1>9 DEF Expire, streamVars, lengthVars, outcome, TypeOK, DigitsLeft
<1> QED
  BY <1>1, <1>2, <1>3, <1>4, <1>5, <1>6, <1>7, <1>8, <1>9 DEF Next, ReadPacket

(* They start in it. *)
LEMMA TypeInit == Init => TypeOK /\ DigitsLeft
<1>1. Init => Numbers /\ DigitsLeft
  BY PacketsType DEF Init, Numbers, DigitsLeft
<1>2. Init => Flags
  BY DEF Init, Flags
<1> QED  BY <1>1, <1>2, TypeParts

(* Every variable keeps its range, the number of length digits among them.  *)
THEOREM TypeCorrect == Spec => []TypeOK
BY TypeInit, TypeStep, PTL DEF Spec

-----------------------------------------------------------------------------
(* A packet has a header, a digit or two, and a body. *)
LEMMA SizeType ==
  ASSUME NEW k \in 1..Packets
  PROVE  LengthBytes(k) \in 1..2 /\ Size(k) \in Nat /\ Start[k] \in Nat /\ Start[k + 1] \in Nat
         /\ Start[k + 1] = Start[k] + 1 + LengthBytes(k) + Body(k)
<1>1. LengthBytes(k) \in 1..2
  BY DEF LengthBytes
<1>2. Size(k) \in Nat
  BY <1>1, BodyType DEF Size
<1>3. Start[k] \in Nat /\ Start[k + 1] \in Nat /\ Start[k + 1] = Start[k] + Size(k)
  BY StartAssumption, PacketsType
<1> QED  BY <1>1, <1>2, <1>3, BodyType DEF Size

(* Where a packet starts tells which one it is. *)
LEMMA StartsDiffer ==
  ASSUME NEW j \in 1..(Packets + 1), NEW k \in 1..(Packets + 1), Start[j] = Start[k]
  PROVE  j = k
<1>1. Start[j] \in Nat /\ Start[k] \in Nat
  BY StartAssumption
<1>2. ~(j < k) /\ ~(k < j)
  BY <1>1, StartAssumption
<1> QED  BY <1>2, PacketsType

(* The stream grows by what is sent, and moves from the network to the      *)
(* buffer to the client.                                                    *)
LEMMA StreamStep ==
  ASSUME TypeOK, Stream, [Next]_vars
  PROVE  Stream'
<1>1. CASE Send
  <2>1. sent + 1 \in 1..Packets
    BY <1>1, PacketsType DEF Send, TypeOK
  <2>2. Start[sent + 2] = Start[sent + 1] + Size(sent + 1)
    <3>1. Start[(sent + 1) + 1] = Start[sent + 1] + Size(sent + 1)
      BY <2>1, StartAssumption
    <3>2. (sent + 1) + 1 = sent + 2
      BY DEF TypeOK
    <3> QED  BY <3>1, <3>2
  <2>3. Size(sent + 1) \in Nat /\ Start[sent + 1] \in Nat
    BY <2>1, SizeType
  <2> QED  BY <1>1, <2>2, <2>3 DEF Send, Stream, TypeOK
<1>2. CASE UNCHANGED streamVars
  BY <1>2 DEF streamVars, Stream
<1>3. CASE Segment
  BY <1>3 DEF Segment, Stream, TypeOK
<1>4. ASSUME NEW n \in Nat, Consume(n) PROVE Stream'
  BY <1>4 DEF Consume, Stream, TypeOK
<1>5. CASE ReadHeader \/ ReadLength
  BY <1>4, <1>5 DEF ReadHeader, ReadLength
<1>6. CASE ReadBody
  BY <1>4, <1>6 DEF ReadBody, TypeOK
<1> QED
  BY <1>1, <1>2, <1>3, <1>5, <1>6 DEF Next, ReadPacket, LookInVain, GiveUp, Expire, vars

(* A packet read to its end is handed over, and the next one is awaited.    *)
LEMMA HandOverInStep ==
  ASSUME ~misread, cur = delivered + 1, cur \in 1..Packets, HandOver, pos' = Start[cur + 1]
  PROVE  InStep'
<1>1. cur # 0
  OBVIOUS
<1>2. delivered' = cur /\ UNCHANGED misread
  BY <1>1 DEF HandOver
<1> QED  BY <1>2 DEF HandOver, Again, InStep, InHeader

(* The whole length is decoded: what it says leads to the end of the packet. *)
LEMMA LengthInStep ==
  ASSUME TypeOK, ~misread, cur = delivered + 1, cur \in 1..Packets,
         pos' = Start[cur] + 1 + LengthBytes(cur), LengthKnown(Body(cur))
  PROVE  InStep'
<1>1. pos' + Body(cur) = Start[cur + 1] /\ Body(cur) \in Nat /\ pos' \in Nat
  BY SizeType, BodyType
<1>2. CASE Body(cur) = 0
  BY <1>1, <1>2, HandOverInStep DEF LengthKnown
<1>3. CASE Body(cur) # 0
  <2>1. role' = "body" /\ rem' = Body(cur) /\ UNCHANGED <<cur, delivered, misread>>
    BY <1>3 DEF LengthKnown
  <2> QED  BY <1>1, <1>3, <2>1, PacketsType DEF InStep, InBody
<1> QED  BY <1>2, <1>3

(* In step, the next byte of the length spells the packet's next digit.     *)
LEMMA SpelledInStep ==
  ASSUME TypeOK, InLength, NEW b \in Spelled
  PROVE  /\ cur \in 1..Packets
         /\ b.more = (digits + 1 < LengthBytes(cur))
         /\ b.digit = IF digits = 0 THEN Digits[cur].low ELSE Digits[cur].high
<1>1. cur \in 1..Packets /\ cur # 0
  BY PacketsType DEF InLength, TypeOK
<1>2. digits < LengthBytes(cur) /\ pos = Start[cur] + 1 + digits
  BY DEF InLength, LengthBytes
<1> QED  BY <1>1, <1>2 DEF Spelled

(* The digits of a length make up the packet's. *)
LEMMA ValueInStep ==
  ASSUME TypeOK, InLength, cur \in 1..Packets, NEW d,
         d = IF digits = 0 THEN Digits[cur].low ELSE Digits[cur].high
  PROVE  IF digits + 1 < LengthBytes(cur)
           THEN digits = 0 /\ Digits[cur].high # 0 /\ rem + d * multiplier = Digits[cur].low
           ELSE digits + 1 = LengthBytes(cur) /\ rem + d * multiplier = Body(cur)
<1>1. CASE digits = 0
  <2>1. rem + d * multiplier = Digits[cur].low
    <3>1. rem = 0 /\ multiplier = 1 /\ d = Digits[cur].low
      BY <1>1 DEF InLength
    <3> QED  BY <3>1, BodyType
  <2>2. Digits[cur].high = 0 => Body(cur) = Digits[cur].low
    BY BodyType, PacketsType DEF Body
  <2> QED  BY <1>1, <2>1, <2>2 DEF LengthBytes
<1>2. CASE digits = 1
  <2>1. rem = Digits[cur].low /\ d = Digits[cur].high /\ multiplier = Radix /\ Digits[cur].high # 0
    BY <1>2 DEF InLength
  <2> QED  BY <1>2, <2>1, BodyType, PacketsType DEF Body, LengthBytes
<1> QED  BY <1>1, <1>2 DEF InLength

(* A byte of the length keeps in step. *)
LEMMA ReadLengthInStep ==
  ASSUME TypeOK, InStep, ReadLength
  PROVE  InStep'
<1>1. InLength /\ ~misread /\ role = "length"
  BY DEF ReadLength, InStep
<1>2. pos' = pos + 1
  BY DEF ReadLength, Consume
<1>3. PICK b \in Spelled :
        IF b.more /\ digits + 1 < 4
          THEN /\ NextDigit /\ rem' = rem + b.digit * multiplier /\ looked' = FALSE
               /\ UNCHANGED <<role, cur, expired, delivered, misread>>
          ELSE /\ LengthKnown(rem + b.digit * multiplier)
               /\ (rem + b.digit * multiplier # 0 => NextDigit)
  BY DEF ReadLength, MAX_NO_OF_REMAINING_LENGTH_BYTES
<1>4. /\ cur \in 1..Packets
      /\ b.more = (digits + 1 < LengthBytes(cur))
      /\ b.digit = IF digits = 0 THEN Digits[cur].low ELSE Digits[cur].high
  BY <1>1, SpelledInStep
<1>5. IF digits + 1 < LengthBytes(cur)
        THEN /\ digits = 0 /\ Digits[cur].high # 0
             /\ rem + b.digit * multiplier = Digits[cur].low
        ELSE digits + 1 = LengthBytes(cur) /\ rem + b.digit * multiplier = Body(cur)
  BY <1>1, <1>4, ValueInStep
<1>6. cur = delivered + 1 /\ pos = Start[cur] + 1 + digits /\ (digits = 0 => multiplier = 1)
  BY <1>1 DEF InLength
<1>7. CASE digits + 1 < LengthBytes(cur)
  <2>1. digits = 0 /\ Digits[cur].high # 0 /\ rem + b.digit * multiplier = Digits[cur].low
    BY <1>5, <1>7
  <2>2. /\ NextDigit /\ rem' = Digits[cur].low
        /\ UNCHANGED <<role, cur, delivered, misread>>
    <3>1. b.more /\ digits + 1 < 4
      <4>1. b.more
        BY <1>4, <1>7
      <4> QED  BY <2>1, <4>1
    <3>2. /\ NextDigit /\ rem' = rem + b.digit * multiplier
          /\ UNCHANGED <<role, cur, delivered, misread>>
      BY <1>3, <3>1
    <3> QED  BY <2>1, <3>2
  <2>3. digits' = 1 /\ multiplier' = Radix
    BY <1>6, <2>1, <2>2, PacketsType DEF NextDigit
  <2>4. pos' = Start[cur] + 1 + digits'
    BY <1>2, <1>4, <1>6, <2>1, <2>3, SizeType
  <2>5. InLength'
    BY <1>4, <1>6, <2>1, <2>2, <2>3, <2>4, PacketsType DEF InLength
  <2> QED  BY <1>1, <2>2, <2>5 DEF InStep
<1>8. CASE ~(digits + 1 < LengthBytes(cur))
  <2>1. digits + 1 = LengthBytes(cur) /\ rem + b.digit * multiplier = Body(cur)
    BY <1>5, <1>8
  <2>2. LengthKnown(Body(cur))
    BY <1>3, <1>4, <1>8, <2>1
  <2>3. pos' = Start[cur] + 1 + LengthBytes(cur)
    BY <1>2, <1>4, <1>6, <2>1, SizeType DEF TypeOK
  <2> QED  BY <1>1, <1>4, <1>6, <2>2, <2>3, LengthInStep
<1> QED  BY <1>7, <1>8

(* The bytes taken from the buffer are those of the packet. *)
LEMMA ReadBodyInStep ==
  ASSUME TypeOK, InStep, ReadBody
  PROVE  InStep'
<1> DEFINE n == IF arrived < rem THEN arrived ELSE rem
<1>1. InBody /\ ~misread /\ role = "body"
  BY DEF ReadBody, InStep
<1>2. /\ Consume(n)
      /\ IF n < rem THEN /\ rem' = rem - n /\ UNCHANGED <<role, cur, delivered, misread>>
                    ELSE HandOver
  BY DEF ReadBody
<1>3. n \in Nat /\ n <= rem /\ pos' = pos + n
  BY <1>2 DEF Consume, TypeOK
<1>4. cur \in 1..Packets /\ cur = delivered + 1 /\ pos + rem = Start[cur + 1]
  BY <1>1, PacketsType DEF InBody, TypeOK
<1> HIDE DEF n
<1>5. CASE n < rem
  <2>1. rem' = rem - n /\ UNCHANGED <<role, cur, delivered, misread>>
    BY <1>2, <1>5
  <2>2. rem' > 0 /\ pos' + rem' = Start[cur + 1]
    BY <1>3, <1>4, <1>5, <2>1 DEF TypeOK
  <2>3. InBody'
    BY <1>4, <2>1, <2>2, PacketsType DEF InBody
  <2> QED  BY <1>1, <2>1, <2>3 DEF InStep
<1>6. CASE ~(n < rem)
  <2>1. HandOver
    BY <1>2, <1>6
  <2>2. pos' = Start[cur + 1]
    BY <1>3, <1>4, <1>6 DEF TypeOK
  <2> QED  BY <1>1, <1>4, <2>1, <2>2, HandOverInStep
<1> QED  BY <1>5, <1>6

(* The first byte to come between two packets is the header of the next.    *)
LEMMA ReadHeaderInStep ==
  ASSUME TypeOK, Stream, InStep, ReadHeader
  PROVE  InStep'
<1>1. InHeader /\ ~misread
  BY DEF ReadHeader, InStep
<1>2. arrived >= 1 /\ pos' = pos + 1
  BY DEF ReadHeader, Consume, TypeOK
<1>3. pos = Start[delivered + 1]
  BY <1>1 DEF InHeader
<1>4. delivered < sent
  <2> SUFFICES ASSUME sent <= delivered PROVE FALSE
    BY DEF TypeOK
  <2>1. delivered + 1 \in 1..(Packets + 1) /\ sent + 1 \in 1..(Packets + 1)
    BY PacketsType DEF TypeOK
  <2>2. Start[sent + 1] <= Start[delivered + 1]
    <3>1. CASE sent = delivered
      BY <2>1, <3>1, StartAssumption
    <3>2. CASE sent < delivered
      BY <2>1, <3>2, StartAssumption DEF TypeOK
    <3> QED  BY <3>1, <3>2 DEF TypeOK
  <2>3. Start[sent + 1] > pos
    BY <1>2 DEF Stream, TypeOK
  <2>4. Start[sent + 1] \in Nat /\ Start[delivered + 1] \in Nat
    BY <2>1, StartAssumption
  <2> QED  BY <1>3, <2>2, <2>3, <2>4
<1>5. delivered + 1 \in 1..Packets
  BY <1>4, PacketsType DEF TypeOK
<1>6. cur' = delivered + 1
  <2>1. PICK k \in 1..Packets : pos = Start[k] /\ cur' = k
    BY <1>3, <1>5 DEF ReadHeader
  <2>2. k \in 1..(Packets + 1) /\ delivered + 1 \in 1..(Packets + 1)
    BY <1>5, PacketsType
  <2> QED  BY <1>3, <2>1, <2>2, StartsDiffer
<1>7. role' = "length" /\ UNCHANGED <<digits, multiplier, rem, delivered, misread>>
  BY DEF ReadHeader, lengthVars, outcome
<1>8. digits = 0 /\ multiplier = 1 /\ rem = 0
  BY <1>1 DEF InHeader
<1>9. InLength'
  BY <1>2, <1>3, <1>5, <1>6, <1>7, <1>8, PacketsType DEF InLength, TypeOK
<1> QED  BY <1>1, <1>7, <1>9 DEF InStep

(* In step at first, and until a read is given up after its header.         *)
LEMMA InStepInit == Init => ReaderInv
<1>1. Init => Stream
  BY StartAssumption DEF Init, Stream
<1>2. Init => InStep
  BY StartAssumption DEF Init, InStep, InHeader
<1> QED  BY <1>1, <1>2, TypeInit DEF ReaderInv

LEMMA InStepStep ==
  ASSUME TypeOK, Stream, ~cut => InStep, [Next]_vars, ~cut'
  PROVE  InStep'
<1>1. ~cut /\ InStep
  <2>1. CASE GiveUp
    BY <2>1 DEF GiveUp
  <2>2. CASE UNCHANGED cut
    BY <2>2
  <2> QED
    BY <2>1, <2>2 DEF Next, ReadPacket, Send, Segment, LookInVain, ReadHeader, ReadLength,
                      ReadBody, Expire, vars, outcome
<1>2. CASE UNCHANGED <<role, cur, digits, multiplier, rem, delivered, misread, pos>>
  BY <1>1, <1>2 DEF InStep, InHeader, InLength, InBody
<1>3. CASE ReadHeader
  BY <1>1, <1>3, ReadHeaderInStep
<1>4. CASE ReadLength
  BY <1>1, <1>4, ReadLengthInStep
<1>5. CASE ReadBody
  BY <1>1, <1>5, ReadBodyInStep
<1>6. CASE GiveUp
  <2>1. role = "header"
    BY <1>6 DEF GiveUp
  <2>2. Again /\ UNCHANGED <<delivered, misread, pos>>
    BY <1>6, <2>1 DEF GiveUp, streamVars
  <2> QED  BY <1>1, <2>1, <2>2 DEF Again, InStep, InHeader
<1> QED
  BY <1>2, <1>3, <1>4, <1>5, <1>6
     DEF Next, ReadPacket, Send, Segment, LookInVain, Expire, vars, streamVars, lengthVars, outcome

(* What is handed over is a packet as it was sent, the next after the last, *)
(* until a read is given up after its header.                               *)
THEOREM ReaderInStep == Spec => []InStepUntilCut
<1>1. ReaderInv /\ [Next]_vars /\ TypeOK' => ReaderInv'
  BY StreamStep, InStepStep DEF ReaderInv
<1>2. ReaderInv => InStepUntilCut
  BY DEF ReaderInv, TypeOK, InStep, InHeader, InLength, InBody, InStepUntilCut, WholePackets
<1> QED  BY InStepInit, TypeCorrect, <1>1, <1>2, PTL DEF Spec
=============================================================================
