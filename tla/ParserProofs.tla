----------------------------- MODULE ParserProofs -----------------------------
(****************************************************************************)
(* Decoding undoes encoding for every length and to any base; whatever      *)
(* bytes arrive, the parser stays in its buffers; and from a server that    *)
(* sends packets, and nonsense behind them, the client gets these packets   *)
(* and an error for the nonsense.                                           *)
(*                                                                          *)
(* encodeRemainingLength is a recursive function: that it is defined is     *)
(* proved by induction on the set of the lengths up to which one exists,    *)
(* and so are the ends of the packets in a stream.  WithinBuffers is not    *)
(* inductive: the room for the codes of a SUBACK was checked when its       *)
(* length was known, four functions before (Course).  For what the client   *)
(* gets the invariant (Told) says of each function where in the packet      *)
(* under way it is and what it has taken from it so far (InOrder), or that  *)
(* it has stopped in the nonsense (Refused).                                *)
(****************************************************************************)
EXTENDS Parser, Facts, FiniteSetTheorems

-----------------------------------------------------------------------------
(* Decoding undoes encoding *)

\* A byte gives back the digit in it, with the flag for more or without.
LEMMA DigitOfByte ==
  ASSUME NEW d \in 0 .. Radix - 1
  PROVE  /\ d % Radix = d /\ (Radix + d) % Radix = d
         /\ ~Continues(d) /\ Continues(Radix + d)
  BY RadixAssumption DEF Continues

LEMMA Codes == Radix \in Nat /\ Radix > 2 /\ IsCode(Radix, encodeRemainingLength)
  BY CodeUnfolds, RadixAssumption, Zenon DEF encodeRemainingLength

Encoded(n) == encodeRemainingLength[n]

LEMMA LastByte == ASSUME NEW n \in 0 .. Radix - 1 PROVE Encoded(n) = <<n>>
  BY Codes, OneDigit, Zenon DEF Encoded

\* The two, three and four bytes of a length.
LEMMA TwoBytes ==
  ASSUME NEW n \in Radix .. Radix2 - 1
  PROVE  \E a, b \in 0 .. Radix - 1 :
           Encoded(n) = <<Radix + a, b>> /\ n = a + Radix * b
<1>1. n \in Radix .. Square(Radix) - 1
  BY DEF Radix2, Square
<1>2. IsCode(Radix, encodeRemainingLength) /\ Radix \in Nat /\ Radix > 2
  BY Codes
<1>3. InTwo(Radix, encodeRemainingLength, n)
  BY <1>1, <1>2, TwoDigits
<1> QED BY <1>3, Zenon DEF Encoded, InTwo

LEMMA ThreeBytes ==
  ASSUME NEW n \in Radix2 .. Radix3 - 1
  PROVE  \E a, b, c \in 0 .. Radix - 1 :
           Encoded(n) = <<Radix + a, Radix + b, c>> /\ n = a + Radix * (b + Radix * c)
<1>1. n \in Square(Radix) .. Cube(Radix) - 1
  BY DEF Radix2, Radix3, Square, Cube
<1>2. IsCode(Radix, encodeRemainingLength) /\ Radix \in Nat /\ Radix > 2
  BY Codes
<1>3. InThree(Radix, encodeRemainingLength, n)
  BY <1>1, <1>2, ThreeDigits
<1> QED BY <1>3, Zenon DEF Encoded, InThree

LEMMA FourBytes ==
  ASSUME NEW n \in Radix3 .. Radix4 - 1
  PROVE  \E a, b, c, d \in 0 .. Radix - 1 :
           /\ Encoded(n) = <<Radix + a, Radix + b, Radix + c, d>>
           /\ n = a + Radix * (b + Radix * (c + Radix * d))
<1>1. n \in Cube(Radix) .. Fourth(Radix) - 1
  BY DEF Radix2, Radix3, Radix4, Square, Cube, Fourth
<1>2. IsCode(Radix, encodeRemainingLength) /\ Radix \in Nat /\ Radix > 2
  BY Codes
<1>3. InFour(Radix, encodeRemainingLength, n)
  BY <1>1, <1>2, FourDigits
<1> QED BY <1>3, Zenon DEF Encoded, InFour

\* What is encoded decodes to the same length and takes the bytes reserved for it,
\* to any base and for every length that can be encoded (RemainingLength.cpp:13-56).
THEOREM Decodes == DecodesWhatIsEncoded
<1> SUFFICES ASSUME NEW n \in 0 .. Radix4 - 1, NEW behind \in {0, Radix}
             PROVE  /\ decodeRemainingLength(Encoded(n) \o <<behind, behind, behind>>) = n
                    /\ Len(Encoded(n)) = remainingLengthLength(n)
  BY DEF DecodesWhatIsEncoded, Encoded
<1> DEFINE s == Encoded(n) \o <<behind, behind, behind>>
<1>0. /\ Radix2 \in Nat /\ Radix2 >= Radix /\ Radix3 \in Nat /\ Radix3 >= Radix2
      /\ Radix4 \in Nat /\ Radix4 >= Radix3 /\ n \in Nat
  BY RadixAssumption DEF Radix2, Radix3, Radix4
<1>1. CASE n < Radix
  <2>1. Encoded(n) = <<n>>
    BY <1>0, <1>1, LastByte, RadixAssumption
  <2>2. s[1] = n /\ Len(Encoded(n)) = 1
    BY <2>1
  <2> HIDE DEF s
  <2>3. n % Radix = n /\ ~Continues(s[1])
    BY <1>0, <1>1, <2>2, DigitOfByte, RadixAssumption
  <2>4. decodeRemainingLength(s) = n + 0
    BY <2>2, <2>3 DEF decodeRemainingLength
  <2>5. remainingLengthLength(n) = 1
    BY <1>0, <1>1, RadixAssumption DEF remainingLengthLength
  <2> QED BY <1>0, <2>2, <2>4, <2>5 DEF s
<1>2. CASE n >= Radix /\ n < Radix2
  <2>0. n \in Radix .. Radix2 - 1
    BY <1>0, <1>2, RadixAssumption
  <2>1. PICK a, b \in 0 .. Radix - 1 :
          Encoded(n) = <<Radix + a, b>> /\ n = a + Radix * b
    BY <2>0, TwoBytes
  <2>2. s[1] = Radix + a /\ s[2] = b /\ Len(Encoded(n)) = 2
    BY <2>1
  <2> HIDE DEF s
  <2>3. /\ s[1] % Radix = a /\ s[2] % Radix = b
        /\ Continues(s[1]) /\ ~Continues(s[2])
    BY <2>1, <2>2, DigitOfByte
  <2>4. decodeRemainingLength(s) = a + Radix * (b + 0)
    BY <2>3 DEF decodeRemainingLength
  <2>5. b + 0 = b
    BY RadixAssumption
  <2> QED BY <1>0, <1>2, <2>1, <2>2, <2>4, <2>5, RadixAssumption DEF remainingLengthLength, s
<1>3. CASE n >= Radix2 /\ n < Radix3
  <2>0. n \in Radix2 .. Radix3 - 1
    BY <1>0, <1>3, RadixAssumption
  <2>1. PICK a, b, c \in 0 .. Radix - 1 :
          Encoded(n) = <<Radix + a, Radix + b, c>> /\ n = a + Radix * (b + Radix * c)
    BY <2>0, ThreeBytes
  <2>2. s[1] = Radix + a /\ s[2] = Radix + b /\ s[3] = c /\ Len(Encoded(n)) = 3
    BY <2>1
  <2> HIDE DEF s
  <2>3. /\ s[1] % Radix = a /\ s[2] % Radix = b /\ s[3] % Radix = c
        /\ Continues(s[1]) /\ Continues(s[2]) /\ ~Continues(s[3])
    BY <2>1, <2>2, DigitOfByte
  <2>4. decodeRemainingLength(s) = a + Radix * (b + Radix * (c + 0))
    BY <2>3 DEF decodeRemainingLength
  <2>5. c + 0 = c
    BY RadixAssumption
  <2>6. remainingLengthLength(n) = 3
    BY <1>0, <1>3, RadixAssumption DEF remainingLengthLength
  <2> QED BY <2>1, <2>2, <2>4, <2>5, <2>6 DEF s
<1>4. CASE n >= Radix3
  <2>0. n \in Radix3 .. Radix4 - 1
    BY <1>0, <1>4, RadixAssumption
  <2>1. PICK a, b, c, d \in 0 .. Radix - 1 :
          /\ Encoded(n) = <<Radix + a, Radix + b, Radix + c, d>>
          /\ n = a + Radix * (b + Radix * (c + Radix * d))
    BY <2>0, FourBytes
  <2>2. /\ s[1] = Radix + a /\ s[2] = Radix + b /\ s[3] = Radix + c /\ s[4] = d
        /\ Len(Encoded(n)) = 4
    BY <2>1
  <2> HIDE DEF s
  <2>3. /\ s[1] % Radix = a /\ s[2] % Radix = b /\ s[3] % Radix = c /\ s[4] % Radix = d
        /\ Continues(s[1]) /\ Continues(s[2]) /\ Continues(s[3]) /\ ~Continues(s[4])
    BY <2>1, <2>2, DigitOfByte
  <2>4. decodeRemainingLength(s) = a + Radix * (b + Radix * (c + Radix * d))
    BY <2>3 DEF decodeRemainingLength
  <2>5. remainingLengthLength(n) = 4
    BY <1>0, <1>4, RadixAssumption DEF remainingLengthLength
  <2> QED BY <2>1, <2>2, <2>4, <2>5 DEF s
<1> QED BY <1>0, <1>1, <1>2, <1>3, <1>4, RadixAssumption

-----------------------------------------------------------------------------
(* Nothing is written or read outside of its buffer *)

PacketFields ==
  [header : Octet, raw : [1 .. 4 -> Octet], rem : Int, topicLength : Nat,
   topic : Seq(Octet), session : Octet, id : Nat, codes : Seq(Octet),
   index : Nat, length : Nat, total : Nat]

TypeInv ==
  /\ stream \in Seq(Octet) /\ avail \in 0 .. Len(stream) /\ pos \in 0 .. avail
  /\ bytePos \in Nat /\ pk \in PacketFields

Unstarted == pk.index = 0 /\ pk.length = 0

\* The functions in which the parser of a type may be, and how far it can be.
Course ==
  /\ fn = "remainingLengthFixed" => Type(pk) \in Acks \cup {CONNACK}
  /\ fn = "remainingLengthVariable" =>
       Type(pk) \in {PUBLISH, SUBACK} /\ Unstarted /\ (~error => bytePos < 4)
  /\ fn \in {"varHeaderPacketId1", "varHeaderPacketId2"} =>
       \/ Type(pk) \in Acks
       \/ Type(pk) = PUBLISH /\ Unstarted
       \/ Type(pk) = SUBACK /\ bytePos = 0 /\ 0 < pk.total /\ pk.total < PayloadBuffer
  /\ fn \in {"varHeaderTopicLength1", "varHeaderTopicLength2", "varHeaderTopic"} =>
       Type(pk) = PUBLISH /\ Unstarted
  /\ fn = "varHeaderTopic" => bytePos < MaxTopic /\ bytePos <= Len(pk.topic)
  /\ fn = "payloadSuback" =>
       bytePos < pk.total /\ pk.total < PayloadBuffer /\ bytePos <= Len(pk.codes)
  /\ fn = "payloadPublish" => pk.index + pk.length < pk.total

IInv == TypeInv /\ Course

LEMMA Unsigned == ASSUME NEW n \in Int PROVE SizeT(n) \in Nat
  BY SizeAssumption DEF SizeT

\* The next byte is one of those read.
LEMMA ByteTyped ==
  ASSUME TypeInv, pos < avail
  PROVE  Byte \in Octet /\ pos + 1 \in 0 .. avail
<1>1. stream \in Seq(Octet) /\ pos + 1 \in 1 .. Len(stream) /\ pos + 1 \in 0 .. avail
  BY DEF TypeInv
<1> QED BY <1>1 DEF Byte

LEMMA DecodedTyped ==
  ASSUME NEW raw \in [1 .. 4 -> Octet]
  PROVE  decodeRemainingLength(raw) \in Int
<1>1. /\ raw[1] % Radix \in Int /\ raw[2] % Radix \in Int
      /\ raw[3] % Radix \in Int /\ raw[4] % Radix \in Int
  <2>1. ASSUME NEW b \in Nat PROVE b % Radix \in Int
    BY RadixAssumption
  <2>2. raw[1] \in Nat /\ raw[2] \in Nat /\ raw[3] \in Nat /\ raw[4] \in Nat
    BY DEF Octet
  <2> QED BY <2>1, <2>2
<1> DEFINE D(k, higher) ==
             (raw[k] % Radix) + (IF Continues(raw[k]) THEN Radix * higher ELSE 0)
<1>2. ASSUME NEW k \in 1 .. 3, NEW h \in Int PROVE D(k, h) \in Int
  <2>1. raw[k] % Radix \in Int /\ Radix * h \in Int
    BY <1>1, RadixAssumption
  <2> QED BY <2>1
<1>3. D(3, raw[4] % Radix) \in Int
  BY <1>1, <1>2
<1>4. D(2, D(3, raw[4] % Radix)) \in Int
  BY <1>2, <1>3
<1>5. D(1, D(2, D(3, raw[4] % Radix))) \in Int
  BY <1>2, <1>4
<1>6. -1 \in Int
  OBVIOUS
<1> QED BY <1>5, <1>6, Zenon DEF decodeRemainingLength

LEMMA InitWithin == Init => IInv
  BY DEF Init, IInv, TypeInv, Course, NewPacket, PacketFields, Octet

LEMMA StepFixedHeader == IInv /\ FixedHeader => IInv'
<1> SUFFICES ASSUME IInv, FixedHeader PROVE IInv'
  OBVIOUS
<1>0. Byte \in Octet /\ pos + 1 \in 0 .. avail
  BY ByteTyped DEF IInv, FixedHeader, At
<1>1. /\ pk' = [Cleared(pk) EXCEPT !.header = Byte] /\ UNCHANGED buffer
      /\ pos' = pos + 1 /\ bytePos' \in {bytePos, 0}
  BY DEF FixedHeader, Await, Wrong
<1>2. pk' \in PacketFields /\ Type(pk') = Byte \div 16 /\ pk'.index = 0 /\ pk'.length = 0
  <2> DEFINE p == Cleared(pk)
  <2>1. p \in PacketFields /\ p.index = 0 /\ p.length = 0
    <3>1. pk \in PacketFields /\ 0 \in Octet
      BY DEF IInv, TypeInv, Octet
    <3> QED BY <3>1 DEF PacketFields, Cleared
  <2> HIDE DEF p
  <2>2. pk' = [p EXCEPT !.header = Byte]
    BY <1>1 DEF p
  <2> QED BY <1>0, <2>1, <2>2 DEF PacketFields, Type
<1>3. TypeInv'
  BY <1>0, <1>1, <1>2 DEF IInv, TypeInv, buffer
<1>4. Course'
  <2>1. fn' \in {"remainingLengthVariable", "remainingLengthFixed", "remainingLengthNone", "fixedHeader"}
    BY DEF FixedHeader, Await, Wrong, At
  <2>2. fn' = "remainingLengthVariable" => Byte \div 16 \in {PUBLISH, SUBACK} /\ bytePos' = 0
    BY DEF FixedHeader, Await, Wrong, At
  <2>3. fn' = "remainingLengthFixed" => Byte \div 16 \in Acks \cup {CONNACK}
    BY DEF FixedHeader, Await, Wrong, At
  <2> QED BY <1>2, <2>1, <2>2, <2>3 DEF Course, Unstarted, Type
<1> QED BY <1>3, <1>4 DEF IInv

LEMMA StepRemainingLengthFixed == IInv /\ RemainingLengthFixed => IInv'
<1> SUFFICES ASSUME IInv, RemainingLengthFixed PROVE IInv'
  OBVIOUS
<1>0. Byte \in Octet /\ pos + 1 \in 0 .. avail /\ pk \in PacketFields /\ bytePos \in Nat
  BY ByteTyped DEF IInv, TypeInv, RemainingLengthFixed, At
<1>1. /\ pk' = [pk EXCEPT !.rem = Byte] /\ UNCHANGED <<bytePos, buffer>>
      /\ pos' = pos + 1
  BY DEF RemainingLengthFixed, Await, Wrong
<1>2. pk' \in PacketFields /\ Type(pk') = Type(pk)
  <2>1. Byte \in Int
    BY <1>0 DEF Octet
  <2> QED BY <1>0, <1>1, <2>1 DEF PacketFields, Type
<1>3. TypeInv'
  BY <1>0, <1>1, <1>2 DEF IInv, TypeInv, buffer
<1>4. \/ fn' = "fixedHeader"
      \/ fn' = "varHeaderPacketId1" /\ Type(pk) # CONNACK
      \/ fn' = "varHeaderConnack1"
  BY DEF RemainingLengthFixed, Await, Wrong
<1>5. Type(pk) \in Acks \cup {CONNACK}
  BY DEF IInv, Course, RemainingLengthFixed, At
<1>6. Course'
  BY <1>2, <1>4, <1>5 DEF Course
<1> QED BY <1>3, <1>6 DEF IInv

LEMMA StepRemainingLengthNone == IInv /\ RemainingLengthNone => IInv'
<1> SUFFICES ASSUME IInv, RemainingLengthNone PROVE IInv'
  OBVIOUS
<1>0. Byte \in Octet /\ pos + 1 \in 0 .. avail /\ pk \in PacketFields /\ bytePos \in Nat
  BY ByteTyped DEF IInv, TypeInv, RemainingLengthNone, At
<1>1. /\ pk' = [pk EXCEPT !.rem = Byte] /\ UNCHANGED <<bytePos, buffer>>
      /\ pos' = pos + 1 /\ fn' = "fixedHeader"
  BY DEF RemainingLengthNone, Complete, Wrong
<1>2. pk' \in PacketFields
  <2>1. Byte \in Int
    BY <1>0 DEF Octet
  <2> QED BY <1>0, <1>1, <2>1 DEF PacketFields
<1>3. TypeInv'
  BY <1>0, <1>1, <1>2 DEF IInv, TypeInv, buffer
<1>4. Course'
  BY <1>1 DEF Course
<1> QED BY <1>3, <1>4 DEF IInv

LEMMA StepRemainingLengthVariable == IInv /\ RemainingLengthVariable => IInv'
<1> SUFFICES ASSUME IInv, RemainingLengthVariable PROVE IInv'
  OBVIOUS
<1>0. Byte \in Octet /\ pos + 1 \in 0 .. avail /\ pk \in PacketFields /\ bytePos \in Nat
  BY ByteTyped DEF IInv, TypeInv, RemainingLengthVariable, At
<1>1. /\ Type(pk) \in {PUBLISH, SUBACK} /\ Unstarted /\ bytePos \in 0 .. 3
      /\ UNCHANGED buffer
  BY <1>0 DEF IInv, Course, RemainingLengthVariable, At
<1> DEFINE raw == [pk.raw EXCEPT ![bytePos + 1] = Byte]
<1>2. raw \in [1 .. 4 -> Octet]
  BY <1>0, <1>1 DEF PacketFields
<1> HIDE DEF raw
<1>3. CASE Continues(Byte)
           /\ pk' = [pk EXCEPT !.raw = raw]
           /\ bytePos' = bytePos + 1
           /\ IF bytePos' = 4 THEN Wrong(fn) ELSE Await(fn)
  <2>1. /\ pos' = pos + 1 /\ fn' = fn /\ bytePos' \in Nat
        /\ ~error' => bytePos' < 4
    BY <1>0, <1>1, <1>3 DEF Wrong, Await
  <2>2. pk' \in PacketFields /\ Type(pk') = Type(pk) /\ Unstarted'
    BY <1>0, <1>1, <1>2, <1>3 DEF PacketFields, Type, Unstarted
  <2>3. TypeInv'
    BY <1>0, <1>1, <2>1, <2>2 DEF IInv, TypeInv, buffer
  <2>4. fn = "remainingLengthVariable"
    BY DEF RemainingLengthVariable, At
  <2>5. Course'
    BY <1>1, <2>1, <2>2, <2>4 DEF Course
  <2> QED BY <2>3, <2>5 DEF IInv
<1>4. CASE LengthKnown(raw)
  <2> DEFINE rem == decodeRemainingLength(raw)
             size == rem - 2
  <2>1. rem \in Int /\ size \in Int
    BY <1>2, DecodedTyped
  <2> HIDE DEF rem
  <2>2. CASE /\ Type(pk) = PUBLISH
             /\ pk' = [pk EXCEPT !.raw = raw, !.rem = rem]
             /\ Await("varHeaderTopicLength1") /\ UNCHANGED bytePos
    <3>1. pk' \in PacketFields /\ Type(pk') = PUBLISH /\ Unstarted'
      BY <1>0, <1>1, <1>2, <2>1, <2>2 DEF PacketFields, Type, Unstarted
    <3>2. TypeInv'
      BY <1>0, <1>1, <2>2, <3>1 DEF IInv, TypeInv, buffer, Await
    <3>3. Course'
      BY <2>2, <3>1 DEF Course, Await
    <3> QED BY <3>2, <3>3 DEF IInv
  <2>3. CASE /\ Type(pk) # PUBLISH /\ 0 < size /\ size < PayloadBuffer
             /\ pk' = [pk EXCEPT !.raw = raw, !.rem = rem, !.index = 0,
                                 !.length = size, !.total = size]
             /\ Await("varHeaderPacketId1") /\ bytePos' = 0
    <3>1. size \in Nat
      BY <2>1, <2>3
    <3>2. pk' \in PacketFields /\ Type(pk') = SUBACK /\ pk'.total = size
      BY <1>0, <1>1, <1>2, <2>1, <2>3, <3>1 DEF PacketFields, Type
    <3>3. TypeInv'
      BY <1>0, <1>1, <2>3, <3>2 DEF IInv, TypeInv, buffer, Await
    <3>4. Course'
      BY <2>3, <3>2 DEF Course, Await
    <3> QED BY <3>3, <3>4 DEF IInv
  <2>4. CASE /\ pk' = [pk EXCEPT !.raw = raw, !.rem = rem]
             /\ Wrong("fixedHeader") /\ UNCHANGED bytePos
    <3>1. pk' \in PacketFields
      BY <1>0, <1>2, <2>1, <2>4 DEF PacketFields
    <3>2. TypeInv'
      BY <1>0, <1>1, <2>4, <3>1 DEF IInv, TypeInv, buffer, Wrong
    <3>3. Course'
      BY <2>4 DEF Course, Wrong
    <3> QED BY <3>2, <3>3 DEF IInv
  <2> QED BY <1>4, <2>2, <2>3, <2>4, Zenon DEF LengthKnown, rem
<1> QED BY <1>3, <1>4, Zenon DEF RemainingLengthVariable, raw

LEMMA StepVarHeaderConnack1 == IInv /\ VarHeaderConnack1 => IInv'
<1> SUFFICES ASSUME IInv, VarHeaderConnack1 PROVE IInv'
  OBVIOUS
<1>0. Byte \in Octet /\ pos + 1 \in 0 .. avail /\ pk \in PacketFields /\ bytePos \in Nat
  BY ByteTyped DEF IInv, TypeInv, VarHeaderConnack1, At
<1>1. /\ UNCHANGED <<bytePos, buffer>> /\ pos' = pos + 1
      /\ fn' \in {"varHeaderConnack2", "fixedHeader"}
      /\ pk' \in {pk, [pk EXCEPT !.session = Byte]}
  BY DEF VarHeaderConnack1, Await, Wrong
<1>2. pk' \in PacketFields
  BY <1>0, <1>1 DEF PacketFields
<1>3. TypeInv'
  BY <1>0, <1>1, <1>2 DEF IInv, TypeInv, buffer
<1>4. Course'
  BY <1>1 DEF Course
<1> QED BY <1>3, <1>4 DEF IInv

LEMMA StepVarHeaderConnack2 == IInv /\ VarHeaderConnack2 => IInv'
<1> SUFFICES ASSUME IInv, VarHeaderConnack2 PROVE IInv'
  OBVIOUS
<1>0. Byte \in Octet /\ pos + 1 \in 0 .. avail /\ pk \in PacketFields /\ bytePos \in Nat
  BY ByteTyped DEF IInv, TypeInv, VarHeaderConnack2, At
<1>1. /\ UNCHANGED <<bytePos, pk, buffer>> /\ pos' = pos + 1 /\ fn' = "fixedHeader"
  BY DEF VarHeaderConnack2, Complete, Wrong
<1>2. TypeInv'
  BY <1>0, <1>1 DEF IInv, TypeInv, buffer
<1>3. Course'
  BY <1>1 DEF Course
<1> QED BY <1>2, <1>3 DEF IInv

LEMMA StepVarHeaderPacketId1 == IInv /\ VarHeaderPacketId1 => IInv'
<1> SUFFICES ASSUME IInv, VarHeaderPacketId1 PROVE IInv'
  OBVIOUS
<1>0. Byte \in Octet /\ pos + 1 \in 0 .. avail /\ pk \in PacketFields /\ bytePos \in Nat
  BY ByteTyped DEF IInv, TypeInv, VarHeaderPacketId1, At
<1>1. /\ pk' = [pk EXCEPT !.id = @ + 256 * Byte] /\ UNCHANGED <<bytePos, buffer>>
      /\ pos' = pos + 1 /\ fn = "varHeaderPacketId1" /\ fn' = "varHeaderPacketId2"
  BY DEF VarHeaderPacketId1, Await, At
<1> DEFINE id == pk.id + 256 * Byte
<1>2. id \in Nat
  <2>1. Byte \in Nat
    BY <1>0 DEF Octet
  <2>2. pk.id \in Nat
    BY <1>0 DEF PacketFields
  <2> QED BY <2>1, <2>2
<1>3. /\ pk' \in PacketFields /\ Type(pk') = Type(pk) /\ pk'.total = pk.total
      /\ Unstarted' = Unstarted
  <2>1. pk' = [pk EXCEPT !.id = id]
    BY <1>1
  <2> HIDE DEF id
  <2>2. /\ pk' \in PacketFields /\ pk'.header = pk.header /\ pk'.total = pk.total
        /\ pk'.index = pk.index /\ pk'.length = pk.length
    BY <1>0, <1>2, <2>1 DEF PacketFields
  <2> QED BY <2>2 DEF Type, Unstarted
<1>4. TypeInv'
  BY <1>0, <1>1, <1>3 DEF IInv, TypeInv, buffer
<1>5. Course'
  BY <1>1, <1>3 DEF IInv, Course
<1> QED BY <1>4, <1>5 DEF IInv

LEMMA StepVarHeaderPacketId2 == IInv /\ VarHeaderPacketId2 => IInv'
<1> SUFFICES ASSUME IInv, VarHeaderPacketId2 PROVE IInv'
  OBVIOUS
<1>0. Byte \in Octet /\ pos + 1 \in 0 .. avail /\ pk \in PacketFields /\ bytePos \in Nat
  BY ByteTyped DEF IInv, TypeInv, VarHeaderPacketId2, At
<1> DEFINE id == pk.id + Byte
           total == IF Type(pk) = PUBLISH /\ id # 0 THEN SizeT(pk.total - 2) ELSE pk.total
<1>1. id \in Nat /\ pk.total \in Nat
  <2>1. Byte \in Nat
    BY <1>0 DEF Octet
  <2>2. pk.id \in Nat /\ pk.total \in Nat
    BY <1>0 DEF PacketFields
  <2> QED BY <2>1, <2>2
<1>2. total \in Nat
  BY <1>1, Unsigned
<1>3. Type(pk) # PUBLISH => total = pk.total
  OBVIOUS
<1>4. /\ fn = "varHeaderPacketId2" /\ UNCHANGED <<bytePos, buffer>>
      /\ pk' = [pk EXCEPT !.id = id, !.total = total]
      /\ CASE id = 0 -> Wrong("fixedHeader")
           [] id # 0 /\ Type(pk) = SUBACK -> Await("payloadSuback")
           [] id # 0 /\ Type(pk) = PUBLISH ->
                IF total = 0
                THEN Complete(Publish(Flags(pk), pk.topic, id, <<>>, 0))
                ELSE Await("payloadPublish")
           [] id # 0 /\ Type(pk) \in Acks -> Complete(Ack(Type(pk), id))
  BY DEF VarHeaderPacketId2, At
<1> HIDE DEF total, id
<1>5. \/ Type(pk) \in Acks
      \/ Type(pk) = PUBLISH /\ Unstarted
      \/ Type(pk) = SUBACK /\ bytePos = 0 /\ 0 < pk.total /\ pk.total < PayloadBuffer
  BY <1>4 DEF IInv, Course
<1>6. /\ pos' = pos + 1
      /\ \/ fn' = "fixedHeader"
         \/ fn' = "payloadSuback" /\ Type(pk) = SUBACK
         \/ fn' = "payloadPublish" /\ Type(pk) = PUBLISH /\ total # 0
  BY <1>4, <1>5 DEF Wrong, Await, Complete, Acks, PUBACK, PUBREC, PUBREL, PUBCOMP, UNSUBACK,
                    PUBLISH, SUBACK
<1>7. pk' \in PacketFields /\ pk'.total = total /\ Unstarted' = Unstarted /\ pk'.codes = pk.codes
  BY <1>0, <1>1, <1>2, <1>4 DEF PacketFields, Unstarted
<1>8. TypeInv'
  BY <1>0, <1>4, <1>6, <1>7 DEF IInv, TypeInv, buffer
<1>9. Course'
  <2>1. CASE fn' = "fixedHeader"
    BY <2>1 DEF Course
  <2>2. CASE fn' = "payloadSuback" /\ Type(pk) = SUBACK
    <3>1. bytePos' = 0 /\ 0 < total /\ total < PayloadBuffer
      BY <1>3, <1>4, <1>5, <2>2 DEF Acks, PUBACK, PUBREC, PUBREL, PUBCOMP, UNSUBACK,
                                    PUBLISH, SUBACK
    <3>2. 0 <= Len(pk.codes)
      BY <1>0 DEF PacketFields
    <3> QED BY <1>7, <2>2, <3>1, <3>2 DEF Course
  <2>3. CASE fn' = "payloadPublish" /\ Type(pk) = PUBLISH /\ total # 0
    <3>1. Unstarted
      BY <1>5, <2>3 DEF Acks, PUBACK, PUBREC, PUBREL, PUBCOMP, UNSUBACK, PUBLISH, SUBACK
    <3>2. pk'.index = 0 /\ pk'.length = 0 /\ 0 < total
      BY <1>2, <1>7, <2>3, <3>1 DEF Unstarted
    <3>3. pk'.index + pk'.length < pk'.total
      BY <1>7, <3>2
    <3> QED BY <2>3, <3>3 DEF Course
  <2> QED BY <1>6, <2>1, <2>2, <2>3
<1> QED BY <1>8, <1>9 DEF IInv

LEMMA StepVarHeaderTopicLength1 == IInv /\ VarHeaderTopicLength1 => IInv'
<1> SUFFICES ASSUME IInv, VarHeaderTopicLength1 PROVE IInv'
  OBVIOUS
<1>0. Byte \in Octet /\ pos + 1 \in 0 .. avail /\ pk \in PacketFields /\ bytePos \in Nat
  BY ByteTyped DEF IInv, TypeInv, VarHeaderTopicLength1, At
<1>1. /\ pk' = [pk EXCEPT !.topicLength = 256 * Byte] /\ UNCHANGED <<bytePos, buffer>>
      /\ pos' = pos + 1 /\ fn = "varHeaderTopicLength1" /\ fn' = "varHeaderTopicLength2"
  BY DEF VarHeaderTopicLength1, Await, At
<1> DEFINE topicLength == 256 * Byte
<1>2. topicLength \in Nat
  BY <1>0 DEF Octet
<1>3. pk' \in PacketFields /\ Type(pk') = Type(pk) /\ Unstarted' = Unstarted
  <2>1. pk' = [pk EXCEPT !.topicLength = topicLength]
    BY <1>1
  <2> HIDE DEF topicLength
  <2>2. /\ pk' \in PacketFields /\ pk'.header = pk.header
        /\ pk'.index = pk.index /\ pk'.length = pk.length
    BY <1>0, <1>2, <2>1 DEF PacketFields
  <2> QED BY <2>2 DEF Type, Unstarted
<1>4. TypeInv'
  BY <1>0, <1>1, <1>3 DEF IInv, TypeInv, buffer
<1>5. Course'
  BY <1>1, <1>3 DEF IInv, Course
<1> QED BY <1>4, <1>5 DEF IInv

LEMMA StepVarHeaderTopicLength2 == IInv /\ VarHeaderTopicLength2 => IInv'
<1> SUFFICES ASSUME IInv, VarHeaderTopicLength2 PROVE IInv'
  OBVIOUS
<1>0. Byte \in Octet /\ pos + 1 \in 0 .. avail /\ pk \in PacketFields /\ bytePos \in Nat
  BY ByteTyped DEF IInv, TypeInv, VarHeaderTopicLength2, At
<1> DEFINE length == pk.topicLength + Byte
           total == SizeT(pk.rem - 2 - length)
<1>1. length \in Nat /\ pk.rem - 2 - length \in Int
  <2>1. Byte \in Nat
    BY <1>0 DEF Octet
  <2>2. pk.topicLength \in Nat /\ pk.rem \in Int
    BY <1>0 DEF PacketFields
  <2> QED BY <2>1, <2>2
<1>2. total \in Nat
  BY <1>1, Unsigned
<1>3. fn = "varHeaderTopicLength2" /\ UNCHANGED buffer /\ pos' = pos + 1
  BY DEF VarHeaderTopicLength2, Await, Wrong, At
<1>4. Type(pk) = PUBLISH /\ Unstarted
  BY <1>3 DEF IInv, Course
<1>5. \/ /\ pk' = [pk EXCEPT !.topicLength = length, !.total = total]
         /\ fn' = "varHeaderTopic" /\ bytePos' = 0
      \/ /\ pk' = [pk EXCEPT !.topicLength = length]
         /\ fn' = "fixedHeader" /\ bytePos' = bytePos
  BY DEF VarHeaderTopicLength2, Await, Wrong
<1> HIDE DEF length, total
<1>6. pk' \in PacketFields /\ Type(pk') = Type(pk) /\ Unstarted' = Unstarted
      /\ pk'.topic = pk.topic
  BY <1>0, <1>1, <1>2, <1>5 DEF PacketFields, Type, Unstarted
<1>7. TypeInv'
  BY <1>0, <1>3, <1>5, <1>6 DEF IInv, TypeInv, buffer
<1>8. 0 < MaxTopic /\ 0 <= Len(pk.topic)
  <2>1. pk.topic \in Seq(Octet)
    BY <1>0 DEF PacketFields
  <2>2. 0 <= Len(pk.topic)
    BY <2>1
  <2> QED BY <2>2, SizeAssumption
<1>9. Course'
  BY <1>4, <1>5, <1>6, <1>8 DEF Course
<1> QED BY <1>7, <1>9 DEF IInv

LEMMA StepVarHeaderTopic == IInv /\ VarHeaderTopic => IInv'
<1> SUFFICES ASSUME IInv, VarHeaderTopic PROVE IInv'
  OBVIOUS
<1>0. Byte \in Octet /\ pos + 1 \in 0 .. avail /\ pk \in PacketFields /\ bytePos \in Nat
  BY ByteTyped DEF IInv, TypeInv, VarHeaderTopic, At
<1> DEFINE topic == SubSeq(pk.topic, 1, bytePos) \o <<Byte>>
<1>1. /\ fn = "varHeaderTopic" /\ UNCHANGED buffer /\ pos' = pos + 1
      /\ bytePos' = bytePos + 1 /\ pk' = [pk EXCEPT !.topic = topic]
  BY DEF VarHeaderTopic, Await, Complete, At
<1>2. /\ Type(pk) = PUBLISH /\ Unstarted
      /\ bytePos < MaxTopic /\ bytePos <= Len(pk.topic) /\ MaxTopic \in Nat
  BY <1>1, SizeAssumption DEF IInv, Course
<1>3. topic \in Seq(Octet) /\ Len(topic) = bytePos + 1
  <2>1. pk.topic \in Seq(Octet)
    BY <1>0 DEF PacketFields
  <2> QED BY <1>0, <1>2, <2>1
<1>4. /\ \/ fn' = "varHeaderTopic" /\ bytePos' # MaxTopic
         \/ fn' = "varHeaderPacketId1"
         \/ fn' = "fixedHeader"
         \/ fn' = "payloadPublish" /\ pk.total # 0
  BY DEF VarHeaderTopic, Await, Complete, At
<1> HIDE DEF topic
<1>5. /\ pk' \in PacketFields /\ Type(pk') = Type(pk) /\ Unstarted' = Unstarted
      /\ pk'.topic = topic /\ pk'.total = pk.total
  BY <1>0, <1>1, <1>3 DEF PacketFields, Type, Unstarted
<1>6. TypeInv'
  BY <1>0, <1>1, <1>5 DEF IInv, TypeInv, buffer
<1>7. fn' = "payloadPublish" => pk'.index + pk'.length < pk'.total
  <2>1. pk.total \in Nat
    BY <1>0 DEF PacketFields
  <2>2. pk'.index = 0 /\ pk'.length = 0
    BY <1>2, <1>5 DEF Unstarted
  <2> QED BY <1>4, <1>5, <2>1, <2>2
<1>8. bytePos' \in Nat /\ bytePos' <= Len(topic) /\ bytePos' <= MaxTopic
  BY <1>0, <1>1, <1>2, <1>3
<1>9. Course'
  BY <1>2, <1>4, <1>5, <1>7, <1>8 DEF Course
<1> QED BY <1>6, <1>9 DEF IInv

LEMMA StepPayloadSuback == IInv /\ PayloadSuback => IInv'
<1> SUFFICES ASSUME IInv, PayloadSuback PROVE IInv'
  OBVIOUS
<1>0. Byte \in Octet /\ pos + 1 \in 0 .. avail /\ pk \in PacketFields /\ bytePos \in Nat
  BY ByteTyped DEF IInv, TypeInv, PayloadSuback, At
<1> DEFINE codes == SubSeq(pk.codes, 1, bytePos) \o <<Byte>>
<1>1. fn = "payloadSuback" /\ UNCHANGED buffer /\ pos' = pos + 1
  BY DEF PayloadSuback, Await, Complete, Wrong, At
<1>2. bytePos < pk.total /\ pk.total < PayloadBuffer /\ bytePos <= Len(pk.codes)
  BY <1>1 DEF IInv, Course
<1>3. codes \in Seq(Octet) /\ Len(codes) = bytePos + 1 /\ pk.total \in Nat
  <2>1. pk.codes \in Seq(Octet) /\ pk.total \in Nat
    BY <1>0 DEF PacketFields
  <2> QED BY <1>0, <1>2, <2>1
<1>4. \/ /\ pk' = [pk EXCEPT !.codes = codes] /\ bytePos' = bytePos + 1
         /\ \/ fn' = "fixedHeader"
            \/ fn' = "payloadSuback" /\ bytePos' # pk.total
      \/ pk' = pk /\ bytePos' = bytePos /\ fn' = "fixedHeader"
  BY DEF PayloadSuback, Await, Complete, Wrong, At
<1> HIDE DEF codes
<1>5. /\ pk' \in PacketFields /\ bytePos' \in Nat
      /\ fn' = "payloadSuback" =>
           pk'.codes = codes /\ pk'.total = pk.total /\ bytePos' = bytePos + 1 /\ bytePos' # pk.total
  <2>1. CASE pk' = [pk EXCEPT !.codes = codes] /\ bytePos' = bytePos + 1
             /\ (fn' = "payloadSuback" => bytePos' # pk.total)
    <3>1. pk' \in PacketFields /\ pk'.codes = codes /\ pk'.total = pk.total
      BY <1>0, <1>3, <2>1 DEF PacketFields
    <3> QED BY <1>0, <2>1, <3>1
  <2>2. CASE pk' = pk /\ bytePos' = bytePos /\ fn' = "fixedHeader"
    BY <1>0, <2>2
  <2>3. "fixedHeader" # "payloadSuback"
    OBVIOUS
  <2> QED BY <1>4, <2>1, <2>2, <2>3
<1>6. TypeInv'
  BY <1>0, <1>1, <1>5 DEF IInv, TypeInv, buffer
<1>7. fn' = "payloadSuback" =>
        bytePos' < pk'.total /\ pk'.total < PayloadBuffer /\ bytePos' <= Len(pk'.codes)
  BY <1>0, <1>2, <1>3, <1>5
<1>8. Course'
  BY <1>4, <1>7 DEF Course
<1> QED BY <1>6, <1>8 DEF IInv

LEMMA StepPayloadPublish == IInv /\ PayloadPublish => IInv'
<1> SUFFICES ASSUME IInv, PayloadPublish PROVE IInv'
  OBVIOUS
<1>0. Byte \in Octet /\ pos + 1 \in 0 .. avail /\ pk \in PacketFields /\ bytePos \in Nat
  BY ByteTyped DEF IInv, TypeInv, PayloadPublish, At
<1> DEFINE index == pk.index + pk.length
           length == IF avail - pos < pk.total - index THEN avail - pos
                                                       ELSE pk.total - index
<1>1. /\ fn = "payloadPublish" /\ UNCHANGED <<bytePos, error, buffer>> /\ pos < avail
      /\ pk' = [pk EXCEPT !.index = index, !.length = length] /\ pos' = pos + length
      /\ fn' = IF index + length = pk.total THEN "fixedHeader" ELSE fn
  BY DEF PayloadPublish, At
<1>2. index \in Nat /\ pk.total \in Nat /\ index < pk.total
  BY <1>0, <1>1 DEF PacketFields, IInv, Course
<1>3. avail \in Nat /\ pos \in 0 .. avail
  BY DEF IInv, TypeInv
<1> HIDE DEF index
<1>4. length \in Nat /\ pos + length \in 0 .. avail /\ index + length <= pk.total
  BY <1>1, <1>2, <1>3
<1> HIDE DEF length
<1>5. /\ pk' \in PacketFields /\ pk'.index = index /\ pk'.length = length /\ pk'.total = pk.total
  BY <1>0, <1>1, <1>2, <1>4 DEF PacketFields
<1>6. TypeInv'
  BY <1>0, <1>1, <1>4, <1>5 DEF IInv, TypeInv, buffer
<1>7. fn' = "payloadPublish" => index + length < pk.total
  BY <1>1, <1>2, <1>4
<1>8. Course'
  BY <1>1, <1>5, <1>7 DEF Course
<1> QED BY <1>6, <1>8 DEF IInv

LEMMA StepRead == IInv /\ Read => IInv'
<1> SUFFICES ASSUME IInv, Read PROVE IInv'
  OBVIOUS
<1>1. UNCHANGED <<sent, stream, pos, fn, bytePos, pk, got, error, conns>> /\ pos = avail
  BY DEF Read
<1>2. PICK n \in 1 .. RxBuffer : avail + n <= Len(stream) /\ avail' = avail + n
  BY DEF Read
<1>3. TypeInv'
  BY <1>1, <1>2 DEF IInv, TypeInv
<1>4. Course'
  BY <1>1 DEF IInv, Course, Unstarted
<1> QED BY <1>3, <1>4 DEF IInv

LEMMA StepReconnect == IInv /\ Reconnect => IInv'
<1> SUFFICES ASSUME IInv, Reconnect PROVE IInv'
  OBVIOUS
<1>1. /\ fn' = "fixedHeader" /\ bytePos' = 0 /\ pk' = Cleared(pk)
      /\ pos' = 0 /\ avail' = 0
  BY DEF Reconnect, Open
<1>2. stream' \in Seq(Octet)
  BY SentAssumption DEF Reconnect, Open, Octet
<1>3. pk' \in PacketFields
  <2>1. pk \in PacketFields /\ 0 \in Octet
    BY DEF IInv, TypeInv, Octet
  <2> QED BY <1>1, <2>1 DEF PacketFields, Cleared
<1>4. TypeInv'
  BY <1>1, <1>2, <1>3 DEF TypeInv
<1>5. Course'
  BY <1>1 DEF Course
<1> QED BY <1>4, <1>5 DEF IInv

LEMMA StaysInside == IInv /\ [Next]_vars => IInv'
<1> SUFFICES ASSUME IInv, [Next]_vars PROVE IInv'
  OBVIOUS
<1>1. CASE Next
  BY <1>1, StepFixedHeader, StepRemainingLengthFixed, StepRemainingLengthNone,
     StepRemainingLengthVariable, StepVarHeaderConnack1, StepVarHeaderConnack2,
     StepVarHeaderPacketId1, StepVarHeaderPacketId2, StepVarHeaderTopicLength1,
     StepVarHeaderTopicLength2, StepVarHeaderTopic, StepPayloadSuback,
     StepPayloadPublish, StepRead, StepReconnect DEF Next
<1>2. CASE UNCHANGED vars
  BY <1>2 DEF vars, IInv, TypeInv, Course, Unstarted
<1> QED BY <1>1, <1>2

\* Whatever bytes arrive, in whatever pieces, on however many connections, and with
\* buffers of any size, the parser writes inside remainingLengthRaw, topic and
\* _payloadBuffer, and takes and passes on no byte beyond those that were read
\* (Parser.cpp:54-56, 139-175, 262-312).
THEOREM StaysWithin == Spec => []WithinBuffers
<1>1. IInv => WithinBuffers
  <2> SUFFICES ASSUME IInv PROVE WithinBuffers
    OBVIOUS
  <2>1. bytePos \in Nat /\ pos <= avail /\ pk.total \in Nat /\ PayloadBuffer \in Nat
    BY SizeAssumption DEF IInv, TypeInv, PacketFields
  <2> QED BY <2>1 DEF IInv, Course, WithinBuffers
<1> QED BY InitWithin, StaysInside, <1>1, PTL DEF Spec

-----------------------------------------------------------------------------
(* What is sent is given out *)

HeaderOf(p) == 16 * p.type + FlagsOf(p)
PayloadAt(p) == IdAt(p) + IdLength(p)

\* What is known of the packet p at its id: its topic and how much follows.
BeforeId(p) ==
  /\ p.type \in Acks \cup {SUBACK, PUBLISH}
  /\ p.type = SUBACK => bytePos = 0 /\ pk.total = Len(p.codes)
  /\ p.type = PUBLISH => /\ HasId(p.flags) /\ Unstarted
                         /\ pk.topic = p.topic /\ pk.total = Len(p.payload) + 2

\* In each function the parser has taken off bytes of the packet p and knows what
\* they say.
AmidLengthFixed(p, off) ==
  fn = "remainingLengthFixed" /\ off = 1 /\ p.type \in Acks \cup {CONNACK} /\ pk.id = 0
AmidLengthNone(p, off) == fn = "remainingLengthNone" /\ off = 1 /\ p.type = PINGRESP
AmidLengthVariable(p, off) ==
  /\ fn = "remainingLengthVariable" /\ off = 1 + bytePos
  /\ p.type \in {SUBACK, PUBLISH} /\ pk.id = 0 /\ Unstarted
  /\ bytePos < Len(LengthBytes(p))
  /\ \A j \in 1 .. bytePos : pk.raw[j] = LengthBytes(p)[j]
AmidConnack1(p, off) == fn = "varHeaderConnack1" /\ off = 2 /\ p.type = CONNACK
AmidConnack2(p, off) ==
  fn = "varHeaderConnack2" /\ off = 3 /\ p.type = CONNACK /\ pk.session = p.session
AmidId1(p, off) ==
  fn = "varHeaderPacketId1" /\ off = IdAt(p) /\ BeforeId(p) /\ pk.id = 0
AmidId2(p, off) ==
  /\ fn = "varHeaderPacketId2" /\ off = IdAt(p) + 1
  /\ BeforeId(p) /\ pk.id = 256 * (p.id \div 256)
AmidTopicLength1(p, off) ==
  /\ fn = "varHeaderTopicLength1" /\ off = Start(p)
  /\ p.type = PUBLISH /\ pk.id = 0 /\ Unstarted /\ pk.rem = Len(Body(p))
AmidTopicLength2(p, off) ==
  /\ fn = "varHeaderTopicLength2" /\ off = Start(p) + 1
  /\ p.type = PUBLISH /\ pk.id = 0 /\ Unstarted /\ pk.rem = Len(Body(p))
  /\ pk.topicLength = 256 * (Len(p.topic) \div 256)
AmidTopic(p, off) ==
  /\ fn = "varHeaderTopic" /\ off = Start(p) + 2 + bytePos
  /\ p.type = PUBLISH /\ pk.id = 0 /\ Unstarted
  /\ pk.topicLength = Len(p.topic) /\ bytePos < Len(p.topic)
  /\ pk.total = IdLength(p) + Len(p.payload)
  /\ \A j \in 1 .. bytePos : pk.topic[j] = p.topic[j]
AmidCodes(p, off) ==
  /\ fn = "payloadSuback" /\ off = Start(p) + 2 + bytePos
  /\ p.type = SUBACK /\ pk.id = p.id
  /\ pk.total = Len(p.codes) /\ bytePos < Len(p.codes)
  /\ \A j \in 1 .. bytePos : pk.codes[j] = p.codes[j]
AmidPayload(p, off) ==
  /\ fn = "payloadPublish" /\ off = PayloadAt(p) + pk.index + pk.length
  /\ p.type = PUBLISH /\ pk.id = p.id /\ pk.topic = p.topic
  /\ pk.total = Len(p.payload) /\ pk.index + pk.length < Len(p.payload)

Amid(p, off) ==
  \/ AmidLengthFixed(p, off) \/ AmidLengthNone(p, off) \/ AmidLengthVariable(p, off)
  \/ AmidConnack1(p, off) \/ AmidConnack2(p, off) \/ AmidId1(p, off) \/ AmidId2(p, off)
  \/ AmidTopicLength1(p, off) \/ AmidTopicLength2(p, off) \/ AmidTopic(p, off)
  \/ AmidCodes(p, off) \/ AmidPayload(p, off)

\* Where the first k packets end.
Ends(packets, k) == Len(StreamedFirst(packets)[k])

\* The packets of the stream, with that of which nonsense is the beginning in its place;
\* how many bytes belong to them; where they end.
Meant == [k \in 1 .. Len(sent) |-> IF IsNonsense(k) THEN sent[k].of ELSE sent[k]]
Ending(k) == Ends(Meant, k)
Spoilt == Len(sent) > 0 /\ IsNonsense(Len(sent))
Sense == IF Spoilt THEN Ending(Len(sent) - 1) + sent[Len(sent)].at ELSE Len(stream)

\* The first n packets are given out, and of a message under way what has come.
Given(n) ==
  IF fn = "payloadPublish" /\ pk.index + pk.length > 0
  THEN got = Append(SubSeq(Meant, 1, n),
                    [Meant[n + 1] EXCEPT !.payload = SubSeq(@, 1, pk.index + pk.length)])
  ELSE got = SubSeq(Meant, 1, n)

\* The parser is behind the first n packets, or inside the next.
Behind(n) == n \in 0 .. Len(Meant) /\ fn = "fixedHeader" /\ pos = Ending(n) /\ got = SubSeq(Meant, 1, n)
Inside(n) ==
  /\ n \in 0 .. Len(Meant) - 1
  /\ pk.header = HeaderOf(Meant[n + 1])
  /\ Amid(Meant[n + 1], pos - Ending(n))
  /\ Given(n)

Sound == sent \in Said /\ stream = Streamed(sent)
InOrder ==
  Sound /\ ~error /\ pos <= Sense /\ \E n \in 0 .. Len(Meant) : Behind(n) \/ Inside(n)
-----------------------------------------------------------------------------
(* The packets and their bytes *)

LEMMA TypeNumbers ==
  /\ CONNACK = 2 /\ PUBLISH = 3 /\ PUBACK = 4 /\ PUBREC = 5 /\ PUBREL = 6 /\ PUBCOMP = 7
  /\ SUBACK = 9 /\ UNSUBACK = 11 /\ PINGRESP = 13 /\ Acks = {4, 5, 6, 7, 11}
BY DEF CONNACK, PUBLISH, PUBACK, PUBREC, PUBREL, PUBCOMP, SUBACK, UNSUBACK, PINGRESP, Acks

IsConnack(p) ==
  p.type = CONNACK /\ p.session \in 0 .. 1 /\ p.code \in 0 .. 5
  /\ p = Connack(p.session, p.code)
IsAck(p) == p.type \in Acks /\ p.id \in PacketIds /\ p = Ack(p.type, p.id)
IsSuback(p) ==
  p.type = SUBACK /\ p.id \in PacketIds /\ p.codes \in Seq({0, 1, 2, 128})
  /\ p = Suback(p.id, p.codes)
IsPublish(p) ==
  /\ p.type = PUBLISH /\ p.flags \in (0 .. 5) \cup (10 .. 13)
  /\ p.topic \in Seq(Octet) /\ p.id \in PacketIds \cup {0}
  /\ p.payload \in Seq(Octet) /\ p.total \in Nat
  /\ p = Publish(p.flags, p.topic, p.id, p.payload, p.total)

LEMMA ConnackKind == ASSUME NEW p \in Connacks PROVE IsConnack(p)
BY DEF Connacks, Connack, IsConnack

LEMMA AckKind == ASSUME NEW p \in IdAcks PROVE IsAck(p)
<1>1. p.type \in Acks /\ p.id \in PacketIds
  BY DEF IdAcks
<1>2. p = [type |-> p.type, id |-> p.id]
  BY DEF IdAcks
<1> QED BY <1>1, <1>2, Zenon DEF Ack, IsAck

LEMMA SubackKind == ASSUME NEW p \in Subacks PROVE IsSuback(p)
BY DEF Subacks, Suback, IsSuback

LEMMA PublishKind == ASSUME NEW p \in Publishes PROVE IsPublish(p)
BY DEF Publishes, Publish, IsPublish

LEMMA PacketKinds ==
  ASSUME NEW p \in Packets
  PROVE  /\ Fits(p)
         /\ IsConnack(p) \/ IsAck(p) \/ IsSuback(p) \/ p = Pingresp \/ IsPublish(p)
<1>1. /\ Fits(p)
      /\ p \in Connacks \/ p \in IdAcks \/ p \in Subacks \/ p \in Publishes \/ p = Pingresp
  BY Zenon DEF Packets
<1> QED BY <1>1, ConnackKind, AckKind, SubackKind, PublishKind, Zenon

\* The types tell the kinds apart.
LEMMA KindOf ==
  ASSUME NEW p \in Packets
  PROVE  /\ p.type = CONNACK => IsConnack(p)
         /\ p.type \in Acks => IsAck(p)
         /\ p.type = SUBACK => IsSuback(p) /\ Len(p.codes) \in 1 .. PayloadBuffer - 1
         /\ p.type = PINGRESP => p = Pingresp
         /\ p.type = PUBLISH => /\ IsPublish(p) /\ Len(p.topic) \in 1 .. MaxTopic
                                /\ p.id # 0 <=> HasId(p.flags)
                                /\ p.total = Len(p.payload)
         /\ p.type \in Acks \cup {CONNACK, SUBACK, PINGRESP, PUBLISH}
         /\ Len(Body(p)) < Radix4
<1>1. Fits(p) /\ (IsConnack(p) \/ IsAck(p) \/ IsSuback(p) \/ p = Pingresp \/ IsPublish(p))
  BY PacketKinds
<1>2. IsConnack(p) => p.type = CONNACK
  BY DEF IsConnack
<1>3. IsAck(p) => p.type \in Acks
  BY DEF IsAck
<1>4. IsSuback(p) => p.type = SUBACK
  BY DEF IsSuback
<1>5. p = Pingresp => p.type = PINGRESP
  BY DEF Pingresp
<1>6. IsPublish(p) => p.type = PUBLISH
  BY DEF IsPublish
<1>7. /\ CONNACK \notin Acks /\ SUBACK \notin Acks /\ PINGRESP \notin Acks /\ PUBLISH \notin Acks
      /\ CONNACK # SUBACK /\ CONNACK # PINGRESP /\ CONNACK # PUBLISH
      /\ SUBACK # PINGRESP /\ SUBACK # PUBLISH /\ PINGRESP # PUBLISH
  BY TypeNumbers
<1> QED BY <1>1, <1>2, <1>3, <1>4, <1>5, <1>6, <1>7, Zenon DEF Fits

LEMMA WordBytes ==
  ASSUME NEW n \in Nat
  PROVE  /\ Word(n) \in Seq(Nat) /\ Len(Word(n)) = 2
         /\ Word(n)[1] = n \div 256 /\ Word(n)[2] = n % 256
         /\ n \div 256 \in Nat /\ 256 * (n \div 256) + (n % 256) = n
<1>1. n \div 256 \in Nat /\ n % 256 \in Nat /\ 256 * (n \div 256) + (n % 256) = n
  OBVIOUS
<1> QED BY <1>1 DEF Word

\* The sequence w is the number n in two bytes.
IsWord(w, n) ==
  /\ w \in Seq(Nat) /\ Len(w) = 2
  /\ w[1] = n \div 256 /\ w[2] = n % 256

LEMMA WordIs ==
  ASSUME NEW n \in Nat, NEW w, w = Word(n)
  PROVE  IsWord(w, n)
<1>1. IsWord(Word(n), n)
  BY DEF IsWord, Word
<1> QED BY <1>1, Zenon

\* The parts of a sequence that is put together.
LEMMA Joined ==
  ASSUME NEW S, NEW s \in Seq(S), NEW t \in Seq(S)
  PROVE  /\ s \o t \in Seq(S) /\ Len(s \o t) = Len(s) + Len(t)
         /\ \A i \in 1 .. Len(s) : (s \o t)[i] = s[i]
         /\ \A i \in 1 .. Len(t) : (s \o t)[Len(s) + i] = t[i]
<1>1. \A i \in 1 .. Len(s) + Len(t) :
        (s \o t)[i] = IF i <= Len(s) THEN s[i] ELSE t[i - Len(s)]
  BY ConcatProperties
<1>2. Len(s) \in Nat /\ Len(t) \in Nat
  OBVIOUS
<1>3. ASSUME NEW i \in 1 .. Len(t) PROVE (s \o t)[Len(s) + i] = t[i]
  <2>1. Len(s) + i \in 1 .. Len(s) + Len(t) /\ ~(Len(s) + i <= Len(s)) /\ Len(s) + i - Len(s) = i
    BY <1>2
  <2> QED BY <1>1, <2>1
<1> QED BY <1>1, <1>2, <1>3, ConcatProperties

\* The sequence r consists of s and t.
Pair(S, r, s, t) ==
  /\ r \in Seq(S) /\ Len(r) = Len(s) + Len(t)
  /\ \A i \in 1 .. Len(s) : r[i] = s[i]
  /\ \A i \in 1 .. Len(t) : r[Len(s) + i] = t[i]

LEMMA TwoParts ==
  ASSUME NEW S, NEW s \in Seq(S), NEW t \in Seq(S)
  PROVE  Pair(S, s \o t, s, t)
BY Joined DEF Pair

\* The body, kind by kind.
LEMMA BodyOf ==
  ASSUME NEW p
  PROVE  /\ p.type = CONNACK => Body(p) = <<p.session, p.code>>
         /\ p.type \in Acks => Body(p) = Word(p.id)
         /\ p.type = SUBACK => Body(p) = Word(p.id) \o p.codes
         /\ p.type = PINGRESP => Body(p) = <<>>
         /\ p.type = PUBLISH =>
              Body(p) = Word(Len(p.topic)) \o p.topic
                        \o (IF HasId(p.flags) THEN Word(p.id) ELSE <<>>) \o p.payload
<1>1. /\ CONNACK \notin Acks /\ SUBACK \notin Acks /\ PINGRESP \notin Acks /\ PUBLISH \notin Acks
      /\ CONNACK # SUBACK /\ CONNACK # PINGRESP /\ CONNACK # PUBLISH
      /\ SUBACK # PINGRESP /\ SUBACK # PUBLISH /\ PINGRESP # PUBLISH
  BY TypeNumbers
<1> QED BY <1>1 DEF Body

LEMMA IdsAreNumbers == PacketIds \cup {0} \subseteq Nat
BY DEF PacketIds

LEMMA OctetsAreNumbers == ASSUME NEW s \in Seq(Octet) PROVE s \in Seq(Nat)
<1>1. Octet \subseteq Nat
  BY DEF Octet
<1> QED BY <1>1, SeqMonotonic

\* The sequence r consists of s, t, u and v.
Joins(S, r, s, t, u, v) ==
  /\ r \in Seq(S) /\ Len(r) = Len(s) + Len(t) + Len(u) + Len(v)
  /\ \A i \in 1 .. Len(s) : r[i] = s[i]
  /\ \A i \in 1 .. Len(t) : r[Len(s) + i] = t[i]
  /\ \A i \in 1 .. Len(u) : r[Len(s) + Len(t) + i] = u[i]
  /\ \A i \in 1 .. Len(v) : r[Len(s) + Len(t) + Len(u) + i] = v[i]

LEMMA FourPartsOf ==
  ASSUME NEW S, NEW s \in Seq(S), NEW t \in Seq(S), NEW u \in Seq(S), NEW v \in Seq(S),
         NEW r, r = s \o t \o u \o v
  PROVE  /\ r \in Seq(S) /\ Len(r) = Len(s) + Len(t) + Len(u) + Len(v)
         /\ \A i \in 1 .. Len(s) : r[i] = s[i]
         /\ \A i \in 1 .. Len(t) : r[Len(s) + i] = t[i]
         /\ \A i \in 1 .. Len(u) : r[Len(s) + Len(t) + i] = u[i]
         /\ \A i \in 1 .. Len(v) : r[Len(s) + Len(t) + Len(u) + i] = v[i]
<1>0. Len(s) \in Nat /\ Len(t) \in Nat /\ Len(u) \in Nat /\ Len(v) \in Nat
  OBVIOUS
<1>1. PICK a : a = s \o t
  OBVIOUS
<1>2. PICK b : b = a \o u
  OBVIOUS
<1>3. r = b \o v
  BY <1>1, <1>2
<1>9. /\ a \in Seq(S) /\ Len(a) = Len(s) + Len(t)
      /\ \A i \in 1 .. Len(s) : a[i] = s[i]
      /\ \A i \in 1 .. Len(t) : a[Len(s) + i] = t[i]
  BY <1>1, Joined
<1>10. /\ b \in Seq(S) /\ Len(b) = Len(a) + Len(u)
       /\ \A i \in 1 .. Len(a) : b[i] = a[i]
       /\ \A i \in 1 .. Len(u) : b[Len(a) + i] = u[i]
  <2>1. a \in Seq(S)
    BY <1>9
  <2> QED BY <1>2, <2>1, Joined
<1>11. /\ r \in Seq(S) /\ Len(r) = Len(b) + Len(v)
       /\ \A i \in 1 .. Len(b) : r[i] = b[i]
       /\ \A i \in 1 .. Len(v) : r[Len(b) + i] = v[i]
  <2>1. b \in Seq(S)
    BY <1>10
  <2> QED BY <1>3, <2>1, Joined
<1>4. ASSUME NEW i \in 1 .. Len(s) PROVE r[i] = s[i]
  <2>1. i \in 1 .. Len(a) /\ i \in 1 .. Len(b)
    BY <1>0, <1>9, <1>10
  <2> QED BY <1>9, <1>10, <1>11, <2>1
<1>5. ASSUME NEW i \in 1 .. Len(t) PROVE r[Len(s) + i] = t[i]
  <2>1. Len(s) + i \in 1 .. Len(a) /\ Len(s) + i \in 1 .. Len(b)
    BY <1>0, <1>9, <1>10
  <2> QED BY <1>9, <1>10, <1>11, <2>1
<1>6. ASSUME NEW i \in 1 .. Len(u) PROVE r[Len(s) + Len(t) + i] = u[i]
  <2>1. Len(a) + i \in 1 .. Len(b)
    BY <1>0, <1>9, <1>10
  <2>2. r[Len(a) + i] = u[i]
    BY <1>10, <1>11, <2>1
  <2>3. Len(a) + i = Len(s) + Len(t) + i
    BY <1>9
  <2> QED BY <2>2, <2>3
<1>7. Len(b) = Len(s) + Len(t) + Len(u)
  BY <1>0, <1>9, <1>10
<1>8. Len(r) = Len(s) + Len(t) + Len(u) + Len(v)
  BY <1>11, <1>7
<1> QED BY <1>11, <1>4, <1>5, <1>6, <1>7, <1>8

LEMMA FourParts ==
  ASSUME NEW S, NEW s \in Seq(S), NEW t \in Seq(S), NEW u \in Seq(S), NEW v \in Seq(S)
  PROVE  Joins(S, s \o t \o u \o v, s, t, u, v)
BY FourPartsOf DEF Joins

\* The parts of the body of a message.
LaidOut(p) ==
  /\ Body(p) \in Seq(Nat)
  /\ Len(Body(p)) = 2 + Len(p.topic) + IdLength(p) + Len(p.payload)
  /\ Body(p)[1] = Len(p.topic) \div 256 /\ Body(p)[2] = Len(p.topic) % 256
  /\ \A i \in 1 .. Len(p.topic) : Body(p)[2 + i] = p.topic[i]
  /\ HasId(p.flags) => /\ Body(p)[2 + Len(p.topic) + 1] = p.id \div 256
                       /\ Body(p)[2 + Len(p.topic) + 2] = p.id % 256
  /\ \A i \in 1 .. Len(p.payload) :
       Body(p)[2 + Len(p.topic) + IdLength(p) + i] = p.payload[i]

\* The body of a message, part by part.
LEMMA PublishBody ==
  ASSUME NEW p \in Packets, p.type = PUBLISH
  PROVE  LaidOut(p)
<1>1. p.topic \in Seq(Nat) /\ p.payload \in Seq(Nat) /\ p.id \in Nat
  <2>1. p.topic \in Seq(Octet) /\ p.payload \in Seq(Octet) /\ p.id \in PacketIds \cup {0}
    BY KindOf, Zenon DEF IsPublish
  <2>2. p.topic \in Seq(Nat) /\ p.payload \in Seq(Nat)
    BY <2>1, OctetsAreNumbers, Zenon
  <2>3. p.id \in Nat
    BY <2>1, IdsAreNumbers, Zenon
  <2> QED BY <2>2, <2>3
<1>2. PICK w : w = Word(Len(p.topic))
  OBVIOUS
<1>3. PICK d : d = IF HasId(p.flags) THEN Word(p.id) ELSE <<>>
  OBVIOUS
<1>4. Body(p) = w \o p.topic \o d \o p.payload
  BY <1>2, <1>3, BodyOf, Zenon
<1>5. w \in Seq(Nat) /\ Len(w) = 2 /\ w[1] = Len(p.topic) \div 256 /\ w[2] = Len(p.topic) % 256
  <2>1. Len(p.topic) \in Nat
    BY <1>1
  <2>2. IsWord(w, Len(p.topic))
    BY <1>2, <2>1, WordIs, Zenon
  <2> QED BY <2>2, Zenon DEF IsWord
<1>6. /\ d \in Seq(Nat) /\ Len(d) = IdLength(p)
      /\ HasId(p.flags) => d[1] = p.id \div 256 /\ d[2] = p.id % 256
  <2>1. CASE HasId(p.flags)
    <3>1. d = Word(p.id) /\ IdLength(p) = 2
      BY <1>3, <2>1, Zenon DEF IdLength
    <3>2. IsWord(d, p.id)
      BY <1>1, <3>1, WordIs, Zenon
    <3> QED BY <3>1, <3>2, Zenon DEF IsWord
  <2>2. CASE ~HasId(p.flags)
    BY <1>3, <2>2 DEF IdLength
  <2> QED BY <2>1, <2>2, Zenon
<1>7. /\ Body(p) \in Seq(Nat)
      /\ Len(Body(p)) = Len(w) + Len(p.topic) + Len(d) + Len(p.payload)
      /\ \A i \in 1 .. Len(w) : Body(p)[i] = w[i]
      /\ \A i \in 1 .. Len(p.topic) : Body(p)[Len(w) + i] = p.topic[i]
      /\ \A i \in 1 .. Len(d) : Body(p)[Len(w) + Len(p.topic) + i] = d[i]
      /\ \A i \in 1 .. Len(p.payload) :
           Body(p)[Len(w) + Len(p.topic) + Len(d) + i] = p.payload[i]
  <2>1. w \in Seq(Nat) /\ d \in Seq(Nat)
    BY <1>5, <1>6
  <2>2. p.topic \in Seq(Nat) /\ p.payload \in Seq(Nat)
    BY <1>1
  <2>3. Joins(Nat, Body(p), w, p.topic, d, p.payload)
    BY <1>4, <2>1, <2>2, FourParts, Zenon
  <2> QED BY <2>3 DEF Joins
<1>8. Body(p)[1] = w[1] /\ Body(p)[2] = w[2]
  <2>1. {1, 2} \subseteq 1 .. Len(w)
    BY <1>5
  <2> QED BY <1>7, <2>1
<1>9. ASSUME HasId(p.flags)
      PROVE  /\ Body(p)[2 + Len(p.topic) + 1] = p.id \div 256
             /\ Body(p)[2 + Len(p.topic) + 2] = p.id % 256
  <2>1. Len(d) = 2
    BY <1>6, <1>9 DEF IdLength
  <2>2. {1, 2} \subseteq 1 .. Len(d)
    BY <2>1
  <2>3. Body(p)[Len(w) + Len(p.topic) + 1] = d[1] /\ Body(p)[Len(w) + Len(p.topic) + 2] = d[2]
    BY <1>7, <2>2
  <2> QED BY <1>5, <1>6, <1>9, <2>3
<1>10. Len(Body(p)) = 2 + Len(p.topic) + IdLength(p) + Len(p.payload)
  BY <1>5, <1>6, <1>7
<1>11. \A i \in 1 .. Len(p.topic) : Body(p)[2 + i] = p.topic[i]
  <2>1. Len(w) = 2
    BY <1>5, Zenon
  <2>2. \A i \in 1 .. Len(p.topic) : Body(p)[Len(w) + i] = p.topic[i]
    BY <1>7, Zenon
  <2> QED BY <2>1, <2>2
<1>12. \A i \in 1 .. Len(p.payload) :
         Body(p)[2 + Len(p.topic) + IdLength(p) + i] = p.payload[i]
  <2>1. Len(w) = 2 /\ Len(d) = IdLength(p)
    BY <1>5, <1>6, Zenon
  <2>2. \A i \in 1 .. Len(p.payload) :
          Body(p)[Len(w) + Len(p.topic) + Len(d) + i] = p.payload[i]
    BY <1>7, Zenon
  <2> QED BY <2>1, <2>2
<1> QED BY <1>5, <1>7, <1>8, <1>9, <1>10, <1>11, <1>12, Zenon DEF LaidOut
-----------------------------------------------------------------------------
(* The bytes of a length *)

\* The bytes e say that the length is n: all but the last announce another one.
Spells(e, n) ==
  /\ e \in Seq(Nat) /\ Len(e) \in 1 .. 4
  /\ \A j \in 1 .. Len(e) - 1 : Continues(e[j])
  /\ ~Continues(e[Len(e)])
  /\ \A raw \in [1 .. 4 -> Octet] :
       (\A j \in 1 .. Len(e) : raw[j] = e[j]) => decodeRemainingLength(raw) = n

LEMMA EncodedSpells ==
  ASSUME NEW n \in 0 .. Radix4 - 1
  PROVE  Spells(Encoded(n), n)
<1>0. /\ Radix2 \in Nat /\ Radix2 >= Radix /\ Radix3 \in Nat /\ Radix3 >= Radix2
      /\ Radix4 \in Nat /\ Radix4 >= Radix3 /\ n \in Nat
  BY RadixAssumption DEF Radix2, Radix3, Radix4
<1>a. PICK e : e = Encoded(n)
  OBVIOUS
<1>1. CASE n < Radix
  <2>0. n \in 0 .. Radix - 1
    BY <1>0, <1>1, RadixAssumption
  <2>6. e = <<n>>
    BY <1>a, <2>0, LastByte
  <2>1. Len(e) = 1 /\ e[1] = n /\ e \in Seq(Nat)
    BY <1>0, <2>6
  <2>2. ~Continues(n) /\ n % Radix = n
    BY <2>0, DigitOfByte
  <2>3. ASSUME NEW raw \in [1 .. 4 -> Octet], raw[1] = n PROVE decodeRemainingLength(raw) = n
    <3>1. decodeRemainingLength(raw) = n + 0
      BY <2>2, <2>3 DEF decodeRemainingLength
    <3> QED BY <1>0, <3>1
  <2>4. \A j \in 1 .. Len(e) - 1 : Continues(e[j])
    BY <2>1
  <2>5. ASSUME NEW raw \in [1 .. 4 -> Octet], \A j \in 1 .. Len(e) : raw[j] = e[j]
        PROVE  decodeRemainingLength(raw) = n
    <3>1. raw[1] = n
      BY <2>1, <2>5
    <3> QED BY <2>3, <3>1
  <2> QED BY <1>a, <2>1, <2>2, <2>4, <2>5 DEF Spells
<1>2. CASE n >= Radix /\ n < Radix2
  <2>0. n \in Radix .. Radix2 - 1
    BY <1>0, <1>2, RadixAssumption
  <2>1. PICK a, b \in 0 .. Radix - 1 : Encoded(n) = <<Radix + a, b>> /\ n = a + Radix * b
    BY <2>0, TwoBytes
  <2>2. Len(e) = 2 /\ e[1] = Radix + a /\ e[2] = b /\ e \in Seq(Nat)
    BY <1>a, <2>1, RadixAssumption
  <2>3. Continues(Radix + a) /\ ~Continues(b) /\ (Radix + a) % Radix = a /\ b % Radix = b
    BY DigitOfByte
  <2>4. \A j \in 1 .. Len(e) - 1 : Continues(e[j])
    BY <2>2, <2>3
  <2>5. ASSUME NEW raw \in [1 .. 4 -> Octet], \A j \in 1 .. Len(e) : raw[j] = e[j]
        PROVE  decodeRemainingLength(raw) = n
    <3>1. raw[1] = Radix + a /\ raw[2] = b
      BY <2>2, <2>5
    <3>2. decodeRemainingLength(raw) = a + Radix * (b + 0)
      BY <2>3, <3>1 DEF decodeRemainingLength
    <3>3. b + 0 = b
      BY RadixAssumption
    <3> QED BY <2>1, <3>2, <3>3
  <2> QED BY <1>a, <2>2, <2>3, <2>4, <2>5 DEF Spells
<1>3. CASE n >= Radix2 /\ n < Radix3
  <2>0. n \in Radix2 .. Radix3 - 1
    BY <1>0, <1>3, RadixAssumption
  <2>1. PICK a, b, c \in 0 .. Radix - 1 :
          Encoded(n) = <<Radix + a, Radix + b, c>> /\ n = a + Radix * (b + Radix * c)
    BY <2>0, ThreeBytes
  <2>2. /\ Len(e) = 3 /\ e[1] = Radix + a /\ e[2] = Radix + b /\ e[3] = c
        /\ e \in Seq(Nat)
    BY <1>a, <2>1, RadixAssumption
  <2>3. /\ Continues(Radix + a) /\ Continues(Radix + b) /\ ~Continues(c)
        /\ (Radix + a) % Radix = a /\ (Radix + b) % Radix = b /\ c % Radix = c
    BY DigitOfByte
  <2>4. \A j \in 1 .. Len(e) - 1 : Continues(e[j])
    BY <2>2, <2>3
  <2>5. ASSUME NEW raw \in [1 .. 4 -> Octet], \A j \in 1 .. Len(e) : raw[j] = e[j]
        PROVE  decodeRemainingLength(raw) = n
    <3>1. raw[1] = Radix + a /\ raw[2] = Radix + b /\ raw[3] = c
      BY <2>2, <2>5
    <3>2. decodeRemainingLength(raw) = a + Radix * (b + Radix * (c + 0))
      BY <2>3, <3>1 DEF decodeRemainingLength
    <3>3. c + 0 = c
      BY RadixAssumption
    <3> QED BY <2>1, <3>2, <3>3
  <2> QED BY <1>a, <2>2, <2>3, <2>4, <2>5 DEF Spells
<1>4. CASE n >= Radix3
  <2>0. n \in Radix3 .. Radix4 - 1
    BY <1>0, <1>4, RadixAssumption
  <2>1. PICK a, b, c, d \in 0 .. Radix - 1 :
          /\ Encoded(n) = <<Radix + a, Radix + b, Radix + c, d>>
          /\ n = a + Radix * (b + Radix * (c + Radix * d))
    BY <2>0, FourBytes
  <2>2. /\ Len(e) = 4 /\ e[1] = Radix + a /\ e[2] = Radix + b /\ e[3] = Radix + c /\ e[4] = d
        /\ e \in Seq(Nat)
    BY <1>a, <2>1, RadixAssumption
  <2>3. /\ Continues(Radix + a) /\ Continues(Radix + b) /\ Continues(Radix + c) /\ ~Continues(d)
        /\ (Radix + a) % Radix = a /\ (Radix + b) % Radix = b /\ (Radix + c) % Radix = c
        /\ d % Radix = d
    BY DigitOfByte
  <2>4. \A j \in 1 .. Len(e) - 1 : Continues(e[j])
    BY <2>2, <2>3
  <2>5. ASSUME NEW raw \in [1 .. 4 -> Octet], \A j \in 1 .. Len(e) : raw[j] = e[j]
        PROVE  decodeRemainingLength(raw) = n
    <3>1. raw[1] = Radix + a /\ raw[2] = Radix + b /\ raw[3] = Radix + c /\ raw[4] = d
      BY <2>2, <2>5
    <3>2. decodeRemainingLength(raw) = a + Radix * (b + Radix * (c + Radix * d))
      BY <2>3, <3>1 DEF decodeRemainingLength
    <3> QED BY <2>1, <3>2
  <2> QED BY <1>a, <2>2, <2>3, <2>4, <2>5 DEF Spells
<1> QED BY <1>0, <1>1, <1>2, <1>3, <1>4, RadixAssumption
-----------------------------------------------------------------------------
(* The bytes of a packet, and of all of them *)

\* The number of bytes of a packet.
Size(p) == Start(p) + Len(Body(p))

LEMMA IdsPositive == \A i \in PacketIds : i \in Nat /\ i # 0
<1>1. ASSUME NEW m \in Nat, NEW i \in 1 .. m PROVE i \in Nat /\ i # 0
  OBVIOUS
<1>2. 256 * 256 - 1 \in Nat
  OBVIOUS
<1> QED BY <1>1, <1>2, Zenon DEF PacketIds

LEMMA AckBody ==
  ASSUME NEW p \in Packets, p.type \in Acks
  PROVE  /\ Body(p) \in Seq(Nat) /\ Len(Body(p)) = 2 /\ p.id \in Nat /\ p.id # 0
         /\ Body(p)[1] = p.id \div 256 /\ Body(p)[2] = p.id % 256
<1>1. p.id \in PacketIds
  BY KindOf, Zenon DEF IsAck
<1>2. p.id \in Nat /\ p.id # 0
  BY <1>1, IdsPositive, Zenon
<1>3. Body(p) = Word(p.id)
  BY BodyOf, Zenon
<1>4. PICK n \in Nat : n = p.id
  BY <1>2
<1>5. Body(p) = Word(n)
  BY <1>3, <1>4
<1>6. /\ Body(p) \in Seq(Nat) /\ Len(Body(p)) = 2
      /\ Body(p)[1] = n \div 256 /\ Body(p)[2] = n % 256
  <2>1. IsWord(Body(p), n)
    BY <1>5, WordIs, Zenon
  <2> QED BY <2>1, Zenon DEF IsWord
<1> QED BY <1>2, <1>4, <1>6

LEMMA ConnackBody ==
  ASSUME NEW p \in Packets, p.type = CONNACK
  PROVE  /\ Body(p) \in Seq(Nat) /\ Len(Body(p)) = 2
         /\ Body(p)[1] = p.session /\ Body(p)[2] = p.code
         /\ p.session \in 0 .. 1 /\ p.code \in 0 .. 5
<1>1. p.session \in 0 .. 1 /\ p.code \in 0 .. 5
  BY KindOf, Zenon DEF IsConnack
<1>2. Body(p) = <<p.session, p.code>>
  BY BodyOf
<1> QED BY <1>1, <1>2

LEMMA SubackBody ==
  ASSUME NEW p \in Packets, p.type = SUBACK
  PROVE  /\ Body(p) \in Seq(Nat) /\ Len(Body(p)) = 2 + Len(p.codes)
         /\ p.id \in Nat /\ p.id # 0 /\ p.codes \in Seq({0, 1, 2, 128})
         /\ Body(p)[1] = p.id \div 256 /\ Body(p)[2] = p.id % 256
         /\ \A i \in 1 .. Len(p.codes) : Body(p)[2 + i] = p.codes[i]
<1>1. p.id \in PacketIds /\ p.codes \in Seq({0, 1, 2, 128})
  BY KindOf, Zenon DEF IsSuback
<1>2. p.id \in Nat /\ p.id # 0
  BY <1>1, IdsPositive, Zenon
<1>3. p.codes \in Seq(Nat)
  <2>1. {0, 1, 2, 128} \subseteq Nat
    OBVIOUS
  <2> QED BY <1>1, <2>1, SeqMonotonic
<1>4. PICK w : w = Word(p.id)
  OBVIOUS
<1>5. w \in Seq(Nat) /\ Len(w) = 2 /\ w[1] = p.id \div 256 /\ w[2] = p.id % 256
  <2>1. IsWord(w, p.id)
    BY <1>2, <1>4, WordIs, Zenon
  <2> QED BY <2>1, Zenon DEF IsWord
<1>6. PICK c : c = p.codes
  OBVIOUS
<1>7. Body(p) = w \o c
  BY <1>4, <1>6, BodyOf
<1>8. /\ w \o c \in Seq(Nat) /\ Len(w \o c) = Len(w) + Len(c)
      /\ \A i \in 1 .. Len(w) : (w \o c)[i] = w[i]
      /\ \A i \in 1 .. Len(c) : (w \o c)[Len(w) + i] = c[i]
  <2>1. w \in Seq(Nat) /\ c \in Seq(Nat)
    BY <1>3, <1>5, <1>6
  <2>2. Pair(Nat, w \o c, w, c)
    BY <2>1, TwoParts, Zenon
  <2> QED BY <2>2 DEF Pair
<1>9. {1, 2} \subseteq 1 .. Len(w)
  BY <1>5
<1>10. Body(p)[1] = w[1] /\ Body(p)[2] = w[2]
  BY <1>7, <1>8, <1>9
<1>11. ASSUME NEW i \in 1 .. Len(p.codes) PROVE Body(p)[2 + i] = p.codes[i]
  BY <1>5, <1>6, <1>7, <1>8
<1>12. Body(p) \in Seq(Nat) /\ Len(Body(p)) = 2 + Len(p.codes)
  BY <1>5, <1>6, <1>7, <1>8
<1> QED BY <1>1, <1>2, <1>5, <1>10, <1>11, <1>12

LEMMA BodyTyped ==
  ASSUME NEW p \in Packets
  PROVE  Body(p) \in Seq(Nat) /\ Len(Body(p)) \in 0 .. Radix4 - 1
<1>1. p.type = PINGRESP => Body(p) = <<>>
  BY BodyOf, Zenon
<1>2. Body(p) \in Seq(Nat)
  <2>1. p.type \in Acks \cup {CONNACK, SUBACK, PINGRESP, PUBLISH}
    BY KindOf, Zenon
  <2>2. CASE p.type = PINGRESP
    BY <1>1, <2>2
  <2>3. CASE p.type \in Acks
    BY <2>3, AckBody, Zenon
  <2>4. CASE p.type = CONNACK
    BY <2>4, ConnackBody, Zenon
  <2>5. CASE p.type = SUBACK
    BY <2>5, SubackBody, Zenon
  <2>6. CASE p.type = PUBLISH
    BY <2>6, PublishBody, Zenon DEF LaidOut
  <2> QED BY <2>1, <2>2, <2>3, <2>4, <2>5, <2>6, Zenon
<1>3. Len(Body(p)) < Radix4 /\ Radix4 \in Nat
  BY KindOf, RadixAssumption DEF Radix2, Radix3, Radix4
<1> QED BY <1>2, <1>3

LEMMA LengthSpelled ==
  ASSUME NEW p \in Packets
  PROVE  Spells(LengthBytes(p), Len(Body(p)))
BY BodyTyped, EncodedSpells, Zenon DEF LengthBytes, Encoded

\* A packet whose length is less than Radix has one byte for it.
LEMMA ShortLength ==
  ASSUME NEW p \in Packets, Len(Body(p)) < Radix
  PROVE  LengthBytes(p) = <<Len(Body(p))>> /\ Start(p) = 2
<1>1. Len(Body(p)) \in 0 .. Radix - 1
  BY BodyTyped, RadixAssumption
<1>2. LengthBytes(p) = <<Len(Body(p))>>
  BY <1>1, LastByte, Zenon DEF LengthBytes, Encoded
<1> QED BY <1>2 DEF Start

LEMMA HeaderBytes ==
  ASSUME NEW p \in Packets
  PROVE  /\ HeaderOf(p) \in Octet
         /\ HeaderOf(p) \div 16 = p.type /\ HeaderOf(p) % 16 = FlagsOf(p)
         /\ p.type = PUBLISH => FlagsOf(p) = p.flags /\ ValidFlags(p.flags)
         /\ p.type # PUBLISH => FlagsOf(p) = Reserved(p.type)
<1>1. p.type \in 2 .. 13
  <2>1. p.type \in Acks \cup {CONNACK, SUBACK, PINGRESP, PUBLISH}
    BY KindOf, Zenon
  <2> QED BY <2>1, TypeNumbers
<1>2. p.type = PUBLISH => FlagsOf(p) = p.flags /\ p.flags \in (0 .. 5) \cup (10 .. 13)
  BY KindOf, Zenon DEF FlagsOf, IsPublish
<1>3. p.type # PUBLISH => FlagsOf(p) = Reserved(p.type) /\ Reserved(p.type) \in {0, 2}
  BY Zenon DEF FlagsOf, Reserved
<1>4. FlagsOf(p) \in 0 .. 13
  BY <1>2, <1>3
<1>5. \A t \in 2 .. 13, f \in 0 .. 13 :
        16 * t + f \in 0 .. 255 /\ (16 * t + f) \div 16 = t /\ (16 * t + f) % 16 = f
  OBVIOUS
<1>6. p.type = PUBLISH => ValidFlags(p.flags)
  BY <1>2 DEF ValidFlags
<1>7. HeaderOf(p) \in 0 .. 255 /\ HeaderOf(p) \div 16 = p.type /\ HeaderOf(p) % 16 = FlagsOf(p)
  BY <1>1, <1>4, <1>5, Zenon DEF HeaderOf
<1> QED BY <1>2, <1>3, <1>6, <1>7, Zenon DEF Octet

LEMMA PacketBytes ==
  ASSUME NEW p \in Packets
  PROVE  /\ Bytes(p) \in Seq(Nat) /\ Len(Bytes(p)) = Size(p)
         /\ Bytes(p)[1] = HeaderOf(p)
         /\ \A i \in 1 .. Len(LengthBytes(p)) : Bytes(p)[1 + i] = LengthBytes(p)[i]
         /\ \A i \in 1 .. Len(Body(p)) : Bytes(p)[Start(p) + i] = Body(p)[i]
         /\ Start(p) \in 2 .. 5 /\ Len(LengthBytes(p)) = Start(p) - 1
         /\ Size(p) \in Nat /\ Size(p) > 0
<1>1. PICK h : h = <<HeaderOf(p)>>
  OBVIOUS
<1>2. PICK e : e = LengthBytes(p)
  OBVIOUS
<1>3. PICK b : b = Body(p)
  OBVIOUS
<1>4. h \in Seq(Nat) /\ Len(h) = 1 /\ h[1] = HeaderOf(p)
  <2>1. HeaderOf(p) \in Nat
    BY HeaderBytes DEF Octet
  <2> QED BY <1>1, <2>1
<1>5. e \in Seq(Nat) /\ Len(e) \in 1 .. 4
  BY <1>2, LengthSpelled DEF Spells
<1>6. b \in Seq(Nat)
  BY <1>3, BodyTyped
<1>7. Bytes(p) = h \o e \o b
  <2>1. p.type # 0
    <3>1. p.type \in Acks \cup {CONNACK, SUBACK, PINGRESP, PUBLISH}
      BY KindOf, Zenon
    <3> QED BY <3>1, TypeNumbers
  <2> QED BY <1>1, <1>2, <1>3, <2>1, Zenon DEF Bytes, Whole, Framed, HeaderOf, LengthBytes, Encoded
<1>8. PICK a : a = h \o e
  OBVIOUS
<1>9. /\ a \in Seq(Nat) /\ Len(a) = Len(h) + Len(e)
      /\ \A i \in 1 .. Len(h) : a[i] = h[i]
      /\ \A i \in 1 .. Len(e) : a[Len(h) + i] = e[i]
  <2>1. h \in Seq(Nat) /\ e \in Seq(Nat)
    BY <1>4, <1>5
  <2>2. Pair(Nat, a, h, e)
    BY <1>8, <2>1, TwoParts, Zenon
  <2> QED BY <2>2 DEF Pair
<1>10. PICK r : r = a \o b
  OBVIOUS
<1>11. /\ r \in Seq(Nat) /\ Len(r) = Len(a) + Len(b)
       /\ \A i \in 1 .. Len(a) : r[i] = a[i]
       /\ \A i \in 1 .. Len(b) : r[Len(a) + i] = b[i]
  <2>1. a \in Seq(Nat)
    BY <1>9
  <2>2. Pair(Nat, r, a, b)
    BY <1>6, <1>10, <2>1, TwoParts, Zenon
  <2> QED BY <2>2 DEF Pair
<1>12. r = Bytes(p) /\ Len(a) = 1 + Len(e) /\ Start(p) = Len(a)
  BY <1>2, <1>4, <1>7, <1>8, <1>9, <1>10 DEF Start
<1>13. r[1] = HeaderOf(p)
  <2>1. 1 \in 1 .. Len(a) /\ 1 \in 1 .. Len(h)
    BY <1>4, <1>5, <1>12
  <2> QED BY <1>4, <1>9, <1>11, <2>1
<1>14. ASSUME NEW i \in 1 .. Len(e) PROVE r[1 + i] = e[i]
  <2>1. 1 + i \in 1 .. Len(a)
    BY <1>5, <1>12
  <2>2. r[1 + i] = a[1 + i] /\ a[1 + i] = e[i]
    BY <1>4, <1>9, <1>11, <2>1
  <2> QED BY <2>2
<1>15. Len(b) \in Nat
  BY <1>6
<1>16. /\ Start(p) \in 2 .. 5 /\ Len(e) = Start(p) - 1 /\ Size(p) = Len(a) + Len(b)
       /\ Size(p) \in Nat /\ Size(p) > 0
  <2>1. Size(p) = Len(a) + Len(b)
    BY <1>3, <1>12 DEF Size
  <2>6. Start(p) = 1 + Len(e)
    BY <1>2 DEF Start
  <2>2. Len(e) \in 1 .. 4 /\ Len(b) \in Nat
    BY <1>5, <1>15
  <2>3. Start(p) \in 2 .. 5 /\ Len(e) = Start(p) - 1
    <3>1. PICK k \in 1 .. 4 : k = Len(e)
      BY <2>2
    <3>2. Start(p) = 1 + k
      BY <2>6, <3>1
    <3>3. Start(p) \in 2 .. 5
      BY <3>2
    <3>4. k = Start(p) - 1
      BY <3>2
    <3> QED BY <3>1, <3>3, <3>4, Zenon
  <2>4. Size(p) = Start(p) + Len(b)
    BY <1>3 DEF Size
  <2>5. Size(p) \in Nat /\ Size(p) > 0
    BY <2>2, <2>3, <2>4
  <2> QED BY <2>1, <2>3, <2>5, Zenon
<1> QED BY <1>2, <1>3, <1>11, <1>12, <1>13, <1>14, <1>16, Zenon
-----------------------------------------------------------------------------
(* The bytes of the first packets *)

\* f has the bytes of the first packets, as a function and one packet at a time.
Streams(packets, n, f) ==
  f = [k \in 0 .. n |-> IF k = 0 THEN <<>> ELSE f[k - 1] \o Bytes(packets[k])]
Grows(packets, n, f) ==
  /\ DOMAIN f = 0 .. n /\ f[0] = <<>>
  /\ \A k \in 1 .. n : f[k] = f[k - 1] \o Bytes(packets[k])

LEMMA StreamsGrows ==
  ASSUME NEW packets, NEW n \in Nat, NEW f, Streams(packets, n, f)
  PROVE  Grows(packets, n, f)
<1>1. DOMAIN f = 0 .. n
  BY DEF Streams
<1>2. \A k \in 0 .. n : f[k] = IF k = 0 THEN <<>> ELSE f[k - 1] \o Bytes(packets[k])
  BY Zenon DEF Streams
<1>3. f[0] = <<>>
  BY <1>2
<1>4. ASSUME NEW k \in 1 .. n PROVE f[k] = f[k - 1] \o Bytes(packets[k])
  <2>1. k \in 0 .. n /\ k # 0
    OBVIOUS
  <2> QED BY <1>2, <2>1, Zenon
<1> QED BY <1>1, <1>3, <1>4, Zenon DEF Grows

LEMMA GrowsStreams ==
  ASSUME NEW packets, NEW n \in Nat, NEW f, Grows(packets, n, f), f = [k \in 0 .. n |-> f[k]]
  PROVE  Streams(packets, n, f)
<1> DEFINE x(k) == IF k = 0 THEN <<>> ELSE f[k - 1] \o Bytes(packets[k])
<1>1. ASSUME NEW k \in 0 .. n PROVE f[k] = x(k)
  <2>1. CASE k = 0
    BY <2>1 DEF Grows
  <2>2. CASE k # 0
    <3>1. k \in 1 .. n
      BY <2>2
    <3> QED BY <2>2, <3>1, Zenon DEF Grows
  <2> QED BY <2>1, <2>2
<1> HIDE DEF x
<1>2. [k \in 0 .. n |-> f[k]] = [k \in 0 .. n |-> x(k)]
  BY <1>1
<1> QED BY <1>2, Zenon DEF Streams, x

LEMMA SomethingStreams == ASSUME NEW packets PROVE \A n \in Nat : \E f : Streams(packets, n, f)
<1> DEFINE T == {n \in Nat : \E f : Streams(packets, n, f)}
<1>1. 0 \in T
  <2> DEFINE g == [k \in 0 .. 0 |-> <<>>]
  <2>1. Grows(packets, 0, g) /\ g = [k \in 0 .. 0 |-> g[k]]
    BY DEF Grows
  <2> HIDE DEF g
  <2>2. Streams(packets, 0, g)
    BY <2>1, GrowsStreams
  <2> QED BY <2>2
<1>2. ASSUME NEW n \in Nat, n \in T PROVE n + 1 \in T
  <2>1. PICK f : Streams(packets, n, f)
    BY <1>2
  <2>2. Grows(packets, n, f)
    BY <2>1, StreamsGrows
  <2>8. PICK x : x = f[n] \o Bytes(packets[n + 1])
    OBVIOUS
  <2> DEFINE g == [k \in 0 .. n + 1 |-> IF k = n + 1 THEN x ELSE f[k]]
  <2>3. /\ DOMAIN g = 0 .. n + 1 /\ g = [k \in 0 .. n + 1 |-> g[k]]
        /\ g[n + 1] = x /\ \A k \in 0 .. n : g[k] = f[k]
    OBVIOUS
  <2> HIDE DEF g
  <2>4. ASSUME NEW k \in 1 .. n + 1 PROVE g[k] = g[k - 1] \o Bytes(packets[k])
    <3>1. CASE k = n + 1
      <4>1. g[k] = x /\ g[k - 1] = f[n]
        BY <2>3, <3>1
      <4> QED BY <2>8, <3>1, <4>1
    <3>2. CASE k # n + 1
      <4>1. k \in 1 .. n /\ k \in 0 .. n /\ k - 1 \in 0 .. n
        BY <3>2
      <4>2. g[k] = f[k] /\ g[k - 1] = f[k - 1]
        BY <2>3, <4>1
      <4> QED BY <2>2, <4>1, <4>2, Zenon DEF Grows
    <3> QED BY <3>1, <3>2
  <2>5. g[0] = <<>>
    BY <2>2, <2>3 DEF Grows
  <2>6. Grows(packets, n + 1, g)
    BY <2>3, <2>4, <2>5, Zenon DEF Grows
  <2>7. Streams(packets, n + 1, g)
    <3>1. n + 1 \in Nat
      OBVIOUS
    <3> QED BY <2>3, <2>6, <3>1, GrowsStreams
  <2> QED BY <2>7
<1> HIDE DEF T
<1>3. Nat \subseteq T
  BY <1>1, <1>2, SetInduction
<1> QED BY <1>3 DEF T

\* StreamedFirst is defined and takes one packet at a time.
LEMMA StreamedGrows ==
  ASSUME NEW S, NEW packets \in Seq(S)
  PROVE  Grows(packets, Len(packets), StreamedFirst(packets))
<1>1. Len(packets) \in Nat
  OBVIOUS
<1>2. \E f : Streams(packets, Len(packets), f)
  BY <1>1, SomethingStreams
<1> DEFINE F == CHOOSE f : Streams(packets, Len(packets), f)
<1>3. Streams(packets, Len(packets), F)
  BY <1>2, Zenon
<1>4. StreamedFirst(packets) = F
  BY DEF StreamedFirst, Streams
<1> HIDE DEF F
<1> QED BY <1>1, <1>3, <1>4, StreamsGrows

\* The bytes before k packets have been sent are those of the stream, and the
\* bytes of each packet are in their place.
LEMMA OnePacketMore ==
  ASSUME NEW packets \in Seq(Packets), NEW k \in 1 .. Len(packets),
         StreamedFirst(packets)[k - 1] \in Seq(Nat)
  PROVE  /\ StreamedFirst(packets)[k] \in Seq(Nat)
         /\ Ends(packets, k) = Ends(packets, k - 1) + Size(packets[k])
         /\ \A i \in 1 .. Ends(packets, k - 1) :
              StreamedFirst(packets)[k][i] = StreamedFirst(packets)[k - 1][i]
         /\ \A i \in 1 .. Size(packets[k]) :
              StreamedFirst(packets)[k][Ends(packets, k - 1) + i] = Bytes(packets[k])[i]
<1>1. PICK f : f = StreamedFirst(packets)
  OBVIOUS
<1>2. packets[k] \in Packets
  BY ElementOfSeq
<1>3. PICK b : b = Bytes(packets[k])
  OBVIOUS
<1>4. b \in Seq(Nat) /\ Len(b) = Size(packets[k])
  BY <1>2, <1>3, PacketBytes
<1>5. f[k] = f[k - 1] \o b
  BY <1>1, <1>3, StreamedGrows DEF Grows
<1>6. Pair(Nat, f[k], f[k - 1], b)
  <2>1. f[k - 1] \in Seq(Nat)
    BY <1>1
  <2> QED BY <1>4, <1>5, <2>1, TwoParts, Zenon
<1> QED BY <1>1, <1>3, <1>4, <1>6 DEF Pair, Ends

\* The bytes of the first k packets begin with those of fewer.
Covers(packets, k) ==
  /\ StreamedFirst(packets)[k] \in Seq(Nat)
  /\ \A j \in 0 .. k :
       /\ Ends(packets, j) \in 0 .. Ends(packets, k)
       /\ \A i \in 1 .. Ends(packets, j) :
            StreamedFirst(packets)[k][i] = StreamedFirst(packets)[j][i]

LEMMA CoversOneMore ==
  ASSUME NEW packets \in Seq(Packets), NEW k \in 1 .. Len(packets), Covers(packets, k - 1)
  PROVE  Covers(packets, k)
<1>1. PICK f : f = StreamedFirst(packets)
  OBVIOUS
<1>2. PICK E : E = [j \in 0 .. k |-> Ends(packets, j)]
  OBVIOUS
<1>3. \A j \in 0 .. k : E[j] = Ends(packets, j)
  BY <1>2
<1>4. PICK z : z = Size(packets[k])
  OBVIOUS
<1>5. z \in Nat
  <2>1. packets[k] \in Packets
    BY ElementOfSeq
  <2> QED BY <1>4, <2>1, PacketBytes
<1>6. k \in 0 .. k /\ k - 1 \in 0 .. k /\ k - 1 \in 0 .. k - 1
  OBVIOUS
<1>7. /\ f[k - 1] \in Seq(Nat)
      /\ \A j \in 0 .. k - 1 : /\ Ends(packets, j) \in 0 .. Ends(packets, k - 1)
                               /\ \A i \in 1 .. Ends(packets, j) : f[k - 1][i] = f[j][i]
  BY <1>1, Zenon DEF Covers
<1>8. /\ f[k] \in Seq(Nat)
      /\ Ends(packets, k) = Ends(packets, k - 1) + z
      /\ \A i \in 1 .. Ends(packets, k - 1) : f[k][i] = f[k - 1][i]
  BY <1>1, <1>4, <1>7, OnePacketMore
<1>9. Ends(packets, k - 1) = Len(f[k - 1]) /\ Ends(packets, k) = Len(f[k])
  BY <1>1 DEF Ends
<1>10. E[k - 1] \in Nat /\ E[k] = E[k - 1] + z
  <2>1. E[k - 1] \in Nat
    BY <1>3, <1>6, <1>7, <1>9
  <2> QED BY <1>3, <1>6, <1>8, <2>1
<1>11. ASSUME NEW j \in 0 .. k - 1
       PROVE  E[j] \in 0 .. E[k] /\ \A i \in 1 .. E[j] : f[k][i] = f[j][i]
  <2>1. E[j] \in 0 .. E[k - 1] /\ \A i \in 1 .. E[j] : f[k - 1][i] = f[j][i]
    <3>1. j \in 0 .. k
      OBVIOUS
    <3> QED BY <1>3, <1>6, <1>7, <3>1
  <2>2. \A i \in 1 .. E[k - 1] : f[k][i] = f[k - 1][i]
    BY <1>3, <1>6, <1>8
  <2>3. E[j] \in 0 .. E[k] /\ E[j] <= E[k - 1]
    BY <1>5, <1>10, <2>1
  <2>4. ASSUME NEW i \in 1 .. E[j] PROVE f[k][i] = f[j][i]
    <3>1. i \in 1 .. E[k - 1]
      BY <1>10, <2>1
    <3> QED BY <2>1, <2>2, <3>1
  <2> QED BY <2>3, <2>4
<1>12. ASSUME NEW j \in 0 .. k
       PROVE  E[j] \in 0 .. E[k] /\ \A i \in 1 .. E[j] : f[k][i] = f[j][i]
  <2>1. CASE j = k
    <3>1. E[k] \in Nat
      BY <1>5, <1>10
    <3> QED BY <2>1, <3>1
  <2>2. CASE j # k
    <3>1. j \in 0 .. k - 1
      BY <2>2
    <3> QED BY <1>11, <3>1
  <2> QED BY <2>1, <2>2
<1>13. ASSUME NEW j \in 0 .. k
       PROVE  /\ Ends(packets, j) \in 0 .. Ends(packets, k)
              /\ \A i \in 1 .. Ends(packets, j) : f[k][i] = f[j][i]
  BY <1>3, <1>6, <1>12, Zenon
<1> QED BY <1>1, <1>8, <1>13, Zenon DEF Covers

LEMMA AllCovered ==
  ASSUME NEW packets \in Seq(Packets)
  PROVE  \A k \in 0 .. Len(packets) : Covers(packets, k)
<1> DEFINE T == {k \in Nat : k <= Len(packets) => Covers(packets, k)}
<1>0. Len(packets) \in Nat
  OBVIOUS
<1>1. 0 \in T
  <2>1. StreamedFirst(packets)[0] = <<>>
    BY StreamedGrows DEF Grows
  <2>2. Ends(packets, 0) = 0
    BY <2>1 DEF Ends
  <2>3. \A j \in 0 .. 0 : j = 0
    OBVIOUS
  <2>4. Covers(packets, 0)
    BY <2>1, <2>2, <2>3 DEF Covers
  <2> QED BY <2>4
<1>2. ASSUME NEW k \in Nat, k \in T PROVE k + 1 \in T
  <2>1. ASSUME k + 1 <= Len(packets) PROVE Covers(packets, k + 1)
    <3>1. Covers(packets, k) /\ k + 1 \in 1 .. Len(packets) /\ k = (k + 1) - 1
      BY <1>0, <1>2, <2>1
    <3> QED BY <3>1, CoversOneMore
  <2> QED BY <2>1
<1> HIDE DEF T
<1>3. Nat \subseteq T
  BY <1>1, <1>2, SetInduction
<1> QED BY <1>0, <1>3 DEF T

\* Each packet is in its place in the stream.
LEMMA InPlace ==
  ASSUME NEW packets \in Seq(Packets), NEW k \in 1 .. Len(packets)
  PROVE  /\ Ends(packets, k - 1) \in Nat
         /\ Ends(packets, k) = Ends(packets, k - 1) + Size(packets[k])
         /\ Ends(packets, k) <= Len(Streamed(packets))
         /\ \A i \in 1 .. Size(packets[k]) :
              Streamed(packets)[Ends(packets, k - 1) + i] = Bytes(packets[k])[i]
<1>0. Len(packets) \in Nat
  OBVIOUS
<1>1. PICK n : n = Len(packets)
  OBVIOUS
<1>2. PICK f : f = StreamedFirst(packets)
  OBVIOUS
<1>3. Covers(packets, k - 1) /\ Covers(packets, n)
  <2>1. k - 1 \in 0 .. n /\ n \in 0 .. n
    BY <1>0, <1>1
  <2> QED BY <1>1, <2>1, AllCovered
<1>4. PICK x : x = Ends(packets, k - 1)
  OBVIOUS
<1>5. PICK y : y = Ends(packets, k)
  OBVIOUS
<1>6. PICK z : z = Size(packets[k])
  OBVIOUS
<1>7. x \in Nat /\ z \in Nat
  <2>1. packets[k] \in Packets
    BY ElementOfSeq
  <2>2. f[k - 1] \in Seq(Nat)
    BY <1>2, <1>3 DEF Covers
  <2> QED BY <1>2, <1>4, <1>6, <2>1, <2>2, PacketBytes DEF Ends
<1>8. /\ y = x + z
      /\ \A i \in 1 .. z : f[k][x + i] = Bytes(packets[k])[i]
  <2>1. f[k - 1] \in Seq(Nat)
    BY <1>2, <1>3 DEF Covers
  <2> QED BY <1>2, <1>4, <1>5, <1>6, <2>1, OnePacketMore
<1>9. y \in 0 .. Ends(packets, n) /\ \A i \in 1 .. y : f[n][i] = f[k][i]
  <2>1. k \in 0 .. n
    BY <1>0, <1>1
  <2> QED BY <1>2, <1>3, <1>5, <2>1 DEF Covers
<1>10. ASSUME NEW i \in 1 .. z PROVE f[n][x + i] = Bytes(packets[k])[i]
  <2>1. x + i \in 1 .. y
    BY <1>7, <1>8
  <2>2. f[n][x + i] = f[k][x + i] /\ f[k][x + i] = Bytes(packets[k])[i]
    BY <1>8, <1>9, <2>1
  <2> QED BY <2>2
<1>11. Streamed(packets) = f[n] /\ Ends(packets, n) = Len(f[n])
  BY <1>1, <1>2 DEF Streamed, Ends
<1>12. y <= Len(f[n])
  <2>1. f[n] \in Seq(Nat)
    BY <1>2, <1>3 DEF Covers
  <2> QED BY <1>9, <1>11, <2>1
<1> QED BY <1>4, <1>5, <1>6, <1>7, <1>8, <1>10, <1>11, <1>12

LEMMA EndsIncrease ==
  ASSUME NEW packets \in Seq(Packets), NEW k \in 0 .. Len(packets), NEW j \in 0 .. k
  PROVE  /\ Ends(packets, k) \in Nat /\ Ends(packets, j) \in Nat
         /\ Ends(packets, j) <= Ends(packets, k)
         /\ j < k => Ends(packets, j) < Ends(packets, k)
         /\ Ends(packets, 0) = 0
<1>1. Ends(packets, 0) = 0
  <2>1. StreamedFirst(packets)[0] = <<>>
    BY StreamedGrows DEF Grows
  <2> QED BY <2>1 DEF Ends
<1>2. \A m \in 0 .. Len(packets) : Ends(packets, m) \in Nat
  <2> TAKE m \in 0 .. Len(packets)
  <2>1. StreamedFirst(packets)[m] \in Seq(Nat)
    BY AllCovered DEF Covers
  <2> QED BY <2>1 DEF Ends
<1>3. Ends(packets, j) <= Ends(packets, k)
  <2>1. Ends(packets, j) \in 0 .. Ends(packets, k)
    BY AllCovered DEF Covers
  <2>2. Ends(packets, k) \in Nat
    BY <1>2
  <2> QED BY <2>1, <2>2
<1>4. ASSUME j < k PROVE Ends(packets, j) < Ends(packets, k)
  <2>1. k \in 1 .. Len(packets) /\ j \in 0 .. k - 1 /\ k - 1 \in 0 .. Len(packets)
    BY <1>4
  <2>2. PICK z : z = Size(packets[k])
    OBVIOUS
  <2>3. z \in Nat /\ z > 0
    <3>1. packets[k] \in Packets
      BY <2>1, ElementOfSeq
    <3> QED BY <2>2, <3>1, PacketBytes
  <2>4. Ends(packets, k) = Ends(packets, k - 1) + z
    BY <2>1, <2>2, InPlace
  <2>5. Ends(packets, j) \in 0 .. Ends(packets, k - 1)
    BY <2>1, AllCovered DEF Covers
  <2>6. Ends(packets, k - 1) \in Nat
    BY <1>2, <2>1
  <2> QED BY <2>3, <2>4, <2>5, <2>6
<1>5. j \in 0 .. Len(packets)
  OBVIOUS
<1> QED BY <1>1, <1>2, <1>3, <1>4, <1>5
-----------------------------------------------------------------------------
(* Nonsense at the end *)

LEMMA TypeTells ==
  /\ \A p \in Packets : p.type # 0
  /\ \A w \in Wrongs : /\ w.type = 0 /\ w.of \in Packets /\ w.at \in Nat /\ w.byte \in Octet
                       /\ w.rest \in Seq(Octet) /\ w.at < Len(Whole(w.of))
<1>1. ASSUME NEW p \in Packets PROVE p.type # 0
  <2>1. p.type \in Acks \cup {CONNACK, SUBACK, PINGRESP, PUBLISH}
    BY KindOf, Zenon
  <2> QED BY <2>1, TypeNumbers
<1>2. ASSUME NEW w \in Wrongs
      PROVE  /\ w.type = 0 /\ w.of \in Packets /\ w.at \in Nat /\ w.byte \in Octet
             /\ w.rest \in Seq(Octet) /\ w.at < Len(Whole(w.of))
  BY DEF Wrongs
<1> QED BY <1>1, <1>2

\* What is nonsense is at the end, and before it are packets.
LEMMA MeantIs ==
  ASSUME Sound
  PROVE  /\ Len(sent) \in Nat /\ Meant \in Seq(Packets) /\ Len(Meant) = Len(sent)
         /\ \A k \in 1 .. Len(sent) :
              /\ ~IsNonsense(k) => Meant[k] = sent[k]
              /\ IsNonsense(k) => k = Len(sent) /\ sent[k] \in Wrongs /\ Meant[k] = sent[k].of
<1>1. /\ sent \in Seq(Packets \cup Wrongs)
      /\ \A k \in 1 .. Len(sent) : sent[k].type = 0 => k = Len(sent)
  BY DEF Sound, Said
<1>2. PICK n \in Nat : n = Len(sent)
  BY <1>1
<1>3. ASSUME NEW k \in 1 .. n
      PROVE  /\ Meant[k] \in Packets /\ (~IsNonsense(k) => Meant[k] = sent[k])
             /\ IsNonsense(k) => k = n /\ sent[k] \in Wrongs /\ Meant[k] = sent[k].of
  <2>1. sent[k] \in Packets \/ sent[k] \in Wrongs
    <3>1. sent[k] \in Packets \cup Wrongs
      BY <1>1, <1>2, ElementOfSeq
    <3> QED BY <3>1
  <2>2. Meant[k] = IF IsNonsense(k) THEN sent[k].of ELSE sent[k]
    BY <1>2 DEF Meant
  <2>3. CASE IsNonsense(k)
    <3>1. sent[k] \in Wrongs /\ k = n
      BY <1>1, <1>2, <2>1, <2>3, TypeTells DEF IsNonsense
    <3>2. sent[k].of \in Packets
      BY <3>1, TypeTells
    <3> QED BY <2>2, <2>3, <3>1, <3>2
  <2>4. CASE ~IsNonsense(k)
    <3>1. sent[k] \in Packets
      BY <2>1, <2>4, TypeTells DEF IsNonsense
    <3> QED BY <2>2, <2>4, <3>1
  <2> QED BY <2>3, <2>4
<1>4. Meant = [k \in 1 .. n |-> Meant[k]]
  BY <1>2 DEF Meant
<1>5. PICK f : f = Meant
  OBVIOUS
<1>6. f \in [1 .. n -> Packets]
  <2>1. f = [k \in 1 .. n |-> f[k]] /\ \A k \in 1 .. n : f[k] \in Packets
    BY <1>3, <1>4, <1>5
  <2> QED BY <2>1
<1>7. f \in Seq(Packets) /\ Len(f) = n
  BY <1>6
<1> QED BY <1>2, <1>3, <1>5, <1>7, Zenon

\* Before it the bytes are those of the packets.
LEMMA SameBefore ==
  ASSUME Sound, NEW m \in 0 .. Len(sent), \A k \in 1 .. m : ~IsNonsense(k)
  PROVE  \A k \in 0 .. m : StreamedFirst(sent)[k] = StreamedFirst(Meant)[k]
<1>1. PICK f, g : f = StreamedFirst(sent) /\ g = StreamedFirst(Meant)
  OBVIOUS
<1>2. /\ Len(sent) \in Nat /\ Meant \in Seq(Packets) /\ Len(Meant) = Len(sent)
      /\ \A k \in 1 .. Len(sent) : ~IsNonsense(k) => Meant[k] = sent[k]
  BY MeantIs
<1>3. /\ f[0] = <<>> /\ \A k \in 1 .. Len(sent) : f[k] = f[k - 1] \o Bytes(sent[k])
      /\ g[0] = <<>> /\ \A k \in 1 .. Len(sent) : g[k] = g[k - 1] \o Bytes(Meant[k])
  <2>1. sent \in Seq(Packets \cup Wrongs)
    BY DEF Sound, Said
  <2>2. Grows(sent, Len(sent), f)
    BY <1>1, <2>1, StreamedGrows
  <2>3. Grows(Meant, Len(Meant), g)
    BY <1>1, <1>2, StreamedGrows
  <2> QED BY <1>2, <2>2, <2>3 DEF Grows
<1> DEFINE T == {k \in Nat : k <= m => f[k] = g[k]}
<1>4. 0 \in T
  BY <1>3
<1>5. ASSUME NEW k \in Nat, k \in T PROVE k + 1 \in T
  <2>1. ASSUME k + 1 <= m PROVE f[k + 1] = g[k + 1]
    <3>1. k + 1 \in 1 .. m /\ k + 1 \in 1 .. Len(sent) /\ (k + 1) - 1 = k
      BY <1>2, <2>1
    <3>2. Meant[k + 1] = sent[k + 1] /\ f[k] = g[k]
      BY <1>2, <1>5, <2>1, <3>1
    <3>3. f[k + 1] = f[(k + 1) - 1] \o Bytes(sent[k + 1])
          /\ g[k + 1] = g[(k + 1) - 1] \o Bytes(Meant[k + 1])
      BY <1>3, <3>1, Zenon
    <3> QED BY <3>1, <3>2, <3>3
  <2> QED BY <2>1
<1> HIDE DEF T
<1>6. Nat \subseteq T
  BY <1>4, <1>5, SetInduction
<1> QED BY <1>1, <1>6 DEF T

\* The bytes of nonsense: those of a packet up to the wrong one.
LEMMA WrongBytes ==
  ASSUME NEW w \in Wrongs, NEW z, z = Bytes(w)
  PROVE  /\ z \in Seq(Nat) /\ Len(z) = w.at + 1 + Len(w.rest) /\ Len(w.rest) \in Nat
         /\ w.at < Size(w.of) /\ z[w.at + 1] = w.byte
         /\ \A i \in 1 .. w.at : z[i] = Bytes(w.of)[i]
<1>1. PICK q, n, b, e : q = w.of /\ n = w.at /\ b = w.byte /\ e = w.rest
  OBVIOUS
<1>2. q \in Packets /\ n \in Nat /\ b \in Nat /\ e \in Seq(Nat) /\ n < Len(Whole(q)) /\ w.type = 0
  <2>1. q \in Packets /\ n \in Nat /\ b \in Octet /\ e \in Seq(Octet) /\ n < Len(Whole(q)) /\ w.type = 0
    BY <1>1, TypeTells, Zenon
  <2>2. b \in Nat
    BY <2>1 DEF Octet
  <2>3. e \in Seq(Nat)
    BY <2>1, OctetsAreNumbers, Zenon
  <2> QED BY <2>1, <2>2, <2>3
<1>3. PICK f : f = Bytes(q)
  OBVIOUS
<1>4. Whole(q) = f
  BY <1>2, <1>3, TypeTells DEF Bytes
<1>5. f \in Seq(Nat) /\ Len(f) = Size(q) /\ n < Len(f)
  BY <1>2, <1>3, <1>4, PacketBytes
<1>6. PICK s : s = SubSeq(f, 1, n)
  OBVIOUS
<1>7. s \in Seq(Nat) /\ Len(s) = n /\ \A i \in 1 .. n : s[i] = f[i]
  BY <1>2, <1>5, <1>6
<1>8. z = s \o <<b>> \o e
  <2>1. z = SubSeq(Whole(w.of), 1, w.at) \o <<w.byte>> \o w.rest
    BY <1>2, Zenon DEF Bytes
  <2> QED BY <1>1, <1>4, <1>6, <2>1, Zenon
<1>9. PICK x : x = <<b>>
  OBVIOUS
<1>10. x \in Seq(Nat) /\ Len(x) = 1 /\ x[1] = b
  BY <1>2, <1>9
<1>11. PICK a : a = s \o x
  OBVIOUS
<1>12. a \in Seq(Nat) /\ Len(a) = n + 1 /\ a[n + 1] = b /\ \A i \in 1 .. n : a[i] = f[i]
  <2>1. Pair(Nat, a, s, x)
    BY <1>7, <1>10, <1>11, TwoParts
  <2>2. 1 \in 1 .. Len(x)
    BY <1>10
  <2> QED BY <1>7, <1>10, <2>1, <2>2 DEF Pair
<1>13. z = a \o e
  BY <1>8, <1>9, <1>11
<1>14. Pair(Nat, z, a, e)
  BY <1>2, <1>12, <1>13, TwoParts
<1>15. Len(e) \in Nat
  BY <1>2
<1>16. z \in Seq(Nat) /\ Len(z) = n + 1 + Len(e) /\ z[n + 1] = b /\ \A i \in 1 .. n : z[i] = f[i]
  <2>1. n + 1 \in 1 .. Len(a) /\ \A i \in 1 .. n : i \in 1 .. Len(a)
    BY <1>2, <1>12
  <2> QED BY <1>12, <1>14, <2>1 DEF Pair
<1> QED BY <1>1, <1>3, <1>5, <1>15, <1>16

\* What belongs to packets, and what comes behind it.
Beyond ==
  LET l == Len(sent)
      w == sent[l]
  IN  /\ l >= 1 /\ w \in Wrongs /\ Meant[l] = w.of
      /\ Ending(l - 1) \in Nat /\ w.at \in Nat /\ w.at < Size(w.of)
      /\ Sense = Ending(l - 1) + w.at /\ Sense < Ending(l) /\ Ending(l) \in Nat
      /\ Sense < Len(stream) /\ stream[Sense + 1] = w.byte

LEMMA SenseIs ==
  ASSUME Sound
  PROVE  /\ Sense \in Nat /\ Len(stream) \in Nat /\ Sense <= Len(stream)
         /\ Sense <= Ending(Len(Meant)) /\ Len(Streamed(Meant)) = Ending(Len(Meant))
         /\ \A i \in 1 .. Sense : stream[i] = Streamed(Meant)[i]
         /\ ~Spoilt => Sense = Len(stream) /\ Sense = Ending(Len(Meant))
         /\ Spoilt => Beyond
<1>0. /\ stream = Streamed(sent) /\ Meant \in Seq(Packets) /\ Len(Meant) = Len(sent)
      /\ Len(sent) \in Nat
  BY MeantIs DEF Sound
<1>1. PICK l \in Nat : l = Len(sent)
  BY <1>0
<1>2. PICK f, g : f = StreamedFirst(sent) /\ g = StreamedFirst(Meant)
  OBVIOUS
<1>3. /\ \A k \in 1 .. l : f[k] = f[k - 1] \o Bytes(sent[k])
      /\ stream = f[l] /\ Streamed(Meant) = g[l]
      /\ \A k \in 0 .. l : Ending(k) = Len(g[k]) /\ Covers(Meant, k)
  <2>1. sent \in Seq(Packets \cup Wrongs)
    BY DEF Sound, Said
  <2>2. Grows(sent, l, f)
    BY <1>1, <1>2, <2>1, StreamedGrows
  <2>3. stream = f[l] /\ Streamed(Meant) = g[l]
    BY <1>0, <1>1, <1>2, Zenon DEF Streamed
  <2>4. \A k \in 0 .. l : Ending(k) = Len(g[k])
    BY <1>2 DEF Ending, Ends
  <2>5. \A k \in 0 .. l : Covers(Meant, k)
    BY <1>0, <1>1, AllCovered
  <2> QED BY <2>2, <2>3, <2>4, <2>5 DEF Grows
<1>4. \A k \in 0 .. l : g[k] \in Seq(Nat) /\ Ending(k) \in Nat
  <2> TAKE k \in 0 .. l
  <2>1. g[k] \in Seq(Nat)
    BY <1>2, <1>3 DEF Covers
  <2> QED BY <1>3, <2>1
<1>5. CASE ~Spoilt
  <2>1. \A k \in 1 .. l : ~IsNonsense(k)
    BY <1>1, <1>5, MeantIs DEF Spoilt
  <2>2. f[l] = g[l]
    <3>1. l \in 0 .. Len(sent) /\ l \in 0 .. l
      BY <1>1
    <3> QED BY <1>2, <2>1, <3>1, SameBefore
  <2>3. Sense = Len(stream)
    BY <1>5 DEF Sense
  <2>4. l \in 0 .. l
    OBVIOUS
  <2> QED BY <1>0, <1>1, <1>3, <1>4, <1>5, <2>2, <2>3, <2>4
<1>6. CASE Spoilt
  <2>1. l >= 1 /\ l \in 1 .. l /\ l - 1 \in 0 .. l /\ l \in 0 .. l /\ IsNonsense(l)
    BY <1>1, <1>6 DEF Spoilt
  <2>2. PICK w : w = sent[l]
    OBVIOUS
  <2>3. w \in Wrongs /\ Meant[l] = w.of
    BY <1>1, <2>1, <2>2, MeantIs
  <2>4. f[l - 1] = g[l - 1]
    <3>1. ASSUME NEW k \in 1 .. l - 1 PROVE ~IsNonsense(k)
      <4>1. k \in 1 .. Len(sent) /\ k # Len(sent)
        BY <1>1
      <4> QED BY <4>1, MeantIs
    <3>2. l - 1 \in 0 .. Len(sent) /\ l - 1 \in 0 .. l - 1
      BY <1>1, <2>1
    <3> QED BY <1>2, <3>1, <3>2, SameBefore
  <2>5. PICK z : z = Bytes(w)
    OBVIOUS
  <2>6. PICK n \in Nat : n = w.at
    BY <2>3, TypeTells
  <2>7. PICK b : b = Bytes(w.of)
    OBVIOUS
  <2>8. PICK r \in Nat : r = Len(w.rest)
    BY <2>3, WrongBytes
  <2>9. PICK s \in Nat : s = Size(w.of)
    BY <2>3, TypeTells, PacketBytes
  <2>10. /\ z \in Seq(Nat) /\ Len(z) = n + 1 + r /\ n < s /\ z[n + 1] = w.byte
         /\ \A i \in 1 .. n : z[i] = b[i]
    BY <2>3, <2>5, <2>6, <2>7, <2>8, <2>9, WrongBytes
  <2>11. PICK x : x = g[l - 1]
    OBVIOUS
  <2>12. PICK e \in Nat : e = Ending(l - 1)
    BY <1>4, <2>1
  <2>13. x \in Seq(Nat) /\ Len(x) = e
    BY <1>3, <1>4, <2>1, <2>11, <2>12
  <2>14. stream = x \o z
    BY <1>3, <2>1, <2>2, <2>4, <2>5, <2>11
  <2>15. Pair(Nat, stream, x, z)
    BY <2>10, <2>13, <2>14, TwoParts
  <2>16. Sense = e + n
    BY <1>1, <1>6, <2>2, <2>6, <2>12 DEF Sense
  <2>17. Len(stream) = e + n + 1 + r
    BY <2>10, <2>13, <2>15 DEF Pair
  <2>18. stream[e + n + 1] = w.byte
    <3>1. n + 1 \in 1 .. Len(z) /\ Len(x) + (n + 1) = e + n + 1
      BY <2>10, <2>13
    <3>2. stream[Len(x) + (n + 1)] = z[n + 1]
      BY <2>15, <3>1 DEF Pair
    <3> QED BY <2>10, <3>1, <3>2
  <2>19. /\ Ending(l) = e + s /\ Len(Streamed(Meant)) = e + s
         /\ \A i \in 1 .. s : Streamed(Meant)[e + i] = b[i]
    <3>1. /\ Ends(Meant, l) = Ends(Meant, l - 1) + Size(Meant[l])
          /\ \A i \in 1 .. Size(Meant[l]) :
               Streamed(Meant)[Ends(Meant, l - 1) + i] = Bytes(Meant[l])[i]
      <4>1. l \in 1 .. Len(Meant)
        BY <1>0, <1>1, <2>1
      <4> QED BY <1>0, <4>1, InPlace
    <3>2. Len(Streamed(Meant)) = Ending(l)
      BY <1>3, <2>1
    <3> QED BY <2>3, <2>7, <2>9, <2>12, <3>1, <3>2 DEF Ending
  <2>20. \A i \in 1 .. e : Streamed(Meant)[i] = x[i]
    <3>1. Covers(Meant, l)
      BY <1>3, <2>1
    <3>2. \A i \in 1 .. Ends(Meant, l - 1) : g[l][i] = g[l - 1][i]
      BY <1>2, <2>1, <3>1 DEF Covers
    <3> QED BY <1>3, <2>11, <2>12, <3>2 DEF Ending
  <2>21. ASSUME NEW i \in 1 .. e + n PROVE stream[i] = Streamed(Meant)[i]
    <3>1. CASE i <= e
      <4>1. i \in 1 .. e
        BY <3>1
      <4> QED BY <2>13, <2>15, <2>20, <4>1 DEF Pair
    <3>2. CASE ~(i <= e)
      <4>1. PICK j \in Nat : i = e + j
        <5>1. i - e \in Nat /\ i = e + (i - e)
          BY <3>2
        <5> QED BY <5>1
      <4>2. j \in 1 .. n /\ j \in 1 .. s /\ j \in 1 .. Len(z)
        BY <2>10, <3>2, <4>1
      <4>3. stream[Len(x) + j] = z[j]
        BY <2>15, <4>2 DEF Pair
      <4> QED BY <2>10, <2>13, <2>19, <4>1, <4>2, <4>3
    <3> QED BY <3>1, <3>2
  <2>22. Beyond
    <3>1. l - 1 \in 0 .. l
      BY <2>1
    <3>2. /\ l >= 1 /\ w \in Wrongs /\ Meant[l] = w.of
          /\ Ending(l - 1) \in Nat /\ w.at \in Nat /\ w.at < Size(w.of)
          /\ Sense = Ending(l - 1) + w.at
      BY <2>1, <2>3, <2>6, <2>9, <2>10, <2>12, <2>16
    <3>3. Sense < Ending(l) /\ Ending(l) \in Nat
      BY <2>10, <2>16, <2>19
    <3>4. Sense < Len(stream) /\ stream[Sense + 1] = w.byte
      BY <2>16, <2>17, <2>18
    <3> QED BY <1>1, <2>2, <3>2, <3>3, <3>4, Zenon DEF Beyond
  <2>23. /\ Sense \in Nat /\ Len(stream) \in Nat /\ Sense <= Len(stream)
         /\ Sense <= Ending(l) /\ Len(Streamed(Meant)) = Ending(l)
    BY <2>10, <2>16, <2>17, <2>19
  <2> QED BY <1>0, <1>1, <1>6, <2>16, <2>21, <2>22, <2>23
<1> QED BY <1>5, <1>6
-----------------------------------------------------------------------------
(* One step of the parser *)

LEMMA Unmoved ==
  ASSUME UNCHANGED <<sent, stream>>
  PROVE  Meant' = Meant /\ Sense' = Sense /\ \A n : Ending(n)' = Ending(n)
<1>1. sent' = sent /\ stream' = stream
  OBVIOUS
<1>2. \A k : IsNonsense(k)' <=> IsNonsense(k)
  BY <1>1 DEF IsNonsense
<1>3. Meant' = Meant
  BY <1>1, <1>2 DEF Meant
<1>4. \A n : Ending(n)' = Ending(n)
  BY <1>3 DEF Ending
<1>5. Spoilt' <=> Spoilt
  BY <1>1, <1>2 DEF Spoilt
<1>6. Sense' = Sense
  BY <1>1, <1>4, <1>5 DEF Sense
<1> QED BY <1>3, <1>4, <1>6

\* The parser is inside the packet p, the one behind the first n, off bytes of
\* which it has taken.
Place(n, p, off) ==
  /\ n \in 0 .. Len(Meant) - 1 /\ p = Meant[n + 1] /\ p \in Packets
  /\ pos = Ending(n) + off /\ pk.header = HeaderOf(p)
  /\ Amid(p, off) /\ Given(n)

LEMMA PacketAt ==
  ASSUME Sound, NEW n \in 0 .. Len(Meant) - 1
  PROVE  /\ n + 1 \in 1 .. Len(Meant) /\ n \in 0 .. Len(Meant) /\ n + 1 \in 0 .. Len(Meant)
         /\ Meant[n + 1] \in Packets
         /\ Ending(n) \in Nat /\ Ending(n + 1) = Ending(n) + Size(Meant[n + 1])
         /\ Size(Meant[n + 1]) \in Nat
<1>1. Meant \in Seq(Packets)
  BY MeantIs
<1>2. Len(Meant) \in Nat
  BY <1>1
<1>3. n + 1 \in 1 .. Len(Meant) /\ n \in 0 .. Len(Meant) /\ n + 1 \in 0 .. Len(Meant) /\ (n + 1) - 1 = n
  BY <1>2
<1>4. Meant[n + 1] \in Packets
  BY <1>1, <1>3, ElementOfSeq
<1>5. Ends(Meant, n) \in Nat /\ Ends(Meant, n + 1) = Ends(Meant, n) + Size(Meant[n + 1])
  BY <1>1, <1>3, InPlace
<1> QED BY <1>3, <1>4, <1>5, PacketBytes DEF Ending, Ends

LEMMA Placed ==
  ASSUME IInv, InOrder, fn # "fixedHeader"
  PROVE  \E n, p, off : Place(n, p, off)
<1>0. Sound
  BY DEF InOrder
<1>1. PICK n : Inside(n)
  BY Zenon DEF InOrder, Behind
<1>2. n \in 0 .. Len(Meant) - 1
  BY <1>1 DEF Inside
<1>3. PICK off : off = pos - Ending(n)
  OBVIOUS
<1>4. pos = Ending(n) + off
  <2>1. Ending(n) \in Nat
    BY <1>0, <1>2, PacketAt
  <2>2. pos \in Int
    BY DEF IInv, TypeInv
  <2> QED BY <1>3, <2>1, <2>2
<1>5. Meant[n + 1] \in Packets
  BY <1>0, <1>2, PacketAt
<1>6. Place(n, Meant[n + 1], off)
  BY <1>1, <1>2, <1>3, <1>4, <1>5, Zenon DEF Place, Inside
<1> QED BY <1>6

\* The byte that comes next is one of the packet.
LEMMA ByteAt ==
  ASSUME IInv, Sound, pos < Sense,
         NEW n \in 0 .. Len(Meant) - 1, NEW p, p = Meant[n + 1],
         NEW off \in Nat, off < Size(p), pos = Ending(n) + off
  PROVE  /\ Byte = Bytes(p)[off + 1]
         /\ pos + 1 = Ending(n) + (off + 1) /\ off + 1 \in Nat
<1>0. n + 1 \in 1 .. Len(Meant) /\ Ending(n) \in Nat /\ Size(p) \in Nat /\ (n + 1) - 1 = n
  BY PacketAt
<1>1. pos + 1 = Ending(n) + (off + 1) /\ off + 1 \in Nat /\ off + 1 \in 1 .. Size(p)
  BY <1>0
<1>2. stream[pos + 1] = Streamed(Meant)[pos + 1]
  <2>1. pos \in Nat
    BY DEF IInv, TypeInv
  <2>2. pos + 1 \in 1 .. Sense
    BY <2>1, SenseIs
  <2> QED BY <2>2, SenseIs
<1>3. Streamed(Meant)[Ends(Meant, (n + 1) - 1) + (off + 1)] = Bytes(Meant[n + 1])[off + 1]
  BY <1>0, <1>1, MeantIs, InPlace
<1>4. Ends(Meant, (n + 1) - 1) = Ending(n)
  BY <1>0 DEF Ending, Ends
<1> QED BY <1>1, <1>2, <1>3, <1>4 DEF Byte

\* The parser goes on in the same packet, or begins with the next.
LEMMA GoesOn ==
  ASSUME Sound, ~error, UNCHANGED buffer, UNCHANGED error,
         NEW n \in 0 .. Len(Meant) - 1, NEW p, p = Meant[n + 1], NEW off \in Nat,
         pos' <= Sense, pos' = Ending(n) + off, Amid(p, off)', pk'.header = HeaderOf(p), Given(n)'
  PROVE  InOrder'
<1>0. sent' = sent /\ stream' = stream
  BY DEF buffer
<1>1. /\ Meant' = Meant /\ Sense' = Sense /\ Ending(n)' = Ending(n)
      /\ Ending(n) \in Nat /\ n \in 0 .. Len(Meant)
  BY <1>0, PacketAt, Unmoved
<1>2. pos' - Ending(n)' = off
  BY <1>1
<1>3. Inside(n)'
  BY <1>1, <1>2, Zenon DEF Inside
<1> QED BY <1>0, <1>1, <1>3, Zenon DEF InOrder, Sound

LEMMA Finishes ==
  ASSUME Sound, ~error, UNCHANGED buffer, UNCHANGED error,
         NEW n \in 0 .. Len(Meant) - 1, NEW p, p = Meant[n + 1],
         pos' <= Sense, pos' = Ending(n) + Size(p), fn' = "fixedHeader", got' = SubSeq(Meant, 1, n + 1)
  PROVE  InOrder'
<1>0. sent' = sent /\ stream' = stream
  BY DEF buffer
<1>1. /\ Meant' = Meant /\ Sense' = Sense /\ Ending(n + 1)' = Ending(n + 1)
      /\ Ending(n + 1) = Ending(n) + Size(p) /\ n + 1 \in 0 .. Len(Meant)
  BY <1>0, PacketAt, Unmoved
<1>2. Behind(n + 1)'
  BY <1>1, Zenon DEF Behind
<1> QED BY <1>0, <1>1, <1>2, Zenon DEF InOrder, Sound

\* What was given out, and the packet that is complete.
LEMMA OneMoreGiven ==
  ASSUME Sound, NEW n \in 0 .. Len(Meant) - 1, NEW g, g = Meant[n + 1],
         got = SubSeq(Meant, 1, n)
  PROVE  Append(got, g) = SubSeq(Meant, 1, n + 1)
<1>1. Meant \in Seq(Packets) /\ n + 1 \in 1 .. Len(Meant) /\ (n + 1) - 1 = n
  BY PacketAt, MeantIs
<1>2. 1 \in 1 .. Len(Meant) /\ n + 1 \in 1 .. Len(Meant)
  BY <1>1
<1>3. SubSeq(Meant, 1, n + 1) = SubSeq(Meant, 1, (n + 1) - 1) \o <<Meant[n + 1]>>
  BY <1>1, <1>2, SubSeqRecursiveSecond
<1>4. got \in Seq(Packets)
  BY <1>1
<1>5. g \in Packets
  BY PacketAt
<1>6. Append(got, g) = got \o <<g>>
  BY <1>4, <1>5
<1> QED BY <1>1, <1>3, <1>6

\* The next packet begins where the parser is.
LEMMA AtHeader ==
  ASSUME IInv, InOrder, fn = "fixedHeader", pos < Sense
  PROVE  \E n \in 0 .. Len(Meant) - 1 : pos = Ending(n) /\ got = SubSeq(Meant, 1, n)
<1>1. PICK n \in 0 .. Len(Meant) : Behind(n)
  <2>1. \A n : ~Inside(n)
    BY Zenon DEF Inside, Amid, AmidLengthFixed, AmidLengthNone, AmidLengthVariable,
       AmidConnack1, AmidConnack2, AmidId1, AmidId2, AmidTopicLength1, AmidTopicLength2,
       AmidTopic, AmidCodes, AmidPayload
  <2> QED BY <2>1, Zenon DEF InOrder
<1>2. Sound
  BY DEF InOrder
<1>3. n # Len(Meant)
  <2>1. pos = Ending(n) /\ pos \in Nat
    BY <1>1 DEF Behind, IInv, TypeInv
  <2>2. Sense <= Ending(Len(Meant)) /\ Sense \in Nat
    BY <1>2, SenseIs
  <2>3. CASE n = Len(Meant)
    <3>1. Ending(Len(Meant)) = pos
      BY <2>1, <2>3
    <3> QED BY <2>1, <2>2, <3>1
  <2> QED BY <2>3
<1>6. n \in 0 .. Len(Meant) - 1
  <2>1. Len(Meant) \in Nat
    BY <1>2, MeantIs
  <2> QED BY <1>3, <2>1
<1> QED BY <1>1, <1>6 DEF Behind

LEMMA HeaderKnown ==
  ASSUME NEW n, NEW p, NEW off, Place(n, p, off)
  PROVE  /\ p \in Packets /\ Type(pk) = p.type /\ Flags(pk) = FlagsOf(p)
         /\ p.type = PUBLISH => Flags(pk) = p.flags
BY HeaderBytes, Zenon DEF Place, Type, Flags

LEMMA ByteIs ==
  ASSUME IInv, Sound, pos < Sense, NEW n, NEW p, NEW off \in Nat, Place(n, p, off), off < Size(p)
  PROVE  Byte = Bytes(p)[off + 1]
<1>1. n \in 0 .. Len(Meant) - 1 /\ p = Meant[n + 1] /\ pos = Ending(n) + off
  BY DEF Place
<1> QED BY <1>1, ByteAt

\* A byte of the packet is taken, and another function waits for the next.
LEMMA TakesOne ==
  ASSUME IInv, Sound, ~error, pos < Sense, NEW n, NEW p, NEW off \in Nat, Place(n, p, off),
         fn # "payloadPublish", UNCHANGED buffer, NEW f, Await(f), pk'.header = pk.header,
         f # "payloadPublish" \/ ~(pk'.index + pk'.length > 0), Amid(p, off + 1)'
  PROVE  InOrder'
<1>1. n \in 0 .. Len(Meant) - 1 /\ p = Meant[n + 1] /\ Ending(n) \in Nat
  BY PacketAt DEF Place
<1>2. pos' = Ending(n) + (off + 1) /\ off + 1 \in Nat
  BY <1>1 DEF Place, Await
<1>3. UNCHANGED error /\ fn' = f /\ got' = got /\ Meant' = Meant
  BY Unmoved DEF Await, buffer
<1>a. pos' <= Sense
  <2>1. pos \in Nat /\ pos' = pos + 1
    BY DEF IInv, TypeInv, Await
  <2> QED BY <2>1, SenseIs
<1>4. got = SubSeq(Meant, 1, n)
  BY DEF Place, Given
<1>5. Given(n)'
  BY <1>3, <1>4 DEF Given
<1>6. pk'.header = HeaderOf(p)
  BY DEF Place
<1> QED BY <1>1, <1>2, <1>3, <1>a, <1>5, <1>6, GoesOn

\* The last byte of the packet is taken.
LEMMA TakesLast ==
  ASSUME IInv, Sound, ~error, pos < Sense, NEW n, NEW p, NEW off \in Nat, Place(n, p, off),
         fn # "payloadPublish", UNCHANGED buffer, off + 1 = Size(p), Complete(p)
  PROVE  InOrder'
<1>1. n \in 0 .. Len(Meant) - 1 /\ p = Meant[n + 1] /\ Ending(n) \in Nat
  BY PacketAt DEF Place
<1>2. pos' = Ending(n) + Size(p)
  BY <1>1 DEF Place, Complete
<1>3. UNCHANGED error /\ fn' = "fixedHeader" /\ got' = Append(got, p)
  BY DEF Complete
<1>a. pos' <= Sense
  <2>1. pos \in Nat /\ pos' = pos + 1
    BY DEF IInv, TypeInv, Complete
  <2> QED BY <2>1, SenseIs
<1>4. got = SubSeq(Meant, 1, n)
  BY DEF Place, Given
<1>5. got' = SubSeq(Meant, 1, n + 1)
  BY <1>1, <1>3, <1>4, OneMoreGiven
<1> QED BY <1>1, <1>2, <1>3, <1>a, <1>5, Finishes

LEMMA OrderFixedHeader == IInv /\ InOrder /\ pos < Sense /\ FixedHeader => InOrder'
<1> SUFFICES ASSUME IInv, InOrder, pos < Sense, FixedHeader PROVE InOrder'
  OBVIOUS
<1>0. Sound /\ ~error /\ fn = "fixedHeader" /\ pos < avail /\ UNCHANGED buffer
  BY DEF InOrder, FixedHeader, At
<1>1. PICK n \in 0 .. Len(Meant) - 1 : pos = Ending(n) /\ got = SubSeq(Meant, 1, n)
  BY <1>0, AtHeader
<1>2. PICK p : p = Meant[n + 1]
  OBVIOUS
<1>3. p \in Packets /\ Ending(n) \in Nat
  BY <1>0, <1>2, PacketAt
<1>4. Byte = HeaderOf(p)
  <2>1. 0 \in Nat /\ 0 < Size(p) /\ pos = Ending(n) + 0
    BY <1>1, <1>3, PacketBytes
  <2>2. Byte = Bytes(p)[0 + 1]
    BY <1>0, <1>2, <2>1, ByteAt
  <2> QED BY <1>3, <2>2, PacketBytes
<1>5. /\ Byte \div 16 = p.type /\ Byte % 16 = FlagsOf(p)
      /\ p.type = PUBLISH => ValidFlags(FlagsOf(p))
      /\ p.type # PUBLISH => FlagsOf(p) = Reserved(p.type)
  BY <1>3, <1>4, HeaderBytes
<1>6. p.type \in Acks \cup {CONNACK, SUBACK, PINGRESP, PUBLISH}
  BY <1>3, KindOf, Zenon
<1>7. pk'.header = HeaderOf(p) /\ pk'.id = 0 /\ pk'.index = 0 /\ pk'.length = 0
  <2>1. PICK c : c = Cleared(pk)
    OBVIOUS
  <2>2. pk \in PacketFields
    BY DEF IInv, TypeInv
  <2>3. c \in PacketFields /\ c.id = 0 /\ c.index = 0 /\ c.length = 0
    <3>1. 0 \in Octet
      BY DEF Octet
    <3> QED BY <2>1, <2>2, <3>1 DEF Cleared, PacketFields
  <2>4. pk' = [c EXCEPT !.header = Byte]
    BY <2>1 DEF FixedHeader
  <2> QED BY <1>4, <2>3, <2>4 DEF PacketFields
<1>8. \/ p.type \in {PUBLISH, SUBACK} /\ Await("remainingLengthVariable") /\ bytePos' = 0
      \/ p.type \in Acks \cup {CONNACK} /\ Await("remainingLengthFixed")
      \/ p.type = PINGRESP /\ Await("remainingLengthNone")
  <2>1. PICK t, g : t = Byte \div 16 /\ g = Byte % 16
    OBVIOUS
  <2>2. \/ /\ \/ t = PUBLISH /\ ValidFlags(g)
              \/ t = SUBACK /\ g = Reserved(t)
           /\ Await("remainingLengthVariable") /\ bytePos' = 0
        \/ t \in Acks \cup {CONNACK} /\ Await("remainingLengthFixed")
        \/ t = PINGRESP /\ Await("remainingLengthNone")
        \/ \/ t = PUBLISH /\ ~ValidFlags(g)
           \/ t # PUBLISH /\ g # Reserved(t)
           \/ t \notin Acks \cup {CONNACK, PUBLISH, SUBACK, PINGRESP}
    BY <2>1, Zenon DEF FixedHeader
  <2> QED BY <1>5, <1>6, <2>1, <2>2, Zenon
<1>9. /\ 1 \in Nat /\ pos' = Ending(n) + 1 /\ UNCHANGED error /\ got' = got /\ Meant' = Meant
      /\ pos' <= Sense
  <2>1. sent' = sent /\ stream' = stream /\ pos' = pos + 1 /\ UNCHANGED error /\ got' = got
    BY <1>0, <1>8 DEF Await, buffer
  <2>2. Meant' = Meant /\ Sense \in Nat /\ pos \in Nat
    BY <1>0, <2>1, Unmoved, SenseIs DEF IInv, TypeInv
  <2>3. PICK e \in Nat, d \in Nat : e = Ending(n) /\ d = Sense
    BY <1>1, <2>2
  <2>4. e + 1 \in Nat /\ pos' = e + 1 /\ e + 1 <= d
    BY <1>1, <2>1, <2>3
  <2> QED BY <2>1, <2>2, <2>3, <2>4
<1>10. fn' # "payloadPublish" /\ Amid(p, 1)'
  <2>1. CASE p.type \in {PUBLISH, SUBACK} /\ Await("remainingLengthVariable") /\ bytePos' = 0
    <3>1. Len(LengthBytes(p)) > 0
      <4>1. PICK a \in 2 .. 5 : Len(LengthBytes(p)) = a - 1
        BY <1>3, PacketBytes
      <4> QED BY <4>1
    <3>2. fn' = "remainingLengthVariable" /\ 1 = 1 + bytePos' /\ bytePos' < Len(LengthBytes(p))
      BY <2>1, <3>1 DEF Await
    <3>3. AmidLengthVariable(p, 1)'
      BY <1>7, <2>1, <3>2 DEF AmidLengthVariable, Unstarted
    <3> QED BY <3>2, <3>3 DEF Amid
  <2>2. CASE p.type \in Acks \cup {CONNACK} /\ Await("remainingLengthFixed")
    <3>1. fn' = "remainingLengthFixed" /\ AmidLengthFixed(p, 1)'
      BY <1>7, <2>2 DEF AmidLengthFixed, Await
    <3> QED BY <3>1 DEF Amid
  <2>3. CASE p.type = PINGRESP /\ Await("remainingLengthNone")
    <3>1. fn' = "remainingLengthNone" /\ AmidLengthNone(p, 1)'
      BY <2>3 DEF AmidLengthNone, Await
    <3> QED BY <3>1 DEF Amid
  <2> QED BY <1>8, <2>1, <2>2, <2>3
<1>11. Given(n)'
  BY <1>1, <1>9, <1>10 DEF Given
<1> QED BY <1>0, <1>2, <1>7, <1>9, <1>10, <1>11, GoesOn

LEMMA OrderRemainingLengthFixed == IInv /\ InOrder /\ pos < Sense /\ RemainingLengthFixed => InOrder'
<1> SUFFICES ASSUME IInv, InOrder, pos < Sense, RemainingLengthFixed PROVE InOrder'
  OBVIOUS
<1>0. Sound /\ ~error /\ fn = "remainingLengthFixed" /\ pos < avail /\ UNCHANGED buffer
      /\ pk' = [pk EXCEPT !.rem = Byte] /\ pk \in PacketFields
  BY DEF InOrder, RemainingLengthFixed, At, IInv, TypeInv
<1>1. PICK n, p, off : Place(n, p, off)
  BY <1>0, Placed
<1>2. off = 1 /\ p.type \in Acks \cup {CONNACK} /\ pk.id = 0
  <2>1. AmidLengthFixed(p, off)
    BY <1>0, <1>1, Zenon DEF Place, Amid, AmidLengthFixed, AmidLengthNone, AmidLengthVariable,
       AmidConnack1, AmidConnack2, AmidId1, AmidId2, AmidTopicLength1, AmidTopicLength2,
       AmidTopic, AmidCodes, AmidPayload
  <2> QED BY <2>1 DEF AmidLengthFixed
<1>3. p \in Packets /\ Type(pk) = p.type
  BY <1>1, HeaderKnown
<1>4. Len(Body(p)) = 2
  BY <1>2, <1>3, AckBody, ConnackBody
<1>5. LengthBytes(p) = <<2>> /\ Start(p) = 2
  <2>1. Len(Body(p)) < Radix
    BY <1>4, RadixAssumption
  <2> QED BY <1>3, <1>4, <2>1, ShortLength
<1>6. Byte = 2
  <2>1. Size(p) = 4
    BY <1>4, <1>5 DEF Size
  <2>2. off \in Nat /\ off < Size(p)
    BY <1>2, <2>1
  <2>3. Byte = Bytes(p)[off + 1]
    BY <1>0, <1>1, <2>2, ByteIs
  <2> QED BY <1>2, <1>3, <1>5, <2>3, PacketBytes
<1>7. pk'.header = pk.header /\ pk'.id = pk.id
  BY <1>0 DEF PacketFields
<1>8. CASE p.type = CONNACK
  <2>1. Await("varHeaderConnack1")
    BY <1>3, <1>6, <1>8 DEF RemainingLengthFixed
  <2>2. Amid(p, off + 1)'
    BY <1>2, <1>8, <2>1 DEF Amid, AmidConnack1, Await
  <2> QED BY <1>0, <1>1, <1>2, <1>7, <2>1, <2>2, TakesOne
<1>9. CASE p.type \in Acks
  <2>0. p.type # CONNACK /\ p.type # SUBACK /\ p.type # PUBLISH
    BY <1>9, TypeNumbers
  <2>1. Await("varHeaderPacketId1")
    BY <1>3, <1>6, <2>0 DEF RemainingLengthFixed
  <2>2. BeforeId(p)' /\ IdAt(p) = 2
    BY <1>5, <1>9, <2>0 DEF BeforeId, IdAt
  <2>3. Amid(p, off + 1)'
    BY <1>2, <1>7, <2>1, <2>2 DEF Amid, AmidId1, Await
  <2> QED BY <1>0, <1>1, <1>2, <1>7, <2>1, <2>3, TakesOne
<1> QED BY <1>2, <1>8, <1>9

LEMMA OrderRemainingLengthNone == IInv /\ InOrder /\ pos < Sense /\ RemainingLengthNone => InOrder'
<1> SUFFICES ASSUME IInv, InOrder, pos < Sense, RemainingLengthNone PROVE InOrder'
  OBVIOUS
<1>0. Sound /\ ~error /\ fn = "remainingLengthNone" /\ pos < avail /\ UNCHANGED buffer
  BY DEF InOrder, RemainingLengthNone, At
<1>1. PICK n, p, off : Place(n, p, off)
  BY <1>0, Placed
<1>2. off = 1 /\ p.type = PINGRESP
  <2>1. AmidLengthNone(p, off)
    BY <1>0, <1>1, Zenon DEF Place, Amid, AmidLengthFixed, AmidLengthNone, AmidLengthVariable,
       AmidConnack1, AmidConnack2, AmidId1, AmidId2, AmidTopicLength1, AmidTopicLength2,
       AmidTopic, AmidCodes, AmidPayload
  <2> QED BY <2>1 DEF AmidLengthNone
<1>3. p \in Packets /\ p = Pingresp
  BY <1>1, <1>2, HeaderKnown, KindOf, Zenon
<1>4. Len(Body(p)) = 0
  <2>1. Body(p) = <<>>
    BY <1>2, BodyOf, Zenon
  <2> QED BY <2>1
<1>5. LengthBytes(p) = <<0>> /\ Start(p) = 2
  <2>1. Len(Body(p)) < Radix
    BY <1>4, RadixAssumption
  <2> QED BY <1>3, <1>4, <2>1, ShortLength
<1>6. Byte = 0 /\ off + 1 = Size(p) /\ off \in Nat
  <2>1. Size(p) = 2
    BY <1>4, <1>5 DEF Size
  <2>2. off \in Nat /\ off < Size(p)
    BY <1>2, <2>1
  <2>3. Byte = Bytes(p)[off + 1]
    BY <1>0, <1>1, <2>2, ByteIs
  <2> QED BY <1>2, <1>3, <1>5, <2>1, <2>3, PacketBytes
<1>7. Complete(p)
  BY <1>3, <1>6 DEF RemainingLengthNone
<1> QED BY <1>0, <1>1, <1>6, <1>7, TakesLast

LEMMA OrderRemainingLengthVariable == IInv /\ InOrder /\ pos < Sense /\ RemainingLengthVariable => InOrder'
<1> SUFFICES ASSUME IInv, InOrder, pos < Sense, RemainingLengthVariable PROVE InOrder'
  OBVIOUS
<1>0. /\ Sound /\ ~error /\ fn = "remainingLengthVariable" /\ pos < avail /\ UNCHANGED buffer
      /\ pk \in PacketFields /\ bytePos \in Nat
  BY DEF InOrder, RemainingLengthVariable, At, IInv, TypeInv
<1>1. PICK n, p, off : Place(n, p, off)
  BY <1>0, Placed
<1>2. AmidLengthVariable(p, off)
  BY <1>0, <1>1, Zenon DEF Place, Amid, AmidLengthFixed, AmidLengthNone, AmidLengthVariable,
     AmidConnack1, AmidConnack2, AmidId1, AmidId2, AmidTopicLength1, AmidTopicLength2,
     AmidTopic, AmidCodes, AmidPayload
<1>3. p \in Packets /\ Type(pk) = p.type
  BY <1>1, HeaderKnown
<1>4. PICK e : e = LengthBytes(p)
  OBVIOUS
<1>5. PICK m : m = Len(e)
  OBVIOUS
<1>6. /\ off = 1 + bytePos /\ p.type \in {SUBACK, PUBLISH} /\ pk.id = 0 /\ Unstarted
      /\ bytePos < m /\ \A j \in 1 .. bytePos : pk.raw[j] = e[j]
  BY <1>2, <1>4, <1>5, Zenon DEF AmidLengthVariable
<1>7. /\ m \in 1 .. 4 /\ \A j \in 1 .. m - 1 : Continues(e[j])
      /\ ~Continues(e[m])
      /\ \A raw \in [1 .. 4 -> Octet] :
           (\A j \in 1 .. m : raw[j] = e[j]) => decodeRemainingLength(raw) = Len(Body(p))
  BY <1>3, <1>4, <1>5, LengthSpelled, Zenon DEF Spells
<1>8. Start(p) = m + 1 /\ off \in Nat /\ off < Size(p) /\ off + 1 \in Nat
  <2>1. Start(p) = m + 1
    BY <1>4, <1>5, <1>7 DEF Start
  <2>2. PICK b \in Nat : b = Len(Body(p))
    BY <1>3, BodyTyped
  <2>3. Size(p) = m + 1 + b
    BY <2>1, <2>2 DEF Size
  <2> QED BY <1>0, <1>6, <1>7, <2>1, <2>2, <2>3
<1>9. Byte = e[bytePos + 1] /\ Byte \in Octet
  <2>1. Byte = Bytes(p)[off + 1]
    BY <1>0, <1>1, <1>8, ByteIs
  <2>2. bytePos + 1 \in 1 .. m /\ off + 1 = 1 + (bytePos + 1)
    BY <1>0, <1>6, <1>7
  <2>3. Bytes(p)[1 + (bytePos + 1)] = e[bytePos + 1]
    BY <1>3, <1>4, <1>5, <2>2, PacketBytes, Zenon
  <2> QED BY <1>0, <2>1, <2>2, <2>3, ByteTyped DEF IInv
<1>10. PICK raw : raw = [pk.raw EXCEPT ![bytePos + 1] = Byte]
  OBVIOUS
<1>11. raw \in [1 .. 4 -> Octet] /\ \A j \in 1 .. bytePos + 1 : raw[j] = e[j]
  <2>1. pk.raw \in [1 .. 4 -> Octet]
    BY <1>0 DEF PacketFields
  <2>2. bytePos + 1 \in 1 .. 4
    BY <1>0, <1>6, <1>7
  <2>3. raw \in [1 .. 4 -> Octet] /\ raw[bytePos + 1] = Byte
        /\ \A j \in 1 .. bytePos : raw[j] = pk.raw[j]
    BY <1>0, <1>9, <1>10, <2>1, <2>2
  <2>4. \A j \in 1 .. bytePos + 1 : j = bytePos + 1 \/ j \in 1 .. bytePos
    BY <1>0
  <2> QED BY <1>6, <1>9, <2>3, <2>4
<1>12. \/ /\ Continues(Byte) /\ pk' = [pk EXCEPT !.raw = raw] /\ bytePos' = bytePos + 1
          /\ IF bytePos' = 4 THEN Wrong(fn) ELSE Await(fn)
       \/ ~Continues(Byte) /\ LengthKnown(raw)
  BY <1>10, Zenon DEF RemainingLengthVariable
<1>13. CASE /\ Continues(Byte) /\ pk' = [pk EXCEPT !.raw = raw] /\ bytePos' = bytePos + 1
            /\ IF bytePos' = 4 THEN Wrong(fn) ELSE Await(fn)
  <2>1. bytePos + 1 # m
    BY <1>7, <1>9, <1>13
  <2>2. bytePos + 1 < m /\ bytePos' # 4
    BY <1>0, <1>6, <1>7, <1>13, <2>1
  <2>3. Await(fn)
    BY <1>13, <2>2
  <2>4. /\ pk'.header = pk.header /\ pk'.id = pk.id /\ Unstarted' /\ pk'.raw = raw
    <3>1. pk' = [pk EXCEPT !.raw = raw]
      BY <1>13
    <3>2. /\ pk'.header = pk.header /\ pk'.id = pk.id /\ pk'.raw = raw
          /\ pk'.index = pk.index /\ pk'.length = pk.length
      BY <1>0, <3>1 DEF PacketFields
    <3> QED BY <1>6, <3>2 DEF Unstarted
  <2>5. AmidLengthVariable(p, off + 1)'
    <3>1. fn' = "remainingLengthVariable" /\ off + 1 = 1 + bytePos' /\ bytePos' < m
      BY <1>0, <1>6, <1>13, <2>2, <2>3 DEF Await
    <3>2. \A j \in 1 .. bytePos' : pk'.raw[j] = e[j]
      BY <1>11, <1>13, <2>4
    <3> QED BY <1>4, <1>5, <1>6, <2>4, <3>1, <3>2, Zenon DEF AmidLengthVariable
  <2>6. Amid(p, off + 1)'
    BY <2>5 DEF Amid
  <2>7. fn # "payloadPublish"
    BY <1>0
  <2> QED BY <1>0, <1>1, <1>8, <2>3, <2>4, <2>6, <2>7, TakesOne
<1>14. CASE ~Continues(Byte) /\ LengthKnown(raw)
  <2>1. bytePos + 1 = m
    <3>1. bytePos + 1 \in 1 .. m - 1 => Continues(Byte)
      BY <1>7, <1>9
    <3> QED BY <1>0, <1>6, <1>7, <1>14, <3>1
  <2>2. decodeRemainingLength(raw) = Len(Body(p))
    BY <1>7, <1>11, <2>1
  <2>3. PICK b \in Nat : b = Len(Body(p))
    BY <1>3, BodyTyped
  <2>4. off + 1 = Start(p)
    BY <1>0, <1>6, <1>8, <2>1
  <2>5. CASE p.type = PUBLISH
    <3>1. pk' = [pk EXCEPT !.raw = raw, !.rem = b] /\ Await("varHeaderTopicLength1")
      BY <1>3, <1>14, <2>2, <2>3, <2>5 DEF LengthKnown
    <3>2. pk'.header = pk.header /\ pk'.id = 0 /\ Unstarted' /\ pk'.rem = b
      BY <1>0, <1>6, <3>1 DEF PacketFields, Unstarted
    <3>3. AmidTopicLength1(p, off + 1)'
      BY <2>3, <2>4, <2>5, <3>1, <3>2 DEF AmidTopicLength1, Await
    <3>4. Amid(p, off + 1)'
      BY <3>3 DEF Amid
    <3> QED BY <1>0, <1>1, <1>8, <3>1, <3>2, <3>4, TakesOne
  <2>6. CASE p.type = SUBACK
    <3>1. PICK c \in Nat : c = Len(p.codes) /\ b = 2 + c /\ c \in 1 .. PayloadBuffer - 1
      <4>1. Len(p.codes) \in 1 .. PayloadBuffer - 1
        BY <1>3, <2>6, KindOf, Zenon
      <4>2. b = 2 + Len(p.codes)
        BY <1>3, <2>3, <2>6, SubackBody
      <4>3. PayloadBuffer \in Nat
        BY SizeAssumption
      <4> QED BY <4>1, <4>2, <4>3
    <3>2. p.type # PUBLISH /\ b - 2 = c /\ 0 < c /\ c < PayloadBuffer
      <4>1. PayloadBuffer \in Nat
        BY SizeAssumption
      <4> QED BY <2>6, <3>1, <4>1, TypeNumbers
    <3>3. /\ pk' = [pk EXCEPT !.raw = raw, !.rem = b, !.index = 0, !.length = c, !.total = c]
          /\ Await("varHeaderPacketId1") /\ bytePos' = 0
      BY <1>3, <1>14, <2>2, <2>3, <3>2 DEF LengthKnown
    <3>4. pk'.header = pk.header /\ pk'.id = 0 /\ pk'.total = c
      BY <1>0, <1>6, <3>3 DEF PacketFields
    <3>5. BeforeId(p)' /\ IdAt(p) = Start(p)
      <4>1. IdAt(p) = Start(p)
        BY <1>8, <1>7, <3>2 DEF IdAt
      <4> QED BY <2>6, <3>1, <3>2, <3>3, <3>4, <4>1, Zenon DEF BeforeId
    <3>6. AmidId1(p, off + 1)'
      BY <2>4, <3>3, <3>4, <3>5 DEF AmidId1, Await
    <3>7. Amid(p, off + 1)'
      BY <3>6 DEF Amid
    <3> QED BY <1>0, <1>1, <1>8, <3>3, <3>4, <3>7, TakesOne
  <2> QED BY <1>6, <2>5, <2>6
<1> QED BY <1>12, <1>13, <1>14

LEMMA OrderVarHeaderConnack1 == IInv /\ InOrder /\ pos < Sense /\ VarHeaderConnack1 => InOrder'
<1> SUFFICES ASSUME IInv, InOrder, pos < Sense, VarHeaderConnack1 PROVE InOrder'
  OBVIOUS
<1>0. /\ Sound /\ ~error /\ fn = "varHeaderConnack1" /\ pos < avail /\ UNCHANGED buffer
      /\ pk \in PacketFields
  BY DEF InOrder, VarHeaderConnack1, At, IInv, TypeInv
<1>1. PICK n, p, off : Place(n, p, off)
  BY <1>0, Placed
<1>2. off = 2 /\ p.type = CONNACK
  <2>1. AmidConnack1(p, off)
    BY <1>0, <1>1, Zenon DEF Place, Amid, AmidLengthFixed, AmidLengthNone, AmidLengthVariable,
       AmidConnack1, AmidConnack2, AmidId1, AmidId2, AmidTopicLength1, AmidTopicLength2,
       AmidTopic, AmidCodes, AmidPayload
  <2> QED BY <2>1 DEF AmidConnack1
<1>3. p \in Packets
  BY <1>1, HeaderKnown
<1>4. Len(Body(p)) = 2 /\ Body(p)[1] = p.session /\ p.session \in 0 .. 1
  BY <1>2, <1>3, ConnackBody
<1>5. Start(p) = 2
  <2>1. Len(Body(p)) < Radix
    BY <1>4, RadixAssumption
  <2> QED BY <1>3, <1>4, <2>1, ShortLength
<1>6. Byte = p.session /\ off \in Nat
  <2>1. Size(p) = 4
    BY <1>4, <1>5 DEF Size
  <2>2. off \in Nat /\ off < Size(p) /\ off + 1 = Start(p) + 1 /\ 1 \in 1 .. Len(Body(p))
    BY <1>2, <1>4, <1>5, <2>1
  <2>3. Byte = Bytes(p)[off + 1]
    BY <1>0, <1>1, <2>2, ByteIs
  <2> QED BY <1>3, <1>4, <2>2, <2>3, PacketBytes
<1>7. pk' = [pk EXCEPT !.session = Byte] /\ Await("varHeaderConnack2")
  <2>1. Byte < 2
    BY <1>4, <1>6
  <2> QED BY <2>1 DEF VarHeaderConnack1
<1>8. pk'.header = pk.header /\ pk'.session = p.session
  BY <1>0, <1>6, <1>7 DEF PacketFields
<1>9. Amid(p, off + 1)'
  BY <1>2, <1>7, <1>8 DEF Amid, AmidConnack2, Await
<1> QED BY <1>0, <1>1, <1>6, <1>7, <1>8, <1>9, TakesOne

LEMMA OrderVarHeaderConnack2 == IInv /\ InOrder /\ pos < Sense /\ VarHeaderConnack2 => InOrder'
<1> SUFFICES ASSUME IInv, InOrder, pos < Sense, VarHeaderConnack2 PROVE InOrder'
  OBVIOUS
<1>0. /\ Sound /\ ~error /\ fn = "varHeaderConnack2" /\ pos < avail /\ UNCHANGED buffer
      /\ pk \in PacketFields
  BY DEF InOrder, VarHeaderConnack2, At, IInv, TypeInv
<1>1. PICK n, p, off : Place(n, p, off)
  BY <1>0, Placed
<1>2. off = 3 /\ p.type = CONNACK /\ pk.session = p.session
  <2>1. AmidConnack2(p, off)
    BY <1>0, <1>1, Zenon DEF Place, Amid, AmidLengthFixed, AmidLengthNone, AmidLengthVariable,
       AmidConnack1, AmidConnack2, AmidId1, AmidId2, AmidTopicLength1, AmidTopicLength2,
       AmidTopic, AmidCodes, AmidPayload
  <2> QED BY <2>1 DEF AmidConnack2
<1>3. p \in Packets
  BY <1>1, HeaderKnown
<1>4. Len(Body(p)) = 2 /\ Body(p)[2] = p.code /\ p.code \in 0 .. 5
  BY <1>2, <1>3, ConnackBody
<1>5. Start(p) = 2
  <2>1. Len(Body(p)) < Radix
    BY <1>4, RadixAssumption
  <2> QED BY <1>3, <1>4, <2>1, ShortLength
<1>6. Byte = p.code /\ off \in Nat /\ off + 1 = Size(p)
  <2>1. Size(p) = 4
    BY <1>4, <1>5 DEF Size
  <2>2. off \in Nat /\ off < Size(p) /\ off + 1 = Start(p) + 2 /\ 2 \in 1 .. Len(Body(p))
    BY <1>2, <1>4, <1>5, <2>1
  <2>3. Byte = Bytes(p)[off + 1]
    BY <1>0, <1>1, <2>2, ByteIs
  <2>4. off + 1 = Size(p)
    BY <1>2, <2>1
  <2> QED BY <1>3, <1>4, <2>2, <2>3, <2>4, PacketBytes
<1>7. Complete(p)
  <2>1. Byte <= 5
    BY <1>4, <1>6
  <2>2. p = Connack(pk.session, Byte)
    BY <1>2, <1>3, <1>6, KindOf, Zenon DEF IsConnack
  <2> QED BY <2>1, <2>2 DEF VarHeaderConnack2
<1> QED BY <1>0, <1>1, <1>6, <1>7, TakesLast

\* The bytes of a packet id.
LEMMA IdBytes ==
  ASSUME NEW p \in Packets, p.type \in Acks \cup {SUBACK, PUBLISH},
         p.type = PUBLISH => HasId(p.flags)
  PROVE  /\ p.id \in Nat /\ p.id # 0 /\ IdAt(p) \in Nat /\ IdAt(p) + 2 <= Size(p)
         /\ Bytes(p)[IdAt(p) + 1] = p.id \div 256 /\ Bytes(p)[IdAt(p) + 2] = p.id % 256
         /\ p.type \in Acks => Size(p) = IdAt(p) + 2
         /\ p.type # PUBLISH => IdAt(p) = Start(p)
         /\ p.type = PUBLISH => Size(p) = IdAt(p) + 2 + Len(p.payload)
<1>1. PICK k : k = IF p.type = PUBLISH THEN 2 + Len(p.topic) ELSE 0
  OBVIOUS
<1>2. p.id \in Nat /\ p.id # 0
  <2>1. CASE p.type = PUBLISH
    <3>1. p.id \in PacketIds \cup {0} /\ p.id # 0
      BY <2>1, KindOf, Zenon DEF IsPublish
    <3> QED BY <3>1, IdsAreNumbers, Zenon
  <2>2. CASE p.type \in Acks
    BY <2>2, AckBody, Zenon
  <2>3. CASE p.type = SUBACK
    BY <2>3, SubackBody, Zenon
  <2> QED BY <2>1, <2>2, <2>3, Zenon
<1>3. /\ k \in Nat /\ k + 2 <= Len(Body(p)) /\ Len(Body(p)) \in Nat
      /\ Body(p)[k + 1] = p.id \div 256 /\ Body(p)[k + 2] = p.id % 256
      /\ p.type \in Acks => Len(Body(p)) = k + 2
      /\ p.type = PUBLISH => Len(Body(p)) = k + 2 + Len(p.payload)
  <2>1. CASE p.type = PUBLISH
    <3>1. p.topic \in Seq(Octet) /\ p.payload \in Seq(Octet)
      BY <2>1, KindOf, Zenon DEF IsPublish
    <3>2. Len(p.topic) \in Nat /\ Len(p.payload) \in Nat /\ p.type \notin Acks
      BY <2>1, <3>1, TypeNumbers
    <3>3. IdLength(p) = 2
      BY <2>1 DEF IdLength
    <3>4. PICK t, l \in Nat : t = Len(p.topic) /\ l = Len(p.payload)
      BY <3>2
    <3>5. LaidOut(p)
      BY <2>1, PublishBody, Zenon
    <3>10. Len(Body(p)) = 2 + t + 2 + l
      BY <3>3, <3>4, <3>5, Zenon DEF LaidOut
    <3>6. k = 2 + t
      BY <1>1, <2>1, <3>4
    <3>7. Body(p)[2 + t + 1] = p.id \div 256 /\ Body(p)[2 + t + 2] = p.id % 256
      BY <2>1, <3>4, <3>5, Zenon DEF LaidOut
    <3>8. /\ k \in Nat /\ k + 2 <= Len(Body(p)) /\ Len(Body(p)) \in Nat
          /\ Len(Body(p)) = k + 2 + l
      <4>1. PICK b : b = Len(Body(p))
        OBVIOUS
      <4>2. b = 2 + t + 2 + l
        BY <3>10, <4>1
      <4>3. k \in Nat /\ b \in Nat /\ b = k + 2 + l /\ k + 2 <= b
        BY <3>6, <4>2
      <4> QED BY <4>1, <4>3
    <3>9. k + 1 = 2 + t + 1 /\ k + 2 = 2 + t + 2
      BY <3>4, <3>6
    <3> QED BY <3>2, <3>4, <3>7, <3>8, <3>9, Zenon
  <2>2. CASE p.type = SUBACK
    <3>1. p.type # PUBLISH /\ p.type \notin Acks
      BY <2>2, TypeNumbers
    <3>2. k = 0
      BY <1>1, <3>1
    <3>3. Len(p.codes) \in Nat
      BY <2>2, SubackBody
    <3>4. Len(Body(p)) = 2 + Len(p.codes)
      BY <2>2, SubackBody
    <3>5. Body(p)[1] = p.id \div 256 /\ Body(p)[2] = p.id % 256
      BY <2>2, SubackBody
    <3> QED BY <3>1, <3>2, <3>3, <3>4, <3>5
  <2>3. CASE p.type \in Acks
    <3>1. p.type # PUBLISH
      BY <2>3, TypeNumbers
    <3>2. k = 0
      BY <1>1, <3>1
    <3>3. Len(Body(p)) = 2
      BY <2>3, AckBody
    <3>4. Body(p)[1] = p.id \div 256 /\ Body(p)[2] = p.id % 256
      BY <2>3, AckBody
    <3> QED BY <3>1, <3>2, <3>3, <3>4
  <2> QED BY <2>1, <2>2, <2>3
<1>4. Start(p) \in Nat
  BY PacketBytes
<1>5. IdAt(p) = Start(p) + k
  BY <1>1 DEF IdAt
<1>6. Size(p) = Start(p) + Len(Body(p))
  BY DEF Size
<1>7. /\ Bytes(p)[Start(p) + (k + 1)] = Body(p)[k + 1]
      /\ Bytes(p)[Start(p) + (k + 2)] = Body(p)[k + 2]
  <2>1. k + 1 \in 1 .. Len(Body(p)) /\ k + 2 \in 1 .. Len(Body(p))
    BY <1>3
  <2> QED BY <2>1, PacketBytes
<1>8. Start(p) + (k + 1) = IdAt(p) + 1 /\ Start(p) + (k + 2) = IdAt(p) + 2 /\ IdAt(p) \in Nat
  BY <1>3, <1>4, <1>5
<1>9. IdAt(p) + 2 <= Size(p)
  BY <1>3, <1>4, <1>5, <1>6
<1>10. p.type \in Acks => Size(p) = IdAt(p) + 2
  BY <1>3, <1>4, <1>5, <1>6
<1>11. p.type # PUBLISH => IdAt(p) = Start(p)
  BY <1>1, <1>4, <1>5
<1>12. p.type = PUBLISH => Size(p) = IdAt(p) + 2 + Len(p.payload)
  <2>1. ASSUME p.type = PUBLISH PROVE Size(p) = IdAt(p) + 2 + Len(p.payload)
    <3>1. Len(p.payload) \in Nat
      <4>1. p.payload \in Seq(Octet)
        BY <2>1, KindOf, Zenon DEF IsPublish
      <4> QED BY <4>1
    <3>2. PICK l \in Nat : l = Len(p.payload)
      BY <3>1
    <3>3. PICK b \in Nat : b = Len(Body(p)) /\ b = k + 2 + l
      BY <1>3, <2>1, <3>2
    <3>4. Start(p) + b = Start(p) + k + 2 + l
      BY <1>3, <1>4, <3>3
    <3> QED BY <1>5, <1>6, <3>2, <3>3, <3>4
  <2> QED BY <2>1
<1> QED BY <1>2, <1>3, <1>7, <1>8, <1>9, <1>10, <1>11, <1>12, Zenon

\* Two bytes give back the number.
LEMMA WordValue ==
  ASSUME NEW n \in Nat, NEW h, NEW l, h = 256 * (n \div 256), l = n % 256
  PROVE  h + l = n
BY WordBytes

LEMMA OrderVarHeaderPacketId1 == IInv /\ InOrder /\ pos < Sense /\ VarHeaderPacketId1 => InOrder'
<1> SUFFICES ASSUME IInv, InOrder, pos < Sense, VarHeaderPacketId1 PROVE InOrder'
  OBVIOUS
<1>0. /\ Sound /\ ~error /\ fn = "varHeaderPacketId1" /\ pos < avail /\ UNCHANGED <<bytePos, buffer>>
      /\ pk' = [pk EXCEPT !.id = @ + 256 * Byte] /\ Await("varHeaderPacketId2")
      /\ pk \in PacketFields
  BY DEF InOrder, VarHeaderPacketId1, At, IInv, TypeInv
<1>1. PICK n, p, off : Place(n, p, off)
  BY <1>0, Placed
<1>2. off = IdAt(p) /\ BeforeId(p) /\ pk.id = 0
  <2>1. AmidId1(p, off)
    BY <1>0, <1>1, Zenon DEF Place, Amid, AmidLengthFixed, AmidLengthNone, AmidLengthVariable,
       AmidConnack1, AmidConnack2, AmidId1, AmidId2, AmidTopicLength1, AmidTopicLength2,
       AmidTopic, AmidCodes, AmidPayload
  <2> QED BY <2>1 DEF AmidId1
<1>3. p \in Packets
  BY <1>1, HeaderKnown
<1>4. p.type \in Acks \cup {SUBACK, PUBLISH} /\ (p.type = PUBLISH => HasId(p.flags))
  BY <1>2, Zenon DEF BeforeId
<1>5. off \in Nat /\ off < Size(p) /\ p.id \in Nat
  <2>1. IdAt(p) \in Nat /\ IdAt(p) + 2 <= Size(p) /\ p.id \in Nat /\ Size(p) \in Nat
    BY <1>3, <1>4, IdBytes, PacketBytes
  <2> QED BY <1>2, <2>1
<1>6. Byte = p.id \div 256
  <2>1. Byte = Bytes(p)[off + 1]
    BY <1>0, <1>1, <1>5, ByteIs
  <2> QED BY <1>2, <1>3, <1>4, <2>1, IdBytes
<1>7. PICK i : i = 256 * (p.id \div 256)
  OBVIOUS
<1>8. pk' = [pk EXCEPT !.id = i]
  <2>1. pk.id + 256 * Byte = i
    BY <1>2, <1>5, <1>6, <1>7
  <2> QED BY <1>0, <2>1
<1>9. /\ pk'.header = pk.header /\ pk'.id = i /\ pk'.total = pk.total
      /\ pk'.index = pk.index /\ pk'.length = pk.length /\ pk'.topic = pk.topic
  BY <1>0, <1>8 DEF PacketFields
<1>10. bytePos' = bytePos
  BY <1>0
<1>11. BeforeId(p)'
  BY <1>2, <1>9, <1>10, Zenon DEF BeforeId, Unstarted
<1>12. Amid(p, off + 1)'
  BY <1>0, <1>2, <1>7, <1>9, <1>11 DEF Amid, AmidId2, Await
<1> QED BY <1>0, <1>1, <1>5, <1>9, <1>12, TakesOne

\* A length that a packet can have is a number of the program.
LEMMA LengthsFit ==
  ASSUME SizeWidth >= Radix4, NEW k \in Nat, k < Radix4
  PROVE  SizeT(k) = k
<1>1. Radix4 \in Nat /\ SizeWidth \in Nat \ {0}
  BY RadixAssumption, SizeAssumption DEF Radix2, Radix3, Radix4
<1>2. k \in 0 .. SizeWidth - 1
  BY <1>1
<1>3. \A w \in Nat \ {0} : \A j \in 0 .. w - 1 : j % w = j
  OBVIOUS
<1> QED BY <1>1, <1>2, <1>3 DEF SizeT

LEMMA PayloadLength ==
  ASSUME NEW p \in Packets, p.type = PUBLISH
  PROVE  /\ p.topic \in Seq(Octet) /\ p.payload \in Seq(Octet)
         /\ Len(p.payload) \in Nat /\ Len(p.topic) \in Nat /\ Len(p.topic) > 0
         /\ Len(p.topic) <= MaxTopic /\ IdLength(p) \in {0, 2}
         /\ Len(Body(p)) = 2 + Len(p.topic) + IdLength(p) + Len(p.payload)
         /\ 2 + Len(p.topic) + IdLength(p) + Len(p.payload) < Radix4
<1>1. p.topic \in Seq(Octet) /\ p.payload \in Seq(Octet) /\ Len(p.topic) \in 1 .. MaxTopic
  BY KindOf, Zenon DEF IsPublish
<1>2. IdLength(p) \in {0, 2}
  BY DEF IdLength
<1>3. Len(Body(p)) = 2 + Len(p.topic) + IdLength(p) + Len(p.payload)
  BY PublishBody, Zenon DEF LaidOut
<1>4. Len(Body(p)) < Radix4
  BY KindOf
<1>5. Len(p.payload) \in Nat /\ Len(p.topic) \in Nat
  BY <1>1
<1>6. Len(p.topic) > 0 /\ Len(p.topic) <= MaxTopic
  <2>1. MaxTopic \in Nat
    BY SizeAssumption
  <2> QED BY <1>1, <2>1
<1> QED BY <1>1, <1>2, <1>3, <1>4, <1>5, <1>6

\* A message without payload is given out with the fields that were parsed.
LEMMA EmptyMessage ==
  ASSUME NEW p \in Packets, p.type = PUBLISH, Len(p.payload) = 0
  PROVE  p = Publish(p.flags, p.topic, p.id, <<>>, 0)
<1>1. p = Publish(p.flags, p.topic, p.id, p.payload, p.total) /\ p.total = Len(p.payload)
  BY KindOf, Zenon DEF IsPublish
<1>2. p.payload = <<>>
  <2>1. p.payload \in Seq(Octet)
    BY PayloadLength
  <2> QED BY <2>1
<1> QED BY <1>1, <1>2

LEMMA OrderVarHeaderPacketId2 ==
  SizeWidth >= Radix4 /\ IInv /\ InOrder /\ pos < Sense /\ VarHeaderPacketId2 => InOrder'
<1> SUFFICES ASSUME SizeWidth >= Radix4, IInv, InOrder, pos < Sense, VarHeaderPacketId2
             PROVE  InOrder'
  OBVIOUS
<1>0. /\ Sound /\ ~error /\ fn = "varHeaderPacketId2" /\ pos < avail /\ UNCHANGED <<bytePos, buffer>>
      /\ pk \in PacketFields
  BY DEF InOrder, VarHeaderPacketId2, At, IInv, TypeInv
<1>1. PICK n, p, off : Place(n, p, off)
  BY <1>0, Placed
<1>2. off = IdAt(p) + 1 /\ BeforeId(p) /\ pk.id = 256 * (p.id \div 256)
  <2>1. AmidId2(p, off)
    BY <1>0, <1>1, Zenon DEF Place, Amid, AmidLengthFixed, AmidLengthNone, AmidLengthVariable,
       AmidConnack1, AmidConnack2, AmidId1, AmidId2, AmidTopicLength1, AmidTopicLength2,
       AmidTopic, AmidCodes, AmidPayload
  <2> QED BY <2>1 DEF AmidId2
<1>3. p \in Packets /\ Type(pk) = p.type /\ (p.type = PUBLISH => Flags(pk) = p.flags)
  BY <1>1, HeaderKnown
<1>4. p.type \in Acks \cup {SUBACK, PUBLISH} /\ (p.type = PUBLISH => HasId(p.flags))
  BY <1>2, Zenon DEF BeforeId
<1>5. off \in Nat /\ off < Size(p) /\ p.id \in Nat /\ p.id # 0 /\ IdAt(p) \in Nat
      /\ off + 1 = IdAt(p) + 2
  <2>1. IdAt(p) \in Nat /\ IdAt(p) + 2 <= Size(p) /\ p.id \in Nat /\ Size(p) \in Nat /\ p.id # 0
    BY <1>3, <1>4, IdBytes, PacketBytes
  <2> QED BY <1>2, <2>1
<1>6. Byte = p.id % 256
  <2>1. Byte = Bytes(p)[off + 1]
    BY <1>0, <1>1, <1>5, ByteIs
  <2>2. Bytes(p)[IdAt(p) + 2] = p.id % 256
    BY <1>3, <1>4, IdBytes
  <2> QED BY <1>5, <2>1, <2>2
<1>7. pk.id + Byte = p.id
  BY <1>2, <1>5, <1>6, WordValue
<1>8. PICK total : total = IF Type(pk) = PUBLISH /\ pk.id + Byte # 0 THEN SizeT(pk.total - 2)
                           ELSE pk.total
  OBVIOUS
<1>9. /\ pk' = [pk EXCEPT !.id = p.id, !.total = total]
      /\ CASE p.id = 0 -> Wrong("fixedHeader")
           [] p.id # 0 /\ p.type = SUBACK -> Await("payloadSuback")
           [] p.id # 0 /\ p.type = PUBLISH ->
                IF total = 0
                THEN Complete(Publish(Flags(pk), pk.topic, p.id, <<>>, 0))
                ELSE Await("payloadPublish")
           [] p.id # 0 /\ p.type \in Acks -> Complete(Ack(p.type, p.id))
  BY <1>3, <1>7, <1>8, Zenon DEF VarHeaderPacketId2
<1>10. /\ pk'.header = pk.header /\ pk'.id = p.id /\ pk'.total = total
       /\ pk'.index = pk.index /\ pk'.length = pk.length /\ pk'.topic = pk.topic
  <2>1. pk' = [pk EXCEPT !.id = p.id, !.total = total]
    BY <1>9
  <2> QED BY <1>0, <2>1 DEF PacketFields
<1>11. CASE p.type \in Acks
  <2>1. p.type # SUBACK /\ p.type # PUBLISH
    BY <1>11, TypeNumbers
  <2>2. Complete(Ack(p.type, p.id))
    BY <1>5, <1>9, <1>11, <2>1
  <2>3. p = Ack(p.type, p.id)
    BY <1>3, <1>11, KindOf, Zenon DEF IsAck
  <2>4. Complete(p)
    BY <2>2, <2>3, Zenon
  <2>5. off + 1 = Size(p)
    BY <1>3, <1>4, <1>5, <1>11, IdBytes
  <2> QED BY <1>0, <1>1, <1>5, <2>4, <2>5, TakesLast
<1>12. CASE p.type = SUBACK
  <2>1. p.type # PUBLISH /\ p.type \notin Acks
    BY <1>12, TypeNumbers
  <2>2. Await("payloadSuback") /\ total = pk.total
    BY <1>3, <1>5, <1>8, <1>9, <1>12, <2>1
  <2>3. bytePos' = 0 /\ pk.total = Len(p.codes)
    BY <1>0, <1>2, <1>12 DEF BeforeId
  <2>4. 0 < Len(p.codes)
    <3>1. Len(p.codes) \in 1 .. PayloadBuffer - 1 /\ PayloadBuffer \in Nat
      BY <1>3, <1>12, KindOf, SizeAssumption
    <3> QED BY <3>1
  <2>5. off + 1 = Start(p) + 2 + bytePos'
    <3>1. IdAt(p) = Start(p)
      BY <1>3, <1>4, <2>1, IdBytes
    <3> QED BY <1>5, <2>3, <3>1
  <2>6. \A j \in 1 .. bytePos' : pk'.codes[j] = p.codes[j]
    BY <2>3
  <2>7. AmidCodes(p, off + 1)'
    BY <1>10, <1>12, <2>2, <2>3, <2>4, <2>5, <2>6 DEF AmidCodes, Await
  <2>8. Amid(p, off + 1)'
    BY <2>7 DEF Amid
  <2> QED BY <1>0, <1>1, <1>5, <1>10, <2>2, <2>8, TakesOne
<1>13. CASE p.type = PUBLISH
  <2>1. p.type # SUBACK /\ p.type \notin Acks /\ HasId(p.flags) /\ Unstarted
        /\ pk.topic = p.topic /\ pk.total = Len(p.payload) + 2
    BY <1>2, <1>13, TypeNumbers DEF BeforeId
  <2>2. PICK l \in Nat : l = Len(p.payload) /\ l < Radix4
    <3>1. /\ Len(p.payload) \in Nat /\ Len(p.topic) \in Nat /\ IdLength(p) \in {0, 2}
          /\ 2 + Len(p.topic) + IdLength(p) + Len(p.payload) < Radix4
      BY <1>3, <1>13, PayloadLength
    <3>2. Radix4 \in Nat
      BY RadixAssumption DEF Radix2, Radix3, Radix4
    <3> QED BY <3>1, <3>2
  <2>3. total = l
    <3>1. pk.total - 2 = l
      BY <2>1, <2>2
    <3>2. SizeT(l) = l
      BY <2>2, LengthsFit
    <3> QED BY <1>3, <1>5, <1>7, <1>8, <1>13, <3>1, <3>2
  <2>4. IF l = 0 THEN Complete(Publish(p.flags, p.topic, p.id, <<>>, 0))
                 ELSE Await("payloadPublish")
    BY <1>3, <1>5, <1>9, <1>13, <2>1, <2>3
  <2>5. Size(p) = IdAt(p) + 2 + l /\ IdLength(p) = 2
    BY <1>3, <1>4, <1>13, <2>1, <2>2, IdBytes DEF IdLength
  <2>6. CASE l = 0
    <3>1. Complete(p)
      BY <1>3, <1>13, <2>2, <2>4, <2>6, EmptyMessage
    <3>2. off + 1 = Size(p)
      BY <1>5, <2>2, <2>5, <2>6
    <3> QED BY <1>0, <1>1, <1>5, <3>1, <3>2, TakesLast
  <2>7. CASE l # 0
    <3>1. Await("payloadPublish")
      BY <2>4, <2>7
    <3>2. pk'.index = 0 /\ pk'.length = 0
      BY <1>10, <2>1 DEF Unstarted
    <3>3. off + 1 = PayloadAt(p) + pk'.index + pk'.length
      BY <1>5, <2>5, <3>2 DEF PayloadAt
    <3>4. pk'.index + pk'.length < Len(p.payload)
      BY <2>2, <2>7, <3>2
    <3>5. AmidPayload(p, off + 1)'
      BY <1>10, <1>13, <2>1, <2>2, <2>3, <3>1, <3>3, <3>4 DEF AmidPayload, Await
    <3>6. Amid(p, off + 1)'
      BY <3>5 DEF Amid
    <3>7. ~(pk'.index + pk'.length > 0)
      BY <3>2
    <3> QED BY <1>0, <1>1, <1>5, <1>10, <3>1, <3>6, <3>7, TakesOne
  <2> QED BY <2>6, <2>7
<1> QED BY <1>4, <1>11, <1>12, <1>13

LEMMA OrderVarHeaderTopicLength1 == IInv /\ InOrder /\ pos < Sense /\ VarHeaderTopicLength1 => InOrder'
<1> SUFFICES ASSUME IInv, InOrder, pos < Sense, VarHeaderTopicLength1 PROVE InOrder'
  OBVIOUS
<1>0. /\ Sound /\ ~error /\ fn = "varHeaderTopicLength1" /\ pos < avail /\ UNCHANGED <<bytePos, buffer>>
      /\ pk' = [pk EXCEPT !.topicLength = 256 * Byte] /\ Await("varHeaderTopicLength2")
      /\ pk \in PacketFields
  BY DEF InOrder, VarHeaderTopicLength1, At, IInv, TypeInv
<1>1. PICK n, p, off : Place(n, p, off)
  BY <1>0, Placed
<1>2. off = Start(p) /\ p.type = PUBLISH /\ pk.id = 0 /\ Unstarted /\ pk.rem = Len(Body(p))
  <2>1. AmidTopicLength1(p, off)
    BY <1>0, <1>1, Zenon DEF Place, Amid, AmidLengthFixed, AmidLengthNone, AmidLengthVariable,
       AmidConnack1, AmidConnack2, AmidId1, AmidId2, AmidTopicLength1, AmidTopicLength2,
       AmidTopic, AmidCodes, AmidPayload
  <2> QED BY <2>1 DEF AmidTopicLength1
<1>3. p \in Packets
  BY <1>1, HeaderKnown
<1>4. off \in Nat /\ off < Size(p) /\ 1 \in 1 .. Len(Body(p))
  <2>1. Len(Body(p)) \in Nat /\ Len(Body(p)) >= 2
    BY <1>2, <1>3, PayloadLength
  <2>2. Start(p) \in 2 .. 5 /\ Size(p) = Start(p) + Len(Body(p))
    BY <1>3, PacketBytes DEF Size
  <2> QED BY <1>2, <2>1, <2>2
<1>5. Byte = Len(p.topic) \div 256
  <2>1. Byte = Bytes(p)[off + 1]
    BY <1>0, <1>1, <1>4, ByteIs
  <2>2. Bytes(p)[Start(p) + 1] = Body(p)[1]
    BY <1>3, <1>4, PacketBytes
  <2>3. Body(p)[1] = Len(p.topic) \div 256
    <3>1. LaidOut(p)
      BY <1>2, <1>3, PublishBody
    <3> QED BY <3>1, Zenon DEF LaidOut
  <2> QED BY <1>2, <2>1, <2>2, <2>3
<1>6. PICK l : l = 256 * Byte
  OBVIOUS
<1>7. /\ pk'.header = pk.header /\ pk'.id = pk.id /\ pk'.topicLength = l
      /\ pk'.index = pk.index /\ pk'.length = pk.length /\ pk'.rem = pk.rem
  <2>1. pk' = [pk EXCEPT !.topicLength = l]
    BY <1>0, <1>6
  <2> QED BY <1>0, <2>1 DEF PacketFields
<1>8. AmidTopicLength2(p, off + 1)'
  BY <1>0, <1>2, <1>5, <1>6, <1>7 DEF AmidTopicLength2, Unstarted, Await
<1>9. Amid(p, off + 1)'
  BY <1>8 DEF Amid
<1> QED BY <1>0, <1>1, <1>4, <1>7, <1>9, TakesOne

LEMMA OrderVarHeaderTopicLength2 ==
  SizeWidth >= Radix4 /\ IInv /\ InOrder /\ pos < Sense /\ VarHeaderTopicLength2 => InOrder'
<1> SUFFICES ASSUME SizeWidth >= Radix4, IInv, InOrder, pos < Sense, VarHeaderTopicLength2
             PROVE  InOrder'
  OBVIOUS
<1>0. /\ Sound /\ ~error /\ fn = "varHeaderTopicLength2" /\ pos < avail /\ UNCHANGED buffer
      /\ pk \in PacketFields
  BY DEF InOrder, VarHeaderTopicLength2, At, IInv, TypeInv
<1>1. PICK n, p, off : Place(n, p, off)
  BY <1>0, Placed
<1>2. /\ off = Start(p) + 1 /\ p.type = PUBLISH /\ pk.id = 0 /\ Unstarted
      /\ pk.rem = Len(Body(p)) /\ pk.topicLength = 256 * (Len(p.topic) \div 256)
  <2>1. AmidTopicLength2(p, off)
    BY <1>0, <1>1, Zenon DEF Place, Amid, AmidLengthFixed, AmidLengthNone, AmidLengthVariable,
       AmidConnack1, AmidConnack2, AmidId1, AmidId2, AmidTopicLength1, AmidTopicLength2,
       AmidTopic, AmidCodes, AmidPayload
  <2> QED BY <2>1 DEF AmidTopicLength2
<1>3. p \in Packets /\ Flags(pk) = p.flags
  BY <1>1, <1>2, HeaderKnown
<1>4. PICK t, l, d \in Nat : /\ t = Len(p.topic) /\ l = Len(p.payload) /\ d = IdLength(p)
                             /\ Len(Body(p)) = 2 + t + d + l /\ 2 + t + d + l < Radix4
                             /\ t > 0
  <2>1. IdLength(p) \in Nat
    BY DEF IdLength
  <2> QED BY <1>2, <1>3, <2>1, PayloadLength
<1>5. off \in Nat /\ off < Size(p) /\ 2 \in 1 .. Len(Body(p)) /\ off + 1 = Start(p) + 2
  <2>1. Start(p) \in 2 .. 5 /\ Size(p) = Start(p) + Len(Body(p))
    BY <1>3, PacketBytes DEF Size
  <2>2. 2 + t + d + l \in Nat /\ 2 <= 2 + t + d + l
    BY <1>4
  <2>3. PICK b \in Nat : b = Len(Body(p)) /\ 2 <= b
    BY <1>4, <2>2
  <2> QED BY <1>2, <2>1, <2>3
<1>6. Byte = t % 256
  <2>1. Byte = Bytes(p)[off + 1]
    BY <1>0, <1>1, <1>5, ByteIs
  <2>2. Bytes(p)[Start(p) + 2] = Body(p)[2]
    BY <1>3, <1>5, PacketBytes
  <2>3. Body(p)[2] = Len(p.topic) % 256
    <3>1. LaidOut(p)
      BY <1>2, <1>3, PublishBody
    <3> QED BY <3>1, Zenon DEF LaidOut
  <2> QED BY <1>4, <1>5, <2>1, <2>2, <2>3
<1>7. pk.topicLength + Byte = t
  <2>1. pk.topicLength = 256 * (t \div 256)
    BY <1>2, <1>4
  <2> QED BY <1>6, <2>1, WordValue
<1>8. MaxTopicLength = t + l /\ SizeT(pk.rem - 2 - t) = d + l
  <2>1. Radix4 \in Nat
    BY RadixAssumption DEF Radix2, Radix3, Radix4
  <2>2. pk.rem - 2 - d = t + l /\ pk.rem - 2 - t = d + l
    <3>1. PICK r : r = pk.rem
      OBVIOUS
    <3>2. r = 2 + t + d + l
      BY <1>2, <1>4, <3>1
    <3>3. r - 2 - d = t + l /\ r - 2 - t = d + l
      BY <3>2
    <3> QED BY <3>1, <3>3
  <2>3. t + l \in Nat /\ t + l < Radix4 /\ d + l \in Nat /\ d + l < Radix4
    <3>1. 2 + t + d + l < Radix4
      BY <1>4
    <3> QED BY <2>1, <3>1
  <2>4. SizeT(t + l) = t + l /\ SizeT(d + l) = d + l
    BY <2>3, LengthsFit
  <2>5. MaxTopicLength = SizeT(pk.rem - 2 - d)
    BY <1>3, <1>4, Zenon DEF MaxTopicLength, IdLength
  <2> QED BY <2>2, <2>4, <2>5
<1>9. /\ pk' = [pk EXCEPT !.topicLength = t, !.total = d + l]
      /\ Await("varHeaderTopic") /\ bytePos' = 0
  <2>1. t <= MaxTopicLength
    <3>1. t <= t + l
      OBVIOUS
    <3> QED BY <1>8, <3>1
  <2> QED BY <1>7, <1>8, <2>1, Zenon DEF VarHeaderTopicLength2
<1>10. PICK s : s = d + l
  OBVIOUS
<1>11. /\ pk'.header = pk.header /\ pk'.id = pk.id /\ pk'.topicLength = t /\ pk'.total = s
       /\ pk'.index = pk.index /\ pk'.length = pk.length
  <2>1. pk' = [pk EXCEPT !.topicLength = t, !.total = s]
    BY <1>9, <1>10
  <2> QED BY <1>0, <2>1 DEF PacketFields
<1>12. AmidTopic(p, off + 1)'
  <2>1. off + 1 = Start(p) + 2 + bytePos'
    BY <1>5, <1>9
  <2>2. \A j \in 1 .. bytePos' : pk'.topic[j] = p.topic[j]
    BY <1>9
  <2>3. fn' = "varHeaderTopic" /\ bytePos' < t
    BY <1>4, <1>9 DEF Await
  <2>4. pk'.total = IdLength(p) + Len(p.payload) /\ pk'.topicLength = Len(p.topic)
    BY <1>4, <1>10, <1>11
  <2>5. Unstarted' /\ pk'.id = 0
    BY <1>2, <1>11 DEF Unstarted
  <2> QED BY <1>2, <1>4, <2>1, <2>2, <2>3, <2>4, <2>5 DEF AmidTopic
<1>13. Amid(p, off + 1)'
  BY <1>12 DEF Amid
<1>14. "varHeaderTopic" # "payloadPublish"
  OBVIOUS
<1>15. pk'.header = pk.header /\ Await("varHeaderTopic") /\ fn # "payloadPublish"
  BY <1>0, <1>9, <1>11
<1> QED BY <1>0, <1>1, <1>5, <1>13, <1>14, <1>15, TakesOne

\* The sequence u is the first k elements of s and the byte b.
Taken(S, u, s, k, b) ==
  /\ u \in Seq(S) /\ Len(u) = k + 1 /\ u[k + 1] = b
  /\ \A j \in 1 .. k : u[j] = s[j]

\* A byte is put behind the first k.
LEMMA OneTaken ==
  ASSUME NEW S, NEW s \in Seq(S), NEW k \in Nat, k <= Len(s), NEW b \in S,
         NEW u, u = SubSeq(s, 1, k) \o <<b>>
  PROVE  Taken(S, u, s, k, b)
<1>1. PICK v : v = SubSeq(s, 1, k)
  OBVIOUS
<1>2. v \in Seq(S) /\ Len(v) = k /\ \A j \in 1 .. k : v[j] = s[j]
  BY <1>1
<1>3. PICK w : w = <<b>>
  OBVIOUS
<1>4. w \in Seq(S) /\ Len(w) = 1 /\ w[1] = b
  BY <1>3
<1>5. u = v \o w
  BY <1>1, <1>3
<1>6. Pair(S, u, v, w)
  BY <1>2, <1>4, <1>5, TwoParts
<1>7. 1 \in 1 .. Len(w)
  BY <1>4
<1> QED BY <1>2, <1>4, <1>6, <1>7 DEF Pair, Taken

LEMMA OrderVarHeaderTopic == IInv /\ InOrder /\ pos < Sense /\ VarHeaderTopic => InOrder'
<1> SUFFICES ASSUME IInv, InOrder, pos < Sense, VarHeaderTopic PROVE InOrder'
  OBVIOUS
<1>0. /\ Sound /\ ~error /\ fn = "varHeaderTopic" /\ pos < avail /\ UNCHANGED buffer
      /\ pk \in PacketFields /\ bytePos \in Nat /\ pk.topic \in Seq(Octet)
  BY DEF InOrder, VarHeaderTopic, At, IInv, TypeInv, PacketFields
<1>1. PICK n, p, off : Place(n, p, off)
  BY <1>0, Placed
<1>2. /\ off = Start(p) + 2 + bytePos /\ p.type = PUBLISH /\ pk.id = 0 /\ Unstarted
      /\ pk.topicLength = Len(p.topic) /\ bytePos < Len(p.topic)
      /\ pk.total = IdLength(p) + Len(p.payload)
      /\ \A j \in 1 .. bytePos : pk.topic[j] = p.topic[j]
  <2>1. AmidTopic(p, off)
    BY <1>0, <1>1, Zenon DEF Place, Amid, AmidLengthFixed, AmidLengthNone, AmidLengthVariable,
       AmidConnack1, AmidConnack2, AmidId1, AmidId2, AmidTopicLength1, AmidTopicLength2,
       AmidTopic, AmidCodes, AmidPayload
  <2> QED BY <2>1 DEF AmidTopic
<1>3. p \in Packets /\ Flags(pk) = p.flags
  BY <1>1, <1>2, HeaderKnown
<1>4. PICK s \in Seq(Octet) : s = p.topic
  BY <1>2, <1>3, PayloadLength
<1>5. PICK t, l, d \in Nat : /\ t = Len(s) /\ l = Len(p.payload) /\ d = IdLength(p)
                             /\ Len(Body(p)) = 2 + t + d + l /\ t <= MaxTopic
  <2>1. IdLength(p) \in Nat
    BY DEF IdLength
  <2> QED BY <1>2, <1>3, <1>4, <2>1, PayloadLength
<1>6. bytePos < t /\ bytePos + 1 \in 1 .. t /\ bytePos + 1 \in Nat
  <2>1. bytePos < t
    BY <1>2, <1>4, <1>5
  <2> QED BY <1>0, <2>1
<1>7. PICK a \in Nat : a = Start(p)
  <2>1. Start(p) \in 2 .. 5
    BY <1>3, PacketBytes
  <2> QED BY <2>1
<1>8. /\ off \in Nat /\ off = a + 2 + bytePos /\ off + 1 = a + (2 + (bytePos + 1))
      /\ Size(p) = a + (2 + t + d + l) /\ off < Size(p)
      /\ 2 + (bytePos + 1) \in 1 .. 2 + t + d + l
  <2>1. off = a + 2 + bytePos
    BY <1>2, <1>7
  <2>2. Size(p) = a + (2 + t + d + l)
    BY <1>5, <1>7 DEF Size
  <2>3. off \in Nat /\ off + 1 = a + (2 + (bytePos + 1)) /\ off < a + (2 + t + d + l)
        /\ 2 + (bytePos + 1) \in 1 .. 2 + t + d + l
    BY <1>0, <1>6, <2>1
  <2> QED BY <2>1, <2>2, <2>3
<1>9. Byte = s[bytePos + 1]
  <2>1. Byte = Bytes(p)[off + 1]
    BY <1>0, <1>1, <1>8, ByteIs
  <2>2. 2 + (bytePos + 1) \in 1 .. Len(Body(p))
    BY <1>5, <1>8
  <2>3. Bytes(p)[Start(p) + (2 + (bytePos + 1))] = Body(p)[2 + (bytePos + 1)]
    BY <1>3, <2>2, PacketBytes
  <2>4. bytePos + 1 \in 1 .. Len(p.topic)
    BY <1>4, <1>5, <1>6
  <2>5. Body(p)[2 + (bytePos + 1)] = p.topic[bytePos + 1]
    <3>1. LaidOut(p)
      BY <1>2, <1>3, PublishBody
    <3> QED BY <2>4, <3>1, Zenon DEF LaidOut
  <2>6. Bytes(p)[off + 1] = Bytes(p)[Start(p) + (2 + (bytePos + 1))]
    BY <1>7, <1>8
  <2> QED BY <1>4, <2>1, <2>3, <2>5, <2>6, Zenon
<1>10. PICK u : u = SubSeq(pk.topic, 1, bytePos) \o <<Byte>>
  OBVIOUS
<1>11. /\ u \in Seq(Octet) /\ Len(u) = bytePos + 1
       /\ \A j \in 1 .. bytePos + 1 : u[j] = s[j]
  <2>1. bytePos <= Len(pk.topic)
    BY <1>0 DEF IInv, Course
  <2>2. Byte \in Octet /\ pk.topic \in Seq(Octet) /\ bytePos \in Nat
    BY <1>0, ByteTyped DEF IInv
  <2>3. /\ u \in Seq(Octet) /\ Len(u) = bytePos + 1 /\ u[bytePos + 1] = Byte
        /\ \A j \in 1 .. bytePos : u[j] = pk.topic[j]
    <3>1. Taken(Octet, u, pk.topic, bytePos, Byte)
      BY <1>10, <2>1, <2>2, OneTaken, Zenon
    <3> QED BY <3>1, Zenon DEF Taken
  <2>4. \A j \in 1 .. bytePos + 1 : j \in 1 .. bytePos \/ j = bytePos + 1
    BY <1>0
  <2>5. \A j \in 1 .. bytePos : u[j] = s[j]
    BY <1>2, <1>4, <2>3
  <2> QED BY <1>9, <2>3, <2>4, <2>5
<1>12. /\ pk' = [pk EXCEPT !.topic = u] /\ bytePos' = bytePos + 1
       /\ CASE bytePos' \notin {pk.topicLength, MaxTopic} -> Await(fn)
            [] bytePos' \in {pk.topicLength, MaxTopic} /\ HasId(Flags(pk)) ->
                 Await("varHeaderPacketId1")
            [] bytePos' \in {pk.topicLength, MaxTopic} /\ ~HasId(Flags(pk)) ->
                 IF pk.total = 0 THEN Complete(Publish(Flags(pk), u, pk.id, <<>>, 0))
                                 ELSE Await("payloadPublish")
  BY <1>10, Zenon DEF VarHeaderTopic
<1>13. /\ pk'.header = pk.header /\ pk'.id = 0 /\ pk'.topicLength = pk.topicLength
       /\ pk'.total = pk.total /\ pk'.index = 0 /\ pk'.length = 0 /\ pk'.topic = u
  <2>1. pk' = [pk EXCEPT !.topic = u]
    BY <1>12
  <2>2. pk.index = 0 /\ pk.length = 0
    BY <1>2 DEF Unstarted
  <2> QED BY <1>0, <1>2, <2>1, <2>2 DEF PacketFields
<1>14. CASE bytePos + 1 < t
  <2>1. bytePos' \notin {pk.topicLength, MaxTopic}
    <3>1. bytePos + 1 # t /\ bytePos + 1 # MaxTopic
      <4>1. MaxTopic \in Nat
        BY SizeAssumption
      <4> QED BY <1>5, <1>6, <1>14, <4>1
    <3> QED BY <1>2, <1>4, <1>5, <1>12, <3>1
  <2>2. Await(fn)
    BY <1>12, <2>1
  <2>3. fn' = "varHeaderTopic" /\ bytePos' < Len(p.topic)
    BY <1>0, <1>4, <1>5, <1>12, <1>14, <2>2 DEF Await
  <2>4. off + 1 = Start(p) + 2 + bytePos'
    <3>1. off + 1 = a + 2 + (bytePos + 1)
      BY <1>0, <1>8
    <3> QED BY <1>7, <1>12, <3>1
  <2>5. \A j \in 1 .. bytePos' : pk'.topic[j] = p.topic[j]
    BY <1>4, <1>11, <1>12, <1>13
  <2>6. AmidTopic(p, off + 1)'
    BY <1>2, <1>13, <2>3, <2>4, <2>5 DEF AmidTopic, Unstarted
  <2>7. Amid(p, off + 1)' /\ fn # "payloadPublish"
    BY <1>0, <2>6 DEF Amid
  <2> QED BY <1>0, <1>1, <1>8, <1>13, <2>2, <2>7, TakesOne
<1>15. CASE bytePos + 1 = t
  <2>1. bytePos' \in {pk.topicLength, MaxTopic}
    BY <1>2, <1>4, <1>5, <1>12, <1>15
  <2>2. u = p.topic
    <3>1. Len(u) = Len(s) /\ \A j \in 1 .. Len(s) : u[j] = s[j]
      BY <1>5, <1>11, <1>15
    <3> QED BY <1>4, <1>11, <3>1, SeqEqual
  <2>3. CASE HasId(p.flags)
    <3>1. Await("varHeaderPacketId1")
      BY <1>3, <1>12, <2>1, <2>3
    <3>2. d = 2
      BY <1>5, <2>3 DEF IdLength
    <3>3. off + 1 = IdAt(p)
      <4>1. off + 1 = a + (2 + t)
        BY <1>8, <1>15
      <4> QED BY <1>2, <1>4, <1>5, <1>7, <4>1 DEF IdAt
    <3>4. pk'.total = Len(p.payload) + 2
      <4>1. pk.total = d + l
        BY <1>2, <1>5
      <4> QED BY <1>5, <1>13, <3>2, <4>1
    <3>5. p.type # SUBACK
      BY <1>2, TypeNumbers
    <3>6. BeforeId(p)'
      BY <1>2, <1>13, <2>2, <2>3, <3>4, <3>5 DEF BeforeId, Unstarted
    <3>7. AmidId1(p, off + 1)'
      BY <1>13, <3>1, <3>3, <3>6 DEF AmidId1, Await
    <3>8. Amid(p, off + 1)'
      BY <3>7 DEF Amid
    <3> QED BY <1>0, <1>1, <1>8, <1>13, <3>1, <3>8, TakesOne
  <2>4. CASE ~HasId(p.flags)
    <3>1. d = 0 /\ pk.total = l /\ p.id = 0
      <4>1. d = 0
        BY <1>5, <2>4 DEF IdLength
      <4>2. pk.total = d + l
        BY <1>2, <1>5
      <4>3. p.id = 0
        BY <1>2, <1>3, <2>4, KindOf, Zenon
      <4> QED BY <4>1, <4>2, <4>3
    <3>2. IF l = 0 THEN Complete(Publish(p.flags, p.topic, p.id, <<>>, 0))
                   ELSE Await("payloadPublish")
      BY <1>2, <1>3, <1>12, <2>1, <2>2, <2>4, <3>1
    <3>3. CASE l = 0
      <4>1. Complete(p)
        BY <1>2, <1>3, <1>5, <3>2, <3>3, EmptyMessage
      <4>2. off + 1 = Size(p)
        BY <1>8, <1>15, <3>1, <3>3
      <4>3. fn # "payloadPublish"
        BY <1>0
      <4> QED BY <1>0, <1>1, <1>8, <4>1, <4>2, <4>3, TakesLast
    <3>4. CASE l # 0
      <4>1. Await("payloadPublish")
        BY <3>2, <3>4
      <4>2. off + 1 = PayloadAt(p) + pk'.index + pk'.length
        <5>1. IdAt(p) = a + (2 + t) /\ IdLength(p) = 0
          BY <1>2, <1>4, <1>5, <1>7, <3>1 DEF IdAt
        <5>2. off + 1 = a + (2 + t)
          BY <1>8, <1>15
        <5> QED BY <1>13, <5>1, <5>2 DEF PayloadAt
      <4>3. pk'.index + pk'.length < Len(p.payload)
        BY <1>5, <1>13, <3>4
      <4>4. AmidPayload(p, off + 1)'
        BY <1>2, <1>5, <1>13, <2>2, <3>1, <4>1, <4>2, <4>3 DEF AmidPayload, Await
      <4>5. Amid(p, off + 1)'
        BY <4>4 DEF Amid
      <4>6. ~(pk'.index + pk'.length > 0) /\ fn # "payloadPublish"
        BY <1>0, <1>13
      <4> QED BY <1>0, <1>1, <1>8, <1>13, <4>1, <4>5, <4>6, TakesOne
    <3> QED BY <3>3, <3>4
  <2> QED BY <2>3, <2>4
<1> QED BY <1>0, <1>6, <1>14, <1>15

LEMMA OrderPayloadSuback == IInv /\ InOrder /\ pos < Sense /\ PayloadSuback => InOrder'
<1> SUFFICES ASSUME IInv, InOrder, pos < Sense, PayloadSuback PROVE InOrder'
  OBVIOUS
<1>0. /\ Sound /\ ~error /\ fn = "payloadSuback" /\ pos < avail /\ UNCHANGED buffer
      /\ pk \in PacketFields /\ bytePos \in Nat /\ pk.codes \in Seq(Octet)
  BY DEF InOrder, PayloadSuback, At, IInv, TypeInv, PacketFields
<1>1. PICK n, p, off : Place(n, p, off)
  BY <1>0, Placed
<1>2. /\ off = Start(p) + 2 + bytePos /\ p.type = SUBACK /\ pk.id = p.id
      /\ pk.total = Len(p.codes) /\ bytePos < Len(p.codes)
      /\ \A j \in 1 .. bytePos : pk.codes[j] = p.codes[j]
  <2>1. AmidCodes(p, off)
    BY <1>0, <1>1, Zenon DEF Place, Amid, AmidLengthFixed, AmidLengthNone, AmidLengthVariable,
       AmidConnack1, AmidConnack2, AmidId1, AmidId2, AmidTopicLength1, AmidTopicLength2,
       AmidTopic, AmidCodes, AmidPayload
  <2> QED BY <2>1 DEF AmidCodes
<1>3. p \in Packets
  BY <1>1, HeaderKnown
<1>4. PICK s \in Seq({0, 1, 2, 128}) : s = p.codes
  BY <1>2, <1>3, SubackBody
<1>5. PICK t \in Nat : t = Len(s) /\ Len(Body(p)) = 2 + t
  BY <1>2, <1>3, <1>4, SubackBody
<1>6. bytePos < t /\ bytePos + 1 \in 1 .. t /\ bytePos + 1 \in Nat
  <2>1. bytePos < t
    BY <1>2, <1>4, <1>5
  <2> QED BY <1>0, <2>1
<1>7. PICK a \in Nat : a = Start(p)
  <2>1. Start(p) \in 2 .. 5
    BY <1>3, PacketBytes
  <2> QED BY <2>1
<1>8. /\ off \in Nat /\ off = a + 2 + bytePos /\ off + 1 = a + (2 + (bytePos + 1))
      /\ Size(p) = a + (2 + t) /\ off < Size(p) /\ 2 + (bytePos + 1) \in 1 .. 2 + t
  <2>1. off = a + 2 + bytePos
    BY <1>2, <1>7
  <2>2. Size(p) = a + (2 + t)
    BY <1>5, <1>7 DEF Size
  <2>3. off \in Nat /\ off + 1 = a + (2 + (bytePos + 1)) /\ off < a + (2 + t)
        /\ 2 + (bytePos + 1) \in 1 .. 2 + t
    BY <1>0, <1>6, <2>1
  <2> QED BY <2>1, <2>2, <2>3
<1>9. Byte = s[bytePos + 1]
  <2>1. Byte = Bytes(p)[off + 1]
    BY <1>0, <1>1, <1>8, ByteIs
  <2>2. 2 + (bytePos + 1) \in 1 .. Len(Body(p))
    BY <1>5, <1>8
  <2>3. Bytes(p)[Start(p) + (2 + (bytePos + 1))] = Body(p)[2 + (bytePos + 1)]
    BY <1>3, <2>2, PacketBytes
  <2>4. bytePos + 1 \in 1 .. Len(p.codes)
    BY <1>4, <1>5, <1>6
  <2>5. Body(p)[2 + (bytePos + 1)] = p.codes[bytePos + 1]
    BY <1>2, <1>3, <2>4, SubackBody
  <2>6. Bytes(p)[off + 1] = Bytes(p)[Start(p) + (2 + (bytePos + 1))]
    BY <1>7, <1>8
  <2> QED BY <1>4, <2>1, <2>3, <2>5, <2>6, Zenon
<1>10. PICK u : u = SubSeq(pk.codes, 1, bytePos) \o <<Byte>>
  OBVIOUS
<1>11. /\ u \in Seq(Octet) /\ Len(u) = bytePos + 1
       /\ \A j \in 1 .. bytePos + 1 : u[j] = s[j]
  <2>1. bytePos <= Len(pk.codes)
    BY <1>0 DEF IInv, Course
  <2>2. Byte \in Octet /\ pk.codes \in Seq(Octet) /\ bytePos \in Nat
    BY <1>0, ByteTyped DEF IInv
  <2>3. /\ u \in Seq(Octet) /\ Len(u) = bytePos + 1 /\ u[bytePos + 1] = Byte
        /\ \A j \in 1 .. bytePos : u[j] = pk.codes[j]
    <3>1. Taken(Octet, u, pk.codes, bytePos, Byte)
      BY <1>10, <2>1, <2>2, OneTaken, Zenon
    <3> QED BY <3>1, Zenon DEF Taken
  <2>4. \A j \in 1 .. bytePos + 1 : j \in 1 .. bytePos \/ j = bytePos + 1
    BY <1>0
  <2>5. \A j \in 1 .. bytePos : u[j] = s[j]
    BY <1>2, <1>4, <2>3
  <2> QED BY <1>9, <2>3, <2>4, <2>5
<1>12. Byte \in {0, 1, 2, 128}
  BY <1>4, <1>5, <1>6, <1>9, ElementOfSeq
<1>13. /\ pk' = [pk EXCEPT !.codes = u] /\ bytePos' = bytePos + 1
       /\ IF bytePos' = pk.total THEN Complete(Suback(pk.id, pk'.codes)) ELSE Await(fn)
  BY <1>10, <1>12, Zenon DEF PayloadSuback
<1>14. /\ pk'.header = pk.header /\ pk'.id = pk.id /\ pk'.total = pk.total /\ pk'.codes = u
  <2>1. pk' = [pk EXCEPT !.codes = u]
    BY <1>13
  <2> QED BY <1>0, <2>1 DEF PacketFields
<1>15. CASE bytePos + 1 < t
  <2>1. Await(fn)
    BY <1>2, <1>4, <1>5, <1>13, <1>15
  <2>2. fn' = "payloadSuback" /\ bytePos' < Len(p.codes)
    BY <1>0, <1>4, <1>5, <1>13, <1>15, <2>1 DEF Await
  <2>3. off + 1 = Start(p) + 2 + bytePos'
    <3>1. off + 1 = a + 2 + (bytePos + 1)
      BY <1>0, <1>8
    <3> QED BY <1>7, <1>13, <3>1
  <2>4. \A j \in 1 .. bytePos' : pk'.codes[j] = p.codes[j]
    BY <1>4, <1>11, <1>13, <1>14
  <2>5. AmidCodes(p, off + 1)'
    BY <1>2, <1>14, <2>2, <2>3, <2>4 DEF AmidCodes
  <2>6. Amid(p, off + 1)' /\ fn # "payloadPublish"
    BY <1>0, <2>5 DEF Amid
  <2> QED BY <1>0, <1>1, <1>8, <1>14, <2>1, <2>6, TakesOne
<1>16. CASE bytePos + 1 = t
  <2>1. u = p.codes
    <3>1. Len(u) = Len(s) /\ \A j \in 1 .. Len(s) : u[j] = s[j]
      BY <1>5, <1>11, <1>16
    <3>2. s \in Seq(Nat) /\ u \in Seq(Nat)
      <4>1. {0, 1, 2, 128} \subseteq Nat
        OBVIOUS
      <4>2. s \in Seq(Nat)
        BY <4>1, SeqMonotonic
      <4> QED BY <1>11, <4>2, OctetsAreNumbers
    <3> QED BY <1>4, <3>1, <3>2, SeqEqual
  <2>2. Complete(Suback(pk.id, u))
    BY <1>2, <1>4, <1>5, <1>13, <1>14, <1>16
  <2>3. p = Suback(p.id, p.codes)
    BY <1>2, <1>3, KindOf, Zenon DEF IsSuback
  <2>4. Complete(p)
    BY <1>2, <2>1, <2>2, <2>3, Zenon
  <2>5. off + 1 = Size(p) /\ fn # "payloadPublish"
    BY <1>0, <1>8, <1>16
  <2> QED BY <1>0, <1>1, <1>8, <2>4, <2>5, TakesLast
<1> QED BY <1>0, <1>6, <1>15, <1>16

\* The sequence x consists of the k elements of s behind the first i.
IsCut(S, x, s, i, k) ==
  x \in Seq(S) /\ Len(x) = k /\ \A j \in 1 .. k : x[j] = s[i + j]

LEMMA CutOf ==
  ASSUME NEW S, NEW s, NEW i \in Nat, NEW k \in Nat, \A h \in i + 1 .. i + k : s[h] \in S
  PROVE  IsCut(S, SubSeq(s, i + 1, i + k), s, i, k)
<1>1. i + 1 \in Int /\ i + k \in Int /\ (i + k) - (i + 1) + 1 = k
  OBVIOUS
<1>2. PICK x : x = SubSeq(s, i + 1, i + k)
  OBVIOUS
<1>3. /\ x \in Seq(S) /\ Len(x) = IF i + 1 <= i + k THEN (i + k) - (i + 1) + 1 ELSE 0
      /\ \A j \in 1 .. (i + k) - (i + 1) + 1 : x[j] = s[i + 1 + j - 1]
  BY <1>1, <1>2, SubSeqProperties
<1>4. Len(x) = k
  BY <1>3
<1>5. ASSUME NEW j \in 1 .. k PROVE x[j] = s[i + j]
  <2>1. i + 1 + j - 1 = i + j /\ j \in 1 .. (i + k) - (i + 1) + 1
    BY <1>1
  <2> QED BY <1>3, <2>1
<1> QED BY <1>2, <1>3, <1>4, <1>5 DEF IsCut

LEMMA Cut ==
  ASSUME NEW S, NEW s \in Seq(S), NEW i \in Nat, NEW k \in Nat, i + k <= Len(s)
  PROVE  IsCut(S, SubSeq(s, i + 1, i + k), s, i, k)
<1>1. ASSUME NEW h \in i + 1 .. i + k PROVE s[h] \in S
  <2>1. h \in 1 .. Len(s)
    OBVIOUS
  <2> QED BY <2>1, ElementOfSeq
<1> QED BY <1>1, CutOf, Zenon

LEMMA PayloadBytes ==
  ASSUME NEW p \in Packets, p.type = PUBLISH
  PROVE  /\ PayloadAt(p) \in Nat /\ Size(p) = PayloadAt(p) + Len(p.payload)
         /\ \A i \in 1 .. Len(p.payload) : /\ PayloadAt(p) + i \in 1 .. Size(p)
                                           /\ Bytes(p)[PayloadAt(p) + i] = p.payload[i]
<1>1. PICK t, l, d \in Nat : t = Len(p.topic) /\ l = Len(p.payload) /\ d = IdLength(p)
  <2>1. IdLength(p) \in Nat
    BY DEF IdLength
  <2> QED BY <2>1, PayloadLength
<1>2. PICK a \in Nat : a = Start(p)
  <2>1. Start(p) \in 2 .. 5
    BY PacketBytes
  <2> QED BY <2>1
<1>3. PayloadAt(p) = a + (2 + t) + d
  BY <1>1, <1>2 DEF PayloadAt, IdAt
<1>4. Len(Body(p)) = 2 + t + d + l
  BY <1>1, PayloadLength
<1>5. Size(p) = a + (2 + t + d + l)
  BY <1>2, <1>4 DEF Size
<1>6. ASSUME NEW i \in 1 .. l
      PROVE  PayloadAt(p) + i \in 1 .. Size(p) /\ Bytes(p)[PayloadAt(p) + i] = p.payload[i]
  <2>1. PayloadAt(p) + i = a + (2 + t + d + i) /\ PayloadAt(p) + i \in 1 .. Size(p)
        /\ 2 + t + d + i \in 1 .. 2 + t + d + l
    BY <1>3, <1>5
  <2>2. Bytes(p)[a + (2 + t + d + i)] = Body(p)[2 + t + d + i]
    BY <1>2, <1>4, <2>1, PacketBytes
  <2>3. Body(p)[2 + t + d + i] = p.payload[i]
    <3>1. LaidOut(p)
      BY PublishBody, Zenon
    <3>2. i \in 1 .. Len(p.payload)
      BY <1>1
    <3> QED BY <1>1, <3>1, <3>2, Zenon DEF LaidOut
  <2> QED BY <2>1, <2>2, <2>3
<1>7. PayloadAt(p) \in Nat /\ Size(p) = PayloadAt(p) + l
  BY <1>3, <1>5
<1> QED BY <1>1, <1>6, <1>7

\* In a payload no byte is wrong.
LEMMA NoneInPayload ==
  ASSUME NEW w \in Wrongs, w.of.type = PUBLISH
  PROVE  w.at < PayloadAt(w.of)
<1>1. PICK p, n, b : p = w.of /\ n = w.at /\ b = w.byte
  OBVIOUS
<1>2. /\ p \in Packets /\ p.type = PUBLISH /\ n \in Nat
      /\ n = 0 \/ WrongLength(p, n, b) \/ WrongBody(p, n, b)
  BY <1>1, TypeTells DEF Wrongs
<1>3. PICK t, d \in Nat : t = Len(p.topic) /\ d = IdLength(p)
  <2>1. IdLength(p) \in Nat
    BY DEF IdLength
  <2> QED BY <1>2, <2>1, PayloadLength
<1>4. PICK a \in Nat : a = Start(p) /\ a >= 2
  <2>1. Start(p) \in 2 .. 5
    BY <1>2, PacketBytes
  <2> QED BY <2>1
<1>5. IdAt(p) = a + (2 + t) /\ PayloadAt(p) = a + (2 + t) + d
  BY <1>2, <1>3, <1>4 DEF PayloadAt, IdAt
<1>6. p.type \notin Acks \cup {CONNACK, SUBACK, PINGRESP}
  BY <1>2, TypeNumbers
<1>7. n < PayloadAt(p)
  <2>1. CASE n = 0
    BY <1>4, <1>5, <2>1
  <2>2. CASE WrongLength(p, n, b)
    <3>1. n = 4 /\ n < Start(p)
      BY <1>6, <2>2 DEF WrongLength
    <3> QED BY <1>4, <1>5, <3>1
  <2>3. CASE WrongBody(p, n, b)
    <3>1. (Identified(p) /\ n = IdAt(p) + 1) \/ n = Start(p) + 1
      BY <1>6, <2>3 DEF WrongBody
    <3>2. CASE Identified(p) /\ n = IdAt(p) + 1
      <4>1. d = 2
        BY <1>2, <1>3, <3>2 DEF Identified, IdLength
      <4> QED BY <1>5, <3>2, <4>1
    <3>3. CASE n = Start(p) + 1
      BY <1>4, <1>5, <3>3
    <3> QED BY <3>1, <3>2, <3>3
  <2> QED BY <1>2, <2>1, <2>2, <2>3
<1> QED BY <1>1, <1>7

LEMMA WithinSum ==
  ASSUME NEW e \in Nat, NEW z \in Nat, NEW d \in Nat, NEW m \in 1 .. z, e + z <= d
  PROVE  e + m \in 1 .. d
OBVIOUS

LEMMA Shifted ==
  ASSUME NEW q \in Nat, NEW k \in Nat, NEW h \in q + 1 .. q + k
  PROVE  \E j \in 1 .. k : q + j = h
<1>1. h - q \in 1 .. k /\ q + (h - q) = h
  OBVIOUS
<1> QED BY <1>1

\* A message of which the payload has begun is whole.
LEMMA MessageMakesSense ==
  ASSUME IInv, Sound, pos < Sense,
         NEW n \in 0 .. Len(Meant) - 1, NEW p \in Packets, p = Meant[n + 1],
         p.type = PUBLISH, NEW i \in Nat, pos = Ending(n) + (PayloadAt(p) + i)
  PROVE  Ending(n) + Size(p) <= Sense
<1>1. PICK l \in Nat : l = Len(Meant) /\ l = Len(sent)
  BY MeantIs
<1>2. /\ n \in 0 .. l - 1 /\ n + 1 \in 0 .. l /\ Ending(n + 1) = Ending(n) + Size(p)
      /\ Ending(n) \in Nat /\ Sense \in Nat /\ PayloadAt(p) \in Nat /\ Size(p) \in Nat
  BY <1>1, PacketAt, SenseIs, PayloadBytes
<1>3. ASSUME NEW k \in n + 1 .. l PROVE Ending(n + 1) <= Ending(k) /\ Ending(k) \in Nat
  <2>1. k \in 0 .. Len(Meant) /\ n + 1 \in 0 .. k
    BY <1>1, <1>2
  <2> QED BY <2>1, MeantIs, EndsIncrease DEF Ending
<1>4. CASE ~Spoilt
  <2>1. Sense = Ending(l) /\ l \in n + 1 .. l
    BY <1>1, <1>2, <1>4, SenseIs
  <2> QED BY <1>2, <1>3, <2>1
<1>5. CASE Spoilt
  <2>1. PICK w : w = sent[l]
    OBVIOUS
  <2>2. /\ l >= 1 /\ w \in Wrongs /\ Meant[l] = w.of /\ w.at \in Nat
        /\ Ending(l - 1) \in Nat /\ Sense = Ending(l - 1) + w.at
    BY <1>1, <1>5, <2>1, SenseIs DEF Beyond
  <2>3. PICK b \in Nat : b = w.at
    BY <2>2
  <2>4. CASE n + 1 = l
    <3>1. w.of = p /\ l - 1 = n
      <4>1. l - 1 = n
        BY <1>2, <2>4
      <4> QED BY <2>2, <2>4, <4>1
    <3>2. b < PayloadAt(p)
      BY <2>2, <2>3, <3>1, NoneInPayload
    <3>3. PICK e \in Nat, a \in Nat : e = Ending(n) /\ a = PayloadAt(p)
      BY <1>2
    <3>4. Sense = e + b /\ pos = e + (a + i) /\ b < a
      BY <2>2, <2>3, <3>1, <3>2, <3>3
    <3>5. ~(pos < Sense)
      BY <3>3, <3>4
    <3> QED BY <3>5
  <2>5. CASE n + 1 # l
    <3>1. l - 1 \in n + 1 .. l
      BY <1>2, <2>5
    <3>2. PICK d \in Nat, e \in Nat : d = Ending(n + 1) /\ e = Ending(l - 1)
      BY <1>2, <1>3, <3>1
    <3>3. d <= e
      BY <1>3, <3>1, <3>2
    <3>4. Sense = e + b
      BY <2>2, <2>3, <3>2
    <3>5. d <= Sense
      BY <3>3, <3>4
    <3> QED BY <1>2, <3>2, <3>5
  <2> QED BY <2>4, <2>5
<1> QED BY <1>4, <1>5

\* What is next in the stream is the next part of the payload.
LEMMA NextPiece ==
  ASSUME IInv, Sound, pos < Sense,
         NEW n \in 0 .. Len(Meant) - 1, NEW p \in Packets, p = Meant[n + 1],
         p.type = PUBLISH, NEW i \in Nat, NEW k \in Nat, i + k <= Len(p.payload),
         pos = Ending(n) + (PayloadAt(p) + i)
  PROVE  SubSeq(stream, pos + 1, pos + k) = SubSeq(p.payload, i + 1, i + k)
<1>1. n + 1 \in 1 .. Len(Meant) /\ Ending(n) \in Nat /\ (n + 1) - 1 = n
  BY PacketAt
<1>2. Ending(n) + Size(p) <= Sense /\ Sense \in Nat /\ Size(p) \in Nat
  BY MessageMakesSense, SenseIs, PacketAt
<1>3. p.payload \in Seq(Octet) /\ Len(p.payload) \in Nat /\ PayloadAt(p) \in Nat
  BY PayloadLength, PayloadBytes
<1>4. ASSUME NEW j \in 1 .. k PROVE stream[pos + j] = p.payload[i + j]
  <2>1. i + j \in 1 .. Len(p.payload)
    BY <1>3
  <2>2. PICK m : m = PayloadAt(p) + (i + j)
    OBVIOUS
  <2>3. m \in 1 .. Size(p) /\ Bytes(p)[m] = p.payload[i + j]
    BY <2>1, <2>2, PayloadBytes
  <2>4. stream[Ends(Meant, (n + 1) - 1) + m] = Bytes(p)[m]
    <3>1. Ends(Meant, (n + 1) - 1) = Ending(n)
      BY <1>1 DEF Ending, Ends
    <3>2. Streamed(Meant)[Ends(Meant, (n + 1) - 1) + m] = Bytes(p)[m]
      BY <1>1, <2>3, MeantIs, InPlace
    <3>3. Ending(n) + m \in 1 .. Sense
      <4>1. PICK e \in Nat, z \in Nat, d \in Nat : e = Ending(n) /\ z = Size(p) /\ d = Sense
        BY <1>1, <1>2
      <4>2. m \in 1 .. z /\ e + z <= d
        BY <1>2, <2>3, <4>1
      <4>3. e + m \in 1 .. d
        BY <4>2, WithinSum
      <4> QED BY <4>1, <4>3
    <3> QED BY <3>1, <3>2, <3>3, SenseIs
  <2>5. Ends(Meant, (n + 1) - 1) + m = pos + j
    <3>1. Ends(Meant, (n + 1) - 1) = Ending(n)
      BY <1>1 DEF Ending, Ends
    <3>2. Ending(n) + m = pos + j
      <4>1. PICK e \in Nat, a \in Nat : e = Ending(n) /\ a = PayloadAt(p)
        BY <1>1, <1>3
      <4>2. e + (a + (i + j)) = (e + (a + i)) + j
        BY <4>1
      <4> QED BY <2>2, <4>1, <4>2
    <3> QED BY <3>1, <3>2
  <2> QED BY <2>3, <2>4, <2>5
<1>5. pos \in Nat
  BY <1>1, <1>3
<1>6. PICK x, y : x = SubSeq(stream, pos + 1, pos + k) /\ y = SubSeq(p.payload, i + 1, i + k)
  OBVIOUS
<1>7. /\ y \in Seq(Octet) /\ Len(y) = k /\ \A j \in 1 .. k : y[j] = p.payload[i + j]
  <2>1. IsCut(Octet, y, p.payload, i, k)
    BY <1>3, <1>6, Cut, Zenon
  <2> QED BY <2>1 DEF IsCut
<1>8. /\ x \in Seq(Octet) /\ Len(x) = k /\ \A j \in 1 .. k : x[j] = stream[pos + j]
  <2>1. \A h \in pos + 1 .. pos + k : stream[h] \in Octet
    <3>1. ASSUME NEW h \in pos + 1 .. pos + k PROVE stream[h] \in Octet
      <4>1. PICK j \in 1 .. k : pos + j = h
        <5>1. PICK q \in Nat : q = pos
          BY <1>5
        <5>2. h \in q + 1 .. q + k
          BY <5>1, Zenon
        <5>3. \E j \in 1 .. k : q + j = h
          BY <5>2, Shifted, Zenon
        <5> QED BY <5>1, <5>3, Zenon
      <4>2. i + j \in 1 .. Len(p.payload)
        BY <1>3
      <4>3. p.payload[i + j] \in Octet
        BY <1>3, <4>2, ElementOfSeq
      <4> QED BY <1>4, <4>1, <4>3
    <3> QED BY <3>1
  <2>2. IsCut(Octet, x, stream, pos, k)
    BY <1>5, <1>6, <2>1, CutOf, Zenon
  <2> QED BY <2>2 DEF IsCut
<1>9. Len(x) = Len(y) /\ \A j \in 1 .. Len(x) : x[j] = y[j]
  <2>1. \A j \in 1 .. k : x[j] = y[j]
    BY <1>4, <1>7, <1>8, Zenon
  <2> QED BY <1>7, <1>8, <2>1, Zenon
<1>10. x = y
  BY <1>7, <1>8, <1>9, SeqEqual, Zenon
<1> QED BY <1>6, <1>10, Zenon

\* A message, of whose payload the first k bytes have come.
Part(p, k) == [p EXCEPT !.payload = SubSeq(@, 1, k)]

\* The pieces of a payload are put together.
LEMMA FirstPiece ==
  ASSUME NEW all, NEW p \in Packets, p.type = PUBLISH, NEW k \in Nat, k <= Len(p.payload)
  PROVE  Pieced(all, Publish(p.flags, p.topic, p.id, <<>>, p.total), 0, SubSeq(p.payload, 1, k))
         = Append(all, Part(p, k))
<1>1. PICK m : m = Publish(p.flags, p.topic, p.id, <<>>, p.total)
  OBVIOUS
<1>2. PICK d : d = SubSeq(p.payload, 1, k)
  OBVIOUS
<1>3. p = Publish(p.flags, p.topic, p.id, p.payload, p.total)
  BY KindOf, Zenon DEF IsPublish
<1>4. [m EXCEPT !.payload = d] = [p EXCEPT !.payload = d]
  BY <1>1, <1>3 DEF Publish
<1>5. Part(p, k) = [p EXCEPT !.payload = d]
  BY <1>2 DEF Part
<1>6. Pieced(all, m, 0, d) = Append(all, [m EXCEPT !.payload = d])
  BY Zenon DEF Pieced
<1> QED BY <1>1, <1>2, <1>4, <1>5, <1>6, Zenon

LEMMA PiecesJoin ==
  ASSUME NEW s \in Seq(Octet), NEW i \in Nat, NEW k \in Nat, i + k <= Len(s)
  PROVE  SubSeq(SubSeq(s, 1, i), 1, i) \o SubSeq(s, i + 1, i + k) = SubSeq(s, 1, i + k)
<1>0. Len(s) \in Nat
  OBVIOUS
<1>1. SubSeq(SubSeq(s, 1, i), 1, i) = SubSeq(s, 1, i)
  <2>1. PICK v : v = SubSeq(s, 1, i)
    OBVIOUS
  <2>2. v \in Seq(Octet) /\ Len(v) = i
    <3>1. i <= Len(s)
      BY <1>0
    <3> QED BY <2>1, <3>1
  <2>3. SubSeq(v, 1, Len(v)) = v
    BY <2>2, SubSeqFull
  <2> QED BY <2>1, <2>2, <2>3
<1>2. 1 \in 1 .. Len(s) + 1 /\ i \in 1 - 1 .. Len(s) /\ i + k \in i .. Len(s)
  BY <1>0
<1>3. SubSeq(s, 1, i) \o SubSeq(s, i + 1, i + k) = SubSeq(s, 1, i + k)
  BY <1>2, ConcatAdjacentSubSeq
<1> QED BY <1>1, <1>3

\* The next k bytes of the payload, after the first i, make a longer part of p.
Lengthens(all, p, m, i, k) ==
  Pieced(Append(all, Part(p, i)), m, i, SubSeq(p.payload, i + 1, i + k))
  = Append(all, Part(p, i + k))

LEMMA LaterPiece ==
  ASSUME NEW all \in Seq(Packets), NEW p \in Packets, p.type = PUBLISH, NEW m,
         NEW i \in Nat \ {0}, NEW k \in Nat, i + k <= Len(p.payload)
  PROVE  Lengthens(all, p, m, i, k)
<1>1. PICK a : a = Part(p, i)
  OBVIOUS
<1>2. PICK d : d = SubSeq(p.payload, i + 1, i + k)
  OBVIOUS
<1>3. PICK b : b = SubSeq(p.payload, 1, i + k)
  OBVIOUS
<1>4. PICK e : e = SubSeq(p.payload, 1, i)
  OBVIOUS
<1>5. p.payload \in Seq(Octet)
  BY PayloadLength
<1>6. SubSeq(e, 1, i) \o d = b
  BY <1>2, <1>3, <1>4, <1>5, PiecesJoin
<1>7. a = [p EXCEPT !.payload = e] /\ Part(p, i + k) = [p EXCEPT !.payload = b]
  BY <1>1, <1>3, <1>4 DEF Part
<1>8. a = Publish(p.flags, p.topic, p.id, e, p.total)
      /\ Part(p, i + k) = Publish(p.flags, p.topic, p.id, b, p.total)
  <2>1. p = Publish(p.flags, p.topic, p.id, p.payload, p.total)
    BY KindOf, Zenon DEF IsPublish
  <2>2. PICK f, t, j, c : f = p.flags /\ t = p.topic /\ j = p.id /\ c = p.total
    OBVIOUS
  <2>3. p = Publish(f, t, j, p.payload, c)
    BY <2>1, <2>2
  <2> QED BY <1>7, <2>2, <2>3 DEF Publish
<1>9. [a EXCEPT !.payload = SubSeq(@, 1, i) \o d] = Part(p, i + k)
  <2>1. PICK f, t, j, c : f = p.flags /\ t = p.topic /\ j = p.id /\ c = p.total
    OBVIOUS
  <2>2. a = Publish(f, t, j, e, c) /\ Part(p, i + k) = Publish(f, t, j, b, c)
    BY <1>8, <2>1
  <2>3. [a EXCEPT !.payload = SubSeq(@, 1, i) \o d] = [a EXCEPT !.payload = b]
    <3>1. a.payload = e
      BY <2>2 DEF Publish
    <3> QED BY <1>6, <3>1
  <2>4. [a EXCEPT !.payload = b] = Publish(f, t, j, b, c)
    BY <2>2 DEF Publish
  <2> QED BY <2>2, <2>3, <2>4, Zenon
<1>10. PICK S : S = Packets \cup {a, Part(p, i + k)}
  OBVIOUS
<1>11. all \in Seq(S) /\ a \in S
  <2>1. Packets \subseteq S
    BY <1>10
  <2> QED BY <1>10, <2>1, SeqMonotonic
<1>12. PICK r : r = Append(all, a)
  OBVIOUS
<1>13. PICK c : c = Part(p, i + k)
  OBVIOUS
<1>14. /\ r \in Seq(S) /\ Len(r) = Len(all) + 1 /\ r[Len(r)] = a
       /\ \A j \in 1 .. Len(all) : r[j] = all[j]
  BY <1>11, <1>12, AppendProperties
<1>15. Pieced(r, m, i, d) = [r EXCEPT ![Len(r)] = c]
  <2>1. Pieced(r, m, i, d) = [r EXCEPT ![Len(r)].payload = SubSeq(@, 1, i) \o d]
    BY Zenon DEF Pieced
  <2>2. [r EXCEPT ![Len(r)].payload = SubSeq(@, 1, i) \o d]
        = [r EXCEPT ![Len(r)] = [r[Len(r)] EXCEPT !.payload = SubSeq(@, 1, i) \o d]]
    OBVIOUS
  <2> QED BY <1>9, <1>13, <1>14, <2>1, <2>2
<1>16. [r EXCEPT ![Len(r)] = c] = Append(all, c)
  <2>1. Len(r) \in 1 .. Len(r) /\ c \in S
    BY <1>10, <1>11, <1>13, <1>14
  <2>2. PICK x : x = [r EXCEPT ![Len(r)] = c]
    OBVIOUS
  <2>3. /\ x \in Seq(S) /\ Len(x) = Len(r)
        /\ \A j \in 1 .. Len(r) : x[j] = IF j = Len(r) THEN c ELSE r[j]
    BY <1>14, <2>1, <2>2, ExceptSeq
  <2>4. PICK y : y = Append(all, c)
    OBVIOUS
  <2>5. /\ y \in Seq(S) /\ Len(y) = Len(all) + 1 /\ y[Len(all) + 1] = c
        /\ \A j \in 1 .. Len(all) : y[j] = all[j]
    BY <1>11, <2>1, <2>4, AppendProperties
  <2>6. Len(all) \in Nat
    BY <1>11
  <2>7. ASSUME NEW j \in 1 .. Len(x) PROVE x[j] = y[j]
    <3>1. CASE j = Len(r)
      BY <1>14, <2>3, <2>5, <3>1
    <3>2. CASE j # Len(r)
      <4>1. j \in 1 .. Len(all) /\ j \in 1 .. Len(r)
        BY <1>14, <2>3, <2>6, <3>2
      <4> QED BY <1>14, <2>3, <2>5, <3>2, <4>1
    <3> QED BY <3>1, <3>2
  <2>8. Len(x) = Len(y)
    BY <1>14, <2>3, <2>5
  <2>9. x = y
    BY <2>3, <2>5, <2>7, <2>8, SeqEqual, Zenon
  <2> QED BY <2>2, <2>4, <2>9, Zenon
<1> QED BY <1>1, <1>2, <1>12, <1>13, <1>15, <1>16 DEF Lengthens

\* A message all of whose payload has come.
LEMMA WholePart ==
  ASSUME NEW p \in Packets, p.type = PUBLISH
  PROVE  Part(p, Len(p.payload)) = p
<1>1. p.payload \in Seq(Octet)
  BY PayloadLength
<1>2. SubSeq(p.payload, 1, Len(p.payload)) = p.payload
  BY <1>1, SubSeqFull
<1>3. p = Publish(p.flags, p.topic, p.id, p.payload, p.total)
  BY KindOf, Zenon DEF IsPublish
<1>4. PICK f, t, j, b, c : f = p.flags /\ t = p.topic /\ j = p.id /\ b = p.payload /\ c = p.total
  OBVIOUS
<1>5. p = Publish(f, t, j, b, c)
  BY <1>3, <1>4
<1>6. [p EXCEPT !.payload = b] = p
  BY <1>5 DEF Publish
<1> QED BY <1>2, <1>4, <1>6 DEF Part

LEMMA OrderPayloadPublish == IInv /\ InOrder /\ pos < Sense /\ PayloadPublish => InOrder'
<1> SUFFICES ASSUME IInv, InOrder, pos < Sense, PayloadPublish PROVE InOrder'
  OBVIOUS
<1>0. /\ Sound /\ ~error /\ fn = "payloadPublish" /\ pos < avail /\ UNCHANGED <<bytePos, error, buffer>>
      /\ pk \in PacketFields
  BY DEF InOrder, PayloadPublish, At, IInv, TypeInv
<1>1. PICK n, p, off : Place(n, p, off)
  BY <1>0, Placed
<1>2. /\ off = PayloadAt(p) + pk.index + pk.length /\ p.type = PUBLISH /\ pk.id = p.id
      /\ pk.topic = p.topic /\ pk.total = Len(p.payload)
      /\ pk.index + pk.length < Len(p.payload)
  <2>1. AmidPayload(p, off)
    BY <1>0, <1>1, Zenon DEF Place, Amid, AmidLengthFixed, AmidLengthNone, AmidLengthVariable,
       AmidConnack1, AmidConnack2, AmidId1, AmidId2, AmidTopicLength1, AmidTopicLength2,
       AmidTopic, AmidCodes, AmidPayload
  <2> QED BY <2>1 DEF AmidPayload
<1>3. p \in Packets /\ Flags(pk) = p.flags
  BY <1>1, <1>2, HeaderKnown
<1>4. /\ n \in 0 .. Len(Meant) - 1 /\ p = Meant[n + 1] /\ pos = Ending(n) + off
      /\ pk.header = HeaderOf(p) /\ Given(n)
  BY <1>1 DEF Place
<1>5. Ending(n) \in Nat /\ Meant' = Meant /\ error' = error
  BY <1>0, <1>4, PacketAt, Unmoved DEF buffer
<1>6. PICK a \in Nat : a = PayloadAt(p)
  BY <1>2, <1>3, PayloadBytes
<1>7. PICK l \in Nat : l = Len(p.payload)
  BY <1>2, <1>3, PayloadLength
<1>8. PICK i \in Nat : i = pk.index + pk.length /\ off = a + i /\ i < l
  <2>1. pk.index \in Nat /\ pk.length \in Nat
    BY <1>0 DEF PacketFields
  <2>2. off = a + (pk.index + pk.length)
    BY <1>2, <1>6, <2>1
  <2> QED BY <1>2, <1>7, <2>1, <2>2
<1>9. PICK k : k = IF avail - pos < pk.total - i THEN avail - pos ELSE pk.total - i
  OBVIOUS
<1>10. k \in Nat \ {0} /\ i + k <= l
  <2>1. pos \in Nat /\ avail \in Nat
    BY DEF IInv, TypeInv
  <2>2. pk.total = l
    BY <1>2, <1>7
  <2> QED BY <1>0, <1>8, <1>9, <2>1, <2>2
<1>11. /\ pk' = [pk EXCEPT !.index = i, !.length = k] /\ pos' = pos + k
       /\ fn' = IF i + k = pk.total THEN "fixedHeader" ELSE fn
       /\ got' = Pieced(got, Publish(Flags(pk), pk.topic, pk.id, <<>>, pk.total),
                        i, SubSeq(stream, pos + 1, pos + k))
  BY <1>8, <1>9, Zenon DEF PayloadPublish
<1>12. pk'.header = pk.header /\ pk'.index = i /\ pk'.length = k /\ pk'.id = pk.id
       /\ pk'.topic = pk.topic /\ pk'.total = pk.total
  BY <1>0, <1>11 DEF PacketFields
<1>13. SubSeq(stream, pos + 1, pos + k) = SubSeq(p.payload, i + 1, i + k)
  <2>1. pos = Ending(n) + (PayloadAt(p) + i) /\ k \in Nat /\ i + k <= Len(p.payload)
    BY <1>4, <1>6, <1>7, <1>8, <1>10
  <2> QED BY <1>0, <1>2, <1>3, <1>4, <2>1, NextPiece
<1>14. PICK all : all = SubSeq(Meant, 1, n)
  OBVIOUS
<1>15. all \in Seq(Packets)
  <2>1. Meant \in Seq(Packets) /\ n \in 0 .. Len(Meant)
    BY <1>0, <1>4, PacketAt, MeantIs
  <2> QED BY <1>14, <2>1
<1>16. p.total = Len(p.payload)
  BY <1>2, <1>3, KindOf, Zenon
<1>17. got' = Append(all, Part(p, i + k))
  <2>1. PICK m : m = Publish(p.flags, p.topic, p.id, <<>>, p.total)
    OBVIOUS
  <2>2. got' = Pieced(got, m, i, SubSeq(p.payload, i + 1, i + k))
    BY <1>2, <1>3, <1>11, <1>13, <1>16, <2>1, Zenon
  <2>3. CASE i = 0
    <3>1. got = all
      BY <1>4, <1>8, <1>14, <2>3 DEF Given
    <3>2. i + 1 = 1 /\ i + k = k /\ k \in Nat /\ k <= Len(p.payload)
      BY <1>7, <1>10, <2>3
    <3>3. Pieced(all, m, 0, SubSeq(p.payload, 1, k)) = Append(all, Part(p, k))
      BY <1>2, <1>3, <2>1, <3>2, FirstPiece, Zenon
    <3> QED BY <2>2, <2>3, <3>1, <3>2, <3>3
  <2>4. CASE i # 0
    <3>1. pk.index + pk.length > 0
      BY <1>8, <2>4
    <3>2. got = Append(all, Part(p, i))
      BY <1>0, <1>4, <1>8, <1>14, <3>1 DEF Given, Part
    <3>3. i \in Nat \ {0} /\ k \in Nat /\ i + k <= Len(p.payload)
      BY <1>7, <1>10, <2>4
    <3>4. i + k <= Len(p.payload) /\ p \in Packets /\ p.type = PUBLISH
      BY <1>2, <1>3, <3>3
    <3>5. Pieced(Append(all, Part(p, i)), m, i, SubSeq(p.payload, i + 1, i + k))
          = Append(all, Part(p, i + k))
      <4>1. Lengthens(all, p, m, i, k)
        BY <1>15, <3>3, <3>4, LaterPiece, Zenon
      <4> QED BY <4>1, Zenon DEF Lengthens
    <3> QED BY <2>2, <3>2, <3>5, Zenon
  <2> QED BY <2>3, <2>4
<1>18. PICK o \in Nat : o = off + k /\ o = a + (i + k) /\ pos' = Ending(n) + o
  <2>1. off + k = a + (i + k) /\ off + k \in Nat
    BY <1>8, <1>10
  <2>2. pos' = Ending(n) + (off + k)
    BY <1>4, <1>5, <1>8, <1>10, <1>11
  <2> QED BY <2>1, <2>2
<1>a. pos' <= Sense
  <2>1. pos = Ending(n) + (PayloadAt(p) + i)
    BY <1>4, <1>6, <1>8
  <2>2. Ending(n) + Size(p) <= Sense
    BY <1>0, <1>2, <1>3, <1>4, <2>1, MessageMakesSense
  <2>3. Size(p) = a + l /\ Sense \in Nat
    BY <1>0, <1>2, <1>3, <1>6, <1>7, PayloadBytes, SenseIs
  <2> QED BY <1>5, <1>8, <1>10, <1>18, <2>2, <2>3
<1>19. CASE i + k = l
  <2>1. fn' = "fixedHeader"
    BY <1>2, <1>7, <1>11, <1>19
  <2>2. got' = Append(all, p)
    BY <1>2, <1>3, <1>7, <1>17, <1>19, WholePart
  <2>3. Append(all, p) = SubSeq(Meant, 1, n + 1)
    <3>1. Meant \in Seq(Packets) /\ n + 1 \in 1 .. Len(Meant) /\ (n + 1) - 1 = n
      BY <1>0, <1>4, PacketAt, MeantIs
    <3>2. 1 \in 1 .. Len(Meant)
      BY <3>1
    <3>3. SubSeq(Meant, 1, n + 1) = SubSeq(Meant, 1, (n + 1) - 1) \o <<Meant[n + 1]>>
      BY <3>1, <3>2, SubSeqRecursiveSecond
    <3>4. Append(all, p) = all \o <<p>>
      BY <1>3, <1>15
    <3> QED BY <1>4, <1>14, <3>1, <3>3, <3>4
  <2>4. pos' = Ending(n) + Size(p)
    <3>1. Size(p) = a + l
      BY <1>2, <1>3, <1>6, <1>7, PayloadBytes
    <3> QED BY <1>18, <1>19, <3>1
  <2>5. got' = SubSeq(Meant, 1, n + 1)
    BY <2>2, <2>3
  <2> QED BY <1>0, <1>4, <1>a, <2>1, <2>4, <2>5, Finishes
<1>20. CASE i + k # l
  <2>1. fn' = "payloadPublish"
    BY <1>0, <1>2, <1>7, <1>11, <1>20
  <2>2. pk'.index + pk'.length = i + k /\ i + k < l /\ i + k > 0
    BY <1>10, <1>12, <1>20
  <2>3. o = PayloadAt(p) + pk'.index + pk'.length
    BY <1>6, <1>10, <1>12, <1>18
  <2>4. AmidPayload(p, o)'
    BY <1>2, <1>7, <1>12, <2>1, <2>2, <2>3 DEF AmidPayload
  <2>5. Amid(p, o)'
    BY <2>4 DEF Amid
  <2>6. Given(n)'
    <3>1. fn' = "payloadPublish" /\ pk'.index + pk'.length > 0
      BY <2>1, <2>2
    <3>2. got' = Append(SubSeq(Meant, 1, n), [p EXCEPT !.payload = SubSeq(@, 1, i + k)])
      BY <1>14, <1>17 DEF Part
    <3>3. got' = Append(SubSeq(Meant', 1, n),
                        [Meant'[n + 1] EXCEPT !.payload = SubSeq(@, 1, pk'.index + pk'.length)])
      BY <1>4, <1>5, <2>2, <3>2
    <3> QED BY <3>1, <3>3 DEF Given
  <2>7. pk'.header = HeaderOf(p)
    BY <1>4, <1>12
  <2> QED BY <1>0, <1>4, <1>18, <1>a, <2>5, <2>6, <2>7, GoesOn
<1> QED BY <1>19, <1>20

LEMMA OrderStays ==
  ASSUME InOrder, UNCHANGED <<sent, stream, pos, fn, bytePos, pk, got, error>>
  PROVE  InOrder'
<1>0. sent' = sent /\ stream' = stream /\ pos' = pos /\ error' = error
  OBVIOUS
<1>1. /\ Meant' = Meant /\ Sense' = Sense /\ pos' = pos /\ fn' = fn /\ bytePos' = bytePos
      /\ pk' = pk /\ got' = got
  BY Unmoved
<1>2. ASSUME NEW p, NEW off PROVE Amid(p, off)' <=> Amid(p, off)
  <2>1. BeforeId(p)' <=> BeforeId(p)
    BY <1>1 DEF BeforeId, Unstarted
  <2>2. /\ AmidLengthFixed(p, off)' <=> AmidLengthFixed(p, off)
        /\ AmidLengthNone(p, off)' <=> AmidLengthNone(p, off)
        /\ AmidLengthVariable(p, off)' <=> AmidLengthVariable(p, off)
    BY <1>1 DEF AmidLengthFixed, AmidLengthNone, AmidLengthVariable, Unstarted
  <2>3. /\ AmidConnack1(p, off)' <=> AmidConnack1(p, off)
        /\ AmidConnack2(p, off)' <=> AmidConnack2(p, off)
    BY <1>1 DEF AmidConnack1, AmidConnack2
  <2>4. /\ AmidId1(p, off)' <=> AmidId1(p, off)
        /\ AmidId2(p, off)' <=> AmidId2(p, off)
    BY <1>1, <2>1 DEF AmidId1, AmidId2
  <2>5. /\ AmidTopicLength1(p, off)' <=> AmidTopicLength1(p, off)
        /\ AmidTopicLength2(p, off)' <=> AmidTopicLength2(p, off)
        /\ AmidTopic(p, off)' <=> AmidTopic(p, off)
    BY <1>1 DEF AmidTopicLength1, AmidTopicLength2, AmidTopic, Unstarted
  <2>6. /\ AmidCodes(p, off)' <=> AmidCodes(p, off)
        /\ AmidPayload(p, off)' <=> AmidPayload(p, off)
    BY <1>1 DEF AmidCodes, AmidPayload
  <2> QED BY <2>2, <2>3, <2>4, <2>5, <2>6, Zenon DEF Amid
<1>3. ASSUME NEW n PROVE Ending(n)' = Ending(n) /\ (Given(n)' <=> Given(n))
  BY <1>0, <1>1, Unmoved DEF Given
<1>4. ASSUME NEW n PROVE (Behind(n)' <=> Behind(n)) /\ (Inside(n)' <=> Inside(n))
  BY <1>1, <1>2, <1>3 DEF Behind, Inside
<1> QED BY <1>0, <1>1, <1>4 DEF InOrder, Sound

LEMMA OrderRead == InOrder /\ Read => InOrder'
BY OrderStays DEF Read

LEMMA NothingFirst ==
  ASSUME NEW packets \in Seq(Packets)
  PROVE  /\ Len(StreamedFirst(packets)[0]) = 0 /\ SubSeq(packets, 1, 0) = <<>>
         /\ 0 \in 0 .. Len(packets)
<1>1. StreamedFirst(packets)[0] = <<>>
  BY StreamedGrows, Zenon DEF Grows
<1>2. 0 \in 0 .. Len(packets) /\ SubSeq(packets, 1, 0) = <<>>
  OBVIOUS
<1> QED BY <1>1, <1>2
-----------------------------------------------------------------------------
(* One step inside a packet *)

\* The parser is inside a packet when it has taken some of its bytes.
LEMMA AmidIsInside ==
  ASSUME IInv, NEW p \in Packets, NEW off, Amid(p, off)
  PROVE  off \in Nat /\ 0 < off /\ off < Size(p) /\ fn # "fixedHeader"
<1>0. bytePos \in Nat /\ pk.index \in Nat /\ pk.length \in Nat
  BY DEF IInv, TypeInv, PacketFields
<1>1. PICK a \in Nat : a = Start(p) /\ a >= 2
  <2>1. Start(p) \in 2 .. 5
    BY PacketBytes
  <2> QED BY <2>1
<1>2. PICK b \in Nat : b = Len(Body(p))
  BY BodyTyped
<1>3. Size(p) = a + b
  BY <1>1, <1>2 DEF Size
<1>4. ASSUME p.type = PUBLISH
      PROVE  \E t \in Nat : t = Len(p.topic) /\ b >= 2 + t
  <2>1. PICK t, l, d \in Nat : /\ t = Len(p.topic) /\ l = Len(p.payload) /\ d = IdLength(p)
                               /\ Len(Body(p)) = 2 + t + d + l
    <3>1. IdLength(p) \in Nat
      BY DEF IdLength
    <3> QED BY <1>4, <3>1, PayloadLength
  <2>2. b >= 2 + t
    BY <1>2, <2>1
  <2> QED BY <2>1, <2>2
<1>5. ASSUME BeforeId(p) PROVE IdAt(p) \in Nat /\ IdAt(p) >= 2 /\ IdAt(p) + 2 <= Size(p)
  <2>1. p.type \in Acks \cup {SUBACK, PUBLISH} /\ (p.type = PUBLISH => HasId(p.flags))
    BY <1>5, Zenon DEF BeforeId
  <2>2. IdAt(p) \in Nat /\ IdAt(p) + 2 <= Size(p)
    BY <2>1, IdBytes
  <2>3. CASE p.type = PUBLISH
    <3>1. PICK t \in Nat : t = Len(p.topic)
      BY <1>4, <2>3
    <3>2. IdAt(p) = a + (2 + t)
      BY <1>1, <2>3, <3>1 DEF IdAt
    <3> QED BY <1>1, <2>2, <3>2
  <2>4. CASE p.type # PUBLISH
    <3>1. IdAt(p) = a
      BY <1>1, <2>4 DEF IdAt
    <3> QED BY <1>1, <2>2, <3>1
  <2> QED BY <2>3, <2>4
<1>6. CASE AmidLengthFixed(p, off) \/ AmidLengthNone(p, off)
  <2>1. off = 1 /\ fn # "fixedHeader"
    BY <1>6 DEF AmidLengthFixed, AmidLengthNone
  <2> QED BY <1>1, <1>3, <2>1
<1>7. CASE AmidLengthVariable(p, off)
  <2>1. off = 1 + bytePos /\ bytePos < Len(LengthBytes(p)) /\ fn # "fixedHeader"
    BY <1>7 DEF AmidLengthVariable
  <2>2. Len(LengthBytes(p)) = a - 1
    BY <1>1, PacketBytes
  <2>3. off \in Nat /\ 0 < off /\ off < a + b
    BY <1>0, <1>1, <2>1, <2>2
  <2> QED BY <1>3, <2>1, <2>3
<1>8. CASE AmidConnack1(p, off) \/ AmidConnack2(p, off)
  <2>1. off \in {2, 3} /\ p.type = CONNACK /\ fn # "fixedHeader"
    BY <1>8 DEF AmidConnack1, AmidConnack2
  <2>2. b = 2
    BY <1>2, <2>1, ConnackBody
  <2> QED BY <1>1, <1>3, <2>1, <2>2
<1>9. CASE AmidId1(p, off) \/ AmidId2(p, off)
  <2>1. off \in {IdAt(p), IdAt(p) + 1} /\ BeforeId(p) /\ fn # "fixedHeader"
    BY <1>9 DEF AmidId1, AmidId2
  <2>2. PICK i \in Nat : i = IdAt(p) /\ i >= 2 /\ i + 2 <= a + b
    BY <1>3, <1>5, <2>1
  <2>3. off \in Nat /\ 0 < off /\ off < a + b
    BY <2>1, <2>2
  <2> QED BY <1>3, <2>1, <2>3
<1>10. CASE AmidTopicLength1(p, off) \/ AmidTopicLength2(p, off)
  <2>1. off \in {a, a + 1} /\ p.type = PUBLISH /\ fn # "fixedHeader"
    BY <1>1, <1>10 DEF AmidTopicLength1, AmidTopicLength2
  <2>2. PICK t \in Nat : b >= 2 + t
    BY <1>4, <2>1
  <2>3. off \in Nat /\ 0 < off /\ off < a + b
    BY <1>1, <2>1, <2>2
  <2> QED BY <1>3, <2>1, <2>3
<1>11. CASE AmidTopic(p, off)
  <2>1. off = a + 2 + bytePos /\ bytePos < Len(p.topic) /\ p.type = PUBLISH
        /\ fn # "fixedHeader"
    BY <1>1, <1>11 DEF AmidTopic
  <2>2. PICK t \in Nat : t = Len(p.topic) /\ b >= 2 + t
    BY <1>4, <2>1
  <2>3. off \in Nat /\ 0 < off /\ off < a + b
    BY <1>0, <1>1, <2>1, <2>2
  <2> QED BY <1>3, <2>1, <2>3
<1>12. CASE AmidCodes(p, off)
  <2>1. off = a + 2 + bytePos /\ bytePos < Len(p.codes) /\ p.type = SUBACK
        /\ fn # "fixedHeader"
    BY <1>1, <1>12 DEF AmidCodes
  <2>2. PICK t \in Nat : t = Len(p.codes) /\ b = 2 + t
    BY <1>2, <2>1, SubackBody
  <2>3. off \in Nat /\ 0 < off /\ off < a + b
    BY <1>0, <1>1, <2>1, <2>2
  <2> QED BY <1>3, <2>1, <2>3
<1>13. CASE AmidPayload(p, off)
  <2>1. off = PayloadAt(p) + pk.index + pk.length /\ pk.index + pk.length < Len(p.payload)
        /\ p.type = PUBLISH /\ fn # "fixedHeader"
    BY <1>13 DEF AmidPayload
  <2>2. PICK c \in Nat : c = PayloadAt(p) /\ Size(p) = c + Len(p.payload)
    BY <2>1, PayloadBytes
  <2>3. PICK l \in Nat : l = Len(p.payload)
    BY <2>1, PayloadLength
  <2>4. c > 0
    <3>1. PICK t \in Nat : t = Len(p.topic)
      BY <1>4, <2>1
    <3>2. IdLength(p) \in Nat /\ c = a + (2 + t) + IdLength(p)
      BY <1>1, <2>1, <2>2, <3>1 DEF PayloadAt, IdAt, IdLength
    <3> QED BY <1>1, <3>2
  <2>5. off \in Nat /\ 0 < off /\ off < c + l
    BY <1>0, <2>1, <2>2, <2>3, <2>4
  <2> QED BY <2>1, <2>2, <2>3, <2>5
<1> QED BY <1>6, <1>7, <1>8, <1>9, <1>10, <1>11, <1>12, <1>13, Zenon DEF Amid

-----------------------------------------------------------------------------
(* What is no packet is refused *)

\* The byte that comes next is the wrong one, in the packet that it spoils.
Misplaced(w) ==
  /\ Sound /\ Spoilt /\ pos = Sense /\ w \in Wrongs /\ Byte = w.byte /\ Byte \in Octet
  /\ got = SubSeq(Meant, 1, Len(sent) - 1)
  /\ \/ fn = "fixedHeader" /\ w.at = 0
     \/ Place(Len(sent) - 1, w.of, w.at) /\ w.at > 0 /\ fn # "payloadPublish"

\* It was parsed: nothing is given out any more.
Refused ==
  /\ Sound /\ error /\ Spoilt /\ pos = Sense + 1
  /\ got = SubSeq(Meant, 1, Len(sent) - 1)

LEMMA AtWrong ==
  ASSUME IInv, InOrder, pos = Sense, pos < avail
  PROVE  \E w : Misplaced(w)
<1>0. Sound /\ pos \in Nat /\ Byte \in Octet
  BY ByteTyped DEF InOrder, IInv, TypeInv
<1>1. PICK l \in Nat : l = Len(sent) /\ l = Len(Meant)
  BY <1>0, MeantIs
<1>2. Spoilt
  <2>1. Len(stream) \in Nat /\ pos < Len(stream)
    BY <1>0, SenseIs DEF IInv, TypeInv
  <2> QED BY <1>0, <2>1, SenseIs
<1>3. PICK w : w = sent[l]
  OBVIOUS
<1>4. /\ l >= 1 /\ w \in Wrongs /\ Meant[l] = w.of /\ w.at \in Nat
      /\ Ending(l - 1) \in Nat /\ Sense = Ending(l - 1) + w.at /\ Sense < Ending(l)
      /\ Ending(l) \in Nat /\ stream[Sense + 1] = w.byte
  BY <1>0, <1>1, <1>2, <1>3, SenseIs DEF Beyond
<1>5. Byte = w.byte
  BY <1>4 DEF Byte
<1>6. ASSUME NEW k \in 0 .. l, NEW j \in 0 .. k
      PROVE  Ending(j) <= Ending(k) /\ Ending(j) \in Nat /\ Ending(k) \in Nat
                /\ (j < k => Ending(j) < Ending(k))
  <2>1. k \in 0 .. Len(Meant)
    BY <1>1
  <2> QED BY <1>0, <2>1, MeantIs, EndsIncrease DEF Ending
<1>7. PICK n \in 0 .. l : Behind(n) \/ Inside(n)
  BY <1>1 DEF InOrder
<1>8. CASE Behind(n)
  <2>1. fn = "fixedHeader" /\ pos = Ending(n) /\ got = SubSeq(Meant, 1, n)
    BY <1>8 DEF Behind
  <2>2. CASE n = l
    BY <1>0, <1>4, <2>1, <2>2
  <2>3. CASE n < l - 1
    <3>1. l - 1 \in 0 .. l /\ n \in 0 .. l - 1
      BY <1>4, <2>3
    <3>2. Ending(n) < Ending(l - 1)
      BY <1>6, <2>3, <3>1
    <3> QED BY <1>0, <1>4, <2>1, <3>2
  <2>4. CASE n = l - 1
    <3>1. w.at = 0
      BY <1>0, <1>4, <2>1, <2>4
    <3>2. Misplaced(w)
      BY <1>0, <1>1, <1>2, <1>4, <1>5, <2>1, <2>4, <3>1 DEF Misplaced
    <3> QED BY <3>2
  <2> QED BY <1>4, <2>2, <2>3, <2>4
<1>9. CASE Inside(n)
  <2>1. n \in 0 .. l - 1
    BY <1>1, <1>9 DEF Inside
  <2>2. PICK p \in Packets : p = Meant[n + 1]
    BY <1>0, <1>1, <2>1, PacketAt
  <2>3. PICK off : off = pos - Ending(n)
    OBVIOUS
  <2>4. Amid(p, off) /\ pk.header = HeaderOf(p) /\ Given(n)
    BY <1>9, <2>2, <2>3 DEF Inside
  <2>5. off \in Nat /\ 0 < off /\ off < Size(p) /\ fn # "fixedHeader"
    BY <2>4, AmidIsInside
  <2>6. /\ Ending(n) \in Nat /\ Ending(n + 1) = Ending(n) + Size(p) /\ Size(p) \in Nat
        /\ pos = Ending(n) + off /\ pos < Ending(n + 1)
    <3>1. Ending(n) \in Nat /\ Ending(n + 1) = Ending(n) + Size(p) /\ Size(p) \in Nat
      BY <1>0, <1>1, <2>1, <2>2, PacketAt
    <3> QED BY <1>0, <2>3, <2>5, <3>1
  <2>7. n = l - 1
    <3>1. CASE n < l - 1
      <4>1. l - 1 \in 0 .. l /\ n + 1 \in 0 .. l - 1
        BY <1>4, <3>1
      <4>2. Ending(n + 1) <= Ending(l - 1)
        BY <1>6, <4>1
      <4> QED BY <1>0, <1>4, <2>6, <4>2
    <3> QED BY <1>1, <2>1, <3>1
  <2>8. p = w.of /\ off = w.at
    <3>1. n + 1 = l
      BY <1>1, <2>7
    <3>2. Ending(n) + off = Ending(n) + w.at
      BY <1>4, <2>6, <2>7
    <3> QED BY <1>4, <2>2, <2>5, <2>6, <3>1, <3>2
  <2>9. fn # "payloadPublish"
    <3>1. ASSUME fn = "payloadPublish" PROVE FALSE
      <4>1. AmidPayload(p, off)
        BY <2>4, <3>1, Zenon DEF Amid, AmidLengthFixed, AmidLengthNone, AmidLengthVariable,
           AmidConnack1, AmidConnack2, AmidId1, AmidId2, AmidTopicLength1, AmidTopicLength2,
           AmidTopic, AmidCodes, AmidPayload
      <4>2. p.type = PUBLISH /\ off = PayloadAt(p) + pk.index + pk.length
        BY <4>1 DEF AmidPayload
      <4>3. pk.index \in Nat /\ pk.length \in Nat
        BY DEF IInv, TypeInv, PacketFields
      <4>4. off < PayloadAt(p) /\ PayloadAt(p) \in Nat
        BY <1>4, <2>8, <4>2, NoneInPayload, PayloadBytes
      <4> QED BY <2>5, <4>2, <4>3, <4>4
    <3> QED BY <3>1
  <2>10. got = SubSeq(Meant, 1, n)
    BY <2>4, <2>9 DEF Given
  <2>11. Place(n, p, off)
    BY <1>1, <2>1, <2>2, <2>4, <2>6 DEF Place
  <2>12. Misplaced(w)
    BY <1>0, <1>1, <1>2, <1>4, <1>5, <2>5, <2>7, <2>8, <2>9, <2>10, <2>11 DEF Misplaced
  <2> QED BY <2>12
<1> QED BY <1>7, <1>8, <1>9

LEMMA Refuses ==
  ASSUME IInv, InOrder, pos = Sense, pos < avail, NEW f, Wrong(f), UNCHANGED buffer
  PROVE  Refused'
<1>0. PICK w : Misplaced(w)
  BY AtWrong
<1>1. sent' = sent /\ stream' = stream /\ pos' = pos + 1 /\ error' /\ got' = got
  BY DEF Wrong, buffer
<1>2. Meant' = Meant /\ Sense' = Sense
  BY <1>1, Unmoved
<1>3. Spoilt'
  BY <1>0, <1>1 DEF Misplaced, Spoilt, IsNonsense
<1>4. Sound /\ got = SubSeq(Meant, 1, Len(sent) - 1)
  BY <1>0 DEF Misplaced
<1> QED BY <1>1, <1>2, <1>3, <1>4 DEF Refused, Sound

\* Where the body of a packet is, and its id.
Layout(p, a, i) ==
  /\ a = Start(p) /\ i = IdAt(p) /\ Len(LengthBytes(p)) = a - 1
  /\ p.type = PUBLISH => i = a + 2 + Len(p.topic) /\ Len(p.topic) \in Nat
  /\ p.type # PUBLISH => i = a

LEMMA LayoutAt ==
  ASSUME NEW p \in Packets
  PROVE  \E a \in 2 .. 5, i \in Nat : Layout(p, a, i)
<1>1. PICK a \in 2 .. 5 : a = Start(p) /\ Len(LengthBytes(p)) = a - 1
  BY PacketBytes
<1>2. ASSUME p.type = PUBLISH
      PROVE  IdAt(p) = a + 2 + Len(p.topic) /\ Len(p.topic) \in Nat
  <2>1. PICK t \in Nat : t = Len(p.topic)
    BY <1>2, PayloadLength
  <2>2. IdAt(p) = a + (2 + t)
    BY <1>1, <1>2, <2>1 DEF IdAt
  <2>3. a + (2 + t) = a + 2 + t
    OBVIOUS
  <2> QED BY <2>1, <2>2, <2>3
<1>3. ASSUME p.type # PUBLISH PROVE IdAt(p) = a
  <2>1. IdAt(p) = a + 0
    BY <1>1, <1>3, Zenon DEF IdAt
  <2>2. a + 0 = a
    OBVIOUS
  <2> QED BY <2>1, <2>2
<1>4. IdAt(p) \in Nat
  <2>1. CASE p.type = PUBLISH
    <3>1. PICK t \in Nat : t = Len(p.topic) /\ IdAt(p) = a + 2 + t
      BY <1>2, <2>1
    <3>2. a + 2 + t \in Nat
      OBVIOUS
    <3> QED BY <3>1, <3>2
  <2>2. CASE p.type # PUBLISH
    BY <1>3, <2>2
  <2> QED BY <2>1, <2>2
<1>5. Layout(p, a, IdAt(p))
  BY <1>1, <1>2, <1>3, Zenon DEF Layout
<1> QED BY <1>4, <1>5

\* The parser is inside p, before a byte that is wrong: where that is.
Misread(p, off, a, i) ==
  /\ Amid(p, off) /\ Layout(p, a, i) /\ Byte \in Octet
  /\ Type(pk) = p.type
  /\ p.type = PUBLISH => Flags(pk) = p.flags
  /\ WrongLength(p, off, Byte) \/ WrongBody(p, off, Byte)

LEMMA WrongThere ==
  ASSUME IInv, InOrder, pos = Sense, pos < avail, fn # "fixedHeader"
  PROVE  /\ fn # "payloadPublish"
         /\ \E p \in Packets, off \in Nat, a \in 2 .. 5, i \in Nat : Misread(p, off, a, i)
<1>0. PICK w : Misplaced(w)
  BY AtWrong
<1>w. w.at > 0 /\ fn # "payloadPublish"
  BY <1>0 DEF Misplaced
<1>1. PICK p : p = w.of
  OBVIOUS
<1>2. p \in Packets /\ w.at \in Nat /\ Byte \in Octet /\ Byte = w.byte
  BY <1>0, <1>1, TypeTells DEF Misplaced
<1>3. WrongLength(p, w.at, Byte) \/ WrongBody(p, w.at, Byte)
  BY <1>0, <1>1, <1>w, <1>2 DEF Misplaced, Wrongs
<1>4. Place(Len(sent) - 1, p, w.at)
  BY <1>0, <1>1, <1>w, <1>2 DEF Misplaced
<1>5. Type(pk) = p.type /\ (p.type = PUBLISH => Flags(pk) = p.flags) /\ Amid(p, w.at)
  BY <1>4, HeaderKnown DEF Place
<1>6. PICK a \in 2 .. 5, i \in Nat : Layout(p, a, i)
  BY <1>2, LayoutAt
<1>7. Misread(p, w.at, a, i)
  BY <1>2, <1>3, <1>5, <1>6, Zenon DEF Misread
<1> QED BY <1>w, <1>2, <1>7

LEMMA RefusesFixedHeader == IInv /\ InOrder /\ pos = Sense /\ FixedHeader => Refused'
<1> SUFFICES ASSUME IInv, InOrder, pos = Sense, FixedHeader PROVE Refused'
  OBVIOUS
<1>0. fn = "fixedHeader" /\ pos < avail /\ UNCHANGED buffer
  BY DEF FixedHeader, At
<1>1. PICK w : Misplaced(w)
  BY <1>0, AtWrong
<1>2. WrongHeader(Byte)
  <2>1. PICK p, b : p = w.of /\ b = w.byte
    OBVIOUS
  <2>2. w.at = 0 /\ Byte = b /\ p \in Packets
    <3>1. ASSUME NEW n, NEW q, NEW off, Place(n, q, off) PROVE fn # "fixedHeader"
      BY <3>1, HeaderKnown, AmidIsInside DEF Place
    <3> QED BY <1>0, <1>1, <2>1, <3>1, TypeTells DEF Misplaced
  <2>3. WrongHeader(b) \/ WrongLength(p, 0, b) \/ WrongBody(p, 0, b)
    BY <1>1, <2>1, <2>2 DEF Misplaced, Wrongs
  <2>4. ~WrongLength(p, 0, b)
    BY DEF WrongLength
  <2>5. ~WrongBody(p, 0, b)
    <3>1. PICK a \in 2 .. 5, i \in Nat : Layout(p, a, i)
      BY <2>2, LayoutAt
    <3>2. 0 # i + 1 /\ 0 # a + 1 /\ ~(0 >= a + 2) /\ 0 # 2 /\ 0 # 3
      OBVIOUS
    <3>3. a = Start(p) /\ i = IdAt(p)
      BY <3>1 DEF Layout
    <3> QED BY <3>2, <3>3, Zenon DEF WrongBody
  <2> QED BY <2>2, <2>3, <2>4, <2>5
<1>3. PICK t, g : t = Byte \div 16 /\ g = Byte % 16
  OBVIOUS
<1>4. IF t = PUBLISH THEN ~ValidFlags(g)
      ELSE t \notin Acks \cup {CONNACK, SUBACK, PINGRESP} \/ g # Reserved(t)
  BY <1>2, <1>3 DEF WrongHeader
<1>5. \/ /\ \/ t = PUBLISH /\ ValidFlags(g)
            \/ t = SUBACK /\ g = Reserved(t)
         /\ Await("remainingLengthVariable") /\ bytePos' = 0
      \/ t \in Acks \cup {CONNACK} /\ g = Reserved(t) /\ Await("remainingLengthFixed")
      \/ t = PINGRESP /\ g = 0 /\ Await("remainingLengthNone")
      \/ Wrong(fn)
  BY <1>3, Zenon DEF FixedHeader
<1>6. Reserved(PINGRESP) = 0
  BY TypeNumbers DEF Reserved
<1>7. Wrong(fn)
  BY <1>4, <1>5, <1>6, TypeNumbers
<1> QED BY <1>0, <1>7, Refuses

LEMMA RefusesRemainingLengthFixed ==
  IInv /\ InOrder /\ pos = Sense /\ RemainingLengthFixed => Refused'
<1> SUFFICES ASSUME IInv, InOrder, pos = Sense, RemainingLengthFixed PROVE Refused'
  OBVIOUS
<1>0. fn = "remainingLengthFixed" /\ pos < avail /\ UNCHANGED buffer
  BY DEF RemainingLengthFixed, At
<1>2. PICK p \in Packets, off \in Nat, a \in 2 .. 5, i \in Nat : Misread(p, off, a, i)
  BY <1>0, WrongThere
<1>3. off = 1 /\ p.type \in Acks \cup {CONNACK}
  <2>1. AmidLengthFixed(p, off)
    BY <1>0, <1>2, Zenon DEF Misread, Amid, AmidLengthFixed, AmidLengthNone,
       AmidLengthVariable, AmidConnack1, AmidConnack2, AmidId1, AmidId2, AmidTopicLength1,
       AmidTopicLength2, AmidTopic, AmidCodes, AmidPayload
  <2> QED BY <2>1 DEF AmidLengthFixed
<1>4. Byte # 2
  <2>1. p.type # PUBLISH /\ p.type # SUBACK /\ p.type # PINGRESP
    BY <1>3, TypeNumbers
  <2>2. i = IdAt(p) /\ off # i + 1 /\ off # 2 /\ off # 3
    BY <1>2, <1>3, <2>1 DEF Misread, Layout
  <2>3. ~WrongBody(p, off, Byte)
    BY <2>1, <2>2, Zenon DEF WrongBody
  <2> QED BY <1>2, <1>3, <2>1, <2>3 DEF Misread, WrongLength
<1>5. Wrong("fixedHeader")
  BY <1>4 DEF RemainingLengthFixed
<1> QED BY <1>0, <1>5, Refuses

LEMMA RefusesRemainingLengthNone ==
  IInv /\ InOrder /\ pos = Sense /\ RemainingLengthNone => Refused'
<1> SUFFICES ASSUME IInv, InOrder, pos = Sense, RemainingLengthNone PROVE Refused'
  OBVIOUS
<1>0. fn = "remainingLengthNone" /\ pos < avail /\ UNCHANGED buffer
  BY DEF RemainingLengthNone, At
<1>2. PICK p \in Packets, off \in Nat, a \in 2 .. 5, i \in Nat : Misread(p, off, a, i)
  BY <1>0, WrongThere
<1>3. off = 1 /\ p.type = PINGRESP
  <2>1. AmidLengthNone(p, off)
    BY <1>0, <1>2, Zenon DEF Misread, Amid, AmidLengthFixed, AmidLengthNone,
       AmidLengthVariable, AmidConnack1, AmidConnack2, AmidId1, AmidId2, AmidTopicLength1,
       AmidTopicLength2, AmidTopic, AmidCodes, AmidPayload
  <2> QED BY <2>1 DEF AmidLengthNone
<1>4. Byte # 0
  <2>1. p.type \notin Acks \cup {CONNACK, SUBACK, PUBLISH}
    BY <1>3, TypeNumbers
  <2>2. ~WrongBody(p, off, Byte)
    BY <2>1, Zenon DEF WrongBody, Identified
  <2> QED BY <1>2, <1>3, <2>1, <2>2 DEF Misread, WrongLength
<1>5. Wrong("fixedHeader")
  BY <1>4 DEF RemainingLengthNone
<1> QED BY <1>0, <1>5, Refuses

\* What is decoded depends on the bytes up to the first that does not continue.
LEMMA SameLength ==
  ASSUME NEW x, NEW y, NEW m \in 0 .. 3, \A j \in 1 .. m + 1 : x[j] = y[j],
         ~Continues(x[m + 1]), \A j \in 1 .. m : Continues(x[j])
  PROVE  decodeRemainingLength(x) = decodeRemainingLength(y)
<1> DEFINE D(z, k, higher) ==
             (z[k] % Radix) + (IF Continues(z[k]) THEN Radix * higher ELSE 0)
<1>1. ASSUME NEW z, NEW k \in 1 .. 4, ~Continues(z[k])
      PROVE  decodeRemainingLength(z) = D(z, 1, D(z, 2, D(z, 3, z[4] % Radix)))
  BY <1>1, Zenon DEF decodeRemainingLength
<1>2. ASSUME NEW z, NEW k, ~Continues(z[k]), NEW h PROVE D(z, k, h) = D(z, k, 0)
  <2>1. D(z, k, h) = (z[k] % Radix) + 0 /\ D(z, k, 0) = (z[k] % Radix) + 0
    BY <1>2, Zenon
  <2> QED BY <2>1
<1>3. ASSUME NEW k, x[k] = y[k], NEW h PROVE D(x, k, h) = D(y, k, h)
  BY <1>3
<1>4. m + 1 \in 1 .. 4 /\ m + 1 \in 1 .. m + 1 /\ ~Continues(y[m + 1])
  <2>1. m + 1 \in 1 .. 4 /\ m + 1 \in 1 .. m + 1
    OBVIOUS
  <2>2. x[m + 1] = y[m + 1]
    BY <2>1
  <2> QED BY <2>1, <2>2
<1>5. /\ decodeRemainingLength(x) = D(x, 1, D(x, 2, D(x, 3, x[4] % Radix)))
      /\ decodeRemainingLength(y) = D(y, 1, D(y, 2, D(y, 3, y[4] % Radix)))
  BY <1>1, <1>4
<1>6. CASE m = 0
  <2>1. D(x, 1, D(x, 2, D(x, 3, x[4] % Radix))) = D(x, 1, 0)
    BY <1>2, <1>6
  <2>2. D(y, 1, D(y, 2, D(y, 3, y[4] % Radix))) = D(y, 1, 0)
    BY <1>2, <1>4, <1>6
  <2>3. D(x, 1, 0) = D(y, 1, 0)
    BY <1>3, <1>6
  <2> QED BY <1>5, <2>1, <2>2, <2>3
<1>7. CASE m = 1
  <2>1. D(x, 2, D(x, 3, x[4] % Radix)) = D(x, 2, 0)
    BY <1>2, <1>7
  <2>2. D(y, 2, D(y, 3, y[4] % Radix)) = D(y, 2, 0)
    BY <1>2, <1>4, <1>7
  <2>3. D(x, 2, 0) = D(y, 2, 0)
    BY <1>3, <1>7
  <2>4. D(x, 1, D(x, 2, 0)) = D(y, 1, D(x, 2, 0))
    BY <1>3, <1>7
  <2> QED BY <1>5, <2>1, <2>2, <2>3, <2>4
<1>8. CASE m = 2
  <2>1. D(x, 3, x[4] % Radix) = D(x, 3, 0)
    BY <1>2, <1>8
  <2>2. D(y, 3, y[4] % Radix) = D(y, 3, 0)
    BY <1>2, <1>4, <1>8
  <2>3. D(x, 3, 0) = D(y, 3, 0)
    BY <1>3, <1>8
  <2>4. D(x, 2, D(x, 3, 0)) = D(y, 2, D(x, 3, 0))
    BY <1>3, <1>8
  <2>5. D(x, 1, D(x, 2, D(x, 3, 0))) = D(y, 1, D(x, 2, D(x, 3, 0)))
    BY <1>3, <1>8
  <2> QED BY <1>5, <2>1, <2>2, <2>3, <2>4, <2>5
<1>9. CASE m = 3
  <2>1. x[1] = y[1] /\ x[2] = y[2] /\ x[3] = y[3] /\ x[4] = y[4]
    BY <1>9
  <2>2. D(x, 3, x[4] % Radix) = D(y, 3, x[4] % Radix)
    BY <1>3, <2>1
  <2>3. D(x, 2, D(x, 3, x[4] % Radix)) = D(y, 2, D(x, 3, x[4] % Radix))
    BY <1>3, <2>1
  <2>4. D(x, 1, D(x, 2, D(x, 3, x[4] % Radix))) = D(y, 1, D(x, 2, D(x, 3, x[4] % Radix)))
    BY <1>3, <2>1
  <2> QED BY <1>5, <2>1, <2>2, <2>3, <2>4
<1> QED BY <1>6, <1>7, <1>8, <1>9

LEMMA RefusesRemainingLengthVariable ==
  IInv /\ InOrder /\ pos = Sense /\ RemainingLengthVariable => Refused'
<1> SUFFICES ASSUME IInv, InOrder, pos = Sense, RemainingLengthVariable PROVE Refused'
  OBVIOUS
<1>0. /\ fn = "remainingLengthVariable" /\ pos < avail /\ UNCHANGED buffer
      /\ pk \in PacketFields /\ bytePos \in Nat
  BY DEF RemainingLengthVariable, At, IInv, TypeInv
<1>1. PICK p \in Packets, off \in Nat, a \in 2 .. 5, i \in Nat : Misread(p, off, a, i)
  BY <1>0, WrongThere
<1>2. AmidLengthVariable(p, off)
  BY <1>0, <1>1, Zenon DEF Misread, Amid, AmidLengthFixed, AmidLengthNone,
     AmidLengthVariable, AmidConnack1, AmidConnack2, AmidId1, AmidId2, AmidTopicLength1,
     AmidTopicLength2, AmidTopic, AmidCodes, AmidPayload
<1>a. PICK m \in Nat : m = bytePos
  BY <1>0
<1>b. PICK e : e = LengthBytes(p)
  OBVIOUS
<1>3. e = LengthBytes(p) /\ m = bytePos
  BY <1>a, <1>b
<1>4. /\ off = 1 + m /\ p.type \in {SUBACK, PUBLISH} /\ m < a - 1 /\ Len(e) = a - 1
      /\ \A j \in 1 .. m : pk.raw[j] = e[j]
  BY <1>1, <1>2, <1>3 DEF AmidLengthVariable, Misread, Layout
<1>5. p.type \notin Acks \cup {CONNACK, PINGRESP} /\ (p.type = SUBACK => p.type # PUBLISH)
  BY <1>4, TypeNumbers
<1>6. PICK raw : raw = [pk.raw EXCEPT ![m + 1] = Byte]
  OBVIOUS
<1>7. Byte \in Octet /\ raw \in [1 .. 4 -> Octet] /\ raw[m + 1] = Byte
      /\ \A j \in 1 .. m : raw[j] = e[j]
  <2>1. pk.raw \in [1 .. 4 -> Octet] /\ Byte \in Octet
    BY <1>0, <1>1 DEF PacketFields, Misread
  <2>2. m + 1 \in 1 .. 4
    BY <1>4
  <2> QED BY <1>4, <1>6, <2>1, <2>2
<1>8. \/ /\ Continues(Byte) /\ bytePos' = bytePos + 1
         /\ IF bytePos' = 4 THEN Wrong(fn) ELSE Await(fn)
      \/ ~Continues(Byte) /\ LengthKnown(raw)
  BY <1>3, <1>6, Zenon DEF RemainingLengthVariable
<1>9. ~WrongBody(p, off, Byte)
  <2>1. a = Start(p) /\ i = IdAt(p)
    BY <1>1 DEF Misread, Layout
  <2>2. i >= a
    <3>1. CASE p.type = PUBLISH
      <4>1. PICK t \in Nat : t = Len(p.topic) /\ i = a + 2 + t
        BY <1>1, <3>1 DEF Misread, Layout
      <4>2. a + 2 + t >= a
        OBVIOUS
      <4> QED BY <4>1, <4>2
    <3>2. CASE p.type # PUBLISH
      BY <1>1, <3>2 DEF Misread, Layout
    <3> QED BY <3>1, <3>2
  <2>3. off # i + 1 /\ ~(off >= a + 2) /\ off # a + 1
    BY <1>4, <2>2
  <2>4. off # IdAt(p) + 1 /\ ~(off >= Start(p) + 2) /\ off # Start(p) + 1 /\ p.type # CONNACK
    BY <1>5, <2>1, <2>3
  <2> QED BY <2>4, Zenon DEF WrongBody
<1>10. \/ off = 4 /\ Continues(Byte)
       \/ /\ p.type = SUBACK /\ ~Continues(Byte)
          /\ decodeRemainingLength(SubSeq(LengthBytes(p), 1, off - 1) \o <<Byte, 0, 0, 0>>) - 2
               \notin 1 .. PayloadBuffer - 1
  <2>1. WrongLength(p, off, Byte)
    BY <1>1, <1>9 DEF Misread
  <2> QED BY <1>5, <2>1, Zenon DEF WrongLength
<1>11. CASE off = 4 /\ Continues(Byte)
  <2>1. bytePos + 1 = 4
    BY <1>3, <1>4, <1>11
  <2>2. Wrong(fn)
    BY <1>8, <1>11, <2>1
  <2> QED BY <1>0, <2>2, Refuses
<1>12. CASE /\ p.type = SUBACK /\ ~Continues(Byte)
            /\ decodeRemainingLength(SubSeq(LengthBytes(p), 1, off - 1) \o <<Byte, 0, 0, 0>>) - 2
                 \notin 1 .. PayloadBuffer - 1
  <2>1. PICK s, z, x : s = SubSeq(e, 1, m) /\ z = <<Byte, 0, 0, 0>> /\ x = s \o z
    OBVIOUS
  <2>2. e \in Seq(Nat) /\ \A j \in 1 .. Len(e) - 1 : Continues(e[j])
    BY <1>3, LengthSpelled DEF Spells
  <2>3. s \in Seq(Nat) /\ Len(s) = m /\ \A j \in 1 .. m : s[j] = e[j]
    <3>1. m \in 0 .. Len(e)
      BY <1>4
    <3> QED BY <2>1, <2>2, <3>1
  <2>4. z \in Seq(Nat) /\ Len(z) = 4 /\ z[1] = Byte
    BY <1>7, <2>1 DEF Octet
  <2>5. Pair(Nat, x, s, z)
    BY <2>1, <2>3, <2>4, TwoParts
  <2>6. x[m + 1] = Byte /\ \A j \in 1 .. m : x[j] = e[j]
    <3>1. 1 \in 1 .. Len(z)
      BY <2>4
    <3> QED BY <2>3, <2>4, <2>5, <3>1 DEF Pair
  <2>7. decodeRemainingLength(raw) = decodeRemainingLength(x)
    <3>1. m \in 0 .. 3
      BY <1>4
    <3>2. \A j \in 1 .. m + 1 : raw[j] = x[j]
      <4>1. \A j \in 1 .. m + 1 : j = m + 1 \/ j \in 1 .. m
        OBVIOUS
      <4> QED BY <1>7, <2>6, <4>1
    <3>3. \A j \in 1 .. m : Continues(raw[j])
      BY <1>4, <1>7, <2>2
    <3>4. ~Continues(raw[m + 1])
      BY <1>7, <1>12
    <3> QED BY <3>1, <3>2, <3>3, <3>4, SameLength
  <2>8. PICK d \in Int : d = decodeRemainingLength(raw)
    BY <1>7, DecodedTyped
  <2>9. d - 2 \notin 1 .. PayloadBuffer - 1
    <3>1. off - 1 = m
      BY <1>4
    <3> QED BY <1>3, <1>12, <2>1, <2>7, <2>8, <3>1
  <2>10. ~(0 < d - 2 /\ d - 2 < PayloadBuffer)
    <3>1. PayloadBuffer \in Nat
      BY SizeAssumption
    <3> QED BY <2>9, <3>1
  <2>11. Type(pk) # PUBLISH
    BY <1>1, <1>5, <1>12 DEF Misread
  <2>12. LengthKnown(raw)
    BY <1>8, <1>12
  <2>13. Wrong("fixedHeader")
    BY <2>8, <2>10, <2>11, <2>12 DEF LengthKnown
  <2> QED BY <1>0, <2>13, Refuses
<1> QED BY <1>10, <1>11, <1>12

LEMMA RefusesVarHeaderConnack1 == IInv /\ InOrder /\ pos = Sense /\ VarHeaderConnack1 => Refused'
<1> SUFFICES ASSUME IInv, InOrder, pos = Sense, VarHeaderConnack1 PROVE Refused'
  OBVIOUS
<1>0. fn = "varHeaderConnack1" /\ pos < avail /\ UNCHANGED buffer
  BY DEF VarHeaderConnack1, At
<1>1. PICK p \in Packets, off \in Nat, a \in 2 .. 5, i \in Nat : Misread(p, off, a, i)
  BY <1>0, WrongThere
<1>2. off = 2 /\ p.type = CONNACK
  <2>1. AmidConnack1(p, off)
    BY <1>0, <1>1, Zenon DEF Misread, Amid, AmidLengthFixed, AmidLengthNone,
       AmidLengthVariable, AmidConnack1, AmidConnack2, AmidId1, AmidId2, AmidTopicLength1,
       AmidTopicLength2, AmidTopic, AmidCodes, AmidPayload
  <2> QED BY <2>1 DEF AmidConnack1
<1>3. Byte > 1
  <2>1. p.type \notin Acks \cup {SUBACK, PUBLISH, PINGRESP}
    BY <1>2, TypeNumbers
  <2>2. ~WrongLength(p, off, Byte)
    BY <1>2, <2>1 DEF WrongLength
  <2>3. WrongBody(p, off, Byte) /\ off # 3
    BY <1>1, <1>2, <2>2 DEF Misread
  <2> QED BY <2>1, <2>3, Zenon DEF WrongBody, Identified
<1>4. Wrong("fixedHeader")
  <2>1. ~(Byte < 2)
    BY <1>1, <1>3 DEF Misread, Octet
  <2> QED BY <2>1 DEF VarHeaderConnack1
<1> QED BY <1>0, <1>4, Refuses

LEMMA RefusesVarHeaderConnack2 == IInv /\ InOrder /\ pos = Sense /\ VarHeaderConnack2 => Refused'
<1> SUFFICES ASSUME IInv, InOrder, pos = Sense, VarHeaderConnack2 PROVE Refused'
  OBVIOUS
<1>0. fn = "varHeaderConnack2" /\ pos < avail /\ UNCHANGED buffer
  BY DEF VarHeaderConnack2, At
<1>1. PICK p \in Packets, off \in Nat, a \in 2 .. 5, i \in Nat : Misread(p, off, a, i)
  BY <1>0, WrongThere
<1>2. off = 3 /\ p.type = CONNACK
  <2>1. AmidConnack2(p, off)
    BY <1>0, <1>1, Zenon DEF Misread, Amid, AmidLengthFixed, AmidLengthNone,
       AmidLengthVariable, AmidConnack1, AmidConnack2, AmidId1, AmidId2, AmidTopicLength1,
       AmidTopicLength2, AmidTopic, AmidCodes, AmidPayload
  <2> QED BY <2>1 DEF AmidConnack2
<1>3. Byte > 5
  <2>1. p.type \notin Acks \cup {SUBACK, PUBLISH, PINGRESP}
    BY <1>2, TypeNumbers
  <2>2. ~WrongLength(p, off, Byte)
    BY <1>2, <2>1 DEF WrongLength
  <2>3. WrongBody(p, off, Byte) /\ off # 2
    BY <1>1, <1>2, <2>2 DEF Misread
  <2> QED BY <2>1, <2>3, Zenon DEF WrongBody, Identified
<1>4. Wrong("fixedHeader")
  <2>1. ~(Byte <= 5)
    BY <1>1, <1>3 DEF Misread, Octet
  <2> QED BY <2>1 DEF VarHeaderConnack2
<1> QED BY <1>0, <1>4, Refuses

\* No first byte of an id is wrong.
LEMMA RefusesVarHeaderPacketId1 ==
  ~(IInv /\ InOrder /\ pos = Sense /\ VarHeaderPacketId1)
<1> SUFFICES ASSUME IInv, InOrder, pos = Sense, VarHeaderPacketId1 PROVE FALSE
  OBVIOUS
<1>0. fn = "varHeaderPacketId1" /\ pos < avail
  BY DEF VarHeaderPacketId1, At
<1>1. PICK p \in Packets, off \in Nat, a \in 2 .. 5, i \in Nat : Misread(p, off, a, i)
  BY <1>0, WrongThere
<1>2. off = IdAt(p) /\ p.type \in Acks \cup {SUBACK, PUBLISH}
  <2>1. AmidId1(p, off)
    BY <1>0, <1>1, Zenon DEF Misread, Amid, AmidLengthFixed, AmidLengthNone,
       AmidLengthVariable, AmidConnack1, AmidConnack2, AmidId1, AmidId2, AmidTopicLength1,
       AmidTopicLength2, AmidTopic, AmidCodes, AmidPayload
  <2> QED BY <2>1, Zenon DEF AmidId1, BeforeId
<1>3. off = i /\ i >= a /\ (p.type = PUBLISH => i >= a + 2) /\ (p.type # PUBLISH => i = a)
      /\ a = Start(p) /\ i = IdAt(p)
  <2>1. off = i /\ (p.type # PUBLISH => i = a) /\ a = Start(p) /\ i = IdAt(p)
    BY <1>1, <1>2 DEF Misread, Layout
  <2>2. p.type = PUBLISH => i >= a + 2
    <3>1. ASSUME p.type = PUBLISH PROVE i >= a + 2
      <4>1. PICK t \in Nat : t = Len(p.topic) /\ i = a + 2 + t
        BY <1>1, <3>1 DEF Misread, Layout
      <4>2. a + 2 + t >= a + 2
        OBVIOUS
      <4> QED BY <4>1, <4>2
    <3> QED BY <3>1
  <2> QED BY <2>1, <2>2
<1>4. p.type # CONNACK /\ p.type # PINGRESP /\ (p.type = SUBACK => p.type # PUBLISH)
  BY <1>2, TypeNumbers
<1>5. ~WrongLength(p, off, Byte)
  <2>1. off # 1 /\ ~(off = 4 /\ off < a) /\ off \notin 1 .. a - 1
    BY <1>3
  <2> QED BY <1>3, <2>1, Zenon DEF WrongLength
<1>6. ~WrongBody(p, off, Byte)
  <2>1. /\ off # i + 1 /\ (p.type = PUBLISH => off # a + 1)
        /\ (p.type = SUBACK => ~(off >= a + 2))
    BY <1>3, <1>4
  <2> QED BY <1>3, <1>4, <2>1, Zenon DEF WrongBody
<1> QED BY <1>1, <1>5, <1>6 DEF Misread

LEMMA RefusesVarHeaderPacketId2 ==
  IInv /\ InOrder /\ pos = Sense /\ VarHeaderPacketId2 => Refused'
<1> SUFFICES ASSUME IInv, InOrder, pos = Sense, VarHeaderPacketId2 PROVE Refused'
  OBVIOUS
<1>0. fn = "varHeaderPacketId2" /\ pos < avail /\ UNCHANGED <<bytePos, buffer>>
  BY DEF VarHeaderPacketId2, At
<1>1. PICK p \in Packets, off \in Nat, a \in 2 .. 5, i \in Nat : Misread(p, off, a, i)
  BY <1>0, WrongThere
<1>2. off = IdAt(p) + 1 /\ p.type \in Acks \cup {SUBACK, PUBLISH}
      /\ pk.id = 256 * (p.id \div 256) /\ (p.type = PUBLISH => HasId(p.flags))
  <2>1. AmidId2(p, off)
    BY <1>0, <1>1, Zenon DEF Misread, Amid, AmidLengthFixed, AmidLengthNone,
       AmidLengthVariable, AmidConnack1, AmidConnack2, AmidId1, AmidId2, AmidTopicLength1,
       AmidTopicLength2, AmidTopic, AmidCodes, AmidPayload
  <2> QED BY <2>1, Zenon DEF AmidId2, BeforeId
<1>3. off = i + 1 /\ i >= a /\ (p.type = PUBLISH => i >= a + 2) /\ (p.type # PUBLISH => i = a)
      /\ a = Start(p) /\ i = IdAt(p)
  <2>1. off = i + 1 /\ (p.type # PUBLISH => i = a) /\ a = Start(p) /\ i = IdAt(p)
    BY <1>1, <1>2 DEF Misread, Layout
  <2>2. p.type = PUBLISH => i >= a + 2
    <3>1. ASSUME p.type = PUBLISH PROVE i >= a + 2
      <4>1. PICK t \in Nat : t = Len(p.topic) /\ i = a + 2 + t
        BY <1>1, <3>1 DEF Misread, Layout
      <4>2. a + 2 + t >= a + 2
        OBVIOUS
      <4> QED BY <4>1, <4>2
    <3> QED BY <3>1
  <2> QED BY <2>1, <2>2
<1>4. p.type # CONNACK /\ p.type # PINGRESP /\ (p.type = SUBACK => p.type # PUBLISH)
  BY <1>2, TypeNumbers
<1>5. ~WrongLength(p, off, Byte)
  <2>1. off # 1 /\ ~(off = 4 /\ off < a) /\ off \notin 1 .. a - 1
    BY <1>3
  <2> QED BY <1>3, <2>1, Zenon DEF WrongLength
<1>6. Byte = 0 /\ p.id < 256
  <2>1. (p.type = PUBLISH => off # a + 1) /\ (p.type = SUBACK => ~(off >= a + 2))
    BY <1>3, <1>4
  <2>2. WrongBody(p, off, Byte)
    BY <1>1, <1>5 DEF Misread
  <2> QED BY <1>3, <1>4, <2>1, <2>2, Zenon DEF WrongBody
<1>7. pk.id + Byte = 0
  <2>1. p.id \in Nat
    BY <1>2, IdBytes
  <2>2. p.id \div 256 = 0
    BY <1>6, <2>1
  <2> QED BY <1>2, <1>6, <2>2
<1>8. Wrong("fixedHeader")
  BY <1>7, Zenon DEF VarHeaderPacketId2
<1> QED BY <1>0, <1>8, Refuses

TopicTooLong(p) ==
  256 * (Len(p.topic) \div 256) + Byte > Len(Body(p)) - 2 - IdLength(p)

\* Nothing is wrong before the second byte of the topic's length, or in the topic.
LEMMA NoneInTopic ==
  ASSUME NEW p, NEW off \in Nat, NEW a \in 2 .. 5, NEW i \in Nat,
         Misread(p, off, a, i), p.type = PUBLISH,
         NEW t \in Nat, t = Len(p.topic), off \in a .. a + 1 + t
  PROVE  off = a + 1 /\ TopicTooLong(p)
<1>1. a = Start(p) /\ i = IdAt(p) /\ i = a + 2 + t
  BY DEF Misread, Layout
<1>2. p.type \notin Acks \cup {CONNACK, SUBACK, PINGRESP}
  BY TypeNumbers
<1>3. ~(off < a) /\ off # i + 1
  BY <1>1
<1>4. ~WrongLength(p, off, Byte)
  BY <1>1, <1>2, <1>3, Zenon DEF WrongLength
<1>5. WrongBody(p, off, Byte)
  BY <1>4 DEF Misread
<1>6. /\ off = Start(p) + 1
      /\ 256 * (Len(p.topic) \div 256) + Byte > Len(Body(p)) - 2 - IdLength(p)
  <2>1. off # IdAt(p) + 1 /\ p.type # CONNACK /\ p.type # SUBACK
    BY <1>1, <1>2, <1>3
  <2> QED BY <1>5, <2>1, Zenon DEF WrongBody
<1>7. TopicTooLong(p)
  BY <1>6 DEF TopicTooLong
<1> QED BY <1>1, <1>6, <1>7

LEMMA RefusesVarHeaderTopicLength1 ==
  ~(IInv /\ InOrder /\ pos = Sense /\ VarHeaderTopicLength1)
<1> SUFFICES ASSUME IInv, InOrder, pos = Sense, VarHeaderTopicLength1 PROVE FALSE
  OBVIOUS
<1>0. fn = "varHeaderTopicLength1" /\ pos < avail
  BY DEF VarHeaderTopicLength1, At
<1>1. PICK p \in Packets, off \in Nat, a \in 2 .. 5, i \in Nat : Misread(p, off, a, i)
  BY <1>0, WrongThere
<1>2. off = Start(p) /\ p.type = PUBLISH
  <2>1. AmidTopicLength1(p, off)
    BY <1>0, <1>1, Zenon DEF Misread, Amid, AmidLengthFixed, AmidLengthNone,
       AmidLengthVariable, AmidConnack1, AmidConnack2, AmidId1, AmidId2, AmidTopicLength1,
       AmidTopicLength2, AmidTopic, AmidCodes, AmidPayload
  <2> QED BY <2>1 DEF AmidTopicLength1
<1>3. PICK t \in Nat : t = Len(p.topic)
  BY <1>2, PayloadLength
<1>4. off = a
  BY <1>1, <1>2 DEF Misread, Layout
<1>5. off \in a .. a + 1 + t /\ off # a + 1
  BY <1>4
<1> QED BY <1>1, <1>2, <1>3, <1>5, NoneInTopic

LEMMA RefusesVarHeaderTopicLength2 ==
  SizeWidth >= Radix4 /\ IInv /\ InOrder /\ pos = Sense /\ VarHeaderTopicLength2 => Refused'
<1> SUFFICES ASSUME SizeWidth >= Radix4, IInv, InOrder, pos = Sense, VarHeaderTopicLength2
             PROVE  Refused'
  OBVIOUS
<1>0. fn = "varHeaderTopicLength2" /\ pos < avail /\ UNCHANGED buffer
  BY DEF VarHeaderTopicLength2, At
<1>1. PICK p \in Packets, off \in Nat, a \in 2 .. 5, i \in Nat : Misread(p, off, a, i)
  BY <1>0, WrongThere
<1>2. /\ off = Start(p) + 1 /\ p.type = PUBLISH
      /\ pk.rem = Len(Body(p)) /\ pk.topicLength = 256 * (Len(p.topic) \div 256)
  <2>1. AmidTopicLength2(p, off)
    BY <1>0, <1>1, Zenon DEF Misread, Amid, AmidLengthFixed, AmidLengthNone,
       AmidLengthVariable, AmidConnack1, AmidConnack2, AmidId1, AmidId2, AmidTopicLength1,
       AmidTopicLength2, AmidTopic, AmidCodes, AmidPayload
  <2> QED BY <2>1 DEF AmidTopicLength2
<1>3. PICK t, l, d \in Nat : /\ t = Len(p.topic) /\ l = Len(p.payload) /\ d = IdLength(p)
                             /\ Len(Body(p)) = 2 + t + d + l /\ 2 + t + d + l < Radix4
  <2>1. IdLength(p) \in Nat
    BY DEF IdLength
  <2> QED BY <1>2, <2>1, PayloadLength
<1>4. 256 * (t \div 256) + Byte > Len(Body(p)) - 2 - IdLength(p)
  <2>1. off = a + 1
    BY <1>1, <1>2 DEF Misread, Layout
  <2>2. off \in a .. a + 1 + t
    BY <2>1
  <2>3. TopicTooLong(p)
    BY <1>1, <1>2, <1>3, <2>2, NoneInTopic
  <2> QED BY <1>3, <2>3 DEF TopicTooLong
<1>5. pk.rem - 2 - d = t + l /\ Len(Body(p)) - 2 - IdLength(p) = t + l
  <2>1. PICK r : r = pk.rem
    OBVIOUS
  <2>2. r = 2 + t + d + l
    BY <1>2, <1>3, <2>1
  <2>3. r - 2 - d = t + l
    BY <2>2
  <2> QED BY <1>2, <1>3, <2>1, <2>3
<1>6. MaxTopicLength = t + l
  <2>1. Flags(pk) = p.flags
    BY <1>1, <1>2 DEF Misread
  <2>2. MaxTopicLength = SizeT(pk.rem - 2 - d)
    BY <1>3, <2>1, Zenon DEF MaxTopicLength, IdLength
  <2>3. t + l \in Nat /\ t + l < Radix4
    <3>1. Radix4 \in Nat
      BY RadixAssumption DEF Radix2, Radix3, Radix4
    <3>2. 2 + t + d + l < Radix4
      BY <1>3
    <3> QED BY <3>1, <3>2
  <2> QED BY <1>5, <2>2, <2>3, LengthsFit
<1>7. ~(pk.topicLength + Byte <= MaxTopicLength)
  <2>1. PICK m, b \in Nat : m = 256 * (t \div 256) /\ b = Byte
    BY <1>1 DEF Misread, Octet
  <2>2. pk.topicLength = m
    BY <1>2, <1>3, <2>1
  <2>3. m + b > t + l
    BY <1>4, <1>5, <2>1
  <2> QED BY <1>6, <2>1, <2>2, <2>3
<1>8. Wrong("fixedHeader")
  BY <1>7, Zenon DEF VarHeaderTopicLength2
<1> QED BY <1>0, <1>8, Refuses

LEMMA RefusesVarHeaderTopic == ~(IInv /\ InOrder /\ pos = Sense /\ VarHeaderTopic)
<1> SUFFICES ASSUME IInv, InOrder, pos = Sense, VarHeaderTopic PROVE FALSE
  OBVIOUS
<1>0. fn = "varHeaderTopic" /\ pos < avail /\ bytePos \in Nat
  BY DEF VarHeaderTopic, At, IInv, TypeInv
<1>1. PICK p \in Packets, off \in Nat, a \in 2 .. 5, i \in Nat : Misread(p, off, a, i)
  BY <1>0, WrongThere
<1>2. off = Start(p) + 2 + bytePos /\ p.type = PUBLISH /\ bytePos < Len(p.topic)
  <2>1. AmidTopic(p, off)
    BY <1>0, <1>1, Zenon DEF Misread, Amid, AmidLengthFixed, AmidLengthNone,
       AmidLengthVariable, AmidConnack1, AmidConnack2, AmidId1, AmidId2, AmidTopicLength1,
       AmidTopicLength2, AmidTopic, AmidCodes, AmidPayload
  <2> QED BY <2>1 DEF AmidTopic
<1>3. PICK t \in Nat : t = Len(p.topic) /\ bytePos < t
  BY <1>2, PayloadLength
<1>4. off = a + 2 + bytePos
  BY <1>1, <1>2 DEF Misread, Layout
<1>5. off \in a .. a + 1 + t /\ off # a + 1
  <2>1. PICK k \in Nat : k = bytePos /\ k < t
    BY <1>0, <1>3
  <2>2. off = a + 2 + k
    BY <1>4, <2>1
  <2> QED BY <2>1, <2>2
<1> QED BY <1>1, <1>2, <1>3, <1>5, NoneInTopic

LEMMA RefusesPayloadSuback == IInv /\ InOrder /\ pos = Sense /\ PayloadSuback => Refused'
<1> SUFFICES ASSUME IInv, InOrder, pos = Sense, PayloadSuback PROVE Refused'
  OBVIOUS
<1>0. fn = "payloadSuback" /\ pos < avail /\ UNCHANGED buffer /\ bytePos \in Nat
  BY DEF PayloadSuback, At, IInv, TypeInv
<1>1. PICK p \in Packets, off \in Nat, a \in 2 .. 5, i \in Nat : Misread(p, off, a, i)
  BY <1>0, WrongThere
<1>2. off = Start(p) + 2 + bytePos /\ p.type = SUBACK
  <2>1. AmidCodes(p, off)
    BY <1>0, <1>1, Zenon DEF Misread, Amid, AmidLengthFixed, AmidLengthNone,
       AmidLengthVariable, AmidConnack1, AmidConnack2, AmidId1, AmidId2, AmidTopicLength1,
       AmidTopicLength2, AmidTopic, AmidCodes, AmidPayload
  <2> QED BY <2>1 DEF AmidCodes
<1>3. p.type \notin Acks \cup {CONNACK, PUBLISH, PINGRESP}
  BY <1>2, TypeNumbers
<1>4. a = Start(p) /\ i = IdAt(p) /\ i = a /\ off = a + 2 + bytePos
  BY <1>1, <1>2, <1>3 DEF Misread, Layout
<1>5. off # i + 1 /\ ~(off < a) /\ off \notin 1 .. a - 1
  BY <1>0, <1>4
<1>6. ~WrongLength(p, off, Byte)
  BY <1>3, <1>4, <1>5, Zenon DEF WrongLength
<1>7. Byte \notin {0, 1, 2, 128}
  <2>1. WrongBody(p, off, Byte)
    BY <1>1, <1>6 DEF Misread
  <2> QED BY <1>3, <1>4, <1>5, <2>1, Zenon DEF WrongBody
<1>8. Wrong("fixedHeader")
  BY <1>7 DEF PayloadSuback
<1> QED BY <1>0, <1>8, Refuses

LEMMA RefusesPayloadPublish == ~(IInv /\ InOrder /\ pos = Sense /\ PayloadPublish)
<1> SUFFICES ASSUME IInv, InOrder, pos = Sense, PayloadPublish PROVE FALSE
  OBVIOUS
<1>1. fn = "payloadPublish" /\ pos < avail
  BY DEF PayloadPublish, At
<1> QED BY <1>1, WrongThere

-----------------------------------------------------------------------------
(* What the client gets, and when an error is reported *)

\* Where the packets end in the stream; the last may be nonsense.
LEMMA EndIs ==
  ASSUME Sound, NEW k \in 0 .. Len(sent)
  PROVE  /\ ~(Spoilt /\ k = Len(sent)) => End(k) = Ending(k)
         /\ Spoilt /\ k = Len(sent) => End(k) = Len(stream)
<1>1. /\ Len(sent) \in Nat /\ Len(Meant) = Len(sent)
      /\ \A j \in 1 .. Len(sent) : IsNonsense(j) => j = Len(sent)
  BY MeantIs
<1>2. ASSUME ~(Spoilt /\ k = Len(sent)) PROVE End(k) = Ending(k)
  <2>1. ASSUME NEW j \in 1 .. k PROVE ~IsNonsense(j)
    <3>1. ASSUME IsNonsense(j) PROVE FALSE
      <4>1. j \in 1 .. Len(sent)
        BY <1>1
      <4>2. j = Len(sent)
        BY <1>1, <3>1, <4>1
      <4>3. k = Len(sent) /\ Len(sent) > 0
        BY <1>1, <4>2
      <4> QED BY <1>2, <3>1, <4>2, <4>3 DEF Spoilt
    <3> QED BY <3>1
  <2>2. k \in 0 .. k
    OBVIOUS
  <2>3. StreamedFirst(sent)[k] = StreamedFirst(Meant)[k]
    BY <2>1, <2>2, SameBefore
  <2> QED BY <2>3 DEF End, Ending, Ends
<1>3. ASSUME k = Len(sent) PROVE End(k) = Len(stream)
  BY <1>3, Zenon DEF End, Sound, Streamed
<1> QED BY <1>2, <1>3

\* The first n packets are given out, and perhaps a part of the next.
GivenOut(n) ==
  \/ got = SubSeq(Meant, 1, n)
  \/ /\ n + 1 \in 1 .. Len(Meant) /\ ~IsNonsense(n + 1) /\ Meant[n + 1].type = PUBLISH
     /\ \E k \in Nat : /\ k <= Len(Meant[n + 1].payload)
                       /\ got = Append(SubSeq(Meant, 1, n), Part(Meant[n + 1], k))

\* The parser is n packets further: at the end of the last, or inside the next.
Passed(n) ==
  /\ n \in 0 .. Len(Meant)
  /\ \A k \in 0 .. Len(Meant) : Ending(k) <= pos <=> k <= n
  /\ fn = "fixedHeader" <=> Ending(n) = pos
  /\ fn # "fixedHeader" => \A k \in 0 .. Len(Meant) : Ending(k) # pos
  /\ GivenOut(n)

LEMMA InOrderPassed ==
  ASSUME IInv, InOrder
  PROVE  Sound /\ pos <= Sense /\ ~error /\ \E n : Passed(n)
<1>0. /\ Sound /\ pos <= Sense /\ ~error /\ Meant \in Seq(Packets) /\ pos \in Nat
      /\ Len(Meant) \in Nat
  BY MeantIs DEF InOrder, IInv, TypeInv
<1>1. ASSUME NEW k \in 0 .. Len(Meant), NEW j \in 0 .. k
      PROVE  /\ Ending(k) \in Nat /\ Ending(j) \in Nat /\ Ending(j) <= Ending(k)
             /\ j < k => Ending(j) < Ending(k)
  BY <1>0, EndsIncrease DEF Ending, Ends
<1>2. PICK n \in 0 .. Len(Meant) : Behind(n) \/ Inside(n)
  BY DEF InOrder
<1>3. CASE Behind(n)
  <2>1. fn = "fixedHeader" /\ pos = Ending(n) /\ got = SubSeq(Meant, 1, n)
    BY <1>3 DEF Behind
  <2>2. ASSUME NEW k \in 0 .. Len(Meant) PROVE Ending(k) <= pos <=> k <= n
    <3>1. CASE k <= n
      BY <1>1, <2>1, <3>1
    <3>2. CASE n < k
      <4>1. n \in 0 .. k /\ ~(k <= n)
        BY <3>2
      <4>2. Ending(n) < Ending(k) /\ Ending(n) \in Nat /\ Ending(k) \in Nat
        BY <1>1, <3>2, <4>1
      <4> QED BY <2>1, <4>1, <4>2
    <3> QED BY <3>1, <3>2
  <2> QED BY <1>0, <2>1, <2>2 DEF Passed, GivenOut
<1>4. CASE Inside(n)
  <2>1. n \in 0 .. Len(Meant) - 1 /\ Amid(Meant[n + 1], pos - Ending(n)) /\ Given(n)
    BY <1>4 DEF Inside
  <2>2. PICK p \in Packets : p = Meant[n + 1]
    BY <1>0, <2>1, PacketAt
  <2>3. PICK off : off = pos - Ending(n)
    OBVIOUS
  <2>4. off \in Nat /\ 0 < off /\ off < Size(p) /\ fn # "fixedHeader"
    BY <2>1, <2>2, <2>3, AmidIsInside
  <2>5. Ending(n) \in Nat /\ Ending(n + 1) = Ending(n) + Size(p) /\ Size(p) \in Nat
        /\ n + 1 \in 0 .. Len(Meant) /\ n + 1 \in 1 .. Len(Meant)
    BY <1>0, <2>1, <2>2, PacketAt
  <2>6. Ending(n) < pos /\ pos < Ending(n + 1) /\ Ending(n + 1) \in Nat
    BY <1>0, <2>3, <2>4, <2>5
  <2>7. ASSUME NEW k \in 0 .. Len(Meant) PROVE (Ending(k) <= pos <=> k <= n) /\ Ending(k) # pos
    <3>1. CASE k <= n
      <4>1. k \in 0 .. n
        BY <3>1
      <4>2. Ending(k) <= Ending(n) /\ Ending(k) \in Nat
        BY <1>1, <4>1
      <4> QED BY <1>0, <2>5, <2>6, <3>1, <4>2
    <3>2. CASE n < k
      <4>1. n + 1 \in 0 .. k /\ ~(k <= n)
        BY <3>2
      <4>2. Ending(n + 1) <= Ending(k) /\ Ending(k) \in Nat
        BY <1>1, <4>1
      <4> QED BY <1>0, <2>6, <4>1, <4>2
    <3> QED BY <3>1, <3>2
  <2>8. \/ got = SubSeq(Meant, 1, n)
        \/ /\ p.type = PUBLISH /\ ~IsNonsense(n + 1)
           /\ \E k \in Nat : /\ k <= Len(p.payload)
                             /\ got = Append(SubSeq(Meant, 1, n), Part(p, k))
    <3>1. CASE fn = "payloadPublish" /\ pk.index + pk.length > 0
      <4>1. AmidPayload(p, off)
        BY <2>1, <2>2, <2>3, <3>1, Zenon DEF Amid, AmidLengthFixed, AmidLengthNone,
           AmidLengthVariable, AmidConnack1, AmidConnack2, AmidId1, AmidId2,
           AmidTopicLength1, AmidTopicLength2, AmidTopic, AmidCodes, AmidPayload
      <4>2. /\ p.type = PUBLISH /\ pk.index + pk.length < Len(p.payload)
            /\ off = PayloadAt(p) + pk.index + pk.length
        BY <4>1 DEF AmidPayload
      <4>3. PICK k \in Nat : k = pk.index + pk.length /\ pk.index \in Nat /\ pk.length \in Nat
        BY DEF IInv, TypeInv, PacketFields
      <4>4. k <= Len(p.payload)
        BY <4>2, <4>3, PayloadLength
      <4>5. got = Append(SubSeq(Meant, 1, n), Part(p, k))
        BY <2>1, <2>2, <3>1, <4>3 DEF Given, Part
      <4>6. ASSUME IsNonsense(n + 1) PROVE FALSE
        <5>1. /\ n + 1 = Len(sent) /\ sent[n + 1] \in Wrongs /\ Meant[n + 1] = sent[n + 1].of
              /\ Len(sent) \in Nat
          BY <1>0, <2>5, <4>6, MeantIs
        <5>2. Spoilt /\ Len(sent) - 1 = n
          BY <2>1, <2>5, <4>6, <5>1 DEF Spoilt
        <5>3. PICK w : w = sent[n + 1]
          OBVIOUS
        <5>4. w.of = p /\ w.at \in Nat /\ w.at < PayloadAt(p) /\ PayloadAt(p) \in Nat
          BY <2>2, <4>2, <5>1, <5>3, TypeTells, NoneInPayload, PayloadBytes
        <5>5. Sense = Ending(n) + w.at
          BY <5>1, <5>2, <5>3 DEF Sense
        <5>6. PICK e \in Nat : e = Ending(n)
          BY <1>0, <1>1, <2>1
        <5>7. PICK a \in Nat : a = PayloadAt(p)
          BY <5>4
        <5>8. PICK b \in Nat : b = w.at
          BY <5>4
        <5>9. PICK i, l \in Nat : i = pk.index /\ l = pk.length
          BY <4>3
        <5>10. PICK q \in Nat : q = pos
          BY <1>0
        <5>11. q - e = a + i + l
          BY <2>2, <2>3, <4>2, <5>6, <5>7, <5>9, <5>10
        <5>12. q <= e + b
          BY <1>0, <5>5, <5>6, <5>8, <5>10
        <5>13. b < a
          BY <5>4, <5>7, <5>8
        <5>14. q - e <= b
          BY <5>12
        <5>15. a <= a + i + l
          BY <5>9
        <5> QED BY <5>11, <5>13, <5>14, <5>15
      <4> QED BY <4>2, <4>4, <4>5, <4>6
    <3>2. CASE ~(fn = "payloadPublish" /\ pk.index + pk.length > 0)
      BY <2>1, <3>2 DEF Given
    <3> QED BY <3>1, <3>2
  <2>9. Passed(n)
    BY <2>2, <2>4, <2>5, <2>7, <2>8 DEF Passed, GivenOut
  <2> QED BY <1>0, <2>9
<1> QED BY <1>2, <1>3, <1>4

\* No packet of a broker is nonsense, and its topic is short enough to be seen.
LEMMA SeenWhole ==
  ASSUME NEW p \in Packets
  PROVE  p.type # 0 /\ Seen(p) = p
<1>1. p.type # 0
  <2>1. p.type \in Acks \cup {CONNACK, SUBACK, PINGRESP, PUBLISH}
    BY KindOf, Zenon
  <2> QED BY <2>1, TypeNumbers
<1>2. p.type = PUBLISH => ~(Len(p.topic) > MaxTopic)
  <2>1. ASSUME p.type = PUBLISH PROVE ~(Len(p.topic) > MaxTopic)
    <3>1. PICK t \in Nat : t = Len(p.topic) /\ t <= MaxTopic
      BY <2>1, PayloadLength
    <3>2. MaxTopic \in Nat
      BY SizeAssumption
    <3> QED BY <3>1, <3>2
  <2> QED BY <2>1
<1> QED BY <1>1, <1>2 DEF Seen

LEMMA ParsedFirst ==
  ASSUME NEW n \in 0 .. Len(sent), Len(sent) \in Nat,
         \A k \in 1 .. Len(sent) : End(k) <= pos /\ ~IsNonsense(k) <=> k <= n
  PROVE  Parsed = n
<1>1. {k \in 1 .. Len(sent) : End(k) <= pos /\ ~IsNonsense(k)} = 1 .. n
  <2>1. {k \in 1 .. Len(sent) : k <= n} = 1 .. n
    OBVIOUS
  <2> QED BY <2>1
<1>2. Cardinality(1 .. n) = n
  <2>1. 1 \in Int /\ n \in Int /\ (IF 1 > n THEN 0 ELSE n - 1 + 1) = n
    OBVIOUS
  <2> QED BY <2>1, FS_Interval
<1> QED BY <1>1, <1>2 DEF Parsed

LEMMA ParsedIs ==
  ASSUME IInv, Sound, pos <= Sense, NEW n, Passed(n)
  PROVE  Parsed = n /\ \A k \in 1 .. n : ~IsNonsense(k)
<1>1. /\ n \in 0 .. Len(sent) /\ Len(sent) \in Nat /\ Len(Meant) = Len(sent) /\ pos \in Nat
      /\ \A k \in 1 .. Len(sent) : IsNonsense(k) => k = Len(sent)
  BY MeantIs DEF Passed, IInv, TypeInv
<1>2. ASSUME NEW k \in 1 .. Len(sent)
      PROVE  /\ End(k) <= pos /\ ~IsNonsense(k) <=> k <= n
             /\ k <= n => ~IsNonsense(k)
  <2>1. k \in 0 .. Len(sent) /\ k \in 0 .. Len(Meant)
    BY <1>1
  <2>2. Ending(k) <= pos <=> k <= n
    BY <2>1 DEF Passed
  <2>3. CASE IsNonsense(k)
    <3>1. k = Len(sent) /\ Spoilt
      BY <1>1, <2>3 DEF Spoilt
    <3>2. Sense < Ending(k) /\ Ending(k) \in Nat /\ Sense \in Nat
      BY <3>1, SenseIs DEF Beyond
    <3>3. ~(Ending(k) <= pos)
      BY <1>1, <3>2
    <3> QED BY <2>2, <2>3, <3>3
  <2>4. CASE ~IsNonsense(k)
    <3>1. ~(Spoilt /\ k = Len(sent))
      BY <2>4 DEF Spoilt
    <3>2. End(k) = Ending(k)
      BY <2>1, <3>1, EndIs
    <3> QED BY <2>2, <2>4, <3>2
  <2> QED BY <2>3, <2>4
<1>3. Parsed = n
  BY <1>1, <1>2, ParsedFirst
<1>4. \A k \in 1 .. n : k \in 1 .. Len(sent) /\ k <= n
  BY <1>1
<1> QED BY <1>2, <1>3, <1>4

LEMMA RefusedParsed ==
  ASSUME IInv, Refused
  PROVE  /\ Parsed = Len(sent) - 1 /\ Len(sent) - 1 \in 0 .. Len(sent)
         /\ \A k \in 1 .. Len(sent) - 1 : ~IsNonsense(k)
         /\ IsNonsense(Len(sent)) /\ End(Len(sent) - 1) < pos /\ pos <= End(Len(sent))
<1>0. Sound /\ Spoilt /\ pos = Sense + 1 /\ IsNonsense(Len(sent))
  BY DEF Refused, Spoilt
<1>1. PICK l \in Nat : l = Len(sent) /\ l = Len(Meant)
  BY <1>0, MeantIs
<1>2. /\ l >= 1 /\ Ending(l - 1) \in Nat /\ Sense \in Nat /\ Ending(l - 1) <= Sense
      /\ Sense < Len(stream) /\ Len(stream) \in Nat
  <2>1. PICK a : a = sent[l].at
    OBVIOUS
  <2>2. /\ l >= 1 /\ Ending(l - 1) \in Nat /\ a \in Nat /\ Sense = Ending(l - 1) + a
        /\ Sense < Len(stream) /\ Len(stream) \in Nat
    BY <1>0, <1>1, <2>1, SenseIs DEF Beyond
  <2> QED BY <2>2
<1>3. ASSUME NEW k \in 0 .. l - 1 PROVE End(k) = Ending(k) /\ End(k) <= Sense /\ End(k) \in Nat
  <2>1. k \in 0 .. Len(sent) /\ k # Len(sent) /\ l - 1 \in 0 .. Len(Meant) /\ k \in 0 .. l - 1
    BY <1>1, <1>2
  <2>2. End(k) = Ending(k)
    BY <1>0, <2>1, EndIs
  <2>3. Ending(k) <= Ending(l - 1) /\ Ending(k) \in Nat
    BY <1>0, <2>1, MeantIs, EndsIncrease DEF Ending
  <2> QED BY <1>2, <2>2, <2>3
<1>4. ASSUME NEW k \in 1 .. l
      PROVE  /\ End(k) <= pos /\ ~IsNonsense(k) <=> k <= l - 1
             /\ k <= l - 1 => ~IsNonsense(k)
  <2>1. CASE k = l
    <3>1. ~(k <= l - 1)
      BY <2>1
    <3> QED BY <1>0, <1>1, <2>1, <3>1
  <2>2. CASE k # l
    <3>1. k \in 0 .. l - 1 /\ k <= l - 1 /\ k \in 1 .. Len(sent) /\ k # Len(sent)
      BY <1>1, <2>2
    <3>2. ~IsNonsense(k)
      BY <1>0, <3>1, MeantIs
    <3>3. End(k) <= pos
      BY <1>0, <1>2, <1>3, <3>1
    <3> QED BY <3>1, <3>2, <3>3
  <2> QED BY <2>1, <2>2
<1>5. l - 1 \in 0 .. Len(sent) /\ l - 1 \in 0 .. l - 1 /\ \A k \in 1 .. l - 1 : k \in 1 .. l
  BY <1>1, <1>2
<1>6. Parsed = l - 1
  BY <1>1, <1>4, <1>5, ParsedFirst
<1>7. End(l - 1) < pos
  BY <1>0, <1>2, <1>3, <1>5
<1>8. pos <= End(l)
  <2>1. End(l) = Len(stream)
    <3>1. l \in 0 .. Len(sent)
      BY <1>1
    <3> QED BY <1>0, <1>1, <3>1, EndIs
  <2> QED BY <1>0, <1>2, <2>1
<1>9. \A k \in 1 .. l - 1 : ~IsNonsense(k)
  BY <1>4, <1>5
<1> QED BY <1>0, <1>1, <1>5, <1>6, <1>7, <1>8, <1>9

LEMMA GivesWhatWasSent ==
  ASSUME Sound, NEW n \in 0 .. Len(sent), GivenOut(n), Parsed = n,
         \A k \in 1 .. n : ~IsNonsense(k)
  PROVE  DeliversWhatWasSent
<1>0. Meant \in Seq(Packets) /\ n \in 0 .. Len(Meant) /\ Len(Meant) \in Nat /\ n \in Nat
      /\ Len(Meant) = Len(sent)
  BY MeantIs
<1>1. Parsed = n
  OBVIOUS
<1>s. \A k \in 1 .. n : Meant[k] = sent[k]
  <2>1. \A k \in 1 .. n : k \in 1 .. Len(sent)
    BY <1>0
  <2> QED BY <2>1, MeantIs
<1>2. PICK all : all = SubSeq(Meant, 1, n)
  OBVIOUS
<1>3. all \in Seq(Packets) /\ Len(all) = n /\ \A k \in 1 .. n : all[k] = Meant[k]
  BY <1>0, <1>2
<1>4. ASSUME NEW k \in 1 .. n PROVE Meant[k] = Seen(Meant[k])
  <2>1. k \in 1 .. Len(Meant)
    BY <1>0
  <2> QED BY <1>0, <2>1, ElementOfSeq, SeenWhole
<1>5. CASE got = all
  <2>1. Len(got) = n /\ n # n + 1
    BY <1>0, <1>3, <1>5
  <2>2. \A k \in 1 .. n : got[k] = Seen(sent[k])
    BY <1>3, <1>4, <1>5, <1>s
  <2> QED BY <1>1, <2>1, <2>2 DEF DeliversWhatWasSent
<1>6. ASSUME n + 1 \in 1 .. Len(Meant), ~IsNonsense(n + 1), Meant[n + 1].type = PUBLISH,
             NEW j \in Nat, j <= Len(Meant[n + 1].payload),
             got = Append(all, Part(Meant[n + 1], j))
      PROVE  DeliversWhatWasSent
  <2>1. PICK p \in Packets : p = Meant[n + 1]
    BY <1>0, <1>6, ElementOfSeq
  <2>2. PICK g : g = Part(p, j)
    OBVIOUS
  <2>3. PICK S : S = Packets \cup {g}
    OBVIOUS
  <2>4. all \in Seq(S) /\ g \in S
    <3>1. Packets \subseteq S
      BY <2>3
    <3> QED BY <1>3, <2>3, <3>1, SeqMonotonic
  <2>5. /\ Len(got) = n + 1 /\ got[n + 1] = g
        /\ \A k \in 1 .. n : got[k] = all[k]
    BY <1>3, <1>6, <2>1, <2>2, <2>4, AppendProperties
  <2>6. \A k \in 1 .. n : got[k] = Seen(sent[k])
    BY <1>3, <1>4, <1>s, <2>5
  <2>7. Begun(g, p)
    <3>1. PICK b : b = SubSeq(p.payload, 1, j)
      OBVIOUS
    <3>2. p.payload \in Seq(Octet) /\ j <= Len(p.payload)
      BY <1>6, <2>1, PayloadLength
    <3>3. Len(b) = j /\ b \in Seq(Octet)
      BY <3>1, <3>2
    <3>4. SubSeq(b, 1, j) = b
      BY <3>3, SubSeqFull
    <3>5. IsPrefix(b, p.payload)
      BY <3>1, <3>2, <3>3, <3>4 DEF IsPrefix
    <3>6. p = Publish(p.flags, p.topic, p.id, p.payload, p.total) /\ p.type = PUBLISH
      BY <1>6, <2>1, KindOf, Zenon DEF IsPublish
    <3>7. g = [p EXCEPT !.payload = b]
      BY <2>2, <3>1 DEF Part
    <3>8. g.payload = b /\ g.type = p.type
      BY <3>6, <3>7 DEF Publish
    <3>9. Seen(p) = p
      BY SeenWhole
    <3> QED BY <3>5, <3>6, <3>7, <3>8, <3>9 DEF Begun
  <2>8. Len(got) <= Len(sent) /\ sent[n + 1] = p
    <3>1. n + 1 \in 1 .. Len(sent)
      BY <1>0, <1>6
    <3>2. Meant[n + 1] = sent[n + 1]
      BY <1>6, <3>1, MeantIs
    <3> QED BY <1>0, <2>1, <2>5, <3>1, <3>2
  <2> QED BY <1>1, <2>1, <2>5, <2>6, <2>7, <2>8 DEF DeliversWhatWasSent
<1> QED BY <1>2, <1>5, <1>6 DEF GivenOut

\* In order, or nonsense was refused.
Told == InOrder \/ Refused

LEMMA SoundBounds ==
  Sound => Sense \in Nat /\ Meant \in Seq(Packets) /\ Len(Meant) \in Nat
BY SenseIs, MeantIs

LEMMA ToldDelivers ==
  ASSUME IInv, Told
  PROVE  DeliversWhatWasSent
<1>1. CASE InOrder
  <2>1. PICK n : Passed(n)
    BY <1>1, InOrderPassed
  <2>2. Sound /\ pos <= Sense
    BY <1>1, InOrderPassed
  <2>3. n \in 0 .. Len(sent) /\ GivenOut(n)
    BY <2>1, <2>2, MeantIs DEF Passed
  <2> QED BY <2>1, <2>2, <2>3, ParsedIs, GivesWhatWasSent
<1>2. CASE Refused
  <2>1. PICK n : n = Len(sent) - 1
    OBVIOUS
  <2>2. Sound /\ GivenOut(n)
    BY <1>2, <2>1 DEF Refused, GivenOut
  <2> QED BY <1>2, <2>1, <2>2, RefusedParsed, GivesWhatWasSent
<1> QED BY <1>1, <1>2 DEF Told

LEMMA ToldInStep ==
  ASSUME IInv, Told
  PROVE  InStep
<1>1. CASE error
  BY <1>1 DEF InStep
<1>2. CASE ~error
  <2>1. InOrder
    BY <1>2 DEF Told, Refused
  <2>2. PICK n : Passed(n)
    BY <2>1, InOrderPassed
  <2>3. Sound /\ pos <= Sense /\ pos \in Nat /\ Sense \in Nat
    BY <2>1, InOrderPassed, SoundBounds DEF IInv, TypeInv
  <2>4. Len(Meant) = Len(sent)
    BY <2>3, MeantIs
  <2>5. ASSUME NEW k \in 0 .. Len(sent) PROVE End(k) = pos <=> Ending(k) = pos
    <3>1. CASE Spoilt /\ k = Len(sent)
      <4>1. End(k) = Len(stream)
        BY <2>3, <3>1, EndIs
      <4>2. Sense < Len(stream) /\ Sense < Ending(k) /\ Ending(k) \in Nat /\ Len(stream) \in Nat
        BY <2>3, <3>1, SenseIs DEF Beyond
      <4> QED BY <2>3, <4>1, <4>2
    <3>2. CASE ~(Spoilt /\ k = Len(sent))
      <4>1. End(k) = Ending(k)
        BY <2>3, <3>2, EndIs
      <4> QED BY <4>1
    <3> QED BY <3>1, <3>2
  <2>6. fn = "fixedHeader" <=> \E k \in 0 .. Len(sent) : Ending(k) = pos
    BY <2>2, <2>4 DEF Passed
  <2>7. (\E k \in 0 .. Len(sent) : Ending(k) = pos)
        <=> \E k \in 0 .. Len(sent) : End(k) = pos
    BY <2>5
  <2> QED BY <2>6, <2>7 DEF InStep
<1> QED BY <1>1, <1>2

LEMMA ToldIsRight ==
  ASSUME IInv, Told
  PROVE  ErrorsAreRight
<1>1. CASE InOrder
  <2>1. Sound /\ pos <= Sense /\ ~error /\ pos \in Nat /\ Sense \in Nat
    BY <1>1, InOrderPassed, SoundBounds DEF IInv, TypeInv
  <2>2. ASSUME NEW k \in 1 .. Len(sent), IsNonsense(k) PROVE pos < End(k)
    <3>1. k = Len(sent) /\ Len(sent) \in Nat
      BY <2>1, <2>2, MeantIs
    <3>2. Spoilt /\ k \in 0 .. Len(sent)
      BY <2>2, <3>1 DEF Spoilt
    <3>3. End(k) = Len(stream)
      BY <2>1, <3>1, <3>2, EndIs
    <3>4. Sense < Len(stream) /\ Len(stream) \in Nat
      BY <2>1, <3>2, SenseIs DEF Beyond
    <3> QED BY <2>1, <3>3, <3>4
  <2> QED BY <2>1, <2>2 DEF ErrorsAreRight
<1>2. CASE Refused
  <2>1. PICK l : l = Len(sent)
    OBVIOUS
  <2>2. IsNonsense(l) /\ End(l - 1) < pos /\ pos <= End(l)
    BY <1>2, <2>1, RefusedParsed
  <2>3. l \in 1 .. Len(sent) /\ error
    <3>1. Sound /\ Spoilt /\ error
      BY <1>2 DEF Refused
    <3>2. Len(sent) \in Nat
      BY <3>1, MeantIs
    <3> QED BY <2>1, <3>1, <3>2 DEF Spoilt
  <2> QED BY <2>2, <2>3 DEF ErrorsAreRight
<1> QED BY <1>1, <1>2 DEF Told

\* A new connection begins in order.
Fresh == Sound /\ ~error /\ pos = 0 /\ fn = "fixedHeader" /\ got = <<>>

LEMMA OrderOpen == Fresh => InOrder
<1> SUFFICES ASSUME Fresh PROVE InOrder
  OBVIOUS
<1>0. Sound /\ ~error /\ pos = 0 /\ fn = "fixedHeader" /\ got = <<>>
  BY DEF Fresh
<1>1. Sense \in Nat /\ Meant \in Seq(Packets)
  BY <1>0, SoundBounds
<1>2. Behind(0)
  BY <1>0, <1>1, NothingFirst DEF Behind, Ending, Ends
<1>3. pos <= Sense /\ 0 \in 0 .. Len(Meant)
  BY <1>0, <1>1, NothingFirst
<1> QED BY <1>0, <1>2, <1>3 DEF InOrder

LEMMA OrderInit == Init => InOrder
<1> SUFFICES ASSUME Init PROVE InOrder
  OBVIOUS
<1>1. sent = <<>> /\ stream = <<>> /\ ~error
  BY DEF Init
<1>2. sent \in Said
  BY <1>1 DEF Said
<1>3. stream = Streamed(sent)
  <2>1. StreamedFirst(sent)[0] = <<>>
    <3>1. sent \in Seq(Packets)
      BY <1>1
    <3> QED BY <3>1, StreamedGrows, Zenon DEF Grows
  <2> QED BY <1>1, <2>1 DEF Streamed
<1>4. Sound
  BY <1>2, <1>3 DEF Sound
<1> QED BY <1>1, <1>4, OrderOpen DEF Init, Fresh

LEMMA OrderReconnect ==
  ASSUME Sent \subseteq Said
  PROVE  Reconnect => InOrder'
<1>1. Reconnect => Fresh'
  BY DEF Reconnect, Open, Sound, Fresh
<1>2. Fresh => InOrder
  BY OrderOpen
<1>3. Fresh' => InOrder'
  BY <1>2, PTL
<1> QED BY <1>1, <1>3

\* Each step of the parser keeps what it has parsed in order, up to nonsense.
Parses ==
  \/ FixedHeader \/ RemainingLengthFixed \/ RemainingLengthNone
  \/ RemainingLengthVariable \/ VarHeaderConnack1 \/ VarHeaderConnack2
  \/ VarHeaderPacketId1 \/ VarHeaderPacketId2 \/ VarHeaderTopicLength1
  \/ VarHeaderTopicLength2 \/ VarHeaderTopic \/ PayloadSuback \/ PayloadPublish

LEMMA OrderKept ==
  ASSUME Sent \subseteq Said, SizeWidth >= Radix4
  PROVE  IInv /\ Told /\ [Next]_vars => Told'
<1> SUFFICES ASSUME IInv, Told, [Next]_vars PROVE Told'
  OBVIOUS
<1>1. CASE Parses /\ InOrder
  <2>1. CASE pos < Sense
    <3>1. InOrder'
      BY <1>1, <2>1, OrderFixedHeader, OrderRemainingLengthFixed, OrderRemainingLengthNone,
         OrderRemainingLengthVariable, OrderVarHeaderConnack1, OrderVarHeaderConnack2,
         OrderVarHeaderPacketId1, OrderVarHeaderPacketId2, OrderVarHeaderTopicLength1,
         OrderVarHeaderTopicLength2, OrderVarHeaderTopic, OrderPayloadSuback,
         OrderPayloadPublish, Zenon DEF Parses
    <3> QED BY <3>1 DEF Told
  <2>2. CASE pos = Sense
    <3>1. Refused'
      BY <1>1, <2>2, RefusesFixedHeader, RefusesRemainingLengthFixed,
         RefusesRemainingLengthNone, RefusesRemainingLengthVariable,
         RefusesVarHeaderConnack1, RefusesVarHeaderConnack2, RefusesVarHeaderPacketId1,
         RefusesVarHeaderPacketId2, RefusesVarHeaderTopicLength1,
         RefusesVarHeaderTopicLength2, RefusesVarHeaderTopic, RefusesPayloadSuback,
         RefusesPayloadPublish, Zenon DEF Parses
    <3> QED BY <3>1 DEF Told
  <2>3. pos \in Nat /\ pos <= Sense /\ Sense \in Nat
    BY <1>1, SoundBounds DEF InOrder, IInv, TypeInv
  <2> QED BY <2>1, <2>2, <2>3
<1>2. CASE Read /\ InOrder
  BY <1>2, OrderRead DEF Told
<1>3. CASE (Parses \/ Read) /\ Refused
  <2>1. ~error
    BY <1>3, Zenon DEF Parses, At, FixedHeader, RemainingLengthFixed, RemainingLengthNone,
       RemainingLengthVariable, VarHeaderConnack1, VarHeaderConnack2, VarHeaderPacketId1,
       VarHeaderPacketId2, VarHeaderTopicLength1, VarHeaderTopicLength2, VarHeaderTopic,
       PayloadSuback, PayloadPublish, Read
  <2> QED BY <1>3, <2>1 DEF Refused
<1>4. CASE Reconnect
  BY <1>4, OrderReconnect DEF Told
<1>5. CASE UNCHANGED vars
  <2>1. /\ sent' = sent /\ stream' = stream /\ pos' = pos /\ fn' = fn /\ bytePos' = bytePos
        /\ pk' = pk /\ got' = got /\ error' = error
    BY <1>5 DEF vars
  <2>2. ASSUME InOrder PROVE InOrder'
    BY <2>1, <2>2, OrderStays
  <2>3. ASSUME Refused PROVE Refused'
    <3>1. Meant' = Meant /\ Sense' = Sense /\ (Spoilt' <=> Spoilt)
      BY <2>1, Unmoved DEF Spoilt, IsNonsense
    <3> QED BY <2>1, <2>3, <3>1 DEF Refused, Sound
  <2> QED BY <2>2, <2>3 DEF Told
<1>6. Next => Parses \/ Read \/ Reconnect
  BY Zenon DEF Next, Parses
<1> QED BY <1>1, <1>2, <1>3, <1>4, <1>5, <1>6 DEF Told
-----------------------------------------------------------------------------
(* What is sent is given out: the theorems *)

LEMMA OrderHolds ==
  ASSUME Sent \subseteq Said, SizeWidth >= Radix4
  PROVE  Spec => [](IInv /\ Told)
<1>1. Init => IInv /\ Told
  BY InitWithin, OrderInit DEF Told
<1>2. IInv /\ Told /\ [Next]_vars => IInv' /\ Told'
  BY StaysInside, OrderKept
<1> QED BY <1>1, <1>2, PTL DEF Spec

\* A server that sends packets that fit the buffers, and after them perhaps what is no
\* packet: whatever it sends, however the bytes are cut into reads and whenever a
\* connection is lost, the client is given these packets, one by one, each field as it
\* was sent, of a message under way the payload so far, and nothing of what is no packet
\* (Parser.cpp:50-61, 262-312).  Lengths are numbers of size_t.
THEOREM Delivers ==
  ASSUME Sent \subseteq Said, SizeWidth >= Radix4
  PROVE  Spec => []DeliversWhatWasSent
<1>1. IInv /\ Told => DeliversWhatWasSent
  BY ToldDelivers
<1> QED BY OrderHolds, <1>1, PTL

\* Between two packets, and only there, the parser waits for a header: no byte of
\* one packet is ever taken for a byte of another (Parser.cpp:67-72, 300-312).
THEOREM KeepsInStep ==
  ASSUME Sent \subseteq Said, SizeWidth >= Radix4
  PROVE  Spec => []InStep
<1>1. IInv /\ Told => InStep
  BY ToldInStep
<1> QED BY OrderHolds, <1>1, PTL

\* No packet is rejected: none of the checks on the way, of flags, lengths, codes
\* and packet ids, fails on a packet that fits.  And whatever is no packet, with any
\* byte that is wrong in one of these fields, is rejected before it is parsed to its
\* end (Parser.cpp:74-298).
THEOREM ErrorsAreReported ==
  ASSUME Sent \subseteq Said, SizeWidth >= Radix4
  PROVE  Spec => []ErrorsAreRight
<1>1. IInv /\ Told => ErrorsAreRight
  BY ToldIsRight
<1> QED BY OrderHolds, <1>1, PTL
===============================================================================
