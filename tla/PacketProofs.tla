------------------------------ MODULE PacketProofs ------------------------------
(****************************************************************************)
(* Whatever an application asks for, the bytes of its packet lie in the     *)
(* memory that was reserved for it, when they are written, when chunks of   *)
(* the payload are fetched and when the socket reads them; and a broker     *)
(* that reads what the socket took finds what was asked for.                *)
(****************************************************************************)
EXTENDS Packet, Facts

-----------------------------------------------------------------------------
(* Lists *)

LEMMA FunctionIsSeq ==
  ASSUME NEW n \in Nat, NEW S, NEW f \in [1 .. n -> S]
  PROVE  f \in Seq(S) /\ Len(f) = n
OBVIOUS

LEMMA TotalAdds ==
  ASSUME NEW s \in Seq(Nat)
  PROVE  \E sum \in [0 .. Len(s) -> Nat] :
           /\ sum[0] = 0 /\ \A k \in 1 .. Len(s) : sum[k] = sum[k - 1] + s[k]
           /\ Total(s) = sum[Len(s)]
<1> DEFINE n == Len(s)
           h == [p \in (1 .. n) \X Nat |-> p[2] + s[p[1]]]
           Is(f) == f = [k \in 0 .. n |-> IF k = 0 THEN 0 ELSE f[k - 1] + s[k]]
           sum == CHOOSE f : Is(f)
<1>1. n \in Nat /\ h \in [(1 .. n) \X Nat -> Nat]
  OBVIOUS
<1>2. \A k \in 1 .. n, v \in Nat : h[<<k, v>>] = v + s[k]
  OBVIOUS
<1> HIDE DEF n, h
<1>a. 0 \in Nat
  OBVIOUS
<1>3. PICK g \in [0 .. n -> Nat] : Runs(n, 0, h, g)
  BY <1>1, <1>a, LoopRuns
<1>4. ASSUME NEW k \in 1 .. n PROVE g[k] = g[k - 1] + s[k]
  <2>1. k - 1 \in 0 .. n
    BY <1>1
  <2>2. g[k - 1] \in Nat
    BY <2>1
  <2>3. g[k] = h[<<k, g[k - 1]>>] /\ h[<<k, g[k - 1]>>] = g[k - 1] + s[k]
    BY <1>2, <1>3, <2>2, Zenon DEF Runs
  <2> QED BY <2>3, Zenon
<1>5. Is(g)
  BY <1>1, <1>3, <1>4 DEF Runs
<1>6. Is(sum)
  BY <1>5, Zenon
<1> HIDE DEF sum
<1>7. DOMAIN sum = 0 .. n /\ sum[0] = 0 /\ \A k \in 1 .. n : sum[k] = sum[k - 1] + s[k]
  BY <1>1, <1>6
<1>8. ASSUME NEW k \in 0 .. n PROVE sum[k] = g[k]
  <2> DEFINE T == {m \in Nat : m <= n => sum[m] = g[m]}
  <2>1. 0 \in T
    BY <1>3, <1>7 DEF Runs
  <2>2. ASSUME NEW m \in Nat, m \in T PROVE m + 1 \in T
    <3> SUFFICES ASSUME m + 1 <= n PROVE sum[m + 1] = g[m + 1]
      OBVIOUS
    <3>1. m + 1 \in 1 .. n /\ sum[m] = g[m] /\ (m + 1) - 1 = m
      BY <2>2, <1>1
    <3> QED BY <3>1, <1>4, <1>7
  <2> HIDE DEF T
  <2>3. k \in T
    <3>1. Nat \subseteq T
      BY <2>1, <2>2, SetInduction
    <3>2. k \in Nat
      BY <1>1
    <3> QED BY <3>1, <3>2
  <2> QED BY <2>3 DEF T
<1>9. sum = g
  BY <1>1, <1>6, <1>8
<1>10. Total(s) = sum[n]
  BY Zenon DEF Total, sum, n
<1> QED BY <1>3, <1>4, <1>9, <1>10 DEF n, Runs

LEMMA FlattenJoins ==
  ASSUME NEW S, NEW ss \in Seq(Seq(S))
  PROVE  \E flat \in [0 .. Len(ss) -> Seq(S)] :
           /\ flat[0] = <<>> /\ \A k \in 1 .. Len(ss) : flat[k] = flat[k - 1] \o ss[k]
           /\ FlattenSeq(ss) = flat[Len(ss)]
<1> DEFINE n == Len(ss)
           h == [p \in (1 .. n) \X Seq(S) |-> p[2] \o ss[p[1]]]
           Is(f) == f = [k \in 1 .. n |-> IF k = 1 THEN ss[k] ELSE f[k - 1] \o ss[k]]
           flatten == CHOOSE f : Is(f)
<1>1. n \in Nat /\ h \in [(1 .. n) \X Seq(S) -> Seq(S)]
  OBVIOUS
<1>2. \A k \in 1 .. n, v \in Seq(S) : h[<<k, v>>] = v \o ss[k]
  OBVIOUS
<1>0. \A k \in 1 .. n : ss[k] \in Seq(S)
  OBVIOUS
<1> HIDE DEF n, h
<1>a. <<>> \in Seq(S)
  OBVIOUS
<1>3. PICK g \in [0 .. n -> Seq(S)] : Runs(n, <<>>, h, g)
  BY <1>1, <1>a, LoopRuns
<1>4. ASSUME NEW k \in 1 .. n PROVE g[k] = g[k - 1] \o ss[k]
  <2>1. k - 1 \in 0 .. n
    BY <1>1
  <2>2. g[k - 1] \in Seq(S)
    BY <2>1
  <2>3. g[k] = h[<<k, g[k - 1]>>] /\ h[<<k, g[k - 1]>>] = g[k - 1] \o ss[k]
    BY <1>2, <1>3, <2>2, Zenon DEF Runs
  <2> QED BY <2>3, Zenon
<1> DEFINE f0 == [k \in 1 .. n |-> g[k]]
<1>5. Is(f0)
  <2>1. ASSUME NEW k \in 1 .. n
        PROVE  f0[k] = IF k = 1 THEN ss[k] ELSE f0[k - 1] \o ss[k]
    <3>1. CASE k = 1
      <4>1. g[1] = g[1 - 1] \o ss[1]
        BY <1>4, <3>1
      <4>2. g[1 - 1] = <<>> /\ ss[1] \in Seq(S)
        BY <1>0, <1>3, <3>1 DEF Runs
      <4>3. g[1] = ss[1]
        BY <4>1, <4>2
      <4> QED BY <3>1, <4>3
    <3>2. CASE k # 1
      <4>1. k - 1 \in 1 .. n
        BY <1>1, <3>2
      <4> QED BY <1>4, <3>2, <4>1
    <3> QED BY <3>1, <3>2
  <2> QED BY <2>1
<1> HIDE DEF f0
<1>6. Is(flatten)
  BY <1>5, Zenon
<1> HIDE DEF flatten
<1>7. \A k \in 1 .. n : flatten[k] = IF k = 1 THEN ss[k] ELSE flatten[k - 1] \o ss[k]
  BY <1>6
<1>8. ASSUME NEW k \in 1 .. n PROVE flatten[k] = g[k]
  <2> DEFINE T == {m \in Nat : m \in 1 .. n => flatten[m] = g[m]}
  <2>1. 0 \in T
    OBVIOUS
  <2>2. ASSUME NEW m \in Nat, m \in T PROVE m + 1 \in T
    <3> SUFFICES ASSUME m + 1 \in 1 .. n PROVE flatten[m + 1] = g[m + 1]
      OBVIOUS
    <3>1. CASE m = 0
      <4>1. 1 \in 1 .. n /\ m + 1 = 1
        BY <3>1
      <4>2. g[1] = g[1 - 1] \o ss[1] /\ flatten[1] = ss[1]
        BY <1>4, <1>7, <4>1
      <4>3. g[1 - 1] = <<>> /\ ss[1] \in Seq(S)
        BY <1>0, <1>3, <4>1 DEF Runs
      <4> QED BY <4>1, <4>2, <4>3
    <3>2. CASE m # 0
      <4>1. flatten[m] = g[m] /\ (m + 1) - 1 = m /\ m + 1 # 1
        BY <1>1, <2>2, <3>2
      <4>2. flatten[m + 1] = flatten[m] \o ss[m + 1]
        BY <1>7, <4>1
      <4>3. g[m + 1] = g[m] \o ss[m + 1]
        BY <1>4, <4>1
      <4> QED BY <4>1, <4>2, <4>3
    <3> QED BY <3>1, <3>2
  <2> HIDE DEF T
  <2>3. k \in T
    <3>1. Nat \subseteq T
      BY <2>1, <2>2, SetInduction
    <3>2. k \in Nat
      BY <1>1
    <3> QED BY <3>1, <3>2
  <2> QED BY <2>3 DEF T
<1>9. FlattenSeq(ss) = g[n]
  <2>1. CASE n = 0
    <3>1. ss = <<>>
      BY <2>1 DEF n
    <3>2. FlattenSeq(ss) = ss
      BY <2>1 DEF FlattenSeq, n
    <3> QED BY <1>3, <2>1, <3>1, <3>2 DEF Runs
  <2>2. CASE n # 0
    <3>1. FlattenSeq(ss) = flatten[n]
      BY <2>2, Zenon DEF FlattenSeq, flatten, n
    <3>2. n \in 1 .. n
      BY <1>1, <2>2
    <3> QED BY <1>8, <3>1, <3>2
  <2> QED BY <2>1, <2>2
<1> QED BY <1>3, <1>4, <1>9 DEF n, Runs

\* The parts of a list take together what they take one by one.
LEMMA ListSize ==
  ASSUME NEW ss \in Seq(Seq(Nat)), NEW sizes \in Seq(Nat), Len(sizes) = Len(ss),
         \A k \in 1 .. Len(ss) : sizes[k] = Len(ss[k])
  PROVE  FlattenSeq(ss) \in Seq(Nat) /\ Total(sizes) \in Nat
         /\ Len(FlattenSeq(ss)) = Total(sizes)
<1> DEFINE n == Len(ss)
<1>0. n \in Nat /\ \A k \in 1 .. n : ss[k] \in Seq(Nat)
  OBVIOUS
<1>1. PICK flat \in [0 .. n -> Seq(Nat)] :
        /\ flat[0] = <<>> /\ \A k \in 1 .. n : flat[k] = flat[k - 1] \o ss[k]
        /\ FlattenSeq(ss) = flat[n]
  BY FlattenJoins
<1>2. PICK sum \in [0 .. n -> Nat] :
        /\ sum[0] = 0 /\ \A k \in 1 .. n : sum[k] = sum[k - 1] + sizes[k]
        /\ Total(sizes) = sum[n]
  BY TotalAdds
<1> HIDE DEF n
<1> DEFINE T == {m \in Nat : m <= n => Len(flat[m]) = sum[m]}
<1>3. 0 \in T
  BY <1>1, <1>2
<1>4. ASSUME NEW m \in Nat, m \in T PROVE m + 1 \in T
  <2> SUFFICES ASSUME m + 1 <= n PROVE Len(flat[m + 1]) = sum[m + 1]
    OBVIOUS
  <2>1. m + 1 \in 1 .. n /\ m \in 0 .. n /\ (m + 1) - 1 = m /\ Len(flat[m]) = sum[m]
    BY <1>0, <1>4
  <2>2. flat[m + 1] = flat[m] \o ss[m + 1] /\ sum[m + 1] = sum[m] + sizes[m + 1]
    BY <1>1, <1>2, <2>1
  <2>3. sizes[m + 1] = Len(ss[m + 1])
    BY <2>1 DEF n
  <2>4. flat[m] \in Seq(Nat) /\ ss[m + 1] \in Seq(Nat)
    BY <1>0, <1>1, <2>1
  <2>5. Len(flat[m] \o ss[m + 1]) = Len(flat[m]) + Len(ss[m + 1])
    BY <2>4
  <2> QED BY <2>1, <2>2, <2>3, <2>5
<1> HIDE DEF T
<1>5. n \in T
  BY <1>0, <1>3, <1>4, SetInduction
<1> QED BY <1>0, <1>1, <1>2, <1>5 DEF T

-----------------------------------------------------------------------------
(* The size of a packet *)

\* Strings that are not left out.
Strings == {s \in Seq(Nat) : Len(s) <= MaxString} \ {None}

\* b is n bytes long.
Sized(b, n) == b \in Seq(Nat) /\ Len(b) = n

LEMMA Joined ==
  ASSUME NEW m \in Nat, NEW n \in Nat, NEW a, NEW b, Sized(a, m), Sized(b, n)
  PROVE  Sized(a \o b, m + n)
  BY DEF Sized

LEMMA WordSized == ASSUME NEW n \in Nat PROVE Sized(Word(n), 2)
<1>1. n \div 256 \in Nat /\ n % 256 \in Nat
  OBVIOUS
<1> QED BY <1>1 DEF Sized, Word

LEMMA StringSized ==
  ASSUME NEW s \in Strings
  PROVE  Sized(encodeString(s), 2 + Len(s)) /\ StringSize(s) = 2 + Len(s) /\ Len(s) \in Nat
<1>1. s \in Seq(Nat) /\ Len(s) \in Nat /\ ~(Len(s) > MaxString) /\ s # None
  BY PacketAssumption DEF Strings
<1>2. encodeString(s) = Word(Len(s)) \o s
  BY <1>1 DEF encodeString
<1>3. Sized(Word(Len(s)), 2) /\ Sized(s, Len(s))
  BY <1>1, WordSized DEF Sized
<1>4. Sized(encodeString(s), 2 + Len(s))
  BY <1>1, <1>2, <1>3, Joined
<1> QED BY <1>1, <1>4 DEF StringSize

LEMMA OptionalSized ==
  ASSUME NEW s \in Strings \cup {None}
  PROVE  Sized(Optional(s), StringSize(s)) /\ StringSize(s) \in Nat
<1>1. CASE s = None
  BY <1>1 DEF Optional, StringSize, Sized
<1>2. CASE s # None
  BY <1>2, StringSized DEF Optional
<1> QED BY <1>1, <1>2

LEMMA CodeSized ==
  ASSUME NEW n \in 0 .. Radix4 - 1
  PROVE  Sized(encodeRemainingLength[n], remainingLengthLength(n))
         /\ remainingLengthLength(n) \in 1 .. 4
<1> DEFINE code == encodeRemainingLength
<1>0. Radix \in Nat /\ Radix > 2 /\ IsCode(Radix, code)
  BY CodeUnfolds, RadixAssumption, Zenon DEF encodeRemainingLength
<1> HIDE DEF code
<1>1. /\ Radix2 = Square(Radix) /\ Radix3 = Cube(Radix) /\ Radix4 = Fourth(Radix)
  BY DEF Square, Cube, Fourth, Radix2, Radix3, Radix4
<1>2. /\ Radix2 \in Nat /\ Radix2 >= Radix /\ Radix3 \in Nat /\ Radix3 >= Radix2
      /\ Radix4 \in Nat /\ Radix4 >= Radix3 /\ n \in Nat
  BY <1>0 DEF Radix2, Radix3, Radix4
<1>3. CASE n < Radix
  <2>1. code[n] = <<n>>
    BY <1>0, <1>2, <1>3, OneDigit
  <2>2. Sized(code[n], 1)
    BY <1>2, <2>1 DEF Sized
  <2>3. remainingLengthLength(n) = 1
    BY <1>0, <1>2, <1>3 DEF remainingLengthLength
  <2> QED BY <2>2, <2>3 DEF code
<1>4. CASE n >= Radix /\ n < Radix2
  <2>1. n \in Radix .. Square(Radix) - 1
    BY <1>0, <1>1, <1>2, <1>4
  <2>2. InTwo(Radix, code, n)
    BY <1>0, <2>1, TwoDigits
  <2>3. PICK a, b \in 0 .. Radix - 1 : code[n] = <<Radix + a, b>>
    BY <2>2 DEF InTwo
  <2>4. Radix + a \in Nat /\ b \in Nat
    BY <1>0
  <2>5. Sized(code[n], 2)
    BY <2>3, <2>4 DEF Sized
  <2>6. remainingLengthLength(n) = 2
    BY <1>0, <1>2, <1>4 DEF remainingLengthLength
  <2> QED BY <2>5, <2>6 DEF code
<1>5. CASE n >= Radix2 /\ n < Radix3
  <2>1. n \in Square(Radix) .. Cube(Radix) - 1
    BY <1>0, <1>1, <1>2, <1>5
  <2>2. InThree(Radix, code, n)
    BY <1>0, <2>1, ThreeDigits
  <2>3. PICK a, b, c \in 0 .. Radix - 1 : code[n] = <<Radix + a, Radix + b, c>>
    BY <2>2 DEF InThree
  <2>4. Radix + a \in Nat /\ Radix + b \in Nat /\ c \in Nat
    BY <1>0
  <2>5. Sized(code[n], 3)
    BY <2>3, <2>4 DEF Sized
  <2>6. remainingLengthLength(n) = 3
    BY <1>0, <1>2, <1>5 DEF remainingLengthLength
  <2> QED BY <2>5, <2>6 DEF code
<1>6. CASE n >= Radix3
  <2>1. n \in Cube(Radix) .. Fourth(Radix) - 1
    BY <1>0, <1>1, <1>2, <1>6
  <2>2. InFour(Radix, code, n)
    BY <1>0, <2>1, FourDigits
  <2>3. PICK a, b, c, d \in 0 .. Radix - 1 :
          code[n] = <<Radix + a, Radix + b, Radix + c, d>>
    BY <2>2 DEF InFour
  <2>4. Radix + a \in Nat /\ Radix + b \in Nat /\ Radix + c \in Nat /\ d \in Nat
    BY <1>0
  <2>5. Sized(code[n], 4)
    BY <2>3, <2>4 DEF Sized
  <2>6. remainingLengthLength(n) = 4
    BY <1>0, <1>2, <1>6 DEF remainingLengthLength
  <2> QED BY <2>5, <2>6 DEF code
<1> QED BY <1>0, <1>2, <1>3, <1>4, <1>5, <1>6

LEMMA FixedSized ==
  ASSUME NEW r, Remaining(r) \in 0 .. Radix4 - 1, NEW first \in Nat
  PROVE  Sized(Fixed(first, r), 1 + remainingLengthLength(Remaining(r)))
         /\ remainingLengthLength(Remaining(r)) \in 1 .. 4
<1>1. Sized(<<first>>, 1)
  BY DEF Sized
<1>2. /\ Sized(encodeRemainingLength[Remaining(r)], remainingLengthLength(Remaining(r)))
      /\ remainingLengthLength(Remaining(r)) \in 1 .. 4
  BY CodeSized
<1>3. remainingLengthLength(Remaining(r)) \in Nat
  BY <1>2
<1> QED BY <1>1, <1>2, <1>3, Joined, Zenon DEF Fixed

\* What an application may ask for: strings that are not left out, a will with its
\* payload, and no more than fits the length of a packet.
Wills ==
  {w \in [topic : Strings \cup {None}, payload : Seq(Nat) \cup {None}, length : Nat,
          qos : 0 .. 2, retain : BOOLEAN] :
     w.topic # None => w.payload # None /\ w.payload \in Seq(Nat)
                       /\ w.length <= Len(w.payload)}

Connects ==
  [type : {CONNECT}, clean : BOOLEAN, keepAlive : Nat, clientId : Strings, will : Wills,
   username : Strings \cup {None}, password : Strings \cup {None}]
Publishes ==
  [type : {PUBLISH}, id : Nat, topic : Strings, payload : Seq(Nat), qos : 0 .. 2,
   retain : BOOLEAN, chunked : BOOLEAN]
Subscribes ==
  [type : {SUBSCRIBE}, id : Nat, list : Seq([topic : Strings, qos : 0 .. 2])]
Unsubscribes == [type : {UNSUBSCRIBE}, id : Nat, list : Seq(Strings)]
Acks == [type : {PUBACK, PUBREC, PUBREL, PUBCOMP}, id : Nat]
Bares == [type : {PINGREQ, DISCONNECT}]

\* What the constructor has to write, a payload that is fetched later not counted.
ToWrite(r) ==
  1 + remainingLengthLength(Remaining(r)) + Remaining(r)
  - (IF r.type = PUBLISH /\ r.chunked THEN Len(r.payload) ELSE 0)

\* The length of a will lies in its payload.
LEMMA WillFits ==
  ASSUME NEW r, r.will \in Wills, r.will.topic # None
  PROVE  /\ r.will.topic \in Strings /\ r.will.payload # None
         /\ r.will.payload \in Seq(Nat) /\ WillLength(r) \in 0 .. Len(r.will.payload)
<1> DEFINE p == r.will.payload
<1>1. /\ r.will.topic \in Strings /\ p # None /\ p \in Seq(Nat)
      /\ r.will.length \in Nat /\ r.will.length <= Len(p)
  BY DEF Wills
<1>2. StrLen(p) \in 0 .. Len(p)
  <2>1. CASE Contains(p, 0)
    <3> DEFINE Zeros == {k \in 1 .. Len(p) : p[k] = 0}
               Is(k) == p[k] = 0 /\ \A j \in 1 .. k - 1 : p[j] # 0
    <3>0. Len(p) \in Nat
      BY <1>1
    <3>1. Zeros \subseteq Nat /\ Zeros # {}
      BY <2>1 DEF Contains
    <3>2. PICK x \in Zeros : \A y \in Zeros : x <= y
      BY <3>1, LeastNat
    <3>3. x \in 1 .. Len(p) /\ Is(x)
      BY <3>0, <3>2
    <3>4. (CHOOSE k \in 1 .. Len(p) : Is(k)) \in 1 .. Len(p)
      BY <3>3, Zenon
    <3>5. StrLen(p) = (CHOOSE k \in 1 .. Len(p) : Is(k)) - 1
      BY <2>1, Zenon DEF StrLen
    <3> HIDE DEF p, Is
    <3> QED BY <3>0, <3>4, <3>5
  <2>2. CASE ~Contains(p, 0)
    BY <1>1, <2>2 DEF StrLen
  <2> QED BY <2>1, <2>2
<1>3. WillLength(r) \in 0 .. Len(p)
  BY <1>1, <1>2 DEF WillLength
<1> QED BY <1>1, <1>3

LEMMA WillSized ==
  ASSUME NEW r, r.will \in Wills
  PROVE  LET bytes == When(r.will.topic # None,
                           StringSize(r.will.topic) + 2 + WillLength(r))
         IN  bytes \in Nat
             /\ Sized(IF r.will.topic # None /\ r.will.payload # None
                      THEN encodeString(r.will.topic) \o Word(WillLength(r))
                           \o SubSeq(r.will.payload, 1, WillLength(r))
                      ELSE <<>>, bytes)
<1>1. CASE r.will.topic = None
  BY <1>1 DEF When, Sized
<1>2. CASE r.will.topic # None
  <2> DEFINE w == WillLength(r)
             p == r.will.payload
             t == r.will.topic
  <2>1. t \in Strings /\ p # None /\ p \in Seq(Nat) /\ w \in 0 .. Len(p)
    BY <1>2, WillFits
  <2> HIDE DEF w, p, t
  <2>2. w \in Nat /\ Sized(Word(w), 2)
    BY <2>1, WordSized
  <2>3. Sized(SubSeq(p, 1, w), w)
    BY <2>1 DEF Sized
  <2>4. Sized(encodeString(t), StringSize(t)) /\ StringSize(t) \in Nat
    BY <2>1, StringSized
  <2>5. Sized(encodeString(t) \o Word(w), StringSize(t) + 2)
    BY <2>2, <2>4, Joined
  <2>6. Sized((encodeString(t) \o Word(w)) \o SubSeq(p, 1, w), StringSize(t) + 2 + w)
    BY <2>2, <2>3, <2>4, <2>5, Joined
  <2>7. StringSize(t) + 2 + w \in Nat
    BY <2>2, <2>4
  <2> QED BY <1>2, <2>1, <2>6, <2>7, Zenon DEF When, w, p, t
<1> QED BY <1>1, <1>2

LEMMA ConnectSized ==
  ASSUME NEW r \in Connects, MaxString >= 4, Remaining(r) < Radix4
  PROVE  Remaining(r) \in Nat /\ Sized(Written(r), ToWrite(r))
<1> DEFINE F == Fixed(CONNECT, r)
           n == 1 + remainingLengthLength(Remaining(r))
           flags == ConnectFlags(r)
           will == IF r.will.topic # None /\ r.will.payload # None
                   THEN encodeString(r.will.topic) \o Word(WillLength(r))
                        \o SubSeq(r.will.payload, 1, WillLength(r))
                   ELSE <<>>
           w == When(r.will.topic # None, StringSize(r.will.topic) + 2 + WillLength(r))
           u == StringSize(r.username)
           p == StringSize(r.password)
           i == StringSize(r.clientId)
<1>1. /\ r.type = CONNECT /\ r.keepAlive \in Nat /\ r.clientId \in Strings
      /\ r.will \in Wills /\ r.username \in Strings \cup {None}
      /\ r.password \in Strings \cup {None}
  BY DEF Connects
<1>2. Remaining(r) = 10 + i + w + u + p
  BY <1>1 DEF Remaining, CONNECT, PUBLISH, SUBSCRIBE, UNSUBSCRIBE, PUBACK, PUBREC,
      PUBREL, PUBCOMP, PINGREQ, DISCONNECT
<1>3. Written(r) = F \o encodeString(Protocol) \o <<4, flags>> \o Word(r.keepAlive)
                   \o encodeString(r.clientId) \o will \o Optional(r.username)
                   \o Optional(r.password)
  <2>1. Written(r) = ConnectBytes(r)
    BY <1>1 DEF Written, CONNECT, PUBLISH, SUBSCRIBE, UNSUBSCRIBE, PUBACK, PUBREC,
        PUBREL, PUBCOMP, PINGREQ, DISCONNECT
  <2> QED BY <2>1, Zenon DEF ConnectBytes
<1>5. w \in Nat /\ Sized(will, w)
  BY <1>1, WillSized
<1>6. /\ i \in Nat /\ Sized(encodeString(r.clientId), i)
      /\ u \in Nat /\ Sized(Optional(r.username), u)
      /\ p \in Nat /\ Sized(Optional(r.password), p)
  BY <1>1, StringSized, OptionalSized
<1>7. Remaining(r) \in Nat /\ Remaining(r) \in 0 .. Radix4 - 1
  <2> HIDE DEF i, w, u, p
  <2>1. Radix4 \in Nat
    BY RadixAssumption DEF Radix2, Radix3, Radix4
  <2> QED BY <1>2, <1>5, <1>6, <2>1
<1>8. Sized(F, n) /\ n \in Nat
  <2>1. Sized(F, n) /\ remainingLengthLength(Remaining(r)) \in 1 .. 4
    BY <1>7, FixedSized DEF CONNECT
  <2> QED BY <2>1
<1>4. ToWrite(r) = n + Remaining(r)
  BY <1>1, <1>7, <1>8 DEF ToWrite, CONNECT, PUBLISH
<1>9. Sized(encodeString(Protocol), 6)
  <2>1. Protocol \in Seq(Nat) /\ Len(Protocol) = 4
    BY DEF Protocol
  <2>2. encodeString(Protocol) = Word(4) \o Protocol
    BY <2>1, PacketAssumption DEF encodeString
  <2>3. Sized(Word(4), 2)
    BY WordSized
  <2>4. Sized(Protocol, 4)
    BY <2>1 DEF Sized
  <2>5. Sized(Word(4) \o Protocol, 2 + 4)
    BY <2>3, <2>4, Joined
  <2> QED BY <2>2, <2>5
<1>10. Sized(<<4, flags>>, 2)
  <2>1. flags \in Nat
    <3>1. r.will \in Wills
      BY <1>1
    <3>2. r.will.qos \in Nat
      BY <3>1 DEF Wills
    <3>3. \A c : When(c, 2) \in Nat /\ When(c, 128) \in Nat /\ When(c, 64) \in Nat
      BY DEF When
    <3>4. When(r.will.topic # None, 4 + When(r.will.retain, 32) + 8 * r.will.qos) \in Nat
      BY <3>2 DEF When
    <3> QED BY <3>3, <3>4 DEF ConnectFlags
  <2> HIDE DEF flags
  <2> QED BY <2>1 DEF Sized
<1>11. Sized(Word(r.keepAlive), 2)
  BY <1>1, WordSized
<1> DEFINE a1 == F \o encodeString(Protocol)
           a2 == a1 \o <<4, flags>>
           a3 == a2 \o Word(r.keepAlive)
           a4 == a3 \o encodeString(r.clientId)
           a5 == a4 \o will
           a6 == a5 \o Optional(r.username)
           a7 == a6 \o Optional(r.password)
<1>12. Written(r) = a7
  BY <1>3, Zenon
<1> HIDE DEF n, i, w, u, p, F, flags, will
<1>13. Sized(a1, n + 6) /\ n + 6 \in Nat
  BY <1>8, <1>9, Joined
<1> HIDE DEF a1
<1>14. Sized(a2, n + 6 + 2) /\ n + 6 + 2 \in Nat
  BY <1>10, <1>13, Joined
<1> HIDE DEF a2
<1>15. Sized(a3, n + 6 + 2 + 2) /\ n + 6 + 2 + 2 \in Nat
  BY <1>11, <1>14, Joined
<1> HIDE DEF a3
<1>16. Sized(a4, n + 6 + 2 + 2 + i) /\ n + 6 + 2 + 2 + i \in Nat
  BY <1>6, <1>15, Joined
<1> HIDE DEF a4
<1>17. Sized(a5, n + 6 + 2 + 2 + i + w) /\ n + 6 + 2 + 2 + i + w \in Nat
  BY <1>5, <1>16, Joined
<1> HIDE DEF a5
<1>18. Sized(a6, n + 6 + 2 + 2 + i + w + u) /\ n + 6 + 2 + 2 + i + w + u \in Nat
  BY <1>6, <1>17, Joined
<1> HIDE DEF a6
<1>19. Sized(a7, n + 6 + 2 + 2 + i + w + u + p)
  BY <1>6, <1>18, Joined
<1> HIDE DEF a7
<1>20. n + 6 + 2 + 2 + i + w + u + p = n + Remaining(r)
  BY <1>2, <1>5, <1>6, <1>8
<1> QED BY <1>4, <1>7, <1>12, <1>19, <1>20

\* The header of a packet without strings, and what is behind it.
LEMMA HeaderAnd ==
  ASSUME NEW r, NEW first \in Nat, NEW b, Remaining(r) \in 0 .. Radix4 - 1,
         NEW k \in Nat, Sized(b, k)
  PROVE  Sized(Fixed(first, r) \o b, 1 + remainingLengthLength(Remaining(r)) + k)
<1> DEFINE n == 1 + remainingLengthLength(Remaining(r))
<1>1. Sized(Fixed(first, r), n) /\ n \in Nat
  <2>1. Sized(Fixed(first, r), n) /\ remainingLengthLength(Remaining(r)) \in 1 .. 4
    BY FixedSized
  <2> QED BY <2>1
<1> HIDE DEF n
<1>2. Sized(Fixed(first, r) \o b, n + k)
  BY <1>1, Joined
<1> QED BY <1>2 DEF n

LEMMA PublishSized ==
  ASSUME NEW r \in Publishes, Remaining(r) < Radix4
  PROVE  Remaining(r) \in Nat /\ Sized(Written(r), ToWrite(r))
<1> DEFINE first == PUBLISH + When(r.retain, 1) + 2 * r.qos
           n == 1 + remainingLengthLength(Remaining(r))
           t == StringSize(r.topic)
           l == Len(r.payload)
           q == When(r.qos # 0, 2)
           word == IF r.qos > 0 THEN Word(r.id) ELSE <<>>
           body == IF r.chunked THEN <<>> ELSE r.payload
           header == Fixed(first, r) \o encodeString(r.topic) \o word
<1>1. /\ r.type = PUBLISH /\ r.id \in Nat /\ r.topic \in Strings /\ r.payload \in Seq(Nat)
      /\ r.qos \in 0 .. 2 /\ r.chunked \in BOOLEAN
  BY DEF Publishes
<1>2. Remaining(r) = t + q + l
  BY <1>1 DEF Remaining, CONNECT, PUBLISH, SUBSCRIBE, UNSUBSCRIBE, PUBACK, PUBREC,
      PUBREL, PUBCOMP, PINGREQ, DISCONNECT
<1>3. Written(r) = header \o body
  <2>1. Written(r) = PublishHeader(r) \o body
    BY <1>1 DEF Written, CONNECT, PUBLISH, SUBSCRIBE, UNSUBSCRIBE, PUBACK, PUBREC,
        PUBREL, PUBCOMP, PINGREQ, DISCONNECT
  <2> QED BY <2>1, Zenon DEF PublishHeader
<1>4. l \in Nat /\ Sized(r.payload, l)
  BY <1>1 DEF Sized
<1>5. t \in Nat /\ Sized(encodeString(r.topic), t)
  BY <1>1, StringSized
<1>6. q \in Nat /\ Sized(word, q)
  <2>1. Sized(Word(r.id), 2)
    BY <1>1, WordSized
  <2>2. CASE r.qos = 0
    <3>1. ~(r.qos > 0) /\ ~(r.qos # 0)
      BY <2>2
    <3>2. q = 0 /\ word = <<>>
      BY <3>1, Zenon DEF When
    <3>3. Sized(<<>>, 0)
      BY DEF Sized
    <3> HIDE DEF q, word
    <3> QED BY <3>2, <3>3
  <2>3. CASE r.qos > 0
    <3>1. q = 2 /\ word = Word(r.id)
      BY <1>1, <2>3 DEF When
    <3> QED BY <2>1, <3>1
  <2> QED BY <1>1, <2>2, <2>3
<1>7. Remaining(r) \in Nat /\ Remaining(r) \in 0 .. Radix4 - 1
  <2> HIDE DEF t, q, l
  <2>1. Radix4 \in Nat
    BY RadixAssumption DEF Radix2, Radix3, Radix4
  <2> QED BY <1>2, <1>4, <1>5, <1>6, <2>1
<1>8. first \in Nat
  BY <1>1 DEF PUBLISH, When
<1>9. n \in Nat
  <2>1. remainingLengthLength(Remaining(r)) \in 1 .. 4
    BY <1>7, <1>8, FixedSized
  <2> QED BY <2>1
<1>10. Sized(Fixed(first, r) \o encodeString(r.topic), n + t)
  BY <1>5, <1>7, <1>8, HeaderAnd
<1>11. Sized(header, n + t + q)
  <2> HIDE DEF n, t, q, word, first
  <2>1. n + t \in Nat
    BY <1>5, <1>9
  <2> QED BY <1>6, <1>10, <2>1, Joined
<1>12. CASE r.chunked
  <2>1. body = <<>>
    BY <1>12
  <2>2. Sized(<<>>, 0)
    BY DEF Sized
  <2>3. ToWrite(r) = n + Remaining(r) - l
    BY <1>1, <1>12 DEF ToWrite
  <2> HIDE DEF n, t, q, l, header, body
  <2>4. ToWrite(r) = n + t + q + 0 /\ n + t + q \in Nat
    BY <1>2, <1>4, <1>5, <1>6, <1>9, <2>3
  <2> QED BY <1>3, <1>7, <1>11, <2>1, <2>2, <2>4, Joined
<1>13. CASE ~r.chunked
  <2>1. body = r.payload
    BY <1>13
  <2>2. ToWrite(r) = n + Remaining(r) - 0
    BY <1>1, <1>13 DEF ToWrite
  <2> HIDE DEF n, t, q, l, header, body
  <2>3. ToWrite(r) = n + t + q + l /\ n + t + q \in Nat
    BY <1>2, <1>4, <1>5, <1>6, <1>9, <2>2
  <2> QED BY <1>3, <1>4, <1>7, <1>11, <2>1, <2>3, Joined
<1> QED BY <1>1, <1>12, <1>13

LEMMA SubscribeSized ==
  ASSUME NEW r \in Subscribes, Remaining(r) < Radix4
  PROVE  Remaining(r) \in Nat /\ Sized(Written(r), ToWrite(r))
<1> DEFINE ss == [k \in 1 .. Len(r.list) |->
                    encodeString(r.list[k].topic) \o <<r.list[k].qos>>]
           sizes == [k \in 1 .. Len(r.list) |-> StringSize(r.list[k].topic) + 1]
           n == 1 + remainingLengthLength(Remaining(r))
<1>1. /\ r.type = SUBSCRIBE /\ r.id \in Nat /\ Len(r.list) \in Nat
      /\ \A k \in 1 .. Len(r.list) : r.list[k].topic \in Strings /\ r.list[k].qos \in 0 .. 2
  <2> DEFINE Entry == [topic : Strings, qos : 0 .. 2]
  <2>1. r.type = SUBSCRIBE /\ r.id \in Nat /\ r.list \in Seq(Entry)
    BY DEF Subscribes
  <2>2. \A e \in Entry : e.topic \in Strings /\ e.qos \in 0 .. 2
    OBVIOUS
  <2> HIDE DEF Entry
  <2>3. \A k \in 1 .. Len(r.list) : r.list[k] \in Entry
    BY <2>1
  <2> QED BY <2>1, <2>2, <2>3
<1>2. Remaining(r) = 2 + Total(sizes)
  BY <1>1 DEF Remaining, CONNECT, PUBLISH, SUBSCRIBE, UNSUBSCRIBE, PUBACK, PUBREC,
      PUBREL, PUBCOMP, PINGREQ, DISCONNECT
<1>3. Written(r) = Fixed(SUBSCRIBE, r) \o Word(r.id) \o FlattenSeq(ss)
  <2>1. Written(r) = SubscribeBytes(r)
    BY <1>1 DEF Written, CONNECT, PUBLISH, SUBSCRIBE, UNSUBSCRIBE, PUBACK, PUBREC,
        PUBREL, PUBCOMP, PINGREQ, DISCONNECT
  <2> QED BY <2>1, Zenon DEF SubscribeBytes
<1>4. ASSUME NEW k \in 1 .. Len(r.list)
      PROVE  /\ ss[k] \in Seq(Nat) /\ sizes[k] = Len(ss[k]) /\ sizes[k] \in Nat
  <2>1. /\ Sized(encodeString(r.list[k].topic), StringSize(r.list[k].topic))
        /\ StringSize(r.list[k].topic) \in Nat
    BY <1>1, StringSized
  <2>2. Sized(<<r.list[k].qos>>, 1)
    BY <1>1 DEF Sized
  <2>3. Sized(encodeString(r.list[k].topic) \o <<r.list[k].qos>>,
              StringSize(r.list[k].topic) + 1)
    BY <2>1, <2>2, Joined
  <2> QED BY <2>1, <2>3 DEF Sized
<1> DEFINE N == Len(r.list)
<1>5. /\ ss \in Seq(Seq(Nat)) /\ sizes \in Seq(Nat)
      /\ Len(ss) = Len(r.list) /\ Len(sizes) = Len(r.list)
  <2>1. DOMAIN ss = 1 .. N /\ DOMAIN sizes = 1 .. N /\ N \in Nat
    BY <1>1
  <2>2. ss = [k \in 1 .. N |-> ss[k]] /\ sizes = [k \in 1 .. N |-> sizes[k]]
    OBVIOUS
  <2> HIDE DEF ss, sizes, N
  <2>3. ss \in [1 .. N -> Seq(Nat)] /\ sizes \in [1 .. N -> Nat]
    BY <1>4, <2>2 DEF N
  <2>4. ss \in Seq(Seq(Nat)) /\ sizes \in Seq(Nat)
    BY <2>1, <2>3
  <2> QED BY <2>1, <2>4 DEF N
<1> HIDE DEF ss, sizes
<1>6. Sized(FlattenSeq(ss), Total(sizes)) /\ Total(sizes) \in Nat
  BY <1>4, <1>5, ListSize DEF Sized
<1>7. Remaining(r) \in Nat /\ Remaining(r) \in 0 .. Radix4 - 1
  <2>1. Radix4 \in Nat
    BY RadixAssumption DEF Radix2, Radix3, Radix4
  <2> QED BY <1>2, <1>6, <2>1
<1>8. n \in Nat
  <2>1. remainingLengthLength(Remaining(r)) \in 1 .. 4
    BY <1>7, FixedSized
  <2> QED BY <2>1
<1>9. Sized(Fixed(SUBSCRIBE, r) \o Word(r.id), n + 2)
  <2>1. Sized(Word(r.id), 2) /\ SUBSCRIBE \in Nat
    BY <1>1, WordSized DEF SUBSCRIBE
  <2> QED BY <1>7, <2>1, HeaderAnd
<1>10. ToWrite(r) = n + Remaining(r)
  BY <1>1, <1>7, <1>8 DEF ToWrite, SUBSCRIBE, PUBLISH
<1> HIDE DEF n
<1>11. n + 2 \in Nat /\ ToWrite(r) = n + 2 + Total(sizes)
  BY <1>2, <1>6, <1>8, <1>10
<1> QED BY <1>3, <1>6, <1>7, <1>9, <1>11, Joined

LEMMA UnsubscribeSized ==
  ASSUME NEW r \in Unsubscribes, Remaining(r) < Radix4
  PROVE  Remaining(r) \in Nat /\ Sized(Written(r), ToWrite(r))
<1> DEFINE ss == [k \in 1 .. Len(r.list) |-> encodeString(r.list[k])]
           sizes == [k \in 1 .. Len(r.list) |-> StringSize(r.list[k])]
           n == 1 + remainingLengthLength(Remaining(r))
<1>1. /\ r.type = UNSUBSCRIBE /\ r.id \in Nat /\ Len(r.list) \in Nat
      /\ \A k \in 1 .. Len(r.list) : r.list[k] \in Strings
  BY DEF Unsubscribes
<1>2. Remaining(r) = 2 + Total(sizes)
  BY <1>1 DEF Remaining, CONNECT, PUBLISH, SUBSCRIBE, UNSUBSCRIBE, PUBACK, PUBREC,
      PUBREL, PUBCOMP, PINGREQ, DISCONNECT
<1>3. Written(r) = Fixed(UNSUBSCRIBE, r) \o Word(r.id) \o FlattenSeq(ss)
  <2>1. Written(r) = UnsubscribeBytes(r)
    BY <1>1 DEF Written, CONNECT, PUBLISH, SUBSCRIBE, UNSUBSCRIBE, PUBACK, PUBREC,
        PUBREL, PUBCOMP, PINGREQ, DISCONNECT
  <2> QED BY <2>1, Zenon DEF UnsubscribeBytes
<1>4. ASSUME NEW k \in 1 .. Len(r.list)
      PROVE  /\ ss[k] \in Seq(Nat) /\ sizes[k] = Len(ss[k]) /\ sizes[k] \in Nat
  <2>1. /\ Sized(encodeString(r.list[k]), StringSize(r.list[k]))
        /\ StringSize(r.list[k]) \in Nat
    BY <1>1, StringSized
  <2> QED BY <2>1 DEF Sized
<1> DEFINE N == Len(r.list)
<1>5. /\ ss \in Seq(Seq(Nat)) /\ sizes \in Seq(Nat)
      /\ Len(ss) = Len(r.list) /\ Len(sizes) = Len(r.list)
  <2>1. DOMAIN ss = 1 .. N /\ DOMAIN sizes = 1 .. N /\ N \in Nat
    BY <1>1
  <2>2. ss = [k \in 1 .. N |-> ss[k]] /\ sizes = [k \in 1 .. N |-> sizes[k]]
    OBVIOUS
  <2> HIDE DEF ss, sizes, N
  <2>3. ss \in [1 .. N -> Seq(Nat)] /\ sizes \in [1 .. N -> Nat]
    BY <1>4, <2>2 DEF N
  <2>4. ss \in Seq(Seq(Nat)) /\ sizes \in Seq(Nat)
    BY <2>1, <2>3
  <2> QED BY <2>1, <2>4 DEF N
<1> HIDE DEF ss, sizes
<1>6. Sized(FlattenSeq(ss), Total(sizes)) /\ Total(sizes) \in Nat
  BY <1>4, <1>5, ListSize DEF Sized
<1>7. Remaining(r) \in Nat /\ Remaining(r) \in 0 .. Radix4 - 1
  <2>1. Radix4 \in Nat
    BY RadixAssumption DEF Radix2, Radix3, Radix4
  <2> QED BY <1>2, <1>6, <2>1
<1>8. n \in Nat
  <2>1. remainingLengthLength(Remaining(r)) \in 1 .. 4
    BY <1>7, FixedSized
  <2> QED BY <2>1
<1>9. Sized(Fixed(UNSUBSCRIBE, r) \o Word(r.id), n + 2)
  <2>1. Sized(Word(r.id), 2) /\ UNSUBSCRIBE \in Nat
    BY <1>1, WordSized DEF UNSUBSCRIBE
  <2> QED BY <1>7, <2>1, HeaderAnd
<1>10. ToWrite(r) = n + Remaining(r)
  BY <1>1, <1>7, <1>8 DEF ToWrite, UNSUBSCRIBE, PUBLISH
<1> HIDE DEF n
<1>11. n + 2 \in Nat /\ ToWrite(r) = n + 2 + Total(sizes)
  BY <1>2, <1>6, <1>8, <1>10
<1> QED BY <1>3, <1>6, <1>7, <1>9, <1>11, Joined

LEMMA ShortSized ==
  ASSUME NEW r \in Acks \cup Bares
  PROVE  Remaining(r) \in {0, 2} /\ (Remaining(r) < Radix4 => Sized(Written(r), ToWrite(r)))
<1> DEFINE n == 1 + remainingLengthLength(Remaining(r))
<1>0. Radix4 \in Nat
  BY RadixAssumption DEF Radix2, Radix3, Radix4
<1>1. CASE r \in Acks
  <2>1. r.type \in {PUBACK, PUBREC, PUBREL, PUBCOMP} /\ r.id \in Nat
    BY <1>1 DEF Acks
  <2>2. Remaining(r) = 2
    BY <2>1 DEF Remaining, CONNECT, PUBLISH, SUBSCRIBE, UNSUBSCRIBE, PUBACK, PUBREC,
        PUBREL, PUBCOMP, PINGREQ, DISCONNECT
  <2>3. Written(r) = Fixed(r.type + When(r.type = PUBREL, 2), r) \o Word(r.id)
    BY <2>1 DEF Written, CONNECT, PUBLISH, SUBSCRIBE, UNSUBSCRIBE, PUBACK, PUBREC,
        PUBREL, PUBCOMP, PINGREQ, DISCONNECT
  <2> SUFFICES ASSUME Remaining(r) < Radix4 PROVE Sized(Written(r), ToWrite(r))
    BY <2>2
  <2>4. Remaining(r) \in 0 .. Radix4 - 1
    BY <1>0, <2>2
  <2>5. r.type + When(r.type = PUBREL, 2) \in Nat
    BY <2>1 DEF When, PUBACK, PUBREC, PUBREL, PUBCOMP
  <2>6. Sized(Word(r.id), 2)
    BY <2>1, WordSized
  <2>7. Sized(Fixed(r.type + When(r.type = PUBREL, 2), r) \o Word(r.id), n + 2)
    BY <2>4, <2>5, <2>6, HeaderAnd
  <2>8. n \in Nat
    <3>1. remainingLengthLength(Remaining(r)) \in 1 .. 4
      BY <2>4, FixedSized
    <3> QED BY <3>1
  <2>9. ToWrite(r) = n + 2
    BY <2>1, <2>2, <2>8 DEF ToWrite, PUBACK, PUBREC, PUBREL, PUBCOMP, PUBLISH
  <2> QED BY <2>3, <2>7, <2>9
<1>2. CASE r \in Bares
  <2>1. r.type \in {PINGREQ, DISCONNECT}
    BY <1>2 DEF Bares
  <2>2. Remaining(r) = 0
    BY <2>1 DEF Remaining, CONNECT, PUBLISH, SUBSCRIBE, UNSUBSCRIBE, PUBACK, PUBREC,
        PUBREL, PUBCOMP, PINGREQ, DISCONNECT
  <2>3. Written(r) = Fixed(r.type, r)
    BY <2>1 DEF Written, CONNECT, PUBLISH, SUBSCRIBE, UNSUBSCRIBE, PUBACK, PUBREC,
        PUBREL, PUBCOMP, PINGREQ, DISCONNECT
  <2> SUFFICES ASSUME Remaining(r) < Radix4 PROVE Sized(Written(r), ToWrite(r))
    BY <2>2
  <2>4. Remaining(r) \in 0 .. Radix4 - 1
    BY <1>0, <2>2
  <2>5. r.type \in Nat
    BY <2>1 DEF PINGREQ, DISCONNECT
  <2>6. Sized(Fixed(r.type, r), n) /\ remainingLengthLength(Remaining(r)) \in 1 .. 4
    BY <2>4, <2>5, FixedSized
  <2>7. ToWrite(r) = n
    BY <2>1, <2>2, <2>6 DEF ToWrite, PINGREQ, DISCONNECT, PUBLISH
  <2> QED BY <2>3, <2>6, <2>7
<1> QED BY <1>1, <1>2

-----------------------------------------------------------------------------
(* Inside the memory *)

\* A payload that is fetched: there is one, and the header of the whole packet is as
\* long as that of the first chunk, for which memory was reserved.
Fetches(r) ==
  /\ r.payload # <<>>
  /\ remainingLengthLength(Remaining(r))
       = remainingLengthLength(Remaining(r) - Len(r.payload)
                               + Minimum(Len(r.payload), RxBuffer))

\* What may be asked for.
Proper ==
  {r \in Connects \cup Publishes \cup Subscribes \cup Unsubscribes \cup Acks \cup Bares :
     Remaining(r) < Radix4 /\ (r.type = PUBLISH /\ r.chunked => Fetches(r))}

\* The constructors fill what they have reserved, or leave room for a chunk.
LEMMA FillsReserved ==
  ASSUME NEW r \in Proper, MaxString >= 4
  PROVE  /\ Written(r) \in Seq(Nat) /\ Len(Written(r)) >= 2
         /\ IF r.type = PUBLISH /\ r.chunked
            THEN /\ r.payload \in Seq(Nat) /\ Len(r.payload) > 0
                 /\ Reserved(r) = Len(Written(r)) + Minimum(Len(r.payload), RxBuffer)
            ELSE Reserved(r) = Len(Written(r))
<1> DEFINE rem == Remaining(r)
           k == remainingLengthLength(Remaining(r))
<1>0. Radix4 \in Nat /\ RxBuffer \in Nat
  BY RadixAssumption, PacketAssumption DEF Radix2, Radix3, Radix4
<1>1. rem \in Nat /\ rem < Radix4 /\ Sized(Written(r), ToWrite(r))
  <2>1. rem < Radix4
    BY DEF Proper
  <2>2. CASE r \in Acks \cup Bares
    BY <2>1, <2>2, ShortSized
  <2> QED BY <2>1, <2>2, ConnectSized, PublishSized, SubscribeSized, UnsubscribeSized
          DEF Proper
<1>2. k \in 1 .. 4
  BY <1>0, <1>1, CodeSized
<1>3. CASE r.type = PUBLISH /\ r.chunked
  <2> DEFINE l == Len(r.payload)
             m == Minimum(l, RxBuffer)
  <2>1. r \in Publishes /\ Fetches(r)
    BY <1>3 DEF Proper, Connects, Subscribes, Unsubscribes, Acks, Bares, CONNECT, PUBLISH,
        SUBSCRIBE, UNSUBSCRIBE, PUBACK, PUBREC, PUBREL, PUBCOMP, PINGREQ, DISCONNECT
  <2>2. r.payload \in Seq(Nat) /\ l \in Nat /\ l > 0
    BY <2>1 DEF Publishes, Fetches
  <2>3. m \in Nat
    BY <1>0, <2>2 DEF Minimum
  <2>4. remainingLengthLength(rem - l + m) = k
    BY <2>1 DEF Fetches
  <2>5. Reserved(r) = 1 + k + (rem - l + m)
    BY <1>3, <2>4 DEF Reserved
  <2>6. ToWrite(r) = 1 + k + rem - l
    BY <1>3 DEF ToWrite
  <2>7. rem >= l
    <3>1. rem = StringSize(r.topic) + When(r.qos # 0, 2) + l
      BY <1>3 DEF Remaining, CONNECT, PUBLISH, SUBSCRIBE, UNSUBSCRIBE, PUBACK, PUBREC,
          PUBREL, PUBCOMP, PINGREQ, DISCONNECT
    <3>2. StringSize(r.topic) \in Nat
      <4>1. r.topic \in Strings
        BY <2>1 DEF Publishes
      <4> QED BY <4>1, StringSized
    <3>3. When(r.qos # 0, 2) \in Nat
      BY DEF When
    <3> HIDE DEF rem, l
    <3> QED BY <2>2, <3>1, <3>2, <3>3
  <2> HIDE DEF rem, k, l, m
  <2>8. Written(r) \in Seq(Nat) /\ Len(Written(r)) = 1 + k + rem - l
    BY <1>1, <2>6 DEF Sized
  <2>9. Len(Written(r)) >= 2 /\ Reserved(r) = Len(Written(r)) + m
    BY <1>1, <1>2, <2>2, <2>3, <2>5, <2>7, <2>8
  <2> QED BY <1>3, <2>2, <2>8, <2>9 DEF l, m
<1>4. CASE ~(r.type = PUBLISH /\ r.chunked)
  <2>1. Reserved(r) = 1 + k + rem
    BY <1>4, Zenon DEF Reserved
  <2>2. ToWrite(r) = 1 + k + rem - 0
    BY <1>4, Zenon DEF ToWrite
  <2> HIDE DEF rem, k
  <2>3. Written(r) \in Seq(Nat) /\ Len(Written(r)) = 1 + k + rem
    BY <1>1, <1>2, <2>2 DEF Sized
  <2> QED BY <1>1, <1>2, <1>4, <2>1, <2>3
<1> QED BY <1>3, <1>4

Header == Len(Written(req))
Room == Minimum(Len(req.payload), RxBuffer)

\* What is reserved for a packet, and what is in it.
Laid ==
  /\ req \in Requests
  /\ data \in Seq(Nat) /\ Len(data) = Reserved(req)
  /\ payloadIndex = When(Chunked, Header)
  /\ size = IF Chunked THEN Header + Len(req.payload) ELSE Reserved(req)

\* The chunk that is in the buffer: bytes start to end of the packet.
Window ==
  /\ payloadStartIndex \in payloadIndex .. size
  /\ payloadEndIndex \in payloadStartIndex - 1 .. size - 1
  /\ payloadEndIndex < payloadStartIndex + Room

\* The byte that is sent next was asked for.
Asked ==
  IF bytesSent < payloadIndex THEN payloadStartIndex = payloadIndex
  ELSE payloadStartIndex <= bytesSent

MemInv ==
  /\ ~fault
  /\ pc \in {"new", "available", "write", "sent", "kept", "gone"}
  /\ bytesSent \in Nat
  /\ pc = "new" => bytesSent = 0
  /\ pc \in {"available", "write", "sent", "kept"} => Laid /\ (Chunked => Window)
  /\ pc \in {"available", "write"} => bytesSent < size
  /\ pc = "write" /\ Chunked => Asked

\* The numbers of a packet that was made.
LEMMA Numbers ==
  ASSUME Requests \subseteq Proper, MaxString >= 4, Laid
  PROVE  /\ req \in Proper /\ Header \in Nat /\ Header >= 2 /\ size \in Nat /\ size >= 2
         /\ payloadIndex \in Nat
         /\ Chunked => /\ req.payload \in Seq(Nat) /\ Len(req.payload) \in Nat
                       /\ Len(req.payload) > 0 /\ Room \in Nat /\ Room > 0
                       /\ Room <= RxBuffer /\ Room <= Len(req.payload)
                       /\ Len(data) = Header + Room /\ payloadIndex = Header
                       /\ size = Header + Len(req.payload)
         /\ ~Chunked => Len(data) = Header /\ size = Header
<1>1. req \in Proper
  BY DEF Laid
<1>2. Written(req) \in Seq(Nat) /\ Len(Written(req)) >= 2
  BY <1>1, FillsReserved
<1>3. Header \in Nat /\ Header >= 2
  BY <1>2 DEF Header
<1>4. CASE Chunked
  <2>1. /\ req.payload \in Seq(Nat) /\ Len(req.payload) > 0 /\ Len(req.payload) \in Nat
        /\ Reserved(req) = Header + Room
    BY <1>1, <1>4, FillsReserved DEF Chunked, Header, Room
  <2>2. Room \in Nat /\ Room > 0 /\ Room <= RxBuffer /\ Room <= Len(req.payload)
    BY <2>1, PacketAssumption DEF Room, Minimum
  <2>3. /\ payloadIndex = Header /\ size = Header + Len(req.payload)
        /\ Len(data) = Header + Room
    BY <1>4, <2>1 DEF Laid, When
  <2> QED BY <1>1, <1>3, <1>4, <2>1, <2>2, <2>3
<1>5. CASE ~Chunked
  <2>1. Reserved(req) = Header
    BY <1>1, <1>5, FillsReserved DEF Chunked, Header
  <2>2. payloadIndex = 0 /\ size = Header /\ Len(data) = Header
    BY <1>5, <2>1 DEF Laid, When
  <2> QED BY <1>1, <1>3, <1>5, <2>2
<1> QED BY <1>4, <1>5

LEMMA Row ==
  ASSUME NEW N \in Nat, NEW f \in [1 .. N -> Nat]
  PROVE  f \in Seq(Nat) /\ Len(f) = N
  OBVIOUS

LEMMA MakeInside ==
  ASSUME Requests \subseteq Proper, MaxString >= 4, MemInv, Make
  PROVE  MemInv'
<1> DEFINE w(r) == Written(r)
           isChunked(r) == r.type = PUBLISH /\ r.chunked
<1>1. PICK r \in Requests :
        /\ req' = r
        /\ data' = [k \in 1 .. Reserved(r) |-> IF k <= Len(w(r)) THEN w(r)[k] ELSE 0]
        /\ fault' = (Len(w(r)) > Reserved(r))
        /\ size' = IF isChunked(r) THEN Len(w(r)) + Len(r.payload) ELSE Reserved(r)
        /\ payloadIndex' = When(isChunked(r), Len(w(r)))
        /\ payloadStartIndex' = payloadIndex' /\ payloadEndIndex' = payloadIndex'
  BY Zenon DEF Make
<1>2. pc = "new" /\ pc' = "available" /\ bytesSent' = bytesSent /\ bytesSent' = 0
  BY DEF Make, MemInv
<1>3. /\ w(r) \in Seq(Nat) /\ Len(w(r)) >= 2 /\ Len(w(r)) \in Nat
      /\ isChunked(r) => /\ Len(r.payload) \in Nat /\ Len(r.payload) > 0
                         /\ Reserved(r) = Len(w(r)) + Minimum(Len(r.payload), RxBuffer)
      /\ ~isChunked(r) => Reserved(r) = Len(w(r))
  BY FillsReserved
<1>4. isChunked(r) => Minimum(Len(r.payload), RxBuffer) \in Nat
                      /\ Minimum(Len(r.payload), RxBuffer) > 0
  BY <1>3, PacketAssumption DEF Minimum
<1>5. Reserved(r) \in Nat /\ Reserved(r) >= Len(w(r))
  BY <1>3, <1>4
<1>6. data' \in Seq(Nat) /\ Len(data') = Reserved(r) /\ ~fault'
  <2> HIDE DEF w
  <2>1. \A k \in 1 .. Reserved(r) : (IF k <= Len(w(r)) THEN w(r)[k] ELSE 0) \in Nat
    BY <1>3, <1>5
  <2>2. data' \in [1 .. Reserved(r) -> Nat]
    BY <1>1, <2>1
  <2>3. ~(Len(w(r)) > Reserved(r))
    BY <1>3, <1>5
  <2>4. ~fault'
    BY <1>1, <2>3, Zenon
  <2> QED BY <1>5, <2>2, <2>4, Row
<1>7. Chunked' = isChunked(r)
  BY <1>1 DEF Chunked
<1>8. Laid'
  BY <1>1, <1>6, <1>7 DEF Laid, Header
<1>9. Chunked' => Window'
  <2> SUFFICES ASSUME isChunked(r) PROVE Window'
    BY <1>7
  <2>1. /\ payloadIndex' = Len(w(r)) /\ size' = Len(w(r)) + Len(r.payload)
        /\ Room' = Minimum(Len(r.payload), RxBuffer)
    BY <1>1 DEF When, Room
  <2>2. /\ payloadStartIndex' = Len(w(r)) /\ payloadEndIndex' = Len(w(r))
        /\ Len(w(r)) \in Nat /\ Len(r.payload) \in Nat /\ Len(r.payload) > 0
        /\ Room' \in Nat /\ Room' > 0
    BY <1>1, <1>3, <1>4, <2>1
  <2> HIDE DEF w, isChunked
  <2> QED BY <2>1, <2>2 DEF Window
<1>10. size' >= 2 /\ size' \in Nat
  BY <1>1, <1>3
<1> QED BY <1>2, <1>6, <1>8, <1>9, <1>10 DEF MemInv

\* A chunk of n bytes that is put behind the header.
LEMMA FetchInside ==
  ASSUME Requests \subseteq Proper, MaxString >= 4, TxBuffer <= RxBuffer,
         Laid, Window, Chunked, ~fault, NEW index \in Nat, NEW start \in Nat, NEW from \in Nat,
         index < size, start \in payloadIndex .. size - 1, from \in start .. size,
         start = IF index > payloadIndex THEN index ELSE payloadIndex,
         payloadStartIndex' = start, NEW n \in 0 .. MaxSize(from), GetPayload(n, index)
  PROVE  /\ data' \in Seq(Nat) /\ Len(data') = Len(data) /\ ~fault'
         /\ payloadEndIndex' = start + n - 1 /\ n <= Room /\ start + n <= size
<1> DEFINE L == Len(req.payload)
           offset == IF index > payloadIndex THEN index - payloadIndex ELSE 0
<1>1. /\ Header \in Nat /\ req.payload \in Seq(Nat) /\ L \in Nat /\ Room \in Nat
      /\ Room = Minimum(L, RxBuffer) /\ Len(data) = Header + Room /\ payloadIndex = Header
      /\ size = Header + L /\ data \in Seq(Nat)
  BY Numbers DEF Laid, Room
<1>2. TxBuffer \in Nat /\ RxBuffer \in Nat
  BY PacketAssumption
<1>3. /\ n <= L - offset
      /\ data' = [k \in DOMAIN data |->
                    IF k - payloadIndex \in 1 .. n
                    THEN req.payload[offset + k - payloadIndex] ELSE data[k]]
      /\ fault' = (fault \/ ~Inside(payloadIndex, payloadIndex + n - 1))
      /\ payloadEndIndex' = payloadStartIndex' + n - 1
  BY DEF GetPayload
<1>4. start = payloadIndex + offset /\ offset \in Nat
  BY <1>1
<1>5. n \in Nat /\ n <= TxBuffer /\ n <= size - from
  BY <1>1, <1>2 DEF MaxSize, Minimum
<1>0. \A j \in 1 .. L : req.payload[j] \in Nat
  BY <1>1, ElementOfSeq
<1> HIDE DEF offset, L
<1>6. n <= Room /\ start + n <= size
  BY <1>1, <1>2, <1>3, <1>4, <1>5 DEF Minimum
<1>7. ASSUME NEW k \in 1 .. Len(data)
      PROVE  (IF k - payloadIndex \in 1 .. n
              THEN req.payload[offset + k - payloadIndex] ELSE data[k]) \in Nat
  <2>1. CASE k - payloadIndex \in 1 .. n
    <3> DEFINE j == offset + k - payloadIndex
    <3>1. j \in 1 .. L
      BY <1>1, <1>3, <1>4, <1>5, <2>1
    <3> HIDE DEF j
    <3>2. req.payload[j] \in Nat
      BY <1>0, <3>1
    <3> QED BY <2>1, <3>2 DEF j
  <2>2. CASE ~(k - payloadIndex \in 1 .. n)
    BY <1>1, <2>2, SMTT(20)
  <2> QED BY <2>1, <2>2
<1>8. DOMAIN data = 1 .. Len(data) /\ Len(data) \in Nat
  BY <1>1
<1>9. data' \in [1 .. Len(data) -> Nat]
  BY <1>3, <1>7, <1>8
<1>10. data' \in Seq(Nat) /\ Len(data') = Len(data)
  BY <1>8, <1>9, Row, Zenon
<1>11. ~fault'
  <2>1. Inside(payloadIndex, payloadIndex + n - 1)
    BY <1>1, <1>5, <1>6 DEF Inside
  <2> QED BY <1>3, <2>1, Zenon
<1> QED BY <1>3, <1>6, <1>10, <1>11

LEMMA AvailableInside ==
  ASSUME Requests \subseteq Proper, MaxString >= 4, TxBuffer <= RxBuffer, MemInv, Available
  PROVE  MemInv'
<1> USE DEF chunk, memory
<1>1. /\ pc = "available" /\ pc' = "write" /\ bytesSent' = bytesSent /\ req' = req
      /\ size' = size /\ payloadIndex' = payloadIndex
  BY DEF Available
<1>2. Laid /\ (Chunked => Window) /\ ~fault /\ bytesSent \in Nat /\ bytesSent < size
  BY <1>1 DEF MemInv
<1>3. /\ Header' = Header /\ Chunked' = Chunked /\ Room' = Room
  BY <1>1 DEF Header, Chunked, Room
<1>4. SUFFICES /\ data' \in Seq(Nat) /\ Len(data') = Len(data) /\ ~fault'
               /\ Chunked => Window' /\ Asked'
  <2>1. Laid'
    BY <1>1, <1>2, <1>3, <1>4 DEF Laid
  <2> QED BY <1>1, <1>2, <1>3, <1>4, <2>1 DEF MemInv
<1>5. CASE ~Chunked
  <2>1. data' = data /\ fault' = fault
    BY <1>5 DEF Available
  <2> QED BY <1>2, <1>5, <2>1 DEF Laid
<1>6. CASE Chunked
  <2>1. Fetch(bytesSent)
    BY <1>2, <1>6 DEF Available
  <2>2. /\ Header \in Nat /\ Header >= 2 /\ size \in Nat /\ Room \in Nat /\ Room > 0
        /\ Len(req.payload) \in Nat /\ Len(req.payload) > 0
        /\ payloadIndex = Header /\ size = Header + Len(req.payload)
    BY <1>2, <1>6, Numbers
  <2>3. /\ payloadStartIndex \in payloadIndex .. size
        /\ payloadEndIndex \in payloadStartIndex - 1 .. size - 1
        /\ payloadEndIndex < payloadStartIndex + Room
    BY <1>2, <1>6 DEF Window
  <2>4. CASE bytesSent < payloadIndex
    <3>1. size > payloadIndex /\ payloadEndIndex # 0
      BY <2>2, <2>3
    <3>2. /\ payloadStartIndex' = payloadIndex
          /\ \E n \in 0 .. MaxSize(payloadStartIndex) : GetPayload(n, bytesSent)
      BY <2>1, <2>4, <3>1 DEF Fetch
    <3>3. PICK n \in 0 .. MaxSize(payloadStartIndex) : GetPayload(n, bytesSent)
      BY <3>2
    <3>4. /\ payloadIndex \in Nat /\ payloadIndex \in payloadIndex .. size - 1
          /\ payloadStartIndex \in Nat /\ payloadStartIndex \in payloadIndex .. size
          /\ payloadIndex = IF bytesSent > payloadIndex THEN bytesSent ELSE payloadIndex
      BY <1>2, <2>2, <2>3, <2>4
    <3>5. /\ data' \in Seq(Nat) /\ Len(data') = Len(data) /\ ~fault'
          /\ payloadEndIndex' = payloadIndex + n - 1 /\ n <= Room
          /\ payloadIndex + n <= size
      BY <1>2, <1>6, <3>2, <3>3, <3>4, FetchInside
    <3>6. n \in Nat
      BY <2>2, <2>3, PacketAssumption DEF MaxSize, Minimum
    <3>7. Window'
      BY <1>1, <1>3, <2>2, <3>2, <3>5, <3>6 DEF Window
    <3>8. Asked'
      BY <1>1, <2>4, <3>2 DEF Asked
    <3> QED BY <3>5, <3>7, <3>8
  <2>5. CASE /\ bytesSent >= payloadIndex
             /\ bytesSent > payloadEndIndex \/ payloadStartIndex > bytesSent
    <3>1. ~(bytesSent < payloadIndex)
      BY <1>2, <2>2, <2>5
    <3>2. /\ payloadStartIndex' = bytesSent
          /\ \E n \in 0 .. MaxSize(bytesSent) : GetPayload(n, bytesSent)
      BY <2>1, <2>5, <3>1 DEF Fetch
    <3>3. PICK n \in 0 .. MaxSize(bytesSent) : GetPayload(n, bytesSent)
      BY <3>2
    <3>4. /\ bytesSent \in payloadIndex .. size - 1 /\ bytesSent \in bytesSent .. size
          /\ bytesSent = IF bytesSent > payloadIndex THEN bytesSent ELSE payloadIndex
      BY <1>2, <2>2, <2>5
    <3>5. /\ data' \in Seq(Nat) /\ Len(data') = Len(data) /\ ~fault'
          /\ payloadEndIndex' = bytesSent + n - 1 /\ n <= Room
          /\ bytesSent + n <= size
      BY <1>2, <1>6, <3>2, <3>3, <3>4, FetchInside
    <3>6. n \in Nat
      BY <1>2, <2>2, PacketAssumption DEF MaxSize, Minimum
    <3>7. Window'
      BY <1>1, <1>2, <1>3, <2>2, <3>2, <3>4, <3>5, <3>6 DEF Window
    <3>8. Asked'
      BY <1>1, <1>2, <3>1, <3>2 DEF Asked
    <3> QED BY <3>5, <3>7, <3>8
  <2>6. CASE /\ bytesSent >= payloadIndex
             /\ ~(bytesSent > payloadEndIndex \/ payloadStartIndex > bytesSent)
    <3>1. ~(bytesSent < payloadIndex)
      BY <1>2, <2>2, <2>6
    <3>2. UNCHANGED <<data, fault, payloadStartIndex, payloadEndIndex>>
      BY <2>1, <2>6, <3>1 DEF Fetch
    <3>3. Window'
      BY <1>1, <1>3, <2>3, <3>2 DEF Window
    <3>4. Asked'
      BY <1>1, <1>2, <2>2, <2>3, <2>6, <3>1, <3>2 DEF Asked
    <3> QED BY <1>2, <3>2, <3>3, <3>4 DEF Laid
  <2> QED BY <1>2, <2>2, <2>4, <2>5, <2>6
<1> QED BY <1>5, <1>6

\* The bytes that the socket may take are there.
LEMMA WriteTakes ==
  ASSUME Requests \subseteq Proper, MaxString >= 4, MemInv, pc = "write",
         NEW k \in 0 .. WantToWrite
  PROVE  /\ k \in Nat /\ bytesSent + k <= size /\ DataIndex(bytesSent) \in Nat
         /\ DataIndex(bytesSent) + k <= Len(data)
         /\ Chunked => bytesSent + k <= payloadEndIndex + 1
<1> DEFINE from == DataIndex(bytesSent)
<1>1. Laid /\ (Chunked => Window /\ Asked) /\ bytesSent \in Nat /\ bytesSent < size
  BY DEF MemInv
<1>2. size \in Nat /\ Len(data) \in Nat
  BY <1>1, Numbers DEF Laid
<1>3. CASE ~Chunked
  <2>1. WantToWrite = size - bytesSent /\ from = bytesSent
    BY <1>1, <1>2, <1>3 DEF WantToWrite, DataIndex
  <2>2. size = Len(data)
    BY <1>1, <1>3, Numbers
  <2> HIDE DEF from
  <2>3. k \in Nat /\ bytesSent + k <= size /\ from \in Nat /\ from + k <= Len(data)
    BY <1>1, <1>2, <2>1, <2>2
  <2> QED BY <1>3, <2>3 DEF from
<1>4. CASE Chunked
  <2>1. WantToWrite = payloadEndIndex - bytesSent + 1
    BY <1>1, <1>2, <1>4 DEF WantToWrite
  <2>2. /\ Header \in Nat /\ Room \in Nat /\ Len(data) = Header + Room
        /\ payloadIndex = Header /\ size = Header + Len(req.payload)
    BY <1>1, <1>4, Numbers
  <2>3. /\ payloadStartIndex \in payloadIndex .. size
        /\ payloadEndIndex \in payloadStartIndex - 1 .. size - 1
        /\ payloadEndIndex < payloadStartIndex + Room
    BY <1>1, <1>4 DEF Window
  <2>4. k \in Nat /\ bytesSent + k <= payloadEndIndex + 1
    BY <1>1, <1>2, <2>1, <2>2, <2>3
  <2>5. bytesSent + k <= size
    BY <1>1, <1>2, <2>2, <2>3, <2>4
  <2>6. from \in Nat /\ from + k <= Len(data)
    <3>1. CASE bytesSent < payloadIndex
      <4>1. from = bytesSent /\ payloadStartIndex = payloadIndex
        BY <1>1, <1>4, <2>2, <3>1 DEF DataIndex, Asked
      <4> HIDE DEF from
      <4> QED BY <1>1, <1>2, <2>2, <2>3, <2>4, <4>1
    <3>2. CASE ~(bytesSent < payloadIndex)
      <4>1. /\ from = bytesSent - payloadStartIndex + payloadIndex
            /\ payloadStartIndex <= bytesSent
        BY <1>1, <1>4, <2>2, <3>2 DEF DataIndex, Asked
      <4> HIDE DEF from
      <4> QED BY <1>1, <1>2, <2>2, <2>3, <2>4, <4>1
    <3> QED BY <3>1, <3>2
  <2> HIDE DEF from
  <2> QED BY <2>4, <2>5, <2>6 DEF from
<1> QED BY <1>3, <1>4

LEMMA WriteInside ==
  ASSUME Requests \subseteq Proper, MaxString >= 4, MemInv, Write
  PROVE  MemInv'
<1> DEFINE from == DataIndex(bytesSent)
<1>1. PICK k \in 0 .. WantToWrite :
        /\ fault' = (fault \/ (k > 0 /\ ~Inside(from, from + k - 1)))
        /\ bytesSent' = bytesSent + k
  BY DEF Write
<1>2. /\ pc = "write" /\ pc' = IF bytesSent' = size THEN "sent" ELSE "available"
      /\ req' = req /\ data' = data /\ size' = size /\ UNCHANGED chunk
  BY DEF Write
<1>3. /\ payloadIndex' = payloadIndex /\ payloadStartIndex' = payloadStartIndex
      /\ payloadEndIndex' = payloadEndIndex
  BY <1>2 DEF chunk
<1>4. /\ Laid /\ (Chunked => Window /\ Asked) /\ ~fault /\ bytesSent \in Nat
      /\ bytesSent < size
  BY <1>2 DEF MemInv
<1>5. Laid' /\ (Chunked' => Window')
  BY <1>2, <1>3, <1>4 DEF Laid, Window, Chunked, Header, Room
<1>6. size \in Nat /\ Len(data) \in Nat
  BY <1>4, Numbers DEF Laid
<1>7. k \in Nat /\ bytesSent + k <= size /\ (k > 0 => Inside(from, from + k - 1))
  <2>1. /\ k \in Nat /\ bytesSent + k <= size /\ from \in Nat /\ from + k <= Len(data)
    BY <1>2, WriteTakes
  <2> HIDE DEF from
  <2> QED BY <1>6, <2>1 DEF Inside
<1>8. ~fault'
  BY <1>1, <1>4, <1>7, Zenon
<1>9. bytesSent' \in Nat /\ (bytesSent' # size => bytesSent' < size)
  BY <1>1, <1>4, <1>6, <1>7
<1>10. pc' \in {"sent", "available"} /\ (pc' = "available" => bytesSent' < size')
  BY <1>2, <1>9
<1> QED BY <1>5, <1>8, <1>9, <1>10 DEF MemInv

LEMMA SentInside ==
  ASSUME Requests \subseteq Proper, MaxString >= 4, MemInv, Sent
  PROVE  MemInv'
<1>1. /\ pc = "sent" /\ req' = req /\ size' = size /\ UNCHANGED chunk /\ fault' = fault
      /\ pc' \in {"gone", "kept"}
  BY DEF Sent
<1>2. /\ payloadIndex' = payloadIndex /\ payloadStartIndex' = payloadStartIndex
      /\ payloadEndIndex' = payloadEndIndex
  BY <1>1 DEF chunk
<1>3. Laid /\ (Chunked => Window) /\ ~fault /\ bytesSent \in Nat
  BY <1>1 DEF MemInv
<1>4. bytesSent' \in {0, bytesSent}
  BY DEF Sent
<1>5. data' \in Seq(Nat) /\ Len(data') = Len(data)
  <2>1. data \in Seq(Nat) /\ Len(data) \in Nat
    BY <1>3 DEF Laid
  <2>2. data' = data \/ data' = [data EXCEPT ![1] = @ + 8]
    BY DEF Sent, SetDup
  <2>3. Len(data) >= 1
    BY <1>3, <2>1, Numbers
  <2>4. data[1] + 8 \in Nat
    BY <2>1, <2>3
  <2> QED BY <2>1, <2>2, <2>3, <2>4
<1>6. Laid' /\ (Chunked' => Window')
  BY <1>1, <1>2, <1>3, <1>5 DEF Laid, Window, Chunked, Header, Room
<1> QED BY <1>1, <1>3, <1>4, <1>6 DEF MemInv

\* Steps that leave the memory alone: the packet is dropped, or sent again.
LEMMA RestInside ==
  ASSUME Requests \subseteq Proper, MaxString >= 4, MemInv,
         MakeFails \/ Retransmit \/ ConnectionLost \/ Answered \/ UNCHANGED vars
  PROVE  MemInv'
<1>1. /\ req' = req /\ data' = data /\ size' = size /\ fault' = fault
      /\ payloadIndex' = payloadIndex /\ payloadStartIndex' = payloadStartIndex
      /\ payloadEndIndex' = payloadEndIndex
  BY DEF MakeFails, Retransmit, ConnectionLost, Answered, vars, memory, chunk
<1>2. Laid' = Laid /\ Window' = Window /\ Chunked' = Chunked
  BY <1>1 DEF Laid, Window, Chunked, Header, Room
<1>3. CASE MakeFails \/ Answered
  <2>1. pc' = "gone" /\ bytesSent' = bytesSent
    BY <1>3 DEF MakeFails, Answered
  <2> QED BY <1>1, <2>1 DEF MemInv
<1>4. CASE Retransmit \/ ConnectionLost
  <2>1. pc \in {"available", "kept"} /\ bytesSent' = 0 /\ pc' \in {"available", "gone"}
    BY <1>4 DEF Retransmit, ConnectionLost, Again
  <2>2. Laid /\ (Chunked => Window)
    BY <2>1 DEF MemInv
  <2>3. size \in Nat /\ size >= 2
    BY <2>2, Numbers
  <2>4. 0 < size' /\ 0 \in Nat
    BY <1>1, <2>3
  <2> QED BY <1>1, <1>2, <2>1, <2>2, <2>4 DEF MemInv
<1>5. CASE UNCHANGED vars
  <2>1. pc' = pc /\ bytesSent' = bytesSent
    BY <1>5 DEF vars
  <2> QED BY <1>1, <1>2, <2>1 DEF MemInv, Asked
<1> QED BY <1>3, <1>4, <1>5

\* Every byte of a packet is written and read inside the memory that was reserved for
\* it, whatever proper request it is made of, whatever parts the socket takes, however
\* much the application gives for each chunk and however often it is sent again
\* (Packet.cpp:311-334 against each constructor, 424-452).  Memory is reserved for a
\* chunk of EMC_RX_BUFFER_SIZE and chunks are EMC_TX_BUFFER_SIZE long.
THEOREM StaysInMemory ==
  ASSUME Requests \subseteq Proper, MaxString >= 4, TxBuffer <= RxBuffer
  PROVE  Spec => []InsideMemory
<1>1. Init => MemInv
  BY DEF Init, MemInv
<1>2. MemInv /\ [Next]_vars => MemInv'
  <2> SUFFICES ASSUME MemInv, [Next]_vars PROVE MemInv'
    OBVIOUS
  <2>1. CASE Make
    BY <2>1, MakeInside
  <2>2. CASE Available
    BY <2>2, AvailableInside
  <2>3. CASE Write
    BY <2>3, WriteInside
  <2>4. CASE Sent
    BY <2>4, SentInside
  <2>5. CASE MakeFails \/ Retransmit \/ ConnectionLost \/ Answered \/ UNCHANGED vars
    BY <2>5, RestInside
  <2> QED BY <2>1, <2>2, <2>3, <2>4, <2>5 DEF Next
<1>3. MemInv => InsideMemory
  <2> SUFFICES ASSUME MemInv PROVE InsideMemory
    OBVIOUS
  <2>1. ~fault
    BY DEF MemInv
  <2>2. ASSUME pc = "available", ~Chunked PROVE Len(Written(req)) = Len(data)
    <3>1. Laid
      BY <2>2 DEF MemInv
    <3> QED BY <2>2, <3>1, Numbers DEF Header
  <2> QED BY <2>1, <2>2 DEF InsideMemory
<1> QED BY <1>1, <1>2, <1>3, PTL DEF Spec

-----------------------------------------------------------------------------
(* Reading what was written *)

\* The bytes s lie in b behind the first k.
Holds(b, k, s) == k + Len(s) <= Len(b) /\ \A i \in 1 .. Len(s) : b[k + i] = s[i]

LEMMA JoinHolds ==
  ASSUME NEW x \in Seq(Nat), NEW y \in Seq(Nat)
  PROVE  /\ x \o y \in Seq(Nat) /\ Len(x \o y) = Len(x) + Len(y)
         /\ Holds(x \o y, 0, x) /\ Holds(x \o y, Len(x), y)
         /\ \A k \in Nat, s \in Seq(Nat) : Holds(x, k, s) => Holds(x \o y, k, s)
<1>1. /\ x \o y \in Seq(Nat) /\ Len(x \o y) = Len(x) + Len(y)
      /\ \A i \in 1 .. Len(x) : (x \o y)[i] = x[i]
      /\ \A i \in 1 .. Len(y) : (x \o y)[Len(x) + i] = y[i]
      /\ Len(x) \in Nat /\ Len(y) \in Nat
  OBVIOUS
<1> DEFINE z == x \o y
<1> HIDE DEF z
<1>2. Holds(z, 0, x) /\ Holds(z, Len(x), y)
  BY <1>1 DEF Holds, z
<1>3. ASSUME NEW k \in Nat, NEW s \in Seq(Nat), Holds(x, k, s) PROVE Holds(z, k, s)
  <2>1. \A i \in 1 .. Len(s) : k + i \in 1 .. Len(x)
    BY <1>1, <1>3 DEF Holds
  <2> QED BY <1>1, <1>3, <2>1 DEF Holds, z
<1> QED BY <1>1, <1>2, <1>3 DEF z

LEMMA HoldsInside ==
  ASSUME NEW b, NEW s \in Seq(Nat), NEW t \in Seq(Nat), Len(b) \in Nat,
         NEW k \in Nat, NEW m \in Nat, Holds(b, k, s), Holds(s, m, t)
  PROVE  Holds(b, k + m, t)
<1>1. ASSUME NEW i \in 1 .. Len(t) PROVE b[k + m + i] = t[i]
  <2>1. m + i \in 1 .. Len(s) /\ k + m + i = k + (m + i)
    BY SMTT(20) DEF Holds
  <2> QED BY <2>1 DEF Holds
<1>2. (k + m) + Len(t) <= Len(b)
  BY DEF Holds
<1> QED BY <1>1, <1>2 DEF Holds

LEMMA WordHeld ==
  ASSUME NEW b, NEW k \in Nat, NEW n \in Nat, Holds(b, k, Word(n))
  PROVE  Number(b, k + 1) = n
<1>1. n \div 256 \in Nat /\ n % 256 \in Nat /\ n = 256 * (n \div 256) + (n % 256)
  OBVIOUS
<1>2. /\ Len(Word(n)) = 2 /\ Word(n)[1] = n \div 256 /\ Word(n)[2] = n % 256
  BY <1>1 DEF Word
<1>3. b[k + 1] = n \div 256 /\ b[k + 2] = n % 256 /\ k + 1 + 1 = k + 2
  BY <1>2 DEF Holds
<1> QED BY <1>1, <1>3 DEF Number

\* A string with its length.
Spelled(s) == Word(Len(s)) \o s

LEMMA StringHeld ==
  ASSUME NEW b \in Seq(Nat), NEW k \in Nat, NEW s \in Seq(Nat), Holds(b, k, Spelled(s))
  PROVE  Text(b, k + 1) = s /\ Behind(b, k + 1) = k + 3 + Len(s)
<1> DEFINE l == Len(s)
           w == Word(l)
<1>1. l \in Nat
  OBVIOUS
<1>2. w \in Seq(Nat) /\ Len(w) = 2
  BY <1>1, WordSized DEF Sized
<1> HIDE DEF l, w
<1>3. Holds(Spelled(s), 0, w) /\ Holds(Spelled(s), 2, s) /\ Spelled(s) \in Seq(Nat)
  BY <1>2, JoinHolds DEF Spelled, l, w
<1>a. Len(b) \in Nat /\ 0 \in Nat /\ 2 \in Nat
  OBVIOUS
<1>4. Holds(b, k + 0, w) /\ Holds(b, k + 2, s)
  <2>1. Holds(b, k + 0, w)
    BY <1>2, <1>3, <1>a, HoldsInside, Zenon
  <2>2. Holds(b, k + 2, s)
    BY <1>3, <1>a, HoldsInside, Zenon
  <2> QED BY <2>1, <2>2
<1>5. Number(b, k + 1) = l
  <2>1. Holds(b, k, w)
    BY <1>4
  <2> QED BY <1>1, <2>1, WordHeld DEF w
<1>6. Text(b, k + 1) = SubSeq(b, k + 3, k + 2 + l)
  BY <1>1, <1>5 DEF Text
<1>7. k + 2 + l <= Len(b) /\ \A i \in 1 .. l : b[k + 2 + i] = s[i]
  BY <1>4 DEF Holds, l
<1>8. SubSeq(b, k + 3, k + 2 + l) = s
  BY <1>1, <1>7 DEF l
<1>9. Behind(b, k + 1) = k + 1 + 2 + l
  BY <1>5 DEF Behind
<1>10. Text(b, k + 1) = s
  BY <1>6, <1>8
<1>11. k + 1 + 2 + l = k + 3 + l
  BY <1>1
<1> QED BY <1>9, <1>10, <1>11, Zenon DEF l

\* Strings lie in b one behind the other, each followed by some more bytes: the first at
\* the position pos[1].
Strung(b, ss, more, pos) ==
  /\ pos \in [1 .. Len(ss) + 1 -> Nat \ {0}]
  /\ \A k \in 1 .. Len(ss) :
       pos[k + 1] = pos[k] + 2 + Len(ss[k]) + more /\ Holds(b, pos[k] - 1, Spelled(ss[k]))

LEMMA ReadsString ==
  ASSUME NEW b \in Seq(Nat), NEW ss \in Seq(Seq(Nat)), NEW more \in Nat, NEW pos,
         Strung(b, ss, more, pos), NEW k \in 1 .. Len(ss)
  PROVE  /\ Text(b, pos[k]) = ss[k] /\ Behind(b, pos[k]) = pos[k] + 2 + Len(ss[k])
         /\ pos[k + 1] = Behind(b, pos[k]) + more /\ Behind(b, pos[k]) \in Nat
         /\ pos[k] \in 1 .. Len(b) - 1 /\ pos[k + 1] \in pos[k] + 2 .. Len(b) + 1 + more
<1> DEFINE p == pos[k] - 1
           s == ss[k]
<1>a. Len(ss) \in Nat /\ s \in Seq(Nat) /\ Len(s) \in Nat
  OBVIOUS
<1>b. k \in 1 .. Len(ss) + 1
  BY <1>a
<1>1. p \in Nat /\ pos[k] = p + 1
  <2>1. pos[k] \in Nat \ {0}
    BY <1>b DEF Strung
  <2> QED BY <2>1
<1>2. Holds(b, p, Spelled(s)) /\ pos[k + 1] = pos[k] + 2 + Len(s) + more
  BY DEF Strung
<1> HIDE DEF p, s
<1>3. Text(b, p + 1) = s /\ Behind(b, p + 1) = p + 3 + Len(s)
  BY <1>1, <1>2, <1>a, StringHeld
<1>4. Len(Spelled(s)) = 2 + Len(s)
  <2>1. Word(Len(s)) \in Seq(Nat) /\ Len(Word(Len(s))) = 2 /\ s \in Seq(Nat)
    BY <1>a, WordSized DEF Sized
  <2> QED BY <2>1, JoinHolds DEF Spelled
<1>5. p + 2 + Len(s) <= Len(b) /\ Len(b) \in Nat
  BY <1>1, <1>2, <1>4, <1>a DEF Holds
<1>6. Text(b, pos[k]) = s /\ Behind(b, pos[k]) = pos[k] + 2 + Len(s)
  BY <1>1, <1>3, <1>a
<1>7. Len(s) \in Nat
  BY <1>a
<1>8. pos[k + 1] = Behind(b, pos[k]) + more /\ Behind(b, pos[k]) \in Nat
  BY <1>1, <1>2, <1>6, <1>7
<1>9. pos[k] \in 1 .. Len(b) - 1 /\ pos[k + 1] \in pos[k] + 2 .. Len(b) + 1 + more
  BY <1>1, <1>2, <1>5, <1>7, SMTT(20)
<1> QED BY <1>6, <1>8, <1>9 DEF s

LEMMA TextsRead ==
  ASSUME NEW b \in Seq(Nat), NEW ss \in Seq(Seq(Nat)), NEW pos, Strung(b, ss, 0, pos)
  PROVE  Texts(b, pos[1], Len(ss)) = ss
<1>a. ASSUME NEW j \in 1 .. Len(ss)
      PROVE  pos[j + 1] = Behind(b, pos[j]) /\ Text(b, pos[j]) = ss[j]
  <2>1. PICK none \in Nat : none = 0
    OBVIOUS
  <2>2. Strung(b, ss, none, pos)
    BY <2>1
  <2>3. /\ pos[j + 1] = Behind(b, pos[j]) + none /\ Behind(b, pos[j]) \in Nat
        /\ Text(b, pos[j]) = ss[j]
    BY <2>2, ReadsString
  <2> QED BY <2>1, <2>3
<1> DEFINE n == Len(ss)
           Is(f) == f = [k \in 1 .. n |-> IF k = 1 THEN pos[1] ELSE Behind(b, f[k - 1])]
           at == CHOOSE f : Is(f)
           P == [k \in 1 .. n |-> pos[k]]
<1>0. n \in Nat
  OBVIOUS
<1>1. Is(P)
  <2>1. ASSUME NEW k \in 1 .. n, k # 1 PROVE P[k] = Behind(b, P[k - 1])
    <3>1. k - 1 \in 1 .. n /\ (k - 1) + 1 = k
      BY <1>0, <2>1
    <3>2. PICK j \in 1 .. n : j = k - 1
      BY <3>1
    <3>5. pos[k] = Behind(b, pos[j])
      BY <1>a, <3>1, <3>2
    <3>6. P[j] = pos[j] /\ P[k] = pos[k]
      OBVIOUS
    <3> QED BY <3>2, <3>5, <3>6
  <2> QED BY <1>0, <2>1
<1>2. Is(at)
  BY <1>1, Zenon
<1> HIDE DEF at, n
<1> DEFINE T == {m \in Nat : m + 1 <= n => at[m + 1] = pos[m + 1]}
<1>3. 0 \in T
  BY <1>0, <1>2
<1>4. ASSUME NEW m \in Nat, m \in T PROVE m + 1 \in T
  <2> SUFFICES ASSUME m + 2 <= n PROVE at[m + 2] = pos[m + 2]
    OBVIOUS
  <2>1. m + 1 \in 1 .. n /\ m + 2 \in 1 .. n /\ m + 2 # 1 /\ (m + 2) - 1 = m + 1
        /\ at[m + 1] = pos[m + 1]
    BY <1>0, <1>4
  <2>2. at[m + 2] = Behind(b, pos[m + 1])
    BY <1>2, <2>1
  <2>3. pos[m + 2] = P[m + 2] /\ P[m + 2] = Behind(b, P[m + 1])
    BY <1>1, <2>1
  <2>4. P[m + 1] = pos[m + 1]
    BY <2>1
  <2> QED BY <2>2, <2>3, <2>4
<1> HIDE DEF T
<1>5. ASSUME NEW k \in 1 .. n PROVE Text(b, at[k]) = ss[k]
  <2>1. k - 1 \in T /\ k - 1 \in Nat /\ (k - 1) + 1 = k
    <3>1. Nat \subseteq T
      BY <1>3, <1>4, SetInduction, Zenon
    <3>2. k - 1 \in Nat /\ (k - 1) + 1 = k
      BY <1>0
    <3> QED BY <3>1, <3>2
  <2>2. at[k] = pos[k]
    BY <1>0, <2>1 DEF T
  <2> QED BY <1>a, <2>2 DEF n
<1>6. Texts(b, pos[1], n) = [k \in 1 .. n |-> Text(b, at[k])]
  BY Zenon DEF Texts, at
<1>7. ss = [k \in 1 .. n |-> ss[k]]
  BY DEF n
<1> QED BY <1>5, <1>6, <1>7 DEF n

LEMMA ItemsRead ==
  ASSUME NEW b \in Seq(Nat), NEW ss \in Seq(Seq(Nat)), NEW more \in Nat, NEW pos,
         Strung(b, ss, more, pos), pos[1] = 3, pos[Len(ss) + 1] = Len(b) + 1
  PROVE  Items(b, more) = [k \in 1 .. Len(ss) |-> pos[k]]
<1>a. ASSUME NEW k \in 1 .. Len(ss)
      PROVE  /\ pos[k + 1] = Behind(b, pos[k]) + more
             /\ pos[k] \in 1 .. Len(b) - 1 /\ pos[k + 1] \in Nat /\ pos[k + 1] >= pos[k] + 2
  <2>1. /\ pos[k + 1] = Behind(b, pos[k]) + more
        /\ pos[k] \in 1 .. Len(b) - 1 /\ pos[k + 1] \in pos[k] + 2 .. Len(b) + 1 + more
    BY ReadsString
  <2> QED BY <2>1
<1> DEFINE n == Len(ss)
           l == Len(b)
           F(f, k) == IF f[k - 1] \in 1 .. l - 1 THEN Behind(b, f[k - 1]) + more ELSE 0
           Is(f) == f = [k \in 0 .. l |-> IF k = 0 THEN 3 ELSE F(f, k)]
           begin == CHOOSE f : Is(f)
           P == [k \in 0 .. l |-> IF k <= n THEN pos[k + 1] ELSE 0]
<1>0. n \in Nat /\ l \in Nat /\ pos[1] = 3 /\ pos[n + 1] = l + 1
  OBVIOUS
<1>b. \A k \in 1 .. n : /\ pos[k + 1] = Behind(b, pos[k]) + more
                        /\ pos[k] \in 1 .. l - 1 /\ pos[k + 1] \in Nat
                        /\ pos[k + 1] >= pos[k] + 2
  BY <1>a
<1> HIDE DEF n, l
<1>1. n <= l
  <2> DEFINE T == {m \in Nat : m <= n => pos[m + 1] \in Nat /\ pos[m + 1] >= m + 1}
  <2>1. 0 \in T
    BY <1>0
  <2>2. ASSUME NEW m \in Nat, m \in T PROVE m + 1 \in T
    <3> SUFFICES ASSUME m + 1 <= n PROVE pos[m + 2] \in Nat /\ pos[m + 2] >= m + 2
      OBVIOUS
    <3>1. m + 1 \in 1 .. n /\ (m + 1) + 1 = m + 2 /\ pos[m + 1] \in Nat /\ pos[m + 1] >= m + 1
      BY <1>0, <2>2
    <3>2. pos[(m + 1) + 1] \in Nat /\ pos[(m + 1) + 1] >= pos[m + 1] + 2
      BY <1>b, <3>1
    <3> QED BY <3>1, <3>2
  <2> HIDE DEF T
  <2>3. n \in T
    BY <1>0, <2>1, <2>2, SetInduction
  <2> QED BY <1>0, <2>3 DEF T
<1>2. P[0] = 3 /\ P[n] = l + 1
  BY <1>0, <1>1
<1>3. ASSUME NEW k \in 0 .. l, k < n PROVE P[k] \in 1 .. l - 1
  <2>1. k + 1 \in 1 .. n
    BY <1>0, <1>3
  <2>2. pos[k + 1] \in 1 .. l - 1
    BY <1>b, <2>1
  <2>3. P[k] = pos[k + 1]
    BY <1>0, <1>3
  <2> QED BY <2>2, <2>3
<1>4. ASSUME NEW k \in 0 .. l, k # 0 PROVE P[k] = F(P, k)
  <2>1. k - 1 \in 0 .. l /\ (k - 1) + 1 = k
    BY <1>0, <1>4
  <2>2. CASE k <= n
    <3>1. k \in 1 .. n /\ P[k - 1] = pos[k] /\ P[k] = pos[k + 1]
      BY <1>0, <1>4, <2>1, <2>2
    <3>2. pos[k] \in 1 .. l - 1 /\ pos[k + 1] = Behind(b, pos[k]) + more
      BY <1>b, <3>1
    <3> QED BY <3>1, <3>2
  <2>3. CASE k > n
    <3>1. P[k] = 0
      BY <1>0, <2>3
    <3>2. P[k - 1] \notin 1 .. l - 1
      <4>1. CASE k = n + 1
        BY <1>0, <1>2, <4>1
      <4>2. CASE k > n + 1
        <5>1. P[k - 1] = 0
          BY <1>0, <2>1, <4>2
        <5> QED BY <5>1
      <4> QED BY <1>0, <2>3, <4>1, <4>2
    <3> QED BY <3>1, <3>2
  <2> QED BY <1>0, <2>2, <2>3
<1>5. Is(P)
  BY <1>0, <1>2, <1>4
<1>6. Is(begin)
  BY <1>5, Zenon
<1> HIDE DEF begin
<1>7. ASSUME NEW k \in 0 .. l PROVE begin[k] = P[k]
  <2> DEFINE T == {m \in Nat : m <= l => begin[m] = P[m]}
  <2>1. begin[0] = 3
    BY <1>0, <1>6
  <2>2. 0 \in T
    BY <1>2, <2>1
  <2>3. ASSUME NEW m \in Nat, m \in T PROVE m + 1 \in T
    <3> SUFFICES ASSUME m + 1 <= l PROVE begin[m + 1] = P[m + 1]
      OBVIOUS
    <3>1. m + 1 \in 0 .. l /\ m + 1 # 0 /\ (m + 1) - 1 = m /\ begin[m] = P[m]
      BY <1>0, <2>3
    <3>2. begin[m + 1] = F(begin, m + 1)
      BY <1>6, <3>1
    <3>3. P[m + 1] = F(P, m + 1)
      BY <1>4, <3>1
    <3> HIDE DEF P
    <3> QED BY <3>1, <3>2, <3>3
  <2> HIDE DEF T
  <2>4. Nat \subseteq T
    BY <2>2, <2>3, SetInduction, Zenon
  <2>5. k \in Nat /\ k <= l
    BY <1>0
  <2> QED BY <2>4, <2>5 DEF T
<1> DEFINE count == CHOOSE k \in 0 .. l : begin[k] = l + 1
<1>8. count = n
  <2>1. n \in 0 .. l /\ begin[n] = l + 1
    BY <1>0, <1>1, <1>2, <1>7
  <2>2. count \in 0 .. l /\ begin[count] = l + 1
    BY <2>1, Zenon
  <2> HIDE DEF count
  <2>3. P[count] = l + 1
    BY <1>7, <2>2
  <2>4. ~(count < n)
    BY <1>0, <1>3, <2>2, <2>3
  <2>5. ~(count > n)
    BY <1>0, <2>2, <2>3
  <2> QED BY <1>0, <2>2, <2>4, <2>5
<1>9. Items(b, more) = [k \in 1 .. count |-> begin[k - 1]]
  BY Zenon DEF Items, begin, count, l
<1> HIDE DEF count
<1>10. ASSUME NEW k \in 1 .. n PROVE begin[k - 1] = pos[k]
  <2>1. k - 1 \in 0 .. l /\ k - 1 <= n /\ (k - 1) + 1 = k
    BY <1>0, <1>1
  <2>2. P[k - 1] = pos[k]
    BY <2>1
  <2> QED BY <1>7, <2>1, <2>2
<1> QED BY <1>8, <1>9, <1>10 DEF n

\* A list that is written as it should be can be read.
LEMMA FlatStrung ==
  ASSUME NEW ss \in Seq(Seq(Nat)), NEW items \in Seq(Seq(Nat)), Len(items) = Len(ss),
         NEW more \in Nat, NEW head \in Seq(Nat),
         \A k \in 1 .. Len(ss) : /\ Holds(items[k], 0, Spelled(ss[k]))
                                 /\ Len(items[k]) = 2 + Len(ss[k]) + more
  PROVE  LET b == head \o FlattenSeq(items)
         IN  /\ b \in Seq(Nat)
             /\ \E pos : /\ Strung(b, ss, more, pos)
                         /\ pos[1] = Len(head) + 1 /\ pos[Len(ss) + 1] = Len(b) + 1
                         /\ \A k \in 1 .. Len(ss) : Holds(b, pos[k] - 1, items[k])
<1> DEFINE n == Len(items)
           h == Len(head)
<1>0. /\ n \in Nat /\ h \in Nat /\ n = Len(ss)
      /\ \A k \in 1 .. n : items[k] \in Seq(Nat) /\ Len(items[k]) \in Nat /\ ss[k] \in Seq(Nat)
  OBVIOUS
<1>a. \A k \in 1 .. n : /\ Holds(items[k], 0, Spelled(ss[k]))
                        /\ Len(items[k]) = 2 + Len(ss[k]) + more
  OBVIOUS
<1>1. PICK flat \in [0 .. n -> Seq(Nat)] :
        /\ flat[0] = <<>> /\ \A k \in 1 .. n : flat[k] = flat[k - 1] \o items[k]
        /\ FlattenSeq(items) = flat[n]
  BY FlattenJoins
<1> DEFINE b == head \o flat[n]
           pos == [k \in 1 .. n + 1 |-> h + 1 + Len(flat[k - 1])]
<1> HIDE DEF n
<1>2. flat[n] \in Seq(Nat) /\ \A k \in 0 .. n : flat[k] \in Seq(Nat)
  <2>1. ASSUME NEW k \in 0 .. n PROVE flat[k] \in Seq(Nat)
    OBVIOUS
  <2>2. n \in 0 .. n
    BY <1>0
  <2> QED BY <2>1, <2>2
<1>3. b \in Seq(Nat) /\ Len(b) = h + Len(flat[n]) /\ Holds(b, h, flat[n])
  BY <1>2, JoinHolds
<1>4. ASSUME NEW k \in 1 .. n
      PROVE  /\ k - 1 \in 0 .. n /\ flat[k - 1] \in Seq(Nat) /\ flat[k] = flat[k - 1] \o items[k]
             /\ Len(flat[k - 1]) \in Nat /\ Len(flat[k]) = Len(flat[k - 1]) + Len(items[k])
  <2>1. k - 1 \in 0 .. n /\ items[k] \in Seq(Nat)
    BY <1>0
  <2>2. flat[k - 1] \in Seq(Nat) /\ flat[k] = flat[k - 1] \o items[k]
    BY <1>1, <1>2, <2>1
  <2> QED BY <2>1, <2>2
<1>5. \A k \in 1 .. n : Holds(flat[n], Len(flat[k - 1]), items[k])
  <2> DEFINE T == {m \in Nat : m <= n =>
                     \A k \in 1 .. m : Holds(flat[m], Len(flat[k - 1]), items[k])}
  <2>1. 0 \in T
    OBVIOUS
  <2>2. ASSUME NEW m \in Nat, m \in T PROVE m + 1 \in T
    <3> SUFFICES ASSUME m + 1 <= n, NEW k \in 1 .. m + 1
                 PROVE  Holds(flat[m + 1], Len(flat[k - 1]), items[k])
      OBVIOUS
    <3>1. m + 1 \in 1 .. n /\ (m + 1) - 1 = m /\ k \in 1 .. n /\ m \in 0 .. n
      BY <1>0
    <3>2. /\ flat[m] \in Seq(Nat) /\ items[m + 1] \in Seq(Nat) /\ items[k] \in Seq(Nat)
          /\ flat[m + 1] = flat[m] \o items[m + 1] /\ Len(flat[k - 1]) \in Nat
      BY <1>0, <1>4, <3>1
    <3>3. CASE k = m + 1
      BY <3>1, <3>2, <3>3, JoinHolds
    <3>4. CASE k # m + 1
      <4>1. k \in 1 .. m
        BY <3>4
      <4>2. Holds(flat[m], Len(flat[k - 1]), items[k])
        BY <2>2, <3>1, <4>1, <1>0
      <4> QED BY <3>2, <4>2, JoinHolds, SMTT(20)
    <3> QED BY <3>3, <3>4
  <2> HIDE DEF T
  <2>3. n \in T
    BY <1>0, <2>1, <2>2, SetInduction
  <2> QED BY <1>0, <2>3 DEF T
<1> HIDE DEF b
<1>6. ASSUME NEW k \in 1 .. n
      PROVE  /\ pos[k] - 1 = h + Len(flat[k - 1]) /\ pos[k] - 1 \in Nat
             /\ Holds(b, pos[k] - 1, items[k]) /\ Holds(b, pos[k] - 1, Spelled(ss[k]))
  <2>1. /\ pos[k] - 1 = h + Len(flat[k - 1]) /\ pos[k] - 1 \in Nat
        /\ Len(flat[k - 1]) \in Nat /\ items[k] \in Seq(Nat)
    BY <1>0, <1>4
  <2>2. Holds(flat[n], Len(flat[k - 1]), items[k]) /\ Len(b) \in Nat
    BY <1>3, <1>5
  <2>3. Holds(b, h + Len(flat[k - 1]), items[k])
    BY <1>0, <1>2, <1>3, <2>1, <2>2, HoldsInside
  <2>4. Spelled(ss[k]) \in Seq(Nat)
    <3>1. ss[k] \in Seq(Nat) /\ Len(ss[k]) \in Nat
      BY <1>0
    <3>2. Word(Len(ss[k])) \in Seq(Nat)
      BY <3>1, WordSized DEF Sized
    <3> QED BY <3>1, <3>2, JoinHolds DEF Spelled
  <2> DEFINE q == h + Len(flat[k - 1])
  <2>5. q \in Nat /\ 0 \in Nat
    BY <1>0, <2>1
  <2> HIDE DEF q
  <2>6. Holds(b, q, items[k])
    BY <2>3 DEF q
  <2>7. Holds(items[k], 0, Spelled(ss[k]))
    BY <1>a
  <2>8. Holds(b, q + 0, Spelled(ss[k]))
    BY <2>1, <2>2, <2>4, <2>5, <2>6, <2>7, HoldsInside
  <2>9. q + 0 = q
    BY <2>5
  <2>10. Holds(b, q, Spelled(ss[k]))
    BY <2>8, <2>9
  <2> QED BY <2>1, <2>6, <2>10 DEF q
<1>7. Strung(b, ss, more, pos)
  <2>1. pos \in [1 .. n + 1 -> Nat \ {0}]
    <3>1. ASSUME NEW k \in 1 .. n + 1 PROVE h + 1 + Len(flat[k - 1]) \in Nat \ {0}
      <4>1. k - 1 \in 0 .. n
        BY <1>0
      <4>2. Len(flat[k - 1]) \in Nat
        BY <1>2, <4>1
      <4> QED BY <1>0, <4>2
    <3> QED BY <3>1
  <2>2. ASSUME NEW k \in 1 .. n PROVE pos[k + 1] = pos[k] + 2 + Len(ss[k]) + more
    <3>1. /\ k \in 1 .. n + 1 /\ k + 1 \in 1 .. n + 1 /\ (k + 1) - 1 = k
      BY <1>0
    <3>2. pos[k + 1] = h + 1 + Len(flat[k]) /\ pos[k] = h + 1 + Len(flat[k - 1])
      BY <3>1
    <3>3. Len(flat[k]) = Len(flat[k - 1]) + (2 + Len(ss[k]) + more) /\ Len(flat[k - 1]) \in Nat
      BY <1>4, <1>a
    <3>4. Len(ss[k]) \in Nat
      BY <1>0
    <3> DEFINE x == Len(flat[k - 1])
               y == Len(ss[k])
    <3>5. x \in Nat /\ y \in Nat
      BY <3>3, <3>4
    <3> HIDE DEF pos, x, y
    <3>6. pos[k + 1] = h + 1 + (x + (2 + y + more)) /\ pos[k] = h + 1 + x
      BY <3>2, <3>3, Zenon DEF x, y
    <3>7. h + 1 + (x + (2 + y + more)) = h + 1 + x + 2 + y + more
      BY <1>0, <3>5
    <3> QED BY <3>6, <3>7 DEF y
  <2> HIDE DEF pos
  <2> QED BY <1>0, <1>6, <2>1, <2>2 DEF Strung
<1>8. pos[1] = h + 1 /\ pos[n + 1] = Len(b) + 1
  <2>1. pos[1] = h + 1 + Len(flat[0]) /\ pos[n + 1] = h + 1 + Len(flat[n])
    BY <1>0
  <2>2. Len(flat[0]) = 0 /\ Len(flat[n]) \in Nat
    BY <1>1, <1>2
  <2> HIDE DEF pos
  <2> QED BY <1>0, <1>3, <2>1, <2>2
<1> HIDE DEF pos
<1>9. b = head \o FlattenSeq(items)
  BY <1>1 DEF b
<1> QED BY <1>0, <1>3, <1>6, <1>7, <1>8, <1>9

-----------------------------------------------------------------------------
(* The length of a packet *)

LEMMA DigitRead ==
  ASSUME NEW d \in 0 .. Radix - 1
  PROVE  /\ d % Radix = d /\ (Radix + d) % Radix = d
         /\ ~Continues(d) /\ Continues(Radix + d)
  BY RadixAssumption DEF Continues

\* A length is read as it was written, whatever follows it.
LEMMA CodeRead ==
  ASSUME NEW n \in 0 .. Radix4 - 1, NEW s,
         \A j \in 1 .. Len(encodeRemainingLength[n]) : s[j] = encodeRemainingLength[n][j]
  PROVE  decodeRemainingLength(s) = n
<1> DEFINE code == encodeRemainingLength
<1>0. Radix \in Nat /\ Radix > 2 /\ IsCode(Radix, code)
  BY CodeUnfolds, RadixAssumption, Zenon DEF encodeRemainingLength
<1>a. \A j \in 1 .. Len(code[n]) : s[j] = code[n][j]
  OBVIOUS
<1> HIDE DEF code
<1>1. /\ Radix2 = Square(Radix) /\ Radix3 = Cube(Radix) /\ Radix4 = Fourth(Radix)
  BY DEF Square, Cube, Fourth, Radix2, Radix3, Radix4
<1>2. /\ Radix2 \in Nat /\ Radix2 >= Radix /\ Radix3 \in Nat /\ Radix3 >= Radix2
      /\ Radix4 \in Nat /\ Radix4 >= Radix3 /\ n \in Nat
  BY <1>0 DEF Radix2, Radix3, Radix4
<1>3. CASE n < Radix
  <2>1. code[n] = <<n>> /\ n \in 0 .. Radix - 1
    BY <1>0, <1>2, <1>3, OneDigit
  <2>2. s[1] = n
    BY <1>a, <2>1
  <2>3. n % Radix = n /\ ~Continues(n)
    BY <2>1, DigitRead
  <2>4. decodeRemainingLength(s) = n + 0
    BY <2>2, <2>3 DEF decodeRemainingLength
  <2> QED BY <1>2, <2>4
<1>4. CASE n >= Radix /\ n < Radix2
  <2>1. n \in Radix .. Square(Radix) - 1
    BY <1>0, <1>1, <1>2, <1>4
  <2>2. InTwo(Radix, code, n)
    BY <1>0, <2>1, TwoDigits
  <2>3. PICK a, b \in 0 .. Radix - 1 : code[n] = <<Radix + a, b>> /\ n = a + Radix * b
    BY <2>2 DEF InTwo
  <2>4. s[1] = Radix + a /\ s[2] = b
    BY <1>a, <2>3
  <2>5. Continues(Radix + a) /\ ~Continues(b) /\ (Radix + a) % Radix = a /\ b % Radix = b
    BY DigitRead
  <2>6. decodeRemainingLength(s) = a + Radix * (b + 0)
    BY <2>4, <2>5 DEF decodeRemainingLength
  <2>7. b + 0 = b
    BY <1>0
  <2> QED BY <2>3, <2>6, <2>7
<1>5. CASE n >= Radix2 /\ n < Radix3
  <2>1. n \in Square(Radix) .. Cube(Radix) - 1
    BY <1>0, <1>1, <1>2, <1>5
  <2>2. InThree(Radix, code, n)
    BY <1>0, <2>1, ThreeDigits
  <2>3. PICK a, b, c \in 0 .. Radix - 1 :
          code[n] = <<Radix + a, Radix + b, c>> /\ n = a + Radix * (b + Radix * c)
    BY <2>2 DEF InThree
  <2>4. s[1] = Radix + a /\ s[2] = Radix + b /\ s[3] = c
    BY <1>a, <2>3
  <2>5. /\ Continues(Radix + a) /\ Continues(Radix + b) /\ ~Continues(c)
        /\ (Radix + a) % Radix = a /\ (Radix + b) % Radix = b /\ c % Radix = c
    BY DigitRead
  <2>6. decodeRemainingLength(s) = a + Radix * (b + Radix * (c + 0))
    BY <2>4, <2>5 DEF decodeRemainingLength
  <2>7. c + 0 = c
    BY <1>0
  <2> QED BY <2>3, <2>6, <2>7
<1>6. CASE n >= Radix3
  <2>1. n \in Cube(Radix) .. Fourth(Radix) - 1
    BY <1>0, <1>1, <1>2, <1>6
  <2>2. InFour(Radix, code, n)
    BY <1>0, <2>1, FourDigits
  <2>3. PICK a, b, c, d \in 0 .. Radix - 1 :
          /\ code[n] = <<Radix + a, Radix + b, Radix + c, d>>
          /\ n = a + Radix * (b + Radix * (c + Radix * d))
    BY <2>2 DEF InFour
  <2>4. s[1] = Radix + a /\ s[2] = Radix + b /\ s[3] = Radix + c /\ s[4] = d
    BY <1>a, <2>3
  <2>5. /\ Continues(Radix + a) /\ Continues(Radix + b) /\ Continues(Radix + c) /\ ~Continues(d)
        /\ (Radix + a) % Radix = a /\ (Radix + b) % Radix = b /\ (Radix + c) % Radix = c
        /\ d % Radix = d
    BY DigitRead
  <2>6. decodeRemainingLength(s) = a + Radix * (b + Radix * (c + Radix * d))
    BY <2>4, <2>5 DEF decodeRemainingLength
  <2> QED BY <2>3, <2>6
<1> QED BY <1>0, <1>2, <1>3, <1>4, <1>5, <1>6

\* The bytes are those of a packet with this body, but for the first one.
Carries(bytes, r, first, body) ==
  /\ Remaining(r) \in 0 .. Radix4 - 1 /\ first \in Nat
  /\ body \in Seq(Nat) /\ Len(body) = Remaining(r)
  /\ bytes \in Seq(Nat) /\ Len(bytes) = Len(Fixed(first, r) \o body)
  /\ \A i \in 2 .. Len(bytes) : bytes[i] = (Fixed(first, r) \o body)[i]

\* A packet, whatever its first byte, is read in one piece.
LEMMA FrameRead ==
  ASSUME NEW bytes, NEW r, NEW first, NEW body, Carries(bytes, r, first, body)
  PROVE  /\ LengthOf(bytes) = Len(body) /\ FrameLength(bytes) = Len(bytes)
         /\ SubSeq(bytes, Len(bytes) - Len(body) + 1, Len(bytes)) = body
<1>b. /\ Remaining(r) \in 0 .. Radix4 - 1 /\ first \in Nat
      /\ body \in Seq(Nat) /\ Len(body) = Remaining(r) /\ bytes \in Seq(Nat)
  BY DEF Carries
<1> DEFINE n == Remaining(r)
           code == encodeRemainingLength[n]
           k == remainingLengthLength(n)
           f == Fixed(first, r)
<1>1. code \in Seq(Nat) /\ Len(code) = k /\ k \in 1 .. 4 /\ n \in Nat /\ n \in 0 .. Radix4 - 1
  BY <1>b, CodeSized DEF Sized
<1>2. f = <<first>> \o code
  BY Zenon DEF Fixed
<1>a. /\ Len(bytes) = Len(f \o body)
      /\ \A i \in 2 .. Len(bytes) : bytes[i] = (f \o body)[i]
  BY Zenon DEF Carries
<1> HIDE DEF n, code, k, f
<1>3. f \in Seq(Nat) /\ Len(f) = 1 + k /\ \A j \in 1 .. k : f[1 + j] = code[j]
  <2> DEFINE e == <<first>>
  <2>1. e \in Seq(Nat) /\ Len(e) = 1
    BY <1>b
  <2> HIDE DEF e
  <2>2. f = e \o code
    BY <1>2 DEF e
  <2>3. f \in Seq(Nat) /\ Len(f) = Len(e) + Len(code) /\ Holds(f, Len(e), code)
    BY <1>1, <2>1, <2>2, JoinHolds
  <2> QED BY <1>1, <2>1, <2>3 DEF Holds
<1>4. /\ Len(body) = n /\ Len(bytes) = 1 + k + n
      /\ \A j \in 1 .. k : (f \o body)[1 + j] = code[j]
      /\ \A j \in 1 .. n : (f \o body)[1 + k + j] = body[j]
  <2>1. Len(body) = n
    BY <1>b DEF n
  <2>2. /\ \A j \in 1 .. Len(f) : (f \o body)[j] = f[j]
        /\ \A j \in 1 .. Len(body) : (f \o body)[Len(f) + j] = body[j]
        /\ Len(f \o body) = Len(f) + Len(body)
    <3>1. /\ Holds(f \o body, 0, f) /\ Holds(f \o body, Len(f), body)
          /\ Len(f \o body) = Len(f) + Len(body)
      BY <1>3, <1>b, JoinHolds
    <3>2. \A j \in 1 .. Len(f) : 0 + j = j
      BY <1>b, <1>1, <1>3
    <3> QED BY <3>1, <3>2 DEF Holds
  <2>3. ASSUME NEW j \in 1 .. k PROVE (f \o body)[1 + j] = code[j]
    <3>1. 1 + j \in 1 .. Len(f)
      BY <1>b, <1>1, <1>3
    <3> QED BY <1>3, <2>2, <3>1
  <2> QED BY <1>b, <1>1, <1>3, <1>a, <2>1, <2>2, <2>3
<1>5. /\ \A j \in 1 .. k : bytes[1 + j] = code[j]
      /\ \A j \in 1 .. n : bytes[1 + k + j] = body[j]
  <2>1. ASSUME NEW j \in 1 .. k PROVE bytes[1 + j] = code[j]
    <3>1. 1 + j \in 2 .. Len(bytes)
      BY <1>b, <1>1, <1>4
    <3> QED BY <1>b, <1>4, <1>a, <3>1
  <2>2. ASSUME NEW j \in 1 .. n PROVE bytes[1 + k + j] = body[j]
    <3>1. 1 + k + j \in 2 .. Len(bytes)
      BY <1>b, <1>1, <1>4
    <3> QED BY <1>b, <1>4, <1>a, <3>1
  <2> QED BY <2>1, <2>2
<1>6. LengthOf(bytes) = n
  <2> DEFINE a == SubSeq(bytes, 2, Len(bytes))
             z == <<0, 0, 0, 0>>
             s == a \o z
  <2>1. z \in Seq(Nat)
    OBVIOUS
  <2>2. a \in Seq(Nat) /\ Len(a) = k + n /\ \A j \in 1 .. k + n : a[j] = bytes[1 + j]
    BY <1>b, <1>1, <1>4, SMTT(20)
  <2> HIDE DEF a, z
  <2>3. \A j \in 1 .. k + n : s[j] = a[j]
    BY <1>1, <2>1, <2>2
  <2>4. ASSUME NEW j \in 1 .. k PROVE s[j] = code[j]
    <3>1. j \in 1 .. k + n
      BY <1>b, <1>1
    <3> QED BY <1>5, <2>2, <2>3, <3>1
  <2> HIDE DEF s
  <2>5. \A j \in 1 .. Len(encodeRemainingLength[n]) : s[j] = encodeRemainingLength[n][j]
    BY <1>1, <2>4 DEF code
  <2>6. decodeRemainingLength(s) = n
    BY <1>1, <2>5, CodeRead
  <2> QED BY <2>6 DEF LengthOf, s, a, z
<1>7. FrameLength(bytes) = Len(bytes)
  <2>1. FrameLength(bytes) = 1 + remainingLengthLength(n) + n
    BY <1>6, Zenon DEF FrameLength
  <2> QED BY <1>4, <2>1 DEF k
<1>8. SubSeq(bytes, Len(bytes) - Len(body) + 1, Len(bytes)) = body
  <2>1. Len(bytes) - Len(body) + 1 = 2 + k /\ Len(bytes) = 1 + k + n
    BY <1>b, <1>1, <1>4
  <2>2. SubSeq(bytes, 2 + k, 1 + k + n) = body
    <3> DEFINE t == SubSeq(bytes, 2 + k, 1 + k + n)
    <3>a. 2 + k \in Nat /\ 1 + k + n \in Nat /\ 1 + k + n <= Len(bytes) /\ 2 + k >= 1
      BY <1>b, <1>1, <1>4
    <3>1. t \in Seq(Nat) /\ Len(t) = n /\ \A j \in 1 .. n : t[j] = bytes[1 + k + j]
      <4> DEFINE p == 2 + k
                 q == 1 + k + n
      <4>1. p \in Nat /\ q \in Nat /\ q <= Len(bytes) /\ p >= 1 /\ q - p + 1 = n
        BY <1>1, <3>a
      <4> HIDE DEF p, q
      <4>2. /\ SubSeq(bytes, p, q) \in Seq(Nat)
            /\ Len(SubSeq(bytes, p, q)) = IF p <= q THEN q - p + 1 ELSE 0
            /\ \A j \in 1 .. q - p + 1 : SubSeq(bytes, p, q)[j] = bytes[p + j - 1]
        BY <1>b, <4>1
      <4>3. \A j \in 1 .. n : p + j - 1 = 1 + k + j
        BY <1>1 DEF p
      <4>4. Len(SubSeq(bytes, p, q)) = n
        BY <1>1, <4>1, <4>2
      <4> QED BY <4>1, <4>2, <4>3, <4>4 DEF p, q
    <3> HIDE DEF t
    <3>2. t = body
      BY <1>b, <1>1, <1>4, <1>5, <3>1
    <3> QED BY <3>2 DEF t
  <2> QED BY <2>1, <2>2
<1> QED BY <1>b, <1>4, <1>6, <1>7, <1>8

-----------------------------------------------------------------------------
(* What a packet says *)

\* The packet as it should be written, and again when it was sent before.
Whole(r) == Written(r) \o (IF r.type = PUBLISH /\ r.chunked THEN r.payload ELSE <<>>)
MarkedAs(b, d) == IF d THEN [b EXCEPT ![1] = @ + 8] ELSE b

\* A broker reads it as it was meant.
Says(r, d) ==
  /\ FrameLength(MarkedAs(Whole(r), d)) = Len(MarkedAs(Whole(r), d))
  /\ Meaning(MarkedAs(Whole(r), d)) = Intended(r, d)

\* A header and a body say what the body says to one that has read the header.
LEMMA WholeRead ==
  ASSUME NEW r, Remaining(r) \in 0 .. Radix4 - 1, NEW first \in Nat,
         NEW body \in Seq(Nat), Len(body) = Remaining(r),
         Whole(r) = Fixed(first, r) \o body, NEW d \in BOOLEAN, NEW mark \in Nat,
         mark = first + When(d, 8),
         MeaningOf(16 * (mark \div 16), mark % 16, body) = Intended(r, d)
  PROVE  Says(r, d)
<1> DEFINE w == Whole(r)
           bytes == MarkedAs(w, d)
           f == Fixed(first, r)
<1>1. f \in Seq(Nat) /\ Len(f) >= 2 /\ f[1] = first
  <2> DEFINE code == encodeRemainingLength[Remaining(r)]
             e == <<first>>
  <2>1. code \in Seq(Nat) /\ Len(code) >= 1
    <3>1. /\ Sized(code, remainingLengthLength(Remaining(r)))
          /\ remainingLengthLength(Remaining(r)) \in 1 .. 4
      BY CodeSized
    <3> QED BY <3>1 DEF Sized
  <2>2. e \in Seq(Nat) /\ Len(e) = 1 /\ e[1] = first
    OBVIOUS
  <2>3. f = e \o code
    BY Zenon DEF Fixed
  <2> HIDE DEF e, code, f
  <2>4. f \in Seq(Nat) /\ Len(f) = Len(e) + Len(code) /\ Holds(f, 0, e)
    BY <2>1, <2>2, <2>3, JoinHolds
  <2>5. f[0 + 1] = e[1]
    BY <2>2, <2>4 DEF Holds
  <2> QED BY <2>1, <2>2, <2>4, <2>5
<1>2. w = f \o body
  OBVIOUS
<1> HIDE DEF w, f
<1>3. w \in Seq(Nat) /\ Len(w) = Len(f) + Len(body) /\ w[1] = first /\ Len(w) >= 2
  <2>1. w \in Seq(Nat) /\ Len(w) = Len(f) + Len(body) /\ Holds(w, 0, f)
    BY <1>1, <1>2, JoinHolds
  <2>a. 1 \in 1 .. Len(f)
    BY <1>1
  <2>2. w[0 + 1] = f[1]
    BY <2>1, <2>a DEF Holds
  <2> QED BY <1>1, <2>1, <2>2
<1>4. /\ bytes \in Seq(Nat) /\ Len(bytes) = Len(w) /\ bytes[1] = mark
      /\ \A i \in 2 .. Len(w) : bytes[i] = w[i]
  <2>1. CASE d
    <3>1. bytes = [w EXCEPT ![1] = @ + 8] /\ mark = first + 8
      BY <2>1 DEF MarkedAs, When
    <3>2. w[1] + 8 = mark /\ mark \in Nat /\ 1 \in 1 .. Len(w)
      BY <1>3, <3>1
    <3> QED BY <1>3, <3>1, <3>2, SMTT(20)
  <2>2. CASE ~d
    <3>1. bytes = w /\ mark = first + 0
      BY <2>2 DEF MarkedAs, When
    <3>2. mark = first
      BY <3>1
    <3> QED BY <1>3, <3>1, <3>2
  <2> QED BY <2>1, <2>2
<1> HIDE DEF bytes
<1>5. /\ LengthOf(bytes) = Len(body) /\ FrameLength(bytes) = Len(bytes)
      /\ SubSeq(bytes, Len(bytes) - Len(body) + 1, Len(bytes)) = body
  <2>1. /\ Len(bytes) = Len(Fixed(first, r) \o body)
        /\ \A i \in 2 .. Len(bytes) : bytes[i] = (Fixed(first, r) \o body)[i]
    BY <1>2, <1>4 DEF f
  <2>2. Carries(bytes, r, first, body)
    BY <1>4, <2>1, Zenon DEF Carries
  <2> QED BY <2>2, FrameRead
<1>6. Meaning(bytes) = MeaningOf(16 * (mark \div 16), mark % 16, body)
  BY <1>4, <1>5, Zenon DEF Meaning
<1> QED BY <1>5, <1>6, Zenon DEF Says, bytes, w

LEMMA JoinNothing == ASSUME NEW s \in Seq(Nat) PROVE s \o <<>> = s
  OBVIOUS

LEMMA SaysShort ==
  ASSUME NEW r \in Acks \cup Bares, Remaining(r) \in 0 .. Radix4 - 1, NEW d \in BOOLEAN, ~d
  PROVE  Says(r, d)
<1> DEFINE first == r.type + When(r.type = PUBREL, 2)
           body == IF r \in Acks THEN Word(r.id) ELSE <<>>
<1>1. CASE r \in Acks
  <2>1. r.type \in {PUBACK, PUBREC, PUBREL, PUBCOMP} /\ r.id \in Nat
    BY <1>1 DEF Acks
  <2>2. Sized(Word(r.id), 2)
    BY <2>1, WordSized
  <2>3. Remaining(r) = 2
    BY <2>1 DEF Remaining, CONNECT, PUBLISH, SUBSCRIBE, UNSUBSCRIBE, PUBACK, PUBREC, PUBREL,
        PUBCOMP, PINGREQ, DISCONNECT
  <2>4. Written(r) = Fixed(first, r) \o Word(r.id)
    BY <2>1 DEF Written, CONNECT, PUBLISH, SUBSCRIBE, UNSUBSCRIBE, PUBACK, PUBREC, PUBREL,
        PUBCOMP, PINGREQ, DISCONNECT
  <2>5. first \in Nat
    BY <2>1 DEF When, PUBACK, PUBREC, PUBREL, PUBCOMP
  <2>6. Whole(r) = Written(r) \o <<>>
    <3>1. r.type # PUBLISH
      BY <2>1 DEF PUBLISH, PUBACK, PUBREC, PUBREL, PUBCOMP
    <3> QED BY <3>1, Zenon DEF Whole
  <2>7. Written(r) \in Seq(Nat)
    <3>1. Fixed(first, r) \in Seq(Nat)
      BY <2>5, FixedSized DEF Sized
    <3> QED BY <2>2, <2>4, <3>1, JoinHolds DEF Sized
  <2>8. Whole(r) = Fixed(first, r) \o Word(r.id)
    BY <2>4, <2>6, <2>7, JoinNothing
  <2>9. MeaningOf(16 * (first \div 16), first % 16, Word(r.id)) = Intended(r, d)
    <3> DEFINE b == Word(r.id)
    <3>1. /\ 16 * (first \div 16) = r.type /\ first % 16 = When(r.type = PUBREL, 2)
          /\ r.type \in {64, 80, 96, 112}
      BY <2>1 DEF When, PUBACK, PUBREC, PUBREL, PUBCOMP
    <3> HIDE DEF first, b
    <3>2. MeaningOf(r.type, When(r.type = PUBREL, 2), b)
            = [type |-> r.type, flags |-> When(r.type = PUBREL, 2), body |-> b]
      BY <3>1 DEF MeaningOf
    <3>3. Intended(r, d)
            = [type |-> r.type, flags |-> When(r.type = PUBREL, 2), body |-> Word(r.id)]
      BY <2>1 DEF Intended, CONNECT, PUBLISH, SUBSCRIBE, UNSUBSCRIBE, PUBACK, PUBREC, PUBREL,
          PUBCOMP, PINGREQ, DISCONNECT
    <3> QED BY <3>1, <3>2, <3>3, Zenon DEF b
  <2>10. first = first + When(d, 8)
    BY <2>5 DEF When
  <2> HIDE DEF first
  <2> QED BY <2>2, <2>3, <2>5, <2>8, <2>9, <2>10, WholeRead DEF Sized
<1>2. CASE r \in Bares
  <2>1. r.type \in {PINGREQ, DISCONNECT}
    BY <1>2 DEF Bares
  <2>2. Remaining(r) = 0 /\ Written(r) = Fixed(r.type, r) /\ Whole(r) = Written(r) \o <<>>
    <3>1. r.type # PUBLISH
      BY <2>1 DEF PUBLISH, PINGREQ, DISCONNECT
    <3>2. Whole(r) = Written(r) \o <<>>
      BY <3>1, Zenon DEF Whole
    <3>3. Remaining(r) = 0 /\ Written(r) = Fixed(r.type, r)
      BY <2>1 DEF Remaining, Written, CONNECT, PUBLISH, SUBSCRIBE, UNSUBSCRIBE, PUBACK,
          PUBREC, PUBREL, PUBCOMP, PINGREQ, DISCONNECT
    <3> QED BY <3>2, <3>3
  <2>3. r.type \in {192, 224} /\ r.type \in Nat
    BY <2>1 DEF PINGREQ, DISCONNECT
  <2>4. 16 * (r.type \div 16) = r.type /\ r.type % 16 = 0
    BY <2>3
  <2>5. MeaningOf(r.type, 0, <<>>) = [type |-> r.type, flags |-> 0, body |-> <<>>]
    BY <2>3 DEF MeaningOf
  <2>6. Intended(r, d) = [type |-> r.type, flags |-> 0, body |-> <<>>]
    BY <2>1 DEF Intended, CONNECT, PUBLISH, SUBSCRIBE, UNSUBSCRIBE, PUBACK, PUBREC, PUBREL,
          PUBCOMP, PINGREQ, DISCONNECT
  <2>7. r.type = r.type + When(d, 8)
    BY <2>3 DEF When
  <2>8. Whole(r) = Fixed(r.type, r) \o <<>>
    BY <2>2
  <2>9. <<>> \in Seq(Nat) /\ Len(<<>>) = Remaining(r)
    BY <2>2
  <2>10. MeaningOf(16 * (r.type \div 16), r.type % 16, <<>>) = Intended(r, d)
    BY <2>4, <2>5, <2>6, Zenon
  <2> QED BY <2>3, <2>7, <2>8, <2>9, <2>10, WholeRead
<1> QED BY <1>1, <1>2

LEMMA JoinedBehind ==
  ASSUME NEW f \in Seq(Nat), NEW a \in Seq(Nat), NEW b \in Seq(Nat)
  PROVE  (f \o a) \o b = f \o (a \o b)
  BY ConcatAssociative

LEMMA JoinedBoth ==
  ASSUME NEW f \in Seq(Nat), NEW a \in Seq(Nat), NEW b \in Seq(Nat)
  PROVE  (f \o a) \o b = f \o (a \o b) /\ a \o b \in Seq(Nat)
  BY JoinedBehind, JoinHolds, SMTT(20)

LEMMA RestHeld ==
  ASSUME NEW b \in Seq(Nat), NEW k \in Nat, NEW s \in Seq(Nat), Holds(b, k, s),
         Len(b) = k + Len(s)
  PROVE  SubSeq(b, k + 1, Len(b)) = s
<1> DEFINE p == k + 1
           q == Len(b)
           n == Len(s)
<1>1. p \in Nat /\ q \in Nat /\ p >= 1 /\ n \in Nat /\ q - p + 1 = n
  OBVIOUS
<1>2. \A i \in 1 .. n : b[k + i] = s[i] /\ p + i - 1 = k + i
  BY DEF Holds
<1> HIDE DEF p, n
<1>3. /\ SubSeq(b, p, q) \in Seq(Nat)
      /\ Len(SubSeq(b, p, q)) = IF p <= q THEN q - p + 1 ELSE 0
      /\ \A i \in 1 .. q - p + 1 : SubSeq(b, p, q)[i] = b[p + i - 1]
  BY <1>1
<1> DEFINE t == SubSeq(b, p, q)
<1> HIDE DEF q, t
<1>4. t \in Seq(Nat) /\ Len(t) = n /\ \A i \in 1 .. n : t[i] = s[i]
  <2>1. t \in Seq(Nat) /\ Len(t) = n
    BY <1>1, <1>3 DEF t
  <2>2. ASSUME NEW i \in 1 .. n PROVE t[i] = s[i]
    <3>1. t[i] = b[p + i - 1]
      BY <1>1, <1>3 DEF t
    <3> QED BY <1>2, <3>1
  <2> QED BY <2>1, <2>2
<1>5. t = s
  <2>1. Len(t) = Len(s) /\ \A i \in 1 .. Len(t) : t[i] = s[i]
    BY <1>4 DEF n
  <2> QED BY <1>4, <2>1, SeqEqual
<1> QED BY <1>5 DEF t, p, q

LEMMA StringWritten ==
  ASSUME NEW s \in Strings
  PROVE  /\ encodeString(s) = Spelled(s) /\ s \in Seq(Nat) /\ Len(s) \in Nat
         /\ Spelled(s) \in Seq(Nat) /\ Len(Spelled(s)) = 2 + Len(s)
<1>1. s \in Seq(Nat) /\ Len(s) \in Nat /\ ~(Len(s) > MaxString)
  BY PacketAssumption DEF Strings
<1>2. encodeString(s) = Spelled(s)
  BY <1>1 DEF encodeString, Spelled
<1> QED BY <1>1, <1>2, StringSized DEF Sized

\* The bits of the first byte of a PUBLISH.
LEMMA PublishBits ==
  ASSUME NEW q \in 0 .. 2, NEW retain \in BOOLEAN, NEW d \in BOOLEAN, NEW mark,
         mark = PUBLISH + When(retain, 1) + 2 * q + When(d, 8)
  PROVE  /\ mark \in Nat /\ 16 * (mark \div 16) = 48 /\ ((mark % 16) \div 2) % 4 = q
         /\ Bit(mark % 16, 1) = retain /\ Bit(mark % 16, 8) = d
<1>1. PICK x \in 0 .. 1 : x = When(retain, 1) /\ (x = 1 <=> retain)
  BY DEF When
<1>2. PICK y \in 0 .. 1 : 8 * y = When(d, 8) /\ (y = 1 <=> d)
  BY DEF When
<1>3. mark = 48 + x + 2 * q + 8 * y
  BY <1>1, <1>2 DEF PUBLISH
<1>4. mark \in Nat /\ mark \div 16 = 3 /\ mark % 16 = x + 2 * q + 8 * y
  BY <1>3
<1>5. /\ ((x + 2 * q + 8 * y) \div 2) % 4 = q /\ ((x + 2 * q + 8 * y) \div 1) % 2 = x
      /\ ((x + 2 * q + 8 * y) \div 8) % 2 = y
  OBVIOUS
<1> DEFINE m == mark % 16
<1>6. (m \div 2) % 4 = q /\ (m \div 1) % 2 = x /\ (m \div 8) % 2 = y
  BY <1>4, <1>5
<1> HIDE DEF m
<1>7. (Bit(m, 1) <=> x = 1) /\ (Bit(m, 8) <=> y = 1)
  BY <1>6 DEF Bit
<1>8. Bit(m, 1) \in BOOLEAN /\ Bit(m, 8) \in BOOLEAN
  BY DEF Bit
<1>9. Bit(m, 1) = retain /\ Bit(m, 8) = d
  BY <1>1, <1>2, <1>7, <1>8, Zenon
<1> QED BY <1>4, <1>6, <1>9 DEF m

LEMMA SaysPublish ==
  ASSUME NEW r \in Publishes, Remaining(r) \in 0 .. Radix4 - 1,
         NEW d \in BOOLEAN
  PROVE  Says(r, d)
<1> DEFINE first == PUBLISH + When(r.retain, 1) + 2 * r.qos
           f == Fixed(first, r)
           e == encodeString(r.topic)
           w == IF r.qos > 0 THEN Word(r.id) ELSE <<>>
           p == r.payload
           body == (e \o w) \o p
           l == Len(r.topic)
           mark == first + When(d, 8)
<1>1. /\ r.type = PUBLISH /\ r.id \in Nat /\ r.topic \in Strings /\ p \in Seq(Nat)
      /\ r.qos \in 0 .. 2 /\ r.retain \in BOOLEAN /\ r.chunked \in BOOLEAN
  BY DEF Publishes
<1>2. first \in Nat
  BY <1>1 DEF When, PUBLISH
<1>3. f \in Seq(Nat)
  BY <1>2, FixedSized DEF Sized
<1>4. e = Spelled(r.topic) /\ e \in Seq(Nat) /\ Len(e) = 2 + l /\ l \in Nat
      /\ r.topic \in Seq(Nat)
  BY <1>1, StringWritten
<1>5. w \in Seq(Nat) /\ Len(w) = When(r.qos > 0, 2)
  <2>1. CASE r.qos > 0
    BY <1>1, <2>1, WordSized DEF Sized, When
  <2>2. CASE ~(r.qos > 0)
    BY <2>2 DEF When
  <2> QED BY <2>1, <2>2
<1>6. Whole(r) = f \o body
  <2>1. PublishHeader(r) = (f \o e) \o w
    BY Zenon DEF PublishHeader
  <2>2. Written(r) = PublishHeader(r) \o (IF r.chunked THEN <<>> ELSE p)
    BY <1>1 DEF Written, CONNECT, PUBLISH, SUBSCRIBE, UNSUBSCRIBE, PUBACK, PUBREC, PUBREL,
        PUBCOMP, PINGREQ, DISCONNECT
  <2> DEFINE h == (f \o e) \o w
  <2>3. h \in Seq(Nat) /\ h = f \o (e \o w) /\ e \o w \in Seq(Nat)
    BY <1>3, <1>4, <1>5, JoinHolds, JoinedBehind, ZenonT(30)
  <2> HIDE DEF h, p, f, e, w
  <2>4. Whole(r) = h \o p
    <3>1. CASE r.chunked
      <4>1. Whole(r) = (h \o <<>>) \o p
        BY <1>1, <2>1, <2>2, <3>1, Zenon DEF Whole, h, p
      <4> QED BY <2>3, <4>1, JoinNothing
    <3>2. CASE ~r.chunked
      <4>1. Whole(r) = (h \o p) \o <<>>
        BY <1>1, <2>1, <2>2, <3>2, Zenon DEF Whole, h
      <4>2. h \o p \in Seq(Nat)
        BY <1>1, <2>3, JoinHolds
      <4> QED BY <4>1, <4>2, JoinNothing
    <3> QED BY <3>1, <3>2
  <2> QED BY <1>1, <1>3, <2>3, <2>4, JoinedBehind
<1>7. Remaining(r) = 2 + l + When(r.qos > 0, 2) + Len(p)
  <2>1. Remaining(r) = StringSize(r.topic) + When(r.qos # 0, 2) + Len(p)
    BY <1>1 DEF Remaining, CONNECT, PUBLISH, SUBSCRIBE, UNSUBSCRIBE, PUBACK, PUBREC, PUBREL,
        PUBCOMP, PINGREQ, DISCONNECT
  <2>2. StringSize(r.topic) = 2 + l
    BY <1>1, StringSized
  <2>3. When(r.qos # 0, 2) = When(r.qos > 0, 2)
    BY <1>1 DEF When
  <2> QED BY <2>1, <2>2, <2>3
<1>8. /\ 16 * (mark \div 16) = 48 /\ ((mark % 16) \div 2) % 4 = r.qos /\ mark \in Nat
      /\ Bit(mark % 16, 1) = r.retain /\ Bit(mark % 16, 8) = d
  <2>1. mark = PUBLISH + When(r.retain, 1) + 2 * r.qos + When(d, 8)
    OBVIOUS
  <2>2. PICK q \in 0 .. 2 : q = r.qos
    BY <1>1
  <2>3. PICK retain \in BOOLEAN : retain = r.retain
    BY <1>1
  <2> HIDE DEF mark, first
  <2>4. mark = PUBLISH + When(retain, 1) + 2 * q + When(d, 8)
    BY <2>1, <2>2, <2>3
  <2>5. /\ mark \in Nat /\ 16 * (mark \div 16) = 48 /\ ((mark % 16) \div 2) % 4 = q
        /\ Bit(mark % 16, 1) = retain /\ Bit(mark % 16, 8) = d
    BY <2>4, PublishBits
  <2> QED BY <2>2, <2>3, <2>5, Zenon
<1> HIDE DEF first, f, e, w, p, l, mark
<1>9. /\ body \in Seq(Nat) /\ Len(body) = 2 + l + Len(w) + Len(p)
      /\ Holds(body, 0, e) /\ Holds(body, 2 + l, w) /\ Holds(body, 2 + l + Len(w), p)
  <2>1. /\ e \o w \in Seq(Nat) /\ Len(e \o w) = 2 + l + Len(w)
        /\ Holds(e \o w, 0, e) /\ Holds(e \o w, 2 + l, w)
    BY <1>4, <1>5, JoinHolds
  <2> DEFINE h == e \o w
  <2> HIDE DEF h
  <2>2. 0 \in Nat /\ 2 + l \in Nat
    BY <1>4
  <2>3. h \in Seq(Nat) /\ Len(h) = 2 + l + Len(w) /\ Holds(h, 0, e) /\ Holds(h, 2 + l, w)
    BY <2>1 DEF h
  <2>4. e \in Seq(Nat) /\ w \in Seq(Nat) /\ p \in Seq(Nat)
    BY <1>1, <1>4, <1>5
  <2>5. /\ h \o p \in Seq(Nat) /\ Len(h \o p) = Len(h) + Len(p) /\ Holds(h \o p, Len(h), p)
        /\ \A k \in Nat, s \in Seq(Nat) : Holds(h, k, s) => Holds(h \o p, k, s)
    BY <2>3, <2>4, JoinHolds, Zenon
  <2>6. body = h \o p
    BY DEF h
  <2>7. Holds(h \o p, 0, e) /\ Holds(h \o p, 2 + l, w)
    BY <2>2, <2>3, <2>4, <2>5, Zenon
  <2> QED BY <2>3, <2>5, <2>6, <2>7, Zenon
<1> HIDE DEF body
<1>10. Text(body, 1) = r.topic /\ Behind(body, 1) = 3 + l
  <2>1. Holds(body, 0, Spelled(r.topic)) /\ 0 \in Nat
    BY <1>4, <1>9
  <2>2. Text(body, 0 + 1) = r.topic /\ Behind(body, 0 + 1) = 0 + 3 + l
    BY <1>4, <1>9, <2>1, StringHeld DEF l
  <2> QED BY <1>4, <2>2
<1>11. (IF r.qos > 0 THEN Number(body, Behind(body, 1)) ELSE 0) = PacketId(r)
  <2>1. CASE r.qos > 0
    <3>1. Holds(body, 2 + l, Word(r.id)) /\ 2 + l \in Nat /\ (2 + l) + 1 = 3 + l
      BY <1>4, <1>9, <2>1 DEF w
    <3>2. Number(body, 3 + l) = r.id
      BY <1>1, <3>1, WordHeld
    <3>3. PacketId(r) = r.id
      BY <1>1, <2>1 DEF PacketId, CONNECT, PUBLISH, PINGREQ, DISCONNECT
    <3> QED BY <1>10, <2>1, <3>2, <3>3
  <2>2. CASE ~(r.qos > 0)
    <3>1. r.qos = 0
      BY <1>1, <2>2
    <3>2. PacketId(r) = 0
      BY <1>1, <3>1 DEF PacketId, CONNECT, PUBLISH, PINGREQ, DISCONNECT
    <3> QED BY <2>2, <3>2
  <2> QED BY <2>1, <2>2
<1>12. SubSeq(body, Behind(body, 1) + When(r.qos > 0, 2), Len(body)) = p
  <2>1. 2 + l + Len(w) \in Nat /\ (2 + l + Len(w)) + 1 = 3 + l + When(r.qos > 0, 2)
    <3>1. PICK n \in Nat : n = When(r.qos > 0, 2)
      BY DEF When
    <3>2. Len(w) = n
      BY <1>5, <3>1, Zenon
    <3>3. 2 + l + n \in Nat /\ (2 + l + n) + 1 = 3 + l + n
      BY <1>4
    <3> QED BY <3>1, <3>2, <3>3, Zenon
  <2>2. SubSeq(body, (2 + l + Len(w)) + 1, Len(body)) = p
    BY <1>1, <1>9, <2>1, RestHeld
  <2> QED BY <1>10, <2>1, <2>2
<1>13. MeaningOf(48, mark % 16, body) = Intended(r, d)
  <2> DEFINE m == mark % 16
  <2>1. MeaningOf(48, m, body) = PublishMeaning(m, body)
    BY DEF MeaningOf
  <2>2. (m \div 2) % 4 = r.qos /\ Bit(m, 1) = r.retain /\ Bit(m, 8) = d
    BY <1>8
  <2> HIDE DEF m
  <2>3. PublishMeaning(m, body) =
          [topic |-> r.topic, qos |-> r.qos, retain |-> r.retain, dup |-> d,
           id |-> PacketId(r), payload |-> p]
    BY <1>10, <1>11, <1>12, <2>2, Zenon DEF PublishMeaning
  <2>4. Intended(r, d) = [topic |-> r.topic, qos |-> r.qos, retain |-> r.retain, dup |-> d,
                          id |-> PacketId(r), payload |-> p]
    BY <1>1 DEF Intended, CONNECT, PUBLISH, SUBSCRIBE, UNSUBSCRIBE, PUBACK, PUBREC, PUBREL,
        PUBCOMP, PINGREQ, DISCONNECT, p
  <2> QED BY <2>1, <2>3, <2>4, Zenon DEF m
<1>14. Len(body) = Remaining(r)
  BY <1>5, <1>7, <1>9
<1>15. MeaningOf(16 * (mark \div 16), mark % 16, body) = Intended(r, d)
  BY <1>8, <1>13, Zenon
<1> QED BY <1>2, <1>6, <1>8, <1>9, <1>14, <1>15, WholeRead DEF mark, f

-----------------------------------------------------------------------------
(* Lists of topics *)

LEMMA AllRead ==
  ASSUME NEW b \in Seq(Nat), NEW ss \in Seq(Seq(Nat)), NEW more \in Nat, NEW pos,
         Strung(b, ss, more, pos)
  PROVE  \A k \in 1 .. Len(ss) :
           /\ Text(b, pos[k]) = ss[k] /\ Behind(b, pos[k]) = pos[k] + 2 + Len(ss[k])
           /\ pos[k] \in Nat \ {0}
<1> SUFFICES ASSUME NEW k \in 1 .. Len(ss)
             PROVE  /\ Text(b, pos[k]) = ss[k] /\ Behind(b, pos[k]) = pos[k] + 2 + Len(ss[k])
                    /\ pos[k] \in Nat \ {0}
  OBVIOUS
<1>1. /\ Text(b, pos[k]) = ss[k] /\ Behind(b, pos[k]) = pos[k] + 2 + Len(ss[k])
      /\ pos[k] \in 1 .. Len(b) - 1
  BY ReadsString
<1>2. pos[k] \in Nat \ {0}
  BY <1>1, SMTT(20)
<1> QED BY <1>1, <1>2

\* Items that begin with a string, and how they are found again.
Entries(ss, items, more) ==
  /\ ss \in Seq(Seq(Nat)) /\ items \in Seq(Seq(Nat)) /\ Len(items) = Len(ss)
  /\ \A k \in 1 .. Len(ss) : /\ Holds(items[k], 0, Spelled(ss[k]))
                            /\ Len(items[k]) = 2 + Len(ss[k]) + more
Found(b, ss, items, is) ==
  /\ Len(is) = Len(ss)
  /\ \A k \in 1 .. Len(ss) : /\ is[k] \in Nat \ {0} /\ Text(b, is[k]) = ss[k]
                            /\ Behind(b, is[k]) = is[k] + 2 + Len(ss[k])
                            /\ Holds(b, is[k] - 1, items[k])

\* The items of a list stand behind its packet identifier and can be told apart.
LEMMA ListRead ==
  ASSUME NEW id \in Nat, NEW ss, NEW items, NEW more \in Nat, Entries(ss, items, more)
  PROVE  LET b == Word(id) \o FlattenSeq(items)
         IN  b \in Seq(Nat) /\ Number(b, 1) = id /\ Found(b, ss, items, Items(b, more))
<1> DEFINE w == Word(id)
           b == w \o FlattenSeq(items)
           n == Len(ss)
<1>a. /\ ss \in Seq(Seq(Nat)) /\ items \in Seq(Seq(Nat)) /\ Len(items) = Len(ss)
      /\ \A k \in 1 .. Len(ss) : /\ Holds(items[k], 0, Spelled(ss[k]))
                                /\ Len(items[k]) = 2 + Len(ss[k]) + more
  BY DEF Entries
<1>1. w \in Seq(Nat) /\ Len(w) = 2
  BY WordSized DEF Sized
<1> HIDE DEF w
<1>2. b \in Seq(Nat)
  BY <1>1, <1>a, FlatStrung
<1>3. PICK pos : /\ Strung(b, ss, more, pos)
                 /\ pos[1] = Len(w) + 1 /\ pos[Len(ss) + 1] = Len(b) + 1
                 /\ \A k \in 1 .. Len(ss) : Holds(b, pos[k] - 1, items[k])
  BY <1>1, <1>a, FlatStrung
<1>s. Strung(b, ss, more, pos)
  BY <1>3, Zenon
<1>4. Number(b, 1) = id
  <2>1. Holds(b, 0, w)
    <3>1. FlattenSeq(items) \in Seq(Nat)
      <4>1. PICK flat \in [0 .. Len(items) -> Seq(Nat)] : FlattenSeq(items) = flat[Len(items)]
        BY <1>a, FlattenJoins
      <4>2. Len(items) \in 0 .. Len(items)
        BY <1>a
      <4> QED BY <4>1, <4>2
    <3> QED BY <1>1, <3>1, JoinHolds
  <2>2. PICK z \in Nat : z = 0
    OBVIOUS
  <2> HIDE DEF b
  <2>3. Number(b, z + 1) = id
    BY <2>1, <2>2, WordHeld DEF w
  <2> QED BY <2>2, <2>3
<1> HIDE DEF b
<1>5. Items(b, more) = [k \in 1 .. n |-> pos[k]]
  <2>1. pos[1] = 3
    BY <1>1, <1>3
  <2> QED BY <1>a, <1>2, <1>3, <2>1, ItemsRead
<1>6. Len(Items(b, more)) = n
  <2>1. n \in Nat /\ \A k \in 1 .. n : pos[k] \in Nat
    <3>1. pos \in [1 .. n + 1 -> Nat \ {0}]
      BY <1>s, Zenon DEF Strung
    <3>2. n \in Nat
      BY <1>a
    <3> HIDE DEF n
    <3> QED BY <3>1, <3>2
  <2> HIDE DEF n
  <2>2. [k \in 1 .. n |-> pos[k]] \in Seq(Nat) /\ Len([k \in 1 .. n |-> pos[k]]) = n
    BY <2>1
  <2> QED BY <1>5, <2>2, Zenon
<1>7. ASSUME NEW k \in 1 .. n
      PROVE  /\ Items(b, more)[k] = pos[k] /\ pos[k] \in Nat \ {0}
             /\ Text(b, pos[k]) = ss[k] /\ Behind(b, pos[k]) = pos[k] + 2 + Len(ss[k])
             /\ Holds(b, pos[k] - 1, items[k])
  <2>1. Items(b, more)[k] = pos[k]
    <3>1. [j \in 1 .. n |-> pos[j]][k] = pos[k]
      OBVIOUS
    <3> QED BY <1>5, <3>1, Zenon
  <2>2. /\ Text(b, pos[k]) = ss[k] /\ Behind(b, pos[k]) = pos[k] + 2 + Len(ss[k])
        /\ pos[k] \in Nat \ {0}
    BY <1>a, <1>2, <1>s, AllRead, Zenon
  <2>3. Holds(b, pos[k] - 1, items[k])
    BY <1>3
  <2> QED BY <2>1, <2>2, <2>3, Zenon
<1>8. \A k \in 1 .. n :
        /\ Items(b, more)[k] \in Nat \ {0} /\ Text(b, Items(b, more)[k]) = ss[k]
        /\ Behind(b, Items(b, more)[k]) = Items(b, more)[k] + 2 + Len(ss[k])
        /\ Holds(b, Items(b, more)[k] - 1, items[k])
  <2> SUFFICES ASSUME NEW k \in 1 .. n
               PROVE  /\ Items(b, more)[k] \in Nat \ {0} /\ Text(b, Items(b, more)[k]) = ss[k]
                      /\ Behind(b, Items(b, more)[k]) = Items(b, more)[k] + 2 + Len(ss[k])
                      /\ Holds(b, Items(b, more)[k] - 1, items[k])
    OBVIOUS
  <2> QED BY <1>7, Zenon
<1> QED BY <1>2, <1>4, <1>6, <1>8, Zenon DEF b, w, n, Found

\* A body is as long as was reckoned if the packet is.
LEMMA BodySized ==
  ASSUME NEW r, r.type # PUBLISH, Remaining(r) \in 0 .. Radix4 - 1,
         Sized(Written(r), ToWrite(r)), NEW first \in Nat, NEW body \in Seq(Nat),
         Written(r) = Fixed(first, r) \o body
  PROVE  Len(body) = Remaining(r) /\ Whole(r) = Fixed(first, r) \o body
<1> DEFINE k == remainingLengthLength(Remaining(r))
           f == Fixed(first, r)
           rem == Remaining(r)
<1>1. f \in Seq(Nat) /\ Len(f) = 1 + k /\ k \in 1 .. 4
  BY FixedSized DEF Sized
<1>2. Written(r) \in Seq(Nat) /\ Len(Written(r)) = 1 + k + rem - 0
  BY Zenon DEF Sized, ToWrite
<1>3. Radix4 \in Nat
  BY RadixAssumption DEF Radix2, Radix3, Radix4
<1>4. Whole(r) = Written(r) \o <<>>
  BY Zenon DEF Whole
<1>5. Whole(r) = f \o body
  BY <1>2, <1>4, JoinNothing
<1>6. Len(Written(r)) = Len(f) + Len(body)
  BY <1>1, JoinHolds
<1>7. rem \in Nat /\ Len(body) \in Nat
  BY <1>3
<1> HIDE DEF k, rem, f
<1>8. Len(body) = rem
  BY <1>1, <1>2, <1>6, <1>7
<1> QED BY <1>5, <1>8 DEF rem, f

LEMMA SaysSubscribe ==
  ASSUME NEW r \in Subscribes, Remaining(r) < Radix4, NEW d \in BOOLEAN, ~d
  PROVE  Says(r, d)
<1> DEFINE n == Len(r.list)
           ss == [k \in 1 .. n |-> r.list[k].topic]
           items == [k \in 1 .. n |-> encodeString(r.list[k].topic) \o <<r.list[k].qos>>]
           b == Word(r.id) \o FlattenSeq(items)
           is == Items(b, 1)
<1>1. /\ r.type = SUBSCRIBE /\ r.id \in Nat /\ n \in Nat
      /\ \A k \in 1 .. n : r.list[k].topic \in Strings /\ r.list[k].qos \in 0 .. 2
      /\ \A k \in 1 .. n : r.list[k] = [topic |-> r.list[k].topic, qos |-> r.list[k].qos]
      /\ \E S : r.list \in Seq(S)
  <2> DEFINE Entry == [topic : Strings, qos : 0 .. 2]
  <2>1. r.type = SUBSCRIBE /\ r.id \in Nat /\ r.list \in Seq(Entry)
    BY DEF Subscribes
  <2>2. \A e \in Entry : /\ e.topic \in Strings /\ e.qos \in 0 .. 2
                        /\ e = [topic |-> e.topic, qos |-> e.qos]
    OBVIOUS
  <2> HIDE DEF Entry
  <2>3. \A k \in 1 .. Len(r.list) : r.list[k] \in Entry
    BY <2>1
  <2> QED BY <2>1, <2>2, <2>3
<1>2. ASSUME NEW k \in 1 .. n
      PROVE  /\ ss[k] = r.list[k].topic /\ ss[k] \in Seq(Nat) /\ items[k] \in Seq(Nat)
             /\ Holds(items[k], 0, Spelled(ss[k])) /\ Len(items[k]) = 2 + Len(ss[k]) + 1
             /\ items[k][2 + Len(ss[k]) + 1] = r.list[k].qos /\ Len(ss[k]) \in Nat
  <2> DEFINE t == r.list[k].topic
             q == r.list[k].qos
  <2>1. t \in Strings /\ q \in Nat
    BY <1>1
  <2>2. ss[k] = t /\ items[k] = encodeString(t) \o <<q>>
    OBVIOUS
  <2> HIDE DEF t, q, ss, items
  <2>3. /\ encodeString(t) = Spelled(t) /\ t \in Seq(Nat) /\ Len(t) \in Nat
        /\ Spelled(t) \in Seq(Nat) /\ Len(Spelled(t)) = 2 + Len(t)
    BY <2>1, StringWritten
  <2> DEFINE x == Spelled(t)
             y == <<q>>
  <2>4. y \in Seq(Nat) /\ Len(y) = 1 /\ y[1] = q
    BY <2>1
  <2> HIDE DEF x, y
  <2>5. items[k] = x \o y
    BY <2>2, <2>3, Zenon DEF x, y
  <2>6. x \in Seq(Nat) /\ Len(x) = 2 + Len(t)
    BY <2>3 DEF x
  <2>7. /\ x \o y \in Seq(Nat) /\ Len(x \o y) = Len(x) + Len(y)
        /\ Holds(x \o y, 0, x) /\ Holds(x \o y, Len(x), y)
    BY <2>4, <2>6, JoinHolds
  <2>8. (x \o y)[Len(x) + 1] = y[1]
    <3>1. 1 \in 1 .. Len(y)
      BY <2>4
    <3> QED BY <2>7, <3>1, Zenon DEF Holds
  <2>9. Len(x \o y) = 2 + Len(t) + 1 /\ (x \o y)[2 + Len(t) + 1] = q
    BY <2>3, <2>4, <2>6, <2>7, <2>8
  <2> QED BY <2>2, <2>3, <2>5, <2>7, <2>9, Zenon DEF t, q, x
<1>3. ss \in Seq(Seq(Nat)) /\ items \in Seq(Seq(Nat)) /\ Len(ss) = n /\ Len(items) = n
  <2>1. ss = [k \in 1 .. n |-> ss[k]] /\ items = [k \in 1 .. n |-> items[k]]
    OBVIOUS
  <2> HIDE DEF ss, items, n
  <2>2. ss \in [1 .. n -> Seq(Nat)] /\ items \in [1 .. n -> Seq(Nat)]
    BY <1>2, <2>1
  <2>3. n \in Nat
    BY <1>1
  <2> QED BY <2>2, <2>3, FunctionIsSeq, Zenon
<1> DEFINE item(k) == [topic |-> Text(b, is[k]), qos |-> b[Behind(b, is[k])]]
<1> HIDE DEF ss, items, n
<1>4. /\ b \in Seq(Nat) /\ Number(b, 1) = r.id /\ Len(is) = n
      /\ \A k \in 1 .. n :
           /\ is[k] \in Nat \ {0} /\ Text(b, is[k]) = ss[k]
           /\ Behind(b, is[k]) = is[k] + 2 + Len(ss[k])
           /\ Holds(b, is[k] - 1, items[k])
  <2>1. PICK more \in Nat : more = 1
    OBVIOUS
  <2>2. \A k \in 1 .. Len(ss) : /\ Holds(items[k], 0, Spelled(ss[k]))
                                /\ Len(items[k]) = 2 + Len(ss[k]) + more
    BY <1>2, <1>3, <2>1
  <2>3. Entries(ss, items, more)
    BY <1>3, <2>2 DEF Entries
  <2>4. b \in Seq(Nat) /\ Number(b, 1) = r.id /\ Found(b, ss, items, Items(b, more))
    BY <1>1, <2>3, ListRead
  <2>5. Found(b, ss, items, is)
    BY <2>1, <2>4
  <2> HIDE DEF b
  <2> QED BY <1>3, <2>4, <2>5 DEF Found
<1>5. Len(b) = Remaining(r) /\ Whole(r) = Fixed(SUBSCRIBE, r) \o b
  <2>1. Written(r) = SubscribeBytes(r)
    BY <1>1 DEF Written, CONNECT, PUBLISH, SUBSCRIBE, UNSUBSCRIBE, PUBACK, PUBREC, PUBREL,
        PUBCOMP, PINGREQ, DISCONNECT
  <2>2. Written(r) = (Fixed(SUBSCRIBE, r) \o Word(r.id)) \o FlattenSeq(items)
    BY <2>1, Zenon DEF SubscribeBytes, items, n
  <2>3. /\ Remaining(r) \in Nat /\ Sized(Written(r), ToWrite(r))
    BY SubscribeSized
  <2>4. Remaining(r) \in 0 .. Radix4 - 1 /\ SUBSCRIBE \in Nat /\ r.type # PUBLISH
    <3>1. Radix4 \in Nat
      BY RadixAssumption DEF Radix2, Radix3, Radix4
    <3> QED BY <1>1, <2>3, <3>1 DEF SUBSCRIBE, PUBLISH
  <2>5. /\ Fixed(SUBSCRIBE, r) \in Seq(Nat) /\ Word(r.id) \in Seq(Nat)
        /\ FlattenSeq(items) \in Seq(Nat)
    <3>1. FlattenSeq(items) \in Seq(Nat)
      <4>1. PICK flat \in [0 .. Len(items) -> Seq(Nat)] : FlattenSeq(items) = flat[Len(items)]
        BY <1>3, FlattenJoins
      <4>2. Len(items) \in 0 .. Len(items)
        BY <1>1, <1>3
      <4> QED BY <4>1, <4>2
    <3>2. Fixed(SUBSCRIBE, r) \in Seq(Nat)
      BY <2>4, FixedSized DEF Sized
    <3>3. Word(r.id) \in Seq(Nat)
      BY <1>1, WordSized DEF Sized
    <3> QED BY <3>1, <3>2, <3>3
  <2>6. Written(r) = Fixed(SUBSCRIBE, r) \o b
    BY <2>2, <2>5, JoinedBehind
  <2> HIDE DEF b
  <2> QED BY <1>4, <2>3, <2>4, <2>6, BodySized
<1> HIDE DEF b, is
<1>6. ASSUME NEW k \in 1 .. n PROVE item(k) = r.list[k]
  <2>1. r.list[k] = [topic |-> r.list[k].topic, qos |-> r.list[k].qos]
    BY <1>1 DEF n
  <2>2. Text(b, is[k]) = r.list[k].topic
    BY <1>2, <1>4
  <2>3. b[Behind(b, is[k])] = r.list[k].qos
    <3> DEFINE p == is[k]
               l == Len(ss[k])
               i == 2 + l + 1
    <3>1. p \in Nat \ {0} /\ l \in Nat /\ Behind(b, p) = p + 2 + l
      BY <1>2, <1>4
    <3>2. \A j \in 1 .. Len(items[k]) : b[p - 1 + j] = items[k][j]
      BY <1>4, Zenon DEF Holds
    <3>3. i \in 1 .. Len(items[k]) /\ items[k][i] = r.list[k].qos
      BY <1>2, <3>1
    <3>4. b[p - 1 + i] = r.list[k].qos
      BY <3>2, <3>3
    <3> HIDE DEF p, l
    <3>5. p - 1 + i = Behind(b, p)
      BY <3>1
    <3> QED BY <3>4, <3>5 DEF p
  <2> QED BY <2>1, <2>2, <2>3
<1>7. r.list = [k \in 1 .. n |-> item(k)]
  <2>1. r.list = [k \in 1 .. n |-> r.list[k]]
    BY <1>1 DEF n
  <2> HIDE DEF item
  <2> QED BY <1>6, <2>1
<1>8. MeaningOf(128, 2, b) = Intended(r, d)
  <2>1. MeaningOf(128, 2, b) = [id |-> Number(b, 1), flags |-> 2,
                                list |-> [k \in 1 .. Len(is) |-> item(k)]]
    BY DEF MeaningOf, is
  <2>2. Intended(r, d) = [id |-> r.id, flags |-> 2, list |-> r.list]
    BY <1>1 DEF Intended, CONNECT, PUBLISH, SUBSCRIBE, UNSUBSCRIBE, PUBACK, PUBREC, PUBREL,
        PUBCOMP, PINGREQ, DISCONNECT
  <2> HIDE DEF item
  <2> QED BY <1>4, <1>7, <2>1, <2>2, Zenon
<1>9. SUBSCRIBE \in Nat /\ SUBSCRIBE = SUBSCRIBE + When(d, 8)
      /\ 16 * (SUBSCRIBE \div 16) = 128 /\ SUBSCRIBE % 16 = 2
  BY DEF SUBSCRIBE, When
<1>10. MeaningOf(16 * (SUBSCRIBE \div 16), SUBSCRIBE % 16, b) = Intended(r, d)
  BY <1>8, <1>9, Zenon
<1>11. Remaining(r) \in 0 .. Radix4 - 1
  <2>1. Radix4 \in Nat
    BY RadixAssumption DEF Radix2, Radix3, Radix4
  <2>2. Remaining(r) \in Nat
    BY SubscribeSized
  <2> QED BY <2>1, <2>2
<1>12. PICK first \in Nat : first = SUBSCRIBE
  BY <1>9
<1>13. /\ Len(b) = Remaining(r) /\ Whole(r) = Fixed(first, r) \o b
       /\ first = first + When(d, 8) /\ b \in Seq(Nat)
       /\ MeaningOf(16 * (first \div 16), first % 16, b) = Intended(r, d)
  BY <1>4, <1>5, <1>9, <1>10, <1>12, Zenon
<1> QED BY <1>11, <1>13, WholeRead
LEMMA SaysUnsubscribe ==
  ASSUME NEW r \in Unsubscribes, Remaining(r) < Radix4, NEW d \in BOOLEAN, ~d
  PROVE  Says(r, d)
<1> DEFINE n == Len(r.list)
           ss == [k \in 1 .. n |-> r.list[k]]
           items == [k \in 1 .. n |-> encodeString(r.list[k])]
           b == Word(r.id) \o FlattenSeq(items)
           is == Items(b, 0)
<1>1. /\ r.type = UNSUBSCRIBE /\ r.id \in Nat /\ n \in Nat
      /\ \A k \in 1 .. n : r.list[k] \in Strings
      /\ r.list \in Seq(Strings)
  BY DEF Unsubscribes
<1>2. ASSUME NEW k \in 1 .. n
      PROVE  /\ ss[k] = r.list[k] /\ ss[k] \in Seq(Nat) /\ items[k] \in Seq(Nat)
             /\ Holds(items[k], 0, Spelled(ss[k])) /\ Len(items[k]) = 2 + Len(ss[k]) + 0
  <2> DEFINE t == r.list[k]
  <2>1. t \in Strings
    BY <1>1
  <2>2. ss[k] = t /\ items[k] = encodeString(t)
    OBVIOUS
  <2> HIDE DEF t, ss, items
  <2>3. /\ encodeString(t) = Spelled(t) /\ t \in Seq(Nat) /\ Len(t) \in Nat
        /\ Spelled(t) \in Seq(Nat) /\ Len(Spelled(t)) = 2 + Len(t)
    BY <2>1, StringWritten
  <2> DEFINE x == Spelled(t)
  <2> HIDE DEF x
  <2>4. Len(x) = 2 + Len(t) + 0 /\ Holds(x, 0, x)
    <3>1. x \in Seq(Nat) /\ Len(x) = 2 + Len(t)
      BY <2>3 DEF x
    <3> QED BY <2>3, <3>1 DEF Holds
  <2> QED BY <2>2, <2>3, <2>4, Zenon DEF t, x
<1>3. ss \in Seq(Seq(Nat)) /\ items \in Seq(Seq(Nat)) /\ Len(ss) = n /\ Len(items) = n
  <2>1. ss = [k \in 1 .. n |-> ss[k]] /\ items = [k \in 1 .. n |-> items[k]]
    OBVIOUS
  <2> HIDE DEF ss, items, n
  <2>2. ss \in [1 .. n -> Seq(Nat)] /\ items \in [1 .. n -> Seq(Nat)]
    BY <1>2, <2>1
  <2>3. n \in Nat
    BY <1>1
  <2> QED BY <2>2, <2>3, FunctionIsSeq, Zenon
<1> DEFINE item(k) == Text(b, is[k])
<1> HIDE DEF ss, items, n
<1>4. /\ b \in Seq(Nat) /\ Number(b, 1) = r.id /\ Len(is) = n
      /\ \A k \in 1 .. n :
           /\ is[k] \in Nat \ {0} /\ Text(b, is[k]) = ss[k]
           /\ Behind(b, is[k]) = is[k] + 2 + Len(ss[k])
           /\ Holds(b, is[k] - 1, items[k])
  <2>1. PICK more \in Nat : more = 0
    OBVIOUS
  <2>2. \A k \in 1 .. Len(ss) : /\ Holds(items[k], 0, Spelled(ss[k]))
                                /\ Len(items[k]) = 2 + Len(ss[k]) + more
    BY <1>2, <1>3, <2>1
  <2>3. Entries(ss, items, more)
    BY <1>3, <2>2 DEF Entries
  <2>4. b \in Seq(Nat) /\ Number(b, 1) = r.id /\ Found(b, ss, items, Items(b, more))
    BY <1>1, <2>3, ListRead
  <2>5. Found(b, ss, items, is)
    BY <2>1, <2>4
  <2> HIDE DEF b
  <2> QED BY <1>3, <2>4, <2>5 DEF Found
<1>5. Len(b) = Remaining(r) /\ Whole(r) = Fixed(UNSUBSCRIBE, r) \o b
  <2>1. Written(r) = UnsubscribeBytes(r)
    BY <1>1 DEF Written, CONNECT, PUBLISH, SUBSCRIBE, UNSUBSCRIBE, PUBACK, PUBREC, PUBREL,
        PUBCOMP, PINGREQ, DISCONNECT
  <2>2. Written(r) = (Fixed(UNSUBSCRIBE, r) \o Word(r.id)) \o FlattenSeq(items)
    BY <2>1, Zenon DEF UnsubscribeBytes, items, n
  <2>3. /\ Remaining(r) \in Nat /\ Sized(Written(r), ToWrite(r))
    BY UnsubscribeSized
  <2>4. Remaining(r) \in 0 .. Radix4 - 1 /\ UNSUBSCRIBE \in Nat /\ r.type # PUBLISH
    <3>1. Radix4 \in Nat
      BY RadixAssumption DEF Radix2, Radix3, Radix4
    <3> QED BY <1>1, <2>3, <3>1 DEF UNSUBSCRIBE, PUBLISH
  <2>5. /\ Fixed(UNSUBSCRIBE, r) \in Seq(Nat) /\ Word(r.id) \in Seq(Nat)
        /\ FlattenSeq(items) \in Seq(Nat)
    <3>1. FlattenSeq(items) \in Seq(Nat)
      <4>1. PICK flat \in [0 .. Len(items) -> Seq(Nat)] : FlattenSeq(items) = flat[Len(items)]
        BY <1>3, FlattenJoins
      <4>2. Len(items) \in 0 .. Len(items)
        BY <1>1, <1>3
      <4> QED BY <4>1, <4>2
    <3>2. Fixed(UNSUBSCRIBE, r) \in Seq(Nat)
      BY <2>4, FixedSized DEF Sized
    <3>3. Word(r.id) \in Seq(Nat)
      BY <1>1, WordSized DEF Sized
    <3> QED BY <3>1, <3>2, <3>3
  <2>6. Written(r) = Fixed(UNSUBSCRIBE, r) \o b
    BY <2>2, <2>5, JoinedBehind
  <2> HIDE DEF b
  <2> QED BY <1>4, <2>3, <2>4, <2>6, BodySized
<1> HIDE DEF b, is
<1>6. ASSUME NEW k \in 1 .. n PROVE item(k) = r.list[k]
  BY <1>2, <1>4
<1>7. r.list = [k \in 1 .. n |-> item(k)]
  <2>1. r.list = [k \in 1 .. n |-> r.list[k]]
    BY <1>1 DEF n
  <2> HIDE DEF item
  <2> QED BY <1>6, <2>1
<1>8. MeaningOf(160, 2, b) = Intended(r, d)
  <2>1. MeaningOf(160, 2, b) = [id |-> Number(b, 1), flags |-> 2,
                                list |-> [k \in 1 .. Len(is) |-> item(k)]]
    BY DEF MeaningOf, is
  <2>2. Intended(r, d) = [id |-> r.id, flags |-> 2, list |-> r.list]
    BY <1>1 DEF Intended, CONNECT, PUBLISH, SUBSCRIBE, UNSUBSCRIBE, PUBACK, PUBREC, PUBREL,
        PUBCOMP, PINGREQ, DISCONNECT
  <2> HIDE DEF item
  <2> QED BY <1>4, <1>7, <2>1, <2>2, Zenon
<1>9. UNSUBSCRIBE \in Nat /\ UNSUBSCRIBE = UNSUBSCRIBE + When(d, 8)
      /\ 16 * (UNSUBSCRIBE \div 16) = 160 /\ UNSUBSCRIBE % 16 = 2
  BY DEF UNSUBSCRIBE, When
<1>10. MeaningOf(16 * (UNSUBSCRIBE \div 16), UNSUBSCRIBE % 16, b) = Intended(r, d)
  BY <1>8, <1>9, Zenon
<1>11. Remaining(r) \in 0 .. Radix4 - 1
  <2>1. Radix4 \in Nat
    BY RadixAssumption DEF Radix2, Radix3, Radix4
  <2>2. Remaining(r) \in Nat
    BY UnsubscribeSized
  <2> QED BY <2>1, <2>2
<1>12. PICK first \in Nat : first = UNSUBSCRIBE
  BY <1>9
<1>13. /\ Len(b) = Remaining(r) /\ Whole(r) = Fixed(first, r) \o b
       /\ first = first + When(d, 8) /\ b \in Seq(Nat)
       /\ MeaningOf(16 * (first \div 16), first % 16, b) = Intended(r, d)
  BY <1>4, <1>5, <1>9, <1>10, <1>12, Zenon
<1> QED BY <1>11, <1>13, WholeRead

-----------------------------------------------------------------------------
(* A CONNECT is a head of ten bytes and strings *)

\* The positions of the strings ss, which fill b behind the bytes of head.
At(b, head, ss, pos) ==
  Strung(b, ss, 0, pos) /\ pos[1] = Len(head) + 1 /\ pos[Len(ss) + 1] = Len(b) + 1
Headed(b, head, ss) ==
  b \in Seq(Nat) /\ Holds(b, 0, head) /\ ss \in Seq(Seq(Nat)) /\ \E pos : At(b, head, ss, pos)

LEMMA HeadedNone ==
  ASSUME NEW head \in Seq(Nat)
  PROVE  Headed(head, head, <<>>)
<1> DEFINE pos == [k \in 1 .. 1 |-> Len(head) + 1]
           ss == <<>>
<1>1. Holds(head, 0, head)
  BY DEF Holds
<1>2. ss \in Seq(Seq(Nat)) /\ Len(ss) = 0
  OBVIOUS
<1>3. pos \in [1 .. 1 -> Nat \ {0}] /\ pos[1] = Len(head) + 1
  OBVIOUS
<1> HIDE DEF pos, ss
<1>4. Strung(head, ss, 0, pos)
  <2>1. Len(ss) + 1 = 1 /\ 1 .. Len(ss) = {}
    BY <1>2
  <2> QED BY <1>3, <2>1 DEF Strung
<1>5. At(head, head, ss, pos)
  BY <1>2, <1>3, <1>4 DEF At
<1> QED BY <1>1, <1>2, <1>5 DEF Headed, ss

LEMMA HeadedMore ==
  ASSUME NEW b, NEW head \in Seq(Nat), NEW ss, Headed(b, head, ss), NEW s \in Seq(Nat)
  PROVE  Headed(b \o Spelled(s), head, Append(ss, s))
<1> DEFINE z == Spelled(s)
           c == b \o z
           ts == Append(ss, s)
           n == Len(ss)
<1>1. /\ b \in Seq(Nat) /\ Holds(b, 0, head) /\ ss \in Seq(Seq(Nat)) /\ n \in Nat
      /\ \E pos : At(b, head, ss, pos)
  BY DEF Headed
<1>2. PICK pos : At(b, head, ss, pos)
  BY <1>1
<1>3. z \in Seq(Nat) /\ Len(z) = 2 + Len(s)
  <2>1. Word(Len(s)) \in Seq(Nat) /\ Len(Word(Len(s))) = 2
    BY WordSized DEF Sized
  <2> QED BY <2>1, JoinHolds DEF Spelled
<1> HIDE DEF z
<1>4. /\ c \in Seq(Nat) /\ Len(c) = Len(b) + Len(z) /\ Holds(c, Len(b), z)
      /\ \A k \in Nat, t \in Seq(Nat) : Holds(b, k, t) => Holds(c, k, t)
  BY <1>1, <1>3, JoinHolds
<1>5. /\ ts \in Seq(Seq(Nat)) /\ Len(ts) = n + 1 /\ ts[n + 1] = s
      /\ \A k \in 1 .. n : ts[k] = ss[k]
  BY <1>1
<1>6. /\ pos \in [1 .. n + 1 -> Nat \ {0}]
      /\ \A k \in 1 .. n :
           pos[k + 1] = pos[k] + 2 + Len(ss[k]) + 0 /\ Holds(b, pos[k] - 1, Spelled(ss[k]))
      /\ pos[1] = Len(head) + 1 /\ pos[n + 1] = Len(b) + 1
  BY <1>2, Zenon DEF At, Strung
<1> HIDE DEF c, ts, n
<1> DEFINE new == [k \in 1 .. (n + 1) + 1 |-> IF k = (n + 1) + 1 THEN Len(c) + 1 ELSE pos[k]]
<1>7. /\ new[(n + 1) + 1] = Len(c) + 1 /\ \A k \in 1 .. n + 1 : new[k] = pos[k]
      /\ new \in [1 .. (n + 1) + 1 -> Nat \ {0}]
  <2>1. Len(c) \in Nat
    BY <1>4
  <2> QED BY <1>1, <1>6, <2>1
<1> HIDE DEF new
<1>8. ASSUME NEW k \in 1 .. n + 1
      PROVE  new[k + 1] = new[k] + 2 + Len(ts[k]) + 0 /\ Holds(c, new[k] - 1, Spelled(ts[k]))
  <2>1. CASE k \in 1 .. n
    <3>1. k + 1 \in 1 .. n + 1 /\ ts[k] = ss[k] /\ ss[k] \in Seq(Nat)
      <4>1. k + 1 \in 1 .. n + 1 /\ ts[k] = ss[k]
        BY <1>1, <1>5, <2>1
      <4>2. ss[k] \in Seq(Nat)
        BY <1>1, <2>1, ElementOfSeq DEF n
      <4> QED BY <4>1, <4>2
    <3>2. new[k] = pos[k] /\ new[k + 1] = pos[k + 1] /\ pos[k] - 1 \in Nat
      <4>1. new[k] = pos[k] /\ new[k + 1] = pos[k + 1]
        BY <1>7, <3>1, Zenon
      <4>2. pos[k] \in Nat \ {0}
        BY <1>6, Zenon
      <4> QED BY <4>1, <4>2
    <3>3. Spelled(ss[k]) \in Seq(Nat)
      <4>1. Len(ss[k]) \in Nat
        BY <3>1
      <4>2. Word(Len(ss[k])) \in Seq(Nat)
        BY <4>1, WordSized DEF Sized
      <4> QED BY <3>1, <4>2, JoinHolds DEF Spelled
    <3>4. Holds(c, pos[k] - 1, Spelled(ss[k]))
      BY <1>4, <1>6, <2>1, <3>2, <3>3
    <3>5. pos[k + 1] = pos[k] + 2 + Len(ss[k]) + 0
      BY <1>6, <2>1
    <3> QED BY <3>1, <3>2, <3>4, <3>5
  <2>2. CASE k = n + 1
    <3>1. new[k] = Len(b) + 1 /\ new[k + 1] = Len(c) + 1 /\ ts[k] = s
      BY <1>1, <1>5, <1>6, <1>7, <2>2
    <3>2. Len(b) \in Nat /\ Len(s) \in Nat
      BY <1>1
    <3>3. Len(c) + 1 = Len(b) + 1 + 2 + Len(s) + 0 /\ Len(b) + 1 - 1 = Len(b)
      BY <1>3, <1>4, <3>2
    <3>4. Holds(c, Len(b), Spelled(s))
      BY <1>4 DEF z
    <3>5. new[k] - 1 = Len(b) /\ new[k + 1] = new[k] + 2 + Len(ts[k]) + 0
      BY <3>1, <3>3
    <3> QED BY <3>1, <3>4, <3>5, Zenon
  <2> QED BY <1>1, <2>1, <2>2
<1>9. Strung(c, ts, 0, new)
  BY <1>5, <1>7, <1>8, Zenon DEF Strung
<1>10. new[1] = Len(head) + 1
  BY <1>1, <1>6, <1>7
<1>11. At(c, head, ts, new)
  BY <1>5, <1>7, <1>9, <1>10 DEF At
<1>12. Holds(c, 0, head)
  BY <1>1, <1>4
<1> QED BY <1>4, <1>5, <1>11, <1>12, Zenon DEF Headed, c, ts, z

LEMMA HeadedRead ==
  ASSUME NEW b, NEW head, NEW ss, Headed(b, head, ss), Len(head) = 10
  PROVE  Texts(b, 11, Len(ss)) = ss
<1>1. b \in Seq(Nat) /\ ss \in Seq(Seq(Nat)) /\ \E pos : At(b, head, ss, pos)
  BY DEF Headed
<1>2. PICK pos : At(b, head, ss, pos)
  BY <1>1
<1>3. Strung(b, ss, 0, pos) /\ pos[1] = 11
  BY <1>2 DEF At
<1> QED BY <1>1, <1>3, TextsRead

\* ts is ss and n strings more.
Longer(ts, ss, n) == Len(ts) = Len(ss) + n /\ \A i \in 1 .. Len(ss) : ts[i] = ss[i]

OptionIn(b, head, ss, s, ts) ==
  /\ Headed(b \o Optional(s), head, ts) /\ Longer(ts, ss, When(s # None, 1))
  /\ s # None => ts[Len(ts)] = s

LEMMA HeadedOptional ==
  ASSUME NEW b, NEW head \in Seq(Nat), NEW ss, Headed(b, head, ss),
         NEW s \in Strings \cup {None}
  PROVE  \E ts : OptionIn(b, head, ss, s, ts)
<1>0. b \in Seq(Nat) /\ ss \in Seq(Seq(Nat)) /\ Len(ss) \in Nat
  BY DEF Headed
<1>1. CASE s = None
  <2>1. b \o Optional(s) = b
    BY <1>0, <1>1, JoinNothing DEF Optional
  <2>2. Longer(ss, ss, When(s # None, 1))
    BY <1>0, <1>1 DEF Longer, When
  <2>3. OptionIn(b, head, ss, s, ss)
    BY <1>1, <2>1, <2>2 DEF OptionIn
  <2> QED BY <2>3
<1>2. CASE s # None
  <2>1. s \in Seq(Nat) /\ Optional(s) = Spelled(s)
    BY <1>2, StringWritten DEF Optional
  <2> DEFINE ts == Append(ss, s)
  <2>2. Headed(b \o Optional(s), head, ts)
    BY <2>1, HeadedMore
  <2>3. Len(ts) = Len(ss) + 1 /\ (\A i \in 1 .. Len(ss) : ts[i] = ss[i]) /\ ts[Len(ss) + 1] = s
    BY <1>0, <2>1
  <2> HIDE DEF ts
  <2>4. Longer(ts, ss, When(s # None, 1))
    BY <1>2, <2>3 DEF Longer, When
  <2>5. OptionIn(b, head, ss, s, ts)
    BY <2>2, <2>3, <2>4 DEF OptionIn
  <2> QED BY <2>5
<1> QED BY <1>1, <1>2

WillBytes(r) ==
  IF r.will.topic # None /\ r.will.payload # None
  THEN encodeString(r.will.topic) \o Word(WillLength(r))
       \o SubSeq(r.will.payload, 1, WillLength(r))
  ELSE <<>>

WillIn(b, head, ss, r, ts) ==
  /\ Headed(b \o WillBytes(r), head, ts)
  /\ Longer(ts, ss, When(r.will.topic # None, 2))
  /\ r.will.topic # None =>
       /\ ts[Len(ss) + 1] = r.will.topic
       /\ ts[Len(ss) + 2] = SubSeq(r.will.payload, 1, WillLength(r))

LEMMA HeadedWill ==
  ASSUME NEW b, NEW head \in Seq(Nat), NEW ss, Headed(b, head, ss),
         NEW r, r.will \in Wills
  PROVE  /\ WillBytes(r) \in Seq(Nat)
         /\ \E ts : WillIn(b, head, ss, r, ts)
<1>0. b \in Seq(Nat) /\ ss \in Seq(Seq(Nat)) /\ Len(ss) \in Nat
  BY DEF Headed
<1>1. CASE r.will.topic = None
  <2>1. WillBytes(r) = <<>>
    BY <1>1, Zenon DEF WillBytes
  <2>2. b \o WillBytes(r) = b /\ WillBytes(r) \in Seq(Nat)
    BY <1>0, <2>1, JoinNothing
  <2>3. Longer(ss, ss, When(r.will.topic # None, 2))
    BY <1>0, <1>1 DEF Longer, When
  <2>4. WillIn(b, head, ss, r, ss)
    BY <1>1, <2>2, <2>3, Zenon DEF WillIn
  <2> QED BY <2>2, <2>4
<1>2. CASE r.will.topic # None
  <2> DEFINE t == r.will.topic
             l == WillLength(r)
             p == SubSeq(r.will.payload, 1, l)
  <2>1. t \in Strings /\ r.will.payload # None /\ r.will.payload \in Seq(Nat)
        /\ l \in 0 .. Len(r.will.payload)
    BY <1>2, WillFits
  <2>2. p \in Seq(Nat) /\ Len(p) = l
    <3> HIDE DEF l
    <3> QED BY <2>1
  <2>3. encodeString(t) = Spelled(t) /\ t \in Seq(Nat) /\ Spelled(t) \in Seq(Nat)
    BY <2>1, StringWritten
  <2>4. WillBytes(r) = (encodeString(t) \o Word(l)) \o p
    BY <1>2, <2>1, Zenon DEF WillBytes
  <2>w. Word(l) \in Seq(Nat)
    BY <2>1, WordSized DEF Sized
  <2> HIDE DEF t, l, p
  <2>5. WillBytes(r) = Spelled(t) \o Spelled(p)
    <3>1. (Spelled(t) \o Word(l)) \o p = Spelled(t) \o (Word(l) \o p)
      BY <2>2, <2>3, <2>w, JoinedBehind
    <3>2. Spelled(p) = Word(l) \o p
      BY <2>2 DEF Spelled
    <3> QED BY <2>3, <2>4, <3>1, <3>2, Zenon
  <2>6. Spelled(p) \in Seq(Nat)
    BY <2>2, <2>w, JoinHolds DEF Spelled
  <2>7. b \o WillBytes(r) = (b \o Spelled(t)) \o Spelled(p) /\ WillBytes(r) \in Seq(Nat)
    <3>1. (b \o Spelled(t)) \o Spelled(p) = b \o (Spelled(t) \o Spelled(p))
      BY <1>0, <2>3, <2>6, JoinedBehind
    <3>2. Spelled(t) \o Spelled(p) \in Seq(Nat)
      BY <2>3, <2>6, JoinHolds
    <3> QED BY <2>5, <3>1, <3>2, Zenon
  <2> DEFINE s1 == Append(ss, t)
             ts == Append(s1, p)
  <2>8. Headed(b \o Spelled(t), head, s1)
    BY <2>3, HeadedMore
  <2>9. Headed((b \o Spelled(t)) \o Spelled(p), head, ts)
    <3> HIDE DEF s1
    <3> QED BY <2>2, <2>8, HeadedMore
  <2>10. /\ Len(ts) = Len(ss) + 2 /\ (\A i \in 1 .. Len(ss) : ts[i] = ss[i])
         /\ ts[Len(ss) + 1] = t /\ ts[Len(ss) + 2] = p
    <3>1. /\ s1 \in Seq(Seq(Nat)) /\ Len(s1) = Len(ss) + 1
          /\ (\A i \in 1 .. Len(ss) : s1[i] = ss[i]) /\ s1[Len(ss) + 1] = t
      BY <1>0, <2>3
    <3> HIDE DEF s1
    <3>2. /\ Len(ts) = Len(s1) + 1 /\ (\A i \in 1 .. Len(s1) : ts[i] = s1[i])
          /\ ts[Len(s1) + 1] = p
      BY <2>2, <3>1
    <3> HIDE DEF ts
    <3>3. ASSUME NEW i \in 1 .. Len(ss) PROVE ts[i] = ss[i]
      <4>1. i \in 1 .. Len(s1)
        BY <1>0, <3>1
      <4> QED BY <3>1, <3>2, <4>1
    <3>4. Len(ss) + 1 \in 1 .. Len(s1)
      BY <1>0, <3>1
    <3>5. ts[Len(ss) + 1] = t
      BY <3>1, <3>2, <3>4
    <3>6. Len(s1) + 1 = Len(ss) + 2
      BY <1>0, <3>1
    <3> QED BY <3>2, <3>3, <3>5, <3>6
  <2> HIDE DEF ts
  <2>11. Longer(ts, ss, When(r.will.topic # None, 2))
    BY <1>2, <2>10 DEF Longer, When
  <2>12. WillIn(b, head, ss, r, ts)
    BY <2>7, <2>9, <2>10, <2>11, Zenon DEF t, p, l, WillIn
  <2> QED BY <2>7, <2>12
<1> QED BY <1>1, <1>2

\* The connect flags.
FlagsAre(flags, c, w, t, u, p, q) ==
  flags = When(c, 2) + When(u, 128) + When(p, 64) + When(w, 4 + When(t, 32) + 8 * q)
BitsSay(flags, c, w, t, u, p, q) ==
  /\ flags \in Nat /\ Bit(flags, 2) = c /\ Bit(flags, 4) = w
  /\ Bit(flags, 64) = p /\ Bit(flags, 128) = u
  /\ w => (flags \div 8) % 4 = q /\ Bit(flags, 32) = t

LEMMA ConnectBits ==
  ASSUME NEW c \in BOOLEAN, NEW w \in BOOLEAN, NEW t \in BOOLEAN, NEW u \in BOOLEAN,
         NEW p \in BOOLEAN, NEW q \in 0 .. 2, NEW flags,
         FlagsAre(flags, c, w, t, u, p, q)
  PROVE  BitsSay(flags, c, w, t, u, p, q)
<1>1. PICK x \in 0 .. 1 : 2 * x = When(c, 2) /\ (x = 1 <=> c)
  BY DEF When
<1>2. PICK y \in 0 .. 1 : 4 * y = When(w, 4) /\ (y = 1 <=> w)
  BY DEF When
<1>3. PICK z \in 0 .. 1 : 32 * z = When(w /\ t, 32) /\ (z = 1 <=> w /\ t)
  BY DEF When
<1>4. PICK v \in 0 .. 1 : 64 * v = When(p, 64) /\ (v = 1 <=> p)
  BY DEF When
<1>5. PICK i \in 0 .. 1 : 128 * i = When(u, 128) /\ (i = 1 <=> u)
  BY DEF When
<1>6. PICK k \in 0 .. 2 : 8 * k = When(w, 8 * q) /\ (w => k = q)
  BY DEF When
<1>7. When(w, 4 + When(t, 32) + 8 * q) = 4 * y + 32 * z + 8 * k
  <2>1. CASE w
    <3>1. When(w, 4 + When(t, 32) + 8 * q) = 4 + When(t, 32) + 8 * q
      BY <2>1 DEF When
    <3>2. When(t, 32) = 32 * z /\ y = 1 /\ k = q
      BY <1>2, <1>3, <1>6, <2>1 DEF When
    <3> QED BY <3>1, <3>2
  <2>2. CASE ~w
    <3>1. When(w, 4 + When(t, 32) + 8 * q) = 0
      BY <2>2 DEF When
    <3>2. z = 0 /\ y = 0 /\ k = 0
      BY <1>2, <1>3, <1>6, <2>2 DEF When
    <3> QED BY <3>1, <3>2
  <2> QED BY <2>1, <2>2
<1>8. flags = 2 * x + 128 * i + 64 * v + (4 * y + 32 * z + 8 * k)
  BY <1>1, <1>4, <1>5, <1>7 DEF FlagsAre
<1>9. /\ flags \in Nat /\ (flags \div 2) % 2 = x /\ (flags \div 4) % 2 = y
      /\ (flags \div 8) % 4 = k
  BY <1>8
<1>10. (flags \div 32) % 2 = z /\ (flags \div 64) % 2 = v /\ (flags \div 128) % 2 = i
  BY <1>8
<1>11. /\ Bit(flags, 2) = (x = 1) /\ Bit(flags, 4) = (y = 1) /\ Bit(flags, 32) = (z = 1)
       /\ Bit(flags, 64) = (v = 1) /\ Bit(flags, 128) = (i = 1)
  BY <1>9, <1>10 DEF Bit
<1>12. /\ Bit(flags, 2) = c /\ Bit(flags, 4) = w /\ Bit(flags, 64) = p /\ Bit(flags, 128) = u
  BY <1>1, <1>2, <1>4, <1>5, <1>11, Zenon
<1>13. w => Bit(flags, 32) = t
  BY <1>3, <1>11, Zenon
<1> QED BY <1>6, <1>9, <1>12, <1>13, Zenon DEF BitsSay

ConnectHead(r) == encodeString(Protocol) \o <<4, ConnectFlags(r)>> \o Word(r.keepAlive)

LEMMA HeadRead ==
  ASSUME NEW r, ConnectFlags(r) \in Nat, r.keepAlive \in Nat, MaxString >= 4
  PROVE  /\ ConnectHead(r) \in Seq(Nat) /\ Len(ConnectHead(r)) = 10
         /\ encodeString(Protocol) \in Seq(Nat)
         /\ \A b \in Seq(Nat) :
              Holds(b, 0, ConnectHead(r)) =>
                /\ Text(b, 1) = Protocol /\ b[7] = 4 /\ b[8] = ConnectFlags(r)
                /\ Number(b, 9) = r.keepAlive
<1> DEFINE e == encodeString(Protocol)
           m == <<4, ConnectFlags(r)>>
           w == Word(r.keepAlive)
           head == (e \o m) \o w
<1>1. Protocol \in Seq(Nat) /\ Len(Protocol) = 4
  BY DEF Protocol
<1>2. e = Spelled(Protocol)
  BY <1>1, PacketAssumption DEF encodeString, Spelled
<1>3. e \in Seq(Nat) /\ Len(e) = 6
  <2>1. Word(4) \in Seq(Nat) /\ Len(Word(4)) = 2
    BY WordSized DEF Sized
  <2>2. e = Word(4) \o Protocol
    BY <1>1, <1>2 DEF Spelled
  <2> HIDE DEF e
  <2>3. e \in Seq(Nat) /\ Len(e) = 2 + 4
    BY <1>1, <2>1, <2>2, JoinHolds
  <2> QED BY <2>3
<1>4. m \in Seq(Nat) /\ Len(m) = 2 /\ m[1] = 4 /\ m[2] = ConnectFlags(r)
  OBVIOUS
<1>5. w \in Seq(Nat) /\ Len(w) = 2
  BY WordSized DEF Sized
<1>6. ConnectHead(r) = head
  BY Zenon DEF ConnectHead
<1> HIDE DEF e, m, w
<1>7. /\ e \o m \in Seq(Nat) /\ Len(e \o m) = 8 /\ Holds(e \o m, 0, e) /\ Holds(e \o m, 6, m)
  <2>1. /\ e \o m \in Seq(Nat) /\ Len(e \o m) = Len(e) + Len(m) /\ Holds(e \o m, 0, e)
        /\ Holds(e \o m, Len(e), m)
    BY <1>3, <1>4, JoinHolds, Zenon
  <2>2. Len(e) = 6 /\ Len(e) + Len(m) = 8
    BY <1>3, <1>4
  <2> QED BY <2>1, <2>2, Zenon
<1> DEFINE a == e \o m
<1> HIDE DEF a
<1>8. /\ head \in Seq(Nat) /\ Len(head) = 10 /\ Holds(head, 0, e) /\ Holds(head, 6, m)
      /\ Holds(head, 8, w)
  <2>1. a \in Seq(Nat) /\ Len(a) = 8 /\ Holds(a, 0, e) /\ Holds(a, 6, m)
    BY <1>7 DEF a
  <2>2. /\ a \o w \in Seq(Nat) /\ Len(a \o w) = Len(a) + Len(w) /\ Holds(a \o w, Len(a), w)
        /\ \A k \in Nat, s \in Seq(Nat) : Holds(a, k, s) => Holds(a \o w, k, s)
    BY <1>5, <2>1, JoinHolds
  <2>3. 0 \in Nat /\ 6 \in Nat /\ 8 + 2 = 10
    OBVIOUS
  <2>4. Holds(a \o w, 0, e) /\ Holds(a \o w, 6, m)
    BY <1>3, <1>4, <2>1, <2>2, <2>3, Zenon
  <2>5. Len(a \o w) = 10 /\ Holds(a \o w, 8, w)
    BY <1>5, <2>1, <2>2
  <2> QED BY <2>2, <2>4, <2>5, Zenon DEF a
<1> HIDE DEF head
<1>9. ASSUME NEW b \in Seq(Nat), Holds(b, 0, head)
      PROVE  /\ Text(b, 1) = Protocol /\ b[7] = 4 /\ b[8] = ConnectFlags(r)
             /\ Number(b, 9) = r.keepAlive
  <2>0. PICK z \in Nat, six \in Nat, eight \in Nat : z = 0 /\ six = 6 /\ eight = 8
    OBVIOUS
  <2>a. Len(b) \in Nat
    OBVIOUS
  <2>1. Holds(b, z, head) /\ Holds(head, z, e) /\ Holds(head, six, m) /\ Holds(head, eight, w)
    BY <1>8, <1>9, <2>0
  <2>2. Holds(b, z + z, e)
    BY <1>3, <1>8, <2>a, <2>1, HoldsInside
  <2>3. Holds(b, z + six, m)
    BY <1>4, <1>8, <2>a, <2>1, HoldsInside
  <2>4. Holds(b, z + eight, w)
    BY <1>5, <1>8, <2>a, <2>1, HoldsInside
  <2>5. z + z = z /\ z + six = six /\ z + eight = eight
    BY <2>0
  <2>6. Text(b, z + 1) = Protocol
    BY <1>1, <1>2, <2>2, <2>5, StringHeld
  <2>7. Number(b, eight + 1) = r.keepAlive
    BY <2>4, <2>5, WordHeld DEF w
  <2>8. b[six + 1] = 4 /\ b[six + 2] = ConnectFlags(r)
    <3>1. 1 \in 1 .. Len(m) /\ 2 \in 1 .. Len(m)
      BY <1>4
    <3> QED BY <1>4, <2>3, <2>5, <3>1, Zenon DEF Holds
  <2>9. z + 1 = 1 /\ eight + 1 = 9 /\ six + 1 = 7 /\ six + 2 = 8
    BY <2>0
  <2> QED BY <2>6, <2>7, <2>8, <2>9, Zenon
<1> QED BY <1>3, <1>6, <1>8, <1>9, Zenon DEF e

ConnectRead(b, t, w, flags, c, hasWill, u, p) ==
  [protocol |-> Text(b, 1), level |-> b[7], clean |-> c, keepAlive |-> Number(b, 9),
   clientId |-> t[1],
   will |-> IF hasWill THEN [topic |-> t[2], payload |-> t[3], qos |-> (flags \div 8) % 4,
                             retain |-> Bit(flags, 32)] ELSE None,
   username |-> IF u THEN t[w + 1] ELSE None, password |-> IF p THEN t[Len(t)] ELSE None]

ConnectFields(b, t, n, flags, c, w, u, p) ==
  /\ b[8] = flags /\ n = 1 + When(w, 2) /\ Texts(b, 11, n + When(u, 1) + When(p, 1)) = t
  /\ Bit(flags, 2) = c /\ Bit(flags, 4) = w /\ Bit(flags, 128) = u /\ Bit(flags, 64) = p

LEMMA ConnectMeans ==
  ASSUME NEW b, NEW flags, NEW c, NEW w, NEW u, NEW p, NEW t, NEW n,
         ConnectFields(b, t, n, flags, c, w, u, p)
  PROVE  ConnectMeaning(b) = ConnectRead(b, t, n, flags, c, w, u, p)
<1> DEFINE f == b[8]
           m == 1 + When(Bit(f, 4), 2)
           ts == Texts(b, 11, m + When(Bit(f, 128), 1) + When(Bit(f, 64), 1))
<1>0. /\ b[8] = flags /\ n = 1 + When(w, 2) /\ Texts(b, 11, n + When(u, 1) + When(p, 1)) = t
      /\ Bit(flags, 2) = c /\ Bit(flags, 4) = w /\ Bit(flags, 128) = u /\ Bit(flags, 64) = p
  BY Zenon DEF ConnectFields
<1>1. ConnectMeaning(b)
        = ConnectRead(b, ts, m, f, Bit(f, 2), Bit(f, 4), Bit(f, 128), Bit(f, 64))
  BY Zenon DEF ConnectMeaning, ConnectRead
<1> HIDE DEF f
<1>2. f = flags
  BY <1>0 DEF f
<1>3. Bit(f, 2) = c /\ Bit(f, 4) = w /\ Bit(f, 128) = u /\ Bit(f, 64) = p
  BY <1>0, <1>2, Zenon
<1>4. m = n
  BY <1>0, <1>3, Zenon
<1> HIDE DEF m
<1>5. ts = t
  BY <1>0, <1>3, <1>4, Zenon
<1> HIDE DEF ts
<1> QED BY <1>1, <1>2, <1>3, <1>4, <1>5, Zenon

LEMMA SaysConnect ==
  ASSUME NEW r \in Connects, MaxString >= 4, Remaining(r) < Radix4, NEW d \in BOOLEAN, ~d
  PROVE  Says(r, d)
<1> DEFINE will == r.will.topic # None
           flags == ConnectFlags(r)
           head == ConnectHead(r)
           i == encodeString(r.clientId)
           w == WillBytes(r)
           u == Optional(r.username)
           p == Optional(r.password)
           b1 == head \o i
           b2 == b1 \o w
           b3 == b2 \o u
           b == b3 \o p
<1>1. /\ r.type = CONNECT /\ r.keepAlive \in Nat /\ r.clientId \in Strings
      /\ r.will \in Wills /\ r.username \in Strings \cup {None}
      /\ r.password \in Strings \cup {None} /\ r.clean \in BOOLEAN
      /\ r.will.qos \in 0 .. 2 /\ r.will.retain \in BOOLEAN
  BY DEF Connects, Wills
<1>2. /\ flags \in Nat /\ Bit(flags, 2) = r.clean /\ Bit(flags, 4) = will
      /\ Bit(flags, 64) = (r.password # None) /\ Bit(flags, 128) = (r.username # None)
      /\ will => (flags \div 8) % 4 = r.will.qos /\ Bit(flags, 32) = r.will.retain
  <2> DEFINE us == r.username # None
             pa == r.password # None
  <2>1. will \in BOOLEAN /\ us \in BOOLEAN /\ pa \in BOOLEAN
    OBVIOUS
  <2>2. FlagsAre(flags, r.clean, will, r.will.retain, us, pa, r.will.qos)
    BY Zenon DEF ConnectFlags, FlagsAre
  <2> HIDE DEF flags, will, us, pa
  <2>3. BitsSay(flags, r.clean, will, r.will.retain, us, pa, r.will.qos)
    BY <1>1, <2>1, <2>2, ConnectBits
  <2> QED BY <2>3, Zenon DEF BitsSay, us, pa
<1>3. head \in Seq(Nat) /\ Len(head) = 10 /\ encodeString(Protocol) \in Seq(Nat)
  BY <1>1, <1>2, HeadRead
<1>4. /\ i = Spelled(r.clientId) /\ r.clientId \in Seq(Nat) /\ i \in Seq(Nat)
      /\ u \in Seq(Nat) /\ p \in Seq(Nat)
  BY <1>1, StringWritten, OptionalSized DEF Sized
<1> HIDE DEF flags, head, i, w, u, p
<1>5. PICK t1 : Headed(b1, head, t1) /\ Len(t1) = 1 /\ t1[1] = r.clientId
  <2> DEFINE none == <<>>
             one == Append(none, r.clientId)
  <2>1. Headed(head, head, none)
    BY <1>3, HeadedNone
  <2> HIDE DEF none
  <2>2. Headed(head \o Spelled(r.clientId), head, one)
    BY <1>3, <1>4, <2>1, HeadedMore
  <2>3. Len(one) = 1 /\ one[1] = r.clientId
    BY DEF none
  <2> HIDE DEF one
  <2> QED BY <1>4, <2>2, <2>3
<1> HIDE DEF b1
<1>6. PICK t2 : /\ Headed(b2, head, t2) /\ Longer(t2, t1, When(will, 2))
                /\ will => /\ t2[Len(t1) + 1] = r.will.topic
                           /\ t2[Len(t1) + 2] = SubSeq(r.will.payload, 1, WillLength(r))
  <2>1. r.will \in Wills /\ head \in Seq(Nat) /\ Headed(b1, head, t1)
    BY <1>1, <1>3, <1>5
  <2>2. \E ts : WillIn(b1, head, t1, r, ts)
    BY <2>1, HeadedWill
  <2> QED BY <2>2, Zenon DEF WillIn, w, will
<1>7. w \in Seq(Nat)
  <2>1. r.will \in Wills /\ head \in Seq(Nat) /\ Headed(b1, head, t1)
    BY <1>1, <1>3, <1>5
  <2> QED BY <2>1, HeadedWill DEF w
<1> HIDE DEF b2
<1>8. PICK t3 : /\ Headed(b3, head, t3) /\ Longer(t3, t2, When(r.username # None, 1))
                /\ r.username # None => t3[Len(t3)] = r.username
  <2>1. r.username \in Strings \cup {None} /\ head \in Seq(Nat) /\ Headed(b2, head, t2)
    BY <1>1, <1>3, <1>6
  <2>2. PICK ts : OptionIn(b2, head, t2, r.username, ts)
    BY <2>1, HeadedOptional
  <2> QED BY <2>2, Zenon DEF OptionIn, u
<1> HIDE DEF b3
<1>9. PICK t : /\ Headed(b, head, t) /\ Longer(t, t3, When(r.password # None, 1))
               /\ r.password # None => t[Len(t)] = r.password
  <2>1. r.password \in Strings \cup {None} /\ head \in Seq(Nat) /\ Headed(b3, head, t3)
    BY <1>1, <1>3, <1>8
  <2>2. PICK ts : OptionIn(b3, head, t3, r.password, ts)
    BY <2>1, HeadedOptional
  <2> QED BY <2>2, Zenon DEF OptionIn, p
<1> HIDE DEF b
<1> DEFINE n == 1 + When(will, 2)
<1>10. /\ Len(t) = n + When(r.username # None, 1) + When(r.password # None, 1)
       /\ t[1] = r.clientId
       /\ will => t[2] = r.will.topic /\ t[3] = SubSeq(r.will.payload, 1, WillLength(r))
       /\ r.username # None => t[n + 1] = r.username
  <2>1. PICK x \in {0, 2} : x = When(will, 2) /\ (will => x = 2)
    BY DEF When
  <2>2. PICK y \in {0, 1} : y = When(r.username # None, 1) /\ (r.username # None => y = 1)
    BY DEF When
  <2>3. PICK z \in {0, 1} : z = When(r.password # None, 1)
    BY DEF When
  <2>4. Len(t2) = 1 + x /\ \A k \in 1 .. 1 : t2[k] = t1[k]
    BY <1>5, <1>6, <2>1 DEF Longer
  <2>5. Len(t3) = 1 + x + y /\ \A k \in 1 .. 1 + x : t3[k] = t2[k]
    BY <1>8, <2>2, <2>4 DEF Longer
  <2>6. Len(t) = 1 + x + y + z /\ \A k \in 1 .. 1 + x + y : t[k] = t3[k]
    BY <1>9, <2>3, <2>5 DEF Longer
  <2>7. t[1] = r.clientId
    <3>1. 1 \in 1 .. 1 /\ 1 \in 1 .. 1 + x /\ 1 \in 1 .. 1 + x + y
      BY <2>1, <2>2
    <3> QED BY <1>5, <2>4, <2>5, <2>6, <3>1, Zenon
  <2>8. ASSUME will PROVE t[2] = r.will.topic /\ t[3] = SubSeq(r.will.payload, 1, WillLength(r))
    <3>1. /\ 2 \in 1 .. 1 + x /\ 2 \in 1 .. 1 + x + y
          /\ 3 \in 1 .. 1 + x /\ 3 \in 1 .. 1 + x + y
      BY <2>1, <2>2, <2>8
    <3>2. Len(t1) + 1 = 2 /\ Len(t1) + 2 = 3
      BY <1>5
    <3>3. t2[2] = r.will.topic /\ t2[3] = SubSeq(r.will.payload, 1, WillLength(r))
      BY <1>6, <2>8, <3>2, Zenon
    <3> QED BY <2>5, <2>6, <3>1, <3>3, Zenon
  <2>9. ASSUME r.username # None PROVE t[n + 1] = r.username
    <3>1. n + 1 = Len(t3) /\ n + 1 \in 1 .. 1 + x + y
      BY <2>1, <2>2, <2>5, <2>9
    <3> HIDE DEF n
    <3>2. t[n + 1] = t3[n + 1]
      BY <2>6, <3>1, Zenon
    <3> QED BY <1>8, <2>9, <3>1, <3>2, Zenon
  <2>10. Len(t) = n + y + z
    BY <2>1, <2>6
  <2> QED BY <2>2, <2>3, <2>7, <2>8, <2>9, <2>10, Zenon
<1>11. /\ b \in Seq(Nat) /\ Text(b, 1) = Protocol /\ b[7] = 4 /\ b[8] = flags
       /\ Number(b, 9) = r.keepAlive
  <2>1. b \in Seq(Nat) /\ Holds(b, 0, head)
    BY <1>9 DEF Headed
  <2> QED BY <1>1, <1>2, <2>1, HeadRead DEF head, flags
<1>12. Texts(b, 11, Len(t)) = t
  BY <1>3, <1>9, HeadedRead
<1>13. MeaningOf(16, 0, b) = Intended(r, d)
  <2>1. MeaningOf(16, 0, b) = ConnectMeaning(b)
    BY DEF MeaningOf
  <2>2. Texts(b, 11, n + When(r.username # None, 1) + When(r.password # None, 1)) = t
    BY <1>10, <1>12
  <2> DEFINE W == IF will THEN [topic |-> t[2], payload |-> t[3], qos |-> (flags \div 8) % 4,
                                retain |-> Bit(flags, 32)] ELSE None
             U == IF r.username # None THEN t[n + 1] ELSE None
             P == IF r.password # None THEN t[Len(t)] ELSE None
             R(wi, us, pa) ==
               [protocol |-> Protocol, level |-> 4, clean |-> r.clean,
                keepAlive |-> r.keepAlive, clientId |-> r.clientId, will |-> wi,
                username |-> us, password |-> pa]
             M == IF r.will.topic = None THEN None
                  ELSE [topic |-> r.will.topic,
                        payload |-> SubSeq(r.will.payload, 1, WillLength(r)),
                        qos |-> r.will.qos, retain |-> r.will.retain]
  <2>3. ConnectMeaning(b) = R(W, U, P)
    <3>1. n = 1 + When(will, 2)
      OBVIOUS
    <3> HIDE DEF n, will
    <3> DEFINE us == r.username # None
               pa == r.password # None
    <3>2. ConnectMeaning(b) = ConnectRead(b, t, n, flags, r.clean, will, us, pa)
      <4>1. /\ b[8] = flags /\ Bit(flags, 2) = r.clean /\ Bit(flags, 4) = will
            /\ Bit(flags, 128) = us /\ Bit(flags, 64) = pa
        BY <1>2, <1>11, Zenon
      <4>2. Texts(b, 11, n + When(us, 1) + When(pa, 1)) = t
        BY <2>2, Zenon
      <4> HIDE DEF us, pa
      <4>3. ConnectFields(b, t, n, flags, r.clean, will, us, pa)
        BY <3>1, <4>1, <4>2, Zenon DEF ConnectFields
      <4> QED BY <4>3, ConnectMeans
    <3> QED BY <1>10, <1>11, <3>2, Zenon DEF ConnectRead
  <2>4. Intended(r, d) = R(M, r.username, r.password)
    BY <1>1 DEF Intended, CONNECT, PUBLISH, SUBSCRIBE, UNSUBSCRIBE, PUBACK, PUBREC, PUBREL,
        PUBCOMP, PINGREQ, DISCONNECT
  <2>5. W = M
    BY <1>2, <1>10, Zenon
  <2>6. U = r.username /\ P = r.password
    BY <1>9, <1>10, Zenon
  <2> HIDE DEF W, U, P, M
  <2> QED BY <2>1, <2>3, <2>4, <2>5, <2>6, Zenon
<1>14. Remaining(r) \in 0 .. Radix4 - 1 /\ Sized(Written(r), ToWrite(r))
  <2>1. Radix4 \in Nat
    BY RadixAssumption DEF Radix2, Radix3, Radix4
  <2>2. Remaining(r) \in Nat /\ Sized(Written(r), ToWrite(r))
    BY ConnectSized
  <2> QED BY <2>1, <2>2
<1>15. PICK first \in Nat : first = CONNECT
  BY DEF CONNECT
<1> DEFINE F == Fixed(first, r)
<1>16. Written(r) = F \o b
  <2> DEFINE e == encodeString(Protocol)
             m == <<4, ConnectFlags(r)>>
             k == Word(r.keepAlive)
  <2>1. Written(r) = ConnectBytes(r)
    BY <1>1 DEF Written, CONNECT, PUBLISH, SUBSCRIBE, UNSUBSCRIBE, PUBACK, PUBREC, PUBREL,
        PUBCOMP, PINGREQ, DISCONNECT
  <2>2. Written(r) = ((((((F \o e) \o m) \o k) \o i) \o w) \o u) \o p
    BY <1>15, <2>1, Zenon DEF ConnectBytes, WillBytes, i, w, u, p
  <2>3. F \in Seq(Nat) /\ e \in Seq(Nat) /\ m \in Seq(Nat) /\ k \in Seq(Nat)
    <3>1. m \in Seq(Nat)
      BY <1>2 DEF flags
    <3>2. F \in Seq(Nat)
      BY <1>14, FixedSized DEF Sized
    <3>3. k \in Seq(Nat)
      BY <1>1, WordSized DEF Sized
    <3> QED BY <1>3, <3>1, <3>2, <3>3
  <2>4. head = (e \o m) \o k
    BY Zenon DEF ConnectHead, head
  <2> HIDE DEF e, m, k, F
  <2>5. ((F \o e) \o m) \o k = F \o head
    <3>1. (F \o e) \o m = F \o (e \o m) /\ e \o m \in Seq(Nat)
      BY <2>3, JoinedBoth, ZenonT(30)
    <3> DEFINE em == e \o m
    <3> HIDE DEF em
    <3>2. (F \o em) \o k = F \o (em \o k)
      BY <2>3, <3>1, JoinedBehind DEF em
    <3> QED BY <2>4, <3>1, <3>2, Zenon DEF em
  <2>6. (F \o head) \o i = F \o b1 /\ b1 \in Seq(Nat)
    <3>1. F \in Seq(Nat) /\ head \in Seq(Nat) /\ i \in Seq(Nat)
      BY <2>3, <1>3, <1>4
    <3> QED BY <3>1, JoinedBoth DEF b1
  <2>7. (F \o b1) \o w = F \o b2 /\ b2 \in Seq(Nat)
    <3>1. F \in Seq(Nat) /\ b1 \in Seq(Nat) /\ w \in Seq(Nat)
      BY <2>3, <1>7, <2>6
    <3> QED BY <3>1, JoinedBoth DEF b2
  <2>8. (F \o b2) \o u = F \o b3 /\ b3 \in Seq(Nat)
    <3>1. F \in Seq(Nat) /\ b2 \in Seq(Nat) /\ u \in Seq(Nat)
      BY <2>3, <1>4, <2>7
    <3> QED BY <3>1, JoinedBoth DEF b3
  <2>9. (F \o b3) \o p = F \o b /\ b \in Seq(Nat)
    <3>1. F \in Seq(Nat) /\ b3 \in Seq(Nat) /\ p \in Seq(Nat)
      BY <2>3, <1>4, <2>8
    <3> QED BY <3>1, JoinedBoth DEF b
  <2> QED BY <2>2, <2>5, <2>6, <2>7, <2>8, <2>9, Zenon
<1>17. Len(b) = Remaining(r) /\ Whole(r) = F \o b
  <2>1. r.type # PUBLISH
    BY <1>1 DEF CONNECT, PUBLISH
  <2> QED BY <1>11, <1>14, <1>16, <2>1, BodySized
<1>18. first = first + When(d, 8) /\ 16 * (first \div 16) = 16 /\ first % 16 = 0
  BY <1>15 DEF CONNECT, When
<1>19. MeaningOf(16 * (first \div 16), first % 16, b) = Intended(r, d)
  BY <1>13, <1>18, Zenon
<1> QED BY <1>11, <1>14, <1>17, <1>18, <1>19, WholeRead

\* Whatever an application asks for, its packet says it, and only a PUBLISH says that it
\* was sent before.
LEMMA SaysAll ==
  ASSUME NEW r \in Proper, MaxString >= 4, NEW d \in BOOLEAN, d => r.type = PUBLISH
  PROVE  Says(r, d)
<1>1. Remaining(r) < Radix4
  BY DEF Proper
<1>2. CASE r \in Publishes
  <2>1. Remaining(r) \in Nat /\ Radix4 \in Nat
    BY <1>1, <1>2, PublishSized, RadixAssumption DEF Radix2, Radix3, Radix4
  <2>2. Remaining(r) \in 0 .. Radix4 - 1
    BY <1>1, <2>1
  <2> QED BY <1>2, <2>2, SaysPublish
<1>3. CASE r \notin Publishes
  <2>1. r \in Connects \cup Subscribes \cup Unsubscribes \cup Acks \cup Bares
    BY <1>3 DEF Proper
  <2>2. ~d
    <3>1. r.type # PUBLISH
      BY <2>1 DEF Connects, Subscribes, Unsubscribes, Acks, Bares, CONNECT, PUBLISH,
          SUBSCRIBE, UNSUBSCRIBE, PUBACK, PUBREC, PUBREL, PUBCOMP, PINGREQ, DISCONNECT
    <3> QED BY <3>1
  <2>3. CASE r \in Acks \cup Bares
    <3>1. Remaining(r) \in Nat /\ Radix4 \in Nat
      BY <1>1, <2>3, ShortSized, RadixAssumption DEF Radix2, Radix3, Radix4
    <3>2. Remaining(r) \in 0 .. Radix4 - 1
      BY <1>1, <3>1
    <3> QED BY <2>2, <2>3, <3>2, SaysShort
  <2>4. CASE r \in Connects
    BY <1>1, <2>2, <2>4, SaysConnect
  <2>5. CASE r \in Subscribes
    BY <1>1, <2>2, <2>5, SaysSubscribe
  <2>6. CASE r \in Unsubscribes
    BY <1>1, <2>2, <2>6, SaysUnsubscribe
  <2> QED BY <2>1, <2>3, <2>4, <2>5, <2>6
<1> QED BY <1>2, <1>3

-----------------------------------------------------------------------------
(* What is on the wire *)

\* The packet as it should be written, and again when it was sent before.
Image == MarkedAs(Whole(req), dup)

\* The header, or the packet, lies at the beginning of the memory.
BeginningIs == \A i \in 1 .. Header : data[i] = Image[i]

\* Behind it lies the chunk that was fetched.
ChunkIs ==
  \A i \in 1 .. payloadEndIndex - payloadStartIndex + 1 :
    data[payloadIndex + i] = req.payload[payloadStartIndex - payloadIndex + i]

\* What the socket took so far.
WireIs ==
  /\ wire \in Seq(Nat) /\ Len(wire) = bytesSent
  /\ \A i \in 1 .. bytesSent : wire[i] = Image[i]

WireInv ==
  /\ dup \in BOOLEAN /\ (dup => req.type = PUBLISH)
  /\ pc = "new" => dup = FALSE /\ wire = <<>>
  /\ pc \in {"available", "write", "sent", "kept"} => BeginningIs
  /\ pc \in {"available", "write", "sent"} => WireIs
  /\ pc \in {"available", "write"} /\ Chunked /\ (pc = "write" \/ bytesSent >= payloadIndex)
       => ChunkIs
  /\ pc = "sent" => bytesSent = size

LEMMA WholeIs ==
  ASSUME NEW r \in Proper, MaxString >= 4
  PROVE  LET chunked == r.type = PUBLISH /\ r.chunked
             n == Len(Written(r))
         IN  /\ Whole(r) \in Seq(Nat) /\ \A i \in 1 .. n : Whole(r)[i] = Written(r)[i]
             /\ chunked => /\ Len(Whole(r)) = n + Len(r.payload)
                           /\ \A i \in 1 .. Len(r.payload) : Whole(r)[n + i] = r.payload[i]
             /\ ~chunked => Len(Whole(r)) = n
<1> DEFINE chunked == r.type = PUBLISH /\ r.chunked
           b == Written(r)
           n == Len(b)
           W == Whole(r)
           p == r.payload
<1>1. b \in Seq(Nat) /\ (chunked => p \in Seq(Nat))
  BY FillsReserved
<1>2. CASE chunked
  <2>1. W = b \o p
    BY <1>2, Zenon DEF Whole
  <2>2. p \in Seq(Nat)
    BY <1>1, <1>2
  <2> HIDE DEF chunked, b, W, p
  <2>3. /\ b \o p \in Seq(Nat) /\ Len(b \o p) = Len(b) + Len(p)
        /\ Holds(b \o p, 0, b) /\ Holds(b \o p, Len(b), p)
    BY <1>1, <2>2, JoinHolds
  <2>4. \A i \in 1 .. n : W[i] = b[i]
    <3> SUFFICES ASSUME NEW i \in 1 .. n PROVE W[i] = b[i]
      OBVIOUS
    <3>1. 0 + i = i
      BY <1>1
    <3> QED BY <2>1, <2>3, <3>1 DEF Holds
  <2>5. \A i \in 1 .. Len(p) : W[n + i] = p[i]
    BY <2>1, <2>3 DEF Holds
  <2> QED BY <1>2, <2>1, <2>3, <2>4, <2>5 DEF W, b, p, chunked
<1>3. CASE ~chunked
  <2>1. W = b \o <<>>
    BY <1>3, Zenon DEF Whole
  <2> HIDE DEF b, W, p
  <2>2. W = b
    BY <1>1, <2>1, JoinNothing
  <2> QED BY <1>1, <1>3, <2>2 DEF W, b
<1> QED BY <1>2, <1>3

LEMMA MarkedIs ==
  ASSUME NEW w \in Seq(Nat), Len(w) >= 1, NEW d \in BOOLEAN
  PROVE  /\ MarkedAs(w, d) \in Seq(Nat) /\ Len(MarkedAs(w, d)) = Len(w)
         /\ MarkedAs(w, d)[1] = w[1] + When(d, 8)
         /\ \A i \in 2 .. Len(w) : MarkedAs(w, d)[i] = w[i]
<1>1. Len(w) \in Nat /\ w[1] \in Nat
  OBVIOUS
<1>2. CASE d
  <2>1. MarkedAs(w, d) = [w EXCEPT ![1] = @ + 8]
    BY <1>2, Zenon DEF MarkedAs
  <2>2. w[1] + 8 \in Nat /\ When(d, 8) = 8
    BY <1>1, <1>2 DEF When
  <2> QED BY <1>1, <2>1, <2>2
<1>3. CASE ~d
  <2>1. MarkedAs(w, d) = w /\ When(d, 8) = 0
    BY <1>3, Zenon DEF MarkedAs, When
  <2> QED BY <1>1, <2>1
<1> QED BY <1>2, <1>3

\* An image is as long as its packet and ends with its payload.
LEMMA ImageIs ==
  ASSUME Requests \subseteq Proper, MaxString >= 4, Laid, dup \in BOOLEAN
  PROVE  /\ Image \in Seq(Nat) /\ Len(Image) = size
         /\ Whole(req) \in Seq(Nat) /\ Len(Whole(req)) = size
         /\ Chunked => \A i \in 1 .. Len(req.payload) : Image[Header + i] = req.payload[i]
<1> DEFINE W == Whole(req)
<1>1. /\ req \in Proper /\ Header \in Nat /\ Header >= 2 /\ size \in Nat /\ size >= 2
      /\ Chunked => /\ req.payload \in Seq(Nat) /\ Len(req.payload) \in Nat
                    /\ size = Header + Len(req.payload)
      /\ ~Chunked => size = Header
  BY Numbers
<1>2. /\ W \in Seq(Nat)
      /\ Chunked => /\ Len(W) = Header + Len(req.payload)
                    /\ \A i \in 1 .. Len(req.payload) : W[Header + i] = req.payload[i]
      /\ ~Chunked => Len(W) = Header
  BY <1>1, WholeIs DEF Chunked, Header
<1> HIDE DEF W
<1>3. Len(W) = size
  BY <1>1, <1>2
<1>4. /\ MarkedAs(W, dup) \in Seq(Nat) /\ Len(MarkedAs(W, dup)) = size
      /\ \A i \in 2 .. size : MarkedAs(W, dup)[i] = W[i]
  <2>1. Len(W) >= 1
    BY <1>1, <1>3
  <2> QED BY <1>2, <1>3, <2>1, MarkedIs
<1>5. Image = MarkedAs(W, dup)
  BY DEF Image, W
<1>6. ASSUME Chunked, NEW i \in 1 .. Len(req.payload)
      PROVE  Image[Header + i] = req.payload[i]
  <2>1. Header + i \in 2 .. size
    BY <1>1, <1>6
  <2> QED BY <1>2, <1>4, <1>5, <1>6, <2>1
<1> QED BY <1>2, <1>3, <1>4, <1>5, <1>6, Zenon DEF W

LEMMA MakeWrites ==
  ASSUME Requests \subseteq Proper, MaxString >= 4, MemInv, WireInv, Make
  PROVE  WireInv'
<1> DEFINE w(r) == Written(r)
<1>1. PICK r \in Requests :
        /\ req' = r
        /\ data' = [k \in 1 .. Reserved(r) |-> IF k <= Len(w(r)) THEN w(r)[k] ELSE 0]
        /\ payloadIndex' = When(r.type = PUBLISH /\ r.chunked, Len(w(r)))
  BY Zenon DEF Make
<1>2. /\ pc' = "available" /\ bytesSent' = 0 /\ dup' = FALSE /\ wire' = <<>>
  BY DEF Make, MemInv, WireInv
<1> DEFINE n == Len(Written(r))
           isChunked == r.type = PUBLISH /\ r.chunked
<1>3. /\ Written(r) \in Seq(Nat) /\ n >= 2 /\ n \in Nat
      /\ isChunked => /\ Len(r.payload) \in Nat
                      /\ Reserved(r) = n + Minimum(Len(r.payload), RxBuffer)
      /\ ~isChunked => Reserved(r) = n
  BY FillsReserved
<1>4. Reserved(r) \in Nat /\ Reserved(r) >= n
  <2>1. CASE isChunked
    <3>1. Minimum(Len(r.payload), RxBuffer) \in Nat
      BY <1>3, <2>1, PacketAssumption DEF Minimum
    <3> QED BY <1>3, <2>1, <3>1
  <2>2. CASE ~isChunked
    BY <1>3, <2>2
  <2> QED BY <2>1, <2>2
<1>5. Image' = Whole(r) /\ Header' = n
  BY <1>1, <1>2, Zenon DEF Image, MarkedAs, Header
<1>6. \A i \in 1 .. n : Whole(r)[i] = Written(r)[i]
  <2>1. r \in Proper
    OBVIOUS
  <2> QED BY <2>1, WholeIs
<1>7. BeginningIs'
  <2> SUFFICES ASSUME NEW i \in 1 .. n PROVE data'[i] = Whole(r)[i]
    BY <1>5, Zenon DEF BeginningIs
  <2>1. i \in 1 .. Reserved(r) /\ i <= n
    BY <1>3, <1>4
  <2> HIDE DEF n
  <2>2. data'[i] = w(r)[i]
    BY <1>1, <2>1 DEF n
  <2> QED BY <1>6, <2>2
<1>8. WireIs'
  BY <1>2 DEF WireIs
<1>9. ~(Chunked' /\ bytesSent' >= payloadIndex')
  <2>1. ASSUME Chunked' PROVE payloadIndex' = n
    BY <1>1, <2>1 DEF Chunked, When
  <2> QED BY <1>2, <1>3, <2>1
<1> QED BY <1>2, <1>7, <1>8, <1>9 DEF WireInv

\* A chunk that is fetched to the place behind the header.
LEMMA FetchWrites ==
  ASSUME Requests \subseteq Proper, MaxString >= 4, TxBuffer <= RxBuffer,
         Laid, Window, Chunked, ~fault, NEW index \in Nat, NEW start \in Nat, NEW from \in Nat,
         index < size, start \in payloadIndex .. size - 1, from \in start .. size,
         start = IF index > payloadIndex THEN index ELSE payloadIndex,
         payloadStartIndex' = start, NEW n \in 0 .. MaxSize(from), GetPayload(n, index),
         req' = req, payloadIndex' = payloadIndex
  PROVE  /\ ChunkIs' /\ \A i \in 1 .. Header : data'[i] = data[i]
<1> DEFINE offset == IF index > payloadIndex THEN index - payloadIndex ELSE 0
<1>1. /\ data' \in Seq(Nat) /\ Len(data') = Len(data) /\ payloadEndIndex' = start + n - 1
      /\ n <= Room /\ start + n <= size
  BY FetchInside
<1>2. /\ Header \in Nat /\ Room \in Nat /\ Len(data) = Header + Room
      /\ payloadIndex = Header /\ size \in Nat /\ Len(req.payload) \in Nat
  BY Numbers
<1>3. data' = [k \in DOMAIN data |->
                 IF k - payloadIndex \in 1 .. n
                 THEN req.payload[offset + k - payloadIndex] ELSE data[k]]
  BY DEF GetPayload
<1>4. start = payloadIndex + offset /\ offset \in Nat
  BY <1>2
<1>5. n \in Nat
  BY <1>2, PacketAssumption DEF MaxSize, Minimum
<1>6. DOMAIN data = 1 .. Header + Room
  BY <1>2 DEF Laid
<1> HIDE DEF offset
<1>7. ASSUME NEW i \in 1 .. Header PROVE data'[i] = data[i]
  <2>1. i \in DOMAIN data /\ i - payloadIndex \notin 1 .. n
    BY <1>2, <1>5, <1>6
  <2> QED BY <1>3, <2>1
<1>8. ASSUME NEW i \in 1 .. n PROVE data'[payloadIndex + i] = req.payload[offset + i]
  <2> DEFINE k == payloadIndex + i
  <2>1. k \in DOMAIN data /\ k - payloadIndex = i /\ offset + k - payloadIndex = offset + i
    BY <1>1, <1>2, <1>4, <1>5, <1>6
  <2> HIDE DEF k
  <2>2. data'[k] = req.payload[offset + k - payloadIndex]
    BY <1>3, <2>1
  <2> QED BY <2>1, <2>2 DEF k
<1>9. /\ payloadEndIndex' - payloadStartIndex' + 1 = n
      /\ payloadStartIndex' - payloadIndex' = offset
  BY <1>1, <1>2, <1>4, <1>5
<1>10. ChunkIs'
  BY <1>8, <1>9 DEF ChunkIs
<1> QED BY <1>7, <1>10

LEMMA AvailableWrites ==
  ASSUME Requests \subseteq Proper, MaxString >= 4, TxBuffer <= RxBuffer, MemInv, WireInv,
         Available
  PROVE  WireInv'
<1> USE DEF chunk, memory
<1>1. /\ pc = "available" /\ pc' = "write" /\ bytesSent' = bytesSent /\ req' = req
      /\ size' = size /\ payloadIndex' = payloadIndex /\ wire' = wire /\ dup' = dup
  BY DEF Available
<1>2. Laid /\ (Chunked => Window) /\ ~fault /\ bytesSent \in Nat /\ bytesSent < size
  BY <1>1 DEF MemInv
<1>3. /\ dup \in BOOLEAN /\ (dup => req.type = PUBLISH) /\ BeginningIs /\ WireIs
      /\ Chunked /\ bytesSent >= payloadIndex => ChunkIs
  BY <1>1 DEF WireInv
<1>4. Header' = Header /\ Chunked' = Chunked /\ Image' = Image /\ WireIs' = WireIs
  BY <1>1 DEF Header, Chunked, Image, WireIs
<1>5. SUFFICES /\ Chunked => ChunkIs'
               /\ \A i \in 1 .. Header : data'[i] = data[i]
  <2>1. BeginningIs'
    BY <1>3, <1>4, <1>5 DEF BeginningIs
  <2> QED BY <1>1, <1>3, <1>4, <1>5, <2>1 DEF WireInv
<1>6. CASE ~Chunked
  BY <1>6 DEF Available
<1>7. CASE Chunked
  <2>1. Fetch(bytesSent)
    BY <1>2, <1>7 DEF Available
  <2>2. /\ Header \in Nat /\ Header >= 2 /\ size \in Nat /\ Len(req.payload) \in Nat
        /\ Len(req.payload) > 0
        /\ payloadIndex = Header /\ size = Header + Len(req.payload)
    BY <1>2, <1>7, Numbers
  <2>3. /\ payloadStartIndex \in payloadIndex .. size
        /\ payloadEndIndex \in payloadStartIndex - 1 .. size - 1
    BY <1>2, <1>7 DEF Window
  <2>4. CASE bytesSent < payloadIndex
    <3>1. size > payloadIndex /\ payloadEndIndex # 0
      BY <2>2, <2>3
    <3>2. /\ payloadStartIndex' = payloadIndex
          /\ \E n \in 0 .. MaxSize(payloadStartIndex) : GetPayload(n, bytesSent)
      BY <2>1, <2>4, <3>1 DEF Fetch
    <3>3. PICK n \in 0 .. MaxSize(payloadStartIndex) : GetPayload(n, bytesSent)
      BY <3>2
    <3>4. /\ payloadIndex \in Nat /\ payloadIndex \in payloadIndex .. size - 1
          /\ payloadStartIndex \in Nat /\ payloadStartIndex \in payloadIndex .. size
          /\ payloadIndex = IF bytesSent > payloadIndex THEN bytesSent ELSE payloadIndex
      BY <1>2, <2>2, <2>3, <2>4
    <3> QED BY <1>1, <1>2, <1>7, <3>2, <3>3, <3>4, FetchWrites
  <2>5. CASE /\ bytesSent >= payloadIndex
             /\ bytesSent > payloadEndIndex \/ payloadStartIndex > bytesSent
    <3>1. ~(bytesSent < payloadIndex)
      BY <1>2, <2>2, <2>5
    <3>2. /\ payloadStartIndex' = bytesSent
          /\ \E n \in 0 .. MaxSize(bytesSent) : GetPayload(n, bytesSent)
      BY <2>1, <2>5, <3>1 DEF Fetch
    <3>3. PICK n \in 0 .. MaxSize(bytesSent) : GetPayload(n, bytesSent)
      BY <3>2
    <3>4. /\ bytesSent \in payloadIndex .. size - 1 /\ bytesSent \in bytesSent .. size
          /\ bytesSent = IF bytesSent > payloadIndex THEN bytesSent ELSE payloadIndex
      BY <1>2, <2>2, <2>5
    <3> QED BY <1>1, <1>2, <1>7, <3>2, <3>3, <3>4, FetchWrites
  <2>6. CASE /\ bytesSent >= payloadIndex
             /\ ~(bytesSent > payloadEndIndex \/ payloadStartIndex > bytesSent)
    <3>1. ~(bytesSent < payloadIndex)
      BY <1>2, <2>2, <2>6
    <3>2. UNCHANGED <<data, fault, payloadStartIndex, payloadEndIndex>>
      BY <2>1, <2>6, <3>1 DEF Fetch
    <3> QED BY <1>1, <1>3, <1>7, <2>6, <3>2 DEF ChunkIs
  <2> QED BY <1>2, <2>2, <2>4, <2>5, <2>6
<1> QED BY <1>6, <1>7

\* The socket takes the next bytes of the image, wherever they lie.
LEMMA NextBytes ==
  ASSUME Requests \subseteq Proper, MaxString >= 4, MemInv, WireInv, pc = "write",
         NEW k \in 0 .. WantToWrite, NEW i \in 1 .. k
  PROVE  data[DataIndex(bytesSent) + i] = Image[bytesSent + i]
<1> DEFINE from == DataIndex(bytesSent)
<1>1. Laid /\ (Chunked => Window /\ Asked) /\ bytesSent \in Nat /\ bytesSent < size
  BY DEF MemInv
<1>2. dup \in BOOLEAN /\ BeginningIs /\ (Chunked => ChunkIs)
  BY DEF WireInv
<1>3. /\ k \in Nat /\ bytesSent + k <= size
      /\ Chunked => bytesSent + k <= payloadEndIndex + 1
  BY WriteTakes
<1>4. i \in Nat /\ i >= 1 /\ i <= k
  BY <1>3
<1>5. /\ Header \in Nat /\ size \in Nat
      /\ Chunked => /\ payloadIndex = Header /\ Len(req.payload) \in Nat
                    /\ size = Header + Len(req.payload)
      /\ ~Chunked => size = Header
  BY <1>1, Numbers
<1>6. Chunked => \A j \in 1 .. Len(req.payload) : Image[Header + j] = req.payload[j]
  BY <1>1, <1>2, ImageIs
<1>7. CASE bytesSent + i <= Header
  <2>1. bytesSent + i \in 1 .. Header
    BY <1>1, <1>4, <1>5, <1>7
  <2>2. from = bytesSent
    BY <1>1, <1>4, <1>5, <1>7 DEF DataIndex
  <2> QED BY <1>2, <2>1, <2>2 DEF BeginningIs
<1>8. CASE ~(bytesSent + i <= Header)
  <2>1. Chunked
    BY <1>1, <1>3, <1>4, <1>5, <1>8
  <2>2. /\ payloadStartIndex \in payloadIndex .. size
        /\ payloadEndIndex \in payloadStartIndex - 1 .. size - 1
    BY <1>1, <2>1 DEF Window
  <2>3. payloadIndex = Header
    BY <1>5, <2>1
  <2> DEFINE j == bytesSent + i - payloadStartIndex
             m == bytesSent + i - Header
  <2>4. /\ j \in 1 .. payloadEndIndex - payloadStartIndex + 1
        /\ from + i = payloadIndex + j
    <3>1. CASE bytesSent < payloadIndex
      <4>1. from = bytesSent /\ payloadStartIndex = payloadIndex
        BY <1>1, <1>5, <2>1, <2>3, <3>1 DEF DataIndex, Asked
      <4> HIDE DEF from
      <4> QED BY <1>1, <1>3, <1>4, <1>5, <1>8, <2>1, <2>2, <2>3, <4>1
    <3>2. CASE ~(bytesSent < payloadIndex)
      <4>1. /\ from = bytesSent - payloadStartIndex + payloadIndex
            /\ payloadStartIndex <= bytesSent
        BY <1>1, <1>5, <2>1, <2>3, <3>2 DEF DataIndex, Asked
      <4> HIDE DEF from
      <4> QED BY <1>1, <1>3, <1>4, <1>5, <1>8, <2>1, <2>2, <2>3, <4>1
    <3> QED BY <3>1, <3>2
  <2>5. /\ m \in 1 .. Len(req.payload) /\ payloadStartIndex - payloadIndex + j = m
        /\ Header + m = bytesSent + i
    BY <1>1, <1>3, <1>4, <1>5, <1>8, <2>1, <2>2, <2>3
  <2> HIDE DEF j, m, from
  <2>6. data[payloadIndex + j] = req.payload[payloadStartIndex - payloadIndex + j]
    BY <1>2, <2>1, <2>4 DEF ChunkIs
  <2>7. Image[Header + m] = req.payload[m]
    BY <1>6, <2>1, <2>5
  <2> QED BY <2>4, <2>5, <2>6, <2>7 DEF from
<1> QED BY <1>7, <1>8

LEMMA PartOf ==
  ASSUME NEW b \in Seq(Nat), NEW a \in Nat, NEW k \in Nat, a + k <= Len(b)
  PROVE  /\ SubSeq(b, a + 1, a + k) \in Seq(Nat) /\ Len(SubSeq(b, a + 1, a + k)) = k
         /\ \A i \in 1 .. k : SubSeq(b, a + 1, a + k)[i] = b[a + i]
<1> DEFINE p == a + 1
           q == a + k
           t == SubSeq(b, p, q)
<1>1. p \in Nat /\ q \in Nat /\ q - p + 1 = k /\ p >= 1 /\ q <= Len(b)
  OBVIOUS
<1>2. \A i \in 1 .. k : p + i - 1 = a + i
  OBVIOUS
<1> HIDE DEF p, q
<1>3. /\ t \in Seq(Nat) /\ Len(t) = IF p <= q THEN q - p + 1 ELSE 0
      /\ \A i \in 1 .. q - p + 1 : t[i] = b[p + i - 1]
  BY <1>1
<1> HIDE DEF t
<1>4. Len(t) = k
  BY <1>1, <1>3
<1>5. ASSUME NEW i \in 1 .. k PROVE t[i] = b[a + i]
  BY <1>1, <1>2, <1>3
<1> QED BY <1>3, <1>4, <1>5 DEF t, p, q

LEMMA JoinEach ==
  ASSUME NEW x \in Seq(Nat), NEW y \in Seq(Nat)
  PROVE  /\ x \o y \in Seq(Nat) /\ Len(x \o y) = Len(x) + Len(y)
         /\ \A i \in 1 .. Len(x) : (x \o y)[i] = x[i]
         /\ \A i \in 1 .. Len(y) : (x \o y)[Len(x) + i] = y[i]
  OBVIOUS

LEMMA WriteWrites ==
  ASSUME Requests \subseteq Proper, MaxString >= 4, MemInv, WireInv, Write
  PROVE  WireInv'
<1> DEFINE from == DataIndex(bytesSent)
<1>1. PICK k \in 0 .. WantToWrite :
        /\ wire' = wire \o IF fault' THEN <<>> ELSE SubSeq(data, from + 1, from + k)
        /\ bytesSent' = bytesSent + k
  BY DEF Write
<1>2. /\ pc = "write" /\ pc' = IF bytesSent' = size THEN "sent" ELSE "available"
      /\ req' = req /\ data' = data /\ size' = size /\ UNCHANGED chunk /\ dup' = dup
  BY DEF Write
<1>3. /\ payloadIndex' = payloadIndex /\ payloadStartIndex' = payloadStartIndex
      /\ payloadEndIndex' = payloadEndIndex
  BY <1>2 DEF chunk
<1>4. Laid /\ bytesSent \in Nat /\ bytesSent < size
  BY <1>2 DEF MemInv
<1>5. /\ dup \in BOOLEAN /\ (dup => req.type = PUBLISH) /\ BeginningIs /\ WireIs
      /\ Chunked => ChunkIs
  BY <1>2 DEF WireInv
<1>6. /\ Header' = Header /\ Chunked' = Chunked /\ Image' = Image
      /\ BeginningIs' = BeginningIs /\ ChunkIs' = ChunkIs
  BY <1>2, <1>3 DEF Header, Chunked, Image, BeginningIs, ChunkIs
<1>7. /\ k \in Nat /\ bytesSent + k <= size /\ from \in Nat /\ from + k <= Len(data)
  BY <1>2, WriteTakes
<1>8. ~fault'
  BY WriteInside DEF MemInv
<1>9. ASSUME NEW i \in 1 .. k PROVE data[from + i] = Image[bytesSent + i]
  BY <1>2, NextBytes
<1>10. data \in Seq(Nat) /\ Len(data) \in Nat
  BY <1>4 DEF Laid
<1> DEFINE s == SubSeq(data, from + 1, from + k)
<1>11. wire' = wire \o s
  BY <1>1, <1>8, Zenon
<1> HIDE DEF from
<1>12. s \in Seq(Nat) /\ Len(s) = k /\ \A i \in 1 .. k : s[i] = data[from + i]
  BY <1>7, <1>10, PartOf
<1> HIDE DEF s
<1>13. WireIs'
  <2>1. wire \in Seq(Nat) /\ Len(wire) = bytesSent /\ \A i \in 1 .. bytesSent : wire[i] = Image[i]
    BY <1>5 DEF WireIs
  <2>2. /\ wire' \in Seq(Nat) /\ Len(wire') = bytesSent'
        /\ \A i \in 1 .. bytesSent : wire'[i] = wire[i]
        /\ \A i \in 1 .. k : wire'[bytesSent + i] = s[i]
    <3>1. /\ wire \o s \in Seq(Nat) /\ Len(wire \o s) = Len(wire) + Len(s)
          /\ \A i \in 1 .. Len(wire) : (wire \o s)[i] = wire[i]
          /\ \A i \in 1 .. Len(s) : (wire \o s)[Len(wire) + i] = s[i]
      BY <1>12, <2>1, JoinEach, Zenon
    <3> QED BY <1>1, <1>11, <1>12, <2>1, <3>1, Zenon
  <2>3. ASSUME NEW i \in 1 .. bytesSent' PROVE wire'[i] = Image[i]
    <3>1. CASE i <= bytesSent
      <4>1. i \in 1 .. bytesSent
        BY <1>4, <3>1
      <4> QED BY <2>1, <2>2, <4>1
    <3>2. CASE ~(i <= bytesSent)
      <4>1. PICK j \in 1 .. k : i = bytesSent + j
        <5>1. i - bytesSent \in 1 .. k /\ i = bytesSent + (i - bytesSent)
          BY <1>1, <1>4, <1>7, <3>2
        <5> QED BY <5>1
      <4>2. wire'[bytesSent + j] = data[from + j]
        BY <1>12, <2>2
      <4> QED BY <1>9, <4>1, <4>2
    <3> QED BY <3>1, <3>2
  <2> QED BY <1>6, <2>2, <2>3 DEF WireIs
<1>14. pc' \in {"sent", "available"} /\ (pc' = "sent" => bytesSent' = size')
  BY <1>2
<1> QED BY <1>2, <1>5, <1>6, <1>13, <1>14 DEF WireInv

LEMMA SentWrites ==
  ASSUME Requests \subseteq Proper, MaxString >= 4, MemInv, WireInv, Sent
  PROVE  WireInv'
<1>1. pc = "sent" /\ req' = req /\ pc' \in {"gone", "kept"}
  BY DEF Sent
<1>2. Laid /\ dup \in BOOLEAN /\ (dup => req.type = PUBLISH) /\ BeginningIs
  BY <1>1 DEF MemInv, WireInv
<1>3. CASE Removable(req)
  <2>1. pc' = "gone" /\ dup' = dup
    BY <1>3 DEF Sent
  <2> QED BY <1>1, <1>2, <2>1 DEF WireInv
<1>4. CASE ~Removable(req)
  <2>1. pc' = "kept" /\ SetDup /\ dup' = (req.type = PUBLISH)
    BY <1>4 DEF Sent
  <2>2. PacketId(req) # 0
    BY <1>4 DEF Removable
  <2>3. /\ Whole(req) \in Seq(Nat) /\ Len(Whole(req)) = size /\ Header \in Nat /\ Header >= 2
        /\ Header <= size /\ size \in Nat /\ size >= 2 /\ data \in Seq(Nat)
        /\ Header <= Len(data) /\ Len(data) \in Nat
    <3>1. Whole(req) \in Seq(Nat) /\ Len(Whole(req)) = size
      BY <1>2, ImageIs
    <3>2. /\ Header \in Nat /\ Header >= 2 /\ size \in Nat /\ size >= 2
          /\ Chunked => /\ Len(req.payload) \in Nat /\ size = Header + Len(req.payload)
                        /\ Room \in Nat /\ Len(data) = Header + Room
          /\ ~Chunked => size = Header /\ Len(data) = Header
      BY <1>2, Numbers
    <3>3. data \in Seq(Nat) /\ Len(data) \in Nat
      BY <1>2 DEF Laid
    <3>4. Header <= size /\ Header <= Len(data)
      BY <3>2
    <3> QED BY <3>1, <3>2, <3>3, <3>4
  <2> DEFINE w == Whole(req)
  <2>4. Header' = Header /\ Image' = MarkedAs(w, dup') /\ Image = MarkedAs(w, dup)
    BY <1>1 DEF Header, Image
  <2> HIDE DEF w
  <2>5. CASE req.type = PUBLISH /\ ~dup
    <3>1. data' = [data EXCEPT ![1] = @ + 8] /\ dup' = TRUE
      BY <2>1, <2>2, <2>5 DEF SetDup
    <3>2. Image = w /\ Image' = [w EXCEPT ![1] = @ + 8]
      BY <2>4, <2>5, <3>1, Zenon DEF MarkedAs
    <3>3. \A i \in 1 .. Header : data[i] = w[i]
      BY <1>2, <3>2 DEF BeginningIs
    <3>4. /\ data'[1] = data[1] + 8 /\ \A i \in 2 .. Header : data'[i] = data[i]
      BY <2>3, <3>1
    <3>5. /\ Image'[1] = w[1] + 8 /\ \A i \in 2 .. Header : Image'[i] = w[i]
      BY <2>3, <3>2 DEF w
    <3>6. ASSUME NEW i \in 1 .. Header PROVE data'[i] = Image'[i]
      <4>1. CASE i = 1
        BY <3>3, <3>4, <3>5, <4>1
      <4>2. CASE i # 1
        <5>1. i \in 2 .. Header
          BY <2>3, <4>2
        <5> QED BY <3>3, <3>4, <3>5, <5>1
      <4> QED BY <4>1, <4>2
    <3>7. BeginningIs'
      BY <2>4, <3>6 DEF BeginningIs
    <3> QED BY <1>1, <2>1, <2>5, <3>1, <3>7 DEF WireInv
  <2>6. CASE ~(req.type = PUBLISH /\ ~dup)
    <3>1. data' = data
      BY <2>1, <2>6 DEF SetDup
    <3>2. dup' = dup
      BY <1>2, <2>1, <2>6
    <3>3. BeginningIs'
      BY <1>2, <2>4, <3>1, <3>2 DEF BeginningIs
    <3> QED BY <1>1, <1>2, <2>1, <3>2, <3>3 DEF WireInv
  <2> QED BY <2>5, <2>6
<1> QED BY <1>3, <1>4

LEMMA RestWrites ==
  ASSUME Requests \subseteq Proper, MaxString >= 4, MemInv, WireInv,
         MakeFails \/ Retransmit \/ ConnectionLost \/ Answered \/ UNCHANGED vars
  PROVE  WireInv'
<1>1. /\ req' = req /\ data' = data /\ size' = size /\ dup' = dup
      /\ payloadIndex' = payloadIndex /\ payloadStartIndex' = payloadStartIndex
      /\ payloadEndIndex' = payloadEndIndex
  BY DEF MakeFails, Retransmit, ConnectionLost, Answered, vars, memory, chunk
<1>2. /\ BeginningIs' = BeginningIs /\ ChunkIs' = ChunkIs /\ Chunked' = Chunked
      /\ Image' = Image
  BY <1>1 DEF BeginningIs, ChunkIs, Chunked, Image, Header
<1>3. dup \in BOOLEAN /\ (dup => req.type = PUBLISH)
  BY DEF WireInv
<1>4. CASE MakeFails \/ Answered
  <2>1. pc' = "gone"
    BY <1>4 DEF MakeFails, Answered
  <2> QED BY <1>1, <1>3, <2>1 DEF WireInv
<1>5. CASE Retransmit \/ ConnectionLost
  <2>1. /\ pc \in {"available", "kept"} /\ bytesSent' = 0 /\ wire' = <<>>
        /\ pc' \in {"available", "gone"}
    BY <1>5 DEF Retransmit, ConnectionLost, Again
  <2>2. BeginningIs /\ Laid
    BY <2>1 DEF WireInv, MemInv
  <2>3. WireIs'
    BY <2>1 DEF WireIs
  <2>4. Chunked => ~(bytesSent' >= payloadIndex')
    <3>1. Chunked => payloadIndex = Header /\ Header \in Nat /\ Header >= 2
      BY <2>2, Numbers
    <3> QED BY <1>1, <2>1, <3>1
  <2> QED BY <1>1, <1>2, <1>3, <2>1, <2>2, <2>3, <2>4 DEF WireInv
<1>6. CASE UNCHANGED vars
  <2>1. pc' = pc /\ bytesSent' = bytesSent /\ wire' = wire
    BY <1>6 DEF vars
  <2>2. WireIs' = WireIs
    BY <1>2, <2>1 DEF WireIs
  <2> QED BY <1>1, <1>2, <2>1, <2>2 DEF WireInv
<1> QED BY <1>4, <1>5, <1>6

\* A packet that was written as a whole, in whatever pieces, with whatever chunks of the
\* payload, for the first time or again, is one MQTT packet and says what was asked for;
\* dup is set exactly when it had been sent before (Packet.cpp:66-308, 424-452,
\* MqttClient.cpp:362-398).
THEOREM SaysWhatItShould ==
  ASSUME Requests \subseteq Proper, MaxString >= 4, TxBuffer <= RxBuffer
  PROVE  Spec => []SaysWhatWasAsked
<1> DEFINE Inv == MemInv /\ WireInv
<1>1. Init => Inv
  <2> SUFFICES ASSUME Init PROVE MemInv /\ WireInv
    OBVIOUS
  <2>1. pc = "new" /\ dup = FALSE /\ wire = <<>> /\ bytesSent = 0 /\ fault = FALSE
    BY DEF Init
  <2> QED BY <2>1 DEF MemInv, WireInv
<1>2. Inv /\ [Next]_vars => Inv'
  <2> SUFFICES ASSUME MemInv, WireInv, [Next]_vars PROVE MemInv' /\ WireInv'
    OBVIOUS
  <2>1. CASE Make
    BY <2>1, MakeInside, MakeWrites
  <2>2. CASE Available
    BY <2>2, AvailableInside, AvailableWrites
  <2>3. CASE Write
    BY <2>3, WriteInside, WriteWrites
  <2>4. CASE Sent
    BY <2>4, SentInside, SentWrites
  <2>5. CASE MakeFails \/ Retransmit \/ ConnectionLost \/ Answered \/ UNCHANGED vars
    BY <2>5, RestInside, RestWrites
  <2> QED BY <2>1, <2>2, <2>3, <2>4, <2>5 DEF Next
<1>3. Inv => SaysWhatWasAsked
  <2> SUFFICES ASSUME MemInv, WireInv, pc = "sent"
               PROVE  FrameLength(wire) = Len(wire) /\ Meaning(wire) = Intended(req, dup)
    BY DEF SaysWhatWasAsked
  <2>1. Laid /\ WireIs /\ bytesSent = size /\ dup \in BOOLEAN /\ (dup => req.type = PUBLISH)
    BY DEF MemInv, WireInv
  <2>2. Image \in Seq(Nat) /\ Len(Image) = size
    BY <2>1, ImageIs
  <2>3. wire = Image
    <3>1. /\ wire \in Seq(Nat) /\ Len(wire) = Len(Image)
          /\ \A i \in 1 .. Len(wire) : wire[i] = Image[i]
      BY <2>1, <2>2 DEF WireIs
    <3> QED BY <2>2, <3>1, SeqEqual
  <2>4. req \in Proper
    BY <2>1, Numbers
  <2>5. Says(req, dup)
    BY <2>1, <2>4, SaysAll
  <2> QED BY <2>3, <2>5, Zenon DEF Says, Image
<1> QED BY <1>1, <1>2, <1>3, PTL DEF Spec
=============================================================================
