------------------------------ MODULE PacketBytes ------------------------------
(****************************************************************************)
(* The bytes that the constructors of src/src/Packets/Packet.cpp write, and *)
(* the memory they reserve for them.  What a constructor is asked for is a  *)
(* record; a string is the sequence of its bytes, None a null pointer.      *)
(*                                                                          *)
(* Meaning reads a packet as a broker does (MQTT 3.1.1, chapter 3); it does *)
(* not look at the constructors.                                            *)
(****************************************************************************)
EXTENDS RemainingLength, SequencesExt

CONSTANTS MaxString,    \* 65535 in encodeString
          RxBuffer,     \* EMC_RX_BUFFER_SIZE
          None

CONNECT == 16
PUBLISH == 48
PUBACK == 64
PUBREC == 80
PUBREL == 96
PUBCOMP == 112
SUBSCRIBE == 130        \* with the reserved flags
UNSUBSCRIBE == 162
PINGREQ == 192
DISCONNECT == 224
Protocol == <<77, 81, 84, 84>>

Word(n) == <<n \div 256, n % 256>>
When(condition, n) == IF condition THEN n ELSE 0

\* A string that is too long is left out.
encodeString(s) == IF Len(s) > MaxString THEN <<>> ELSE Word(Len(s)) \o s
Optional(s) == IF s = None THEN <<>> ELSE encodeString(s)
-----------------------------------------------------------------------------
(* remainingLength, as each constructor reckons it *)

StringSize(s) == IF s = None THEN 0 ELSE 2 + Len(s)

Total(sizes) ==
  LET sum[k \in 0 .. Len(sizes)] == IF k = 0 THEN 0 ELSE sum[k - 1] + sizes[k]
  IN  sum[Len(sizes)]

\* A will without a length is a null-terminated string.
StrLen(s) == IF Contains(s, 0) THEN (CHOOSE k \in 1 .. Len(s) :
                                       s[k] = 0 /\ \A j \in 1 .. k - 1 : s[j] # 0) - 1
             ELSE Len(s)
WillLength(r) == IF r.will.payload # None /\ r.will.length = 0
                 THEN StrLen(r.will.payload) ELSE r.will.length

Remaining(r) ==
  CASE r.type = CONNECT ->
         10 + StringSize(r.clientId)
         + When(r.will.topic # None, StringSize(r.will.topic) + 2 + WillLength(r))
         + StringSize(r.username) + StringSize(r.password)
    [] r.type = PUBLISH -> StringSize(r.topic) + When(r.qos # 0, 2) + Len(r.payload)
    [] r.type = SUBSCRIBE ->
         2 + Total([k \in 1 .. Len(r.list) |-> StringSize(r.list[k].topic) + 1])
    [] r.type = UNSUBSCRIBE -> 2 + Total([k \in 1 .. Len(r.list) |-> StringSize(r.list[k])])
    [] r.type \in {PUBACK, PUBREC, PUBREL, PUBCOMP} -> 2
    [] r.type \in {PINGREQ, DISCONNECT} -> 0

Minimum(a, b) == IF a < b THEN a ELSE b

\* Mutant: nothing is reserved for a payload that will be fetched.
ReservedWithoutPayload(r) ==
  LET rem == IF r.type = PUBLISH /\ r.chunked THEN Remaining(r) - Len(r.payload)
             ELSE Remaining(r)
  IN  1 + remainingLengthLength(rem) + rem

\* _allocate(): bytes reserved.  Of a payload that will be fetched, as much as a
\* buffer holds.
Reserved(r) ==
  LET rem == IF r.type = PUBLISH /\ r.chunked
             THEN Remaining(r) - Len(r.payload) + Minimum(Len(r.payload), RxBuffer)
             ELSE Remaining(r)
  IN  1 + remainingLengthLength(rem) + rem
-----------------------------------------------------------------------------
(* What is written *)

Fixed(first, r) == <<first>> \o encodeRemainingLength[Remaining(r)]

ConnectFlags(r) ==
  When(r.clean, 2) + When(r.username # None, 128) + When(r.password # None, 64)
  + When(r.will.topic # None, 4 + When(r.will.retain, 32) + 8 * r.will.qos)

ConnectBytes(r) ==
  Fixed(CONNECT, r) \o encodeString(Protocol) \o <<4, ConnectFlags(r)>> \o Word(r.keepAlive)
  \o encodeString(r.clientId)
  \o (IF r.will.topic # None /\ r.will.payload # None
      THEN encodeString(r.will.topic) \o Word(WillLength(r))
           \o SubSeq(r.will.payload, 1, WillLength(r))
      ELSE <<>>)
  \o Optional(r.username) \o Optional(r.password)

\* _fillPublishHeader()
PublishHeader(r) ==
  Fixed(PUBLISH + When(r.retain, 1) + 2 * r.qos, r)
  \o encodeString(r.topic) \o (IF r.qos > 0 THEN Word(r.id) ELSE <<>>)

SubscribeBytes(r) ==
  Fixed(SUBSCRIBE, r) \o Word(r.id)
  \o FlattenSeq([k \in 1 .. Len(r.list) |->
                   encodeString(r.list[k].topic) \o <<r.list[k].qos>>])

UnsubscribeBytes(r) ==
  Fixed(UNSUBSCRIBE, r) \o Word(r.id)
  \o FlattenSeq([k \in 1 .. Len(r.list) |-> encodeString(r.list[k])])

Written(r) ==
  CASE r.type = CONNECT -> ConnectBytes(r)
    [] r.type = PUBLISH -> PublishHeader(r) \o (IF r.chunked THEN <<>> ELSE r.payload)
    [] r.type = SUBSCRIBE -> SubscribeBytes(r)
    [] r.type = UNSUBSCRIBE -> UnsubscribeBytes(r)
    [] r.type \in {PUBACK, PUBREC, PUBREL, PUBCOMP} ->
         Fixed(r.type + When(r.type = PUBREL, 2), r) \o Word(r.id)
    [] r.type \in {PINGREQ, DISCONNECT} -> Fixed(r.type, r)

\* packetId(): 0 for QoS 0 and packets without
PacketId(r) == IF r.type \in {CONNECT, PINGREQ, DISCONNECT} THEN 0
               ELSE IF r.type = PUBLISH /\ r.qos = 0 THEN 0 ELSE r.id

\* removable()
Removable(r) == PacketId(r) = 0 \/ r.type \in {PUBACK, PUBCOMP}
-----------------------------------------------------------------------------
(* How a broker reads a packet *)

Number(b, at) == 256 * b[at] + b[at + 1]
Text(b, at) == SubSeq(b, at + 2, at + 1 + Number(b, at))
Behind(b, at) == at + 2 + Number(b, at)
Bit(flags, value) == (flags \div value) % 2 = 1

\* n strings, one behind the other, from a position on.
Texts(b, from, n) ==
  LET at[k \in 1 .. n] == IF k = 1 THEN from ELSE Behind(b, at[k - 1])
  IN  [k \in 1 .. n |-> Text(b, at[k])]

\* Positions at which the items of a list begin, an item being a string and some
\* more bytes, up to the end of the packet.
Items(b, more) ==
  LET begin[k \in 0 .. Len(b)] ==
        IF k = 0 THEN 3
        ELSE IF begin[k - 1] \in 1 .. Len(b) - 1 THEN Behind(b, begin[k - 1]) + more ELSE 0
      count == CHOOSE k \in 0 .. Len(b) : begin[k] = Len(b) + 1
  IN  [k \in 1 .. count |-> begin[k - 1]]

ConnectMeaning(b) ==
  LET flags == b[8]
      will == Bit(flags, 4)
      t == Texts(b, 11, 1 + When(will, 2) + When(Bit(flags, 128), 1) + When(Bit(flags, 64), 1))
      w == 1 + When(will, 2)
  IN  [protocol |-> Text(b, 1), level |-> b[7], clean |-> Bit(flags, 2),
       keepAlive |-> Number(b, 9), clientId |-> t[1],
       will |-> IF will THEN [topic |-> t[2], payload |-> t[3], qos |-> (flags \div 8) % 4,
                              retain |-> Bit(flags, 32)] ELSE None,
       username |-> IF Bit(flags, 128) THEN t[w + 1] ELSE None,
       password |-> IF Bit(flags, 64) THEN t[Len(t)] ELSE None]

PublishMeaning(flags, b) ==
  LET qos == (flags \div 2) % 4
      from == Behind(b, 1) + When(qos > 0, 2)
  IN  [topic |-> Text(b, 1), qos |-> qos, retain |-> Bit(flags, 1), dup |-> Bit(flags, 8),
       id |-> IF qos > 0 THEN Number(b, Behind(b, 1)) ELSE 0,
       payload |-> SubSeq(b, from, Len(b))]

\* The length of a packet, and what it says.
LengthOf(bytes) == decodeRemainingLength(SubSeq(bytes, 2, Len(bytes)) \o <<0, 0, 0, 0>>)

FrameLength(bytes) ==
  LET rem == LengthOf(bytes) IN 1 + remainingLengthLength(rem) + rem

MeaningOf(type, flags, b) ==
  CASE type = 16 -> ConnectMeaning(b)
    [] type = 48 -> PublishMeaning(flags, b)
    [] type = 128 -> [id |-> Number(b, 1), flags |-> flags,
                      list |-> [k \in 1 .. Len(Items(b, 1)) |->
                        [topic |-> Text(b, Items(b, 1)[k]), qos |-> b[Behind(b, Items(b, 1)[k])]]]]
    [] type = 160 -> [id |-> Number(b, 1), flags |-> flags,
                      list |-> [k \in 1 .. Len(Items(b, 0)) |-> Text(b, Items(b, 0)[k])]]
    [] OTHER -> [type |-> type, flags |-> flags, body |-> b]

Meaning(bytes) ==
  MeaningOf(16 * (bytes[1] \div 16), bytes[1] % 16,
            SubSeq(bytes, Len(bytes) - LengthOf(bytes) + 1, Len(bytes)))

\* What the packet was to say.
Intended(r, dup) ==
  CASE r.type = CONNECT ->
         [protocol |-> Protocol, level |-> 4, clean |-> r.clean, keepAlive |-> r.keepAlive,
          clientId |-> r.clientId,
          will |-> IF r.will.topic = None THEN None
                   ELSE [topic |-> r.will.topic,
                         payload |-> SubSeq(r.will.payload, 1, WillLength(r)),
                         qos |-> r.will.qos, retain |-> r.will.retain],
          username |-> r.username, password |-> r.password]
    [] r.type = PUBLISH ->
         [topic |-> r.topic, qos |-> r.qos, retain |-> r.retain, dup |-> dup,
          id |-> PacketId(r), payload |-> r.payload]
    [] r.type \in {SUBSCRIBE, UNSUBSCRIBE} -> [id |-> r.id, flags |-> 2, list |-> r.list]
    [] r.type \in {PUBACK, PUBREC, PUBREL, PUBCOMP} ->
         [type |-> r.type, flags |-> When(r.type = PUBREL, 2), body |-> Word(r.id)]
    [] OTHER -> [type |-> r.type, flags |-> 0, body |-> <<>>]
=============================================================================
