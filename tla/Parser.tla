-------------------------------- MODULE Parser --------------------------------
(****************************************************************************)
(* The parser of incoming packets (src/src/Packets/Parser.cpp) and the part *)
(* of MqttClient that feeds it: bytes arrive in pieces of any length, and   *)
(* each function of the parser takes one byte of the receive buffer, that   *)
(* of the payload all there is.  On a new connection the parser is reset.   *)
(*                                                                          *)
(* What the broker sends is a sequence of packets, at the end perhaps one   *)
(* that is no MQTT packet.  The lengths in headers are digits to the base   *)
(* Radix, so that short packets have lengths of several bytes.              *)
(****************************************************************************)
EXTENDS RemainingLength, SequencesExt

CONSTANTS Sent,            \* sequences of packets that a broker may send
          MaxTopic,        \* EMC_MAX_TOPIC_LENGTH
          PayloadBuffer,   \* EMC_PAYLOAD_BUFFER_SIZE
          RxBuffer,        \* EMC_RX_BUFFER_SIZE
          SizeWidth,       \* the number of values of size_t
          Connections      \* how many there are

ASSUME SizeAssumption ==
  {MaxTopic, PayloadBuffer, RxBuffer, SizeWidth, Connections} \subseteq Nat \ {0}

VARIABLES sent,      \* packets of this connection
          stream,    \* and their bytes
          pos,       \* bytes parsed
          avail,     \* end of the receive buffer
          fn,        \* _parse
          bytePos,   \* _bytePos
          pk,        \* _packet
          got,       \* what the client was given
          error,     \* the parser reported a protocol error
          conns      \* connections still to come

buffer == <<sent, stream, avail, conns>>
vars == <<sent, stream, pos, avail, fn, bytePos, pk, got, error, conns>>

CONNACK == 2
PUBLISH == 3
PUBACK == 4
PUBREC == 5
PUBREL == 6
PUBCOMP == 7
SUBACK == 9
UNSUBACK == 11
PINGRESP == 13

\* The reserved flags of a type.
Reserved(type) == IF type = PUBREL THEN 2 ELSE 0
Acks == {PUBACK, PUBREC, PUBREL, PUBCOMP, UNSUBACK}
HasId(flags) == (flags \div 2) % 4 # 0

\* Lengths are unsigned: below zero they come round.
SizeT(n) == n % SizeWidth
-----------------------------------------------------------------------------
(* The packets of a broker and their bytes *)

Connack(session, code) == [type |-> CONNACK, session |-> session, code |-> code]
Ack(type, id) == [type |-> type, id |-> id]
Suback(id, codes) == [type |-> SUBACK, id |-> id, codes |-> codes]
Pingresp == [type |-> PINGRESP]
Publish(flags, topic, id, payload, total) ==
  [type |-> PUBLISH, flags |-> flags, topic |-> topic, id |-> id,
   payload |-> payload, total |-> total]

\* The beginning of a packet, then a byte that cannot stand there, and what follows.
Nonsense(p, at, byte, rest) ==
  [type |-> 0, of |-> p, at |-> at, byte |-> byte, rest |-> rest]

Word(n) == <<n \div 256, n % 256>>
Framed(type, flags, body) ==
  <<16 * type + flags>> \o encodeRemainingLength[Len(body)] \o body

Body(p) ==
  CASE p.type = CONNACK  -> <<p.session, p.code>>
    [] p.type \in Acks   -> Word(p.id)
    [] p.type = SUBACK   -> Word(p.id) \o p.codes
    [] p.type = PINGRESP -> <<>>
    [] p.type = PUBLISH  ->
         Word(Len(p.topic)) \o p.topic
         \o (IF HasId(p.flags) THEN Word(p.id) ELSE <<>>) \o p.payload

FlagsOf(p) == IF p.type = PUBLISH THEN p.flags ELSE Reserved(p.type)

Whole(p) == Framed(p.type, FlagsOf(p), Body(p))
Bytes(p) ==
  IF p.type = 0 THEN SubSeq(Whole(p.of), 1, p.at) \o <<p.byte>> \o p.rest ELSE Whole(p)

\* The bytes of the first packets, for each number of them.
StreamedFirst(packets) ==
  LET s[k \in 0 .. Len(packets)] == IF k = 0 THEN <<>> ELSE s[k - 1] \o Bytes(packets[k])
  IN  s

Streamed(packets) == StreamedFirst(packets)[Len(packets)]

\* The packets that a server may send, as far as the buffers take them.
Octet == 0 .. 255
PacketIds == 1 .. 256 * 256 - 1
Connacks == [type : {CONNACK}, session : 0 .. 1, code : 0 .. 5]
IdAcks == [type : Acks, id : PacketIds]
Subacks == [type : {SUBACK}, id : PacketIds, codes : Seq({0, 1, 2, 128})]
Publishes ==
  [type : {PUBLISH}, flags : (0 .. 5) \cup (10 .. 13), topic : Seq(Octet),
   id : PacketIds \cup {0}, payload : Seq(Octet), total : Nat]

Fits(p) ==
  /\ Len(Body(p)) < Radix4
  /\ p.type = SUBACK => Len(p.codes) \in 1 .. PayloadBuffer - 1
  /\ p.type = PUBLISH => /\ Len(p.topic) \in 1 .. MaxTopic
                         /\ p.id # 0 <=> HasId(p.flags)
                         /\ p.total = Len(p.payload)

Packets ==
  {p \in Connacks \cup IdAcks \cup Subacks \cup Publishes \cup {Pingresp} : Fits(p)}

\* Where the body of a packet begins, and its packet id.
LengthBytes(p) == encodeRemainingLength[Len(Body(p))]
Start(p) == 1 + Len(LengthBytes(p))
IdAt(p) == Start(p) + (IF p.type = PUBLISH THEN 2 + Len(p.topic) ELSE 0)
Identified(p) == IF p.type = PUBLISH THEN HasId(p.flags) ELSE p.type \in Acks \cup {SUBACK}
IdLength(p) == IF HasId(p.flags) THEN 2 ELSE 0

ValidFlags(flags) == flags <= 5 \/ flags >= 10

\* What cannot be: a first byte, a byte of the length (SUBACKs have codes, and these fit),
\* and a byte of the body, behind the first bytes of p.
WrongHeader(byte) ==
  LET type == byte \div 16
      flags == byte % 16
  IN  IF type = PUBLISH THEN ~ValidFlags(flags)
      ELSE type \notin Acks \cup {CONNACK, SUBACK, PINGRESP} \/ flags # Reserved(type)

WrongLength(p, at, byte) ==
  \/ at = 1 /\ p.type \in Acks \cup {CONNACK} /\ byte # 2
  \/ at = 1 /\ p.type = PINGRESP /\ byte # 0
  \/ at = 4 /\ p.type \in {SUBACK, PUBLISH} /\ at < Start(p) /\ Continues(byte)
  \/ /\ p.type = SUBACK /\ at \in 1 .. Start(p) - 1 /\ ~Continues(byte)
     /\ decodeRemainingLength(SubSeq(LengthBytes(p), 1, at - 1) \o <<byte, 0, 0, 0>>) - 2
          \notin 1 .. PayloadBuffer - 1

WrongBody(p, at, byte) ==
  \/ p.type = CONNACK /\ at = 2 /\ byte > 1
  \/ p.type = CONNACK /\ at = 3 /\ byte > 5
  \/ Identified(p) /\ at = IdAt(p) + 1 /\ p.id < 256 /\ byte = 0
  \/ p.type = SUBACK /\ at >= Start(p) + 2 /\ byte \notin {0, 1, 2, 128}
  \/ /\ p.type = PUBLISH /\ at = Start(p) + 1
     /\ 256 * (Len(p.topic) \div 256) + byte > Len(Body(p)) - 2 - IdLength(p)

Wrongs ==
  {w \in [type : {0}, of : Packets, at : Nat, byte : Octet, rest : Seq(Octet)] :
     /\ w.at < Len(Whole(w.of))
     /\ \/ w.at = 0 /\ WrongHeader(w.byte)
        \/ WrongLength(w.of, w.at, w.byte)
        \/ WrongBody(w.of, w.at, w.byte)}

\* Packets, and nothing after nonsense.
Said ==
  {packets \in Seq(Packets \cup Wrongs) :
     \A k \in 1 .. Len(packets) : packets[k].type = 0 => k = Len(packets)}

\* Whatever is sent, it is bytes.
ASSUME SentAssumption == \A packets \in Sent : Streamed(packets) \in Seq(Octet)
-----------------------------------------------------------------------------
(* The parser *)

\* Mutant: packetId and the payload's index and length are left.
ClearedHeaderOnly(p) == [p EXCEPT !.header = 0, !.topicLength = 0]

\* IncomingPacket::reset()
Cleared(p) == [p EXCEPT !.header = 0, !.topicLength = 0, !.id = 0,
                        !.index = 0, !.length = 0]

NewPacket == [header |-> 0, raw |-> [k \in 1 .. 4 |-> 0], rem |-> 0,
              topicLength |-> 0, topic |-> <<>>, session |-> 0, id |-> 0,
              codes |-> <<>>, index |-> 0, length |-> 0, total |-> 0]

Type(p) == p.header \div 16
Flags(p) == p.header % 16
Byte == stream[pos + 1]

\* parse() goes on with the function f while there are bytes.
At(f) == fn = f /\ pos < avail /\ ~error

\* The byte was taken: more are needed, the packet is complete, or it is wrong.
Await(f) == fn' = f /\ pos' = pos + 1 /\ UNCHANGED <<got, error>>
Complete(p) ==
  /\ fn' = "fixedHeader" /\ pos' = pos + 1
  /\ got' = Append(got, p)
  /\ UNCHANGED error
Wrong(f) == fn' = f /\ pos' = pos + 1 /\ error' = TRUE /\ UNCHANGED got

FixedHeader ==
  /\ At("fixedHeader")
  /\ pk' = [Cleared(pk) EXCEPT !.header = Byte]
  /\ LET type == Byte \div 16
         flags == Byte % 16
     IN  \/ /\ \/ type = PUBLISH /\ ValidFlags(flags)
               \/ type = SUBACK /\ flags = Reserved(type)
            /\ Await("remainingLengthVariable") /\ bytePos' = 0
         \/ /\ type \in Acks \cup {CONNACK} /\ flags = Reserved(type)
            /\ Await("remainingLengthFixed") /\ UNCHANGED bytePos
         \/ /\ type = PINGRESP /\ flags = 0
            /\ Await("remainingLengthNone") /\ UNCHANGED bytePos
         \/ /\ \/ type = PUBLISH /\ ~ValidFlags(flags)
               \/ type # PUBLISH /\ flags # Reserved(type)
               \/ type \notin Acks \cup {CONNACK, PUBLISH, SUBACK, PINGRESP}
            /\ Wrong(fn) /\ UNCHANGED bytePos
  /\ UNCHANGED buffer

RemainingLengthFixed ==
  /\ At("remainingLengthFixed")
  /\ pk' = [pk EXCEPT !.rem = Byte]
  /\ CASE Byte = 2 /\ Type(pk) # CONNACK -> Await("varHeaderPacketId1")
       [] Byte = 2 /\ Type(pk) = CONNACK -> Await("varHeaderConnack1")
       [] Byte # 2                       -> Wrong("fixedHeader")
  /\ UNCHANGED <<bytePos, buffer>>

RemainingLengthNone ==
  /\ At("remainingLengthNone")
  /\ pk' = [pk EXCEPT !.rem = Byte]
  /\ IF Byte = 0 THEN Complete(Pingresp) ELSE Wrong("fixedHeader")
  /\ UNCHANGED <<bytePos, buffer>>

\* The last byte of the length: a SUBACK must fit the payload buffer.
LengthKnown(raw) ==
  LET rem == decodeRemainingLength(raw)
      size == rem - 2
  IN  \/ /\ Type(pk) = PUBLISH
         /\ pk' = [pk EXCEPT !.raw = raw, !.rem = rem]
         /\ Await("varHeaderTopicLength1") /\ UNCHANGED bytePos
      \/ /\ Type(pk) # PUBLISH /\ 0 < size /\ size < PayloadBuffer
         /\ pk' = [pk EXCEPT !.raw = raw, !.rem = rem, !.index = 0,
                             !.length = size, !.total = size]
         /\ Await("varHeaderPacketId1") /\ bytePos' = 0
      \/ /\ Type(pk) # PUBLISH /\ ~(0 < size /\ size < PayloadBuffer)
         /\ pk' = [pk EXCEPT !.raw = raw, !.rem = rem]
         /\ Wrong("fixedHeader") /\ UNCHANGED bytePos

\* Mutant: there is no limit to the bytes of a length.
RemainingLengthUnlimited ==
  /\ At("remainingLengthVariable")
  /\ LET raw == [pk.raw EXCEPT ![bytePos + 1] = Byte]
     IN  \/ /\ Continues(Byte)
            /\ pk' = [pk EXCEPT !.raw = raw]
            /\ bytePos' = bytePos + 1
            /\ Await(fn)
         \/ ~Continues(Byte) /\ LengthKnown(raw)
  /\ UNCHANGED buffer

RemainingLengthVariable ==
  /\ At("remainingLengthVariable")
  /\ LET raw == [pk.raw EXCEPT ![bytePos + 1] = Byte]
     IN  \/ /\ Continues(Byte)
            /\ pk' = [pk EXCEPT !.raw = raw]
            /\ bytePos' = bytePos + 1
            /\ IF bytePos' = 4 THEN Wrong(fn) ELSE Await(fn)
         \/ ~Continues(Byte) /\ LengthKnown(raw)
  /\ UNCHANGED buffer

VarHeaderConnack1 ==
  /\ At("varHeaderConnack1")
  /\ IF Byte < 2
     THEN pk' = [pk EXCEPT !.session = Byte] /\ Await("varHeaderConnack2")
     ELSE UNCHANGED pk /\ Wrong("fixedHeader")
  /\ UNCHANGED <<bytePos, buffer>>

VarHeaderConnack2 ==
  /\ At("varHeaderConnack2")
  /\ IF Byte <= 5 THEN Complete(Connack(pk.session, Byte)) ELSE Wrong("fixedHeader")
  /\ UNCHANGED <<bytePos, pk, buffer>>

VarHeaderPacketId1 ==
  /\ At("varHeaderPacketId1")
  /\ pk' = [pk EXCEPT !.id = @ + 256 * Byte]
  /\ Await("varHeaderPacketId2")
  /\ UNCHANGED <<bytePos, buffer>>

VarHeaderPacketId2 ==
  /\ At("varHeaderPacketId2")
  /\ LET id == pk.id + Byte
         total == IF Type(pk) = PUBLISH /\ id # 0 THEN SizeT(pk.total - 2) ELSE pk.total
     IN  /\ pk' = [pk EXCEPT !.id = id, !.total = total]
         /\ CASE id = 0 -> Wrong("fixedHeader")
              [] id # 0 /\ Type(pk) = SUBACK -> Await("payloadSuback")
              [] id # 0 /\ Type(pk) = PUBLISH ->
                   IF total = 0
                   THEN Complete(Publish(Flags(pk), pk.topic, id, <<>>, 0))
                   ELSE Await("payloadPublish")
              [] id # 0 /\ Type(pk) \in Acks -> Complete(Ack(Type(pk), id))
  /\ UNCHANGED <<bytePos, buffer>>

VarHeaderTopicLength1 ==
  /\ At("varHeaderTopicLength1")
  /\ pk' = [pk EXCEPT !.topicLength = 256 * Byte]
  /\ Await("varHeaderTopicLength2")
  /\ UNCHANGED <<bytePos, buffer>>

\* Mutant: the packet id is forgotten.
MaxTopicLengthWithoutId == SizeT(pk.rem - 2)

\* What is left of the packet for its topic.
MaxTopicLength == SizeT(pk.rem - 2 - (IF HasId(Flags(pk)) THEN 2 ELSE 0))

VarHeaderTopicLength2 ==
  /\ At("varHeaderTopicLength2")
  /\ LET length == pk.topicLength + Byte
     IN  IF length <= MaxTopicLength
         THEN /\ pk' = [pk EXCEPT !.topicLength = length,
                                  !.total = SizeT(pk.rem - 2 - length)]
              /\ Await("varHeaderTopic") /\ bytePos' = 0
         ELSE /\ pk' = [pk EXCEPT !.topicLength = length]
              /\ Wrong("fixedHeader") /\ UNCHANGED bytePos
  /\ UNCHANGED buffer

VarHeaderTopic ==
  /\ At("varHeaderTopic")
  /\ LET topic == SubSeq(pk.topic, 1, bytePos) \o <<Byte>>
     IN  /\ pk' = [pk EXCEPT !.topic = topic]
         /\ bytePos' = bytePos + 1
         /\ CASE bytePos' \notin {pk.topicLength, MaxTopic} -> Await(fn)
              [] bytePos' \in {pk.topicLength, MaxTopic} /\ HasId(Flags(pk)) ->
                   Await("varHeaderPacketId1")
              [] bytePos' \in {pk.topicLength, MaxTopic} /\ ~HasId(Flags(pk)) ->
                   IF pk.total = 0 THEN Complete(Publish(Flags(pk), topic, pk.id, <<>>, 0))
                                   ELSE Await("payloadPublish")
  /\ UNCHANGED buffer

PayloadSuback ==
  /\ At("payloadSuback")
  /\ IF Byte \in {0, 1, 2, 128}
     THEN /\ pk' = [pk EXCEPT !.codes = SubSeq(@, 1, bytePos) \o <<Byte>>]
          /\ bytePos' = bytePos + 1
          /\ IF bytePos' = pk.total THEN Complete(Suback(pk.id, pk'.codes)) ELSE Await(fn)
     ELSE UNCHANGED <<pk, bytePos>> /\ Wrong("fixedHeader")
  /\ UNCHANGED buffer

\* onMessage gets a piece of the payload and its index, at which the
\* application puts it.
Pieced(all, p, index, data) ==
  IF index = 0 THEN Append(all, [p EXCEPT !.payload = data])
  ELSE [all EXCEPT ![Len(all)].payload = SubSeq(@, 1, index) \o data]

\* All of the payload that is in the buffer is one piece.
PayloadPublish ==
  /\ At("payloadPublish")
  /\ LET index == pk.index + pk.length
         length == IF avail - pos < pk.total - index THEN avail - pos
                                                     ELSE pk.total - index
     IN  /\ pk' = [pk EXCEPT !.index = index, !.length = length]
         /\ pos' = pos + length
         /\ fn' = IF index + length = pk.total THEN "fixedHeader" ELSE fn
         /\ got' = Pieced(got, Publish(Flags(pk), pk.topic, pk.id, <<>>, pk.total),
                          index, SubSeq(stream, pos + 1, pos + length))
  /\ UNCHANGED <<bytePos, error, buffer>>
-----------------------------------------------------------------------------
(* The connection *)

\* _checkIncoming() reads when all that it had read is parsed.
Read ==
  /\ ~error /\ pos = avail
  /\ \E n \in 1 .. RxBuffer :
       /\ avail + n <= Len(stream)
       /\ avail' = avail + n
  /\ UNCHANGED <<sent, stream, pos, fn, bytePos, pk, got, error, conns>>

Open(packets) ==
  /\ sent' = packets
  /\ stream' = Streamed(packets)
  /\ pos' = 0 /\ avail' = 0 /\ got' = <<>> /\ error' = FALSE

\* Mutant: _parse is not reset.
ReconnectMidPacket ==
  /\ conns > 0
  /\ conns' = conns - 1
  /\ \E packets \in Sent : Open(packets)
  /\ bytePos' = 0 /\ pk' = Cleared(pk) /\ UNCHANGED fn

\* The connection is lost at any time, and a new one is opened: reset().
Reconnect ==
  /\ conns > 0
  /\ conns' = conns - 1
  /\ \E packets \in Sent : Open(packets)
  /\ fn' = "fixedHeader" /\ bytePos' = 0 /\ pk' = Cleared(pk)

Init ==
  /\ sent = <<>> /\ stream = <<>> /\ pos = 0 /\ avail = 0 /\ got = <<>>
  /\ error = FALSE
  /\ fn = "fixedHeader" /\ bytePos = 0 /\ pk = NewPacket
  /\ conns = Connections

Next ==
  \/ FixedHeader \/ RemainingLengthFixed \/ RemainingLengthNone
  \/ RemainingLengthVariable \/ VarHeaderConnack1 \/ VarHeaderConnack2
  \/ VarHeaderPacketId1 \/ VarHeaderPacketId2 \/ VarHeaderTopicLength1
  \/ VarHeaderTopicLength2 \/ VarHeaderTopic \/ PayloadSuback \/ PayloadPublish
  \/ Read \/ Reconnect

Spec == Init /\ [][Next]_vars
-----------------------------------------------------------------------------
\* Where the packets of the stream end.
End(k) == Len(StreamedFirst(sent)[k])

IsNonsense(k) == sent[k].type = 0

\* The packets that were parsed as a whole.
Parsed == Cardinality({k \in 1 .. Len(sent) : End(k) <= pos /\ ~IsNonsense(k)})

\* What the application sees of a packet: topics are cut at MaxTopic
\* (docs/index.md:369).
Seen(p) == IF p.type = PUBLISH /\ Len(p.topic) > MaxTopic
           THEN [p EXCEPT !.topic = SubSeq(@, 1, MaxTopic)] ELSE p

Begun(g, p) ==
  /\ g.type = PUBLISH /\ p.type = PUBLISH
  /\ IsPrefix(g.payload, p.payload)
  /\ g = [Seen(p) EXCEPT !.payload = g.payload]

\* However the stream is cut into reads, and whatever a lost connection has left
\* behind, the client is given the packets that the broker sent, one by one,
\* and of a message under way the payload so far (Parser.cpp:50-61, 300-312).
DeliversWhatWasSent ==
  /\ Len(got) \in {Parsed, Parsed + 1}
  /\ \A k \in 1 .. Parsed : got[k] = Seen(sent[k])
  /\ Len(got) = Parsed + 1 => Len(got) <= Len(sent) /\ Begun(got[Len(got)], sent[Len(got)])

\* The parser waits for a header exactly between two packets: it never takes a
\* byte of one packet for a byte of another (Parser.cpp:67-72, MqttClient.cpp:238).
InStep == ~error => (fn = "fixedHeader" <=> \E k \in 0 .. Len(sent) : End(k) = pos)

\* The parser reports an error for what is no packet, while it parses it, and
\* for nothing else (Parser.cpp:74-298).
ErrorsAreRight ==
  /\ error => \E k \in 1 .. Len(sent) : IsNonsense(k) /\ End(k - 1) < pos /\ pos <= End(k)
  /\ ~error => \A k \in 1 .. Len(sent) : IsNonsense(k) => pos < End(k)

\* Each byte is written inside its buffer: remainingLengthRaw, topic (with room for
\* the delimiter) and _payloadBuffer (Parser.cpp:145, 269, 287); and no byte is taken,
\* or given to onMessage, beyond those that were read (Parser.cpp:54-56, 300-312).
WithinBuffers ==
  /\ fn = "remainingLengthVariable" /\ ~error => bytePos < 4
  /\ fn = "varHeaderTopic" => bytePos < MaxTopic
  /\ fn = "payloadSuback" => bytePos < PayloadBuffer
  /\ pos <= avail
=============================================================================
