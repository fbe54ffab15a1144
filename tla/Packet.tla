--------------------------------- MODULE Packet ---------------------------------
(****************************************************************************)
(* One outgoing packet (src/src/Packets/Packet.cpp) from its constructor to *)
(* the last time it is sent.  The client asks available() how much it may   *)
(* write from a position on, and the socket takes any part of it            *)
(* (MqttClient.cpp:362-398).  The payload of a chunked PUBLISH is fetched   *)
(* by available() into the small buffer behind the header.                  *)
(****************************************************************************)
EXTENDS PacketBytes

CONSTANTS Requests,     \* packets that are made
          TxBuffer,     \* EMC_TX_BUFFER_SIZE
          Retries       \* how often a packet is sent again

ASSUME PacketAssumption ==
  {MaxString, RxBuffer, TxBuffer} \subseteq Nat \ {0} /\ Retries \in Nat

VARIABLES req,            \* the packet
          data,           \* _data, as far as it was reserved
          size,           \* _size
          payloadIndex, payloadStartIndex, payloadEndIndex,
          fault,          \* a byte was written or read outside of _data
          bytesSent,      \* of the client
          wire,           \* what was written of it on this connection
          dup,            \* setDup() was called
          pc,             \* where _checkOutbox() is
          left            \* retries left

chunk == <<payloadIndex, payloadStartIndex, payloadEndIndex>>
memory == <<data, size, chunk, fault>>
vars == <<req, memory, bytesSent, wire, dup, pc, left>>

Chunked == req.type = PUBLISH /\ req.chunked
Inside(first, last) == 0 <= first /\ last < Len(data)

\* MALFORMED_PARAMETER: nothing is reserved.
Malformed(r) == r.type = CONNECT /\ r.clientId \in {None, <<>>}

\* A constructor, with the memory filled with zeros.
Make ==
  /\ pc = "new"
  /\ \E r \in Requests : ~Malformed(r) /\
       LET w == Written(r)
           reserved == Reserved(r)
           isChunked == r.type = PUBLISH /\ r.chunked
       IN  /\ req' = r
           /\ data' = [k \in 1 .. reserved |-> IF k <= Len(w) THEN w[k] ELSE 0]
           /\ fault' = (Len(w) > reserved)
           /\ size' = IF isChunked THEN Len(w) + Len(r.payload) ELSE reserved
           /\ payloadIndex' = When(isChunked, Len(w))
           /\ payloadStartIndex' = payloadIndex' /\ payloadEndIndex' = payloadIndex'
  /\ pc' = "available"
  /\ UNCHANGED <<bytesSent, wire, dup, left>>

\* No memory (OUT_OF_MEMORY), or malformed: _addPacket() drops the packet.
MakeFails == pc = "new" /\ pc' = "gone" /\ UNCHANGED <<req, memory, bytesSent, wire, dup, left>>

\* The callback of the application writes n bytes of the payload to the buffer.
\* The index that it is given counts the bytes of the packet, header included.
GetPayload(n, index) ==
  LET offset == IF index > payloadIndex THEN index - payloadIndex ELSE 0
  IN  /\ n <= Len(req.payload) - offset
      /\ data' = [k \in DOMAIN data |->
                    IF k - payloadIndex \in 1 .. n
                    THEN req.payload[offset + k - payloadIndex] ELSE data[k]]
      /\ fault' = (fault \/ ~Inside(payloadIndex, payloadIndex + n - 1))
      /\ payloadEndIndex' = payloadStartIndex' + n - 1

MaxSize(start) == Minimum(TxBuffer, size - start)

\* _chunkedAvailable(): the beginning of the payload is fetched with the header, and
\* what is not in the buffer when it is asked for.  With the header its size is still
\* bounded by where the last chunk began.
Fetch(index) ==
  IF index < payloadIndex /\ size > payloadIndex /\ payloadEndIndex # 0
  THEN /\ payloadStartIndex' = payloadIndex
       /\ \E n \in 0 .. MaxSize(payloadStartIndex) : GetPayload(n, index)
  ELSE IF index >= payloadIndex /\ (index > payloadEndIndex \/ payloadStartIndex > index)
  THEN /\ payloadStartIndex' = index
       /\ \E n \in 0 .. MaxSize(index) : GetPayload(n, index)
  ELSE UNCHANGED <<data, fault, payloadStartIndex, payloadEndIndex>>

\* available(_bytesSent)
Available ==
  /\ pc = "available"
  /\ IF Chunked /\ bytesSent < size THEN Fetch(bytesSent)
     ELSE UNCHANGED <<data, fault, payloadStartIndex, payloadEndIndex>>
  /\ pc' = "write"
  /\ UNCHANGED <<req, size, payloadIndex, bytesSent, wire, dup, left>>

\* Mutant: the index of the last byte is taken for a number of bytes.
WantToWriteOffByOne ==
  IF bytesSent >= size THEN 0
  ELSE IF Chunked THEN payloadEndIndex - bytesSent ELSE size - bytesSent

\* What available() has returned.
WantToWrite ==
  IF bytesSent >= size THEN 0
  ELSE IF Chunked THEN payloadEndIndex - bytesSent + 1 ELSE size - bytesSent

\* Mutant: a position in the chunk is taken for one in the buffer.
DataIndexInChunk(index) ==
  IF Chunked /\ index >= payloadIndex THEN index - payloadStartIndex ELSE index

\* data(index): the position in _data
DataIndex(index) ==
  IF Chunked /\ index >= payloadIndex
  THEN index - payloadStartIndex + payloadIndex ELSE index

\* The socket takes k bytes.
Write ==
  /\ pc = "write"
  /\ \E k \in 0 .. WantToWrite :
       LET from == DataIndex(bytesSent)
       IN  /\ fault' = (fault \/ (k > 0 /\ ~Inside(from, from + k - 1)))
           /\ wire' = wire \o IF fault' THEN <<>> ELSE SubSeq(data, from + 1, from + k)
           /\ bytesSent' = bytesSent + k
  /\ pc' = IF bytesSent' = size THEN "sent" ELSE "available"
  /\ UNCHANGED <<req, data, size, chunk, dup, left>>

\* setDup(), bit 3 of the first byte
SetDup ==
  IF PacketId(req) = 0 \/ req.type # PUBLISH \/ dup THEN UNCHANGED data
  ELSE data' = [data EXCEPT ![1] = @ + 8]

\* _advanceOutbox(): the packet is removed, or stays and may be sent again, on this
\* connection or the next.
Sent ==
  /\ pc = "sent"
  /\ IF Removable(req)
     THEN pc' = "gone" /\ UNCHANGED <<data, dup, bytesSent>>
     ELSE pc' = "kept" /\ SetDup /\ dup' = (req.type = PUBLISH) /\ bytesSent' = 0
  /\ UNCHANGED <<req, size, chunk, fault, wire, left>>

Again == wire' = <<>> /\ bytesSent' = 0 /\ pc' = "available"

Retransmit ==
  /\ pc = "kept" /\ left > 0
  /\ left' = left - 1
  /\ Again
  /\ UNCHANGED <<req, memory, dup>>

\* The connection is lost in the middle; what is kept starts anew in the next one.
ConnectionLost ==
  /\ pc = "available" /\ bytesSent > 0 /\ left > 0
  /\ left' = left - 1
  /\ IF (req.type = PUBLISH /\ PacketId(req) # 0) \/ req.type \in {PUBREC, PUBREL}
     THEN Again
     ELSE pc' = "gone" /\ wire' = <<>> /\ bytesSent' = 0
  /\ UNCHANGED <<req, memory, dup>>

\* The answer arrives.
Answered == pc = "kept" /\ pc' = "gone" /\ UNCHANGED <<req, memory, bytesSent, wire, dup, left>>

Init ==
  /\ req = [type |-> 0] /\ data = <<>> /\ size = 0
  /\ payloadIndex = 0 /\ payloadStartIndex = 0 /\ payloadEndIndex = 0
  /\ fault = FALSE /\ bytesSent = 0 /\ wire = <<>> /\ dup = FALSE
  /\ pc = "new" /\ left = Retries

Next == Make \/ MakeFails \/ Available \/ Write \/ Sent \/ Retransmit \/ ConnectionLost
        \/ Answered

Spec == Init /\ [][Next]_vars

\* loop() comes back; socket and application take and give a byte now and then.
Progress == Write /\ bytesSent' > bytesSent
Fetched == Available /\ WantToWrite' > 0
FairSpec ==
  Spec /\ WF_vars(Available \/ Write \/ Sent) /\ SF_vars(Progress) /\ SF_vars(Fetched)
-----------------------------------------------------------------------------
\* Every byte of a packet is written and read inside the memory that was reserved for
\* it, which it fills (Packet.cpp:311-334 against each constructor, 424-452).
InsideMemory ==
  /\ ~fault
  /\ pc = "available" /\ bytesSent = 0 /\ wire = <<>> /\ ~Chunked
       => Len(Written(req)) = Len(data)

\* A packet that was written as a whole, in whatever pieces, with whatever chunks of
\* the payload, for the first time or again after a part of it, is one MQTT packet
\* and says what was asked for; dup is set exactly when it had been sent before
\* (Packet.cpp:66-308, 424-452, MqttClient.cpp:362-398).
SaysWhatWasAsked ==
  pc = "sent" => FrameLength(wire) = Len(wire) /\ Meaning(wire) = Intended(req, dup)

\* A packet that is begun is sent as a whole, or given up with its connection.
SentInTheEnd == bytesSent > 0 ~> pc \in {"sent", "kept", "gone"}
=============================================================================
