------------------------------ MODULE PacketMemory ------------------------------
(****************************************************************************)
(* Memory of outgoing packets with EMC_USE_MEMPOOL: each client's outbox    *)
(* has a Fixed pool for its nodes (Outbox.h:215), and the bytes of all      *)
(* packets of all clients come from one Variable pool (Packet.h:159).  A    *)
(* client is a user of it; what one client does is under its own mutex, so  *)
(* clients meet in the pool only.                                           *)
(****************************************************************************)
EXTENDS VariablePool

VARIABLES fixedHead,    \* _head of each Fixed pool
          link,         \* its memory: the next free node, or Data
          job,          \* the packet that a client makes or removes
          packets       \* packets in its outbox: node and data

Node == 1 .. NrBlocks
NoJob == [for |-> "none"]
outboxVars == <<fixedHead, link, job, packets>>
memoryVars == <<poolVars, outboxVars>>

\* Fixed::malloc(), which the caller does not make with an empty list
FixedMalloc(c, node) ==
  /\ fixedHead[c] = node /\ node # Null
  /\ fixedHead' = [fixedHead EXCEPT ![c] = link[c][node]]
  /\ link' = [link EXCEPT ![c][node] = Data]

\* Fixed::free()
FixedFree(c, node) ==
  /\ link' = [link EXCEPT ![c][node] = fixedHead[c]]
  /\ fixedHead' = [fixedHead EXCEPT ![c] = node]

\* emplace() gets a node; without one the packet is refused and nothing changes.
EmplaceNode(c) ==
  /\ job[c] = NoJob
  /\ \E node \in Node :
       FixedMalloc(c, node) /\ job' = [job EXCEPT ![c] = [for |-> "make", node |-> node]]
  /\ UNCHANGED <<poolVars, packets>>

\* Packet::_allocate() in its constructor
AllocateData(c) ==
  /\ job[c].for = "make"
  /\ \E bytes \in Sizes : Malloc(c, bytes)
  /\ UNCHANGED outboxVars

KeepPacket(c) ==
  /\ Returned(c) /\ walk[c].at # Null
  /\ packets' = [packets EXCEPT ![c] = @ \cup
                   {[node |-> job[c].node, data |-> [at |-> walk[c].at, bytes |-> walk[c].bytes]]}]
  /\ job' = [job EXCEPT ![c] = NoJob]
  /\ UNCHANGED <<fixedHead, link>>

\* Mutant: the node of a packet without memory is not removed.
DropPacketLeaks(c) ==
  /\ Returned(c) /\ walk[c].at = Null
  /\ job' = [job EXCEPT ![c] = NoJob]
  /\ UNCHANGED <<packets, fixedHead, link>>

\* OUT_OF_MEMORY: _addPacket removes the node again.
DropPacket(c) ==
  /\ Returned(c) /\ walk[c].at = Null
  /\ FixedFree(c, job[c].node)
  /\ job' = [job EXCEPT ![c] = NoJob]
  /\ UNCHANGED packets

\* Mutant: the data of a packet are not freed.
RemovePacketLeaks(c) ==
  /\ job[c] = NoJob
  /\ \E p \in packets[c] :
       /\ packets' = [packets EXCEPT ![c] = @ \ {p}]
       /\ job' = [job EXCEPT ![c] = [for |-> "remove", node |-> p.node]]
  /\ UNCHANGED <<poolVars, fixedHead, link>>

\* Outbox::_remove(): the destructor of the packet frees the data, ...
RemovePacket(c) ==
  /\ job[c] = NoJob
  /\ \E p \in packets[c] :
       /\ Free(c, p.data)
       /\ packets' = [packets EXCEPT ![c] = @ \ {p}]
       /\ job' = [job EXCEPT ![c] = [for |-> "remove", node |-> p.node]]
  /\ UNCHANGED <<fixedHead, link>>

\* ... then the node is freed.
FreeNode(c) ==
  /\ job[c].for = "remove" /\ In(c, "idle")
  /\ FixedFree(c, job[c].node)
  /\ job' = [job EXCEPT ![c] = NoJob]
  /\ UNCHANGED <<poolVars, packets>>

Init ==
  /\ PoolInit
  /\ fixedHead = [c \in User |-> 1]
  /\ link = [c \in User |-> [n \in Node |-> IF n = NrBlocks THEN Null ELSE n + 1]]
  /\ job = [c \in User |-> NoJob]
  /\ packets = [c \in User |-> {}]

Next == \E c \in User :
  \/ EmplaceNode(c) \/ AllocateData(c) \/ KeepPacket(c) \/ DropPacket(c)
  \/ RemovePacket(c) \/ FreeNode(c)
  \/ Walking(c) /\ UNCHANGED outboxVars

Spec == Init /\ [][Next]_memoryVars
-----------------------------------------------------------------------------
\* The nodes that the links lead to from h.
Reached(h, links) ==
  {n \in Node : \A S \in SUBSET Node :
     (h \in Node => h \in S) /\ (\A x \in S : links[x] \in Node => links[x] \in S) => n \in S}

\* Nodes of a client's free list (freeMemory() of Fixed.h).
FreeNodes(c) == Reached(fixedHead[c], link[c])

NodesInUse(c) == {p.node : p \in packets[c]} \cup (IF job[c] = NoJob THEN {} ELSE {job[c].node})

\* Every node of a client is in its free list, in its outbox, or at hand, and in
\* one of these only, however packets were made, refused and removed
\* (Outbox.h:93-103, 248-254, MqttClient.h:151-173).
NodesConserved == \A c \in User :
  /\ FreeNodes(c) \cup NodesInUse(c) = Node
  /\ FreeNodes(c) \cap NodesInUse(c) = {}

\* The blocks handed out are those of the packets, each of one packet of one client:
\* no memory is lost when a packet is refused or removed, and none is shared
\* (Packet.cpp:17-23, 311-334).
DataHasOneOwner ==
  /\ owned = {p.data : p \in UNION {packets[c] : c \in User}} \cup
             {[at |-> walk[c].at, bytes |-> walk[c].bytes] :
                c \in {d \in User : In(d, "done") /\ walk[d].at # Null}}
  /\ \A c, d \in User : \A p \in packets[c], q \in packets[d] :
       p.data = q.data => c = d /\ p = q

\* A client gets memory for EMC_NUM_POOL_ELEMENTS packets of up to
\* EMC_SIZE_POOL_ELEMENTS bytes (src/docs/index.md:429).
MinimumFits == \A c \in User :
  In(c, "done") /\ walk[c].bytes <= BlockSize => walk[c].at # Null
=============================================================================
