-------------------------------- MODULE Outbox --------------------------------
(****************************************************************************)
(* The linked list of src/src/Outbox.h: nodes with a next pointer, the      *)
(* pointers _first, _last, _current and _prev, and one iterator.  Nodes are *)
(* addresses, and a freed address may be handed out again.  The class is    *)
(* not concurrent (callers hold the client's mutex), so an operation is one *)
(* step.  An iterator never outlives the function that made it: while it is *)
(* in use the client only appends (MqttClient.cpp:600, 626) and removes     *)
(* through it.                                                              *)
(*                                                                          *)
(* The danger is in the pointers that a removal must keep right: _prev is   *)
(* maintained by some operations only (resetCurrent leaves it stale), and   *)
(* removing the tail writes through it.                                     *)
(****************************************************************************)
EXTENDS Naturals, FiniteSets, Sequences

CONSTANTS Node,    \* addresses
          Item,    \* data of a node
          NULL     \* nullptr

ASSUME NullAssumption == NULL \notin Node

\* There are only so many addresses.
ASSUME NodeAssumption == IsFiniteSet(Node)

VARIABLES ob,      \* the list: pointers, live nodes and their fields
          it       \* the iterator of the function that walks the list

vars == <<ob, it>>

NoIter == [node |-> NULL, prev |-> NULL]

Init ==
  /\ \E d \in Item :
       ob = [alloc |-> {}, next |-> [n \in Node |-> NULL],
             data |-> [n \in Node |-> d], first |-> NULL, last |-> NULL,
             current |-> NULL, prev |-> NULL, fault |-> FALSE]
  /\ it = NoIter
-----------------------------------------------------------------------------
\* Writing to p->next; a write through a pointer to no live node is a fault.
SetNext(l, p, n) ==
  [l EXCEPT !.next = [@ EXCEPT ![p] = n], !.fault = @ \/ p \notin l.alloc]

\* Mutant: next has no initial value.
NewNodeUninitialised(l, n, x) ==
  [l EXCEPT !.alloc = @ \cup {n}, !.next = [@ EXCEPT ![n] = "garbage"],
            !.data = [@ EXCEPT ![n] = x]]

\* Node(args...): a new node, not linked yet.
NewNode(l, n, x) ==
  [l EXCEPT !.alloc = @ \cup {n}, !.next = [@ EXCEPT ![n] = NULL],
            !.data = [@ EXCEPT ![n] = x]]

\* Mutant: an exhausted cursor does not find the new node.
LinkedUnnoticed(l, n) ==
  LET tail == IF l.first = NULL
              THEN [l EXCEPT !.first = n, !.current = n]
              ELSE SetNext(l, l.last, n)
  IN  [tail EXCEPT !.last = n]

\* emplace: link at the tail; the cursor moves to it when it was exhausted.
Linked(l, n) ==
  LET tail == IF l.first = NULL
              THEN [l EXCEPT !.first = n, !.current = n]
              ELSE SetNext(l, l.last, n)
  IN  [tail EXCEPT !.last = n,
                   !.current = IF tail.current = NULL THEN n ELSE @]

DoEmplace(l, n, x) == Linked(NewNode(l, n, x), n)

\* The iterator that emplace returns.
EmplacedPrev(l) == IF l.first = NULL THEN NULL ELSE l.last

DoEmplaceFront(l, n, x) ==
  LET m == NewNode(l, n, x)
      k == IF l.first = NULL THEN [m EXCEPT !.last = n]
                             ELSE SetNext(m, n, l.first)
  IN  [k EXCEPT !.first = n, !.current = n, !.prev = NULL]

\* Mutant: _last is not updated.
UnlinkedTailKept(l, p, n) ==
  CASE l.first = l.last -> [l EXCEPT !.first = NULL, !.last = NULL]
    [] l.first # l.last /\ l.first = n -> [l EXCEPT !.first = l.next[n]]
    [] OTHER -> SetNext(l, p, l.next[n])

\* The part of _remove that takes n, whose predecessor is said to be p, out
\* of the list.
Unlinked(l, p, n) ==
  CASE l.first = l.last -> [l EXCEPT !.first = NULL, !.last = NULL]
    [] l.first # l.last /\ l.first = n -> [l EXCEPT !.first = l.next[n]]
    [] l.first # l.last /\ l.first # n /\ l.last = n ->
         SetNext([l EXCEPT !.last = p], p, NULL)
    [] OTHER -> SetNext(l, p, l.next[n])

\* Mutant: _prev is not updated when its node goes.
DoRemovePrevKept(l, p, n) ==
  LET k == [l EXCEPT !.current = IF @ = n THEN l.next[n] ELSE @,
                     !.fault   = @ \/ n \notin l.alloc]
  IN  [Unlinked(k, p, n) EXCEPT !.alloc = @ \ {n}]

\* _remove(prev, node)
DoRemove(l, p, n) ==
  LET k == [l EXCEPT
              !.current = IF @ = n THEN l.next[n] ELSE @,
              !.prev    = IF @ = n THEN p ELSE @,
              !.fault   = @ \/ n \notin l.alloc]
  IN  [Unlinked(k, p, n) EXCEPT !.alloc = @ \ {n}]
-----------------------------------------------------------------------------
Idle == it.node = NULL

EmplaceItem ==
  /\ \E n \in Node \ ob.alloc, x \in Item : ob' = DoEmplace(ob, n, x)
  /\ UNCHANGED it

\* _addPacket when the packet could not be built: emplace, then remove
\* through the iterator it returned.
EmplaceUndone ==
  /\ \E n \in Node \ ob.alloc, x \in Item :
        ob' = DoRemove(DoEmplace(ob, n, x), EmplacedPrev(ob), n)
  /\ UNCHANGED it

EmplaceFrontItem ==
  /\ Idle
  /\ \E n \in Node \ ob.alloc, x \in Item : ob' = DoEmplaceFront(ob, n, x)
  /\ UNCHANGED it

\* _addPacketFront when the packet could not be built.
EmplaceFrontUndone ==
  /\ Idle
  /\ \E n \in Node \ ob.alloc, x \in Item :
        ob' = DoRemove(DoEmplaceFront(ob, n, x), NULL, n)
  /\ UNCHANGED it

RemoveCurrentNode ==
  /\ Idle
  /\ ob.current # NULL
  /\ ob' = DoRemove(ob, ob.prev, ob.current)
  /\ UNCHANGED it

ResetCurrentNode ==
  /\ Idle
  /\ ob' = [ob EXCEPT !.current = ob.first]
  /\ UNCHANGED it

NextNode ==
  /\ Idle
  /\ ob.current # NULL
  /\ ob' = [ob EXCEPT !.prev = ob.current, !.current = ob.next[ob.current],
                      !.fault = @ \/ ob.current \notin ob.alloc]
  /\ UNCHANGED it

Front ==
  /\ it = NoIter
  /\ it' = [node |-> ob.first, prev |-> NULL]
  /\ UNCHANGED ob

\* ++it
Increment ==
  /\ it.node # NULL
  /\ it' = [node |-> ob.next[it.node], prev |-> it.node]
  /\ ob' = [ob EXCEPT !.fault = @ \/ it.node \notin ob.alloc]

\* remove(it): the iterator keeps its predecessor and points to what followed.
RemoveIterator ==
  /\ it.node # NULL
  /\ ob' = DoRemove(ob, it.prev, it.node)
  /\ it' = [it EXCEPT !.node = ob.next[it.node]]

\* The function that made the iterator returns.
EndIterator == it' = NoIter /\ UNCHANGED ob

Next ==
  \/ EmplaceItem \/ EmplaceUndone
  \/ EmplaceFrontItem \/ EmplaceFrontUndone
  \/ RemoveCurrentNode \/ ResetCurrentNode \/ NextNode
  \/ Front \/ Increment \/ RemoveIterator \/ EndIterator

Spec == Init /\ [][Next]_vars
-----------------------------------------------------------------------------
MaybeNode == Node \cup {NULL}

OutboxType ==
  [alloc : SUBSET Node, next : [Node -> MaybeNode], data : [Node -> Item],
   first : MaybeNode, last : MaybeNode, current : MaybeNode,
   prev : MaybeNode, fault : BOOLEAN]

\* The pointers of the list and of the iterator (Outbox.h:87, 210) are
\* addresses of nodes or nullptr.
TypeOK ==
  /\ ob \in OutboxType
  /\ it \in [node : MaybeNode, prev : MaybeNode]

\* No operation follows or writes a pointer to a deleted node, or a null one
\* (Outbox.h:72, 110, 156, 189, 240, 245), although _prev may be stale.
NoFault == ~ob.fault

\* The ends of the list stay consistent: an empty list has no live node (a
\* removal leaks nothing), a non-empty one ends in a live tail, the cursor and
\* the iterator point to live nodes (Outbox.h:218-255).
EndsSound ==
  /\ ob.first = NULL <=> ob.alloc = {}
  /\ ob.first # NULL => ob.last \in ob.alloc /\ ob.next[ob.last] = NULL
  /\ {ob.first, ob.current, it.node} \subseteq ob.alloc \cup {NULL}
-----------------------------------------------------------------------------
\* The nodes from the first one on, in the order of the links, at most one for each
\* address.
Nodes(l) ==
  LET chain[k \in 0 .. Cardinality(Node)] ==
        [n \in MaybeNode |->
           IF k = 0 \/ n = NULL THEN <<>> ELSE <<n>> \o chain[k - 1][l.next[n]]]
  IN  chain[Cardinality(Node)][l.first]

IndexOf(l, n, end) ==
  IF n = NULL THEN end
  ELSE CHOOSE k \in 1 .. Len(Nodes(l)) : Nodes(l)[k] = n

\* The queue that the list represents, and where its iterator stands.
QueueOf(l) == [q |-> [k \in 1 .. Len(Nodes(l)) |-> l.data[Nodes(l)[k]]],
               c |-> IndexOf(l, l.current, Len(Nodes(l)) + 1)]

Queue == QueueOf(ob)
IterIndex == IndexOf(ob, it.node, 0)

Abstract == INSTANCE OutboxQueue WITH outbox <- Queue, pos <- IterIndex

\* The linked list is the queue with a cursor that the client relies on: every
\* operation of Outbox.h:93-192 changes the queue it represents as
\* OutboxQueue says.
ImplementsQueue == Abstract!Spec

\* Removing all items but some one by one leaves them in order, and the cursor on
\* the one it stood on or on the next that is left (MqttClient.cpp:718-749).
ClearsAsSwept == \A kept \in SUBSET Item :
  LET end == Abstract!Swept(Queue, kept)
  IN  /\ end.o = Abstract!KeepOnly(Queue, kept)
      /\ end.i = Len(end.o.q) + 1
=============================================================================
