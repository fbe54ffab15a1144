----------------------------- MODULE OutboxQueue -----------------------------
(****************************************************************************)
(* What the Outbox of Outbox.h promises the client: a queue of items with a *)
(* send cursor, walked and edited through one iterator.  The cursor is an   *)
(* index: items before it have been sent and wait for an answer, the item   *)
(* at it is sent next, and Len + 1 means that nothing is left to send.      *)
(* MqttClient.tla keeps its outbox with the same operators.                 *)
(****************************************************************************)
EXTENDS OutboxOps

CONSTANT Item

VARIABLES outbox,   \* [q |-> sequence of items, c |-> cursor]
          pos       \* index the iterator stands on, 0 when it is at the end

vars == <<outbox, pos>>

Init == outbox = EmptyOutbox /\ pos = 0

\* emplace, successful or undone because the packet could not be built.
EmplaceItem == \E x \in Item : outbox' = Emplace(outbox, x) /\ UNCHANGED pos

EmplaceFrontItem ==
  /\ pos = 0
  /\ \E x \in Item : outbox' = EmplaceFront(outbox, x)
  /\ UNCHANGED pos

\* A front packet that could not be built: only the cursor is left changed.
Rewind == pos = 0 /\ outbox' = ResetCurrent(outbox) /\ UNCHANGED pos

RemoveCurrentItem ==
  pos = 0 /\ outbox' = RemoveCurrent(outbox) /\ UNCHANGED pos

Advance == outbox' = NextItem(outbox) /\ UNCHANGED pos

\* Removing at the iterator leaves it on the item that followed.
RemoveAtIterator ==
  /\ pos # 0
  /\ outbox' = RemoveItem(outbox, pos)
  /\ pos' = IF pos < Len(outbox.q) THEN pos ELSE 0

MoveIterator ==
  /\ pos' \in {0, pos + 1}
  /\ pos' <= Len(outbox.q)
  /\ UNCHANGED outbox

Next == \/ EmplaceItem \/ EmplaceFrontItem \/ Rewind \/ RemoveCurrentItem
        \/ Advance \/ RemoveAtIterator \/ MoveIterator

Spec == Init /\ [][Next]_vars
=============================================================================
