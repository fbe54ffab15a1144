------------------------------ MODULE OutboxOps ------------------------------
(****************************************************************************)
(* The operations of the outbox (src/src/Outbox.h) on a queue with a send   *)
(* cursor, o = [q |-> sequence, c |-> 1 .. Len(q) + 1].  Outbox.tla shows   *)
(* that the linked list of the code computes them.                          *)
(****************************************************************************)
EXTENDS Naturals, Sequences, SequencesExt, Filter

EmptyOutbox == [q |-> <<>>, c |-> 1]

\* An exhausted cursor (c = Len + 1) lands on the new item by itself.
Emplace(o, x) == [o EXCEPT !.q = Append(@, x)]

\* Mutant: the item goes to the back.
EmplaceFrontAtBack(o, x) == [q |-> Append(o.q, x), c |-> 1]

\* The new front item is the one to send next.
EmplaceFront(o, x) == [q |-> <<x>> \o o.q, c |-> 1]

\* Mutant: the cursor is not shifted.
RemoveItemUnshifted(o, i) == [q |-> RemoveAt(o.q, i), c |-> o.c]

\* A removed item before the cursor shifts it; at the cursor, the next item
\* takes its place.
RemoveItem(o, i) ==
  [q |-> RemoveAt(o.q, i), c |-> IF i < o.c THEN o.c - 1 ELSE o.c]

HasCurrent(o) == o.c <= Len(o.q)

Current(o) == o.q[o.c]

RemoveCurrent(o) == IF HasCurrent(o) THEN RemoveItem(o, o.c) ELSE o

NextItem(o) == IF HasCurrent(o) THEN [o EXCEPT !.c = @ + 1] ELSE o

ResetCurrent(o) == [o EXCEPT !.c = 1]

\* Mutant: the cursor goes back to the front.
KeepOnlyRewound(o, kept) ==
  [q |-> Filter(o.q, kept), c |-> 1]

\* What is left of an outbox walked once by an iterator that removes every
\* item outside kept: the cursor moves with the items that stay.
KeepOnly(o, kept) ==
  [q |-> Filter(o.q, kept), c |-> 1 + Len(Filtered(o.q, kept)[o.c - 1])]

\* One round of the loops in _clearQueue: the iterator, at item b.i, goes on, or what
\* it stands on is removed.
Round(b, kept) ==
  IF b.o.q[b.i] \in kept THEN [b EXCEPT !.i = @ + 1]
                         ELSE [b EXCEPT !.o = RemoveItem(@, b.i)]

\* The loop: each round deals with one of the items.
Swept(o, kept) ==
  LET b[k \in 0 .. Len(o.q)] ==
        IF k = 0 THEN [o |-> o, i |-> 1] ELSE Round(b[k - 1], kept)
  IN  b[Len(o.q)]
=============================================================================
