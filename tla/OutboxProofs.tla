----------------------------- MODULE OutboxProofs -----------------------------
(****************************************************************************)
(* Safety of the linked list of Outbox.tla for any set of addresses.        *)
(*                                                                          *)
(* The inductive invariant says that the pointers lay out n distinct nodes  *)
(* q[1] .. q[n] with the cursor at position c, and what is known of _prev:  *)
(* it is the node before the cursor, unless the cursor is at the front,     *)
(* where resetCurrent() and removals leave it behind with any value.  That  *)
(* is enough because a removal at the front does not look at _prev.         *)
(*                                                                          *)
(* The refinement of OutboxQueue.tla uses the same layout: the chain of the *)
(* links from _first is q, so the list represents the data of q[1] .. q[n]  *)
(* with the cursor c, and each operation changes them as the abstract one   *)
(* does.                                                                    *)
(****************************************************************************)
EXTENDS Outbox, FiniteSetTheorems, SequenceTheorems, TLAPS

Facts == INSTANCE Facts

\* The k-th of n nodes, nullptr beyond both ends.
Nth(n, q, k) == IF k \in 1 .. n THEN q[k] ELSE NULL

Distinct(n, q) == \A j, k \in 1 .. n : q[j] = q[k] => j = k

List(l, n, q, c) ==
  /\ l \in OutboxType /\ ~l.fault
  /\ n \in Nat /\ q \in [1 .. n -> Node] /\ Distinct(n, q)
  /\ l.alloc = {q[k] : k \in 1 .. n}
  /\ l.first = Nth(n, q, 1) /\ l.last = Nth(n, q, n)
  /\ \A k \in 1 .. n : l.next[q[k]] = Nth(n, q, k + 1)
  /\ c \in 1 .. n + 1
  /\ l.current = Nth(n, q, c)
  /\ c > 1 => l.prev = q[c - 1]

\* An iterator stands on q[i], or at the end when i = 0.
IterAt(t, n, q, i) ==
  /\ t \in [node : MaybeNode, prev : MaybeNode]
  /\ i \in 0 .. n
  /\ t.node = Nth(n, q, i)
  /\ i > 1 => t.prev = q[i - 1]

IInv == \E n \in Nat : \E q \in [1 .. n -> Node], c \in 1 .. n + 1, i \in 0 .. n :
          List(ob, n, q, c) /\ IterAt(it, n, q, i)

\* What a step leaves.
Leaves(n, q, c, i) == List(ob', n, q, c) /\ IterAt(it', n, q, i)

Add(n, q, m) == [k \in 1 .. n + 1 |-> IF k = n + 1 THEN m ELSE q[k]]
AddFront(n, q, m) == [k \in 1 .. n + 1 |-> IF k = 1 THEN m ELSE q[k - 1]]
Del(n, q, j) == [k \in 1 .. n - 1 |-> IF k < j THEN q[k] ELSE q[k + 1]]

-----------------------------------------------------------------------------
\* emplace puts the new node last and leaves the cursor where it is; an
\* exhausted one, at n + 1, thereby points to the new node (Outbox.h:93-121).
LEMMA EmplaceList ==
  ASSUME NEW l, NEW n, NEW q, NEW c, List(l, n, q, c),
         NEW m \in Node \ l.alloc, NEW x \in Item
  PROVE  List(DoEmplace(l, m, x), n + 1, Add(n, q, m), c)
<1> DEFINE r == Add(n, q, m)
           k1 == NewNode(l, m, x)
<1> USE NullAssumption
<1>1. /\ n \in Nat /\ n + 1 \in Nat /\ q \in [1 .. n -> Node] /\ m \in Node
      /\ \A k \in 1 .. n : q[k] # m
  BY DEF List
<1>2. /\ r \in [1 .. n + 1 -> Node]
      /\ r[n + 1] = m /\ \A k \in 1 .. n : r[k] = q[k]
  BY <1>1 DEF Add
<1>3. Distinct(n + 1, r)
  BY <1>1, <1>2 DEF Distinct, List
<1>4. {r[k] : k \in 1 .. n + 1} = l.alloc \cup {m}
  BY <1>1, <1>2 DEF List
<1>5. /\ k1 \in OutboxType
      /\ k1.alloc = l.alloc \cup {m} /\ k1.next = [l.next EXCEPT ![m] = NULL]
      /\ k1.first = l.first /\ k1.last = l.last /\ k1.current = l.current
      /\ k1.prev = l.prev /\ k1.fault = FALSE
  BY <1>1 DEF List, NewNode, OutboxType, MaybeNode
<1>6. CASE n = 0
  <2>1. l.first = NULL /\ l.current = NULL /\ c = 1
    BY <1>6 DEF List, Nth
  <2>2. DoEmplace(l, m, x) = [[k1 EXCEPT !.first = m, !.current = m]
                                EXCEPT !.last = m, !.current = m]
    BY <1>1, <1>5, <2>1 DEF DoEmplace, Linked, OutboxType
  <2> DEFINE e == DoEmplace(l, m, x)
  <2>3. /\ e \in OutboxType /\ ~e.fault /\ e.alloc = l.alloc \cup {m}
        /\ e.first = m /\ e.last = m /\ e.current = m /\ e.next[m] = NULL
    <3>1. e = [k1 EXCEPT !.first = m, !.last = m, !.current = m]
      BY <1>5, <2>2 DEF OutboxType
    <3>2. k1.next[m] = NULL
      BY <1>1, <1>5 DEF List, OutboxType
    <3> HIDE DEF e, k1
    <3> QED BY <1>1, <1>5, <3>1, <3>2 DEF OutboxType, MaybeNode
  <2>4. r[1] = m /\ \A k \in 1 .. n + 1 : k = 1
    BY <1>2, <1>6
  <2>5. List(e, n + 1, r, c)
    <3> HIDE DEF e, r
    <3> QED BY <1>1, <1>2, <1>3, <1>4, <1>6, <2>1, <2>3, <2>4 DEF List, Nth
  <2> QED BY <2>5
<1>7. CASE n > 0
  <2>1. /\ l.first = q[1] /\ l.first # NULL /\ l.last = q[n] /\ q[n] \in l.alloc
        /\ q[n] \in Node /\ q[n] # m
    BY <1>1, <1>7 DEF List, Nth
  <2>2. DoEmplace(l, m, x) =
          [k1 EXCEPT !.next = [k1.next EXCEPT ![q[n]] = m], !.last = m,
                     !.current = IF l.current = NULL THEN m ELSE l.current]
    BY <1>5, <2>1 DEF DoEmplace, Linked, SetNext, OutboxType
  <2> DEFINE e == DoEmplace(l, m, x)
  <2>3. /\ e \in OutboxType /\ e.alloc = l.alloc \cup {m} /\ ~e.fault
        /\ e.first = l.first /\ e.last = m /\ e.prev = l.prev
        /\ e.current = IF l.current = NULL THEN m ELSE l.current
        /\ e.next = [[l.next EXCEPT ![m] = NULL] EXCEPT ![q[n]] = m]
    <3> HIDE DEF e, k1
    <3>1. e = [k1 EXCEPT !.next = [k1.next EXCEPT ![q[n]] = m], !.last = m,
                         !.current = IF l.current = NULL THEN m ELSE l.current]
      BY <2>2 DEF e
    <3>2. [k1.next EXCEPT ![q[n]] = m] \in [Node -> MaybeNode]
      BY <1>1, <1>5, <2>1 DEF OutboxType, MaybeNode
    <3> QED BY <1>1, <1>5, <2>1, <3>1, <3>2 DEF OutboxType, MaybeNode
  <2>4. \A k \in 1 .. n + 1 : e.next[r[k]] = Nth(n + 1, r, k + 1)
    <3> TAKE k \in 1 .. n + 1
    <3>1. CASE k = n + 1
      BY <1>1, <1>2, <2>1, <2>3, <3>1 DEF List, OutboxType, Nth
    <3>2. CASE k = n
      BY <1>1, <1>2, <1>7, <2>1, <2>3, <3>2 DEF List, OutboxType, Nth
    <3>3. CASE k < n
      <4>1. q[k] # q[n] /\ q[k] # m /\ q[k] \in Node
        BY <1>1, <1>7, <3>3 DEF List, Distinct
      <4>2. e.next[r[k]] = l.next[q[k]]
        BY <1>1, <1>2, <2>3, <3>3, <4>1 DEF List, OutboxType
      <4> QED BY <1>1, <1>2, <3>3, <4>2 DEF List, Nth
    <3> QED BY <1>1, <3>1, <3>2, <3>3
  <2>5. e.first = Nth(n + 1, r, 1) /\ e.last = Nth(n + 1, r, n + 1)
    BY <1>1, <1>2, <1>7, <2>1, <2>3 DEF Nth
  <2>6. /\ c \in 1 .. n + 2 /\ e.current = Nth(n + 1, r, c)
        /\ c > 1 => e.prev = r[c - 1]
    BY <1>1, <1>2, <2>3 DEF List, Nth
  <2>7. List(e, n + 1, r, c)
    <3>1. n + 1 + 1 = n + 2
      BY <1>1
    <3> HIDE DEF e, r
    <3> QED BY <1>1, <1>2, <1>3, <1>4, <2>3, <2>4, <2>5, <2>6, <3>1 DEF List
  <2> QED BY <2>7
<1> QED BY <1>1, <1>6, <1>7

\* emplaceFront puts the new node first and the cursor on it (Outbox.h:124-149).
LEMMA EmplaceFrontList ==
  ASSUME NEW l, NEW n, NEW q, NEW c, List(l, n, q, c),
         NEW m \in Node \ l.alloc, NEW x \in Item
  PROVE  List(DoEmplaceFront(l, m, x), n + 1, AddFront(n, q, m), 1)
<1> DEFINE r == AddFront(n, q, m)
           e == DoEmplaceFront(l, m, x)
<1> USE NullAssumption
<1>1. /\ n \in Nat /\ n + 1 \in Nat /\ q \in [1 .. n -> Node] /\ m \in Node
      /\ \A k \in 1 .. n : q[k] # m
  BY DEF List
<1>2. /\ r \in [1 .. n + 1 -> Node]
      /\ r[1] = m /\ \A k \in 1 .. n : r[k + 1] = q[k]
      /\ \A k \in 2 .. n + 1 : r[k] = q[k - 1] /\ k - 1 \in 1 .. n
  BY <1>1 DEF AddFront
<1>3. Distinct(n + 1, r)
  BY <1>1, <1>2 DEF Distinct, List
<1>4. {r[k] : k \in 1 .. n + 1} = l.alloc \cup {m}
  <2>1. {r[k] : k \in 1 .. n + 1} \subseteq l.alloc \cup {m}
    BY <1>1, <1>2 DEF List
  <2>2. \A k \in 1 .. n : k + 1 \in 1 .. n + 1
    BY <1>1
  <2>3. l.alloc \cup {m} \subseteq {r[k] : k \in 1 .. n + 1}
    BY <1>1, <1>2, <2>2 DEF List
  <2> QED BY <2>1, <2>3
<1>5. /\ e \in OutboxType /\ e.alloc = l.alloc \cup {m} /\ ~e.fault
      /\ e.first = m /\ e.current = m
      /\ e.last = IF n = 0 THEN m ELSE l.last
      /\ e.next = [l.next EXCEPT ![m] = IF n = 0 THEN NULL ELSE l.first]
  <2>1. l.first = NULL <=> n = 0
    BY <1>1 DEF List, Nth
  <2> QED BY <1>1, <2>1, ZenonT(60)
          DEF List, DoEmplaceFront, NewNode, SetNext, OutboxType, MaybeNode
<1>6. \A k \in 1 .. n + 1 : e.next[r[k]] = Nth(n + 1, r, k + 1)
  <2> TAKE k \in 1 .. n + 1
  <2>1. CASE k = 1
    BY <1>1, <1>2, <1>5, <2>1 DEF List, OutboxType, Nth
  <2>2. CASE k > 1
    <3>1. k - 1 \in 1 .. n /\ r[k] = q[k - 1] /\ q[k - 1] # m /\ q[k - 1] \in Node
      BY <1>1, <1>2, <2>2
    <3>2. e.next[r[k]] = l.next[q[k - 1]]
      BY <1>5, <3>1 DEF List, OutboxType
    <3>3. l.next[q[k - 1]] = Nth(n, q, k)
      BY <1>1, <3>1 DEF List
    <3> QED BY <1>1, <1>2, <3>1, <3>2, <3>3 DEF Nth
  <2> QED BY <1>1, <2>1, <2>2
<1>7. e.first = Nth(n + 1, r, 1) /\ e.last = Nth(n + 1, r, n + 1)
      /\ e.current = Nth(n + 1, r, 1)
  BY <1>1, <1>2, <1>5 DEF List, Nth
<1>8. List(e, n + 1, r, 1)
  <2> HIDE DEF e, r
  <2> QED BY <1>1, <1>2, <1>3, <1>4, <1>5, <1>6, <1>7 DEF List
<1> QED BY <1>8

\* _remove takes out q[j], given its predecessor p, which may be anything when
\* j = 1; the cursor stays with its node, or moves on if it stood on q[j]
\* (Outbox.h:218-255).
LEMMA RemoveList ==
  ASSUME NEW l, NEW n, NEW q, NEW c, List(l, n, q, c),
         NEW j \in 1 .. n, NEW p \in MaybeNode, j > 1 => p = q[j - 1]
  PROVE  List(DoRemove(l, p, q[j]), n - 1, Del(n, q, j), IF j < c THEN c - 1 ELSE c)
<1> DEFINE r == Del(n, q, j)
           d == DoRemove(l, p, q[j])
           cc == IF j < c THEN c - 1 ELSE c
<1> USE NullAssumption
<1>1. /\ n \in Nat /\ n - 1 \in Nat /\ q \in [1 .. n -> Node] /\ j \in Nat
      /\ \A k \in 1 .. n : q[k] \in Node /\ q[k] # NULL /\ q[k] \in l.alloc
      /\ \A k, m \in 1 .. n : q[k] = q[m] => k = m
  BY DEF List, Distinct
<1>2. /\ r \in [1 .. n - 1 -> Node]
      /\ \A k \in 1 .. n - 1 : k < j => r[k] = q[k] /\ k \in 1 .. n
      /\ \A k \in 1 .. n - 1 : ~(k < j) => r[k] = q[k + 1] /\ k + 1 \in 1 .. n
  BY <1>1 DEF Del
<1>3. Distinct(n - 1, r)
  <2> SUFFICES ASSUME NEW k \in 1 .. n - 1, NEW m \in 1 .. n - 1, r[k] = r[m]
               PROVE  k = m
    BY DEF Distinct
  <2> QED BY <1>1, <1>2
<1>4. {r[k] : k \in 1 .. n - 1} = l.alloc \ {q[j]}
  <2>1. \A k \in 1 .. n - 1 : r[k] \in l.alloc /\ r[k] # q[j]
    BY <1>1, <1>2
  <2>2. ASSUME NEW k \in 1 .. n, k # j
        PROVE  \E m \in 1 .. n - 1 : r[m] = q[k]
    <3>1. CASE k < j
      BY <1>1, <1>2, <3>1
    <3>2. CASE k > j
      <4>1. k - 1 \in 1 .. n - 1 /\ ~(k - 1 < j) /\ (k - 1) + 1 = k
        BY <1>1, <3>2
      <4> QED BY <1>2, <4>1
    <3> QED BY <1>1, <2>2, <3>1, <3>2
  <2>3. \A a \in l.alloc : \E k \in 1 .. n : a = q[k]
    BY DEF List
  <2> HIDE DEF r
  <2> QED BY <2>1, <2>2, <2>3
\* which of the cases of _remove applies
<1>5. /\ l \in OutboxType /\ ~l.fault
      /\ l.first = q[1] /\ l.last = q[n]
      /\ l.first = l.last <=> n = 1
      /\ l.first = q[j] <=> j = 1
      /\ l.last = q[j] <=> j = n
      /\ l.current = q[j] <=> j = c
      /\ j = n => l.next[q[j]] = NULL
      /\ j > 1 => p \in l.alloc /\ p \in Node
  BY <1>1 DEF List, Nth
<1>6. /\ d \in OutboxType /\ ~d.fault /\ d.alloc = l.alloc \ {q[j]}
      /\ d.current = IF j = c THEN l.next[q[j]] ELSE l.current
      /\ d.prev = IF l.prev = q[j] THEN p ELSE l.prev
      /\ d.first = IF j > 1 THEN l.first ELSE l.next[q[j]]
      /\ d.last = IF n = 1 THEN NULL ELSE IF j = n THEN p ELSE l.last
      /\ d.next = IF j > 1 THEN [l.next EXCEPT ![p] = l.next[q[j]]] ELSE l.next
  <2> DEFINE k == [l EXCEPT !.current = IF @ = q[j] THEN l.next[q[j]] ELSE @,
                            !.prev    = IF @ = q[j] THEN p ELSE @,
                            !.fault   = @ \/ q[j] \notin l.alloc]
  <2>1. /\ k \in OutboxType /\ ~k.fault /\ k.alloc = l.alloc /\ k.next = l.next
        /\ k.current = IF j = c THEN l.next[q[j]] ELSE l.current
        /\ k.prev = IF l.prev = q[j] THEN p ELSE l.prev
        /\ k.first = l.first /\ k.last = l.last
    BY <1>1, <1>5 DEF OutboxType, MaybeNode
  <2>2. d = [Unlinked(k, p, q[j]) EXCEPT !.alloc = @ \ {q[j]}]
    BY DEF DoRemove
  <2> HIDE DEF k, d
  <2>3. CASE n = 1
    <3>1. Unlinked(k, p, q[j]) = [k EXCEPT !.first = NULL, !.last = NULL]
      BY <1>5, <2>1, <2>3 DEF Unlinked
    <3>2. d = [[k EXCEPT !.first = NULL, !.last = NULL] EXCEPT !.alloc = @ \ {q[j]}]
      BY <2>2, <3>1
    <3>3. d = [k EXCEPT !.first = NULL, !.last = NULL, !.alloc = k.alloc \ {q[j]}]
      BY <2>1, <3>2 DEF OutboxType
    <3>4. ~(j > 1) /\ l.next[q[j]] = NULL
      BY <1>1, <1>5, <2>3
    <3>5. d \in OutboxType /\ ~d.fault /\ d.alloc = k.alloc \ {q[j]}
          /\ d.current = k.current /\ d.prev = k.prev /\ d.next = k.next
          /\ d.first = NULL /\ d.last = NULL
      BY <2>1, <3>3 DEF OutboxType, MaybeNode
    <3> QED BY <2>1, <2>3, <3>4, <3>5
  <2>4. CASE n > 1 /\ j = 1
    <3>1. Unlinked(k, p, q[j]) = [k EXCEPT !.first = k.next[q[j]]]
      BY <1>5, <2>1, <2>4 DEF Unlinked
    <3>2. k.next[q[j]] \in MaybeNode
      BY <1>1, <2>1 DEF OutboxType
    <3>3. d = [k EXCEPT !.first = k.next[q[j]], !.alloc = k.alloc \ {q[j]}]
      BY <2>1, <2>2, <3>1 DEF OutboxType
    <3>4. ~(j > 1) /\ n # 1 /\ j # n
      BY <1>1, <2>4
    <3> QED BY <2>1, <3>2, <3>3, <3>4 DEF OutboxType
  <2>5. CASE j > 1
    <3> DEFINE u == Unlinked(k, p, q[j])
               x == [l.next EXCEPT ![p] = l.next[q[j]]]
    <3>1. u = [k EXCEPT !.last = IF j = n THEN p ELSE @, !.next = x, !.fault = FALSE]
      <4>1. CASE j = n
        <5>1. u = SetNext([k EXCEPT !.last = p], p, NULL)
          BY <1>1, <1>5, <2>1, <2>5, <4>1 DEF Unlinked
        <5> QED BY <1>1, <1>5, <2>1, <2>5, <4>1, <5>1 DEF SetNext, OutboxType
      <4>2. CASE j < n
        <5>1. u = SetNext(k, p, k.next[q[j]])
          BY <1>1, <1>5, <2>1, <2>5, <4>2 DEF Unlinked
        <5>2. u = [k EXCEPT !.next = x, !.fault = FALSE]
          BY <1>5, <2>1, <2>5, <5>1 DEF SetNext, OutboxType
        <5>3. j # n
          BY <1>1, <4>2
        <5> HIDE DEF u, x
        <5> QED BY <2>1, <5>2, <5>3 DEF OutboxType
      <4> QED BY <1>1, <4>1, <4>2
    <3>2. x \in [Node -> MaybeNode]
      BY <1>1, <1>5, <2>5 DEF OutboxType
    <3> HIDE DEF u, x
    <3>3. u \in OutboxType /\ u.alloc = k.alloc /\ ~u.fault /\ u.next = x
          /\ u.first = k.first /\ u.current = k.current /\ u.prev = k.prev
          /\ u.last = IF j = n THEN p ELSE k.last
      BY <2>1, <3>1, <3>2 DEF OutboxType
    <3>4. d = [u EXCEPT !.alloc = @ \ {q[j]}]
      BY <2>2 DEF u
    <3>5. d \in OutboxType /\ ~d.fault /\ d.alloc = u.alloc \ {q[j]} /\ d.next = u.next
          /\ d.first = u.first /\ d.current = u.current /\ d.prev = u.prev
          /\ d.last = u.last
      BY <3>3, <3>4 DEF OutboxType
    <3> QED BY <1>1, <2>1, <2>5, <3>3, <3>5 DEF x
  <2> QED BY <1>1, <2>3, <2>4, <2>5
<1> HIDE DEF d
<1>7. \A k \in 1 .. n : l.next[q[k]] = Nth(n, q, k + 1)
  BY DEF List
<1>8. \A k \in 1 .. n - 1 : d.next[r[k]] = Nth(n - 1, r, k + 1)
  <2> TAKE k \in 1 .. n - 1
  <2>1. CASE k < j - 1
    <3>1. r[k] = q[k] /\ k \in 1 .. n /\ (j > 1 => q[k] # p)
      BY <1>1, <1>2, <2>1
    <3>2. d.next[r[k]] = l.next[q[k]]
      BY <1>1, <1>5, <1>6, <3>1 DEF OutboxType
    <3> QED BY <1>1, <1>2, <1>7, <2>1, <3>1, <3>2 DEF Nth
  <2>2. CASE k = j - 1
    <3>1. r[k] = p /\ j > 1
      BY <1>1, <1>2, <2>2
    <3>2. d.next[r[k]] = l.next[q[j]]
      BY <1>5, <1>6, <3>1 DEF OutboxType
    <3> QED BY <1>1, <1>2, <1>7, <2>2, <3>2 DEF Nth
  <2>3. CASE k >= j
    <3>1. r[k] = q[k + 1] /\ k + 1 \in 1 .. n /\ (j > 1 => q[k + 1] # p)
      BY <1>1, <1>2, <2>3
    <3>2. d.next[r[k]] = l.next[q[k + 1]]
      BY <1>1, <1>5, <1>6, <3>1 DEF OutboxType
    <3> QED BY <1>1, <1>2, <1>7, <2>3, <3>1, <3>2 DEF Nth
  <2> QED BY <1>1, <2>1, <2>2, <2>3
<1>9. d.first = Nth(n - 1, r, 1) /\ d.last = Nth(n - 1, r, n - 1)
  BY <1>1, <1>2, <1>5, <1>6, <1>7 DEF Nth
<1>10. cc \in 1 .. (n - 1) + 1 /\ d.current = Nth(n - 1, r, cc)
  <2>1. c \in 1 .. n + 1 /\ l.current = Nth(n, q, c)
    BY DEF List
  <2>2. CASE j < c
    BY <1>1, <1>2, <1>6, <2>1, <2>2 DEF Nth
  <2>3. CASE j = c
    BY <1>1, <1>2, <1>6, <1>7, <2>1, <2>3 DEF Nth
  <2>4. CASE j > c
    BY <1>1, <1>2, <1>6, <2>1, <2>4 DEF Nth
  <2> QED BY <1>1, <2>1, <2>2, <2>3, <2>4
<1>11. cc > 1 => d.prev = r[cc - 1]
  <2>1. c \in 1 .. n + 1 /\ (c > 1 => l.prev = q[c - 1])
    BY DEF List
  <2> QED BY <1>1, <1>2, <1>6, <2>1
<1>12. List(d, n - 1, r, cc)
  <2> HIDE DEF r, cc
  <2> QED BY <1>1, <1>2, <1>3, <1>4, <1>6, <1>8, <1>9, <1>10, <1>11 DEF List
<1> QED BY <1>12 DEF d

\* resetCurrent and next (Outbox.h:175-192).
LEMMA ResetList ==
  ASSUME NEW l, NEW n, NEW q, NEW c, List(l, n, q, c)
  PROVE  List([l EXCEPT !.current = l.first], n, q, 1)
<1> DEFINE d == [l EXCEPT !.current = l.first]
<1>1. /\ d \in OutboxType /\ d.alloc = l.alloc /\ d.next = l.next /\ d.prev = l.prev
      /\ d.first = l.first /\ d.last = l.last /\ d.fault = l.fault
      /\ d.current = l.first
  BY DEF List, OutboxType
<1> HIDE DEF d
<1>2. List(d, n, q, 1)
  BY <1>1 DEF List
<1> QED BY <1>2 DEF d

LEMMA NextList ==
  ASSUME NEW l, NEW n, NEW q, NEW c, List(l, n, q, c), l.current # NULL
  PROVE  List([l EXCEPT !.prev = l.current, !.current = l.next[l.current],
                        !.fault = @ \/ l.current \notin l.alloc], n, q, c + 1)
<1> DEFINE d == [l EXCEPT !.prev = l.current, !.current = l.next[l.current],
                          !.fault = @ \/ l.current \notin l.alloc]
<1>1. c \in 1 .. n /\ n \in Nat /\ l.current = q[c] /\ q[c] \in Node /\ q[c] \in l.alloc
  BY DEF List, Nth
<1>2. /\ d \in OutboxType /\ d.alloc = l.alloc /\ d.next = l.next /\ d.prev = q[c]
      /\ d.first = l.first /\ d.last = l.last /\ d.fault = l.fault
      /\ d.current = l.next[q[c]]
  BY <1>1 DEF List, OutboxType, MaybeNode
<1> HIDE DEF d
<1>3. l.next[q[c]] = Nth(n, q, c + 1) /\ c + 1 \in 1 .. n + 1 /\ (c + 1) - 1 = c
  BY <1>1 DEF List
<1>4. List(d, n, q, c + 1)
  BY <1>1, <1>2, <1>3 DEF List
<1> QED BY <1>4 DEF d

\* An iterator that is not in use stands at the end of any list.
LEMMA IdleIterator ==
  ASSUME NEW t \in [node : MaybeNode, prev : MaybeNode], t.node = NULL,
         NEW n \in Nat, NEW q
  PROVE  IterAt(t, n, q, 0)
BY DEF IterAt, Nth

\* What the operations leave in the nodes.
LEMMA EmplaceData ==
  ASSUME NEW l \in OutboxType, NEW m \in Node, NEW x \in Item
  PROVE  DoEmplace(l, m, x).data = [l.data EXCEPT ![m] = x]
<1> DEFINE k == NewNode(l, m, x)
<1>1. k.data = [l.data EXCEPT ![m] = x] /\ k \in OutboxType
  BY DEF NewNode, OutboxType, MaybeNode
<1> HIDE DEF k
<1> DEFINE u == IF k.first = NULL THEN [k EXCEPT !.first = m, !.current = m]
                ELSE SetNext(k, k.last, m)
<1>2. u.data = k.data
  BY <1>1 DEF SetNext, OutboxType
<1>3. DoEmplace(l, m, x) =
        [u EXCEPT !.last = m, !.current = IF u.current = NULL THEN m ELSE @]
  BY DEF DoEmplace, Linked, k
<1> DEFINE v == [u EXCEPT !.last = m, !.current = IF u.current = NULL THEN m ELSE @]
<1>4. v.data = u.data
  BY <1>1 DEF SetNext, OutboxType
<1> HIDE DEF u, v
<1> QED BY <1>1, <1>2, <1>3, <1>4 DEF v

LEMMA EmplaceFrontData ==
  ASSUME NEW l \in OutboxType, NEW m \in Node, NEW x \in Item
  PROVE  DoEmplaceFront(l, m, x).data = [l.data EXCEPT ![m] = x]
BY DEF DoEmplaceFront, NewNode, SetNext, OutboxType

LEMMA RemoveData ==
  ASSUME NEW l \in OutboxType, NEW p, NEW m \in Node
  PROVE  DoRemove(l, p, m).data = l.data
<1> DEFINE k == [l EXCEPT !.current = IF @ = m THEN l.next[m] ELSE @,
                          !.prev    = IF @ = m THEN p ELSE @,
                          !.fault   = @ \/ m \notin l.alloc]
           u == Unlinked(k, p, m)
<1>1. k.data = l.data
  BY DEF OutboxType
<1>2. u.data = k.data
  BY DEF Unlinked, SetNext, OutboxType
<1>3. DoRemove(l, p, m) = [u EXCEPT !.alloc = @ \ {m}]
  BY DEF DoRemove
<1>4. [u EXCEPT !.alloc = @ \ {m}].data = u.data
  BY DEF Unlinked, SetNext, OutboxType
<1> HIDE DEF u, k
<1> QED BY <1>1, <1>2, <1>3, <1>4
-----------------------------------------------------------------------------
LEMMA InitList ==
  ASSUME Init
  PROVE  LET q == [k \in 1 .. 0 |-> NULL]
         IN  List(ob, 0, q, 1) /\ IterAt(it, 0, q, 0)
<1> DEFINE q == [k \in 1 .. 0 |-> NULL]
<1>1. q \in [1 .. 0 -> Node] /\ Distinct(0, q) /\ {q[k] : k \in 1 .. 0} = {}
  BY DEF Distinct
<1>2. ob \in OutboxType /\ ~ob.fault /\ ob.alloc = {} /\ ob.first = NULL
      /\ ob.last = NULL /\ ob.current = NULL
  BY DEF Init, OutboxType, MaybeNode
<1>3. List(ob, 0, q, 1)
  <2> HIDE DEF q
  <2> QED BY <1>1, <1>2 DEF List, Nth
<1>4. IterAt(it, 0, q, 0)
  BY IdleIterator DEF Init, NoIter, MaybeNode
<1> QED BY <1>3, <1>4

LEMMA InitIInv == Init => IInv
BY InitList DEF IInv, List, IterAt

\* What each operation leaves of the layout, and of the data where it is not
\* said by DoEmplace, DoEmplaceFront or DoRemove.
LEMMA StepList ==
  ASSUME NEW n, NEW q, NEW c, NEW i, List(ob, n, q, c), IterAt(it, n, q, i)
  PROVE  /\ EmplaceItem =>
              \E m \in Node \ ob.alloc, x \in Item :
                ob' = DoEmplace(ob, m, x) /\ Leaves(n + 1, Add(n, q, m), c, i)
         /\ EmplaceUndone =>
              \E m \in Node \ ob.alloc, x \in Item :
                ob'.data = [ob.data EXCEPT ![m] = x] /\ Leaves(n, q, c, i)
         /\ EmplaceFrontItem =>
              i = 0 /\ \E m \in Node \ ob.alloc, x \in Item :
                ob' = DoEmplaceFront(ob, m, x) /\ Leaves(n + 1, AddFront(n, q, m), 1, 0)
         /\ EmplaceFrontUndone =>
              i = 0 /\ \E m \in Node \ ob.alloc, x \in Item :
                ob'.data = [ob.data EXCEPT ![m] = x] /\ Leaves(n, q, 1, 0)
         /\ RemoveCurrentNode =>
              i = 0 /\ c \in 1 .. n
              /\ ob'.data = ob.data /\ Leaves(n - 1, Del(n, q, c), c, 0)
         /\ ResetCurrentNode => i = 0 /\ ob'.data = ob.data /\ Leaves(n, q, 1, 0)
         /\ NextNode => c \in 1 .. n /\ ob'.data = ob.data /\ Leaves(n, q, c + 1, i)
         /\ Front => ob' = ob /\ i = 0 /\ Leaves(n, q, c, IF n = 0 THEN 0 ELSE 1)
         /\ Increment => ob' = ob /\ i # 0 /\ Leaves(n, q, c, IF i = n THEN 0 ELSE i + 1)
         /\ RemoveIterator =>
              i \in 1 .. n /\ ob'.data = ob.data
              /\ Leaves(n - 1, Del(n, q, i), IF i < c THEN c - 1 ELSE c,
                        IF i = n THEN 0 ELSE i)
         /\ EndIterator => ob' = ob /\ Leaves(n, q, c, 0)
         /\ UNCHANGED vars => ob' = ob /\ Leaves(n, q, c, i)
<1>1. /\ ob \in OutboxType /\ it \in [node : MaybeNode, prev : MaybeNode]
      /\ n \in Nat /\ q \in [1 .. n -> Node] /\ c \in 1 .. n + 1 /\ i \in 0 .. n
      /\ \A k \in 1 .. n : q[k] \in Node /\ q[k] # NULL /\ q[k] \in ob.alloc
  BY NullAssumption DEF List, IterAt
<1>2. ASSUME Idle, it' = it PROVE i = 0 /\ \A m \in Nat : \A r : IterAt(it', m, r, 0)
  <2>1. it' \in [node : MaybeNode, prev : MaybeNode] /\ it'.node = NULL
    BY <1>1, <1>2 DEF Idle
  <2>2. i = 0
    BY <1>1, <1>2 DEF Idle, IterAt, Nth
  <2> QED BY <2>1, <2>2, IdleIterator
<1>3. ASSUME it.node # NULL
      PROVE  /\ i \in 1 .. n /\ it.node = q[i] /\ it.prev \in MaybeNode
             /\ i > 1 => it.prev = q[i - 1]
             /\ ob.next[q[i]] = Nth(n, q, i + 1) /\ ob.next[q[i]] \in MaybeNode
  BY <1>1, <1>3 DEF IterAt, List, Nth, OutboxType
<1>4. ASSUME EmplaceItem
      PROVE  \E m \in Node \ ob.alloc, x \in Item :
               ob' = DoEmplace(ob, m, x) /\ Leaves(n + 1, Add(n, q, m), c, i)
  <2>1. PICK m \in Node \ ob.alloc, x \in Item : ob' = DoEmplace(ob, m, x)
    BY <1>4 DEF EmplaceItem
  <2>2. List(ob', n + 1, Add(n, q, m), c)
    <3>1. List(DoEmplace(ob, m, x), n + 1, Add(n, q, m), c)
      BY EmplaceList
    <3> QED BY <2>1, <3>1
  <2>3. IterAt(it', n + 1, Add(n, q, m), i)
    BY <1>1, <1>4 DEF EmplaceItem, IterAt, Nth, Add
  <2> QED BY <2>1, <2>2, <2>3 DEF Leaves
<1>5. ASSUME EmplaceUndone
      PROVE  \E m \in Node \ ob.alloc, x \in Item :
               ob'.data = [ob.data EXCEPT ![m] = x] /\ Leaves(n, q, c, i)
  <2>1. PICK m \in Node \ ob.alloc, x \in Item :
          ob' = DoRemove(DoEmplace(ob, m, x), EmplacedPrev(ob), m)
    BY <1>5 DEF EmplaceUndone
  <2> DEFINE r == Add(n, q, m)
             e == DoEmplace(ob, m, x)
  <2>2. List(e, n + 1, r, c)
    BY EmplaceList
  <2>3. r[n + 1] = m /\ n + 1 \in 1 .. n + 1 /\ EmplacedPrev(ob) \in MaybeNode
        /\ (n + 1 > 1 => EmplacedPrev(ob) = r[n])
    <3>1. r[n + 1] = m /\ n + 1 \in 1 .. n + 1
      BY <1>1 DEF Add
    <3>2. EmplacedPrev(ob) \in MaybeNode
      BY <1>1 DEF EmplacedPrev, OutboxType, MaybeNode
    <3>3. CASE n = 0
      BY <3>1, <3>2, <3>3
    <3>4. CASE n # 0
      <4>1. n \in 1 .. n /\ 1 \in 1 .. n /\ r[n] = q[n]
        BY <1>1, <3>4 DEF Add
      <4>2. ob.first # NULL /\ ob.last = q[n]
        BY <1>1, <4>1 DEF List, Nth
      <4>3. EmplacedPrev(ob) = r[n]
        BY <4>1, <4>2 DEF EmplacedPrev
      <4> QED BY <3>1, <3>2, <4>3
    <3> QED BY <3>3, <3>4
  <2>4. Del(n + 1, r, n + 1) = q
    BY <1>1 DEF Add, Del
  <2>5. (n + 1) - 1 = n /\ (IF n + 1 < c THEN c - 1 ELSE c) = c
    BY <1>1
  <2>6. List(ob', n, q, c)
    <3> HIDE DEF r, e
    <3>1. List(DoRemove(e, EmplacedPrev(ob), r[n + 1]), (n + 1) - 1,
               Del(n + 1, r, n + 1), IF n + 1 < c THEN c - 1 ELSE c)
      BY <2>2, <2>3, <2>5, RemoveList
    <3>2. ob' = DoRemove(e, EmplacedPrev(ob), r[n + 1])
      BY <2>1, <2>3 DEF e
    <3> QED BY <2>4, <2>5, <3>1, <3>2
  <2>7. IterAt(it', n, q, i)
    BY <1>5 DEF EmplaceUndone
  <2>8. ob'.data = [ob.data EXCEPT ![m] = x]
    <3>1. e.data = [ob.data EXCEPT ![m] = x]
      BY <1>1, EmplaceData
    <3>2. e \in OutboxType
      BY <2>2 DEF List
    <3> HIDE DEF e
    <3>3. DoRemove(e, EmplacedPrev(ob), m).data = e.data
      BY <3>2, RemoveData
    <3> QED BY <2>1, <3>1, <3>3 DEF e
  <2> QED BY <2>6, <2>7, <2>8 DEF Leaves
<1>6. ASSUME EmplaceFrontItem
      PROVE  i = 0 /\ \E m \in Node \ ob.alloc, x \in Item :
               ob' = DoEmplaceFront(ob, m, x) /\ Leaves(n + 1, AddFront(n, q, m), 1, 0)
  <2>1. PICK m \in Node \ ob.alloc, x \in Item : ob' = DoEmplaceFront(ob, m, x)
    BY <1>6 DEF EmplaceFrontItem
  <2>2. List(ob', n + 1, AddFront(n, q, m), 1)
    <3>1. List(DoEmplaceFront(ob, m, x), n + 1, AddFront(n, q, m), 1)
      BY EmplaceFrontList
    <3> QED BY <2>1, <3>1
  <2>3. i = 0 /\ IterAt(it', n + 1, AddFront(n, q, m), 0)
    BY <1>1, <1>2, <1>6 DEF EmplaceFrontItem
  <2> QED BY <2>1, <2>2, <2>3 DEF Leaves
<1>7. ASSUME EmplaceFrontUndone
      PROVE  i = 0 /\ \E m \in Node \ ob.alloc, x \in Item :
               ob'.data = [ob.data EXCEPT ![m] = x] /\ Leaves(n, q, 1, 0)
  <2>1. PICK m \in Node \ ob.alloc, x \in Item :
          ob' = DoRemove(DoEmplaceFront(ob, m, x), NULL, m)
    BY <1>7 DEF EmplaceFrontUndone
  <2> DEFINE r == AddFront(n, q, m)
             e == DoEmplaceFront(ob, m, x)
  <2>2. List(e, n + 1, r, 1)
    BY EmplaceFrontList
  <2>3. r[1] = m /\ 1 \in 1 .. n + 1 /\ NULL \in MaybeNode
        /\ (1 > 1 => NULL = r[1 - 1])
    BY <1>1 DEF AddFront, MaybeNode
  <2>4. (n + 1) - 1 = n
    BY <1>1
  <2>5. Del(n + 1, r, 1) = q
    <3>1. \A k \in 1 .. n : ~(k < 1) /\ r[k + 1] = q[k]
      BY <1>1 DEF AddFront
    <3>2. Del(n + 1, r, 1) = [k \in 1 .. n |-> q[k]]
      BY <2>4, <3>1 DEF Del
    <3> QED BY <1>1, <3>2
  <2>6. e.data = [ob.data EXCEPT ![m] = x] /\ e \in OutboxType
    BY <1>1, <2>2, EmplaceFrontData DEF List
  <2> HIDE DEF r, e
  <2>7. List(DoRemove(e, NULL, r[1]), (n + 1) - 1, Del(n + 1, r, 1), 1)
    <3>1. List(DoRemove(e, NULL, r[1]), (n + 1) - 1, Del(n + 1, r, 1),
               IF 1 < 1 THEN 1 - 1 ELSE 1)
      BY <2>2, <2>3, RemoveList
    <3> QED BY <3>1
  <2>8. ob' = DoRemove(e, NULL, r[1])
    BY <2>1, <2>3 DEF e
  <2>9. List(ob', n, q, 1)
    BY <2>4, <2>5, <2>7, <2>8
  <2>10. ob'.data = [ob.data EXCEPT ![m] = x]
    <3>1. DoRemove(e, NULL, r[1]).data = e.data
      BY <2>3, <2>6, RemoveData
    <3> QED BY <2>6, <2>8, <3>1
  <2>11. i = 0 /\ IterAt(it', n, q, 0)
    BY <1>1, <1>2, <1>7 DEF EmplaceFrontUndone
  <2> QED BY <2>9, <2>10, <2>11 DEF Leaves
<1>8. ASSUME RemoveCurrentNode
      PROVE  i = 0 /\ c \in 1 .. n
             /\ ob'.data = ob.data /\ Leaves(n - 1, Del(n, q, c), c, 0)
  <2>1. c \in 1 .. n /\ ob.current = q[c] /\ ob.prev \in MaybeNode
        /\ (c > 1 => ob.prev = q[c - 1])
    BY <1>1, <1>8 DEF RemoveCurrentNode, List, Nth, OutboxType
  <2>2. List(DoRemove(ob, ob.prev, q[c]), n - 1, Del(n, q, c), IF c < c THEN c - 1 ELSE c)
    BY <2>1, RemoveList
  <2>3. ob' = DoRemove(ob, ob.prev, q[c])
    BY <1>8, <2>1 DEF RemoveCurrentNode
  <2>4. List(ob', n - 1, Del(n, q, c), c)
    BY <2>1, <2>2, <2>3
  <2>5. ob'.data = ob.data
    BY <1>1, <2>1, <2>3, RemoveData
  <2>6. i = 0 /\ IterAt(it', n - 1, Del(n, q, c), 0)
    <3>1. n - 1 \in Nat
      BY <1>1, <2>1
    <3> QED BY <1>2, <1>8, <3>1 DEF RemoveCurrentNode
  <2> QED BY <2>1, <2>4, <2>5, <2>6 DEF Leaves
<1>9. ASSUME ResetCurrentNode
      PROVE  i = 0 /\ ob'.data = ob.data /\ Leaves(n, q, 1, 0)
  <2>1. List(ob', n, q, 1)
    BY <1>9, ResetList DEF ResetCurrentNode
  <2>2. ob'.data = ob.data
    BY <1>1, <1>9 DEF ResetCurrentNode, OutboxType
  <2> QED BY <1>1, <1>2, <1>9, <2>1, <2>2 DEF ResetCurrentNode, Leaves
<1>10. ASSUME NextNode
       PROVE  c \in 1 .. n /\ ob'.data = ob.data /\ Leaves(n, q, c + 1, i)
  <2>1. ob.current # NULL
    BY <1>10 DEF NextNode
  <2>2. List(ob', n, q, c + 1)
    <3>1. List([ob EXCEPT !.prev = ob.current, !.current = ob.next[ob.current],
                          !.fault = @ \/ ob.current \notin ob.alloc], n, q, c + 1)
      BY <2>1, NextList
    <3> QED BY <1>10, <3>1 DEF NextNode
  <2>3. c \in 1 .. n /\ ob'.data = ob.data
    BY <1>1, <1>10, <2>1 DEF NextNode, OutboxType, List, Nth
  <2> QED BY <1>10, <2>2, <2>3 DEF NextNode, Leaves
<1>11. ASSUME Front
       PROVE  ob' = ob /\ i = 0 /\ Leaves(n, q, c, IF n = 0 THEN 0 ELSE 1)
  <2>1. ob' = ob /\ i = 0
    BY <1>1, <1>11 DEF Front, NoIter, IterAt, Nth
  <2>2. IterAt(it', n, q, IF n = 0 THEN 0 ELSE 1)
    <3>1. it' = [node |-> Nth(n, q, 1), prev |-> NULL] /\ Nth(n, q, 1) \in MaybeNode
      BY <1>1, <1>11 DEF Front, List, OutboxType
    <3> QED BY <1>1, <3>1 DEF IterAt, Nth, MaybeNode
  <2> QED BY <2>1, <2>2 DEF Leaves
<1>12. ASSUME Increment
       PROVE  ob' = ob /\ i # 0 /\ Leaves(n, q, c, IF i = n THEN 0 ELSE i + 1)
  <2>1. it.node # NULL
    BY <1>12 DEF Increment
  <2>2. ob' = ob
    <3>1. ob.fault = FALSE /\ it.node \in ob.alloc
      BY <1>1, <1>3, <2>1 DEF List, OutboxType
    <3>2. ob' = [ob EXCEPT !.fault = FALSE]
      BY <1>12, <3>1 DEF Increment
    <3> QED BY <1>1, <3>1, <3>2 DEF OutboxType
  <2>3. IterAt(it', n, q, IF i = n THEN 0 ELSE i + 1)
    <3>1. /\ i \in 1 .. n /\ Nth(n, q, i + 1) \in MaybeNode /\ q[i] \in MaybeNode
          /\ it' = [node |-> Nth(n, q, i + 1), prev |-> q[i]]
      BY <1>1, <1>3, <1>12, <2>1 DEF Increment, MaybeNode
    <3>2. CASE i = n
      <4>1. Nth(n, q, i + 1) = NULL
        BY <1>1, <3>2 DEF Nth
      <4> QED BY <1>1, <3>1, <3>2, <4>1, IdleIterator
    <3>3. CASE i # n
      <4>1. i + 1 \in 0 .. n /\ (i + 1) - 1 = i
        BY <1>1, <3>1, <3>3
      <4> QED BY <3>1, <3>3, <4>1 DEF IterAt
    <3> QED BY <3>2, <3>3
  <2> QED BY <1>3, <2>1, <2>2, <2>3 DEF Leaves
<1>13. ASSUME RemoveIterator
       PROVE  i \in 1 .. n /\ ob'.data = ob.data
              /\ Leaves(n - 1, Del(n, q, i), IF i < c THEN c - 1 ELSE c,
                        IF i = n THEN 0 ELSE i)
  <2> DEFINE r == Del(n, q, i)
             b == IF i < c THEN c - 1 ELSE c
  <2>1. it.node # NULL
    BY <1>13 DEF RemoveIterator
  <2>2. List(DoRemove(ob, it.prev, q[i]), n - 1, r, b)
    BY <1>3, <2>1, RemoveList
  <2>3. ob' = DoRemove(ob, it.prev, q[i]) /\ it' = [it EXCEPT !.node = ob.next[q[i]]]
    BY <1>3, <1>13, <2>1 DEF RemoveIterator
  <2>4. IterAt(it', n - 1, r, IF i = n THEN 0 ELSE i)
    <3>1. /\ it'.node = Nth(n, q, i + 1) /\ it'.prev = it.prev
          /\ it' \in [node : MaybeNode, prev : MaybeNode]
      BY <1>1, <1>3, <2>1, <2>3
    <3>2. /\ i \in 1 .. n /\ (i > 1 => it.prev = q[i - 1])
          /\ \A k \in 1 .. n - 1 : r[k] = IF k < i THEN q[k] ELSE q[k + 1]
      BY <1>3, <2>1 DEF Del
    <3> HIDE DEF r
    <3>3. CASE i = n
      BY <1>1, <3>1, <3>2, <3>3 DEF IterAt, Nth
    <3>4. CASE i < n
      <4>1. i \in 1 .. n - 1 /\ r[i] = q[i + 1] /\ i + 1 \in 1 .. n
            /\ (i > 1 => r[i - 1] = q[i - 1])
        BY <1>1, <3>2, <3>4
      <4> QED BY <1>1, <3>1, <3>2, <3>4, <4>1 DEF IterAt, Nth
    <3> QED BY <1>1, <3>2, <3>3, <3>4
  <2>5. List(ob', n - 1, r, b)
    <3> HIDE DEF r, b
    <3> QED BY <2>2, <2>3
  <2>6. i \in 1 .. n /\ ob'.data = ob.data
    <3>1. i \in 1 .. n /\ q[i] \in Node
      BY <1>1, <1>3, <2>1
    <3> QED BY <1>1, <2>3, <3>1, RemoveData
  <2> QED BY <2>4, <2>5, <2>6 DEF Leaves
<1>14. ASSUME EndIterator PROVE ob' = ob /\ Leaves(n, q, c, 0)
  <2>1. List(ob', n, q, c) /\ IterAt(it', n, q, 0)
    BY <1>1, <1>14 DEF EndIterator, IterAt, NoIter, Nth, MaybeNode
  <2> QED BY <1>14, <2>1 DEF EndIterator, Leaves
<1>15. ASSUME UNCHANGED vars PROVE ob' = ob /\ Leaves(n, q, c, i)
  BY <1>15 DEF vars, Leaves
<1> QED BY <1>4, <1>5, <1>6, <1>7, <1>8, <1>9, <1>10, <1>11, <1>12, <1>13, <1>14, <1>15

LEMMA StepIInv == IInv /\ [Next]_vars => IInv'
<1> SUFFICES ASSUME NEW n, NEW q, NEW c, NEW i, List(ob, n, q, c), IterAt(it, n, q, i),
                    [Next]_vars
             PROVE  IInv'
  BY DEF IInv
<1>1. ASSUME NEW m, NEW r, NEW b, NEW k, Leaves(m, r, b, k) PROVE IInv'
  BY <1>1 DEF IInv, Leaves, List, IterAt
<1> HIDE DEF IInv
<1>2. CASE EmplaceItem
  <2>1. \E m : Leaves(n + 1, Add(n, q, m), c, i)
    BY <1>2, StepList, Zenon
  <2> QED BY <1>1, <2>1, Zenon
<1>3. CASE EmplaceUndone
  <2>1. Leaves(n, q, c, i)
    BY <1>3, StepList, Zenon
  <2> QED BY <1>1, <2>1, Zenon
<1>4. CASE EmplaceFrontItem
  BY <1>1, <1>4, StepList, Zenon
<1>5. CASE EmplaceFrontUndone
  BY <1>1, <1>5, StepList, Zenon
<1>6. CASE RemoveCurrentNode
  BY <1>1, <1>6, StepList, Zenon
<1>7. CASE ResetCurrentNode
  BY <1>1, <1>7, StepList, Zenon
<1>8. CASE NextNode
  <2>1. Leaves(n, q, c + 1, i)
    BY <1>8, StepList, Zenon
  <2> QED BY <1>1, <2>1, Zenon
<1>9. CASE Front
  BY <1>1, <1>9, StepList, Zenon
<1>10. CASE Increment
  <2>1. Leaves(n, q, c, IF i = n THEN 0 ELSE i + 1)
    BY <1>10, StepList, Zenon
  <2> QED BY <1>1, <2>1, Zenon
<1>11. CASE RemoveIterator
  <2>1. Leaves(n - 1, Del(n, q, i), IF i < c THEN c - 1 ELSE c,
              IF i = n THEN 0 ELSE i)
    BY <1>11, StepList, Zenon
  <2> QED BY <1>1, <2>1, Zenon
<1>12. CASE EndIterator
  <2>1. Leaves(n, q, c, 0)
    BY <1>12, StepList, Zenon
  <2> QED BY <1>1, <2>1, Zenon
<1>13. CASE UNCHANGED vars
  <2>1. Leaves(n, q, c, i)
    BY <1>13, StepList, Zenon
  <2> QED BY <1>1, <2>1, Zenon
<1> QED BY <1>2, <1>3, <1>4, <1>5, <1>6, <1>7, <1>8, <1>9, <1>10, <1>11, <1>12,
           <1>13 DEF Next
-----------------------------------------------------------------------------
\* For any set of addresses, the pointers always lay out a list.
LEMMA ListAlways == Spec => []IInv
BY InitIInv, StepIInv, PTL DEF Spec

\* What the layout says of the list's ends.
LEMMA IInvConsequences == IInv => TypeOK /\ NoFault /\ EndsSound
<1> SUFFICES ASSUME IInv PROVE TypeOK /\ NoFault /\ EndsSound
  OBVIOUS
<1> PICK n \in Nat : \E q \in [1 .. n -> Node], c \in 1 .. n + 1, i \in 0 .. n :
      List(ob, n, q, c) /\ IterAt(it, n, q, i)
  BY DEF IInv
<1> PICK q \in [1 .. n -> Node], c \in 1 .. n + 1, i \in 0 .. n :
      List(ob, n, q, c) /\ IterAt(it, n, q, i)
  OBVIOUS
<1>1. TypeOK /\ NoFault
  BY DEF List, IterAt, TypeOK, NoFault
<1>2. /\ \A k \in 1 .. n : q[k] \in ob.alloc /\ q[k] # NULL
      /\ \A k : Nth(n, q, k) \in ob.alloc \cup {NULL}
  BY NullAssumption, ZenonT(60) DEF List, Nth
<1>3. {ob.first, ob.current, it.node} \subseteq ob.alloc \cup {NULL}
  <2>1. ob.first = Nth(n, q, 1) /\ ob.current = Nth(n, q, c) /\ it.node = Nth(n, q, i)
    BY DEF List, IterAt
  <2> QED BY <1>2, <2>1
<1>4. CASE n = 0
  <2>1. ob.first = NULL
    BY <1>4 DEF List, Nth
  <2>2. ob.alloc = {}
    BY <1>4 DEF List
  <2> QED BY <1>1, <1>3, <2>1, <2>2 DEF EndsSound
<1>5. CASE n > 0
  <2>1. ob.first = q[1] /\ ob.last = q[n] /\ 1 \in 1 .. n /\ n \in 1 .. n
    BY <1>5 DEF List, Nth
  <2>2. ob.next[q[n]] = NULL
    BY <2>1 DEF List, Nth
  <2>3. ob.first # NULL /\ ob.alloc # {}
    BY <1>2, <2>1
  <2>4. ob.last \in ob.alloc /\ ob.next[ob.last] = NULL
    BY <1>2, <2>1, <2>2
  <2> QED BY <1>1, <1>3, <2>3, <2>4 DEF EndsSound
<1> QED BY <1>1, <1>4, <1>5

\* The pointers and the iterator of Outbox.h keep their types.
THEOREM TypeCorrect == Spec => []TypeOK
BY ListAlways, IInvConsequences, PTL

\* No operation of Outbox.h follows a pointer to a deleted node, whatever
\* sequence of calls made _prev stale.
THEOREM NeverFaults == Spec => []NoFault
BY ListAlways, IInvConsequences, PTL

\* Head, tail, cursor and iterator of Outbox.h stay within the live nodes, and
\* an emptied list has leaked none.
THEOREM EndsStaySound == Spec => []EndsSound
BY ListAlways, IInvConsequences, PTL

-----------------------------------------------------------------------------
(* The queue that a list represents *)

\* f unfolds the definition of the chains of links in Nodes up to m.
Links(l, m, f) ==
  f = [k \in 0 .. m |->
         [n \in MaybeNode |->
            IF k = 0 \/ n = NULL THEN <<>> ELSE <<n>> \o f[k - 1][l.next[n]]]]

\* The same, one value at a time.
LinkSteps(l, m, f) ==
  /\ DOMAIN f = 0 .. m
  /\ \A k \in 0 .. m : DOMAIN f[k] = MaybeNode
  /\ \A n \in MaybeNode : f[0][n] = <<>>
  /\ \A k \in 1 .. m : \A n \in MaybeNode :
       f[k][n] = IF n = NULL THEN <<>> ELSE <<n>> \o f[k - 1][l.next[n]]

LEMMA LinksStep ==
  ASSUME NEW l, NEW m \in Nat, NEW f, Links(l, m, f)
  PROVE  LinkSteps(l, m, f)
<1>1. DOMAIN f = 0 .. m
  BY DEF Links
<1>2. \A k \in 0 .. m :
        f[k] = [n \in MaybeNode |->
                  IF k = 0 \/ n = NULL THEN <<>> ELSE <<n>> \o f[k - 1][l.next[n]]]
  BY Zenon DEF Links
<1>3. ASSUME NEW k \in 0 .. m
      PROVE  /\ DOMAIN f[k] = MaybeNode
             /\ \A n \in MaybeNode :
                  f[k][n] = IF k = 0 \/ n = NULL THEN <<>>
                            ELSE <<n>> \o f[k - 1][l.next[n]]
  BY <1>2, Zenon
<1>4. \A n \in MaybeNode : f[0][n] = <<>>
  <2>1. 0 \in 0 .. m
    OBVIOUS
  <2> QED BY <1>3, <2>1, Zenon
<1>5. ASSUME NEW k \in 1 .. m, NEW n \in MaybeNode
      PROVE  f[k][n] = IF n = NULL THEN <<>> ELSE <<n>> \o f[k - 1][l.next[n]]
  <2>1. k \in 0 .. m /\ k # 0
    OBVIOUS
  <2> QED BY <1>3, <2>1, Zenon
<1> QED BY <1>1, <1>3, <1>4, <1>5, Zenon DEF LinkSteps

LEMMA SomeLinks ==
  ASSUME NEW l
  PROVE  \A m \in Nat : \E f : Links(l, m, f)
<1> DEFINE T == {m \in Nat : \E f : Links(l, m, f)}
<1>1. 0 \in T
  <2> DEFINE g == [k \in 0 .. 0 |-> [n \in MaybeNode |-> <<>>]]
             h == [k \in 0 .. 0 |->
                     [n \in MaybeNode |->
                        IF k = 0 \/ n = NULL THEN <<>> ELSE <<n>> \o g[k - 1][l.next[n]]]]
  <2>1. \A k \in 0 .. 0 : k = 0
    OBVIOUS
  <2>2. g = h
    BY <2>1, Zenon
  <2>3. Links(l, 0, g)
    BY <2>2, Zenon DEF Links
  <2> QED BY <2>3, Zenon
<1>2. ASSUME NEW m \in Nat, m \in T PROVE m + 1 \in T
  <2>1. PICK f : Links(l, m, f)
    BY <1>2
  <2> DEFINE x(k, p) == [n \in MaybeNode |->
                        IF k = 0 \/ n = NULL THEN <<>> ELSE <<n>> \o p[l.next[n]]]
             g == [k \in 0 .. m + 1 |-> x(k, f[k - 1])]
             h == [k \in 0 .. m + 1 |-> x(k, g[k - 1])]
  <2>2. \A k \in 0 .. m : f[k] = x(k, f[k - 1])
    BY <2>1, Zenon DEF Links
  <2>3. \A k \in 0 .. m + 1 : g[k] = x(k, f[k - 1])
    BY Zenon
  <2>4. ASSUME NEW k \in 0 .. m + 1 PROVE x(k, f[k - 1]) = x(k, g[k - 1])
    <3>1. CASE k = 0
      BY <3>1, Zenon
    <3>2. CASE k # 0
      <4>1. k - 1 \in 0 .. m /\ k - 1 \in 0 .. m + 1
        BY <3>2
      <4>2. g[k - 1] = f[k - 1]
        BY <2>2, <2>3, <4>1, Zenon
      <4> QED BY <4>2, Zenon
    <3> QED BY <3>1, <3>2
  <2>5. g = h
    <3> HIDE DEF x
    <3> QED BY <2>4, Zenon
  <2>6. Links(l, m + 1, g)
    BY <2>5, Zenon DEF Links
  <2>7. m + 1 \in Nat
    OBVIOUS
  <2> QED BY <2>6, <2>7, Zenon
<1> HIDE DEF T
<1>3. Nat \subseteq T
  BY <1>1, <1>2, Facts!SetInduction
<1> QED BY <1>3 DEF T

\* The nodes of q from the p-th on.
Rest(n, q, p) == [k \in 1 .. n + 1 - p |-> q[p + k - 1]]

LEMMA RestStep ==
  ASSUME NEW n \in Nat, NEW q \in [1 .. n -> Node], NEW p \in 1 .. n
  PROVE  Rest(n, q, p) = <<q[p]>> \o Rest(n, q, p + 1)
<1> DEFINE s == <<q[p]>>
           t == Rest(n, q, p + 1)
           r == Rest(n, q, p)
<1>1. s \in Seq(Node) /\ Len(s) = 1 /\ s[1] = q[p]
  OBVIOUS
<1>2. /\ t \in Seq(Node) /\ Len(t) = n - p
      /\ \A k \in 1 .. n - p : t[k] = q[p + k]
  <2>1. n + 1 - (p + 1) = n - p /\ n - p \in Nat
    OBVIOUS
  <2>2. \A k \in 1 .. n - p : p + 1 + k - 1 = p + k /\ q[p + k] \in Node
    OBVIOUS
  <2>3. t = [k \in 1 .. n - p |-> q[p + k]]
    BY <2>1, <2>2 DEF Rest
  <2> QED BY <2>1, <2>2, <2>3
<1>3. /\ r \in Seq(Node) /\ Len(r) = n - p + 1
      /\ \A k \in 1 .. n - p + 1 : r[k] = q[p + k - 1]
  <2>1. n + 1 - p = n - p + 1 /\ n - p + 1 \in Nat
    OBVIOUS
  <2>2. \A k \in 1 .. n - p + 1 : q[p + k - 1] \in Node
    OBVIOUS
  <2> QED BY <2>1, <2>2 DEF Rest
<1> HIDE DEF s, t, r
<1>4. /\ s \o t \in Seq(Node) /\ Len(s \o t) = n - p + 1
      /\ \A k \in 1 .. n - p + 1 : (s \o t)[k] = IF k <= 1 THEN s[k] ELSE t[k - 1]
  <2>1. Len(s) + Len(t) = n - p + 1
    BY <1>1, <1>2
  <2>2. /\ s \o t \in Seq(Node) /\ Len(s \o t) = Len(s) + Len(t)
        /\ \A k \in 1 .. Len(s) + Len(t) :
             (s \o t)[k] = IF k <= Len(s) THEN s[k] ELSE t[k - Len(s)]
    BY <1>1, <1>2, ConcatProperties
  <2> QED BY <1>1, <2>1, <2>2
<1>5. ASSUME NEW k \in 1 .. n - p + 1 PROVE r[k] = (s \o t)[k]
  <2>1. CASE k = 1
    BY <1>1, <1>3, <1>4, <2>1
  <2>2. CASE k # 1
    <3>1. k - 1 \in 1 .. n - p /\ p + (k - 1) = p + k - 1 /\ ~(k <= 1)
      BY <2>2
    <3> QED BY <1>2, <1>3, <1>4, <3>1
  <2> QED BY <2>1, <2>2
<1>6. r = s \o t
  <2> DEFINE u == s \o t
  <2> HIDE DEF u
  <2>1. r \in Seq(Node) /\ u \in Seq(Node) /\ Len(r) = Len(u)
        /\ \A k \in 1 .. Len(r) : r[k] = u[k]
    BY <1>3, <1>4, <1>5 DEF u
  <2>2. r = u
    BY <2>1, SeqEqual
  <2> QED BY <2>2 DEF u
<1> QED BY <1>6 DEF s, t, r

LEMMA LinksLayOut ==
  ASSUME NEW l, NEW n, NEW q, NEW c, List(l, n, q, c), NEW m \in Nat,
         NEW f, Links(l, m, f)
  PROVE  \A j \in 0 .. m : \A p \in 1 .. n + 1 :
           n + 1 - p <= j => f[j][Nth(n, q, p)] = Rest(n, q, p)
<1> DEFINE P(j) == \A p \in 1 .. n + 1 :
                     n + 1 - p <= j => f[j][Nth(n, q, p)] = Rest(n, q, p)
           T == {j \in Nat : j <= m => P(j)}
<1>1. n \in Nat /\ q \in [1 .. n -> Node] /\ LinkSteps(l, m, f)
  BY LinksStep DEF List
<1>2. Nth(n, q, n + 1) = NULL /\ NULL \in MaybeNode /\ Rest(n, q, n + 1) = <<>>
  BY <1>1 DEF Nth, MaybeNode, Rest
<1>3. 0 \in T
  <2>1. \A p \in 1 .. n + 1 : n + 1 - p <= 0 => p = n + 1
    BY <1>1
  <2>2. f[0][NULL] = <<>>
    BY <1>1, <1>2 DEF LinkSteps
  <2>3. P(0)
    BY <1>2, <2>1, <2>2
  <2> QED BY <2>3
<1>4. ASSUME NEW j \in Nat, j \in T PROVE j + 1 \in T
  <2> SUFFICES ASSUME j + 1 <= m, NEW p \in 1 .. n + 1, n + 1 - p <= j + 1
               PROVE  f[j + 1][Nth(n, q, p)] = Rest(n, q, p)
    OBVIOUS
  <2>1. j + 1 \in 1 .. m /\ (j + 1) - 1 = j
    OBVIOUS
  <2>2. CASE p = n + 1
    <3>1. f[j + 1][NULL] = <<>>
      BY <1>1, <1>2, <2>1 DEF LinkSteps
    <3> QED BY <1>2, <2>2, <3>1
  <2>3. CASE p # n + 1
    <3>1. p \in 1 .. n /\ p + 1 \in 1 .. n + 1 /\ n + 1 - (p + 1) <= j
      BY <1>1, <2>3
    <3>2. q[p] \in MaybeNode /\ q[p] # NULL /\ Nth(n, q, p) = q[p]
      BY <1>1, <3>1, NullAssumption DEF MaybeNode, Nth
    <3>3. l.next[q[p]] = Nth(n, q, p + 1)
      BY <3>1 DEF List
    <3>4. f[j + 1][q[p]] = <<q[p]>> \o f[j][l.next[q[p]]]
      BY <1>1, <2>1, <3>2, Zenon DEF LinkSteps
    <3>5. f[j][Nth(n, q, p + 1)] = Rest(n, q, p + 1)
      BY <1>4, <2>1, <3>1
    <3>6. Rest(n, q, p) = <<q[p]>> \o Rest(n, q, p + 1)
      BY <1>1, <3>1, RestStep
    <3> QED BY <3>2, <3>3, <3>4, <3>5, <3>6
  <2> QED BY <2>2, <2>3
<1> HIDE DEF T, P
<1>5. Nat \subseteq T
  BY <1>3, <1>4, Facts!SetInduction
<1>6. ASSUME NEW j \in 0 .. m PROVE P(j)
  BY <1>5 DEF T
<1> QED BY <1>6 DEF P

\* The nodes of a list are its links from the first to the last.
LEMMA NodesAreAll ==
  ASSUME NEW l, NEW n, NEW q, NEW c, List(l, n, q, c)
  PROVE  Nodes(l) = q
<1>1. n \in Nat /\ q \in [1 .. n -> Node] /\ Cardinality(Node) \in Nat
  BY NodeAssumption, FS_CardinalityType DEF List
<1>2. n <= Cardinality(Node)
  <2>1. IsFiniteSet(1 .. n) /\ Cardinality(1 .. n) = n
    <3>1. 1 \in Int /\ n \in Int
      BY <1>1
    <3>2. IsFiniteSet(1 .. n) /\ Cardinality(1 .. n) = IF 1 > n THEN 0 ELSE n - 1 + 1
      BY <3>1, FS_Interval
    <3> QED BY <1>1, <3>2
  <2>2. q \in Injection(1 .. n, Node)
    BY <1>1 DEF List, Distinct, Injection, IsInjective
  <2> QED BY <2>1, <2>2, NodeAssumption, FS_Injection
<1> DEFINE M == Cardinality(Node)
           F == CHOOSE f : Links(l, M, f)
<1>3. Links(l, M, F)
  <2>1. \E f : Links(l, M, f)
    BY <1>1, SomeLinks
  <2> QED BY <2>1, Zenon
<1>4. Nodes(l) = F[M][l.first]
  BY Zenon DEF Nodes, Links
<1> HIDE DEF F, M
<1>5. F[M][Nth(n, q, 1)] = Rest(n, q, 1)
  <2>1. M \in 0 .. M /\ 1 \in 1 .. n + 1 /\ n + 1 - 1 <= M
    BY <1>1, <1>2 DEF M
  <2>2. M \in Nat
    BY <1>1 DEF M
  <2> QED BY <1>3, <2>1, <2>2, LinksLayOut
<1>6. Rest(n, q, 1) = q
  <2>1. n + 1 - 1 = n /\ \A k \in 1 .. n : 1 + k - 1 = k
    BY <1>1
  <2>2. Rest(n, q, 1) = [k \in 1 .. n |-> q[k]]
    BY <2>1 DEF Rest
  <2> QED BY <1>1, <2>2
<1>7. l.first = Nth(n, q, 1)
  BY DEF List
<1> QED BY <1>4, <1>5, <1>6, <1>7

\* Where a pointer to the i-th node stands, or a null one.
LEMMA IndexOfNth ==
  ASSUME NEW l, NEW n, NEW q, NEW c, List(l, n, q, c),
         NEW i, NEW end
  PROVE  IndexOf(l, Nth(n, q, i), end) = IF i \in 1 .. n THEN i ELSE end
<1>1. Nodes(l) = q /\ n \in Nat /\ q \in [1 .. n -> Node] /\ Distinct(n, q)
  BY NodesAreAll DEF List
<1>2. Len(q) = n
  BY <1>1
<1>3. CASE i \in 1 .. n
  <2>1. Nth(n, q, i) = q[i] /\ q[i] # NULL
    BY <1>1, <1>3, NullAssumption DEF Nth
  <2>2. \A k \in 1 .. n : q[k] = q[i] <=> k = i
    BY <1>1, <1>3 DEF Distinct
  <2>3. IndexOf(l, q[i], end) = CHOOSE k \in 1 .. n : q[k] = q[i]
    BY <1>1, <1>2, <2>1, Zenon DEF IndexOf
  <2>4. (CHOOSE k \in 1 .. n : q[k] = q[i]) = i
    BY <1>3, <2>2, Zenon
  <2> QED BY <1>3, <2>1, <2>3, <2>4
<1>4. CASE i \notin 1 .. n
  BY <1>4 DEF Nth, IndexOf
<1> QED BY <1>3, <1>4

\* The data of a list, in its order.
Items(l, n, q) == [k \in 1 .. n |-> l.data[q[k]]]

LEMMA ListQueue ==
  ASSUME NEW l, NEW n, NEW q, NEW c, List(l, n, q, c)
  PROVE  /\ QueueOf(l) = [q |-> Items(l, n, q), c |-> c]
         /\ Items(l, n, q) \in Seq(Item) /\ Len(Items(l, n, q)) = n
         /\ \A k \in 1 .. n : Items(l, n, q)[k] = l.data[q[k]]
         /\ QueueOf(l) \in Facts!Box(Item)
<1>1. /\ Nodes(l) = q /\ n \in Nat /\ q \in [1 .. n -> Node] /\ c \in 1 .. n + 1
      /\ l.current = Nth(n, q, c)
  BY NodesAreAll DEF List
<1>2. Len(q) = n
  BY <1>1
<1>3. IndexOf(l, l.current, n + 1) = c
  <2>1. IndexOf(l, Nth(n, q, c), n + 1) = IF c \in 1 .. n THEN c ELSE n + 1
    BY IndexOfNth
  <2> QED BY <1>1, <2>1
<1>4. QueueOf(l) = [q |-> Items(l, n, q), c |-> c]
  BY <1>1, <1>2, <1>3, Zenon DEF QueueOf, Items
<1>5. \A k \in 1 .. n : l.data[q[k]] \in Item
  BY <1>1 DEF List, OutboxType
<1>6. /\ Items(l, n, q) \in Seq(Item) /\ Len(Items(l, n, q)) = n
      /\ \A k \in 1 .. n : Items(l, n, q)[k] = l.data[q[k]]
  BY <1>1, <1>5 DEF Items
<1>7. QueueOf(l) \in Facts!Box(Item)
  <2> DEFINE s == Items(l, n, q)
  <2> HIDE DEF s
  <2>1. [q |-> s, c |-> c] \in Facts!Box(Item)
    BY <1>1, <1>6 DEF Facts!Box, s
  <2> QED BY <1>4, <2>1 DEF s
<1> QED BY <1>4, <1>6, <1>7

\* emplace appends to the queue.
LEMMA EmplaceQueue ==
  ASSUME NEW l, NEW n, NEW q, NEW c, List(l, n, q, c),
         NEW m \in Node \ l.alloc, NEW x \in Item
  PROVE  QueueOf(DoEmplace(l, m, x)) = Abstract!Emplace(QueueOf(l), x)
<1> DEFINE r == Add(n, q, m)
           e == DoEmplace(l, m, x)
           s == Items(l, n, q)
           t == Items(e, n + 1, r)
<1>1. List(e, n + 1, r, c)
  BY EmplaceList
<1>2. /\ n \in Nat /\ q \in [1 .. n -> Node] /\ l \in OutboxType /\ m \in Node
      /\ \A k \in 1 .. n : q[k] # m
  BY DEF List
<1>3. e.data = [l.data EXCEPT ![m] = x] /\ l.data \in [Node -> Item]
  BY <1>2, EmplaceData DEF OutboxType
<1>4. r[n + 1] = m /\ \A k \in 1 .. n : r[k] = q[k]
  BY <1>2 DEF Add
<1> HIDE DEF e, r
<1>5. /\ QueueOf(e) = [q |-> t, c |-> c] /\ t \in Seq(Item) /\ Len(t) = n + 1
      /\ \A k \in 1 .. n + 1 : t[k] = e.data[r[k]]
  BY <1>1, ListQueue
<1>6. /\ QueueOf(l) = [q |-> s, c |-> c] /\ s \in Seq(Item) /\ Len(s) = n
      /\ \A k \in 1 .. n : s[k] = l.data[q[k]]
  BY ListQueue
<1> HIDE DEF s, t
<1>7. ASSUME NEW k \in 1 .. n + 1 PROVE t[k] = Append(s, x)[k]
  <2>1. CASE k = n + 1
    BY <1>2, <1>3, <1>4, <1>5, <1>6, <2>1
  <2>2. CASE k # n + 1
    <3>1. k \in 1 .. n /\ q[k] \in Node
      BY <1>2, <2>2
    <3> QED BY <1>2, <1>3, <1>4, <1>5, <1>6, <3>1
  <2> QED BY <2>1, <2>2
<1>8. t = Append(s, x)
  <2> DEFINE u == Append(s, x)
  <2>1. u \in Seq(Item) /\ Len(u) = n + 1
    BY <1>6
  <2>2. \A k \in 1 .. n + 1 : t[k] = u[k]
    BY <1>7
  <2> HIDE DEF u
  <2>3. t = u
    BY <1>5, <2>1, <2>2, SeqEqual
  <2> QED BY <2>3 DEF u
<1>9. Abstract!Emplace(QueueOf(l), x) = [q |-> Append(s, x), c |-> c]
  <2> DEFINE o == QueueOf(l)
             u == Append(s, x)
  <2>1. o = [q |-> s, c |-> c] /\ Append(o.q, x) = u
    BY <1>6
  <2>2. Abstract!Emplace(o, x) = [o EXCEPT !.q = Append(o.q, x)]
    BY DEF Abstract!Emplace
  <2> HIDE DEF o, u
  <2>3. Abstract!Emplace(o, x) = [q |-> u, c |-> c]
    BY <2>1, <2>2
  <2> QED BY <2>3 DEF o, u
<1> QED BY <1>5, <1>8, <1>9 DEF e

\* emplaceFront puts the item before the queue and the cursor on it.
LEMMA EmplaceFrontQueue ==
  ASSUME NEW l, NEW n, NEW q, NEW c, List(l, n, q, c),
         NEW m \in Node \ l.alloc, NEW x \in Item
  PROVE  QueueOf(DoEmplaceFront(l, m, x)) = Abstract!EmplaceFront(QueueOf(l), x)
<1> DEFINE r == AddFront(n, q, m)
           e == DoEmplaceFront(l, m, x)
           s == Items(l, n, q)
           t == Items(e, n + 1, r)
           u == <<x>> \o s
<1>1. List(e, n + 1, r, 1)
  BY EmplaceFrontList
<1>2. /\ n \in Nat /\ q \in [1 .. n -> Node] /\ l \in OutboxType /\ m \in Node
      /\ \A k \in 1 .. n : q[k] # m
  BY DEF List
<1>3. e.data = [l.data EXCEPT ![m] = x] /\ l.data \in [Node -> Item]
  BY <1>2, EmplaceFrontData DEF OutboxType
<1>4. r[1] = m /\ \A k \in 2 .. n + 1 : r[k] = q[k - 1]
  BY <1>2 DEF AddFront
<1> HIDE DEF e, r
<1>5. /\ QueueOf(e) = [q |-> t, c |-> 1] /\ t \in Seq(Item) /\ Len(t) = n + 1
      /\ \A k \in 1 .. n + 1 : t[k] = e.data[r[k]]
  BY <1>1, ListQueue
<1>6. /\ QueueOf(l) = [q |-> s, c |-> c] /\ s \in Seq(Item) /\ Len(s) = n
      /\ \A k \in 1 .. n : s[k] = l.data[q[k]]
  BY ListQueue
<1> HIDE DEF s, t
<1>7. /\ u \in Seq(Item) /\ Len(u) = n + 1 /\ u[1] = x
      /\ \A k \in 2 .. n + 1 : u[k] = s[k - 1]
  <2> DEFINE y == <<x>>
  <2>1. y \in Seq(Item) /\ Len(y) = 1 /\ y[1] = x
    OBVIOUS
  <2> HIDE DEF y
  <2>2. /\ y \o s \in Seq(Item) /\ Len(y \o s) = Len(y) + Len(s)
        /\ \A k \in 1 .. Len(y) + Len(s) :
             (y \o s)[k] = IF k <= Len(y) THEN y[k] ELSE s[k - Len(y)]
    BY <1>6, <2>1, ConcatProperties
  <2>3. Len(y) + Len(s) = n + 1
    BY <1>2, <1>6, <2>1
  <2>4. (y \o s)[1] = x
    BY <1>2, <2>1, <2>2, <2>3
  <2>5. \A k \in 2 .. n + 1 : (y \o s)[k] = s[k - 1]
    BY <1>2, <2>1, <2>2, <2>3
  <2> QED BY <2>2, <2>3, <2>4, <2>5 DEF y
<1> HIDE DEF u
<1>8. ASSUME NEW k \in 1 .. n + 1 PROVE t[k] = u[k]
  <2>1. CASE k = 1
    BY <1>2, <1>3, <1>4, <1>5, <1>7, <2>1
  <2>2. CASE k # 1
    <3>1. k \in 2 .. n + 1 /\ k - 1 \in 1 .. n /\ q[k - 1] \in Node
      BY <1>2, <2>2
    <3>2. t[k] = l.data[q[k - 1]]
      <4>1. t[k] = e.data[q[k - 1]]
        BY <1>4, <1>5, <3>1
      <4>2. q[k - 1] # m
        BY <1>2, <3>1
      <4> QED BY <1>3, <3>1, <4>1, <4>2
    <3>3. u[k] = l.data[q[k - 1]]
      BY <1>6, <1>7, <3>1
    <3> QED BY <3>2, <3>3
  <2> QED BY <2>1, <2>2
<1>9. t = u
  BY <1>5, <1>7, <1>8, SeqEqual
<1>10. Abstract!EmplaceFront(QueueOf(l), x) = [q |-> u, c |-> 1]
  BY <1>6 DEF Abstract!EmplaceFront, u
<1> QED BY <1>5, <1>9, <1>10 DEF e

\* A list that has lost its j-th node and kept its data has lost the j-th item.
LEMMA RemoveQueue ==
  ASSUME NEW l, NEW n, NEW q, NEW c, List(l, n, q, c),
         NEW j \in 1 .. n, NEW d, d.data = l.data,
         List(d, n - 1, Del(n, q, j), IF j < c THEN c - 1 ELSE c)
  PROVE  QueueOf(d) = Abstract!RemoveItem(QueueOf(l), j)
<1> DEFINE r == Del(n, q, j)
           b == IF j < c THEN c - 1 ELSE c
           s == Items(l, n, q)
           t == Items(d, n - 1, r)
           o == QueueOf(l)
           u == Facts!RemoveItem(o, j)
<1>1. n \in Nat /\ q \in [1 .. n -> Node]
  BY DEF List
<1>2. /\ \A k \in 1 .. n - 1 : k < j => r[k] = q[k]
      /\ \A k \in 1 .. n - 1 : ~(k < j) => r[k] = q[k + 1]
  BY <1>1 DEF Del
<1> HIDE DEF r, b
<1>3. /\ QueueOf(d) = [q |-> t, c |-> b] /\ t \in Seq(Item) /\ Len(t) = n - 1
      /\ \A k \in 1 .. n - 1 : t[k] = d.data[r[k]]
  <2>1. List(d, n - 1, r, b)
    BY DEF r, b
  <2> QED BY <2>1, ListQueue
<1>4. /\ o = [q |-> s, c |-> c] /\ s \in Seq(Item) /\ Len(s) = n
      /\ \A k \in 1 .. n : s[k] = l.data[q[k]]
      /\ o \in Facts!Box(Item)
  BY ListQueue
<1> HIDE DEF s, t
<1>5. o.q = s /\ o.c = c
  BY <1>4
<1> HIDE DEF o
<1>6. /\ u.q \in Seq(Item) /\ Len(u.q) = n - 1
      /\ \A k \in 1 .. j - 1 : u.q[k] = s[k]
      /\ \A k \in j .. n - 1 : u.q[k] = s[k + 1]
  <2>1. j \in 1 .. Len(o.q)
    BY <1>4, <1>5
  <2>2. /\ u \in Facts!Box(Item)
        /\ Len(u.q) = Len(o.q) - 1
        /\ \A k \in 1 .. j - 1 : u.q[k] = o.q[k]
        /\ \A k \in j .. Len(o.q) - 1 : u.q[k] = o.q[k + 1]
    BY <1>4, <2>1, Facts!RemoveItemBox
  <2> HIDE DEF u
  <2> QED BY <1>4, <1>5, <2>2 DEF Facts!Box
<1>7. u = [q |-> u.q, c |-> b] /\ Abstract!RemoveItem(o, j) = u
  BY <1>5 DEF Facts!RemoveItem, Facts!RemoveAt, Abstract!RemoveItem,
              Abstract!RemoveAt, b
<1> HIDE DEF u
<1>8. ASSUME NEW k \in 1 .. n - 1 PROVE t[k] = u.q[k]
  <2>1. CASE k < j
    <3>1. k \in 1 .. j - 1 /\ k \in 1 .. n
      BY <1>1, <2>1
    <3>2. t[k] = l.data[q[k]]
      BY <1>2, <1>3, <2>1
    <3>3. u.q[k] = l.data[q[k]]
      BY <1>4, <1>6, <3>1
    <3> QED BY <3>2, <3>3
  <2>2. CASE ~(k < j)
    <3>1. k \in j .. n - 1 /\ k + 1 \in 1 .. n
      BY <1>1, <2>2
    <3>2. t[k] = l.data[q[k + 1]]
      BY <1>2, <1>3, <2>2
    <3>3. u.q[k] = l.data[q[k + 1]]
      BY <1>4, <1>6, <3>1
    <3> QED BY <3>2, <3>3
  <2> QED BY <2>1, <2>2
<1>9. t = u.q
  <2> DEFINE v == u.q
  <2>1. v \in Seq(Item) /\ Len(v) = n - 1 /\ \A k \in 1 .. n - 1 : t[k] = v[k]
    BY <1>6, <1>8
  <2> HIDE DEF v
  <2>2. t = v
    BY <1>3, <2>1, SeqEqual
  <2> QED BY <2>2 DEF v
<1> QED BY <1>3, <1>7, <1>9 DEF o

\* A list with the same nodes and data, apart from nodes it does not hold.
LEMMA SameQueue ==
  ASSUME NEW l, NEW n, NEW q, NEW c, List(l, n, q, c),
         NEW d, NEW b, List(d, n, q, b),
         \A k \in 1 .. n : d.data[q[k]] = l.data[q[k]]
  PROVE  QueueOf(d) = [q |-> QueueOf(l).q, c |-> b]
<1>1. Items(d, n, q) = Items(l, n, q)
  BY DEF Items
<1>2. QueueOf(d) = [q |-> Items(d, n, q), c |-> b]
  BY ListQueue
<1>3. QueueOf(l) = [q |-> Items(l, n, q), c |-> c]
  BY ListQueue
<1> QED BY <1>1, <1>2, <1>3

\* The iterator after a step, and before it.
LEMMA Index ==
  ASSUME NEW l, NEW n, NEW q, NEW c, List(l, n, q, c),
         NEW t, NEW i, IterAt(t, n, q, i)
  PROVE  IndexOf(l, t.node, 0) = i /\ i \in 0 .. n
<1>1. IndexOf(l, Nth(n, q, i), 0) = IF i \in 1 .. n THEN i ELSE 0
  BY IndexOfNth
<1>2. t.node = Nth(n, q, i) /\ i \in 0 .. n /\ n \in Nat
  BY DEF IterAt, List
<1> QED BY <1>1, <1>2

LEMMA InitQueue == ASSUME Init PROVE Abstract!Init
<1> DEFINE q == [k \in 1 .. 0 |-> NULL]
<1>1. List(ob, 0, q, 1) /\ IterAt(it, 0, q, 0)
  BY InitList
<1>2. Queue = [q |-> Items(ob, 0, q), c |-> 1]
  BY <1>1, ListQueue DEF Queue
<1>3. Items(ob, 0, q) = <<>>
  BY DEF Items
<1>4. IterIndex = 0
  BY <1>1, Index DEF IterIndex
<1> QED BY <1>2, <1>3, <1>4 DEF Abstract!Init, Abstract!EmptyOutbox

LEMMA StepQueue ==
  ASSUME IInv, [Next]_vars
  PROVE  [Abstract!Next]_(Abstract!vars)
<1> SUFFICES ASSUME NEW n, NEW q, NEW c, NEW i, List(ob, n, q, c), IterAt(it, n, q, i)
             PROVE  [Abstract!Next]_(Abstract!vars)
  BY DEF IInv
<1>1. /\ n \in Nat /\ q \in [1 .. n -> Node] /\ c \in 1 .. n + 1 /\ i \in 0 .. n
      /\ \A k \in 1 .. n : q[k] \in Node /\ q[k] \in ob.alloc
      /\ ob.data \in [Node -> Item]
  BY DEF List, IterAt, OutboxType
<1>2. IterIndex = i
  BY Index DEF IterIndex
<1>3. Queue = [q |-> Queue.q, c |-> c] /\ Queue.q \in Seq(Item) /\ Len(Queue.q) = n
      /\ Queue.c = c
  BY ListQueue DEF Queue
<1>4. ASSUME NEW m, NEW r, NEW b, NEW k, Leaves(m, r, b, k)
      PROVE  IterIndex' = k
  <2>1. IndexOf(ob', it'.node, 0) = k
    BY <1>4, Index DEF Leaves
  <2> QED BY <2>1 DEF IterIndex
<1>5. Queue' = QueueOf(ob')
  BY DEF Queue
\* the same nodes with the cursor elsewhere
<1>6. ASSUME NEW b, NEW k, Leaves(n, q, b, k),
             \A j \in 1 .. n : ob'.data[q[j]] = ob.data[q[j]]
      PROVE  Queue' = [q |-> Queue.q, c |-> b]
  <2>1. QueueOf(ob') = [q |-> QueueOf(ob).q, c |-> b]
    BY <1>6, SameQueue DEF Leaves
  <2> QED BY <1>5, <2>1 DEF Queue
<1>7. ASSUME NEW m \in Node \ ob.alloc, NEW x, NEW j \in 1 .. n
      PROVE  [ob.data EXCEPT ![m] = x][q[j]] = ob.data[q[j]]
  BY <1>1
<1>8. CASE EmplaceItem
  <2>1. PICK m \in Node \ ob.alloc, x \in Item :
          ob' = DoEmplace(ob, m, x) /\ Leaves(n + 1, Add(n, q, m), c, i)
    BY <1>8, StepList
  <2>2. Queue' = Abstract!Emplace(Queue, x)
    BY <1>5, <2>1, EmplaceQueue DEF Queue
  <2>3. IterIndex' = IterIndex
    BY <1>2, <1>4, <2>1
  <2> QED BY <2>2, <2>3 DEF Abstract!Next, Abstract!EmplaceItem
<1>9. CASE EmplaceUndone
  <2>1. PICK m \in Node \ ob.alloc, x \in Item :
          ob'.data = [ob.data EXCEPT ![m] = x] /\ Leaves(n, q, c, i)
    BY <1>9, StepList
  <2>2. Queue' = [q |-> Queue.q, c |-> c]
    <3>1. \A j \in 1 .. n : ob'.data[q[j]] = ob.data[q[j]]
      BY <1>7, <2>1
    <3> QED BY <1>6, <2>1, <3>1
  <2>3. Queue' = Queue /\ IterIndex' = IterIndex
    BY <1>2, <1>3, <1>4, <2>1, <2>2
  <2> QED BY <2>3 DEF Abstract!vars
<1>10. CASE EmplaceFrontItem
  <2>1. i = 0 /\ \E m \in Node \ ob.alloc, x \in Item :
          ob' = DoEmplaceFront(ob, m, x) /\ Leaves(n + 1, AddFront(n, q, m), 1, 0)
    BY <1>10, StepList
  <2>2. PICK m \in Node \ ob.alloc, x \in Item :
          ob' = DoEmplaceFront(ob, m, x) /\ Leaves(n + 1, AddFront(n, q, m), 1, 0)
    BY <2>1
  <2>3. Queue' = Abstract!EmplaceFront(Queue, x)
    BY <1>5, <2>2, EmplaceFrontQueue DEF Queue
  <2>4. IterIndex = 0 /\ IterIndex' = 0
    BY <1>2, <1>4, <2>1, <2>2
  <2> QED BY <2>3, <2>4 DEF Abstract!Next, Abstract!EmplaceFrontItem
<1>11. ASSUME i = 0, NEW k, k = 0, Leaves(n, q, 1, k),
              \A j \in 1 .. n : ob'.data[q[j]] = ob.data[q[j]]
       PROVE  Abstract!Rewind
  <2>1. Queue' = [q |-> Queue.q, c |-> 1]
    BY <1>6, <1>11
  <2>2. Abstract!ResetCurrent(Queue) = [q |-> Queue.q, c |-> 1]
    <3> DEFINE s == Queue.q
    <3> HIDE DEF s
    <3>1. Queue = [q |-> s, c |-> c]
      BY <1>3 DEF s
    <3>2. Abstract!ResetCurrent(Queue) = [q |-> s, c |-> 1]
      BY <3>1 DEF Abstract!ResetCurrent
    <3> QED BY <3>2 DEF s
  <2>3. IterIndex = 0 /\ IterIndex' = 0
    BY <1>2, <1>4, <1>11
  <2> QED BY <2>1, <2>2, <2>3 DEF Abstract!Rewind
<1>12. CASE EmplaceFrontUndone
  <2>1. i = 0 /\ \E m \in Node \ ob.alloc, x \in Item :
          ob'.data = [ob.data EXCEPT ![m] = x] /\ Leaves(n, q, 1, 0)
    BY <1>12, StepList
  <2>2. PICK m \in Node \ ob.alloc, x \in Item :
          ob'.data = [ob.data EXCEPT ![m] = x] /\ Leaves(n, q, 1, 0)
    BY <2>1
  <2>3. Abstract!Rewind
    BY <1>7, <1>11, <2>1, <2>2
  <2> QED BY <2>3 DEF Abstract!Next
<1>13. ASSUME NEW j \in 1 .. n, ob'.data = ob.data, NEW k,
              Leaves(n - 1, Del(n, q, j), IF j < c THEN c - 1 ELSE c, k)
       PROVE  Queue' = Abstract!RemoveItem(Queue, j)
  BY <1>5, <1>13, RemoveQueue DEF Leaves, Queue
<1>14. CASE RemoveCurrentNode
  <2>1. i = 0 /\ c \in 1 .. n
        /\ ob'.data = ob.data /\ Leaves(n - 1, Del(n, q, c), c, 0)
    BY <1>14, StepList
  <2>2. (IF c < c THEN c - 1 ELSE c) = c
    BY <1>1
  <2>3. Queue' = Abstract!RemoveItem(Queue, c)
    BY <1>13, <2>1, <2>2
  <2>4. Abstract!RemoveCurrent(Queue) = Abstract!RemoveItem(Queue, c)
    BY <1>3, <2>1 DEF Abstract!RemoveCurrent, Abstract!HasCurrent
  <2>5. IterIndex = 0 /\ IterIndex' = 0
    BY <1>2, <1>4, <2>1
  <2> QED BY <2>3, <2>4, <2>5 DEF Abstract!Next, Abstract!RemoveCurrentItem
<1>15. CASE ResetCurrentNode
  <2>1. i = 0 /\ ob'.data = ob.data /\ Leaves(n, q, 1, 0)
    BY <1>15, StepList
  <2>2. Abstract!Rewind
    BY <1>11, <2>1
  <2> QED BY <2>2 DEF Abstract!Next
<1>16. CASE NextNode
  <2>1. c \in 1 .. n /\ ob'.data = ob.data /\ Leaves(n, q, c + 1, i)
    BY <1>16, StepList
  <2>2. Queue' = [q |-> Queue.q, c |-> c + 1]
    BY <1>6, <2>1
  <2>3. Abstract!NextItem(Queue) = [q |-> Queue.q, c |-> c + 1]
    <3> DEFINE s == Queue.q
    <3> HIDE DEF s
    <3>1. Queue = [q |-> s, c |-> c] /\ Len(s) = n /\ c <= n
      BY <1>1, <1>3, <2>1 DEF s
    <3>2. Abstract!NextItem(Queue) = [q |-> s, c |-> c + 1]
      BY <3>1 DEF Abstract!NextItem, Abstract!HasCurrent
    <3> QED BY <3>2 DEF s
  <2>4. IterIndex' = IterIndex
    BY <1>2, <1>4, <2>1
  <2> QED BY <2>2, <2>3, <2>4 DEF Abstract!Next, Abstract!Advance
<1>17. ASSUME ob' = ob, NEW k, Leaves(n, q, c, k), k \in {0, i + 1}
       PROVE  Abstract!MoveIterator
  <2>1. Queue' = Queue
    BY <1>5, <1>17 DEF Queue
  <2>2. IterIndex' = k
    BY <1>4, <1>17
  <2>3. k <= n
    BY <1>17 DEF Leaves, IterAt
  <2> QED BY <1>2, <1>3, <1>17, <2>1, <2>2, <2>3 DEF Abstract!MoveIterator
<1>18. CASE Front
  <2>1. ob' = ob /\ i = 0 /\ Leaves(n, q, c, IF n = 0 THEN 0 ELSE 1)
    BY <1>18, StepList
  <2>2. (IF n = 0 THEN 0 ELSE 1) \in {0, i + 1}
    BY <2>1
  <2>3. Abstract!MoveIterator
    BY <1>17, <2>1, <2>2
  <2> QED BY <2>3 DEF Abstract!Next
<1>19. CASE Increment
  <2>1. ob' = ob /\ Leaves(n, q, c, IF i = n THEN 0 ELSE i + 1)
    BY <1>19, StepList
  <2>2. (IF i = n THEN 0 ELSE i + 1) \in {0, i + 1}
    OBVIOUS
  <2>3. Abstract!MoveIterator
    BY <1>17, <2>1, <2>2
  <2> QED BY <2>3 DEF Abstract!Next
<1>20. CASE RemoveIterator
  <2> DEFINE k == IF i = n THEN 0 ELSE i
  <2>1. i \in 1 .. n /\ ob'.data = ob.data
        /\ Leaves(n - 1, Del(n, q, i), IF i < c THEN c - 1 ELSE c, k)
    BY <1>20, StepList
  <2>2. Queue' = Abstract!RemoveItem(Queue, IterIndex)
    BY <1>2, <1>13, <2>1
  <2>3. IterIndex' = k
    BY <1>4, <2>1
  <2>4. k = IF IterIndex < Len(Queue.q) THEN IterIndex ELSE 0
    BY <1>1, <1>2, <1>3
  <2>5. IterIndex # 0
    BY <1>2, <2>1
  <2> QED BY <2>2, <2>3, <2>4, <2>5 DEF Abstract!Next, Abstract!RemoveAtIterator
<1>21. CASE EndIterator
  <2>1. ob' = ob /\ Leaves(n, q, c, 0)
    BY <1>21, StepList
  <2>2. Abstract!MoveIterator
    BY <1>17, <2>1
  <2> QED BY <2>2 DEF Abstract!Next
<1>22. CASE UNCHANGED vars
  BY <1>22 DEF vars, Abstract!vars, Queue, IterIndex
<1> QED BY <1>8, <1>9, <1>10, <1>12, <1>14, <1>15, <1>16, <1>18, <1>19, <1>20, <1>21,
           <1>22 DEF Next

\* The pointers of Outbox.h implement the queue with a cursor that the client
\* uses: every operation changes the items, their order, the cursor and the
\* iterator as OutboxQueue says.
THEOREM ListIsQueue == Spec => ImplementsQueue
<1>1. Init => Abstract!Init
  BY InitQueue
<1>2. IInv /\ [Next]_vars => [Abstract!Next]_(Abstract!vars)
  BY StepQueue
<1> QED BY <1>1, <1>2, ListAlways, PTL DEF Spec, ImplementsQueue, Abstract!Spec

\* The loops of _clearQueue, an iterator that goes on or removes, leave the packets
\* that are to be kept, in order, with the cursor among them where it was; the model of
\* the client does the same in one step (MqttClient.cpp:718-749).
THEOREM SweepsKeep == Spec => []ClearsAsSwept
<1>1. ASSUME IInv PROVE ClearsAsSwept
  <2>1. PICK n \in Nat : \E q \in [1 .. n -> Node], c \in 1 .. n + 1, i \in 0 .. n :
          List(ob, n, q, c) /\ IterAt(it, n, q, i)
    BY <1>1 DEF IInv
  <2>2. Queue \in Facts!Box(Item)
    BY <2>1, ListQueue DEF Queue
  <2>3. ASSUME NEW kept \in SUBSET Item
        PROVE  /\ Abstract!Swept(Queue, kept).o = Abstract!KeepOnly(Queue, kept)
               /\ Abstract!Swept(Queue, kept).i = Len(Abstract!Swept(Queue, kept).o.q) + 1
    <3>1. Facts!Swept(Queue, kept) = [o |-> Facts!KeepOnly(Queue, kept),
                                      i |-> Len(Facts!KeepOnly(Queue, kept).q) + 1]
      BY <2>2, Facts!SweptIsKept
    <3>2. Abstract!KeepOnly(Queue, kept) = Facts!KeepOnly(Queue, kept)
      BY DEF Abstract!KeepOnly, Abstract!Filter, Abstract!Filtered,
             Facts!KeepOnly, Facts!Filter, Facts!Filtered
    <3>3. Abstract!Swept(Queue, kept) = Facts!Swept(Queue, kept)
      BY DEF Abstract!Swept, Abstract!Round, Abstract!RemoveItem, Abstract!RemoveAt,
             Facts!Swept, Facts!Round, Facts!RemoveItem, Facts!RemoveAt
    <3> QED BY <3>1, <3>2, <3>3
  <2> QED BY <2>3 DEF ClearsAsSwept
<1> QED BY <1>1, ListAlways, PTL
=============================================================================
