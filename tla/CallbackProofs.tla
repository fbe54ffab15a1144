---------------------------- MODULE CallbackProofs ----------------------------
(****************************************************************************)
(* While no callback removes or replaces itself, an event of Callbacks.tla  *)
(* is passed on through the list safely, in order and to everyone, whatever *)
(* else the callbacks add and remove on the way, for any number of them.    *)
(*                                                                          *)
(* The inductive invariant: the keys of the list increase, the iterator is  *)
(* at a node of the list or at its end, and what was called, respectively   *)
(* passed, lies before it.                                                  *)
(****************************************************************************)
EXTENDS Callbacks, Facts

Node == [key : Nat \ {0}, id : Id, fn : Function \cup {Empty}]

Increasing(s) == \A i, j \in 1 .. Len(s) : i < j => s[i].key < s[j].key

\* Keys are given out once, in order.
ListInv ==
  /\ list \in Seq(Node) /\ added \in Nat /\ multiple \in BOOLEAN
  /\ Increasing(list)
  /\ \A k \in 1 .. Len(list) : list[k].key <= added
  /\ ~multiple => Len(list) <= 1

\* The iterator is at a node of the list, or at its end.
IteratorInv ==
  /\ at \in Nat /\ fault = FALSE
  /\ InCallback => round.open /\ at # End /\ running.key = at
  /\ ~round.open => at = End
  /\ at # End => \E k \in 1 .. Len(list) : list[k].key = at

\* The iterator has passed the node, or it is being called.
Passed(node) == at = End \/ node.key < at \/ (node.key = at /\ InCallback)

\* Those that are called were called in order, and lie before the iterator.
RoundInv ==
  /\ round \in [open : BOOLEAN, start : SUBSET Node, called : Seq(Nat)]
  /\ \A i, j \in 1 .. Len(round.called) : i < j => round.called[i] < round.called[j]
  /\ round.open /\ at # End =>
       \A i \in 1 .. Len(round.called) :
         round.called[i] <= at /\ (~InCallback => round.called[i] < at)
  /\ \A node \in round.start : node.key <= added

IsCalled(key) == \E i \in 1 .. Len(round.called) : round.called[i] = key

\* Those that were passed and are still there were called.
Served ==
  round.open =>
    \A k \in 1 .. Len(list) :
      list[k] \in round.start /\ list[k].fn # Empty /\ Passed(list[k]) =>
        IsCalled(list[k].key)

Inv == ListInv /\ IteratorInv /\ RoundInv /\ Served

-----------------------------------------------------------------------------
(* The list *)

\* A set of positions has a first one.
LEMMA FirstOf ==
  ASSUME NEW n \in Nat, NEW I, I \subseteq 1 .. n, I # {}
  PROVE  Min(I) \in I /\ \A j \in I : Min(I) <= j
<1>1. I \subseteq Nat
  OBVIOUS
<1>2. \E x \in I : \A y \in I : x <= y
  BY <1>1, LeastNat
<1> QED BY <1>2 DEF Min

LEMMA SelectsKey ==
  ASSUME NEW s \in Seq(Node), Increasing(s), NEW k \in 1 .. Len(s)
  PROVE  SelectInSeq(s, LAMBDA n : n.key = s[k].key) = k
<1> DEFINE I == {i \in 1 .. Len(s) : s[i].key = s[k].key}
<1>1. I = {k}
  <2> SUFFICES ASSUME NEW i \in 1 .. Len(s), s[i].key = s[k].key PROVE i = k
    OBVIOUS
  <2>1. s[i].key \in Nat /\ s[k].key \in Nat /\ i \in Nat /\ k \in Nat
    <3>1. s[i] \in Node /\ s[k] \in Node
      BY ElementOfSeq
    <3> QED BY <3>1 DEF Node
  <2>2. ~(i < k) /\ ~(k < i)
    BY <2>1 DEF Increasing
  <2> QED BY <2>1, <2>2
<1>2. SelectInSeq(s, LAMBDA n : n.key = s[k].key) = IF I # {} THEN Min(I) ELSE 0
  BY DEF SelectInSeq
<1>3. Min(I) = k
  BY <1>1 DEF Min
<1> QED BY <1>1, <1>2, <1>3

\* The iterator goes to the node with the next greater key.
LEMMA NextKey ==
  ASSUME ListInv, NEW k \in 1 .. Len(list)
  PROVE  KeyAfter(list[k].key) = IF k < Len(list) THEN list[k + 1].key ELSE End
BY SelectsKey DEF ListInv, KeyAfter

\* What RemoveAt leaves.
LEMMA Removes ==
  ASSUME NEW s \in Seq(Node), NEW i \in 1 .. Len(s)
  PROVE  /\ RemoveAt(s, i) \in Seq(Node) /\ Len(RemoveAt(s, i)) = Len(s) - 1
         /\ \A k \in 1 .. Len(s) - 1 : RemoveAt(s, i)[k] = IF k < i THEN s[k] ELSE s[k + 1]
<1> DEFINE o == [q |-> s, c |-> 1]
           r == RemoveItem(o, i)
<1>1. o \in Box(Node) /\ o.q = s
  BY DEF Box
<1>2. r.q = RemoveAt(s, i)
  BY <1>1 DEF RemoveItem
<1> HIDE DEF o
<1>3. /\ r \in Box(Node) /\ Len(r.q) = Len(s) - 1
      /\ \A k \in 1 .. i - 1 : r.q[k] = s[k]
      /\ \A k \in i .. Len(s) - 1 : r.q[k] = s[k + 1]
  BY <1>1, RemoveItemBox
<1> HIDE DEF r
<1>4. r.q \in Seq(Node)
  BY <1>3 DEF Box
<1>5. \A k \in 1 .. Len(s) - 1 : r.q[k] = IF k < i THEN s[k] ELSE s[k + 1]
  BY <1>3
<1> QED BY <1>2, <1>3, <1>4, <1>5
-----------------------------------------------------------------------------
(* The steps *)

LEMMA InitInv == Init => Inv
<1> SUFFICES ASSUME Init PROVE Inv
  OBVIOUS
<1>1. /\ list = <<>> /\ at = 0 /\ ~InCallback /\ round.open = FALSE /\ added = 0
      /\ round = [open |-> FALSE, start |-> {}, called |-> <<>>]
  BY DEF Init, InCallback, End
<1>2. ListInv
  BY <1>1 DEF Init, ListInv, Increasing
<1>3. IteratorInv
  BY <1>1 DEF Init, IteratorInv, End
<1>4. RoundInv
  BY <1>1 DEF RoundInv
<1>5. Served
  BY <1>1 DEF Served
<1> QED BY <1>2, <1>3, <1>4, <1>5 DEF Inv

\* A new callback is behind the others, or the only one.
LEMMA AddKeeps ==
  ASSUME ~RemovesRunning, Inv, NEW id \in Id, NEW fn \in Function \cup {Empty},
         AddCallback(id, fn)
  PROVE  Inv'
<1> USE DEF Inv
<1> DEFINE node == [key |-> added + 1, id |-> id, fn |-> fn]
<1>1. node \in Node /\ node.key = added + 1 /\ added + 1 \in Nat
  BY DEF Node, ListInv
<1>2. /\ added' = added + 1 /\ UNCHANGED <<multiple, at, running, events, round, fault>>
      /\ IF multiple THEN list' = Append(list, node)
         ELSE list' = <<node>> /\ ~InCallback
  BY DEF AddCallback, dispatch, ListInv, IteratorInv
<1>3. InCallback' = InCallback /\ (~round.open \/ InCallback)
  BY <1>2 DEF InCallback, AddCallback, AppMayAct
<1> HIDE DEF node
<1>4. \A n \in round.start : n # node
  BY <1>1 DEF RoundInv, ListInv, Node
<1>5. CASE multiple
  <2>1. /\ list' \in Seq(Node) /\ Len(list') = Len(list) + 1 /\ list'[Len(list) + 1] = node
        /\ \A k \in 1 .. Len(list) : list'[k] = list[k]
        /\ \A k \in 1 .. Len(list') : k = Len(list) + 1 \/ k \in 1 .. Len(list)
        /\ Len(list) \in Nat
    BY <1>1, <1>2, <1>5 DEF ListInv
  <2>2. ListInv'
    <3>1. Increasing(list')
      <4> SUFFICES ASSUME NEW i \in 1 .. Len(list'), NEW j \in 1 .. Len(list'), i < j
                   PROVE  list'[i].key < list'[j].key
        BY DEF Increasing
      <4>1. i \in 1 .. Len(list)
        BY <2>1
      <4>2. list[i] \in Node
        BY <4>1, ElementOfSeq DEF ListInv
      <4>3. list[i].key \in Nat /\ list[i].key <= added
        BY <4>1, <4>2 DEF ListInv, Node
      <4> QED BY <1>1, <2>1, <4>1, <4>3 DEF ListInv, Increasing
    <3>2. \A k \in 1 .. Len(list') : list'[k].key <= added'
      <4> SUFFICES ASSUME NEW k \in 1 .. Len(list') PROVE list'[k].key <= added'
        OBVIOUS
      <4>1. CASE k = Len(list) + 1
        BY <1>1, <1>2, <2>1, <4>1
      <4>2. CASE k \in 1 .. Len(list)
        <5>1. list[k] \in Node
          BY <4>2, ElementOfSeq DEF ListInv
        <5>2. list[k].key \in Nat /\ list[k].key <= added
          BY <4>2, <5>1 DEF ListInv, Node
        <5> QED BY <1>2, <2>1, <4>2, <5>2 DEF ListInv
      <4> QED BY <2>1, <4>1, <4>2
    <3> QED BY <1>1, <1>2, <1>5, <2>1, <3>1, <3>2 DEF ListInv
  <2>3. IteratorInv'
    BY <1>2, <1>3, <2>1 DEF IteratorInv
  <2>4. RoundInv'
    <3>1. \A n \in round'.start : n.key <= added'
      <4> SUFFICES ASSUME NEW n \in round.start PROVE n.key <= added + 1
        BY <1>2
      <4>1. n \in Node /\ n.key <= added /\ added \in Nat
        BY DEF RoundInv, ListInv
      <4> QED BY <4>1 DEF Node
    <3> QED BY <1>2, <1>3, <3>1 DEF RoundInv
  <2>5. Served'
    <3> SUFFICES ASSUME round.open, NEW k \in 1 .. Len(list'),
                        list'[k] \in round.start, list'[k].fn # Empty, Passed(list[k])'
                 PROVE  IsCalled(list'[k].key)
      BY <1>2 DEF Served, IsCalled
    <3>1. k \in 1 .. Len(list) /\ list'[k] = list[k]
      BY <1>4, <2>1
    <3>2. Passed(list[k])
      BY <1>2, <1>3, <3>1 DEF Passed
    <3> QED BY <3>1, <3>2 DEF Served
  <2> QED BY <2>2, <2>3, <2>4, <2>5
<1>6. CASE ~multiple
  <2>0. list' = <<node>> /\ ~InCallback /\ ~round.open
    BY <1>2, <1>3, <1>6
  <2>1. list' \in Seq(Node) /\ Len(list') = 1 /\ list'[1] = node
    BY <1>1, <2>0
  <2>2. ListInv'
    BY <1>1, <1>2, <2>1 DEF ListInv, Increasing
  <2>3. IteratorInv'
    BY <1>2, <1>3, <2>0 DEF IteratorInv
  <2>4. \A n \in round'.start : n.key <= added'
    <3> SUFFICES ASSUME NEW n \in round.start PROVE n.key <= added + 1
      BY <1>2
    <3>1. n \in Node /\ n.key <= added /\ added \in Nat
      BY DEF RoundInv, ListInv
    <3> QED BY <3>1 DEF Node
  <2>5. RoundInv'
    BY <1>2, <1>3, <2>0, <2>4 DEF RoundInv
  <2>6. Served'
    BY <1>2, <2>0 DEF Served
  <2> QED BY <2>2, <2>3, <2>5, <2>6
<1> QED BY <1>5, <1>6

\* A callback that is removed is not the one that is running.
LEMMA RemoveKeeps ==
  ASSUME ~RemovesRunning, Inv, NEW id \in Id, RemoveCallback(id)
  PROVE  Inv'
<1> USE DEF Inv
<1>1. /\ UNCHANGED <<multiple, added, fault, at, running, events, round>>
      /\ ~round.open \/ InCallback
  BY DEF RemoveCallback, dispatch, AppMayAct
<1>2. InCallback' = InCallback
  BY <1>1 DEF InCallback
<1>3. CASE list' = list
  BY <1>1, <1>2, <1>3 DEF ListInv, IteratorInv, RoundInv, Served, IsCalled, Passed
<1>4. CASE \E k \in 1 .. Len(list) : list[k].id = id
  <2> DEFINE i == SelectInSeq(list, LAMBDA n : n.id = id)
  <2>1. i \in 1 .. Len(list)
    <3>1. list \in Seq(Node)
      BY DEF ListInv
    <3> DEFINE I == {k \in 1 .. Len(list) : list[k].id = id}
    <3>2. I # {} /\ I \subseteq 1 .. Len(list) /\ Len(list) \in Nat
      BY <1>4, <3>1
    <3>3. i = IF I # {} THEN Min(I) ELSE 0
      BY DEF SelectInSeq
    <3>4. Min(I) \in I
      BY <3>2, FirstOf
    <3> QED BY <3>2, <3>3, <3>4
  <2>2. \E n \in Range(list) : n.id = id
    BY <1>4 DEF Range, ListInv
  <2>3. list' = RemoveAt(list, i) /\ list[i].key # running.key
    BY <2>2 DEF RemoveCallback
  <2> HIDE DEF i
  <2>4. /\ list' \in Seq(Node) /\ Len(list') = Len(list) - 1
        /\ \A k \in 1 .. Len(list) - 1 : list'[k] = IF k < i THEN list[k] ELSE list[k + 1]
        /\ Len(list) \in Nat
    <3>1. list \in Seq(Node) /\ Len(list) \in Nat
      BY DEF ListInv
    <3> QED BY <2>1, <2>3, <3>1, Removes
  <2>5. \A k \in 1 .. Len(list') : \E j \in 1 .. Len(list) : list'[k] = list[j]
    BY <2>1, <2>4
  <2>6. ListInv'
    <3>1. Increasing(list')
      <4> SUFFICES ASSUME NEW j \in 1 .. Len(list'), NEW k \in 1 .. Len(list'), j < k
                   PROVE  list'[j].key < list'[k].key
        BY DEF Increasing
      <4> DEFINE m == IF j < i THEN j ELSE j + 1
                 n == IF k < i THEN k ELSE k + 1
      <4>1. m \in 1 .. Len(list) /\ n \in 1 .. Len(list) /\ m < n
        BY <2>1, <2>4
      <4>2. list'[j] = list[m] /\ list'[k] = list[n]
        BY <2>4
      <4> QED BY <4>1, <4>2 DEF ListInv, Increasing
    <3>2. ~multiple => Len(list') <= 1
      BY <2>4 DEF ListInv
    <3> QED BY <1>1, <2>4, <2>5, <3>1, <3>2 DEF ListInv
  <2>7. ASSUME NEW k \in 1 .. Len(list), k # i
        PROVE  \E j \in 1 .. Len(list') : list'[j] = list[k]
    <3>1. CASE k < i
      BY <2>1, <2>4, <3>1
    <3>2. CASE k > i
      <4>1. k - 1 \in 1 .. Len(list) - 1 /\ ~(k - 1 < i) /\ (k - 1) + 1 = k
        BY <2>1, <2>4, <3>2
      <4>2. list'[k - 1] = list[k]
        BY <2>4, <4>1
      <4> QED BY <2>4, <4>1, <4>2
    <3> QED BY <2>1, <2>7, <3>1, <3>2
  <2>8. IteratorInv'
    <3>1. at # End => \E j \in 1 .. Len(list') : list'[j].key = at
      <4> SUFFICES ASSUME at # End PROVE \E j \in 1 .. Len(list') : list'[j].key = at
        OBVIOUS
      <4>1. InCallback /\ running.key = at
        BY <1>1 DEF IteratorInv
      <4>2. PICK k \in 1 .. Len(list) : list[k].key = at
        BY DEF IteratorInv
      <4>3. k # i
        BY <2>3, <4>1, <4>2
      <4> QED BY <2>7, <4>2, <4>3
    <3> QED BY <1>1, <1>2, <3>1 DEF IteratorInv
  <2>9. RoundInv'
    BY <1>1, <1>2 DEF RoundInv
  <2>10. Served'
    <3> SUFFICES ASSUME round.open, NEW k \in 1 .. Len(list'),
                        list'[k] \in round.start, list'[k].fn # Empty, Passed(list[k])'
                 PROVE  IsCalled(list'[k].key)
      BY <1>1 DEF Served, IsCalled
    <3>1. PICK j \in 1 .. Len(list) : list'[k] = list[j]
      BY <2>5
    <3>2. Passed(list[j])
      BY <1>1, <1>2, <3>1 DEF Passed
    <3> QED BY <3>1, <3>2 DEF Served
  <2> QED BY <2>6, <2>8, <2>9, <2>10
<1>5. list' = list \/ \E k \in 1 .. Len(list) : list[k].id = id
  BY DEF RemoveCallback, Range, ListInv
<1> QED BY <1>3, <1>4, <1>5

\* The iterator starts at the first node; nothing is called yet.
LEMMA EventKeeps ==
  ASSUME Inv, Event
  PROVE  Inv'
<1> USE DEF Inv
<1>1. /\ UNCHANGED <<multiple, list, added, running, fault>>
      /\ ~round.open /\ at' = FirstKey
      /\ round' = [open |-> TRUE, start |-> Range(list), called |-> <<>>]
  BY DEF Event
<1>2. ~InCallback /\ ~InCallback'
  BY <1>1 DEF IteratorInv, InCallback
<1>3. list \in Seq(Node) /\ Len(list) \in Nat
  BY DEF ListInv
<1>4. Range(list) \subseteq Node /\ \A n \in Range(list) : n.key <= added
  BY <1>3 DEF Range, ListInv
<1>5. \/ at' = End /\ Len(list) = 0
      \/ Len(list) > 0 /\ at' = list[1].key
  BY <1>1, <1>3 DEF FirstKey
<1>6. ListInv'
  BY <1>1 DEF ListInv
<1>7. IteratorInv'
  <2>1. CASE at' = End /\ Len(list) = 0
    BY <1>1, <1>2, <2>1 DEF IteratorInv, End
  <2>2. CASE Len(list) > 0 /\ at' = list[1].key
    <3>1. 1 \in 1 .. Len(list) /\ list[1] \in Node
      BY <1>3, <2>2, ElementOfSeq
    <3>2. at' \in Nat
      BY <2>2, <3>1 DEF Node
    <3> QED BY <1>1, <1>2, <2>2, <3>1, <3>2 DEF IteratorInv
  <2> QED BY <1>5, <2>1, <2>2
<1>8. RoundInv'
  BY <1>1, <1>4 DEF RoundInv
<1>9. Served'
  <2> SUFFICES ASSUME NEW k \in 1 .. Len(list), Passed(list[k])' PROVE FALSE
    BY <1>1 DEF Served
  <2>1. at' = list[1].key /\ 1 \in 1 .. Len(list)
    BY <1>3, <1>5
  <2>2. list[1] \in Node /\ list[k] \in Node
    BY <1>3, <2>1, ElementOfSeq
  <2>3. list[1].key \in Nat \ {0} /\ list[k].key \in Nat
    BY <2>2 DEF Node
  <2>4. list[k].key < list[1].key
    BY <1>1, <1>2, <2>1, <2>3 DEF Passed, End
  <2>5. k = 1 \/ list[1].key < list[k].key
    BY <2>1 DEF ListInv, Increasing
  <2> QED BY <2>3, <2>4, <2>5
<1> QED BY <1>6, <1>7, <1>8, <1>9

\* The node with the key is the only one.
LEMMA NodeAt ==
  ASSUME ListInv, at \in Keys(list)
  PROVE  \E k \in 1 .. Len(list) : list[k].key = at /\ NodeOf(at) = list[k]
<1>1. list \in Seq(Node) /\ Len(list) \in Nat
  BY DEF ListInv
<1>2. PICK n \in Range(list) : n.key = at
  BY DEF Keys
<1>3. NodeOf(at) \in Range(list) /\ NodeOf(at).key = at
  BY <1>2 DEF NodeOf
<1> QED BY <1>1, <1>3 DEF Range

\* The callback of the iterator's node comes behind those called before.
LEMMA CallKeeps ==
  ASSUME Inv, Call
  PROVE  Inv'
<1> USE DEF Inv
<1> DEFINE c == round.called
           d == Append(c, at)
<1>1. /\ UNCHANGED <<multiple, list, added, at, fault>>
      /\ round.open /\ ~InCallback /\ at \in Keys(list)
      /\ running' = NodeOf(at) /\ round' = [round EXCEPT !.called = d]
  BY DEF Call
<1>2. PICK k \in 1 .. Len(list) : list[k].key = at /\ NodeOf(at) = list[k]
  BY <1>1, NodeAt
<1>3. list[k] \in Node
  BY <1>2, ElementOfSeq DEF ListInv
<1>4. at \in Nat /\ at # End
  BY <1>2, <1>3 DEF Node, End
<1>5. running'.key = at /\ InCallback'
  BY <1>1, <1>2, <1>4 DEF InCallback, NoNode
<1>6. c \in Seq(Nat) /\ Len(c) \in Nat
  BY DEF RoundInv
<1>7. /\ d \in Seq(Nat) /\ Len(d) = Len(c) + 1 /\ d[Len(c) + 1] = at
      /\ \A i \in 1 .. Len(c) : d[i] = c[i] /\ c[i] \in Nat /\ c[i] < at
      /\ \A i \in 1 .. Len(d) : i \in 1 .. Len(c) \/ i = Len(c) + 1
  BY <1>1, <1>4, <1>6 DEF RoundInv
<1>8. /\ round'.open = round.open /\ round'.start = round.start /\ round'.called = d
      /\ round' \in [open : BOOLEAN, start : SUBSET Node, called : Seq(Nat)]
  BY <1>1, <1>7 DEF RoundInv
<1> HIDE DEF c, d
<1>9. ListInv'
  BY <1>1 DEF ListInv
<1>10. IteratorInv'
  BY <1>1, <1>4, <1>5, <1>8 DEF IteratorInv
<1>11. RoundInv'
  <2>1. \A i, j \in 1 .. Len(d) : i < j => d[i] < d[j]
    <3> SUFFICES ASSUME NEW i \in 1 .. Len(d), NEW j \in 1 .. Len(d), i < j
                 PROVE  d[i] < d[j]
      OBVIOUS
    <3>1. i \in 1 .. Len(c)
      BY <1>6, <1>7
    <3>2. CASE j \in 1 .. Len(c)
      BY <1>7, <3>1, <3>2 DEF RoundInv, c
    <3>3. CASE j = Len(c) + 1
      BY <1>7, <3>1, <3>3
    <3> QED BY <1>7, <3>2, <3>3
  <2>2. \A i \in 1 .. Len(d) : d[i] <= at
    BY <1>4, <1>7
  <2> QED BY <1>1, <1>5, <1>8, <2>1, <2>2 DEF RoundInv
<1>12. Served'
  <2> SUFFICES ASSUME NEW j \in 1 .. Len(list), list[j] \in round.start,
                      list[j].fn # Empty, Passed(list[j])'
               PROVE  \E i \in 1 .. Len(d) : d[i] = list[j].key
    BY <1>1, <1>8 DEF Served, IsCalled
  <2>1. CASE list[j].key = at
    BY <1>6, <1>7, <2>1
  <2>2. CASE list[j].key # at
    <3>1. Passed(list[j])
      BY <1>1, <1>4, <2>2 DEF Passed
    <3>2. PICK i \in 1 .. Len(c) : c[i] = list[j].key
      BY <1>1, <3>1 DEF Served, IsCalled, c
    <3> QED BY <1>6, <1>7, <3>2
  <2> QED BY <2>1, <2>2
<1> QED BY <1>9, <1>10, <1>11, <1>12

\* The iterator passes its node, and no other.
LEMMA StepKeeps ==
  ASSUME Inv, Step, round.open, at # End,
         InCallback \/ NodeOf(at).fn = Empty
  PROVE  Inv'
<1> USE DEF Inv
<1>1. at \in Keys(list)
  BY DEF IteratorInv, Keys, Range, ListInv
<1>2. /\ UNCHANGED <<multiple, list, added, round, fault>>
      /\ at' = KeyAfter(at) /\ running' = NoNode
  BY <1>1 DEF Step
<1>3. PICK k \in 1 .. Len(list) : list[k].key = at /\ NodeOf(at) = list[k]
  BY <1>1, NodeAt
<1>4. at' = IF k < Len(list) THEN list[k + 1].key ELSE End
  BY <1>2, <1>3, NextKey
<1>5. ~InCallback'
  BY <1>2 DEF InCallback
<1>6. list \in Seq(Node) /\ Len(list) \in Nat /\ at \in Nat
  BY DEF ListInv, IteratorInv
<1>7. ASSUME at' # End
      PROVE  /\ k + 1 \in 1 .. Len(list) /\ at' = list[k + 1].key
             /\ at' \in Nat /\ at < at'
  <2>1. k + 1 \in 1 .. Len(list) /\ at' = list[k + 1].key
    BY <1>4, <1>6, <1>7
  <2>2. list[k + 1] \in Node
    BY <1>6, <2>1, ElementOfSeq
  <2>3. list[k].key < list[k + 1].key
    BY <2>1 DEF ListInv, Increasing
  <2> QED BY <1>3, <2>1, <2>2, <2>3 DEF Node
<1>8. ListInv'
  BY <1>2 DEF ListInv
<1>9. IteratorInv'
  BY <1>2, <1>5, <1>7 DEF IteratorInv, End
<1>10. RoundInv'
  <2>1. ASSUME at' # End, NEW i \in 1 .. Len(round.called)
        PROVE  round.called[i] <= at' /\ round.called[i] < at'
    <3>1. round.called[i] \in Nat /\ round.called[i] <= at
      BY DEF RoundInv
    <3> QED BY <1>6, <1>7, <2>1, <3>1
  <2> QED BY <1>2, <1>5, <2>1 DEF RoundInv
<1>11. Served'
  <2> SUFFICES ASSUME NEW j \in 1 .. Len(list), list[j] \in round.start,
                      list[j].fn # Empty, Passed(list[j])'
               PROVE  IsCalled(list[j].key)
    BY <1>2 DEF Served, IsCalled
  <2>1. list[j] \in Node
    BY <1>6, ElementOfSeq
  <2>2. list[j].key \in Nat
    BY <2>1 DEF Node
  <2>3. j <= k
    <3>1. CASE at' = End
      <4> SUFFICES ASSUME k < Len(list) PROVE FALSE
        BY <1>6
      <4>1. k + 1 \in 1 .. Len(list)
        BY <1>6
      <4>2. list[k + 1] \in Node
        BY <1>6, <4>1, ElementOfSeq
      <4>3. list[k + 1].key # End
        BY <4>2 DEF Node, End
      <4> QED BY <1>4, <3>1, <4>3
    <3>2. CASE at' # End
      <4>1. list[j].key < list[k + 1].key
        BY <1>2, <1>5, <1>7, <2>2, <3>2 DEF Passed
      <4>2. ~(k + 1 < j) /\ j # k + 1
        BY <1>7, <2>2, <3>2, <4>1 DEF ListInv, Increasing
      <4> QED BY <4>2
    <3> QED BY <3>1, <3>2
  <2>4. CASE j = k
    <3>1. InCallback
      BY <1>3, <2>4
    <3>2. Passed(list[j])
      BY <1>3, <2>4, <3>1 DEF Passed
    <3> QED BY <3>2 DEF Served
  <2>5. CASE j < k
    <3>1. list[j].key < at
      BY <1>3, <2>5 DEF ListInv, Increasing
    <3>2. Passed(list[j])
      BY <3>1 DEF Passed
    <3> QED BY <3>2 DEF Served
  <2> QED BY <2>3, <2>4, <2>5
<1> QED BY <1>8, <1>9, <1>10, <1>11

LEMMA FinishKeeps ==
  ASSUME Inv, Finish
  PROVE  Inv'
<1>1. /\ UNCHANGED <<multiple, list, added, at, running, fault>>
      /\ ~InCallback /\ at = End /\ round' = [round EXCEPT !.open = FALSE]
  BY DEF Finish
<1>2. /\ round'.open = FALSE /\ round'.start = round.start
      /\ round'.called = round.called
      /\ round' \in [open : BOOLEAN, start : SUBSET Node, called : Seq(Nat)]
  BY <1>1 DEF Inv, RoundInv
<1>3. ~InCallback'
  BY <1>1 DEF InCallback
<1>4. ListInv' /\ IteratorInv'
  BY <1>1, <1>2, <1>3 DEF Inv, ListInv, IteratorInv
<1>5. RoundInv'
  BY <1>1, <1>2 DEF Inv, RoundInv
<1>6. Served'
  BY <1>2 DEF Served
<1> QED BY <1>4, <1>5, <1>6 DEF Inv
-----------------------------------------------------------------------------
(* The theorems *)

LEMMA StepInv ==
  ASSUME ~RemovesRunning, Inv, [Next]_vars
  PROVE  Inv'
<1>1. CASE UNCHANGED vars
  BY <1>1 DEF vars, Inv, ListInv, IteratorInv, RoundInv, Served, IsCalled, Passed,
              InCallback
<1>2. ASSUME NEW id \in Id, NEW fn \in Function \cup {Empty}, AddCallback(id, fn)
      PROVE  Inv'
  BY <1>2, AddKeeps
<1>3. ASSUME NEW id \in Id, RemoveCallback(id) PROVE Inv'
  BY <1>3, RemoveKeeps
<1>4. CASE Event
  BY <1>4, EventKeeps
<1>5. CASE Call
  BY <1>5, CallKeeps
<1>6. CASE Skip
  <2>1. at # End
    <3>1. \E k \in 1 .. Len(list) : list[k].key = at /\ NodeOf(at) = list[k]
      BY <1>6, NodeAt DEF Skip, Inv
    <3>2. PICK k \in 1 .. Len(list) : list[k].key = at
      BY <3>1
    <3>3. list[k] \in Node
      BY ElementOfSeq DEF Inv, ListInv
    <3> QED BY <3>2, <3>3 DEF Node, End
  <2> QED BY <1>6, <2>1, StepKeeps DEF Skip
<1>7. CASE Return
  BY <1>7, StepKeeps DEF Return, Inv, IteratorInv
<1>8. CASE Finish
  BY <1>8, FinishKeeps
<1> QED BY <1>1, <1>2, <1>3, <1>4, <1>5, <1>6, <1>7, <1>8 DEF Next, AppNext

LEMMA Invariant == ASSUME ~RemovesRunning PROVE Spec => []Inv
<1>1. Init => Inv
  BY InitInv
<1>2. Inv /\ [Next]_vars => Inv'
  BY StepInv
<1> QED BY <1>1, <1>2, PTL DEF Spec

\* No iterator is advanced that was erased and no function destroyed while it
\* runs, as long as no callback removes or replaces itself: the loops of
\* MqttClientSetup.h:213-231 hold a copy of the function, and std::list keeps
\* the other nodes where they are.
THEOREM NodesAreAlive == ASSUME ~RemovesRunning PROVE Spec => []NoDeadNode
<1>1. Inv => NoDeadNode
  BY DEF Inv, IteratorInv, NoDeadNode
<1> QED BY <1>1, Invariant, PTL

\* Each callback is called at most once for an event, in the order in which
\* they were added, whatever callbacks are added and removed on the way: new
\* ones go to the back of the list (MqttClientSetup.h:81-139, 213-231).
THEOREM CallsInOrder == ASSUME ~RemovesRunning PROVE Spec => []CalledInOrder
<1>1. Inv => CalledInOrder
  BY DEF Inv, RoundInv, CalledInOrder
<1> QED BY <1>1, Invariant, PTL

\* At the end of an event each callback that was there at its start and still
\* is has been called (MqttClientSetup.h:141-201, 213-231): the removal of
\* others moves no iterator past one.
THEOREM EveryoneIsCalled == ASSUME ~RemovesRunning PROVE Spec => []NoneMissed
<1>1. Inv => NoneMissed
  <2> SUFFICES ASSUME Inv, round.open, ~InCallback, at = End,
                      NEW n \in round.start \cap Range(list), n.fn # Empty
               PROVE  n.key \in Range(round.called)
    BY DEF NoneMissed
  <2>1. PICK k \in 1 .. Len(list) : n = list[k]
    BY DEF Range, Inv, ListInv
  <2>2. Passed(list[k])
    BY DEF Passed
  <2>3. IsCalled(n.key)
    BY <2>1, <2>2 DEF Inv, Served
  <2> QED BY <2>3 DEF IsCalled, Range, Inv, RoundInv
<1> QED BY <1>1, Invariant, PTL
=============================================================================
