-------------------------------- MODULE Facts --------------------------------
(****************************************************************************)
(* What the other proofs have in common: induction; what the operators of   *)
(* Filter.tla and OutboxOps.tla do to a queue (which items are still there, *)
(* that none is there twice and that the cursor stays a position); and what *)
(* the length of a packet is as a row of digits.                            *)
(*                                                                          *)
(* Filtered and encodeRemainingLength are recursive functions.  Facts about *)
(* them are proved by induction on the set of the numbers for which they    *)
(* hold, their being defined included.                                      *)
(****************************************************************************)
EXTENDS OutboxOps, SequenceTheorems, WellFoundedInduction, TLAPS

\* Each set of naturals has a least element.
LEMMA LeastNat == ASSUME NEW T, T \subseteq Nat, T # {}
  PROVE \E x \in T : \A y \in T : x <= y
<1> DEFINE R == {ss \in Nat \X Nat : ss[1] < ss[2]}
<1>1. IsWellFoundedOn(R, Nat)
  <2>1. OpToRel(<, Nat) = R
    BY DEF OpToRel
  <2> QED BY <2>1, NatLessThanWellFounded
<1>2. \A x, y \in Nat : x < y => <<x, y>> \in R
  OBVIOUS
<1> HIDE DEF R
<1>3. PICK x \in T : \A y \in T : ~ (<<y, x>> \in R)
  BY <1>1, WFMin
<1>4. ASSUME NEW y \in T PROVE x <= y
  <2>1. ~(y < x)
    BY <1>2, <1>3
  <2> QED BY <2>1
<1> QED BY <1>4

\* Induction, for a property given as the set of the numbers that have it.
LEMMA SetInduction ==
  ASSUME NEW S, 0 \in S, \A n \in Nat : n \in S => n + 1 \in S
  PROVE  Nat \subseteq S
<1> SUFFICES ASSUME Nat \ S # {} PROVE FALSE
  OBVIOUS
<1>1. PICK x \in Nat \ S : \A y \in Nat \ S : x <= y
  BY LeastNat
<1>2. x # 0 /\ x - 1 \in Nat /\ x - 1 \in S
  BY <1>1
<1> QED BY <1>1, <1>2

\* A loop that carries a value of V from round to round has a course.
Runs(n, a, h, g) == g[0] = a /\ \A k \in 1 .. n : g[k] = h[<<k, g[k - 1]>>]

LEMMA LoopRuns ==
  ASSUME NEW n \in Nat, NEW V, NEW a \in V, NEW h \in [(1 .. n) \X V -> V]
  PROVE  \E g \in [0 .. n -> V] : Runs(n, a, h, g)
<1> DEFINE T == {m \in Nat : m <= n => \E g \in [0 .. m -> V] : Runs(m, a, h, g)}
<1>1. 0 \in T
  <2>1. [k \in 0 .. 0 |-> a] \in [0 .. 0 -> V] /\ Runs(0, a, h, [k \in 0 .. 0 |-> a])
    BY DEF Runs
  <2> QED BY <2>1
<1>2. ASSUME NEW m \in Nat, m \in T PROVE m + 1 \in T
  <2> SUFFICES ASSUME m + 1 <= n PROVE \E g \in [0 .. m + 1 -> V] : Runs(m + 1, a, h, g)
    OBVIOUS
  <2>1. PICK f \in [0 .. m -> V] : Runs(m, a, h, f)
    BY <1>2
  <2> DEFINE g == [k \in 0 .. m + 1 |-> IF k = m + 1 THEN h[<<m + 1, f[m]>>] ELSE f[k]]
  <2>2. h[<<m + 1, f[m]>>] \in V
    OBVIOUS
  <2>3. g \in [0 .. m + 1 -> V]
    BY <2>2
  <2>4. g[m + 1] = h[<<m + 1, f[m]>>] /\ \A k \in 0 .. m : g[k] = f[k]
    OBVIOUS
  <2> HIDE DEF g
  <2>5. Runs(m + 1, a, h, g)
    <3>1. g[0] = a
      BY <2>1, <2>4 DEF Runs
    <3>2. ASSUME NEW k \in 1 .. m + 1 PROVE g[k] = h[<<k, g[k - 1]>>]
      <4>1. CASE k = m + 1
        BY <2>4, <4>1
      <4>2. CASE k # m + 1
        <5>1. k \in 1 .. m /\ k \in 0 .. m /\ k - 1 \in 0 .. m
          BY <4>2
        <5> QED BY <2>1, <2>4, <5>1 DEF Runs
      <4> QED BY <4>1, <4>2
    <3> QED BY <3>1, <3>2 DEF Runs
  <2> QED BY <2>3, <2>5
<1> HIDE DEF T
<1>3. n \in T
  BY <1>1, <1>2, SetInduction
<1> QED BY <1>3 DEF T
-----------------------------------------------------------------------------
(* Filter *)

\* f unfolds the definition of Filtered up to n.
Unfolds(s, kept, n, f) ==
  f = [i \in 0 .. n |->
         IF i = 0 THEN <<>>
         ELSE IF s[i] \in kept THEN Append(f[i - 1], s[i]) ELSE f[i - 1]]

\* The same, one value at a time.
Steps(s, kept, n, f) ==
  /\ DOMAIN f = 0 .. n
  /\ f[0] = <<>>
  /\ \A i \in 1 .. n :
       f[i] = IF s[i] \in kept THEN Append(f[i - 1], s[i]) ELSE f[i - 1]

LEMMA UnfoldsSteps ==
  ASSUME NEW s, NEW kept, NEW n \in Nat, NEW f, Unfolds(s, kept, n, f)
  PROVE  Steps(s, kept, n, f)
<1>1. DOMAIN f = 0 .. n
  BY DEF Unfolds
<1>2. \A i \in 0 .. n :
        f[i] = IF i = 0 THEN <<>>
               ELSE IF s[i] \in kept THEN Append(f[i - 1], s[i]) ELSE f[i - 1]
  BY Zenon DEF Unfolds
<1>3. f[0] = <<>>
  BY <1>2
<1>4. ASSUME NEW i \in 1 .. n
      PROVE  f[i] = IF s[i] \in kept THEN Append(f[i - 1], s[i]) ELSE f[i - 1]
  <2>1. i \in 0 .. n /\ i # 0
    OBVIOUS
  <2> QED BY <1>2, <2>1, Zenon
<1> QED BY <1>1, <1>3, <1>4 DEF Steps

LEMMA StepsUnfolds ==
  ASSUME NEW s, NEW kept, NEW n \in Nat, NEW f, Steps(s, kept, n, f),
         f = [i \in 0 .. n |-> f[i]]
  PROVE  Unfolds(s, kept, n, f)
<1> DEFINE x(i) == IF i = 0 THEN <<>>
                   ELSE IF s[i] \in kept THEN Append(f[i - 1], s[i]) ELSE f[i - 1]
<1>1. ASSUME NEW i \in 0 .. n PROVE f[i] = x(i)
  <2>1. CASE i = 0
    BY <2>1 DEF Steps
  <2>2. CASE i # 0
    <3>1. i \in 1 .. n
      BY <2>2
    <3> QED BY <2>2, <3>1, Zenon DEF Steps
  <2> QED BY <2>1, <2>2
<1> HIDE DEF x
<1>2. [i \in 0 .. n |-> f[i]] = [i \in 0 .. n |-> x(i)]
  BY <1>1
<1> QED BY <1>2, Zenon DEF Unfolds, x

LEMMA SomethingUnfolds ==
  ASSUME NEW s, NEW kept
  PROVE  \A n \in Nat : \E f : Unfolds(s, kept, n, f)
<1> DEFINE T == {n \in Nat : \E f : Unfolds(s, kept, n, f)}
<1>1. 0 \in T
  <2> DEFINE g == [i \in 0 .. 0 |-> <<>>]
  <2>1. Steps(s, kept, 0, g) /\ g = [i \in 0 .. 0 |-> g[i]]
    BY DEF Steps
  <2> HIDE DEF g
  <2>2. Unfolds(s, kept, 0, g)
    BY <2>1, StepsUnfolds
  <2> QED BY <2>2
<1>2. ASSUME NEW n \in Nat, n \in T PROVE n + 1 \in T
  <2>1. PICK f : Unfolds(s, kept, n, f)
    BY <1>2
  <2>2. Steps(s, kept, n, f)
    BY <2>1, UnfoldsSteps
  <2> DEFINE x == IF s[n + 1] \in kept THEN Append(f[n], s[n + 1]) ELSE f[n]
             g == [i \in 0 .. n + 1 |-> IF i = n + 1 THEN x ELSE f[i]]
  <2>3. /\ DOMAIN g = 0 .. n + 1 /\ g = [i \in 0 .. n + 1 |-> g[i]]
        /\ g[n + 1] = x /\ \A i \in 0 .. n : g[i] = f[i]
    OBVIOUS
  <2> HIDE DEF g
  <2>4. ASSUME NEW i \in 1 .. n + 1
        PROVE  g[i] = IF s[i] \in kept THEN Append(g[i - 1], s[i]) ELSE g[i - 1]
    <3>1. CASE i = n + 1
      <4>1. g[i] = x /\ g[i - 1] = f[n]
        BY <2>3, <3>1
      <4> QED BY <3>1, <4>1
    <3>2. CASE i # n + 1
      <4>1. i \in 1 .. n /\ i \in 0 .. n /\ i - 1 \in 0 .. n
        BY <3>2
      <4>2. g[i] = f[i] /\ g[i - 1] = f[i - 1]
        BY <2>3, <4>1
      <4> QED BY <2>2, <4>1, <4>2, Zenon DEF Steps
    <3> QED BY <3>1, <3>2
  <2>5. g[0] = <<>>
    BY <2>2, <2>3 DEF Steps
  <2>6. Steps(s, kept, n + 1, g)
    BY <2>3, <2>4, <2>5 DEF Steps
  <2>7. Unfolds(s, kept, n + 1, g)
    <3>1. n + 1 \in Nat
      OBVIOUS
    <3> QED BY <2>3, <2>6, <3>1, StepsUnfolds
  <2> QED BY <2>7
<1> HIDE DEF T
<1>3. Nat \subseteq T
  BY <1>1, <1>2, SetInduction
<1> QED BY <1>3 DEF T

\* Filtered is defined for every sequence and takes one item at a time.
LEMMA FilteredSteps ==
  ASSUME NEW S, NEW s \in Seq(S), NEW kept
  PROVE  Steps(s, kept, Len(s), Filtered(s, kept))
<1>1. Len(s) \in Nat
  OBVIOUS
<1>2. \E f : Unfolds(s, kept, Len(s), f)
  BY <1>1, SomethingUnfolds
<1> DEFINE F == CHOOSE f : Unfolds(s, kept, Len(s), f)
<1>3. Unfolds(s, kept, Len(s), F)
  BY <1>2, Zenon
<1>4. Filtered(s, kept) = F
  BY DEF Filtered, Unfolds
<1> HIDE DEF F
<1> QED BY <1>1, <1>3, <1>4, UnfoldsSteps

\* t consists of the items e[1] < e[2] < ... of the first n items of s, which
\* are those in kept.
Picks(t, s, n, kept, e) ==
  /\ e \in [1 .. Len(t) -> 1 .. n]
  /\ \A j, k \in 1 .. Len(t) : j < k => e[j] < e[k]
  /\ \A k \in 1 .. Len(t) : t[k] = s[e[k]] /\ s[e[k]] \in kept
  /\ \A j \in 1 .. n : s[j] \in kept => \E k \in 1 .. Len(t) : e[k] = j

LEMMA PicksOneMore ==
  ASSUME NEW S, NEW s \in Seq(S), NEW kept, NEW n \in Nat, n + 1 <= Len(s),
         NEW t \in Seq(S), NEW e, Picks(t, s, n, kept, e), s[n + 1] \in kept
  PROVE  \E g : Picks(Append(t, s[n + 1]), s, n + 1, kept, g)
<1> DEFINE u == Append(t, s[n + 1])
           l == Len(t)
           g == [k \in 1 .. l + 1 |-> IF k = l + 1 THEN n + 1 ELSE e[k]]
<1>1. l \in Nat /\ s[n + 1] \in S
  BY ElementOfSeq
<1>2. /\ Len(u) = l + 1 /\ u[l + 1] = s[n + 1]
      /\ \A k \in 1 .. l : u[k] = t[k]
  BY <1>1
<1>3. /\ g[l + 1] = n + 1
      /\ \A k \in 1 .. l : g[k] = e[k] /\ e[k] \in 1 .. n
  BY <1>1 DEF Picks
<1>4. g \in [1 .. l + 1 -> 1 .. n + 1]
  BY <1>1 DEF Picks
<1> HIDE DEF u, l, g
<1>5. ASSUME NEW j \in 1 .. l + 1, NEW k \in 1 .. l + 1, j < k
      PROVE  g[j] < g[k]
  <2>1. j \in 1 .. l
    BY <1>1, <1>5
  <2>2. CASE k = l + 1
    BY <1>3, <2>1, <2>2
  <2>3. CASE k # l + 1
    <3>1. k \in 1 .. l
      BY <1>1, <2>3
    <3>2. e[j] < e[k]
      BY <1>5, <2>1, <3>1 DEF Picks, l
    <3> QED BY <1>3, <2>1, <3>1, <3>2
  <2> QED BY <2>2, <2>3
<1>6. ASSUME NEW k \in 1 .. l + 1
      PROVE  u[k] = s[g[k]] /\ s[g[k]] \in kept
  <2>1. CASE k = l + 1
    BY <1>2, <1>3, <2>1
  <2>2. CASE k # l + 1
    <3>1. k \in 1 .. l
      BY <1>1, <2>2
    <3>2. t[k] = s[e[k]] /\ s[e[k]] \in kept
      BY <3>1 DEF Picks, l
    <3> QED BY <1>2, <1>3, <3>1, <3>2
  <2> QED BY <2>1, <2>2
<1>7. ASSUME NEW j \in 1 .. n + 1, s[j] \in kept
      PROVE  \E k \in 1 .. l + 1 : g[k] = j
  <2>1. CASE j = n + 1
    BY <1>1, <1>3, <2>1
  <2>2. CASE j # n + 1
    <3>1. j \in 1 .. n
      BY <2>2
    <3>2. PICK k \in 1 .. l : e[k] = j
      BY <1>7, <3>1 DEF Picks, l
    <3> QED BY <1>1, <1>3, <3>2
  <2> QED BY <2>1, <2>2
<1>8. Picks(u, s, n + 1, kept, g)
  BY <1>2, <1>4, <1>5, <1>6, <1>7 DEF Picks
<1> QED BY <1>8 DEF u

LEMMA PicksNoMore ==
  ASSUME NEW S, NEW s \in Seq(S), NEW kept, NEW n \in Nat, n + 1 <= Len(s),
         NEW t \in Seq(S), NEW e, Picks(t, s, n, kept, e), s[n + 1] \notin kept
  PROVE  Picks(t, s, n + 1, kept, e)
<1>1. e \in [1 .. Len(t) -> 1 .. n + 1]
  BY DEF Picks
<1>2. ASSUME NEW j \in 1 .. n + 1, s[j] \in kept
      PROVE  \E k \in 1 .. Len(t) : e[k] = j
  <2>1. j \in 1 .. n
    BY <1>2
  <2> QED BY <1>2, <2>1 DEF Picks
<1> QED BY <1>1, <1>2 DEF Picks

\* What was visited leaves exactly the items in kept, in their order.
LEMMA FilteredPicks ==
  ASSUME NEW S, NEW s \in Seq(S), NEW kept
  PROVE  \A n \in 0 .. Len(s) :
           /\ Filtered(s, kept)[n] \in Seq(S)
           /\ \E e : Picks(Filtered(s, kept)[n], s, n, kept, e)
<1> DEFINE F == Filtered(s, kept)
           P(n) == F[n] \in Seq(S) /\ \E e : Picks(F[n], s, n, kept, e)
           T == {n \in Nat : n <= Len(s) => P(n)}
<1>1. Steps(s, kept, Len(s), F) /\ Len(s) \in Nat
  BY FilteredSteps
<1> HIDE DEF F
<1>2. 0 \in T
  <2>1. F[0] = <<>>
    BY <1>1 DEF Steps
  <2> DEFINE g == [k \in 1 .. 0 |-> 0]
  <2>2. Picks(<<>>, s, 0, kept, g)
    BY DEF Picks
  <2> HIDE DEF g
  <2>3. F[0] \in Seq(S) /\ \E e : Picks(F[0], s, 0, kept, e)
    BY <2>1, <2>2
  <2> QED BY <2>3
<1>3. ASSUME NEW n \in Nat, n \in T PROVE n + 1 \in T
  <2> SUFFICES ASSUME n + 1 <= Len(s) PROVE P(n + 1)
    OBVIOUS
  <2>1. P(n) /\ n + 1 \in 1 .. Len(s)
    BY <1>1, <1>3
  <2>2. PICK e : Picks(F[n], s, n, kept, e)
    BY <2>1
  <2>3. F[n + 1] = IF s[n + 1] \in kept THEN Append(F[n], s[n + 1]) ELSE F[n]
    BY <1>1, <2>1 DEF Steps
  <2>4. CASE s[n + 1] \in kept
    <3>1. F[n + 1] = Append(F[n], s[n + 1]) /\ s[n + 1] \in S
      BY <2>1, <2>3, <2>4, ElementOfSeq
    <3>2. F[n + 1] \in Seq(S)
      BY <2>1, <3>1
    <3>3. \E g : Picks(F[n + 1], s, n + 1, kept, g)
      BY <2>1, <2>2, <2>4, <3>1, PicksOneMore
    <3> QED BY <3>2, <3>3
  <2>5. CASE s[n + 1] \notin kept
    <3>1. F[n + 1] = F[n]
      BY <2>3, <2>5
    <3>2. Picks(F[n + 1], s, n + 1, kept, e)
      BY <2>1, <2>2, <2>5, <3>1, PicksNoMore
    <3> QED BY <2>1, <3>1, <3>2
  <2> QED BY <2>4, <2>5
<1> HIDE DEF T, P
<1>4. Nat \subseteq T
  BY <1>2, <1>3, SetInduction
<1>5. ASSUME NEW n \in 0 .. Len(s) PROVE P(n)
  <2>1. n \in Nat /\ n <= Len(s)
    BY <1>1
  <2> QED BY <1>4, <2>1 DEF T
<1> QED BY <1>5 DEF P, F

\* What is left of the first items never gets shorter.
LEMMA FilteredGrows ==
  ASSUME NEW S, NEW s \in Seq(S), NEW kept, NEW m \in 0 .. Len(s), NEW k \in m .. Len(s)
  PROVE  Len(Filtered(s, kept)[m]) <= Len(Filtered(s, kept)[k])
<1> DEFINE F == Filtered(s, kept)
           T == {n \in Nat : m + n <= Len(s) => Len(F[m]) <= Len(F[m + n])}
<1>1. /\ Steps(s, kept, Len(s), F) /\ Len(s) \in Nat
      /\ \A n \in 0 .. Len(s) : F[n] \in Seq(S)
  BY FilteredSteps, FilteredPicks
<1> HIDE DEF F
<1>2. 0 \in T
  BY <1>1
<1>3. ASSUME NEW n \in Nat, n \in T PROVE n + 1 \in T
  <2> SUFFICES ASSUME m + (n + 1) <= Len(s) PROVE Len(F[m]) <= Len(F[m + (n + 1)])
    OBVIOUS
  <2> DEFINE j == m + n
  <2>1. j \in Nat /\ j + 1 \in 1 .. Len(s) /\ m + (n + 1) = j + 1 /\ j \in 0 .. Len(s)
    BY <1>1
  <2>2. Len(F[m]) <= Len(F[j])
    BY <1>3, <2>1
  <2> HIDE DEF j
  <2>3. F[j + 1] = IF s[j + 1] \in kept THEN Append(F[(j + 1) - 1], s[j + 1])
                                        ELSE F[(j + 1) - 1]
    BY <1>1, <2>1, Zenon DEF Steps
  <2>4. (j + 1) - 1 = j /\ F[j] \in Seq(S) /\ F[m] \in Seq(S) /\ s[j + 1] \in S
    BY <1>1, <2>1, ElementOfSeq
  <2>5. Len(F[j]) <= Len(F[j + 1])
    BY <2>3, <2>4
  <2>6. F[j + 1] \in Seq(S)
    BY <1>1, <2>1
  <2> QED BY <2>1, <2>2, <2>4, <2>5, <2>6
<1> HIDE DEF T
<1>4. Nat \subseteq T
  BY <1>2, <1>3, SetInduction
<1>5. k - m \in Nat /\ m + (k - m) = k /\ k <= Len(s)
  BY <1>1
<1>6. Len(F[m]) <= Len(F[k])
  BY <1>4, <1>5 DEF T
<1> QED BY <1>6 DEF F
-----------------------------------------------------------------------------
(* Packets of a queue, by type and id *)

Has(s, types, i) == \E k \in 1 .. Len(s) : s[k].type \in types /\ s[k].id = i

\* There is at most one.
AtMostOne(s, types, i) ==
  \A j, k \in 1 .. Len(s) :
    s[j].type \in types /\ s[j].id = i /\ s[k].type \in types /\ s[k].id = i => j = k

\* The same packet but for the mark of a retransmission.
Same(p, r) == p.type = r.type /\ p.id = r.id /\ p.qos = r.qos

\* t is s without some of its packets.
Within(t, s) ==
  \E e \in [1 .. Len(t) -> 1 .. Len(s)] :
    /\ \A j, k \in 1 .. Len(t) : j < k => e[j] < e[k]
    /\ \A k \in 1 .. Len(t) : Same(t[k], s[e[k]])

LEMMA WithinHas ==
  ASSUME NEW s, NEW t, Within(t, s), NEW types, NEW i, Has(t, types, i)
  PROVE  Has(s, types, i)
BY DEF Within, Has, Same

LEMMA WithinAtMostOne ==
  ASSUME NEW S, NEW s \in Seq(S), NEW t \in Seq(S), Within(t, s), NEW types, NEW i,
         AtMostOne(s, types, i)
  PROVE  AtMostOne(t, types, i)
<1>1. PICK e \in [1 .. Len(t) -> 1 .. Len(s)] :
        /\ \A j, k \in 1 .. Len(t) : j < k => e[j] < e[k]
        /\ \A k \in 1 .. Len(t) : Same(t[k], s[e[k]])
  BY DEF Within
<1>2. ASSUME NEW j \in 1 .. Len(t), NEW k \in 1 .. Len(t),
             t[j].type \in types, t[j].id = i, t[k].type \in types, t[k].id = i
      PROVE  j = k
  <2>1. e[j] \in 1 .. Len(s) /\ e[k] \in 1 .. Len(s)
    OBVIOUS
  <2>2. e[j] = e[k]
    BY <1>1, <1>2, <2>1 DEF AtMostOne, Same
  <2>3. ~(j < k) /\ ~(k < j)
    BY <1>1, <2>1, <2>2
  <2> QED BY <2>3
<1> QED BY <1>2 DEF AtMostOne

LEMMA WithinItself == ASSUME NEW S, NEW s \in Seq(S) PROVE Within(s, s)
<1> DEFINE e == [k \in 1 .. Len(s) |-> k]
<1>1. /\ e \in [1 .. Len(s) -> 1 .. Len(s)]
      /\ \A j, k \in 1 .. Len(s) : j < k => e[j] < e[k]
      /\ \A k \in 1 .. Len(s) : Same(s[k], s[e[k]])
  BY DEF Same
<1> QED BY <1>1 DEF Within

LEMMA WithinTrans ==
  ASSUME NEW S, NEW s \in Seq(S), NEW t \in Seq(S), NEW u \in Seq(S),
         Within(u, t), Within(t, s)
  PROVE  Within(u, s)
<1>1. PICK d \in [1 .. Len(u) -> 1 .. Len(t)] :
        /\ \A j, k \in 1 .. Len(u) : j < k => d[j] < d[k]
        /\ \A k \in 1 .. Len(u) : Same(u[k], t[d[k]])
  BY DEF Within
<1>2. PICK e \in [1 .. Len(t) -> 1 .. Len(s)] :
        /\ \A j, k \in 1 .. Len(t) : j < k => e[j] < e[k]
        /\ \A k \in 1 .. Len(t) : Same(t[k], s[e[k]])
  BY DEF Within
<1> DEFINE g == [k \in 1 .. Len(u) |-> e[d[k]]]
<1>3. /\ g \in [1 .. Len(u) -> 1 .. Len(s)]
      /\ \A k \in 1 .. Len(u) : g[k] = e[d[k]] /\ d[k] \in 1 .. Len(t)
  OBVIOUS
<1> HIDE DEF g
<1>4. \A j, k \in 1 .. Len(u) : j < k => g[j] < g[k]
  BY <1>1, <1>2, <1>3
<1>5. ASSUME NEW k \in 1 .. Len(u) PROVE Same(u[k], s[g[k]])
  <2>1. d[k] \in 1 .. Len(t) /\ g[k] = e[d[k]]
    BY <1>3
  <2>2. Same(u[k], t[d[k]]) /\ Same(t[d[k]], s[e[d[k]]])
    BY <1>1, <1>2, <2>1
  <2> QED BY <2>1, <2>2 DEF Same
<1> QED BY <1>3, <1>4, <1>5 DEF Within

LEMMA EmptyWithin == ASSUME NEW S, NEW s \in Seq(S) PROVE Within(<<>>, s)
<1> DEFINE e == [k \in 1 .. 0 |-> k]
<1>1. /\ e \in [1 .. Len(<<>>) -> 1 .. Len(s)]
      /\ \A j, k \in 1 .. Len(<<>>) : j < k => e[j] < e[k]
      /\ \A k \in 1 .. Len(<<>>) : Same(<<>>[k], s[e[k]])
  OBVIOUS
<1> QED BY <1>1 DEF Within

\* The first or the last part of a sequence.
LEMMA PartsWithin ==
  ASSUME NEW S, NEW s \in Seq(S), NEW t \in Seq(S)
  PROVE  Within(s, s \o t) /\ Within(t, s \o t)
<1>1. /\ Len(s) \in Nat /\ Len(t) \in Nat /\ Len(s \o t) = Len(s) + Len(t)
      /\ \A k \in 1 .. Len(s) + Len(t) :
           (s \o t)[k] = IF k <= Len(s) THEN s[k] ELSE t[k - Len(s)]
  BY ConcatProperties
<1> DEFINE u == s \o t
           d == [k \in 1 .. Len(s) |-> k]
           e == [k \in 1 .. Len(t) |-> k + Len(s)]
<1> HIDE DEF u
<1>2. /\ d \in [1 .. Len(s) -> 1 .. Len(u)]
      /\ \A j, k \in 1 .. Len(s) : j < k => d[j] < d[k]
      /\ \A k \in 1 .. Len(s) : u[d[k]] = s[k]
  BY <1>1 DEF u
<1>3. /\ e \in [1 .. Len(t) -> 1 .. Len(u)]
      /\ \A j, k \in 1 .. Len(t) : j < k => e[j] < e[k]
      /\ \A k \in 1 .. Len(t) : u[e[k]] = t[k]
  BY <1>1 DEF u
<1> HIDE DEF d, e
<1>4. Within(s, u)
  BY <1>2 DEF Within, Same
<1>5. Within(t, u)
  BY <1>3 DEF Within, Same
<1> QED BY <1>4, <1>5 DEF u

LEMMA AppendHas ==
  ASSUME NEW S, NEW s \in Seq(S), NEW x \in S, NEW types, NEW i
  PROVE  /\ Append(s, x) \in Seq(S)
         /\ Has(Append(s, x), types, i) <=> Has(s, types, i) \/ (x.type \in types /\ x.id = i)
         /\ AtMostOne(s, types, i) /\ ~Has(s, types, i) => AtMostOne(Append(s, x), types, i)
         /\ AtMostOne(s, types, i) /\ ~(x.type \in types /\ x.id = i)
              => AtMostOne(Append(s, x), types, i)
<1> DEFINE u == Append(s, x)
<1>1. /\ u \in Seq(S) /\ Len(s) \in Nat /\ Len(u) = Len(s) + 1 /\ u[Len(s) + 1] = x
      /\ \A k \in 1 .. Len(s) : u[k] = s[k]
  OBVIOUS
<1> HIDE DEF u
<1>2. Has(u, types, i) <=> Has(s, types, i) \/ (x.type \in types /\ x.id = i)
  BY <1>1 DEF Has
<1>3. ASSUME AtMostOne(s, types, i), ~Has(s, types, i) \/ ~(x.type \in types /\ x.id = i)
      PROVE  AtMostOne(u, types, i)
  BY <1>1, <1>3 DEF AtMostOne, Has
<1> QED BY <1>1, <1>2, <1>3 DEF u

LEMMA FrontHas ==
  ASSUME NEW S, NEW s \in Seq(S), NEW x \in S, NEW types, NEW i
  PROVE  /\ <<x>> \o s \in Seq(S) /\ Len(<<x>> \o s) = Len(s) + 1
         /\ Has(<<x>> \o s, types, i) <=> Has(s, types, i) \/ (x.type \in types /\ x.id = i)
         /\ AtMostOne(s, types, i) /\ ~(x.type \in types /\ x.id = i)
              => AtMostOne(<<x>> \o s, types, i)
<1> DEFINE u == <<x>> \o s
<1>1. /\ u \in Seq(S) /\ Len(s) \in Nat /\ Len(u) = Len(s) + 1 /\ u[1] = x
      /\ \A k \in 2 .. Len(s) + 1 : u[k] = s[k - 1]
  <2>1. <<x>> \in Seq(S) /\ Len(<<x>>) = 1 /\ <<x>>[1] = x
    OBVIOUS
  <2> QED BY <2>1, ConcatProperties
<1> HIDE DEF u
<1>2. \A k \in 1 .. Len(s) : k + 1 \in 2 .. Len(s) + 1 /\ u[k + 1] = s[k]
  BY <1>1
<1>3. Has(u, types, i) <=> Has(s, types, i) \/ (x.type \in types /\ x.id = i)
  <2>1. ASSUME Has(u, types, i) PROVE Has(s, types, i) \/ (x.type \in types /\ x.id = i)
    BY <1>1, <2>1 DEF Has
  <2>2. ASSUME Has(s, types, i) PROVE Has(u, types, i)
    BY <1>1, <1>2, <2>2 DEF Has
  <2>3. ASSUME x.type \in types /\ x.id = i PROVE Has(u, types, i)
    BY <1>1, <2>3 DEF Has
  <2> QED BY <2>1, <2>2, <2>3
<1>4. ASSUME AtMostOne(s, types, i), ~(x.type \in types /\ x.id = i)
      PROVE  AtMostOne(u, types, i)
  <2>1. ASSUME NEW j \in 1 .. Len(u), NEW k \in 1 .. Len(u),
               u[j].type \in types /\ u[j].id = i /\ u[k].type \in types /\ u[k].id = i
        PROVE  j = k
    <3>1. j # 1 /\ k # 1
      BY <1>1, <1>4, <2>1
    <3>2. j - 1 \in 1 .. Len(s) /\ k - 1 \in 1 .. Len(s)
      BY <1>1, <3>1
    <3>3. u[j] = s[j - 1] /\ u[k] = s[k - 1]
      BY <1>1, <3>1
    <3> QED BY <1>4, <2>1, <3>2, <3>3 DEF AtMostOne
  <2> QED BY <2>1 DEF AtMostOne
<1> QED BY <1>1, <1>3, <1>4 DEF u

LEMMA TailHas ==
  ASSUME NEW S, NEW s \in Seq(S), s # <<>>
  PROVE  /\ Tail(s) \in Seq(S) /\ Head(s) \in S /\ Head(s) = s[1]
         /\ Len(Tail(s)) = Len(s) - 1 /\ Len(s) \in Nat \ {0}
         /\ \A k \in 1 .. Len(s) - 1 : Tail(s)[k] = s[k + 1]
         /\ Within(Tail(s), s)
<1>1. /\ Tail(s) \in Seq(S) /\ Head(s) \in S /\ Head(s) = s[1]
      /\ Len(Tail(s)) = Len(s) - 1 /\ Len(s) \in Nat \ {0}
      /\ \A k \in 1 .. Len(s) - 1 : Tail(s)[k] = s[k + 1]
  BY HeadTailProperties, EmptySeq
<1> DEFINE e == [k \in 1 .. Len(s) - 1 |-> k + 1]
<1>2. /\ e \in [1 .. Len(Tail(s)) -> 1 .. Len(s)]
      /\ \A j, k \in 1 .. Len(Tail(s)) : j < k => e[j] < e[k]
      /\ \A k \in 1 .. Len(Tail(s)) : e[k] = k + 1
  BY <1>1
<1> HIDE DEF e
<1>3. \A k \in 1 .. Len(Tail(s)) : Same(Tail(s)[k], s[e[k]])
  BY <1>1, <1>2 DEF Same
<1> QED BY <1>1, <1>2, <1>3 DEF Within
\* t holds no packet with an id that s does not hold, and none more often.
Fewer(t, s) ==
  /\ \A k \in 1 .. Len(t) : t[k].id # 0 => \E j \in 1 .. Len(s) : Same(t[k], s[j])
  /\ \A types : \A i : i # 0 /\ AtMostOne(s, types, i) => AtMostOne(t, types, i)

LEMMA WithinFewer ==
  ASSUME NEW S, NEW s \in Seq(S), NEW t \in Seq(S), Within(t, s)
  PROVE  Fewer(t, s)
<1>1. \A k \in 1 .. Len(t) : \E j \in 1 .. Len(s) : Same(t[k], s[j])
  BY DEF Within
<1>2. \A types : \A i : AtMostOne(s, types, i) => AtMostOne(t, types, i)
  BY WithinAtMostOne
<1> QED BY <1>1, <1>2 DEF Fewer

LEMMA FewerItself == ASSUME NEW S, NEW s \in Seq(S) PROVE Fewer(s, s)
BY WithinItself, WithinFewer

LEMMA FewerHas ==
  ASSUME NEW s, NEW t, Fewer(t, s), NEW types, NEW i, i # 0, Has(t, types, i)
  PROVE  Has(s, types, i)
BY DEF Fewer, Has, Same

\* A packet without an id makes no difference.
LEMMA AddedFewer ==
  ASSUME NEW S, NEW s \in Seq(S), NEW x \in S, x.id = 0
  PROVE  Fewer(Append(s, x), s) /\ Fewer(<<x>> \o s, s)
<1>1. ASSUME NEW k \in 1 .. Len(Append(s, x)), Append(s, x)[k].id # 0
      PROVE  \E j \in 1 .. Len(s) : Same(Append(s, x)[k], s[j])
  <2>1. k \in 1 .. Len(s) /\ Append(s, x)[k] = s[k]
    BY <1>1
  <2> QED BY <2>1 DEF Same
<1>2. ASSUME NEW k \in 1 .. Len(<<x>> \o s), (<<x>> \o s)[k].id # 0
      PROVE  \E j \in 1 .. Len(s) : Same((<<x>> \o s)[k], s[j])
  <2>1. <<x>> \in Seq(S) /\ Len(<<x>>) = 1 /\ <<x>>[1] = x
    OBVIOUS
  <2>2. /\ Len(<<x>> \o s) = Len(s) + 1 /\ (<<x>> \o s)[1] = x
        /\ \A j \in 2 .. Len(s) + 1 : (<<x>> \o s)[j] = s[j - 1]
    BY <2>1, ConcatProperties
  <2>3. k - 1 \in 1 .. Len(s) /\ (<<x>> \o s)[k] = s[k - 1]
    BY <1>2, <2>2
  <2> QED BY <2>3 DEF Same
<1>3. ASSUME NEW types, NEW i, i # 0, AtMostOne(s, types, i)
      PROVE  AtMostOne(Append(s, x), types, i) /\ AtMostOne(<<x>> \o s, types, i)
  BY <1>3, AppendHas, FrontHas
<1> QED BY <1>1, <1>2, <1>3 DEF Fewer
-----------------------------------------------------------------------------
(* The operations of the outbox *)

\* A queue of packets with a cursor that is one of its positions, or the end.
Box(S) == {o \in [q : Seq(S), c : Nat \ {0}] : o.c <= Len(o.q) + 1}

LEMMA EmplaceBox ==
  ASSUME NEW S, NEW o \in Box(S), NEW x \in S
  PROVE  Emplace(o, x) \in Box(S) /\ Emplace(o, x).q = Append(o.q, x)
         /\ Emplace(o, x).c = o.c
<1>1. o.q \in Seq(S) /\ o.c \in Nat \ {0} /\ o.c <= Len(o.q) + 1
  BY DEF Box
<1>2. Append(o.q, x) \in Seq(S) /\ Len(Append(o.q, x)) = Len(o.q) + 1
  BY <1>1
<1>3. Emplace(o, x) = [q |-> Append(o.q, x), c |-> o.c]
  <2>1. o \in [q : Seq(S), c : Nat \ {0}]
    BY DEF Box
  <2> DEFINE r == Append(o.q, x)
  <2>2. Emplace(o, x) = [o EXCEPT !.q = r]
    BY DEF Emplace
  <2> HIDE DEF r
  <2>3. Emplace(o, x) = [q |-> r, c |-> o.c]
    BY <2>1, <2>2
  <2> QED BY <2>3 DEF r
<1> QED BY <1>1, <1>2, <1>3 DEF Box

LEMMA EmplaceFrontBox ==
  ASSUME NEW S, NEW o \in Box(S), NEW x \in S
  PROVE  EmplaceFront(o, x) \in Box(S) /\ EmplaceFront(o, x).q = <<x>> \o o.q
         /\ EmplaceFront(o, x).c = 1
<1>1. <<x>> \o o.q \in Seq(S) /\ Len(<<x>> \o o.q) = Len(o.q) + 1 /\ Len(o.q) \in Nat
  BY FrontHas DEF Box
<1> QED BY <1>1 DEF Box, EmplaceFront

LEMMA ResetBox ==
  ASSUME NEW S, NEW o \in Box(S)
  PROVE  ResetCurrent(o) \in Box(S) /\ ResetCurrent(o).q = o.q
BY DEF Box, ResetCurrent

LEMMA NextItemBox ==
  ASSUME NEW S, NEW o \in Box(S)
  PROVE  NextItem(o) \in Box(S) /\ NextItem(o).q = o.q
BY DEF Box, NextItem, HasCurrent

LEMMA RemoveItemBox ==
  ASSUME NEW S, NEW o \in Box(S), NEW i \in 1 .. Len(o.q)
  PROVE  LET r == RemoveItem(o, i)
         IN  /\ r \in Box(S) /\ Within(r.q, o.q)
             /\ Len(r.q) = Len(o.q) - 1
             /\ \A k \in 1 .. i - 1 : r.q[k] = o.q[k]
             /\ \A k \in i .. Len(o.q) - 1 : r.q[k] = o.q[k + 1]
<1> DEFINE s == o.q
           l == Len(o.q)
           a == SubSeq(s, 1, i - 1)
           b == SubSeq(s, i + 1, l)
           t == a \o b
           r == RemoveItem(o, i)
<1>1. s \in Seq(S) /\ l \in Nat /\ o.c \in Nat \ {0} /\ o.c <= l + 1
  BY DEF Box
<1>2. \A k \in 1 .. l : s[k] \in S
  BY <1>1, ElementOfSeq
<1>3. /\ a \in Seq(S) /\ Len(a) = i - 1 /\ \A k \in 1 .. i - 1 : a[k] = s[k]
  <2>1. \A k \in 1 .. i - 1 : s[k] \in S
    BY <1>1, <1>2
  <2> QED BY <2>1, SubSeqProperties
<1>4. /\ b \in Seq(S) /\ Len(b) = l - i /\ \A k \in 1 .. l - i : b[k] = s[i + k]
  <2>1. \A k \in i + 1 .. l : s[k] \in S
    BY <1>1, <1>2
  <2>2. i + 1 \in Int /\ l \in Int /\ l - (i + 1) + 1 = l - i
    BY <1>1
  <2>3. /\ b \in Seq(S) /\ Len(b) = IF i + 1 <= l THEN l - (i + 1) + 1 ELSE 0
        /\ \A k \in 1 .. l - (i + 1) + 1 : b[k] = s[i + 1 + k - 1]
    BY <2>1, <2>2, SubSeqProperties
  <2>4. Len(b) = l - i
    BY <1>1, <2>3
  <2>5. \A k \in 1 .. l - i : i + 1 + k - 1 = i + k
    OBVIOUS
  <2> QED BY <2>2, <2>3, <2>4, <2>5
<1> HIDE DEF a, b
<1>5. /\ t \in Seq(S) /\ Len(t) = l - 1
      /\ \A k \in 1 .. l - 1 : t[k] = IF k <= i - 1 THEN a[k] ELSE b[k - (i - 1)]
  <2>1. Len(a) + Len(b) = l - 1
    BY <1>1, <1>3, <1>4
  <2>2. /\ t \in Seq(S) /\ Len(t) = Len(a) + Len(b)
        /\ \A k \in 1 .. Len(a) + Len(b) :
             t[k] = IF k <= Len(a) THEN a[k] ELSE b[k - Len(a)]
    BY <1>3, <1>4, ConcatProperties
  <2> QED BY <1>3, <2>1, <2>2
<1>6. \A k \in 1 .. i - 1 : t[k] = s[k]
  BY <1>1, <1>3, <1>5
<1>7. ASSUME NEW k \in i .. l - 1 PROVE t[k] = s[k + 1]
  <2>1. k - (i - 1) \in 1 .. l - i /\ i + (k - (i - 1)) = k + 1 /\ ~(k <= i - 1)
        /\ k \in 1 .. l - 1
    BY <1>1
  <2> QED BY <1>4, <1>5, <2>1
<1>8. r = [q |-> t, c |-> IF i < o.c THEN o.c - 1 ELSE o.c]
  BY DEF RemoveItem, RemoveAt, a, b
<1> HIDE DEF t, r
<1>9. r.q = t /\ r.c = (IF i < o.c THEN o.c - 1 ELSE o.c)
  BY <1>8
<1>10. r \in Box(S)
  <2>1. r.c \in Nat \ {0} /\ r.c <= Len(t) + 1
    BY <1>1, <1>5, <1>9
  <2> QED BY <1>5, <1>8, <1>9, <2>1 DEF Box
<1> DEFINE e == [k \in 1 .. l - 1 |-> IF k < i THEN k ELSE k + 1]
<1>11. /\ e \in [1 .. l - 1 -> 1 .. l]
       /\ \A j, k \in 1 .. l - 1 : j < k => e[j] < e[k]
  BY <1>1
<1>12. \A k \in 1 .. l - 1 : t[k] = s[e[k]]
  BY <1>1, <1>6, <1>7
<1> HIDE DEF e
<1>13. \A k \in 1 .. l - 1 : Same(t[k], s[e[k]])
  BY <1>12 DEF Same
<1>14. Within(t, s)
  BY <1>5, <1>11, <1>13 DEF Within
<1> QED BY <1>5, <1>6, <1>7, <1>9, <1>10, <1>14 DEF r

\* Every other packet is still there; the removed one is not, if it was unique.
LEMMA RemoveItemHas ==
  ASSUME NEW S, NEW o \in Box(S), NEW j \in 1 .. Len(o.q), NEW types, NEW i
  PROVE  LET r == RemoveItem(o, j)
         IN  /\ Has(o.q, types, i) /\ ~(o.q[j].type \in types /\ o.q[j].id = i)
                  => Has(r.q, types, i)
             /\ AtMostOne(o.q, types, i) /\ o.q[j].type \in types /\ o.q[j].id = i
                  => ~Has(r.q, types, i)
<1> DEFINE r == RemoveItem(o, j)
           s == o.q
           t == r.q
<1>0. Len(s) \in Nat
  BY DEF Box
<1>1. /\ Len(s) \in Nat /\ Len(t) = Len(s) - 1
      /\ \A k \in 1 .. j - 1 : t[k] = s[k]
      /\ \A k \in j .. Len(s) - 1 : t[k] = s[k + 1]
  BY <1>0, RemoveItemBox
<1> HIDE DEF t
<1>2. ASSUME Has(s, types, i), ~(s[j].type \in types /\ s[j].id = i)
      PROVE  Has(t, types, i)
  <2>1. PICK k \in 1 .. Len(s) : s[k].type \in types /\ s[k].id = i
    BY <1>2 DEF Has
  <2>2. k # j
    BY <1>2, <2>1
  <2>3. CASE k < j
    <3>1. k \in 1 .. Len(t) /\ t[k] = s[k]
      BY <1>1, <2>3
    <3> QED BY <2>1, <3>1 DEF Has
  <2>4. CASE k > j
    <3>1. k - 1 \in 1 .. Len(t) /\ k - 1 \in j .. Len(s) - 1 /\ (k - 1) + 1 = k
      BY <1>1, <2>4
    <3>2. t[k - 1] = s[k]
      BY <1>1, <3>1
    <3> QED BY <2>1, <3>1, <3>2 DEF Has
  <2> QED BY <2>2, <2>3, <2>4
<1>3. ASSUME AtMostOne(s, types, i), s[j].type \in types, s[j].id = i, Has(t, types, i)
      PROVE  FALSE
  <2>1. PICK k \in 1 .. Len(t) : t[k].type \in types /\ t[k].id = i
    BY <1>3 DEF Has
  <2>2. CASE k < j
    <3>1. k \in 1 .. Len(s) /\ t[k] = s[k]
      BY <1>1, <2>2
    <3>2. k = j
      BY <1>3, <2>1, <3>1 DEF AtMostOne
    <3> QED BY <2>2, <3>2
  <2>3. CASE ~(k < j)
    <3>1. k + 1 \in 1 .. Len(s) /\ t[k] = s[k + 1]
      BY <1>1, <2>3
    <3>2. k + 1 = j
      BY <1>3, <2>1, <3>1 DEF AtMostOne
    <3> QED BY <2>3, <3>2
  <2> QED BY <2>2, <2>3
<1> QED BY <1>2, <1>3 DEF t

\* t is s without one packet, which has the type and the id.
Drops(t, s, type, i) ==
  /\ Fewer(t, s)
  /\ \A types : \A j : Has(s, types, j) /\ (j # i \/ type \notin types) => Has(t, types, j)
  /\ \A types : type \in types /\ AtMostOne(s, types, i) => ~Has(t, types, i)

LEMMA RemoveItemDrops ==
  ASSUME NEW S, NEW o \in Box(S), NEW k \in 1 .. Len(o.q)
  PROVE  /\ Drops(RemoveItem(o, k).q, o.q, o.q[k].type, o.q[k].id)
         /\ RemoveItem(o, k).q \in Seq(S)
<1>1. RemoveItem(o, k) \in Box(S) /\ Within(RemoveItem(o, k).q, o.q)
  BY RemoveItemBox
<1>2. o.q \in Seq(S) /\ RemoveItem(o, k).q \in Seq(S)
  BY <1>1 DEF Box
<1>3. Fewer(RemoveItem(o, k).q, o.q)
  BY <1>1, <1>2, WithinFewer
<1> QED BY <1>2, <1>3, RemoveItemHas DEF Drops

\* Appending and then removing another packet.
LEMMA RemoveEmplaced ==
  ASSUME NEW S, NEW o \in Box(S), NEW x \in S, NEW k \in 1 .. Len(o.q)
  PROVE  RemoveItem(Emplace(o, x), k).q = Append(RemoveItem(o, k).q, x)
<1> DEFINE s == o.q
           l == Len(o.q)
           e == Emplace(o, x)
           a == RemoveItem(e, k).q
           b == RemoveItem(o, k).q
<1>0. l \in Nat /\ s \in Seq(S)
  BY DEF Box
<1>1. e \in Box(S) /\ e.q = Append(s, x) /\ Len(e.q) = l + 1
  <2>1. e \in Box(S) /\ e.q = Append(s, x)
    BY EmplaceBox
  <2>2. Len(Append(s, x)) = l + 1
    BY <1>0
  <2> QED BY <2>1, <2>2
<1>2. k \in 1 .. Len(e.q)
  BY <1>0, <1>1
<1>3. /\ RemoveItem(e, k) \in Box(S) /\ Len(a) = Len(e.q) - 1
      /\ \A j \in 1 .. k - 1 : a[j] = e.q[j]
      /\ \A j \in k .. Len(e.q) - 1 : a[j] = e.q[j + 1]
  BY <1>1, <1>2, RemoveItemBox
<1>4. /\ RemoveItem(o, k) \in Box(S) /\ Len(b) = l - 1
      /\ \A j \in 1 .. k - 1 : b[j] = s[j]
      /\ \A j \in k .. l - 1 : b[j] = s[j + 1]
  BY RemoveItemBox
<1>5. a \in Seq(S) /\ b \in Seq(S)
  BY <1>3, <1>4 DEF Box
<1> HIDE DEF a, b, e
<1>6. Append(b, x) \in Seq(S) /\ Len(Append(b, x)) = l /\ Len(a) = l
      /\ Append(b, x)[l] = x /\ \A j \in 1 .. l - 1 : Append(b, x)[j] = b[j]
  BY <1>0, <1>1, <1>3, <1>4, <1>5
<1>7. \A j \in 1 .. l : e.q[j] = s[j]
  BY <1>0, <1>1
<1>8. e.q[l + 1] = x
  BY <1>0, <1>1
<1>9. ASSUME NEW j \in 1 .. l PROVE a[j] = Append(b, x)[j]
  <2>1. CASE j < k
    <3>1. j \in 1 .. k - 1 /\ j \in 1 .. l - 1
      BY <1>0, <2>1
    <3> QED BY <1>3, <1>4, <1>6, <1>7, <3>1
  <2>2. CASE ~(j < k) /\ j # l
    <3>1. j \in k .. l - 1 /\ j + 1 \in 1 .. l /\ j \in 1 .. l - 1 /\ j \in k .. Len(e.q) - 1
      BY <1>0, <1>1, <2>2
    <3> QED BY <1>3, <1>4, <1>6, <1>7, <3>1
  <2>3. CASE j = l
    <3>1. l \in k .. Len(e.q) - 1
      BY <1>0, <1>1
    <3> QED BY <1>3, <1>6, <1>8, <2>3, <3>1
  <2> QED BY <1>0, <2>1, <2>2, <2>3
<1>10. a = Append(b, x)
  <2> DEFINE c == Append(b, x)
  <2> HIDE DEF c
  <2>1. a \in Seq(S) /\ c \in Seq(S) /\ Len(a) = Len(c) /\ \A j \in 1 .. Len(a) : a[j] = c[j]
    BY <1>5, <1>6, <1>9 DEF c
  <2>2. a = c
    BY <2>1, SeqEqual
  <2> QED BY <2>2 DEF c
<1> QED BY <1>10 DEF a, b, e

LEMMA RemoveCurrentBox ==
  ASSUME NEW S, NEW o \in Box(S)
  PROVE  RemoveCurrent(o) \in Box(S) /\ Within(RemoveCurrent(o).q, o.q)
<1>1. CASE HasCurrent(o)
  <2>1. o.c \in 1 .. Len(o.q)
    BY <1>1 DEF Box, HasCurrent
  <2> QED BY <1>1, <2>1, RemoveItemBox DEF RemoveCurrent
<1>2. CASE ~HasCurrent(o)
  BY <1>2, WithinItself DEF RemoveCurrent, Box
<1> QED BY <1>1, <1>2

LEMMA FilterHas ==
  ASSUME NEW S, NEW s \in Seq(S), NEW kept
  PROVE  /\ Filter(s, kept) \in Seq(S)
         /\ Within(Filter(s, kept), s)
         /\ \A k \in 1 .. Len(Filter(s, kept)) : Filter(s, kept)[k] \in kept
         /\ \A j \in 1 .. Len(s) : s[j] \in kept =>
              \E k \in 1 .. Len(Filter(s, kept)) : Filter(s, kept)[k] = s[j]
<1> DEFINE t == Filter(s, kept)
<1>1. Len(s) \in 0 .. Len(s)
  OBVIOUS
<1>2. t \in Seq(S) /\ \E e : Picks(t, s, Len(s), kept, e)
  BY <1>1, FilteredPicks DEF Filter
<1> HIDE DEF t
<1>3. PICK e : Picks(t, s, Len(s), kept, e)
  BY <1>2
<1>4. /\ e \in [1 .. Len(t) -> 1 .. Len(s)]
      /\ \A j, k \in 1 .. Len(t) : j < k => e[j] < e[k]
      /\ \A k \in 1 .. Len(t) : t[k] = s[e[k]] /\ s[e[k]] \in kept
      /\ \A j \in 1 .. Len(s) : s[j] \in kept => \E k \in 1 .. Len(t) : e[k] = j
  BY <1>3 DEF Picks
<1>5. \A k \in 1 .. Len(t) : Same(t[k], s[e[k]])
  BY <1>4 DEF Same
<1>6. Within(t, s)
  BY <1>4, <1>5 DEF Within
<1>7. ASSUME NEW j \in 1 .. Len(s), s[j] \in kept
      PROVE  \E k \in 1 .. Len(t) : t[k] = s[j]
  BY <1>4, <1>7
<1> QED BY <1>2, <1>4, <1>6, <1>7 DEF t

LEMMA KeepOnlyBox ==
  ASSUME NEW S, NEW o \in Box(S), NEW kept
  PROVE  KeepOnly(o, kept) \in Box(S) /\ KeepOnly(o, kept).q = Filter(o.q, kept)
<1> DEFINE x == Len(Filtered(o.q, kept)[o.c - 1])
<1>1. o.q \in Seq(S) /\ o.c - 1 \in 0 .. Len(o.q)
  BY DEF Box
<1>2. x \in Nat /\ x <= Len(Filter(o.q, kept)) /\ Filter(o.q, kept) \in Seq(S)
  <2>1. Len(o.q) \in o.c - 1 .. Len(o.q)
    BY <1>1
  <2>2. x <= Len(Filtered(o.q, kept)[Len(o.q)])
    BY <1>1, <2>1, FilteredGrows
  <2> QED BY <1>1, <2>2, FilteredPicks, FilterHas DEF Filter
<1> HIDE DEF x
<1>3. KeepOnly(o, kept) = [q |-> Filter(o.q, kept), c |-> 1 + x]
  BY DEF KeepOnly, x
<1>4. Len(Filter(o.q, kept)) \in Nat
  BY <1>2
<1> QED BY <1>2, <1>3, <1>4 DEF Box
-----------------------------------------------------------------------------
(* The loops of _clearQueue *)

\* Where the loop of _clearQueue is after k rounds: what it has left of the first k
\* items, then the others.
Half(s, kept, k) == Filtered(s, kept)[k] \o SubSeq(s, k + 1, Len(s))

Parts(S, s, k, f, h) ==
  /\ f \in Seq(S) /\ h \in Seq(S) /\ Len(f) \in Nat
  /\ Len(h) = Len(f) + (Len(s) - k)
  /\ \A j \in 1 .. Len(f) : h[j] = f[j]
  /\ \A j \in Len(f) + 1 .. Len(h) : h[j] = s[(k - Len(f)) + j]

LEMMA HalfParts ==
  ASSUME NEW S, NEW s \in Seq(S), NEW kept, NEW k \in 0 .. Len(s)
  PROVE  Parts(S, s, k, Filtered(s, kept)[k], Half(s, kept, k))
<1> DEFINE f == Filtered(s, kept)[k]
           r == SubSeq(s, k + 1, Len(s))
           n == Len(s)
<1>1. f \in Seq(S) /\ Len(f) \in Nat /\ n \in Nat
  BY FilteredPicks
<1>2. r \in Seq(S) /\ Len(r) = n - k /\ \A j \in 1 .. n - k : r[j] = s[k + j]
  <2>1. \A j \in k + 1 .. n : s[j] \in S
    BY <1>1, ElementOfSeq
  <2>2. k + 1 \in Int /\ n \in Int /\ n - (k + 1) + 1 = n - k
    BY <1>1
  <2>3. /\ r \in Seq(S) /\ Len(r) = IF k + 1 <= n THEN n - (k + 1) + 1 ELSE 0
        /\ \A j \in 1 .. n - (k + 1) + 1 : r[j] = s[k + 1 + j - 1]
    BY <2>1, <2>2, SubSeqProperties
  <2>4. Len(r) = n - k
    BY <1>1, <2>3
  <2>5. ASSUME NEW j \in 1 .. n - k PROVE r[j] = s[k + j]
    <3>1. k + 1 + j - 1 = k + j /\ j \in 1 .. n - (k + 1) + 1
      BY <1>1
    <3> QED BY <2>3, <3>1
  <2> QED BY <2>3, <2>4, <2>5
<1> HIDE DEF f, r, n
<1>3. /\ f \o r \in Seq(S) /\ Len(f \o r) = Len(f) + Len(r)
      /\ \A j \in 1 .. Len(f) + Len(r) : (f \o r)[j] = IF j <= Len(f) THEN f[j] ELSE r[j - Len(f)]
  BY <1>1, <1>2, ConcatProperties
<1>4. ASSUME NEW j \in Len(f) + 1 .. Len(f \o r) PROVE (f \o r)[j] = s[(k - Len(f)) + j]
  <2>1. j \in 1 .. Len(f) + Len(r) /\ ~(j <= Len(f)) /\ j - Len(f) \in 1 .. n - k
        /\ k + (j - Len(f)) = (k - Len(f)) + j
    BY <1>1, <1>2, <1>3
  <2> QED BY <1>2, <1>3, <2>1
<1>5. \A j \in 1 .. Len(f) : (f \o r)[j] = f[j]
  BY <1>1, <1>2, <1>3
<1> QED BY <1>1, <1>2, <1>3, <1>4, <1>5 DEF f, r, n, Half, Parts

\* The next item stands behind what is left so far: it stays, or is removed there.
LEMMA HalfNext ==
  ASSUME NEW S, NEW s \in Seq(S), NEW kept, NEW k \in 1 .. Len(s)
  PROVE  LET f == Filtered(s, kept)[k - 1]
             h == Half(s, kept, k - 1)
             g == Filtered(s, kept)[k]
         IN  /\ h[Len(f) + 1] = s[k] /\ Len(f) + 1 \in 1 .. Len(h)
             /\ s[k] \in kept => Half(s, kept, k) = h /\ Len(g) = Len(f) + 1
             /\ s[k] \notin kept => Half(s, kept, k) = RemoveAt(h, Len(f) + 1) /\ Len(g) = Len(f)
<1> DEFINE f == Filtered(s, kept)[k - 1]
           h == Half(s, kept, k - 1)
           g == Filtered(s, kept)[k]
           h2 == Half(s, kept, k)
           l == Len(f)
           n == Len(s)
<1>1. k - 1 \in 0 .. n /\ k \in 0 .. n /\ n \in Nat
  OBVIOUS
<1>a. Parts(S, s, k - 1, f, h) /\ Parts(S, s, k, g, h2)
  BY <1>1, HalfParts
<1>4. g = IF s[k] \in kept THEN Append(f, s[k]) ELSE f
  <2>1. Steps(s, kept, n, Filtered(s, kept))
    BY FilteredSteps
  <2> QED BY <2>1, Zenon DEF Steps
<1>5. s[k] \in S
  BY ElementOfSeq
<1> HIDE DEF f, h, g, h2
<1>2. /\ f \in Seq(S) /\ h \in Seq(S) /\ l \in Nat /\ Len(h) = l + (n - (k - 1))
      /\ \A j \in 1 .. l : h[j] = f[j]
      /\ \A j \in l + 1 .. Len(h) : h[j] = s[((k - 1) - l) + j]
  BY <1>a DEF Parts
<1>3. /\ g \in Seq(S) /\ h2 \in Seq(S) /\ Len(h2) = Len(g) + (n - k)
      /\ \A j \in 1 .. Len(g) : h2[j] = g[j]
      /\ \A j \in Len(g) + 1 .. Len(h2) : h2[j] = s[(k - Len(g)) + j]
  BY <1>a DEF Parts
<1>6. h[l + 1] = s[k] /\ l + 1 \in 1 .. Len(h)
  <2>1. l + 1 \in l + 1 .. Len(h) /\ ((k - 1) - l) + (l + 1) = k
    BY <1>1, <1>2
  <2> QED BY <1>1, <1>2, <2>1
<1>7. ASSUME s[k] \in kept PROVE h2 = h /\ Len(g) = l + 1
  <2>1. Len(g) = l + 1 /\ g[l + 1] = s[k] /\ \A j \in 1 .. l : g[j] = f[j]
    BY <1>2, <1>4, <1>5, <1>7
  <2>2. Len(h2) = Len(h)
    BY <1>1, <1>2, <1>3, <2>1
  <2>3. ASSUME NEW j \in 1 .. Len(h) PROVE h2[j] = h[j]
    <3>1. CASE j <= l
      BY <1>2, <1>3, <2>1, <3>1
    <3>2. CASE j = l + 1
      BY <1>3, <1>6, <2>1, <3>2
    <3>3. CASE j > l + 1
      <4>1. j \in l + 1 .. Len(h)
        BY <1>1, <1>2, <3>3
      <4>2. j \in Len(g) + 1 .. Len(h2)
        BY <1>1, <1>2, <2>1, <2>2, <3>3
      <4>3. ((k - 1) - l) + j = (k - Len(g)) + j
        BY <1>1, <1>2, <2>1
      <4>4. h[j] = s[((k - 1) - l) + j]
        BY <1>2, <4>1
      <4>5. h2[j] = s[(k - Len(g)) + j]
        BY <1>3, <4>2
      <4> QED BY <4>3, <4>4, <4>5
    <3>4. j <= l \/ j = l + 1 \/ j > l + 1
      BY <1>2
    <3> QED BY <3>1, <3>2, <3>3, <3>4
  <2>4. h2 = h
    BY <1>2, <1>3, <2>2, <2>3, SeqEqual
  <2> QED BY <2>1, <2>4
<1>8. ASSUME s[k] \notin kept PROVE h2 = RemoveAt(h, l + 1) /\ Len(g) = l
  <2> DEFINE o == [q |-> h, c |-> 1]
             t == RemoveAt(h, l + 1)
  <2>1. o \in Box(S) /\ o.q = h /\ RemoveItem(o, l + 1).q = t
    BY <1>2, <1>6 DEF Box, RemoveItem
  <2>2. /\ t \in Seq(S) /\ Len(t) = Len(h) - 1
        /\ \A j \in 1 .. l : t[j] = h[j]
        /\ \A j \in l + 1 .. Len(h) - 1 : t[j] = h[j + 1]
    <3> DEFINE i == l + 1
    <3>1. i \in 1 .. Len(o.q)
      BY <1>6, <2>1
    <3> HIDE DEF t, o, i
    <3>2. /\ RemoveItem(o, i) \in Box(S)
          /\ Len(RemoveItem(o, i).q) = Len(o.q) - 1
          /\ \A j \in 1 .. i - 1 : RemoveItem(o, i).q[j] = o.q[j]
          /\ \A j \in i .. Len(o.q) - 1 : RemoveItem(o, i).q[j] = o.q[j + 1]
      BY <2>1, <3>1, RemoveItemBox
    <3>3. i = l + 1 /\ RemoveItem(o, i).q = t
      BY <2>1 DEF i
    <3>4. t \in Seq(S)
      BY <3>2, <3>3 DEF Box
    <3>5. \A j \in 1 .. l : j \in 1 .. i - 1
      BY <1>2, <3>3
    <3>6. \A j \in 1 .. l : t[j] = h[j]
      BY <2>1, <3>2, <3>3, <3>5
    <3>7. Len(t) = Len(h) - 1 /\ \A j \in i .. Len(h) - 1 : t[j] = h[j + 1]
      BY <2>1, <3>2, <3>3
    <3>8. \A j \in l + 1 .. Len(h) - 1 : t[j] = h[j + 1]
      BY <3>3, <3>7
    <3> QED BY <3>4, <3>6, <3>7, <3>8
  <2> HIDE DEF t, o
  <2>3. g = f
    BY <1>4, <1>8
  <2>4. Len(h2) = Len(t) /\ Len(g) = l
    BY <1>1, <1>2, <1>3, <2>2, <2>3
  <2>5. ASSUME NEW j \in 1 .. Len(t) PROVE h2[j] = t[j]
    <3>1. CASE j <= l
      BY <1>2, <1>3, <2>2, <2>3, <3>1
    <3>2. CASE j > l
      <4>1. /\ j \in l + 1 .. Len(h) - 1 /\ j + 1 \in l + 1 .. Len(h)
            /\ j \in Len(g) + 1 .. Len(h2)
            /\ ((k - 1) - l) + (j + 1) = (k - Len(g)) + j
        <5>1. j \in l + 1 .. Len(h) - 1 /\ j + 1 \in l + 1 .. Len(h)
          BY <1>1, <1>2, <2>2, <3>2
        <5>2. j \in Len(g) + 1 .. Len(h2)
          BY <1>1, <1>2, <2>2, <2>4, <3>2
        <5>3. ((k - 1) - l) + (j + 1) = (k - Len(g)) + j
          BY <1>1, <1>2, <2>4, <5>1
        <5> QED BY <5>1, <5>2, <5>3
      <4>2. t[j] = h[j + 1] /\ h[j + 1] = s[((k - 1) - l) + (j + 1)]
        BY <1>2, <2>2, <4>1
      <4>3. h2[j] = s[(k - Len(g)) + j]
        BY <1>3, <4>1
      <4> QED BY <4>1, <4>2, <4>3
    <3> QED BY <1>2, <3>1, <3>2
  <2> QED BY <1>3, <2>2, <2>4, <2>5, SeqEqual DEF t
<1> QED BY <1>6, <1>7, <1>8 DEF f, h, g, h2

\* The cursor moves with the items that stay, until it is passed.
CursorAt(o, kept, k) ==
  LET F == Filtered(o.q, kept)
  IN  IF k < o.c THEN o.c - (k - Len(F[k])) ELSE 1 + Len(F[o.c - 1])

AfterRounds(o, kept, k) ==
  [o |-> [q |-> Half(o.q, kept, k), c |-> CursorAt(o, kept, k)],
   i |-> Len(Filtered(o.q, kept)[k]) + 1]

\* The rounds of the loop, one by one.
LEMMA RoundsOf ==
  ASSUME NEW S, NEW o \in Box(S), NEW kept
  PROVE  /\ AfterRounds(o, kept, 0) = [o |-> o, i |-> 1]
         /\ \A k \in 1 .. Len(o.q) :
              AfterRounds(o, kept, k) = Round(AfterRounds(o, kept, k - 1), kept)
<1> DEFINE s == o.q
           F == Filtered(s, kept)
           x(k) == AfterRounds(o, kept, k)
           n == Len(o.q)
           c(k) == CursorAt(o, kept, k)
<1>1. /\ s \in Seq(S) /\ n \in Nat /\ o.c \in Nat \ {0} /\ o.c <= n + 1
      /\ o = [q |-> s, c |-> o.c]
  BY DEF Box
<1>2. \A k \in 0 .. n : Len(F[k]) \in Nat
  BY <1>1, HalfParts DEF Parts
<1>cursor. \A k : c(k) = IF k < o.c THEN o.c - (k - Len(F[k])) ELSE 1 + Len(F[o.c - 1])
  BY DEF CursorAt
<1>3. x(0) = [o |-> o, i |-> 1]
  <2>1. F[0] = <<>>
    BY <1>1, FilteredSteps DEF Steps
  <2>2. Half(s, kept, 0) = s
    <3>1. /\ Half(s, kept, 0) \in Seq(S) /\ Len(Half(s, kept, 0)) = n
          /\ \A j \in 1 .. n : Half(s, kept, 0)[j] = s[j]
      <4>1. 0 \in 0 .. n /\ Len(F[0]) = 0
        BY <1>1, <2>1
      <4>2. /\ Half(s, kept, 0) \in Seq(S) /\ Len(Half(s, kept, 0)) = 0 + (n - 0)
            /\ \A j \in 0 + 1 .. n : Half(s, kept, 0)[j] = s[(0 - 0) + j]
        BY <1>1, <4>1, HalfParts DEF Parts
      <4> QED BY <1>1, <4>2
    <3> QED BY <1>1, <3>1, SeqEqual
  <2>3. x(0) = [o |-> [q |-> Half(s, kept, 0), c |-> c(0)], i |-> Len(F[0]) + 1]
    BY DEF AfterRounds
  <2>4. c(0) = o.c /\ Len(F[0]) + 1 = 1
    BY <1>1, <1>cursor, <2>1
  <2> HIDE DEF c, F
  <2> QED BY <1>1, <2>2, <2>3, <2>4
<1>4. ASSUME NEW k \in 1 .. n PROVE x(k) = Round(x(k - 1), kept)
  <2> DEFINE f == F[k - 1]
             h == Half(s, kept, k - 1)
             b == [o |-> [q |-> h, c |-> c(k - 1)], i |-> Len(f) + 1]
  <2>1. k - 1 \in 0 .. n /\ k \in 0 .. n /\ Len(f) \in Nat /\ Len(F[k]) \in Nat
    BY <1>1, <1>2
  <2>2. /\ x(k) = [o |-> [q |-> Half(s, kept, k), c |-> c(k)], i |-> Len(F[k]) + 1]
        /\ x(k - 1) = b
    BY DEF AfterRounds
  <2>3. /\ h[Len(f) + 1] = s[k]
        /\ s[k] \in kept => Half(s, kept, k) = h /\ Len(F[k]) = Len(f) + 1
        /\ s[k] \notin kept => Half(s, kept, k) = RemoveAt(h, Len(f) + 1) /\ Len(F[k]) = Len(f)
    BY <1>1, HalfNext
  <2>c. /\ c(k) = IF k < o.c THEN o.c - (k - Len(F[k])) ELSE 1 + Len(F[o.c - 1])
        /\ c(k - 1) = IF k - 1 < o.c THEN o.c - ((k - 1) - Len(f)) ELSE 1 + Len(F[o.c - 1])
    BY <1>cursor
  <2> HIDE DEF c, F, h, f
  <2>4. s[k] \in kept => c(k) = c(k - 1)
    <3> SUFFICES ASSUME s[k] \in kept PROVE c(k) = c(k - 1)
      OBVIOUS
    <3>1. CASE k < o.c
      <4>1. k - 1 < o.c /\ Len(F[k]) = Len(f) + 1 /\ k \in Int /\ o.c \in Int
        BY <1>1, <2>3, <3>1
      <4>2. c(k) = o.c - (k - (Len(f) + 1)) /\ c(k - 1) = o.c - ((k - 1) - Len(f))
        BY <2>c, <3>1, <4>1
      <4> QED BY <2>1, <3>1, <4>1, <4>2
    <3>2. CASE k = o.c
      <4>1. o.c - 1 = k - 1 /\ ~(k < o.c) /\ k - 1 < o.c
        BY <1>1, <3>2
      <4>2. F[o.c - 1] = f
        BY <4>1 DEF f
      <4> QED BY <1>1, <2>1, <2>3, <2>c, <3>2, <4>1, <4>2
    <3>3. CASE k > o.c
      BY <1>1, <2>1, <2>c, <3>3
    <3> QED BY <1>1, <3>1, <3>2, <3>3
  <2>5. s[k] \notin kept => c(k) = IF Len(f) + 1 < c(k - 1) THEN c(k - 1) - 1 ELSE c(k - 1)
    <3> SUFFICES ASSUME s[k] \notin kept
                 PROVE  c(k) = IF Len(f) + 1 < c(k - 1) THEN c(k - 1) - 1 ELSE c(k - 1)
      OBVIOUS
    <3>1. CASE k < o.c
      <4>1. k - 1 < o.c /\ Len(F[k]) = Len(f) /\ k \in Int /\ o.c \in Int
        BY <1>1, <2>3, <3>1
      <4>2. c(k) = o.c - (k - (Len(f))) /\ c(k - 1) = o.c - ((k - 1) - Len(f))
        BY <2>c, <3>1, <4>1
      <4> QED BY <2>1, <3>1, <4>1, <4>2
    <3>2. CASE k = o.c
      <4>1. o.c - 1 = k - 1 /\ ~(k < o.c) /\ k - 1 < o.c
        BY <1>1, <3>2
      <4>2. F[o.c - 1] = f
        BY <4>1 DEF f
      <4> QED BY <1>1, <2>1, <2>3, <2>c, <3>2, <4>1, <4>2
    <3>3. CASE k > o.c
      <4>1. o.c - 1 \in 0 .. n /\ k - 1 \in o.c - 1 .. n
        BY <1>1, <2>1, <3>3
      <4>2. Len(F[o.c - 1]) <= Len(f) /\ Len(F[o.c - 1]) \in Nat
        BY <1>1, <1>2, <4>1, FilteredGrows DEF f, F
      <4> QED BY <1>1, <2>1, <2>c, <3>3, <4>2
    <3> QED BY <1>1, <3>1, <3>2, <3>3
  <2>6. CASE s[k] \in kept
    <3>1. Round(b, kept) = [b EXCEPT !.i = @ + 1]
      BY <2>3, <2>6 DEF Round
    <3>2. [b EXCEPT !.i = @ + 1] = [o |-> [q |-> h, c |-> c(k - 1)], i |-> Len(F[k]) + 1]
      BY <2>3, <2>6
    <3> QED BY <2>2, <2>3, <2>4, <2>6, <3>1, <3>2
  <2>7. CASE s[k] \notin kept
    <3>1. Round(b, kept) = [b EXCEPT !.o = RemoveItem(b.o, Len(f) + 1)]
      BY <2>3, <2>7 DEF Round
    <3>2. RemoveItem(b.o, Len(f) + 1) = [q |-> Half(s, kept, k), c |-> c(k)]
      BY <2>3, <2>5, <2>7 DEF RemoveItem
    <3>3. [b EXCEPT !.o = [q |-> Half(s, kept, k), c |-> c(k)]]
            = [o |-> [q |-> Half(s, kept, k), c |-> c(k)], i |-> Len(f) + 1]
      OBVIOUS
    <3> QED BY <2>2, <2>3, <2>7, <3>1, <3>2, <3>3
  <2> QED BY <2>6, <2>7
<1> QED BY <1>3, <1>4

\* f is the loop's definition, unfolded.
LoopIs(n, kept, a, f) ==
  f = [k \in 0 .. n |-> IF k = 0 THEN a ELSE Round(f[k - 1], kept)]

\* What satisfies the definition of the rounds is their only meaning.
LEMMA RoundsAreUnique ==
  ASSUME NEW n \in Nat, NEW kept, NEW a, NEW x, NEW y,
         LoopIs(n, kept, a, x), LoopIs(n, kept, a, y)
  PROVE  x[n] = y[n]
<1> DEFINE T == {k \in Nat : k <= n => x[k] = y[k]}
<1>1. 0 \in T
  <2>1. 0 \in 0 .. n
    OBVIOUS
  <2>2. x[0] = a /\ y[0] = a
    BY <2>1, Zenon DEF LoopIs
  <2> QED BY <2>2
<1>2. ASSUME NEW k \in Nat, k \in T PROVE k + 1 \in T
  <2> SUFFICES ASSUME k + 1 <= n PROVE x[k + 1] = y[k + 1]
    OBVIOUS
  <2>1. k + 1 \in 0 .. n /\ k + 1 # 0 /\ (k + 1) - 1 = k
    OBVIOUS
  <2>2. x[k + 1] = Round(x[(k + 1) - 1], kept) /\ y[k + 1] = Round(y[(k + 1) - 1], kept)
    BY <2>1, Zenon DEF LoopIs
  <2>3. x[k] = y[k]
    BY <1>2
  <2> QED BY <2>1, <2>2, <2>3
<1> HIDE DEF T
<1>3. Nat \subseteq T
  BY <1>1, <1>2, SetInduction
<1> QED BY <1>3 DEF T

\* The loops of _clearQueue come to the end of the list, and what they leave is KeepOnly.
LEMMA SweptIsKept ==
  ASSUME NEW S, NEW o \in Box(S), NEW kept
  PROVE  Swept(o, kept) = [o |-> KeepOnly(o, kept), i |-> Len(KeepOnly(o, kept).q) + 1]
<1> DEFINE n == Len(o.q)
           F == Filtered(o.q, kept)
           a == [o |-> o, i |-> 1]
           x == [k \in 0 .. n |-> AfterRounds(o, kept, k)]
           y == CHOOSE f : LoopIs(n, kept, a, f)
<1>1. o.q \in Seq(S) /\ n \in Nat /\ o.c \in Nat \ {0} /\ o.c <= n + 1
  BY DEF Box
<1>2. LoopIs(n, kept, a, x)
  <2>1. ASSUME NEW k \in 0 .. n
        PROVE  AfterRounds(o, kept, k) = IF k = 0 THEN a ELSE Round(x[k - 1], kept)
    <3>1. CASE k = 0
      BY <3>1, RoundsOf
    <3>2. CASE k # 0
      <4>1. k \in 1 .. n /\ k - 1 \in 0 .. n
        BY <1>1, <3>2
      <4>2. x[k - 1] = AfterRounds(o, kept, k - 1)
        BY <4>1
      <4> QED BY <3>2, <4>1, <4>2, RoundsOf
    <3> QED BY <3>1, <3>2
  <2>2. x = [k \in 0 .. n |-> IF k = 0 THEN a ELSE Round(x[k - 1], kept)]
    BY <2>1
  <2> QED BY <2>2, Zenon DEF LoopIs
<1>3. LoopIs(n, kept, a, y)
  BY <1>2, Zenon
<1>4. Swept(o, kept) = y[n]
  BY DEF Swept, LoopIs
<1>5. n \in 0 .. n /\ F[n] = Filter(o.q, kept) /\ x[n] = AfterRounds(o, kept, n)
  BY <1>1 DEF Filter
<1> HIDE DEF x, y
<1>6. y[n] = x[n]
  BY <1>1, <1>2, <1>3, RoundsAreUnique
<1>7. Half(o.q, kept, n) = F[n]
  <2>1. Parts(S, o.q, n, F[n], Half(o.q, kept, n))
    BY <1>1, <1>5, HalfParts
  <2>2. /\ Len(Half(o.q, kept, n)) = Len(F[n]) + (n - n) /\ Len(F[n]) \in Nat
        /\ \A j \in 1 .. Len(F[n]) : Half(o.q, kept, n)[j] = F[n][j]
    BY <2>1 DEF Parts
  <2>3. Len(Half(o.q, kept, n)) = Len(F[n])
    BY <1>1, <2>2
  <2>4. F[n] \in Seq(S) /\ Half(o.q, kept, n) \in Seq(S)
    BY <1>1, <1>5, HalfParts DEF Parts
  <2> QED BY <2>2, <2>3, <2>4, SeqEqual
<1>8. CursorAt(o, kept, n) = 1 + Len(F[o.c - 1])
  <2>1. Len(F[n]) \in Nat
    BY <1>1, <1>5, HalfParts DEF Parts
  <2>2. CASE n < o.c
    <3>1. o.c - 1 = n /\ o.c = n + 1
      BY <1>1, <2>2
    <3>2. CursorAt(o, kept, n) = o.c - (n - Len(F[n]))
      BY <2>2 DEF CursorAt
    <3>3. F[o.c - 1] = F[n]
      BY <3>1
    <3>4. PICK l \in Nat : l = Len(F[n])
      BY <2>1
    <3>5. Len(F[o.c - 1]) = l /\ CursorAt(o, kept, n) = o.c - (n - l)
      BY <3>2, <3>3, <3>4
    <3>6. o.c - (n - l) = 1 + l
      <4>1. \A i, j, k \in Nat : i = j + 1 => i - (j - k) = 1 + k
        OBVIOUS
      <4> HIDE DEF n
      <4> QED BY <1>1, <3>1, <4>1
    <3> QED BY <3>5, <3>6
  <2>3. CASE ~(n < o.c)
    BY <2>3 DEF CursorAt
  <2> QED BY <2>2, <2>3
<1>9. x[n] = [o |-> [q |-> F[n], c |-> 1 + Len(F[o.c - 1])], i |-> Len(F[n]) + 1]
  BY <1>5, <1>7, <1>8 DEF AfterRounds
<1>10. KeepOnly(o, kept) = [q |-> F[n], c |-> 1 + Len(F[o.c - 1])]
  BY <1>5 DEF KeepOnly
<1> QED BY <1>4, <1>6, <1>9, <1>10

-----------------------------------------------------------------------------
(* Numbers, digit by digit to a base R *)

LEMMA Division ==
  ASSUME NEW R \in Nat, R > 2, NEW n \in Nat
  PROVE  /\ n \div R \in Nat /\ n % R \in 0 .. R - 1
         /\ n = R * (n \div R) + (n % R)
  OBVIOUS

LEMMA Below ==
  ASSUME NEW R \in Nat, R > 2, NEW n \in Nat, NEW b \in Nat, n < R * b
  PROVE  n \div R < b
<1>1. \A q \in Nat : q >= b => R * q >= R * b
  OBVIOUS
<1> QED BY <1>1, Division

LEMMA AtLeast ==
  ASSUME NEW R \in Nat, R > 2, NEW n \in Nat, NEW b \in Nat, n >= R * b
  PROVE  n \div R >= b
<1>1. \A q \in Nat : q + 1 <= b => R * (q + 1) <= R * b
  OBVIOUS
<1>2. \A q \in Nat : R * (q + 1) = R * q + R
  OBVIOUS
<1> QED BY <1>1, <1>2, Division

\* What is left to encode is less.
LEMMA Lessens ==
  ASSUME NEW R \in Nat, R > 2, NEW n \in Nat, n >= R
  PROVE  n \div R \in 0 .. n - 1
<1> DEFINE q == n \div R
<1>1. q \in Nat /\ n % R \in Nat /\ n = R * q + (n % R)
  BY Division
<1> HIDE DEF q
<1>2. R * q >= 3 * q
  BY <1>1
<1>3. R * q \in Nat
  BY <1>1
<1>4. q \in 0 .. n - 1
  BY <1>1, <1>2, <1>3
<1> QED BY <1>4 DEF q

\* The bytes of n, when f has those of smaller lengths.
BytesOf(R, n, f) ==
  IF n < R THEN <<n>> ELSE <<R + (n % R)>> \o f[n \div R]

\* f encodes the lengths up to n.
Encodes(R, n, f) == \A k \in 0 .. n : f[k] = BytesOf(R, k, f)

LEMMA EncodersAgree ==
  ASSUME NEW R \in Nat, R > 2, NEW m \in Nat, NEW f, NEW g,
          Encodes(R, m, f), Encodes(R, m, g)
  PROVE  \A k \in 0 .. m : f[k] = g[k]
<1> DEFINE T == {j \in Nat : \A k \in 0 .. j : k <= m => f[k] = g[k]}
<1>1. ASSUME NEW k \in 0 .. m, \A j \in 0 .. k - 1 : f[j] = g[j]
      PROVE  f[k] = g[k]
  <2>1. f[k] = BytesOf(R, k, f) /\ g[k] = BytesOf(R, k, g)
    BY DEF Encodes
  <2>2. CASE k < R
    BY <2>1, <2>2 DEF BytesOf
  <2>3. CASE k >= R
    <3>0. k \in Nat /\ k \in 0 .. m
      OBVIOUS
    <3>3. k \div R \in 0 .. k - 1
      BY <2>3, <3>0, Lessens
    <3>1. f[k \div R] = g[k \div R]
      BY <1>1, <3>3
    <3>2. ~(k < R)
      BY <2>3
    <3> QED BY <2>1, <3>1, <3>2, Zenon DEF BytesOf
  <2> QED BY <2>2, <2>3
<1>2. 0 \in T
  <2>1. \A j \in 0 .. 0 - 1 : f[j] = g[j]
    OBVIOUS
  <2>2. f[0] = g[0]
    BY <1>1, <2>1
  <2> QED BY <2>2
<1>3. ASSUME NEW j \in Nat, j \in T PROVE j + 1 \in T
  <2>1. CASE j + 1 <= m
    <3>1. f[j + 1] = g[j + 1]
      BY <1>1, <1>3, <2>1
    <3> QED BY <1>3, <3>1
  <2>2. CASE ~(j + 1 <= m)
    BY <1>3, <2>2
  <2> QED BY <2>1, <2>2
<1> HIDE DEF T
<1>4. Nat \subseteq T
  BY <1>2, <1>3, SetInduction
<1> QED BY <1>4 DEF T

LEMMA EncodersExist ==
  ASSUME NEW R \in Nat, R > 2
  PROVE  \A n \in Nat : \E f : Encodes(R, n, f)
<1> DEFINE T == {n \in Nat : \E f : Encodes(R, n, f)}
<1>1. 0 \in T
  <2> DEFINE f == [k \in {0} |-> <<k>>]
  <2>1. f[0] = <<0>>
    OBVIOUS
  <2>2. Encodes(R, 0, f)
    <3> HIDE DEF f
    <3>1. \A k \in 0 .. 0 : k = 0
      OBVIOUS
    <3>2. 0 < R
      OBVIOUS
    <3> QED BY <2>1, <3>1, <3>2 DEF Encodes, BytesOf
  <2> QED BY <2>2
<1>2. ASSUME NEW n \in Nat, n \in T PROVE n + 1 \in T
  <2>1. PICK f : Encodes(R, n, f)
    BY <1>2
  <2> DEFINE g == [k \in 0 .. n + 1 |-> IF k = n + 1 THEN BytesOf(R, n + 1, f) ELSE f[k]]
  <2>2. g[n + 1] = BytesOf(R, n + 1, f) /\ \A k \in 0 .. n : g[k] = f[k]
    OBVIOUS
  <2> HIDE DEF g
  <2>3. ASSUME NEW k \in 0 .. n + 1 PROVE BytesOf(R, k, g) = BytesOf(R, k, f)
    <3>1. CASE k < R
      BY <3>1 DEF BytesOf
    <3>2. CASE k >= R
      <4>1. k \div R \in 0 .. n
        BY <3>2, Lessens
      <4>2. ~(k < R)
        BY <3>2
      <4> QED BY <2>2, <4>1, <4>2, Zenon DEF BytesOf
    <3> QED BY <3>1, <3>2
  <2>4. ASSUME NEW k \in 0 .. n + 1 PROVE g[k] = BytesOf(R, k, g)
    <3>1. CASE k = n + 1
      BY <2>2, <2>3, <3>1
    <3>2. CASE k # n + 1
      <4>1. k \in 0 .. n
        BY <3>2
      <4>2. g[k] = f[k] /\ f[k] = BytesOf(R, k, f)
        BY <2>1, <2>2, <4>1 DEF Encodes
      <4> QED BY <2>3, <4>2
    <3> QED BY <3>1, <3>2
  <2>5. Encodes(R, n + 1, g)
    BY <2>4 DEF Encodes
  <2> QED BY <2>5
<1> HIDE DEF T
<1>3. Nat \subseteq T
  BY <1>1, <1>2, SetInduction
<1> QED BY <1>3 DEF T

\* code gives the bytes of every number, the flag R in each but the last.
IsCode(R, code) == \A n \in Nat : code[n] = BytesOf(R, n, code)

\* The recursion by which it is defined ends for every number.
LEMMA CodeUnfolds ==
  ASSUME NEW R \in Nat, R > 2, NEW code,
         code = CHOOSE f : f = [k \in Nat |-> IF k < R THEN <<k>>
                                ELSE <<R + (k % R)>> \o f[k \div R]]
  PROVE  IsCode(R, code)
<1> DEFINE G(k) == CHOOSE f : Encodes(R, k, f)
           E == [k \in Nat |-> G(k)[k]]
           Is(f) == f = [k \in Nat |-> IF k < R THEN <<k>>
                         ELSE <<R + (k % R)>> \o f[k \div R]]
<1>1. ASSUME NEW k \in Nat PROVE Encodes(R, k, G(k))
  BY EncodersExist, Zenon
<1> HIDE DEF G
<1>2. ASSUME NEW k \in Nat PROVE E[k] = BytesOf(R, k, E)
  <2>1. E[k] = G(k)[k] /\ G(k)[k] = BytesOf(R, k, G(k))
    BY <1>1 DEF Encodes
  <2>2. CASE k < R
    BY <2>1, <2>2 DEF BytesOf
  <2>3. CASE k >= R
    <3> DEFINE j == k \div R
    <3>0. k \div R \in 0 .. k - 1
      BY <2>3, Lessens
    <3>1. j \in 0 .. k - 1 /\ j \in Nat
      BY <3>0
    <3> HIDE DEF j
    <3>2. Encodes(R, j, G(k)) /\ Encodes(R, j, G(j))
      BY <1>1, <3>1 DEF Encodes
    <3>3. G(k)[j] = G(j)[j]
      BY <3>1, <3>2, EncodersAgree
    <3>4. E[j] = G(j)[j]
      BY <3>1
    <3>5. ~(k < R)
      BY <2>3
    <3> QED BY <2>1, <3>3, <3>4, <3>5, Zenon DEF BytesOf, j
  <2> QED BY <2>2, <2>3
<1>3. E = [k \in Nat |-> E[k]]
  OBVIOUS
<1> HIDE DEF E
<1>4. Is(E)
  <2>1. [k \in Nat |-> E[k]] = [k \in Nat |-> BytesOf(R, k, E)]
    BY <1>2
  <2> QED BY <1>3, <2>1, Zenon DEF BytesOf
<1>5. code = CHOOSE f : Is(f)
  BY Zenon
<1>6. Is(code)
  BY <1>4, <1>5, Zenon
<1> SUFFICES ASSUME NEW n \in Nat PROVE code[n] = BytesOf(R, n, code)
  BY DEF IsCode
<1>7. code[n] = IF n < R THEN <<n>> ELSE <<R + (n % R)>> \o code[n \div R]
  BY <1>6, Zenon
<1> QED BY <1>7, Zenon DEF BytesOf

Square(R) == R * R
Cube(R) == R * Square(R)
Fourth(R) == R * Cube(R)

LEMMA OneDigit == ASSUME NEW R \in Nat, R > 2, NEW code, IsCode(R, code), NEW n \in 0 .. R - 1 PROVE code[n] = <<n>>
<1>1. n \in Nat /\ n < R
  OBVIOUS
<1> QED BY <1>1 DEF IsCode, BytesOf

LEMMA FirstDigit ==
  ASSUME NEW R \in Nat, R > 2, NEW code, IsCode(R, code), NEW n \in Nat, n >= R
  PROVE  code[n] = <<R + (n % R)>> \o code[n \div R]
<1>1. ~(n < R)
  OBVIOUS
<1> QED BY <1>1, Zenon DEF IsCode, BytesOf

LEMMA JoinTwo ==
  ASSUME NEW x \in Nat, NEW y \in Nat
  PROVE  <<x>> \o <<y>> = <<x, y>>
<1>1. <<x>> \in Seq(Nat) /\ <<y>> \in Seq(Nat) /\ <<x, y>> \in Seq(Nat)
  OBVIOUS
<1>2. <<x>> \o <<y>> \in Seq(Nat) /\ Len(<<x>> \o <<y>>) = 2
  BY <1>1
<1>3. (<<x>> \o <<y>>)[1] = x /\ (<<x>> \o <<y>>)[2] = y
  BY <1>1
<1>4. \A i \in 1 .. 2 : (<<x>> \o <<y>>)[i] = <<x, y>>[i]
  BY <1>3
<1> QED BY <1>1, <1>2, <1>4, SeqEqual

LEMMA JoinThree ==
  ASSUME NEW x \in Nat, NEW y \in Nat, NEW z \in Nat
  PROVE  <<x>> \o <<y, z>> = <<x, y, z>>
<1>1. <<x>> \in Seq(Nat) /\ <<y, z>> \in Seq(Nat) /\ <<x, y, z>> \in Seq(Nat)
  OBVIOUS
<1>2. <<x>> \o <<y, z>> \in Seq(Nat) /\ Len(<<x>> \o <<y, z>>) = 3
  BY <1>1
<1>3. /\ (<<x>> \o <<y, z>>)[1] = x /\ (<<x>> \o <<y, z>>)[2] = y
      /\ (<<x>> \o <<y, z>>)[3] = z
  BY <1>1
<1>4. \A i \in 1 .. 3 : (<<x>> \o <<y, z>>)[i] = <<x, y, z>>[i]
  BY <1>3
<1> QED BY <1>1, <1>2, <1>4, SeqEqual

LEMMA JoinFour ==
  ASSUME NEW x \in Nat, NEW y \in Nat, NEW z \in Nat, NEW w \in Nat
  PROVE  <<x>> \o <<y, z, w>> = <<x, y, z, w>>
<1>1. <<x>> \in Seq(Nat) /\ <<y, z, w>> \in Seq(Nat) /\ <<x, y, z, w>> \in Seq(Nat)
  OBVIOUS
<1>2. <<x>> \o <<y, z, w>> \in Seq(Nat) /\ Len(<<x>> \o <<y, z, w>>) = 4
  BY <1>1
<1>3. /\ (<<x>> \o <<y, z, w>>)[1] = x /\ (<<x>> \o <<y, z, w>>)[2] = y
      /\ (<<x>> \o <<y, z, w>>)[3] = z /\ (<<x>> \o <<y, z, w>>)[4] = w
  BY <1>1
<1>4. \A i \in 1 .. 4 : (<<x>> \o <<y, z, w>>)[i] = <<x, y, z, w>>[i]
  BY <1>3
<1> QED BY <1>1, <1>2, <1>4, SeqEqual

\* The digits of a number of two, of three and of four.
InTwo(R, code, n) ==
  \E a, b \in 0 .. R - 1 : code[n] = <<R + a, b>> /\ n = a + R * b

InThree(R, code, n) ==
  \E a, b, c \in 0 .. R - 1 :
    code[n] = <<R + a, R + b, c>> /\ n = a + R * (b + R * c)

InFour(R, code, n) ==
  \E a, b, c, d \in 0 .. R - 1 :
    /\ code[n] = <<R + a, R + b, R + c, d>>
    /\ n = a + R * (b + R * (c + R * d))

LEMMA TwoDigits ==
  ASSUME NEW R \in Nat, R > 2, NEW code, IsCode(R, code), NEW n \in R .. Square(R) - 1
  PROVE  InTwo(R, code, n)
<1> DEFINE a == n % R
           b == n \div R
<1>0. n \in Nat /\ n >= R /\ n < R * R
  BY DEF Square
<1>1. a \in 0 .. R - 1 /\ b \in Nat /\ n = R * b + a
  BY <1>0, Division
<1>2. b < R
  BY <1>0, Below
<1>3. b \in 0 .. R - 1
  BY <1>1, <1>2
<1>4. code[n] = <<R + a>> \o code[b] /\ code[b] = <<b>>
  BY <1>0, <1>3, OneDigit, FirstDigit
<1> HIDE DEF a, b
<1>5. code[n] = <<R + a, b>>
  <2>1. code[n] = <<R + a>> \o <<b>>
    BY <1>4, Zenon
  <2>2. R + a \in Nat /\ b \in Nat
    BY <1>1, <1>3
  <2> QED BY <2>1, <2>2, JoinTwo, Zenon
<1>6. n = a + R * b
  BY <1>1
<1> QED BY <1>1, <1>3, <1>5, <1>6 DEF InTwo

LEMMA ThreeDigits ==
  ASSUME NEW R \in Nat, R > 2, NEW code, IsCode(R, code),
         NEW n \in Square(R) .. Cube(R) - 1
  PROVE  InThree(R, code, n)
<1> DEFINE a == n % R
           m == n \div R
<1>0. Square(R) \in Nat /\ Square(R) >= R /\ Cube(R) \in Nat
  BY DEF Square, Cube
<1>1. n \in Nat /\ n >= R * R /\ n < R * Square(R)
  BY <1>0 DEF Square, Cube
<1>2. a \in 0 .. R - 1 /\ m \in Nat /\ n = R * m + a
  BY <1>1, Division
<1>3. m >= R /\ m < Square(R)
  BY <1>0, <1>1, Below, AtLeast
<1>4. m \in R .. Square(R) - 1
  BY <1>0, <1>2, <1>3
<1>5. n >= R
  BY <1>0, <1>1 DEF Square
<1>6. code[n] = <<R + a>> \o code[m]
  BY <1>1, <1>5, FirstDigit
<1> HIDE DEF a, m
<1>7. PICK b, c \in 0 .. R - 1 : code[m] = <<R + b, c>> /\ m = b + R * c
  <2>1. InTwo(R, code, m)
    BY <1>4, TwoDigits
  <2> QED BY <2>1 DEF InTwo
<1>8. code[n] = <<R + a, R + b, c>>
  <2>1. R + a \in Nat /\ R + b \in Nat /\ c \in Nat
    BY <1>2, <1>7
  <2>2. code[n] = <<R + a>> \o <<R + b, c>>
    BY <1>6, <1>7, Zenon
  <2> QED BY <2>1, <2>2, JoinThree, Zenon
<1>9. n = a + R * (b + R * c)
  BY <1>2, <1>7
<1> QED BY <1>2, <1>8, <1>9 DEF InThree

LEMMA FourDigits ==
  ASSUME NEW R \in Nat, R > 2, NEW code, IsCode(R, code),
         NEW n \in Cube(R) .. Fourth(R) - 1
  PROVE  InFour(R, code, n)
<1> DEFINE a == n % R
           m == n \div R
<1>0. /\ Square(R) \in Nat /\ Square(R) >= R
      /\ Cube(R) \in Nat /\ Cube(R) >= Square(R) /\ Fourth(R) \in Nat
  BY DEF Square, Cube, Fourth
<1>1. n \in Nat /\ n >= R * Square(R) /\ n < R * Cube(R)
  BY <1>0 DEF Cube, Fourth
<1>2. a \in 0 .. R - 1 /\ m \in Nat /\ n = R * m + a
  BY <1>1, Division
<1>3. m >= Square(R) /\ m < Cube(R)
  BY <1>0, <1>1, Below, AtLeast
<1>4. m \in Square(R) .. Cube(R) - 1
  BY <1>0, <1>2, <1>3
<1>5. n >= R
  BY <1>0, <1>1 DEF Cube
<1>6. code[n] = <<R + a>> \o code[m]
  BY <1>1, <1>5, FirstDigit
<1> HIDE DEF a, m
<1>7. PICK b, c, d \in 0 .. R - 1 :
        code[m] = <<R + b, R + c, d>> /\ m = b + R * (c + R * d)
  <2>1. InThree(R, code, m)
    BY <1>4, ThreeDigits
  <2> QED BY <2>1 DEF InThree
<1>8. code[n] = <<R + a, R + b, R + c, d>>
  <2>1. R + a \in Nat /\ R + b \in Nat /\ R + c \in Nat /\ d \in Nat
    BY <1>2, <1>7
  <2>2. code[n] = <<R + a>> \o <<R + b, R + c, d>>
    BY <1>6, <1>7, Zenon
  <2> QED BY <2>1, <2>2, JoinFour, Zenon
<1>9. n = a + R * (b + R * (c + R * d))
  BY <1>2, <1>7
<1> QED BY <1>2, <1>7, <1>8, <1>9 DEF InFour
=============================================================================
