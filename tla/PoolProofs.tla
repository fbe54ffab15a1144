------------------------------- MODULE PoolProofs -------------------------------
(****************************************************************************)
(* Proofs about VariablePool and PacketMemory: the free list is sorted, its *)
(* blocks and those in use tile the buffer, and so no two blocks handed out *)
(* share a unit; each of them is of one packet of one client.  The pool is  *)
(* a first-fit allocator, and no node of an outbox is lost.                 *)
(****************************************************************************)
EXTENDS PacketMemory, FiniteSetTheorems, WellFoundedInduction, TLAPS

\* The blocks that begin in B lie side by side and fill the buffer.
Tiled(B, m) ==
  /\ \A a \in B : m[a] \in Header /\ a + m[a].size <= PoolSize
  /\ \A a, b \in B : a < b => a + m[a].size <= b
  /\ \A x \in Unit : \E a \in B : a <= x /\ x < a + m[a].size

\* No free block but those in S ends where the next begins.
Apart(F, m, S) == \A a \in F \ S : a + m[a].size # m[a].next

Good(F, H, m, h) ==
  /\ F \in SUBSET Unit /\ H \in SUBSET Unit
  /\ m \in [Unit -> Header \cup {Data}]
  /\ F \cap H = {}
  /\ Tiled(F \cup H, m)
  /\ Chain(F, m, h)

\* H are the blocks handed out and those that are being freed.
Held(H) ==
  /\ \A b \in owned : b.at \in H /\ mem[b.at] = [next |-> Null, size |-> Units(b.bytes)]
  /\ \A b, c \in owned : b.at = c.at => b = c
  /\ \A u \in User : In(u, "free") => walk[u].block \in H /\ \A b \in owned : b.at # walk[u].block
  /\ \A h \in H : \/ \E b \in owned : b.at = h
                  \/ \E u \in User : In(u, "free") /\ walk[u].block = h

Walks(F) == \A u \in User :
  /\ (In(u, "malloc") \/ In(u, "free")) <=> mutex = u
  /\ In(u, "malloc") =>
       /\ \/ walk[u].prev = Null /\ Cur(u) = head
          \/ walk[u].prev \in F /\ Cur(u) = mem[walk[u].prev].next
       /\ \A a \in F : Cur(u) = Null \/ a < Cur(u) => mem[a].size < Want(u)
  /\ In(u, "free") =>
       /\ head # Null
       /\ \/ walk[u].prev = 0 /\ Cur(u) = head
          \/ walk[u].prev \in F /\ Cur(u) = mem[walk[u].prev].next /\ walk[u].prev < walk[u].block

Layout(F, H) == Good(F, H, mem, head) /\ Apart(F, mem, {}) /\ Held(H) /\ Walks(F)

IInv == PoolTypeOK /\ \E F, H \in SUBSET Unit : Layout(F, H)

\* The block at f is linked to n.
Linked(m, f, n) == [m EXCEPT ![f].next = n]
-----------------------------------------------------------------------------
\* The size of the pool and the sizes of its blocks are natural numbers.
LEMMA Sizing == PoolSize \in Nat \ {0} /\ \A n \in Nat : Ceil(n) \in Nat
<1>1. ASSUME NEW n \in Nat PROVE Ceil(n) \in Nat
  <2>1. n \div HeaderSize \in Nat
    BY PoolAssumption
  <2>. QED  BY <2>1 DEF Ceil
<1>2. NrBlocks \in Nat \ {0} /\ Ceil(BlockSize) + 1 \in Nat \ {0}
  BY <1>1, PoolAssumption
<1>3. \A i, j \in Nat \ {0} : i * j \in Nat \ {0}
  OBVIOUS
<1>. QED  BY <1>1, <1>2, <1>3 DEF PoolSize

\* Units are integers, apart from Null, and a header is not Data.
LEMMA PoolUnits == 
  /\ \A x \in Unit : x \in Int /\ 0 <= x /\ x < PoolSize
  /\ Null \notin Unit
  /\ \A x \in Header : x.size \in Int /\ x.size >= 1 /\ x.next \in Unit \cup {Null} /\ x # Data
BY Sizing, PoolAssumption DEF Unit, Header, Address

\* What follows x once f is in the list, and what follows f.
LEMMA FollowsWith ==
  ASSUME NEW F \in SUBSET Int, NEW x \in Int, NEW n, NEW f \in Int, f \notin F,
         Follows(F, x, n)
  PROVE  /\ x < f /\ (n = Null \/ f < n) => Follows(F \cup {f}, x, f) /\ Follows(F \cup {f}, f, n)
         /\ f <= x \/ (n # Null /\ n < f) => Follows(F \cup {f}, x, n)
<1>1. \A b \in F \cup {f} : b \in Int /\ b # Null
  BY PoolAssumption
<1>2. /\ n # Null => n \in F /\ n \in Int /\ x < n
      /\ \A b \in F : x < b => n # Null /\ n <= b
  BY <1>1 DEF Follows
<1>3. ASSUME x < f, n = Null \/ f < n
      PROVE  Follows(F \cup {f}, x, f) /\ Follows(F \cup {f}, f, n)
  <2>1. ASSUME NEW b \in F \cup {f}, x < b PROVE f <= b
    <3>1. CASE b = f
      BY <3>1
    <3>2. CASE b \in F
      <4>1. n # Null /\ n <= b /\ f < n
        BY <1>2, <1>3, <2>1, <3>2
      <4>. QED  BY <1>1, <1>2, <3>2, <4>1
    <3>. QED  BY <3>1, <3>2
  <2>2. ASSUME NEW b \in F \cup {f}, f < b PROVE n # Null /\ n <= b
    BY <1>1, <1>2, <1>3, <2>2
  <2>. QED  BY <1>1, <1>2, <1>3, <2>1, <2>2 DEF Follows
<1>4. ASSUME f <= x \/ (n # Null /\ n < f) PROVE Follows(F \cup {f}, x, n)
  <2>1. ASSUME NEW b \in F \cup {f}, x < b PROVE n # Null /\ n <= b
    <3>1. CASE b = f
      BY <1>4, <2>1, <3>1, <1>1, <1>2
    <3>2. CASE b \in F
      BY <1>2, <2>1, <3>2
    <3>. QED  BY <3>1, <3>2
  <2>. QED  BY <1>2, <2>1 DEF Follows
<1>. QED  BY <1>3, <1>4

\* The member c of the list moves up to r, and passes no other.
LEMMA FollowsMoved ==
  ASSUME NEW F \in SUBSET Int, NEW c \in F, NEW r \in Int, c < r, \A y \in F : c < y => r < y,
         NEW x \in Int, x < c \/ r < x, NEW n, Follows(F, x, n),
         NEW n2, n = c => n2 = r, n # c => n2 = n, NEW G, G = (F \ {c}) \cup {r}
  PROVE  Follows(G, x, n2)
<1>1. \A b \in F \cup {r} : b \in Int /\ b # Null
  BY PoolAssumption
<1>2. CASE n = c
  <2>1. x < c /\ x < r
    BY <1>1, <1>2 DEF Follows
  <2>2. ASSUME NEW b \in F \ {c}, x < b PROVE r <= b
    <3>1. c <= b
      BY <1>2, <2>2 DEF Follows
    <3>. QED  BY <1>1, <3>1
  <2>. QED  BY <1>1, <1>2, <2>1, <2>2 DEF Follows
<1>3. CASE n # c
  <2>1. ASSUME x < r PROVE n # Null /\ n <= r
    <3>1. x < c
      BY <1>1, <2>1
    <3>2. n # Null /\ n <= c /\ n \in F
      BY <1>1, <3>1 DEF Follows
    <3>. QED  BY <1>1, <3>2
  <2>. QED  BY <1>1, <1>3, <2>1 DEF Follows
<1>. QED  BY <1>2, <1>3

\* Two adjacent neighbours of the list become one block.
LEMMA MergeAdjacent ==
  ASSUME NEW F, NEW H, NEW m, NEW h, Good(F, H, m, h), NEW a \in F, NEW b \in F,
         m[a].next = b, a + m[a].size = b,
         NEW m2, m2 = MergeNext(m, a, b)
  PROVE  /\ Good(F \ {b}, H, m2, h)
         /\ a \in F \ {b}
         /\ m2[a].next = m[b].next
         /\ a + m2[a].size = b + m[b].size
         /\ \A x \in Unit \ {a} : m2[x] = m[x]
<1>1. /\ F \subseteq Unit /\ H \subseteq Unit /\ F \cap H = {}
      /\ m \in [Unit -> Header \cup {Data}]
      /\ m[a] \in Header /\ m[b] \in Header /\ a < b
      /\ b + m[b].size <= PoolSize
  BY PoolUnits DEF Good, Tiled
<1>2. m2 = [m EXCEPT ![a] = [next |-> m[b].next, size |-> m[a].size + m[b].size]]
  BY <1>1 DEF MergeNext
<1>3. m[a].size + m[b].size \in 1 .. PoolSize /\ PoolSize \in Nat
  BY <1>1, PoolUnits, Sizing
<1>4. m2[a] \in Header /\ m2[a] = [next |-> m[b].next, size |-> m[a].size + m[b].size]
  BY <1>1, <1>2, <1>3, PoolUnits DEF Header, Address
<1>5. \A x \in Unit \ {a} : m2[x] = m[x]
  BY <1>1, <1>2
<1>6. m2 \in [Unit -> Header \cup {Data}]
  BY <1>1, <1>2, <1>3, PoolUnits DEF Header, Address
<1>7. Tiled((F \ {b}) \cup H, m2)
  <2>. DEFINE B == F \cup H
  <2>1. /\ \A x \in B : m[x] \in Header /\ x + m[x].size <= PoolSize /\ x \in Unit
        /\ \A x, y \in B : x < y => x + m[x].size <= y
        /\ \A x \in Unit : \E y \in B : y <= x /\ x < y + m[y].size
    BY <1>1 DEF Good, Tiled
  <2>2. (F \ {b}) \cup H = B \ {b}
    BY <1>1
  <2>. HIDE DEF B
  <2>3. a \in B /\ b \in B
    BY DEF B
  <2>4. \A x \in B \ {b} : m2[x] \in Header /\ x + m2[x].size <= PoolSize
    BY <1>1, <1>4, <1>5, <2>1, PoolUnits
  <2>5. \A x, y \in B \ {b} : x < y => x + m2[x].size <= y
    <3>. SUFFICES ASSUME NEW x \in B \ {b}, NEW y \in B \ {b}, x < y
                  PROVE  x + m2[x].size <= y
      OBVIOUS
    <3>1. CASE x # a
      BY <3>1, <1>5, <2>1
    <3>2. CASE x = a
      <4>1. b <= y
        BY <3>2, <2>1, <2>3
      <4>2. b < y
        <5>1. y \in Int /\ b \in Int /\ y # b
          BY <2>1, <2>3, PoolUnits
        <5>. QED  BY <4>1, <5>1
      <4>3. b + m[b].size <= y
        BY <4>2, <2>1, <2>3
      <4>. QED  BY <3>2, <4>3, <1>1, <1>4, PoolUnits
    <3>. QED  BY <3>1, <3>2
  <2>6. \A x \in Unit : \E y \in B \ {b} : y <= x /\ x < y + m2[y].size
    <3>. SUFFICES ASSUME NEW x \in Unit
                  PROVE  \E y \in B \ {b} : y <= x /\ x < y + m2[y].size
      OBVIOUS
    <3>1. PICK y \in B : y <= x /\ x < y + m[y].size
      BY <2>1
    <3>2. CASE y \notin {a, b}
      BY <3>1, <3>2, <1>5, <2>1
    <3>3. CASE y \in {a, b}
      <4>1. a \in B \ {b} /\ a <= x /\ x < a + m2[a].size
        BY <3>1, <3>3, <1>1, <1>4, <2>3, PoolUnits
      <4>. QED  BY <4>1
    <3>. QED  BY <3>2, <3>3
  <2>. QED  BY <2>2, <2>4, <2>5, <2>6 DEF Tiled
<1>8. Chain(F \ {b}, m2, h)
  <2>1. /\ Follows(F, -1, h) /\ \A x \in F : Follows(F, x, m[x].next) /\ x \in Int
        /\ Follows(F, a, b) /\ Follows(F, b, m[b].next)
    BY <1>1, PoolUnits DEF Good, Chain
  <2>2. Follows(F \ {b}, -1, h)
    BY <2>1, <1>1, PoolUnits DEF Follows
  <2>3. Follows(F \ {b}, a, m[b].next)
    BY <2>1, <1>1, PoolUnits DEF Follows
  <2>4. ASSUME NEW x \in F \ {a, b} PROVE Follows(F \ {b}, x, m[x].next)
    BY <2>1, <1>1, PoolUnits DEF Follows
  <2>5. ASSUME NEW x \in F \ {b} PROVE Follows(F \ {b}, x, m2[x].next)
    <3>1. m2[a].next = m[b].next
      BY <1>4
    <3>2. CASE x = a
      BY <2>3, <3>1, <3>2
    <3>3. CASE x # a
      <4>1. m2[x] = m[x]
        BY <3>3, <1>1, <1>5
      <4>. QED  BY <2>4, <3>3, <4>1
    <3>. QED  BY <3>2, <3>3
  <2>. QED  BY <2>2, <2>5 DEF Chain
<1>. QED  BY <1>1, <1>3, <1>4, <1>5, <1>6, <1>7, <1>8, PoolUnits DEF Good

\* A block in use goes into the list, between the one at p and the one at n.
LEMMA InsertBehind ==
  ASSUME NEW F, NEW H, NEW m, NEW h, Good(F, H, m, h), NEW f \in H, NEW p \in F, NEW n,
         Follows(F, p, n), p < f, n = Null \/ f < n,
         NEW m1, m1 = Linked(m, p, f), NEW m2, m2 = Linked(m1, f, n),
         NEW G, G = F \cup {f}, NEW K, K = H \ {f}
  PROVE  /\ Good(G, K, m2, h)
         /\ m2[p].next = f /\ m2[f].next = n /\ m2[p].size = m[p].size /\ m2[f].size = m[f].size
         /\ \A x \in Unit : x # p /\ x # f => m2[x] = m[x]
<1>1. /\ F \in SUBSET Unit /\ H \in SUBSET Unit /\ F \cap H = {} /\ f # p
      /\ m \in [Unit -> Header \cup {Data}]
      /\ m[p] \in Header /\ m[f] \in Header
  BY PoolUnits DEF Good, Tiled
<1>2. m2 = [m EXCEPT ![p] = [m[p] EXCEPT !.next = f], ![f] = [m[f] EXCEPT !.next = n]]
  <2>1. m1 = [m EXCEPT ![p] = [m[p] EXCEPT !.next = f]]
    BY <1>1 DEF Linked
  <2>2. m1[f] = m[f]
    BY <1>1, <2>1
  <2>3. m2 = [m1 EXCEPT ![f] = [m[f] EXCEPT !.next = n]]
    BY <2>2 DEF Linked
  <2>. QED  BY <2>1, <2>3
<1>3. n \in Unit \cup {Null}
  BY <1>1 DEF Follows
<1>4. [m[p] EXCEPT !.next = f] \in Header /\ [m[f] EXCEPT !.next = n] \in Header
  BY <1>1, <1>3 DEF Header, Address
<1>5. /\ m2 \in [Unit -> Header \cup {Data}]
      /\ m2[p] = [m[p] EXCEPT !.next = f] /\ m2[f] = [m[f] EXCEPT !.next = n]
      /\ \A x \in Unit \ {p, f} : m2[x] = m[x]
  BY <1>1, <1>2, <1>4
<1>6. m2[p].next = f /\ m2[f].next = n /\ m2[p].size = m[p].size /\ m2[f].size = m[f].size
  BY <1>1, <1>5 DEF Header
<1>7. Tiled((F \cup {f}) \cup (H \ {f}), m2)
  <2>1. (F \cup {f}) \cup (H \ {f}) = F \cup H
    OBVIOUS
  <2>2. \A x \in F \cup H : m2[x].size = m[x].size /\ m2[x] \in Header
    BY <1>1, <1>4, <1>5, <1>6 DEF Good, Tiled
  <2>. QED  BY <2>1, <2>2 DEF Good, Tiled
<1>8. Chain(F \cup {f}, m2, h)
  <2>1. /\ Follows(F, -1, h) /\ \A x \in F : Follows(F, x, m[x].next) /\ x \in Int
        /\ f \in Int /\ f >= 0
    BY <1>1, PoolUnits DEF Good, Chain
  <2>2. Follows(F, p, n)
    BY <2>1
  <2>range. F \in SUBSET Int /\ f \notin F /\ p \in Int /\ -1 \in Int
    BY <2>1, <1>1
  <2>order. h # Null /\ h \in Int /\ h <= p
    <3>1. h # Null => h \in F /\ -1 < h
      BY <2>1 DEF Follows
    <3>2. h # Null /\ h <= p
      BY <2>1, <2>range, <1>1, PoolUnits DEF Follows
    <3>. QED  BY <2>range, <3>1, <3>2
  <2>3. Follows(F \cup {f}, -1, h)
    <3>1. h < f
      BY <2>range, <2>order, <2>1
    <3>. QED  BY <2>1, <2>range, <2>order, <3>1, FollowsWith
  <2>4. Follows(F \cup {f}, p, f) /\ Follows(F \cup {f}, f, n)
    BY <2>1, <2>2, <2>range, FollowsWith
  <2>6. ASSUME NEW x \in F \ {p} PROVE Follows(F \cup {f}, x, m[x].next)
    <3>1. x \in Int /\ Follows(F, x, m[x].next)
      BY <2>1
    <3>2. CASE x < p
      <4>1. m[x].next # Null /\ m[x].next \in Int /\ m[x].next <= p
        BY <3>1, <3>2, <2>range, PoolUnits, <1>1 DEF Follows
      <4>2. m[x].next < f
        BY <4>1, <2>range, <2>1
      <4>. QED  BY <3>1, <4>1, <4>2, <2>1, <2>range, FollowsWith
    <3>3. CASE p < x
      <4>1. n # Null /\ n <= x /\ n \in Int
        BY <2>2, <3>1, <3>3, <2>range DEF Follows
      <4>2. f <= x
        BY <4>1, <3>1, <2>1
      <4>. QED  BY <3>1, <4>2, <2>1, <2>range, FollowsWith
    <3>. QED  BY <3>1, <3>2, <3>3, <2>range
  <2>7. ASSUME NEW x \in F \ {p} PROVE Follows(F \cup {f}, x, m2[x].next)
    <3>1. m2[x] = m[x]
      BY <1>1, <1>5
    <3>. QED  BY <2>6, <3>1
  <2>. QED  BY <2>3, <2>4, <2>7, <1>6 DEF Chain
<1>9. (F \cup {f}) \cap (H \ {f}) = {}
  BY <1>1
<1>. QED  BY <1>1, <1>5, <1>6, <1>7, <1>8, <1>9 DEF Good

\* A block in use becomes the first of the list.
LEMMA InsertFirst ==
  ASSUME NEW F, NEW H, NEW m, NEW h, Good(F, H, m, h), NEW f \in H,
         h = Null \/ f < h,
         NEW m2, m2 = Linked(m, f, h),
         NEW G, G = F \cup {f}, NEW K, K = H \ {f}
  PROVE  /\ Good(G, K, m2, f)
         /\ m2[f].next = h /\ m2[f].size = m[f].size
         /\ \A x \in Unit \ {f} : m2[x] = m[x]
<1>1. /\ F \in SUBSET Unit /\ H \in SUBSET Unit /\ F \cap H = {}
      /\ m \in [Unit -> Header \cup {Data}]
      /\ m[f] \in Header
  BY PoolUnits DEF Good, Tiled
<1>2. h \in F \cup {Null} /\ m2 = [m EXCEPT ![f] = [m[f] EXCEPT !.next = h]]
  BY <1>1 DEF Good, Chain, Follows, Linked
<1>3. [m[f] EXCEPT !.next = h] \in Header
  BY <1>1, <1>2 DEF Header, Address
<1>4. /\ m2 \in [Unit -> Header \cup {Data}]
      /\ m2[f] = [m[f] EXCEPT !.next = h]
      /\ \A x \in Unit \ {f} : m2[x] = m[x]
  BY <1>1, <1>2, <1>3
<1>5. m2[f].next = h /\ m2[f].size = m[f].size
  BY <1>1, <1>4 DEF Header
<1>6. Tiled((F \cup {f}) \cup (H \ {f}), m2)
  <2>1. (F \cup {f}) \cup (H \ {f}) = F \cup H
    OBVIOUS
  <2>2. \A x \in F \cup H : m2[x].size = m[x].size /\ m2[x] \in Header
    BY <1>1, <1>3, <1>4, <1>5 DEF Good, Tiled
  <2>. QED  BY <2>1, <2>2 DEF Good, Tiled
<1>7. Chain(F \cup {f}, m2, f)
  <2>1. /\ Follows(F, -1, h) /\ \A x \in F : Follows(F, x, m[x].next) /\ x \in Int /\ x >= 0
        /\ f \in Int /\ f >= 0 /\ \A x \in F : f < x
    BY <1>1, PoolUnits DEF Good, Chain, Follows
  <2>range. F \in SUBSET Int /\ f \notin F /\ -1 \in Int /\ -1 < f
    BY <2>1, <1>1
  <2>2. Follows(F \cup {f}, -1, f) /\ Follows(F \cup {f}, f, h)
    BY <2>1, <2>range, FollowsWith
  <2>4. ASSUME NEW x \in F PROVE Follows(F \cup {f}, x, m[x].next)
    <3>1. x \in Int /\ f <= x
      BY <2>1
    <3>. QED  BY <2>1, <2>range, <3>1, FollowsWith
  <2>5. ASSUME NEW x \in F PROVE Follows(F \cup {f}, x, m2[x].next)
    <3>1. m2[x] = m[x]
      BY <1>1, <1>4
    <3>. QED  BY <2>4, <3>1
  <2>. QED  BY <2>2, <2>5, <1>5 DEF Chain
<1>8. (F \cup {f}) \cap (H \ {f}) = {}
  BY <1>1
<1>. QED  BY <1>1, <1>4, <1>5, <1>6, <1>7, <1>8 DEF Good

\* A free block is handed out; the one before it, if any, is linked to the next.
LEMMA TakenWhole ==
  ASSUME NEW F, NEW H, NEW m, NEW h, Good(F, H, m, h), Apart(F, m, {}),
         NEW c \in F, NEW h2, NEW m2, NEW G, G = F \ {c}, NEW K, K = H \cup {c},
         m2 \in [Unit -> Header \cup {Data}],
         m2[c] \in Header, m2[c].size = m[c].size,
         \A x \in (F \cup H) \ {c} : m2[x] \in Header /\ m2[x].size = m[x].size,
         c = h => h2 = m[c].next, c # h => h2 = h,
         \A x \in G : m[x].next = c => m2[x].next = m[c].next,
         \A x \in G : m[x].next # c => m2[x].next = m[x].next
  PROVE  Good(G, K, m2, h2) /\ Apart(G, m2, {})
<1>1. /\ F \in SUBSET Unit /\ H \in SUBSET Unit /\ F \cap H = {}
      /\ \A x \in F : x \in Int /\ x >= 0 /\ m[x] \in Header
  BY PoolUnits DEF Good, Tiled
<1>2. Tiled((F \ {c}) \cup (H \cup {c}), m2)
  <2>1. (F \ {c}) \cup (H \cup {c}) = F \cup H
    OBVIOUS
  <2>2. \A x \in F \cup H : m2[x] \in Header /\ m2[x].size = m[x].size
    OBVIOUS
  <2>. QED  BY <2>1, <2>2 DEF Good, Tiled
<1>3. Follows(F, -1, h) /\ Follows(F, c, m[c].next) /\ \A x \in F : Follows(F, x, m[x].next)
  BY DEF Good, Chain
<1>4. Follows(F \ {c}, -1, h2)
  BY <1>1, <1>3, PoolUnits DEF Follows
<1>5. ASSUME NEW x \in F \ {c} PROVE Follows(F \ {c}, x, m2[x].next)
  BY <1>1, <1>3, PoolUnits DEF Follows
<1>6. (F \ {c}) \cap (H \cup {c}) = {}
  BY <1>1
<1>7. ASSUME NEW x \in G PROVE x + m2[x].size # m2[x].next
  <2>1. m2[x].size = m[x].size /\ x + m[x].size # m[x].next /\ x \in Int /\ m[x].size \in Int
    BY <1>1, PoolUnits DEF Apart
  <2>2. CASE m[x].next # c
    BY <2>1, <2>2
  <2>3. CASE m[x].next = c
    <3>1. x < c /\ c \in Int
      BY <1>1, <1>3, <2>3, PoolUnits DEF Follows
    <3>2. x + m[x].size <= c
      BY <3>1 DEF Good, Tiled
    <3>3. m2[x].next = m[c].next /\ (m[c].next # Null => m[c].next \in F /\ c < m[c].next)
      BY <1>3, <2>3 DEF Follows
    <3>4. CASE m[c].next = Null
      BY <2>1, <3>3, <3>4, PoolAssumption
    <3>5. CASE m[c].next # Null
      BY <1>1, <2>1, <3>1, <3>2, <3>3, <3>5
    <3>. QED  BY <3>4, <3>5
  <2>. QED  BY <2>2, <2>3
<1>8. Good(G, K, m2, h2)
  BY <1>1, <1>2, <1>4, <1>5, <1>6 DEF Good, Chain
<1>9. Apart(G, m2, {})
  BY <1>7 DEF Apart
<1>. QED  BY <1>8, <1>9

\* The block c of the list is split at r: its first n units leave the list, the
\* rest stays in its place, with the headers m2 and the list head h2.
SplitOf(F, H, m, h, c, n, r, m2, h2) ==
  /\ Good(F, H, m, h) /\ Apart(F, m, {})
  /\ c \in F /\ n \in Int /\ r = c + n /\ 0 < n /\ n < m[c].size
  /\ m2 \in [Unit -> Header \cup {Data}]
  /\ m2[c] \in Header /\ m2[c].size = n
  /\ m2[r] \in Header /\ m2[r].size = m[c].size - n /\ m2[r].next = m[c].next
  /\ \A x \in (F \cup H) \ {c} : m2[x] \in Header /\ m2[x].size = m[x].size
  /\ c = h => h2 = r
  /\ c # h => h2 = h
  /\ \A x \in F \ {c} : m[x].next = c => m2[x].next = r
  /\ \A x \in F \ {c} : m[x].next # c => m2[x].next = m[x].next

\* A free block is split; the first n units are handed out.
LEMMA TakenSplit ==
  ASSUME NEW F, NEW H, NEW m, NEW h, NEW c, NEW n, NEW r, NEW m2, NEW h2,
         SplitOf(F, H, m, h, c, n, r, m2, h2)
  PROVE  /\ Good((F \ {c}) \cup {r}, H \cup {c}, m2, h2)
         /\ Apart((F \ {c}) \cup {r}, m2, {})
<1>. SUFFICES
       ASSUME Good(F, H, m, h), Apart(F, m, {}),
              c \in F, n \in Int, r = c + n, 0 < n, n < m[c].size,
              m2 \in [Unit -> Header \cup {Data}],
              m2[c] \in Header, m2[c].size = n,
              m2[r] \in Header, m2[r].size = m[c].size - n, m2[r].next = m[c].next,
              \A x \in (F \cup H) \ {c} : m2[x] \in Header /\ m2[x].size = m[x].size,
              c = h => h2 = r, c # h => h2 = h,
              \A x \in F \ {c} : m[x].next = c => m2[x].next = r,
              \A x \in F \ {c} : m[x].next # c => m2[x].next = m[x].next,
              NEW G, G = (F \ {c}) \cup {r}, NEW K, K = H \cup {c}
       PROVE  Good(G, K, m2, h2) /\ Apart(G, m2, {})
  BY DEF SplitOf
<1>. DEFINE B == F \cup H
<1>1. /\ F \in SUBSET Unit /\ H \in SUBSET Unit /\ F \cap H = {}
      /\ \A x \in F : x \in Int /\ x >= 0 /\ m[x] \in Header
      /\ \A x \in B : x \in Int /\ x >= 0 /\ m[x] \in Header /\ m[x].size \in Int /\ m[x].size >= 1
      /\ c \in Int /\ m[c].size \in Int /\ c \in B /\ c + m[c].size <= PoolSize
  BY PoolUnits DEF Good, Tiled
<1>2. /\ \A x \in B : m[x] \in Header /\ x + m[x].size <= PoolSize
      /\ \A x, y \in B : x < y => x + m[x].size <= y
      /\ \A x \in Unit : \E y \in B : y <= x /\ x < y + m[y].size
  BY DEF Good, Tiled
<1>. HIDE DEF B
<1>3. r \in Unit /\ r \notin B /\ c < r /\ \A x \in B : c < x => r < x
  <2>1. r \in Int /\ c < r /\ r < c + m[c].size /\ 0 <= r /\ r <= PoolSize - 1
    BY <1>1, Sizing
  <2>2. r \in Unit
    BY <2>1, Sizing DEF Unit
  <2>3. ASSUME NEW x \in B, c < x PROVE r < x
    <3>1. c + m[c].size <= x
      BY <1>1, <1>2, <2>3
    <3>. QED  BY <1>1, <2>1, <3>1
  <2>4. r \notin B
    BY <2>1, <2>3
  <2>. QED  BY <2>1, <2>2, <2>3, <2>4
<1>4. ((F \ {c}) \cup {r}) \cup (H \cup {c}) = B \cup {r}
  BY DEF B
<1>5. \A x \in B \ {c} : m2[x] \in Header /\ m2[x].size = m[x].size
  BY DEF B
<1>6. Tiled(B \cup {r}, m2)
  <2>1. \A x \in B \cup {r} : m2[x] \in Header /\ x + m2[x].size <= PoolSize
    <3>1. ASSUME NEW x \in B \ {c} PROVE m2[x] \in Header /\ x + m2[x].size <= PoolSize
      BY <1>2, <1>5
    <3>2. c + m2[c].size <= PoolSize /\ r + m2[r].size <= PoolSize
      BY <1>1, Sizing
    <3>. QED  BY <3>1, <3>2
  <2>2. \A x, y \in B \cup {r} : x < y => x + m2[x].size <= y
    BY <1>1, <1>2, <1>3, <1>5
  <2>3. ASSUME NEW x \in Unit PROVE \E y \in B \cup {r} : y <= x /\ x < y + m2[y].size
    <3>1. PICK z \in B : z <= x /\ x < z + m[z].size
      BY <1>2
    <3>2. CASE z # c
      BY <3>1, <3>2, <1>5
    <3>3. CASE z = c /\ x < r
      BY <3>1, <3>3, <1>1
    <3>4. CASE z = c /\ r <= x
      <4>1. x < r + m2[r].size
        <5>1. r + m2[r].size = c + m[c].size
          BY <1>1
        <5>. QED  BY <3>1, <3>4, <5>1
      <4>. QED  BY <3>4, <4>1
    <3>5. x \in Int /\ r \in Int
      BY <1>3, PoolUnits
    <3>. QED  BY <3>2, <3>3, <3>4, <3>5
  <2>. QED  BY <2>1, <2>2, <2>3 DEF Tiled
<1>7. Follows(F, -1, h) /\ Follows(F, c, m[c].next) /\ \A x \in F : Follows(F, x, m[x].next)
  BY DEF Good, Chain
<1>8. \A x \in F : (c < x => r < x) /\ x # r
  BY <1>3 DEF B
<1>9. r \in Int
  BY <1>3, PoolUnits
<1>10. F \in SUBSET Int /\ c \in F /\ r \in Int /\ c < r /\ \A y \in F : c < y => r < y
  BY <1>1, <1>3, <1>8, <1>9
<1>11. Follows(G, -1, h2) /\ Follows(G, r, m[c].next)
  <2>1. (h = c => h2 = r) /\ (h # c => h2 = h)
    OBVIOUS
  <2>2. -1 < c /\ -1 \in Int
    BY <1>1
  <2>3. Follows(G, -1, h2)
    BY <1>7, <1>10, <2>1, <2>2, FollowsMoved
  <2>4. \A b \in F \ {c} : c < b \/ b < c
    BY <1>10
  <2>5. Follows((F \ {c}) \cup {r}, r, m[c].next)
    <3>. DEFINE k == m[c].next
    <3>1. /\ k # Null => k \in F /\ c < k
          /\ \A b \in F : c < b => k # Null /\ k <= b
      BY <1>7 DEF Follows
    <3>. HIDE DEF k
    <3>2. ASSUME k # Null PROVE k \in (F \ {c}) \cup {r} /\ r < k
      <4>1. k \in F /\ c < k
        BY <3>1, <3>2
      <4>2. k # c
        BY <4>1, <1>10
      <4>. QED  BY <4>1, <4>2, <1>10
    <3>3. ASSUME NEW b \in (F \ {c}) \cup {r}, r < b PROVE k # Null /\ k <= b
      <4>1. b \in F /\ c < b
        BY <1>10, <3>3
      <4>. QED  BY <4>1, <3>1
    <3>4. Follows((F \ {c}) \cup {r}, r, k)
      BY <3>2, <3>3 DEF Follows
    <3>. QED  BY <3>4 DEF k
  <2>. QED  BY <2>3, <2>5
<1>12. ASSUME NEW x \in F \ {c} PROVE Follows(G, x, m2[x].next)
  <2>1. x \in Int /\ (x < c \/ r < x) /\ Follows(F, x, m[x].next)
    BY <1>7, <1>10
  <2>2. (m[x].next = c => m2[x].next = r) /\ (m[x].next # c => m2[x].next = m[x].next)
    OBVIOUS
  <2>. QED  BY <2>1, <2>2, <1>10, FollowsMoved
<1>13. Chain((F \ {c}) \cup {r}, m2, h2)
  BY <1>11, <1>12 DEF Chain
<1>14. ((F \ {c}) \cup {r}) \cap (H \cup {c}) = {}
  BY <1>1, <1>3 DEF B
<1>15. ASSUME NEW x \in G PROVE x + m2[x].size # m2[x].next
  <2>1. CASE x = r
    <3>1. c + m[c].size # m[c].next
      BY DEF Apart
    <3>. QED  BY <1>1, <2>1, <3>1
  <2>2. CASE x \in F /\ x # c
    <3>1. /\ m2[x].size = m[x].size /\ x + m[x].size # m[x].next
          /\ x \in Int /\ m[x].size \in Int /\ m[x] \in Header
      BY <1>1, <1>5, <2>2, PoolUnits DEF Apart, B
    <3>2. CASE m[x].next # c
      BY <2>2, <3>1, <3>2
    <3>3. CASE m[x].next = c
      <4>1. x < c /\ m2[x].next = r
        BY <1>1, <1>7, <2>2, <3>3, PoolUnits DEF Follows
      <4>2. x + m[x].size <= c
        BY <1>2, <2>2, <4>1 DEF B
      <4>. QED  BY <1>1, <1>3, <1>9, <3>1, <4>1, <4>2
    <3>. QED  BY <3>2, <3>3
  <2>. QED  BY <2>1, <2>2
<1>16. Good(G, K, m2, h2)
  BY <1>1, <1>3, <1>4, <1>6, <1>13, <1>14, ZenonT(60) DEF Good
<1>17. Apart(G, m2, {})
  BY <1>15 DEF Apart
<1>. QED  BY <1>16, <1>17

\* MergeNext in a list in which all blocks but those in S are apart.
LEMMA MergeNeighbours ==
  ASSUME NEW F, NEW H, NEW m, NEW h, NEW S, Good(F, H, m, h), Apart(F, m, S),
         NEW a \in F, a \in S, NEW b, b = m[a].next, a + m[a].size = b,
         NEW m2, m2 = MergeNext(m, a, b), NEW G, G = F \ {b}
  PROVE  /\ Good(G, H, m2, h) /\ a \in G /\ G \in SUBSET Unit
         /\ m2[a].next = m[b].next
         /\ \A x \in Unit \ {a} : m2[x] = m[x]
         /\ Apart(G, m2, S)
         /\ b \notin S => a + m2[a].size # m2[a].next
<1>1. F \in SUBSET Unit /\ H \in SUBSET Unit /\ F \cap H = {}
  BY DEF Good
<1>2. b \in F
  <2>1. Follows(F, a, b) /\ m[a] \in Header /\ a \in Int
    BY <1>1, PoolUnits DEF Good, Chain, Tiled
  <2>2. b # Null
    BY <2>1, PoolUnits, PoolAssumption
  <2>. QED  BY <2>1, <2>2 DEF Follows
<1>3. /\ Good(F \ {b}, H, m2, h)
      /\ a \in F \ {b}
      /\ m2[a].next = m[b].next
      /\ a + m2[a].size = b + m[b].size
      /\ \A x \in Unit \ {a} : m2[x] = m[x]
  BY <1>2, MergeAdjacent
<1>4. Apart(G, m2, S)
  BY <1>1, <1>3 DEF Apart
<1>5. ASSUME b \notin S PROVE a + m2[a].size # m2[a].next
  BY <1>2, <1>3, <1>5 DEF Apart
<1>. QED  BY <1>1, <1>3, <1>4, <1>5

\* One merge leaves the list as it should be, if only the block at a may not be
\* apart from the next.
LEMMA LastMerge ==
  ASSUME NEW F, NEW H, NEW m, NEW h, Good(F, H, m, h), NEW a \in F,
         NEW S, S = {a}, Apart(F, m, S),
         NEW b, b = m[a].next, NEW m2, m2 = MergeNext(m, a, b)
  PROVE  \E F2 \in SUBSET Unit :
           Good(F2, H, m2, h) /\ Apart(F2, m2, {}) /\ \A x \in H : m2[x] = m[x]
<1>1. F \in SUBSET Unit /\ H \in SUBSET Unit /\ a \notin H /\ a \in S
  BY DEF Good
<1>2. CASE a + m[a].size # b
  <2>1. m2 = m /\ Apart(F, m2, {})
    BY <1>2 DEF MergeNext, Apart
  <2>. QED  BY <1>1, <2>1
<1>3. CASE a + m[a].size = b
  <2>. DEFINE G == F \ {b}
  <2>1. b \notin S /\ G = F \ {b}
    <3>1. m[a].size \in Int /\ m[a].size >= 1 /\ a \in Int
      BY <1>1, PoolUnits DEF Good, Tiled
    <3>. QED  BY <1>3, <3>1
  <2>. HIDE DEF G
  <2>2. /\ Good(G, H, m2, h) /\ G \in SUBSET Unit
        /\ \A x \in Unit \ {a} : m2[x] = m[x]
        /\ Apart(G, m2, S)
        /\ a + m2[a].size # m2[a].next
    BY <1>1, <1>3, <2>1, MergeNeighbours
  <2>3. Apart(G, m2, {}) /\ \A x \in H : m2[x] = m[x]
    BY <1>1, <2>2 DEF Apart
  <2>. QED  BY <2>2, <2>3
<1>. QED  BY <1>2, <1>3

\* What FreeHere does to the list, if the block becomes its first ...
LEMMA GivenFirst ==
  ASSUME NEW F, NEW H, NEW m, NEW h, Good(F, H, m, h), Apart(F, m, {}),
         NEW f \in H, h # Null, f < h,
         NEW linked, linked = Linked(m, f, h),
         NEW m2, m2 = MergeNext(linked, f, h), NEW K, K = H \ {f}
  PROVE  \E F2 \in SUBSET Unit :
           Good(F2, K, m2, f) /\ Apart(F2, m2, {}) /\ \A x \in K : m2[x] = m[x]
<1>1. F \in SUBSET Unit /\ H \in SUBSET Unit /\ F \cap H = {}
  BY DEF Good
<1>. DEFINE G == F \cup {f}
            S == {f}
<1>2. G = F \cup {f} /\ S = {f} /\ f \in G
  OBVIOUS
<1>. HIDE DEF G, S
<1>3. /\ Good(G, K, linked, f)
      /\ linked[f].next = h /\ \A x \in Unit \ {f} : linked[x] = m[x]
  BY <1>2, InsertFirst
<1>4. Apart(G, linked, S)
  BY <1>1, <1>2, <1>3 DEF Apart
<1>5. PICK F2 \in SUBSET Unit : /\ Good(F2, K, m2, f) /\ Apart(F2, m2, {})
                                /\ \A x \in K : m2[x] = linked[x]
  BY <1>2, <1>3, <1>4, LastMerge
<1>6. \A x \in K : m2[x] = m[x]
  BY <1>1, <1>3, <1>5
<1>. QED  BY <1>5, <1>6

\* ... and if it comes behind another.
LEMMA GivenBehind ==
  ASSUME NEW F, NEW H, NEW m, NEW h, Good(F, H, m, h), Apart(F, m, {}),
         NEW f \in H, NEW prev \in F, NEW next, Follows(F, prev, next), prev < f,
         next = Null \/ f < next,
         NEW k, k = Linked(m, prev, f), NEW linked, linked = Linked(k, f, next),
         NEW m1, m1 = MergeNext(linked, prev, f),
         NEW m2, m2 = IF f = prev + linked[prev].size THEN MergeNext(m1, prev, next)
                      ELSE MergeNext(linked, f, next),
         NEW K, K = H \ {f}
  PROVE  \E F2 \in SUBSET Unit :
           Good(F2, K, m2, h) /\ Apart(F2, m2, {}) /\ \A x \in K : m2[x] = m[x]
<1>1. F \in SUBSET Unit /\ H \in SUBSET Unit /\ F \cap H = {} /\ prev # f /\ prev \notin H
  BY DEF Good
<1>. DEFINE G == F \cup {f}
            S == {prev, f}
            T == {prev}
            U == {f}
<1>0. G = F \cup {f}
  OBVIOUS
<1>2. /\ S = {prev, f} /\ T = {prev} /\ U = {f}
      /\ F = G \ {f} /\ prev \in G /\ f \in G /\ prev \in S
  BY <1>1
<1>. HIDE DEF G, S, T, U
<1>3. /\ Good(G, K, linked, h)
      /\ linked[prev].next = f /\ linked[f].next = next
      /\ linked[prev].size = m[prev].size /\ linked[f].size = m[f].size
      /\ \A x \in Unit : x # prev /\ x # f => linked[x] = m[x]
  BY <1>0, InsertBehind
<1>4. Apart(G, linked, S)
  BY <1>1, <1>0, <1>2, <1>3 DEF Apart
<1>5. CASE f = prev + linked[prev].size
  <2>1. m2 = MergeNext(m1, prev, next)
    BY <1>5
  <2>2. /\ Good(F, K, m1, h)
        /\ m1[prev].next = next
        /\ \A x \in Unit \ {prev} : m1[x] = linked[x]
        /\ Apart(F, m1, S)
    BY <1>2, <1>3, <1>4, <1>5, MergeNeighbours, SMTT(60)
  <2>3. Apart(F, m1, T)
    BY <1>1, <1>2, <2>2 DEF Apart
  <2>4. PICK F2 \in SUBSET Unit : /\ Good(F2, K, m2, h) /\ Apart(F2, m2, {})
                                  /\ \A x \in K : m2[x] = m1[x]
    BY <1>2, <2>1, <2>2, <2>3, LastMerge
  <2>5. \A x \in K : m2[x] = m[x]
    BY <1>1, <1>3, <2>2, <2>4
  <2>. QED  BY <2>4, <2>5
<1>6. CASE f # prev + linked[prev].size
  <2>1. Apart(G, linked, U)
    BY <1>1, <1>2, <1>3, <1>4, <1>6 DEF Apart
  <2>2. m2 = MergeNext(linked, f, next)
    BY <1>6
  <2>3. PICK F2 \in SUBSET Unit : /\ Good(F2, K, m2, h) /\ Apart(F2, m2, {})
                                  /\ \A x \in K : m2[x] = linked[x]
    BY <1>2, <1>3, <2>1, <2>2, LastMerge
  <2>4. \A x \in K : m2[x] = m[x]
    BY <1>1, <1>3, <2>3
  <2>. QED  BY <2>3, <2>4
<1>. QED  BY <1>5, <1>6
-----------------------------------------------------------------------------
\* Facts about every state with such a layout.
LEMMA InList ==
  ASSUME PoolTypeOK, NEW F \in SUBSET Unit, NEW H \in SUBSET Unit, Layout(F, H),
         NEW u \in User, In(u, "malloc") \/ In(u, "free")
  PROVE  /\ mutex = u /\ \A v \in User : v # u => ~In(v, "malloc") /\ ~In(v, "free")
         /\ Cur(u) = Null \/ Cur(u) \in F
         /\ Cur(u) \in Address
         /\ Cur(u) # Null => mem[Cur(u)] \in Header /\ Follows(F, Cur(u), mem[Cur(u)].next)
<1>1. /\ Follows(F, -1, head) /\ \A a \in F : Follows(F, a, mem[a].next)
      /\ \A a \in F : mem[a] \in Header
  BY DEF Layout, Good, Chain, Tiled
<1>2. Cur(u) = head \/ \E p \in F : Cur(u) = mem[p].next
  BY DEF Layout, Walks
<1>3. Cur(u) = Null \/ Cur(u) \in F
  BY <1>1, <1>2 DEF Follows
<1>. QED  BY <1>1, <1>3 DEF Layout, Walks, Address

\* The locals of a thread, by where it is.
LEMMA Shapes ==
  ASSUME PoolTypeOK, NEW u \in User
  PROVE  /\ In(u, "malloc") => walk[u] \in [pc : {"malloc"}, bytes : Sizes \ {0}, cur : Address, prev : Address]
         /\ In(u, "done") => walk[u] \in [pc : {"done"}, bytes : Sizes \ {0}, at : Address]
         /\ In(u, "free") => walk[u] \in [pc : {"free"}, block : Unit, cur : Address, prev : Unit]
BY DEF PoolTypeOK, Walk, In

\* A step that leaves the buffer, the list and the blocks alone.
LEMMA Quiet ==
  ASSUME PoolTypeOK, NEW F \in SUBSET Unit, NEW H \in SUBSET Unit, Layout(F, H),
         NEW u \in User, NEW w, walk' = [walk EXCEPT ![u] = w],
         UNCHANGED <<mem, head, owned>>,
         w.pc = "free" <=> In(u, "free"), w.pc = "free" => w.block = walk[u].block
  PROVE  Good(F, H, mem', head') /\ Apart(F, mem', {}) /\ Held(H)'
<1>1. Good(F, H, mem', head') /\ Apart(F, mem', {})
  BY DEF Layout
<1>2. walk'[u] = w /\ \A v \in User \ {u} : walk'[v] = walk[v]
  BY DEF PoolTypeOK
<1>3. \A v \in User : In(v, "free")' <=> In(v, "free")
  BY <1>2 DEF In
<1>4. \A v \in User : In(v, "free") => walk'[v].block = walk[v].block
  BY <1>2 DEF In
<1>5. Held(H)
  BY DEF Layout
<1>6. Held(H)'
  BY <1>3, <1>4, <1>5 DEF Held
<1>. QED  BY <1>1, <1>6

\* Step by step: malloc() takes the mutex and stands at the head, ...
LEMMA MallocStep ==
  ASSUME IInv, NEW u \in User, NEW bytes \in Sizes, Malloc(u, bytes)
  PROVE  IInv'
<1>. DEFINE w == [pc |-> "malloc", bytes |-> bytes, cur |-> head, prev |-> Null]
<1>1. PICK F \in SUBSET Unit, H \in SUBSET Unit : Layout(F, H)
  BY DEF IInv
<1>2. /\ walk' = [walk EXCEPT ![u] = w] /\ In(u, "idle") /\ bytes \in Sizes \ {0}
      /\ mutex = Null /\ mutex' = u
      /\ UNCHANGED <<mem, head, owned>>
  BY DEF Malloc, Lock
<1>3. PoolTypeOK /\ w \in Walk
  <2>1. PoolTypeOK
    BY DEF IInv
  <2>2. head \in Address /\ Null \in Address
    BY <2>1 DEF PoolTypeOK, Address
  <2>3. w \in [pc : {"malloc"}, bytes : Sizes \ {0}, cur : Address, prev : Address]
    BY <1>2, <2>2
  <2>. QED  BY <2>1, <2>3 DEF Walk
<1>4. PoolTypeOK'
  BY <1>2, <1>3 DEF PoolTypeOK
<1>5. walk'[u] = w /\ \A v \in User \ {u} : walk'[v] = walk[v]
  BY <1>2, <1>3 DEF PoolTypeOK
<1>6. Good(F, H, mem', head') /\ Apart(F, mem', {}) /\ Held(H)'
  <2>1. w.pc # "free" /\ ~In(u, "free")
    BY <1>2 DEF In
  <2>. HIDE DEF w
  <2>. QED  BY <1>1, <1>2, <1>3, <2>1, Quiet
<1>7. Walks(F)'
  <2>1. \A v \in User : ~In(v, "malloc") /\ ~In(v, "free")
    BY <1>1, <1>2, PoolAssumption DEF Layout, Walks
  <2>2. In(u, "malloc")' /\ ~In(u, "free")' /\ \A v \in User \ {u} : ~In(v, "malloc")' /\ ~In(v, "free")'
    BY <1>5, <2>1 DEF In
  <2>3. \A a \in F : head # Null /\ head <= a /\ a \in Int /\ head \in Int
    BY <1>1, PoolUnits DEF Layout, Good, Chain, Follows
  <2>4. Cur(u)' = head' /\ walk'[u].prev = Null
    BY <1>2, <1>5 DEF Cur
  <2>5. \A a \in F : ~(Cur(u)' = Null \/ a < Cur(u)')
    BY <1>2, <2>3, <2>4
  <2>. QED  BY <1>2, <2>2, <2>4, <2>5 DEF Walks
<1>. QED  BY <1>4, <1>6, <1>7 DEF IInv, Layout

\* ... goes on, as the block is too small, ...
LEMMA MallocNextStep ==
  ASSUME IInv, NEW u \in User, MallocNext(u)
  PROVE  IInv'
<1>. DEFINE next == mem[Cur(u)].next
            w == [walk[u] EXCEPT !.prev = Cur(u), !.cur = next]
<1>1. PICK F \in SUBSET Unit, H \in SUBSET Unit : Layout(F, H)
  BY DEF IInv
<1>2. /\ walk' = [walk EXCEPT ![u] = w] /\ In(u, "malloc") /\ Cur(u) # Null
      /\ mem[Cur(u)].size < Want(u)
      /\ UNCHANGED <<mem, head, mutex, owned>>
  <2>1. walk' = [walk EXCEPT ![u].prev = Cur(u), ![u].cur = mem[Cur(u)].next]
    BY DEF MallocNext, Advance
  <2>. QED  BY <2>1 DEF MallocNext, Advance
<1>3. PoolTypeOK
  BY DEF IInv
<1>4. /\ Cur(u) \in F /\ mem[Cur(u)] \in Header /\ Follows(F, Cur(u), next)
      /\ mutex = u /\ \A v \in User : v # u => ~In(v, "malloc") /\ ~In(v, "free")
      /\ next \in Address
  BY <1>1, <1>2, <1>3, InList, PoolUnits DEF Header
<1>5. walk[u] \in [pc : {"malloc"}, bytes : Sizes \ {0}, cur : Address, prev : Address]
  BY <1>2, <1>3, Shapes
<1>6. /\ w \in [pc : {"malloc"}, bytes : Sizes \ {0}, cur : Address, prev : Address]
      /\ w.pc = "malloc" /\ w.prev = Cur(u) /\ w.cur = next /\ w.bytes = walk[u].bytes
  BY <1>4, <1>5 DEF Address
<1>. HIDE DEF w
<1>7. PoolTypeOK'
  BY <1>2, <1>3, <1>6 DEF PoolTypeOK, Walk
<1>8. walk'[u] = w /\ \A v \in User \ {u} : walk'[v] = walk[v]
  BY <1>2, <1>3 DEF PoolTypeOK
<1>9. Good(F, H, mem', head') /\ Apart(F, mem', {}) /\ Held(H)'
  <2>1. w.pc # "free" /\ ~In(u, "free")
    BY <1>2, <1>6 DEF In
  <2>. QED  BY <1>1, <1>2, <1>3, <2>1, Quiet
<1>10. Walks(F)'
  <2>1. In(u, "malloc")' /\ ~In(u, "free")' /\ \A v \in User \ {u} : ~In(v, "malloc")' /\ ~In(v, "free")'
    BY <1>4, <1>6, <1>8 DEF In
  <2>2. /\ walk'[u].prev = Cur(u) /\ Cur(u)' = next /\ mem'[walk'[u].prev].next = next
        /\ Want(u)' = Want(u)
    BY <1>2, <1>6, <1>8 DEF Cur, Want
  <2>3. ASSUME NEW a \in F, next = Null \/ a < next PROVE mem[a].size < Want(u)
    <3>1. \A x \in F : x \in Int
      BY PoolUnits
    <3>2. a <= Cur(u)
      BY <1>4, <2>3, <3>1 DEF Follows
    <3>3. CASE a = Cur(u)
      BY <1>2, <3>3
    <3>4. CASE a < Cur(u)
      BY <1>1, <1>2, <3>4 DEF Layout, Walks
    <3>. QED  BY <1>4, <3>1, <3>2, <3>3, <3>4
  <2>4. walk'[u].prev \in F /\ Cur(u)' = mem'[walk'[u].prev].next
    BY <1>4, <2>2
  <2>5. \A a \in F : Cur(u)' = Null \/ a < Cur(u)' => mem'[a].size < Want(u)'
    BY <1>2, <2>2, <2>3
  <2>6. mutex' = u /\ \A v \in User \ {u} : mutex' # v
    BY <1>2, <1>4
  <2>. QED  BY <2>1, <2>4, <2>5, <2>6 DEF Walks
<1>. QED  BY <1>7, <1>9, <1>10 DEF IInv, Layout

\* free() goes on, as the block belongs further behind.
LEMMA FreeNextStep ==
  ASSUME IInv, NEW u \in User, FreeNext(u)
  PROVE  IInv'
<1>. DEFINE next == mem[Cur(u)].next
            w == [walk[u] EXCEPT !.prev = Cur(u), !.cur = next]
<1>1. PICK F \in SUBSET Unit, H \in SUBSET Unit : Layout(F, H)
  BY DEF IInv
<1>2. /\ walk' = [walk EXCEPT ![u] = w] /\ In(u, "free")
      /\ Cur(u) # Null /\ walk[u].block >= Cur(u)
      /\ UNCHANGED <<mem, head, mutex, owned>>
  <2>1. walk' = [walk EXCEPT ![u].prev = Cur(u), ![u].cur = mem[Cur(u)].next]
    BY DEF FreeNext, Advance
  <2>. QED  BY <2>1 DEF FreeNext, Advance, Behind
<1>3. PoolTypeOK
  BY DEF IInv
<1>4. /\ Cur(u) \in F /\ mem[Cur(u)] \in Header
      /\ mutex = u /\ \A v \in User : v # u => ~In(v, "malloc") /\ ~In(v, "free")
      /\ next \in Address
  BY <1>1, <1>2, <1>3, InList, PoolUnits DEF Header
<1>5. walk[u] \in [pc : {"free"}, block : Unit, cur : Address, prev : Unit]
  BY <1>2, <1>3, Shapes
<1>6. /\ w \in [pc : {"free"}, block : Unit, cur : Address, prev : Unit]
      /\ w.pc = "free" /\ w.prev = Cur(u) /\ w.cur = next /\ w.block = walk[u].block
  BY <1>4, <1>5
<1>. HIDE DEF w
<1>7. PoolTypeOK'
  BY <1>2, <1>3, <1>6 DEF PoolTypeOK, Walk
<1>8. walk'[u] = w /\ \A v \in User \ {u} : walk'[v] = walk[v]
  BY <1>2, <1>3 DEF PoolTypeOK
<1>9. Good(F, H, mem', head') /\ Apart(F, mem', {}) /\ Held(H)'
  <2>1. w.pc = "free" /\ In(u, "free")
    BY <1>2, <1>6
  <2>. QED  BY <1>1, <1>2, <1>3, <1>6, <2>1, Quiet
<1>10. Walks(F)'
  <2>1. ~In(u, "malloc")' /\ In(u, "free")' /\ \A v \in User \ {u} : ~In(v, "malloc")' /\ ~In(v, "free")'
    BY <1>4, <1>6, <1>8 DEF In
  <2>2. /\ walk'[u].prev = Cur(u) /\ Cur(u)' = next /\ mem'[walk'[u].prev].next = next
        /\ walk'[u].block = walk[u].block
    BY <1>2, <1>6, <1>8 DEF Cur
  <2>3. walk[u].block # Cur(u) /\ walk[u].block \in Int /\ Cur(u) \in Int
    BY <1>1, <1>2, <1>4, <1>5, PoolUnits DEF Layout, Held, Good
  <2>4. walk'[u].prev < walk'[u].block
    BY <1>2, <2>2, <2>3
  <2>5. head' # Null
    BY <1>1, <1>2 DEF Layout, Walks
  <2>6. walk'[u].prev \in F /\ Cur(u)' = mem'[walk'[u].prev].next
    BY <1>4, <2>2
  <2>7. mutex' = u /\ \A v \in User \ {u} : mutex' # v
    BY <1>2, <1>4
  <2>. QED  BY <2>1, <2>4, <2>5, <2>6, <2>7 DEF Walks
<1>. QED  BY <1>7, <1>9, <1>10 DEF IInv, Layout

\* ... or gives up at the end of the list, ...
LEMMA MallocFailsStep ==
  ASSUME IInv, NEW u \in User, MallocFails(u)
  PROVE  IInv'
<1>. DEFINE w == Answer(u, Null)
<1>1. PICK F \in SUBSET Unit, H \in SUBSET Unit : Layout(F, H)
  BY DEF IInv
<1>2. /\ walk' = [walk EXCEPT ![u] = w] /\ In(u, "malloc") /\ mutex' = Null
      /\ UNCHANGED <<mem, head, owned>>
  BY DEF MallocFails, Unlock
<1>3. PoolTypeOK
  BY DEF IInv
<1>4. mutex = u /\ \A v \in User : v # u => ~In(v, "malloc") /\ ~In(v, "free")
  BY <1>1, <1>2, <1>3, InList
<1>5. w \in [pc : {"done"}, bytes : Sizes \ {0}, at : Address] /\ w.pc = "done"
  BY <1>2, <1>3, Shapes DEF Answer, Address
<1>. HIDE DEF w
<1>6. PoolTypeOK'
  BY <1>2, <1>3, <1>5 DEF PoolTypeOK, Walk
<1>7. walk'[u] = w /\ \A v \in User \ {u} : walk'[v] = walk[v]
  BY <1>2, <1>3 DEF PoolTypeOK
<1>8. Good(F, H, mem', head') /\ Apart(F, mem', {}) /\ Held(H)'
  <2>1. w.pc # "free" /\ ~In(u, "free")
    BY <1>2, <1>5 DEF In
  <2>. QED  BY <1>1, <1>2, <1>3, <2>1, Quiet
<1>9. Walks(F)'
  <2>1. \A v \in User : ~In(v, "malloc")' /\ ~In(v, "free")'
    BY <1>4, <1>5, <1>7 DEF In
  <2>2. \A v \in User : mutex' # v
    BY <1>2, PoolAssumption
  <2>. QED  BY <2>1, <2>2 DEF Walks
<1>. QED  BY <1>6, <1>8, <1>9 DEF IInv, Layout

\* ... and returns.
LEMMA ReturnedStep ==
  ASSUME IInv, NEW u \in User, Returned(u)
  PROVE  IInv'
<1>1. PICK F \in SUBSET Unit, H \in SUBSET Unit : Layout(F, H)
  BY DEF IInv
<1>2. /\ walk' = [walk EXCEPT ![u] = Idle] /\ In(u, "done")
      /\ UNCHANGED <<mem, head, mutex, owned>>
  BY DEF Returned
<1>3. PoolTypeOK
  BY DEF IInv
<1>4. Idle \in [pc : {"idle"}] /\ Idle.pc = "idle"
  BY DEF Idle
<1>5. PoolTypeOK'
  BY <1>2, <1>3, <1>4 DEF PoolTypeOK, Walk
<1>6. walk'[u] = Idle /\ \A v \in User \ {u} : walk'[v] = walk[v]
  BY <1>2, <1>3 DEF PoolTypeOK
<1>7. Good(F, H, mem', head') /\ Apart(F, mem', {}) /\ Held(H)'
  <2>1. Idle.pc # "free" /\ ~In(u, "free")
    BY <1>2, <1>4 DEF In
  <2>. QED  BY <1>1, <1>2, <1>3, <2>1, Quiet
<1>8. Walks(F)'
  <2>1. ~In(u, "malloc") /\ ~In(u, "free") /\ ~In(u, "malloc")' /\ ~In(u, "free")'
    BY <1>2, <1>4, <1>6 DEF In
  <2>2. \A v \in User \ {u} : /\ In(v, "malloc")' <=> In(v, "malloc")
                              /\ In(v, "free")' <=> In(v, "free")
                              /\ Cur(v)' = Cur(v) /\ Want(v)' = Want(v) /\ walk'[v] = walk[v]
    BY <1>6 DEF In, Cur, Want
  <2>3. Walks(F)
    BY <1>1 DEF Layout
  <2>. QED  BY <1>2, <2>1, <2>2, <2>3 DEF Walks
<1>. QED  BY <1>5, <1>7, <1>8 DEF IInv, Layout

\* What Take does to the buffer, with a buffer m in which the blocks are as in mem.
Took(F, H, c, n, m, rest) ==
  /\ c \in F /\ n \in Int /\ n > 0
  /\ mem' \in [Unit -> Header \cup {Data}]
  /\ mem'[c] = [next |-> Null, size |-> n] /\ mem'[c] \in Header
  /\ \A x \in (F \cup H) \ {c} : mem'[x] \in Header /\ mem'[x].size = mem[x].size
  /\ \A x \in F \ {c} : mem[x].next = c => mem'[x].next = rest
  /\ \A x \in F \ {c} : mem[x].next # c => mem'[x].next = mem[x].next
  /\ \A x \in H : mem'[x] = mem[x]
  /\ c = head => head' = rest
  /\ c # head => head' = head
  /\ \A x \in Unit : x >= c + n /\ x \notin F => mem'[x] = m[x]

\* Take() marks the units of the block, and touches no other header but the one before.
LEMMA TakeFacts ==
  ASSUME PoolTypeOK, NEW F \in SUBSET Unit, NEW H \in SUBSET Unit, Layout(F, H),
         NEW u \in User, In(u, "malloc"), NEW c, c = Cur(u), c # Null,
         NEW m, m \in [Unit -> Header \cup {Data}], \A x \in F \cup H : m[x] = mem[x],
         NEW rest, rest \in Address, Want(u) <= mem[c].size, Take(u, m, rest),
         NEW n, n = Want(u)
  PROVE  Took(F, H, c, n, m, rest)
<1>. DEFINE p == walk[u].prev
            b == [at |-> c, bytes |-> walk[u].bytes]
            linked == IF p = Null THEN m ELSE [m EXCEPT ![p].next = rest]
<1>1. /\ mem' = [x \in Unit |-> IF x = c THEN [next |-> Null, size |-> n]
                               ELSE IF x \in Extent(b) THEN Data ELSE linked[x]]
      /\ head' = IF c = head THEN rest ELSE head
  BY DEF Take
<1>2. c \in F /\ mem[c] \in Header
  BY InList
<1>3. walk[u] \in [pc : {"malloc"}, bytes : Sizes \ {0}, cur : Address, prev : Address]
  BY Shapes
<1>4. n \in Int /\ n > 0 /\ Extent(b) = c .. c + n - 1
  <2>1. Ceil(walk[u].bytes) \in Nat /\ walk[u].bytes \in Nat
    BY <1>3, Sizing, PoolAssumption
  <2>2. n = Ceil(walk[u].bytes) + 1
    BY DEF Want, Units
  <2>3. Extent(b) = c .. c + Ceil(walk[u].bytes)
    BY DEF Extent
  <2>4. c \in Int
    BY <1>2, PoolUnits
  <2>. QED  BY <2>1, <2>2, <2>3, <2>4
<1>5. /\ \A x \in F \cup H : m[x] \in Header /\ mem[x] \in Header /\ x \in Int
      /\ \A x, y \in F \cup H : x < y => x + mem[x].size <= y
      /\ F \cap H = {} /\ c + mem[c].size <= PoolSize
      /\ mem[c].size \in Int /\ c \in Int /\ 0 <= c
  BY <1>2, PoolUnits DEF Layout, Good, Tiled
<1>6. \A x \in (F \cup H) \ {c} : x \notin Extent(b)
  BY <1>2, <1>4, <1>5
<1>7. p = Null \/ (p \in F /\ p # c /\ mem[p].next = c)
  <2>1. p = Null \/ (p \in F /\ mem[p].next = c)
    BY DEF Layout, Walks
  <2>2. ASSUME p \in F, mem[p].next = c PROVE p # c
    <3>1. Follows(F, p, c)
      BY <2>2 DEF Layout, Good, Chain
    <3>. QED  BY <1>2, <1>5, <3>1, PoolUnits DEF Follows
  <2>. QED  BY <2>1, <2>2
<1>8. linked \in [Unit -> Header \cup {Data}] /\ \A x \in Unit : x # p => linked[x] = m[x]
  <2>1. CASE p = Null
    BY <2>1
  <2>2. CASE p # Null
    <3>1. p \in F /\ m[p] \in Header
      BY <1>5, <1>7, <2>2
    <3>2. linked = [m EXCEPT ![p] = [m[p] EXCEPT !.next = rest]]
      BY <2>2
    <3>3. [m[p] EXCEPT !.next = rest] \in Header
      BY <3>1 DEF Header
    <3>. HIDE DEF linked, p
    <3>. QED  BY <3>1, <3>2, <3>3
  <2>. QED  BY <2>1, <2>2
<1>9. p # Null => /\ linked[p] \in Header /\ linked[p].size = mem[p].size
                  /\ linked[p].next = rest
  <2>. SUFFICES ASSUME p # Null PROVE linked[p] \in Header /\ linked[p].size = mem[p].size
                                      /\ linked[p].next = rest
    OBVIOUS
  <2>1. p \in F /\ m[p] \in Header /\ m[p] = mem[p]
    BY <1>5, <1>7
  <2>2. linked[p] = [m[p] EXCEPT !.next = rest]
    BY <2>1
  <2>. QED  BY <2>1, <2>2 DEF Header
<1>. HIDE DEF linked, p, b
<1>10. [next |-> Null, size |-> n] \in Header
  <2>1. n <= mem[c].size
    OBVIOUS
  <2>2. n \in 1 .. PoolSize
    <3>1. mem[c].size \in Int /\ c \in Int /\ 0 <= c /\ c + mem[c].size <= PoolSize
      BY <1>5
    <3>2. n \in Int /\ n > 0 /\ PoolSize \in Int
      BY <1>4, Sizing
    <3>. QED  BY <2>1, <3>1, <3>2
  <2>. QED  BY <2>2 DEF Header, Address
<1>11. mem' \in [Unit -> Header \cup {Data}]
  BY <1>1, <1>8, <1>10
<1>12. mem'[c] = [next |-> Null, size |-> n]
  BY <1>1, <1>2
<1>13. \A x \in (F \cup H) \ {c} : mem'[x] = linked[x]
  BY <1>1, <1>6
<1>14. \A x \in (F \cup H) \ {c} : mem'[x] \in Header /\ mem'[x].size = mem[x].size
  <2>1. ASSUME NEW x \in (F \cup H) \ {c}, x = p
        PROVE  linked[x] \in Header /\ linked[x].size = mem[x].size
    BY <1>7, <1>9, <2>1, PoolUnits
  <2>2. ASSUME NEW x \in (F \cup H) \ {c}, x # p
        PROVE  linked[x] \in Header /\ linked[x].size = mem[x].size
    BY <1>5, <1>8, <2>2
  <2>. QED  BY <1>13, <2>1, <2>2
<1>15. \A x \in H : mem'[x] = mem[x]
  <2>1. p \notin H
    BY <1>5, <1>7, PoolUnits
  <2>. QED  BY <1>2, <1>5, <1>8, <1>13, <2>1
<1>16. ASSUME NEW x \in F \ {c}, mem[x].next = c PROVE mem'[x].next = rest
  <2>1. Follows(F, x, c) /\ x \in Int
    BY <1>5, <1>16 DEF Layout, Good, Chain
  <2>2. p # Null
    <3>1. ASSUME p = Null PROVE FALSE
      <4>1. c = head /\ Follows(F, -1, head)
        BY <3>1, <1>3, PoolUnits DEF Layout, Good, Chain, Walks, p
      <4>2. -1 < x
        BY PoolUnits
      <4>. QED  BY <1>2, <1>5, <2>1, <4>1, <4>2, PoolUnits DEF Follows
    <3>. QED  BY <3>1
  <2>3. Follows(F, p, c) /\ p \in F /\ p \in Int
    BY <1>5, <1>7, <2>2 DEF Layout, Good, Chain
  <2>4. x = p
    BY <1>2, <1>5, <2>1, <2>3, PoolUnits DEF Follows
  <2>. QED  BY <1>9, <1>13, <2>2, <2>4
<1>17. ASSUME NEW x \in F \ {c}, mem[x].next # c PROVE mem'[x].next = mem[x].next
  <2>1. x # p
    BY <1>7, <1>17, PoolUnits
  <2>. QED  BY <1>8, <1>13, <2>1
<1>18. ASSUME NEW x \in Unit, x >= c + n, x \notin F PROVE mem'[x] = m[x]
  <2>1. x # p /\ x # c /\ x \notin Extent(b)
    BY <1>2, <1>4, <1>5, <1>7, <1>18, PoolUnits
  <2>. QED  BY <1>1, <1>8, <2>1
<1>. QED  BY <1>1, <1>2, <1>4, <1>10, <1>11, <1>12, <1>14, <1>15, <1>16, <1>17, <1>18 DEF Took

\* The block at the cursor is now in use, by the thread that asked for it.
LEMMA Handed ==
  ASSUME PoolTypeOK, NEW F \in SUBSET Unit, NEW H \in SUBSET Unit, Layout(F, H),
         NEW u \in User, In(u, "malloc"), NEW c, c = Cur(u), c \in F,
         mutex' = Null, walk' = [walk EXCEPT ![u] = Answer(u, c)],
         owned' = owned \cup {[at |-> c, bytes |-> walk[u].bytes]},
         mem'[c] = [next |-> Null, size |-> Want(u)],
         \A x \in H : mem'[x] = mem[x],
         NEW G \in SUBSET Unit, NEW K, K = H \cup {c},
         Good(G, K, mem', head'), Apart(G, mem', {})
  PROVE  IInv'
<1>. DEFINE w == Answer(u, c)
            b == [at |-> c, bytes |-> walk[u].bytes]
<1>1. walk[u] \in [pc : {"malloc"}, bytes : Sizes \ {0}, cur : Address, prev : Address]
  BY Shapes
<1>2. /\ w \in [pc : {"done"}, bytes : Sizes \ {0}, at : Address] /\ w.pc = "done"
      /\ b \in Block /\ b.at = c /\ Units(b.bytes) = Want(u)
  BY <1>1 DEF Answer, Block, Want, Address
<1>3. /\ mutex = u /\ \A v \in User : v # u => ~In(v, "malloc") /\ ~In(v, "free")
      /\ F \cap H = {} /\ Held(H)
  BY InList DEF Layout, Good
<1>4. walk'[u] = w /\ \A v \in User \ {u} : walk'[v] = walk[v]
  BY DEF PoolTypeOK
<1>. HIDE DEF w
<1>5. \A v \in User : ~In(v, "malloc")' /\ ~In(v, "free")' /\ ~In(v, "free")
  BY <1>2, <1>3, <1>4 DEF In
<1>6. PoolTypeOK'
  <2>1. mem' \in [Unit -> Header \cup {Data}] /\ head' \in Address
    BY DEF Good, Chain, Follows, Address
  <2>2. owned' \subseteq Block
    BY <1>2 DEF PoolTypeOK
  <2>3. walk' \in [User -> Walk]
    BY <1>2 DEF PoolTypeOK, Walk, w
  <2>. QED  BY <2>1, <2>2, <2>3 DEF PoolTypeOK
<1>7. Held(K)'
  <2>. HIDE DEF b
  <2>1. owned' = owned \cup {b}
    BY DEF b
  <2>2. /\ \A d \in owned : d.at \in H /\ mem[d.at] = [next |-> Null, size |-> Units(d.bytes)]
        /\ \A d, e \in owned : d.at = e.at => d = e
        /\ \A h \in H : \E d \in owned : d.at = h
    BY <1>3, <1>5 DEF Held
  <2>3. ASSUME NEW d \in owned'
        PROVE  d.at \in K /\ mem'[d.at] = [next |-> Null, size |-> Units(d.bytes)]
    BY <1>2, <2>1, <2>2
  <2>4. ASSUME NEW d \in owned', NEW e \in owned', d.at = e.at PROVE d = e
    <3>1. \A x \in owned : x.at # c
      BY <1>3, <2>2
    <3>. QED  BY <1>2, <2>1, <2>2, <2>4, <3>1
  <2>5. ASSUME NEW h \in K PROVE \E d \in owned' : d.at = h
    BY <1>2, <2>1, <2>2
  <2>. QED  BY <1>5, <2>3, <2>4, <2>5 DEF Held
<1>8. Walks(G)'
  <2>1. \A v \in User : mutex' # v
    BY PoolAssumption
  <2>. QED  BY <1>5, <2>1 DEF Walks
<1>9. K \in SUBSET Unit
  BY DEF Good
<1>. QED  BY <1>6, <1>7, <1>8, <1>9 DEF IInv, Layout

\* malloc() hands out a whole block ...
LEMMA MallocWholeStep ==
  ASSUME IInv, NEW u \in User, MallocWhole(u)
  PROVE  IInv'
<1>. DEFINE c == Cur(u)
            rest == mem[c].next
<1>1. PICK F \in SUBSET Unit, H \in SUBSET Unit : Layout(F, H)
  BY DEF IInv
<1>2. /\ PoolTypeOK /\ In(u, "malloc") /\ c # Null /\ c = Cur(u) /\ rest = mem[c].next
      /\ mem[c].size = Want(u) /\ Take(u, mem, rest)
  BY DEF IInv, MallocWhole
<1>3. /\ mutex' = Null /\ walk' = [walk EXCEPT ![u] = Answer(u, c)]
      /\ owned' = owned \cup {[at |-> c, bytes |-> walk[u].bytes]}
  BY <1>2 DEF Take, Unlock
<1>4. /\ c \in F /\ mem[c] \in Header /\ rest \in Address
      /\ mem \in [Unit -> Header \cup {Data}] /\ mem[c].size \in Int
      /\ Good(F, H, mem, head) /\ Apart(F, mem, {})
  BY <1>1, <1>2, InList, PoolUnits DEF Layout, Good, Header
<1>. DEFINE G == F \ {c}
            K == H \cup {c}
<1>5. G = F \ {c} /\ K = H \cup {c} /\ G \in SUBSET Unit
  OBVIOUS
<1>. HIDE DEF c, rest, G, K
<1>6. Want(u) <= mem[c].size
  BY <1>2, <1>4
<1>took. Took(F, H, c, Want(u), mem, rest)
  BY <1>1, <1>2, <1>4, <1>6, TakeFacts
<1>7. /\ mem' \in [Unit -> Header \cup {Data}]
      /\ mem'[c] = [next |-> Null, size |-> Want(u)] /\ mem'[c] \in Header
      /\ \A x \in (F \cup H) \ {c} : mem'[x] \in Header /\ mem'[x].size = mem[x].size
      /\ \A x \in F \ {c} : mem[x].next = c => mem'[x].next = rest
      /\ \A x \in F \ {c} : mem[x].next # c => mem'[x].next = mem[x].next
      /\ \A x \in H : mem'[x] = mem[x]
      /\ c = head => head' = rest
      /\ c # head => head' = head
  BY <1>took DEF Took
<1>8. mem'[c].size = mem[c].size
  BY <1>2, <1>7
<1>9. Good(G, K, mem', head') /\ Apart(G, mem', {})
  BY <1>2, <1>4, <1>5, <1>7, <1>8, TakenWhole
<1>. QED  BY <1>1, <1>2, <1>3, <1>4, <1>5, <1>7, <1>9, Handed

\* ... or the first part of one.
LEMMA MallocSplitStep ==
  ASSUME IInv, NEW u \in User, MallocSplit(u)
  PROVE  IInv'
<1>. DEFINE c == Cur(u)
            n == Want(u)
            rest == c + n
            r == [next |-> mem[c].next, size |-> mem[c].size - n]
            m == [mem EXCEPT ![rest] = r]
<1>1. PICK F \in SUBSET Unit, H \in SUBSET Unit : Layout(F, H)
  BY DEF IInv
<1>2. /\ PoolTypeOK /\ In(u, "malloc") /\ c # Null /\ c = Cur(u)
      /\ mem[c].size > n /\ n = Want(u) /\ Take(u, m, rest) /\ rest = c + n
      /\ r = [next |-> mem[c].next, size |-> mem[c].size - n]
      /\ m = [mem EXCEPT ![rest] = r]
  BY DEF IInv, MallocSplit
<1>3. /\ mutex' = Null /\ walk' = [walk EXCEPT ![u] = Answer(u, c)]
      /\ owned' = owned \cup {[at |-> c, bytes |-> walk[u].bytes]}
  BY <1>2 DEF Take, Unlock
<1>4. /\ c \in F /\ mem[c] \in Header
      /\ mem \in [Unit -> Header \cup {Data}] /\ mem[c].size \in Int
      /\ Good(F, H, mem, head) /\ Apart(F, mem, {})
      /\ \A x, y \in F \cup H : x < y => x + mem[x].size <= y
      /\ \A x \in F \cup H : x \in Int
      /\ c + mem[c].size <= PoolSize /\ 0 <= c /\ c \in Int
  BY <1>1, <1>2, InList, PoolUnits DEF Layout, Good, Tiled
<1>. DEFINE G == (F \ {c}) \cup {rest}
            K == H \cup {c}
<1>5. G = (F \ {c}) \cup {rest} /\ K = H \cup {c}
  OBVIOUS
<1>. HIDE DEF c, rest, n, r, m, G, K
<1>6. n \in Int /\ n > 0
  <2>1. walk[u] \in [pc : {"malloc"}, bytes : Sizes \ {0}, cur : Address, prev : Address]
    BY <1>2, Shapes
  <2>2. Ceil(walk[u].bytes) \in Nat
    BY <2>1, Sizing, PoolAssumption
  <2>. QED  BY <2>2, <1>2 DEF Want, Units
<1>7. rest \in Int /\ 0 <= rest /\ rest < PoolSize
  BY <1>2, <1>4, <1>6, Sizing
<1>8. rest \in Unit /\ rest \in Address /\ G \in SUBSET Unit
  <2>1. rest \in Unit
    BY <1>7, Sizing DEF Unit
  <2>. QED  BY <1>5, <2>1 DEF Address
<1>9. rest \notin F \cup H
  <2>1. c \in F \cup H /\ c < rest /\ rest < c + mem[c].size
    BY <1>2, <1>4, <1>6
  <2>2. ASSUME rest \in F \cup H PROVE FALSE
    <3>1. c + mem[c].size <= rest
      BY <1>4, <2>1, <2>2
    <3>. QED  BY <1>4, <1>7, <2>1, <3>1
  <2>. QED  BY <2>2
<1>10. r \in Header /\ r.size = mem[c].size - n /\ r.next = mem[c].next
  <2>1. mem[c].size - n \in 1 .. PoolSize
    BY <1>2, <1>4, <1>6, Sizing
  <2>2. mem[c].next \in Address
    BY <1>4 DEF Header
  <2>. QED  BY <1>2, <2>1, <2>2 DEF Header
<1>11. m \in [Unit -> Header \cup {Data}] /\ \A x \in F \cup H : m[x] = mem[x]
  BY <1>1, <1>2, <1>4, <1>8, <1>9, <1>10
<1>12. Want(u) <= mem[c].size /\ rest >= c + n
  BY <1>2, <1>4, <1>6, <1>7
<1>took. Took(F, H, c, n, m, rest)
  BY <1>1, <1>2, <1>8, <1>11, <1>12, TakeFacts
<1>13. /\ mem' \in [Unit -> Header \cup {Data}]
       /\ mem'[c] = [next |-> Null, size |-> n] /\ mem'[c] \in Header
       /\ \A x \in (F \cup H) \ {c} : mem'[x] \in Header /\ mem'[x].size = mem[x].size
       /\ \A x \in F \ {c} : mem[x].next = c => mem'[x].next = rest
       /\ \A x \in F \ {c} : mem[x].next # c => mem'[x].next = mem[x].next
       /\ \A x \in H : mem'[x] = mem[x]
       /\ c = head => head' = rest
       /\ c # head => head' = head
       /\ \A x \in Unit : x >= c + n /\ x \notin F => mem'[x] = m[x]
  BY <1>took DEF Took
<1>14. mem'[rest] = r
  <2>1. m[rest] = r
    BY <1>2, <1>4, <1>8
  <2>2. mem'[rest] = m[rest]
    BY <1>8, <1>9, <1>12, <1>13
  <2>. QED  BY <2>1, <2>2
<1>15. /\ mem'[c].size = n
       /\ mem'[rest] \in Header /\ mem'[rest].size = mem[c].size - n /\ mem'[rest].next = mem[c].next
       /\ 0 < n /\ n < mem[c].size
  BY <1>2, <1>4, <1>6, <1>10, <1>13, <1>14
<1>16. Good(G, K, mem', head') /\ Apart(G, mem', {})
  <2>1. /\ Good(F, H, mem, head) /\ Apart(F, mem, {}) /\ c \in F /\ n \in Int
        /\ rest = c + n /\ 0 < n /\ n < mem[c].size
        /\ c = head => head' = rest
        /\ c # head => head' = head
    BY <1>2, <1>4, <1>6, <1>13, <1>15
  <2>2. /\ mem' \in [Unit -> Header \cup {Data}]
        /\ mem'[c] \in Header /\ mem'[c].size = n
        /\ mem'[rest] \in Header /\ mem'[rest].size = mem[c].size - n
        /\ mem'[rest].next = mem[c].next
    BY <1>13, <1>15
  <2>3. /\ \A x \in (F \cup H) \ {c} : mem'[x] \in Header /\ mem'[x].size = mem[x].size
        /\ \A x \in F \ {c} : mem[x].next = c => mem'[x].next = rest
        /\ \A x \in F \ {c} : mem[x].next # c => mem'[x].next = mem[x].next
    BY <1>13
  <2>4. SplitOf(F, H, mem, head, c, n, rest, mem', head')
    BY <2>1, <2>2, <2>3 DEF SplitOf
  <2>5. /\ Good((F \ {c}) \cup {rest}, H \cup {c}, mem', head')
        /\ Apart((F \ {c}) \cup {rest}, mem', {})
    BY <2>4, TakenSplit
  <2>. QED  BY <1>5, <2>5, Zenon
<1>. QED  BY <1>1, <1>2, <1>3, <1>4, <1>5, <1>8, <1>13, <1>16, Handed, ZenonT(60)

\* free() in an empty list, ...
LEMMA FreeOnlyStep ==
  ASSUME IInv, NEW u \in User, NEW b \in owned, Free(u, b), head = Null
  PROVE  IInv'
<1>. DEFINE f == b.at
<1>1. PICK F \in SUBSET Unit, H \in SUBSET Unit : Layout(F, H)
  BY DEF IInv
<1>2. /\ PoolTypeOK /\ owned' = owned \ {b} /\ mutex = Null /\ head' = f
      /\ UNCHANGED <<mutex, walk, mem>>
  BY DEF IInv, Free
<1>3. /\ Good(F, H, mem, head) /\ Apart(F, mem, {}) /\ Held(H) /\ F = {} /\ f \in H
      /\ mem[f].next = Null /\ mem[f] \in Header /\ mem \in [Unit -> Header \cup {Data}]
  <2>1. \A a \in F : -1 < a
    BY PoolUnits
  <2>2. F = {}
    BY <1>1, <2>1 DEF Layout, Good, Chain, Follows
  <2>3. f \in H /\ mem[f] = [next |-> Null, size |-> Units(b.bytes)]
    BY <1>1 DEF Layout, Held
  <2>4. Good(F, H, mem, head) /\ Apart(F, mem, {}) /\ Held(H)
    BY <1>1 DEF Layout
  <2>5. mem[f] \in Header /\ mem \in [Unit -> Header \cup {Data}]
    BY <2>3, <2>4 DEF Good, Tiled
  <2>. QED  BY <2>2, <2>3, <2>4, <2>5
<1>. DEFINE G == F \cup {f}
            K == H \ {f}
<1>4. G = F \cup {f} /\ K = H \ {f} /\ G = {f} /\ G \in SUBSET Unit /\ K \in SUBSET Unit
  BY <1>3
<1>. HIDE DEF f, G, K
<1>5. mem = Linked(mem, f, head)
  <2>1. [mem[f] EXCEPT !.next = head] = mem[f]
    BY <1>3 DEF Header
  <2>. QED  BY <1>3, <2>1 DEF Linked
<1>6. Good(G, K, mem, f)
  BY <1>3, <1>4, <1>5, InsertFirst
<1>7. Apart(G, mem, {})
  <2>1. mem[f].size \in Int /\ f \in Int
    BY <1>3, <1>4, PoolUnits
  <2>. QED  BY <1>3, <1>4, <2>1, PoolAssumption DEF Apart
<1>8. Good(G, K, mem', head') /\ Apart(G, mem', {})
  BY <1>2, <1>6, <1>7
<1>9. \A v \in User : ~In(v, "malloc") /\ ~In(v, "free") /\ ~In(v, "malloc")' /\ ~In(v, "free")'
  BY <1>1, <1>2, PoolAssumption DEF Layout, Walks, In
<1>10. Held(K)'
  BY <1>2, <1>3, <1>4, <1>9 DEF Held, f
<1>11. Walks(G)'
  BY <1>2, <1>9, PoolAssumption DEF Walks
<1>12. PoolTypeOK'
  BY <1>2, <1>4 DEF PoolTypeOK, Address
<1>. QED  BY <1>4, <1>8, <1>10, <1>11, <1>12 DEF IInv, Layout

\* ... or else from its head on.
LEMMA FreeStep ==
  ASSUME IInv, NEW u \in User, NEW b \in owned, Free(u, b), head # Null
  PROVE  IInv'
<1>. DEFINE w == [pc |-> "free", block |-> b.at, cur |-> head, prev |-> 0]
<1>1. PICK F \in SUBSET Unit, H \in SUBSET Unit : Layout(F, H)
  BY DEF IInv
<1>2. /\ PoolTypeOK /\ In(u, "idle") /\ owned' = owned \ {b} /\ mutex = Null /\ mutex' = u
      /\ walk' = [walk EXCEPT ![u] = w] /\ UNCHANGED <<head, mem>>
  BY DEF IInv, Free, Lock
<1>3. /\ w \in [pc : {"free"}, block : Unit, cur : Address, prev : Unit]
      /\ w.pc = "free" /\ w.block = b.at /\ w.cur = head /\ w.prev = 0
  <2>1. b.at \in Unit /\ head \in Address /\ 0 \in Unit
    BY <1>2, Sizing DEF PoolTypeOK, Block, Unit
  <2>. QED  BY <2>1
<1>. HIDE DEF w
<1>4. walk'[u] = w /\ \A v \in User \ {u} : walk'[v] = walk[v]
  BY <1>2 DEF PoolTypeOK
<1>5. PoolTypeOK'
  BY <1>2, <1>3 DEF PoolTypeOK, Walk
<1>6. /\ \A v \in User : ~In(v, "malloc") /\ ~In(v, "free")
      /\ \A v \in User \ {u} : ~In(v, "malloc")' /\ ~In(v, "free")'
      /\ In(u, "free")' /\ ~In(u, "malloc")'
  <2>1. \A v \in User : ~In(v, "malloc") /\ ~In(v, "free")
    BY <1>1, <1>2, PoolAssumption DEF Layout, Walks
  <2>. QED  BY <1>3, <1>4, <2>1 DEF In
<1>7. Good(F, H, mem', head') /\ Apart(F, mem', {})
  BY <1>1, <1>2 DEF Layout
<1>8. Held(H)'
  <2>1. /\ \A d \in owned : d.at \in H /\ mem[d.at] = [next |-> Null, size |-> Units(d.bytes)]
        /\ \A d, e \in owned : d.at = e.at => d = e
        /\ \A h \in H : \E d \in owned : d.at = h
    BY <1>1, <1>6 DEF Layout, Held
  <2>2. walk'[u].block = b.at
    BY <1>3, <1>4
  <2>3. \A d \in owned' : d \in owned /\ d # b
    BY <1>2
  <2>4. ASSUME NEW v \in User, In(v, "free")'
        PROVE  walk'[v].block \in H /\ \A d \in owned' : d.at # walk'[v].block
    <3>1. v = u
      BY <1>6, <2>4
    <3>. QED  BY <2>1, <2>2, <2>3, <3>1
  <2>5. ASSUME NEW h \in H
        PROVE  \/ \E d \in owned' : d.at = h
               \/ \E v \in User : In(v, "free")' /\ walk'[v].block = h
    <3>1. PICK d \in owned : d.at = h
      BY <2>1
    <3>2. CASE d = b
      BY <1>6, <2>2, <3>1, <3>2
    <3>3. CASE d # b
      BY <1>2, <3>1, <3>3
    <3>. QED  BY <3>2, <3>3
  <2>. QED  BY <1>2, <2>1, <2>3, <2>4, <2>5 DEF Held
<1>9. Walks(F)'
  <2>1. walk'[u].prev = 0 /\ Cur(u)' = head' /\ head' # Null
    BY <1>2, <1>3, <1>4 DEF Cur
  <2>2. mutex' = u /\ \A v \in User \ {u} : mutex' # v
    BY <1>2
  <2>. QED  BY <1>6, <2>1, <2>2 DEF Walks
<1>. QED  BY <1>5, <1>7, <1>8, <1>9 DEF IInv, Layout

\* free() puts the block in its place and merges it with its neighbours.
LEMMA FreeHereStep ==
  ASSUME IInv, NEW u \in User, FreeHere(u)
  PROVE  IInv'
<1>. DEFINE f == walk[u].block
            prev == walk[u].prev
            next == Cur(u)
            back == Linked(mem, prev, f)
            linked == IF f < head THEN Linked(mem, f, head) ELSE Linked(back, f, next)
            m1 == MergeNext(linked, prev, f)
<1>1. PICK F \in SUBSET Unit, H \in SUBSET Unit : Layout(F, H)
  BY DEF IInv
<1>rest. PICK K \in SUBSET Unit : K = H \ {f}
  OBVIOUS
<1>2. /\ PoolTypeOK /\ In(u, "free") /\ (next = Null \/ f < next)
      /\ mutex' = Null /\ walk' = [walk EXCEPT ![u] = Idle] /\ owned' = owned
      /\ head' = IF f < head THEN f ELSE head
  <2>1. walk[u].block \in Unit /\ walk[u].cur \in Address
    BY Shapes DEF IInv, FreeHere
  <2>2. f \in Int /\ (next # Null => next \in Int)
    BY <2>1, PoolUnits DEF Address, Cur
  <2>3. PoolTypeOK /\ In(u, "free")
    BY DEF IInv, FreeHere
  <2>4. next = Null \/ f < next
    <3>1. ~(next # Null /\ f >= next)
      BY DEF FreeHere, Behind
    <3>. HIDE DEF f, next
    <3>. QED  BY <2>2, <3>1
  <2>5. mutex' = Null /\ walk' = [walk EXCEPT ![u] = Idle] /\ owned' = owned
    BY DEF FreeHere, Unlock
  <2>6. head' = IF f < head THEN f ELSE head
    BY DEF FreeHere
  <2>. QED  BY <2>3, <2>4, <2>5, <2>6
<1>3. /\ mutex = u /\ \A v \in User : v # u => ~In(v, "malloc") /\ ~In(v, "free")
      /\ next = Null \/ next \in F
      /\ Good(F, H, mem, head) /\ Apart(F, mem, {}) /\ Held(H) /\ head # Null
      /\ f \in H /\ \A b \in owned : b.at # f
  BY <1>1, <1>2, InList DEF Layout, Held, Walks
<1>4. /\ F \cap H = {} /\ \A x \in F \cup H : x \in Int /\ mem[x] \in Header
      /\ mem \in [Unit -> Header \cup {Data}]
      /\ head \in F /\ \A x \in F : head <= x
  <2>1. \A x \in F : -1 < x
    BY PoolUnits
  <2>. QED  BY <1>3, <2>1, PoolUnits DEF Good, Chain, Tiled, Follows
<1>5. \/ prev = 0 /\ next = head
      \/ prev \in F /\ next = mem[prev].next /\ prev < f
  BY <1>1, <1>2 DEF Layout, Walks
<1>6. \E G \in SUBSET Unit :
        Good(G, K, mem', head') /\ Apart(G, mem', {}) /\ \A x \in K : mem'[x] = mem[x]
  <2>1. CASE f < head
    <3>1. next = head
      BY <1>3, <1>4, <1>5, <2>1
    <3>2. head' = f /\ mem' = MergeNext(linked, f, head) /\ linked = Linked(mem, f, head)
      BY <1>2, <2>1, <3>1 DEF FreeHere, Linked
    <3>. HIDE DEF f, prev, next, linked
    <3>. QED  BY <1>rest, <1>3, <2>1, <3>2, GivenFirst
  <2>2. CASE ~(f < head)
    <3>1. prev \in F /\ next = mem[prev].next /\ prev < f /\ f > head /\ prev # f
      <4>1. next # head
        BY <1>2, <1>3, <2>2
      <4>2. f \in Int /\ head \in Int /\ f # head
        BY <1>3, <1>4
      <4>. QED  BY <1>3, <1>4, <1>5, <2>2, <4>1, <4>2
    <3>2. Follows(F, prev, next)
      BY <1>3, <3>1 DEF Good, Chain
    <3>3. linked = [mem EXCEPT ![prev].next = f, ![f].next = next]
      BY <2>2 DEF Linked
    <3>4. m1 = IF prev + linked[prev].size = f
               THEN [linked EXCEPT ![prev] = [next |-> linked[f].next, size |-> @.size + linked[f].size]]
               ELSE linked
      BY DEF MergeNext
    <3>5. head' = head /\ mem' = IF f = prev + linked[prev].size THEN MergeNext(m1, prev, next)
                                 ELSE MergeNext(linked, f, next)
      <4>1. mem' = IF f = prev + linked[prev].size
                   THEN MergeNext([linked EXCEPT ![prev] = [next |-> linked[f].next,
                                                           size |-> @.size + linked[f].size]],
                                  prev, next)
                   ELSE MergeNext(linked, f, next)
        <5>. DEFINE L == [mem EXCEPT ![prev].next = f, ![f].next = next]
        <5>. DEFINE I == IF f < head THEN [mem EXCEPT ![f].next = head] ELSE L
        <5>1. mem' = IF ~(f < head) /\ f > head /\ f = prev + I[prev].size
                     THEN MergeNext([I EXCEPT ![prev] = [next |-> I[f].next,
                                                        size |-> @.size + I[f].size]],
                                    prev, next)
                     ELSE MergeNext(I, f, next)
          BY DEF FreeHere
        <5>2. I = L
          BY <2>2
        <5>3. L = linked
          BY <3>3
        <5>. HIDE DEF L, I, linked, f, prev, next
        <5>. QED  BY <2>2, <3>1, <5>1, <5>2, <5>3
      <4>. HIDE DEF linked, m1
      <4>2. CASE f = prev + linked[prev].size
        BY <1>2, <2>2, <3>4, <4>1, <4>2
      <4>3. CASE f # prev + linked[prev].size
        BY <1>2, <2>2, <4>1, <4>3
      <4>. QED  BY <4>2, <4>3
    <3>6. back = Linked(mem, prev, f) /\ linked = Linked(back, f, next) /\ m1 = MergeNext(linked, prev, f)
      BY <2>2
    <3>. HIDE DEF f, prev, next, back, linked, m1
    <3>. QED  BY <1>rest, <1>2, <1>3, <3>1, <3>2, <3>5, <3>6, GivenBehind
  <2>. QED  BY <2>1, <2>2
<1>7. PICK G \in SUBSET Unit :
        Good(G, K, mem', head') /\ Apart(G, mem', {}) /\ \A x \in K : mem'[x] = mem[x]
  BY <1>6
<1>8. K = H \ {f} /\ f = walk[u].block
  BY <1>rest
<1>. HIDE DEF f, prev, next, back, linked, m1
<1>9. walk'[u] = Idle /\ \A v \in User \ {u} : walk'[v] = walk[v]
  BY <1>2 DEF PoolTypeOK
<1>10. Idle \in [pc : {"idle"}] /\ Idle.pc = "idle"
  BY DEF Idle
<1>11. \A v \in User : ~In(v, "malloc")' /\ ~In(v, "free")'
  BY <1>3, <1>9, <1>10 DEF In
<1>12. Held(K)'
  <2>1. /\ \A d \in owned : d.at \in H /\ mem[d.at] = [next |-> Null, size |-> Units(d.bytes)]
        /\ \A d, e \in owned : d.at = e.at => d = e
        /\ \A h \in H : (\E d \in owned : d.at = h) \/ h = f
    BY <1>3, <1>8 DEF Held
  <2>2. \A d \in owned : d.at \in K /\ mem'[d.at] = [next |-> Null, size |-> Units(d.bytes)]
    BY <1>3, <1>7, <1>8, <2>1
  <2>3. \A h \in K : \E d \in owned : d.at = h
    BY <1>8, <2>1
  <2>4. owned' = owned
    BY <1>2
  <2>5. \A d, e \in owned' : d.at = e.at => d = e
    BY <2>1, <2>4
  <2>6. \A d \in owned' : d.at \in K /\ mem'[d.at] = [next |-> Null, size |-> Units(d.bytes)]
    BY <2>2, <2>4
  <2>7. \A h \in K : \E d \in owned' : d.at = h
    BY <2>3, <2>4
  <2>. QED  BY <1>11, <2>5, <2>6, <2>7 DEF Held
<1>13. Walks(G)'
  BY <1>2, <1>11, PoolAssumption DEF Walks
<1>14. PoolTypeOK'
  <2>1. mem' \in [Unit -> Header \cup {Data}] /\ head' \in Address
    BY <1>7 DEF Good, Chain, Follows, Address
  <2>. QED  BY <1>2, <1>10, <2>1 DEF PoolTypeOK, Walk
<1>15. Layout(G, K)'
  BY <1>7, <1>12, <1>13 DEF Layout
<1>. QED  BY <1>14, <1>15 DEF IInv
-----------------------------------------------------------------------------
\* The invariant holds at first: the pool is one free block.
LEMMA InitIInv == PoolInit => IInv
<1>. SUFFICES ASSUME PoolInit PROVE IInv
  OBVIOUS
<1>. DEFINE F == {0}
            whole == [next |-> Null, size |-> PoolSize]
<1>1. 0 \in Unit /\ PoolSize \in 1 .. PoolSize /\ \A x \in Unit : x \in Int /\ 0 <= x /\ x < PoolSize
  BY Sizing DEF Unit
<1>2. whole \in Header /\ whole.next = Null /\ whole.size = PoolSize
  BY <1>1 DEF Header, Address
<1>3. /\ mem = [x \in Unit |-> IF x = 0 THEN whole ELSE Data]
      /\ head = 0 /\ mutex = Null /\ walk = [u \in User |-> Idle] /\ owned = {}
  BY DEF PoolInit
<1>. HIDE DEF whole
<1>4. mem \in [Unit -> Header \cup {Data}] /\ mem[0] = whole
  BY <1>1, <1>2, <1>3
<1>5. PoolTypeOK
  BY <1>1, <1>3, <1>4 DEF PoolTypeOK, Walk, Idle, Address
<1>6. Tiled(F \cup {}, mem)
  <2>1. \A a \in F : mem[a] \in Header /\ a + mem[a].size <= PoolSize
    BY <1>1, <1>2, <1>4
  <2>2. \A x \in Unit : 0 <= x /\ x < 0 + mem[0].size
    BY <1>1, <1>2, <1>4
  <2>. QED  BY <2>1, <2>2 DEF Tiled
<1>7. Chain(F, mem, head)
  BY <1>2, <1>3, <1>4, PoolAssumption DEF Chain, Follows
<1>8. Good(F, {}, mem, head)
  BY <1>1, <1>4, <1>6, <1>7 DEF Good
<1>9. Apart(F, mem, {})
  BY <1>1, <1>2, <1>4, PoolAssumption DEF Apart
<1>10. \A u \in User : ~In(u, "malloc") /\ ~In(u, "free") /\ mutex # u
  BY <1>3, PoolAssumption DEF In, Idle
<1>11. Held({}) /\ Walks(F)
  BY <1>3, <1>10 DEF Held, Walks
<1>12. F \in SUBSET Unit /\ {} \in SUBSET Unit
  BY <1>1
<1>. QED  BY <1>5, <1>8, <1>9, <1>11, <1>12 DEF IInv, Layout

\* Every step keeps the invariant.
LEMMA NextIInv == IInv /\ [PoolNext]_poolVars => IInv'
<1>. SUFFICES ASSUME IInv, [PoolNext]_poolVars PROVE IInv'
  OBVIOUS
<1>1. CASE UNCHANGED poolVars
  <2>1. PICK F \in SUBSET Unit, H \in SUBSET Unit : Layout(F, H)
    BY DEF IInv
  <2>2. UNCHANGED <<mem, head, mutex, walk, owned>>
    BY <1>1 DEF poolVars
  <2>3. Layout(F, H)'
    BY <2>1, <2>2 DEF Layout, Held, Walks, In, Cur, Want
  <2>4. PoolTypeOK'
    BY <2>2 DEF IInv, PoolTypeOK
  <2>. QED  BY <2>3, <2>4 DEF IInv
<1>2. ASSUME NEW u \in User, NEW bytes \in Sizes, Malloc(u, bytes) PROVE IInv'
  BY <1>2, MallocStep
<1>3. ASSUME NEW u \in User, NEW b \in owned, Free(u, b) PROVE IInv'
  BY <1>3, FreeOnlyStep, FreeStep
<1>4. ASSUME NEW u \in User, Walking(u) PROVE IInv'
  BY <1>4, MallocNextStep, MallocWholeStep, MallocSplitStep, MallocFailsStep, FreeNextStep,
     FreeHereStep DEF Walking
<1>5. ASSUME NEW u \in User, Returned(u) PROVE IInv'
  BY <1>5, ReturnedStep
<1>. QED  BY <1>1, <1>2, <1>3, <1>4, <1>5 DEF PoolNext

\* The invariant says what the theorems say: tiles do not overlap.
LEMMA IInvImplies == IInv => PoolTypeOK /\ BlocksDisjoint
<1>. SUFFICES ASSUME IInv PROVE BlocksDisjoint
  BY DEF IInv
<1>1. PICK F \in SUBSET Unit, H \in SUBSET Unit : Layout(F, H)
  BY DEF IInv
<1>2. ASSUME NEW b \in owned
      PROVE  /\ b.at \in H /\ b.at \in Int /\ 0 <= b.at /\ Ceil(b.bytes) \in Nat
             /\ mem[b.at].size = Ceil(b.bytes) + 1 /\ b.at + mem[b.at].size <= PoolSize
             /\ Extent(b) = b.at .. b.at + Ceil(b.bytes)
  <2>1. b.at \in H /\ mem[b.at] = [next |-> Null, size |-> Units(b.bytes)]
    BY <1>1 DEF Layout, Held
  <2>2. b.bytes \in Nat
    BY PoolAssumption DEF IInv, PoolTypeOK, Block
  <2>3. b.at + mem[b.at].size <= PoolSize
    BY <1>1, <2>1 DEF Layout, Good, Tiled
  <2>. QED  BY <2>1, <2>2, <2>3, Sizing, PoolUnits DEF Units, Extent
<1>3. ASSUME NEW b \in owned PROVE Extent(b) \subseteq Unit
  <2>1. /\ b.at \in Int /\ 0 <= b.at /\ Ceil(b.bytes) \in Nat
        /\ b.at + (Ceil(b.bytes) + 1) <= PoolSize /\ PoolSize \in Nat
        /\ Extent(b) = b.at .. b.at + Ceil(b.bytes)
    BY <1>2, Sizing
  <2>. QED  BY <2>1 DEF Unit
<1>4. ASSUME NEW b \in owned, NEW c \in owned, b.at < c.at PROVE Extent(b) \cap Extent(c) = {}
  <2>1. b.at + mem[b.at].size <= c.at
    BY <1>1, <1>2, <1>4 DEF Layout, Good, Tiled
  <2>. QED  BY <1>2, <2>1
<1>5. ASSUME NEW b \in owned, NEW c \in owned, b # c PROVE Extent(b) \cap Extent(c) = {}
  <2>1. b.at # c.at
    BY <1>1, <1>5 DEF Layout, Held
  <2>2. b.at < c.at \/ c.at < b.at
    BY <1>2, <2>1
  <2>. QED  BY <1>4, <2>2
<1>. QED  BY <1>3, <1>5 DEF BlocksDisjoint

\* The buffer holds a header or data in each unit, and what a thread has read of it
\* is a header's address, for a pool of any size and any number of threads
\* (Variable.h:51-160).
THEOREM PoolTypes == PoolSpec => []PoolTypeOK
<1>. QED  BY InitIInv, NextIInv, IInvImplies, PTL DEF PoolSpec

\* Blocks that malloc() handed out never share a unit (Variable.h:51-160).
THEOREM PoolSafe == PoolSpec => []BlocksDisjoint
<1>. QED  BY InitIInv, NextIInv, IInvImplies, PTL DEF PoolSpec

\* While no block is being freed, a unit is in a free block or in one that is owned.
LEMMA FreeOrOwned ==
  ASSUME PoolTypeOK, NEW F \in SUBSET Unit, NEW H \in SUBSET Unit, Layout(F, H),
         \A u \in User : ~In(u, "free"), NEW x \in Unit
  PROVE  \/ \E a \in F : a <= x /\ x < a + mem[a].size
         \/ \E b \in owned : x \in Extent(b)
<1>1. PICK a \in F \cup H : a <= x /\ x < a + mem[a].size
  BY DEF Layout, Good, Tiled
<1>2. CASE a \in F
  BY <1>1, <1>2
<1>3. CASE a \in H
  <2>1. PICK b \in owned : b.at = a
    BY <1>3 DEF Layout, Held
  <2>2. b.bytes \in Nat /\ a \in Int
    BY <2>1, PoolAssumption, PoolUnits DEF PoolTypeOK, Block
  <2>3. mem[a] = [next |-> Null, size |-> Units(b.bytes)]
    BY <2>1 DEF Layout, Held
  <2>4. x \in a .. a + Ceil(b.bytes)
    BY <1>1, <2>2, <2>3, Sizing, PoolUnits DEF Units
  <2>. QED  BY <2>1, <2>4 DEF Extent
<1>. QED  BY <1>1, <1>2, <1>3

\* A free block does not end where another begins.
LEMMA NoneTouch ==
  ASSUME NEW F \in SUBSET Unit, NEW H \in SUBSET Unit, Layout(F, H), NEW a \in F
  PROVE  a + mem[a].size \notin F
<1>. SUFFICES ASSUME a + mem[a].size \in F PROVE FALSE
  OBVIOUS
<1>1. Chain(F, mem, head) /\ Tiled(F \cup H, mem)
  BY DEF Layout, Good
<1>2. mem[a].size \in Int /\ mem[a].size >= 1 /\ mem[a].next \in Unit \cup {Null}
  BY <1>1, PoolUnits DEF Tiled
<1>3. a \in Int /\ a < a + mem[a].size
  BY <1>2, PoolUnits
<1>4. mem[a].next # Null /\ mem[a].next \in F /\ a < mem[a].next
      /\ mem[a].next <= a + mem[a].size
  BY <1>1, <1>3 DEF Chain, Follows
<1>5. a + mem[a].size <= mem[a].next /\ mem[a].next \in Int
  BY <1>1, <1>4, PoolUnits DEF Tiled
<1>6. mem[a].next = a + mem[a].size
  BY <1>2, <1>3, <1>4, <1>5
<1>. QED  BY <1>6 DEF Layout, Apart

\* When no thread is at work, what is not free is owned.
LEMMA IInvLosesNothing == IInv => NothingLost
<1>. SUFFICES ASSUME IInv, mutex = Null PROVE NothingLost
  BY DEF NothingLost
<1>1. PICK F \in SUBSET Unit, H \in SUBSET Unit : Layout(F, H)
  BY DEF IInv
<1>2. \A u \in User : ~In(u, "free")
  BY <1>1, PoolAssumption DEF Layout, Walks
<1>3. Chain(F, mem, head) /\ PoolTypeOK
  BY <1>1 DEF Layout, Good, IInv
<1>4. \A x \in Unit : \/ \E a \in F : a <= x /\ x < a + mem[a].size
                     \/ \E b \in owned : x \in Extent(b)
  BY <1>1, <1>2, <1>3, FreeOrOwned
<1>5. \A a \in F : a + mem[a].size \notin F
  BY <1>1, NoneTouch
<1>. QED  BY <1>3, <1>4, <1>5 DEF NothingLost

\* While no thread is in malloc() or free(), every unit is in the free list or in a block
\* that was handed out, and free neighbours are one block (Variable.h:129-160).
THEOREM NoUnitLost == PoolSpec => []NothingLost
<1>. QED  BY InitIInv, NextIInv, IInvLosesNothing, PTL DEF PoolSpec
-----------------------------------------------------------------------------
\* A block of so many bytes is so many units, wherever it is.
LEMMA ExtentSize ==
  ASSUME NEW n \in Sizes \ {0}
  PROVE  /\ Units(n) \in Nat \ {0}
         /\ \A a : Extent([at |-> a, bytes |-> n]) = a .. a + Ceil(n)
         /\ Cardinality(Extent([at |-> 0, bytes |-> n])) = Units(n)
<1>1. Ceil(n) \in Nat
  BY Sizing, PoolAssumption
<1>2. \A a : Extent([at |-> a, bytes |-> n]) = a .. a + Ceil(n)
  BY DEF Extent
<1>3. Cardinality(0 .. 0 + Ceil(n)) = Ceil(n) + 1
  BY <1>1, FS_Interval
<1>. QED  BY <1>1, <1>2, <1>3 DEF Units

\* An owned block is its units: it ends before the buffer, and no other has these.
LEMMA OwnedExtent ==
  ASSUME PoolTypeOK, NEW F \in SUBSET Unit, NEW H \in SUBSET Unit, Layout(F, H), NEW b \in owned
  PROVE  /\ b.at \in H /\ b.at \in Int /\ mem[b.at].size \in Nat \ {0}
         /\ Extent(b) = b.at .. b.at + mem[b.at].size - 1
<1>1. b.at \in H /\ mem[b.at] = [next |-> Null, size |-> Units(b.bytes)]
  BY DEF Layout, Held
<1>2. b.bytes \in Nat /\ b.at \in Int
  BY <1>1, PoolAssumption, PoolUnits DEF PoolTypeOK, Block
<1>3. Ceil(b.bytes) \in Nat /\ mem[b.at].size = Ceil(b.bytes) + 1
  BY <1>1, <1>2, Sizing DEF Units
<1>4. b.at + mem[b.at].size - 1 = b.at + Ceil(b.bytes)
  BY <1>2, <1>3
<1>. QED  BY <1>1, <1>2, <1>3, <1>4 DEF Extent

\* A free block that is large enough is a free run.
LEMMA FitsHere ==
  ASSUME PoolTypeOK, NEW F \in SUBSET Unit, NEW H \in SUBSET Unit, Layout(F, H),
         NEW c \in F, NEW n \in Nat \ {0}, n <= mem[c].size
  PROVE  A!Fits(c, n)
<1>1. /\ \A a \in F \cup H : a \in Int /\ mem[a].size \in Int
      /\ \A a, b \in F \cup H : a < b => a + mem[a].size <= b
      /\ c + mem[c].size <= PoolSize /\ F \cap H = {}
  BY PoolUnits DEF Layout, Good, Tiled
<1>2. ASSUME NEW b \in owned PROVE (c .. c + n - 1) \cap Extent(b) = {}
  <2>1. /\ b.at \in H /\ Extent(b) = b.at .. b.at + mem[b.at].size - 1
    BY OwnedExtent
  <2>2. b.at < c \/ c < b.at
    BY <1>1, <2>1
  <2>3. b.at + mem[b.at].size <= c \/ c + mem[c].size <= b.at
    BY <1>1, <2>1, <2>2
  <2>. QED  BY <1>1, <2>1, <2>3
<1>3. c + n <= PoolSize
  BY <1>1, Sizing
<1>. QED  BY <1>2, <1>3 DEF A!Fits, A!Taken

\* What malloc() has passed by is too small, and so is what is before the cursor.
LEMMA NothingFits ==
  ASSUME PoolTypeOK, NEW F \in SUBSET Unit, NEW H \in SUBSET Unit, Layout(F, H),
         NEW u \in User, In(u, "malloc"), NEW a \in Unit, Cur(u) = Null \/ a < Cur(u)
  PROVE  ~A!Fits(a, Want(u))
<1>. DEFINE n == Want(u)
<1>1. n \in Nat \ {0}
  BY Shapes, ExtentSize DEF Want
<1>. HIDE DEF n
<1>. SUFFICES ASSUME A!Fits(a, n) PROVE FALSE
  BY DEF n
<1>2. /\ a + n <= PoolSize /\ a \in Int /\ 0 <= a
      /\ \A b \in owned : \A x \in a .. a + n - 1 : x \notin Extent(b)
  BY PoolUnits DEF A!Fits, A!Taken
<1>3. \A v \in User : ~In(v, "free")
  <2>1. ~In(u, "free")
    BY DEF In
  <2>. QED  BY <2>1, InList
<1>4. ASSUME NEW x \in a .. a + n - 1 PROVE \E f \in F : f <= x /\ x < f + mem[f].size
  <2>1. x \in Unit
    BY <1>1, <1>2, Sizing DEF Unit
  <2>. QED  BY <1>2, <1>3, <2>1, FreeOrOwned
<1>5. /\ \A f \in F : f \in Int /\ mem[f].size \in Int
      /\ \A f, g \in F : f < g => f + mem[f].size <= g
  BY PoolUnits DEF Layout, Good, Tiled
<1>6. PICK f \in F : f <= a /\ a < f + mem[f].size
  BY <1>1, <1>2, <1>4
<1>7. mem[f].size < n
  <2>1. Cur(u) = Null \/ (Cur(u) \in Int /\ f < Cur(u))
    <3>1. Cur(u) = Null \/ Cur(u) \in F
      BY InList
    <3>2. f \in Int /\ (Cur(u) # Null => Cur(u) \in Int)
      BY <1>5, <3>1
    <3>. QED  BY <1>2, <1>6, <3>2
  <2>. QED  BY <2>1 DEF Layout, Walks, n
<1>8. PICK y : y = f + mem[f].size
  OBVIOUS
<1>9. y \in a .. a + n - 1
  BY <1>1, <1>2, <1>5, <1>6, <1>7, <1>8
<1>10. PICK g \in F : g <= y /\ y < g + mem[g].size
  BY <1>4, <1>9
<1>11. g = y
  <2>1. /\ f \in Int /\ g \in Int /\ mem[f].size \in Int /\ mem[g].size \in Int
        /\ g < f => g + mem[g].size <= f
        /\ f < g => f + mem[f].size <= g
    BY <1>5
  <2>2. g # f
    BY <2>1, <1>8, <1>10
  <2>3. ~(g < f)
    BY <1>2, <2>1, <1>6, <1>8, <1>10
  <2>4. f + mem[f].size <= g
    BY <2>1, <2>2, <2>3
  <2>. QED  BY <2>1, <1>8, <1>10, <2>4
<1>. QED  BY <1>8, <1>11, NoneTouch
-----------------------------------------------------------------------------
\* The state of Allocator.
Blocks == {Extent(b) : b \in owned}
AnswerTo(u) ==
  IF In(u, "done")
  THEN [n |-> Cardinality(Extent([walk[u] EXCEPT !.at = 0])),
        got |-> IF walk[u].at = Null THEN {} ELSE Extent(walk[u])]
  ELSE Null
Answers == [u \in User |-> AnswerTo(u)]

\* What a thread has asked for and got, seen from the outside.
LEMMA AnswerOf ==
  ASSUME PoolTypeOK, NEW u \in User, In(u, "malloc"), NEW at \in Address,
         NEW b, b = [at |-> at, bytes |-> walk[u].bytes],
         walk' = [walk EXCEPT ![u] = Answer(u, at)]
  PROVE  /\ Answers[u] = Null
         /\ Answers' = [Answers EXCEPT ![u] = [n |-> Want(u),
                                               got |-> IF at = Null THEN {} ELSE Extent(b)]]
<1>. DEFINE w == Answer(u, at)
<1>1. w = [pc |-> "done", at |-> at, bytes |-> walk[u].bytes] /\ walk[u].bytes \in Sizes \ {0}
  BY Shapes DEF Answer
<1>2. walk'[u] = w /\ \A v \in User \ {u} : walk'[v] = walk[v]
  BY DEF PoolTypeOK
<1>3. AnswerTo(u) = Null
  BY DEF AnswerTo, In
<1>4. Extent([w EXCEPT !.at = 0]) = Extent([at |-> 0, bytes |-> walk[u].bytes]) /\ Extent(w) = Extent(b)
  BY <1>1 DEF Extent
<1>5. Cardinality(Extent([w EXCEPT !.at = 0])) = Want(u)
  BY <1>1, <1>4, ExtentSize DEF Want
<1>6. AnswerTo(u)' = [n |-> Want(u), got |-> IF at = Null THEN {} ELSE Extent(b)]
  <2>1. w.pc = "done" /\ w.at = at
    BY <1>1
  <2>. HIDE DEF w
  <2>2. AnswerTo(u)' = [n |-> Cardinality(Extent([w EXCEPT !.at = 0])),
                        got |-> IF w.at = Null THEN {} ELSE Extent(w)]
    BY <1>2, <2>1 DEF AnswerTo, In
  <2>. QED  BY <1>4, <1>5, <2>1, <2>2
<1>7. \A v \in User \ {u} : AnswerTo(v)' = AnswerTo(v)
  BY <1>2 DEF AnswerTo, In
<1>. QED  BY <1>3, <1>6, <1>7 DEF Answers

\* A step of a thread that gives no answer.
LEMMA NoAnswerYet ==
  ASSUME PoolTypeOK, NEW u \in User, NEW w, walk' = [walk EXCEPT ![u] = w],
         ~In(u, "done"), w.pc # "done"
  PROVE  Answers' = Answers
<1>1. walk'[u] = w /\ \A v \in User \ {u} : walk'[v] = walk[v]
  BY DEF PoolTypeOK
<1>2. AnswerTo(u) = Null /\ AnswerTo(u)' = Null
  BY <1>1 DEF AnswerTo, In
<1>3. \A v \in User \ {u} : AnswerTo(v)' = AnswerTo(v)
  BY <1>1 DEF AnswerTo, In
<1>. QED  BY <1>2, <1>3 DEF Answers

\* malloc() hands out the block at its cursor.
LEMMA TakeAllocates ==
  ASSUME IInv, NEW u \in User, MallocWhole(u) \/ MallocSplit(u)
  PROVE  A!Alloc(u, Want(u)) /\ Want(u) \in {Cardinality(Extent([at |-> 0, bytes |-> n])) : n \in Sizes \ {0}}
<1>. DEFINE c == Cur(u)
            n == Want(u)
            b == [at |-> c, bytes |-> walk[u].bytes]
<1>1. PICK F \in SUBSET Unit, H \in SUBSET Unit : Layout(F, H)
  BY DEF IInv
<1>2. /\ In(u, "malloc") /\ c # Null /\ n <= mem[c].size
      /\ owned' = owned \cup {b}
      /\ walk' = [walk EXCEPT ![u] = Answer(u, c)]
  <2>1. CASE MallocWhole(u)
    <3>1. mem[c].size = n /\ In(u, "malloc") /\ c # Null /\ Take(u, mem, mem[c].next)
      BY <2>1 DEF MallocWhole
    <3>2. c \in F /\ mem[c] \in Header
      BY <1>1, <3>1, InList DEF IInv
    <3>. QED  BY <3>1, <3>2, PoolUnits DEF Take, Unlock
  <2>2. CASE MallocSplit(u)
    <3>1. mem[c].size > n /\ In(u, "malloc") /\ c # Null
      BY <2>2 DEF MallocSplit
    <3>2. mem[c] \in Header /\ n \in Nat
      BY <1>1, <3>1, InList, Shapes, ExtentSize DEF IInv, Want
    <3>. QED  BY <2>2, <3>1, <3>2, PoolUnits DEF MallocSplit, Take, Unlock
  <2>. QED  BY <2>1, <2>2
<1>3. walk[u].bytes \in Sizes \ {0} /\ PoolTypeOK
  BY <1>2, Shapes DEF IInv
<1>4. n \in Nat \ {0} /\ Cardinality(Extent([at |-> 0, bytes |-> walk[u].bytes])) = n
  BY <1>3, ExtentSize DEF Want
<1>5. c \in F /\ c \in Unit /\ c \in Address /\ Unit = 0 .. PoolSize - 1
  BY <1>1, <1>2, <1>3, InList DEF Unit, Address
<1>6. A!Fits(c, n)
  BY <1>1, <1>2, <1>3, <1>4, <1>5, FitsHere
<1>7. \A lower \in 0 .. c - 1 : ~A!Fits(lower, n)
  <2>. SUFFICES ASSUME NEW lower \in 0 .. c - 1 PROVE ~A!Fits(lower, n)
    OBVIOUS
  <2>1. lower \in Unit /\ lower < c
    BY <1>5, Sizing
  <2>. QED  BY <1>1, <1>2, <1>3, <2>1, NothingFits
<1>8. Extent(b) = c .. c + n - 1
  <2>1. Extent(b) = c .. c + Ceil(walk[u].bytes) /\ n = Ceil(walk[u].bytes) + 1 /\ c \in Int
    BY <1>5, PoolUnits DEF Extent, Want, Units
  <2>2. Ceil(walk[u].bytes) \in Nat
    BY <1>3, Sizing, PoolAssumption
  <2>. QED  BY <2>1, <2>2
<1>9. Blocks' = Blocks \cup {c .. c + n - 1}
  BY <1>2, <1>8 DEF Blocks
<1>10. /\ Answers[u] = Null
       /\ Answers' = [Answers EXCEPT ![u] = [n |-> n, got |-> c .. c + n - 1]]
  BY <1>2, <1>3, <1>5, <1>8, AnswerOf
<1>. HIDE DEF c, n, b
<1>11. A!Alloc(u, n)
  BY <1>5, <1>6, <1>7, <1>9, <1>10 DEF A!Alloc, A!Reply, Blocks, Answers, AnswerTo
<1>. QED  BY <1>3, <1>4, <1>11 DEF n

\* malloc() refuses when it has seen the whole list.
LEMMA FailureRefuses ==
  ASSUME IInv, NEW u \in User, MallocFails(u)
  PROVE  A!Refuse(u, Want(u)) /\ Want(u) \in {Cardinality(Extent([at |-> 0, bytes |-> n])) : n \in Sizes \ {0}}
<1>1. PICK F \in SUBSET Unit, H \in SUBSET Unit : Layout(F, H)
  BY DEF IInv
<1>2. /\ In(u, "malloc") /\ Cur(u) = Null /\ owned' = owned /\ Null \in Address
      /\ walk' = [walk EXCEPT ![u] = Answer(u, Null)]
  BY DEF MallocFails, Unlock, Address
<1>3. walk[u].bytes \in Sizes \ {0} /\ PoolTypeOK
  BY <1>2, Shapes DEF IInv
<1>4. Cardinality(Extent([at |-> 0, bytes |-> walk[u].bytes])) = Want(u)
  BY <1>3, ExtentSize DEF Want
<1>5. \A a \in 0 .. PoolSize - 1 : ~A!Fits(a, Want(u))
  BY <1>1, <1>2, <1>3, NothingFits DEF Unit
<1>6. Answers[u] = Null /\ Answers' = [Answers EXCEPT ![u] = [n |-> Want(u), got |-> {}]]
  BY <1>2, <1>3, AnswerOf
<1>7. Blocks' = Blocks
  BY <1>2 DEF Blocks
<1>8. A!Refuse(u, Want(u))
  BY <1>5, <1>6, <1>7 DEF A!Refuse, A!Reply, Blocks, Answers, AnswerTo
<1>. QED  BY <1>3, <1>4, <1>8

\* free() gives back the units of one block.
LEMMA FreeGivesBack ==
  ASSUME IInv, NEW u \in User, NEW b \in owned, Free(u, b)
  PROVE  A!Free
<1>1. PoolTypeOK /\ BlocksDisjoint /\ In(u, "idle") /\ owned' = owned \ {b}
  BY IInvImplies DEF Free
<1>2. \A d \in owned : d.at \in Extent(d)
  <2>1. PICK F \in SUBSET Unit, H \in SUBSET Unit : Layout(F, H)
    BY DEF IInv
  <2>. SUFFICES ASSUME NEW d \in owned PROVE d.at \in Extent(d)
    OBVIOUS
  <2>2. d.at \in Int /\ mem[d.at].size \in Nat \ {0} /\ Extent(d) = d.at .. d.at + mem[d.at].size - 1
    BY <1>1, <2>1, OwnedExtent
  <2>. QED  BY <2>2
<1>3. \A d \in owned : d # b => Extent(d) # Extent(b)
  BY <1>1, <1>2 DEF BlocksDisjoint
<1>4. Blocks' = Blocks \ {Extent(b)} /\ Extent(b) \in Blocks
  BY <1>1, <1>3 DEF Blocks
<1>5. Answers' = Answers
  <2>1. CASE walk' = walk
    BY <2>1 DEF Answers, AnswerTo, In
  <2>2. CASE walk' # walk
    <3>1. PICK w : w = [pc |-> "free", block |-> b.at, cur |-> head, prev |-> 0]
      OBVIOUS
    <3>2. walk' = [walk EXCEPT ![u] = w] /\ w.pc = "free" /\ ~In(u, "done")
      BY <1>1, <2>2, <3>1 DEF Free, In
    <3>. QED  BY <1>1, <3>2, NoAnswerYet
  <2>. QED  BY <2>1, <2>2
<1>. QED  BY <1>4, <1>5 DEF A!Free, Blocks, Answers, AnswerTo

\* The caller takes its answer.
LEMMA ReturnedSees ==
  ASSUME IInv, NEW u \in User, Returned(u)
  PROVE  A!See(u)
<1>1. PoolTypeOK /\ walk' = [walk EXCEPT ![u] = Idle] /\ owned' = owned
  BY DEF Returned, IInv
<1>2. walk'[u] = Idle /\ \A v \in User \ {u} : walk'[v] = walk[v]
  BY <1>1 DEF PoolTypeOK
<1>3. AnswerTo(u)' = Null /\ \A v \in User \ {u} : AnswerTo(v)' = AnswerTo(v)
  BY <1>2 DEF AnswerTo, In, Idle
<1>4. Answers' = [Answers EXCEPT ![u] = Null] /\ Blocks' = Blocks
  BY <1>1, <1>3 DEF Answers, Blocks
<1>. QED  BY <1>4 DEF A!See, Blocks, Answers, AnswerTo

\* A step of the walk is not seen.
LEMMA WalkIsHidden ==
  ASSUME IInv, NEW u \in User,
         (\E bytes \in Sizes : Malloc(u, bytes)) \/ MallocNext(u) \/ FreeNext(u) \/ FreeHere(u)
  PROVE  Blocks' = Blocks /\ Answers' = Answers
<1>1. owned' = owned /\ ~In(u, "done") /\ PoolTypeOK
  BY DEF Malloc, MallocNext, FreeNext, FreeHere, In, Advance, IInv
<1>2. PICK w : walk' = [walk EXCEPT ![u] = w] /\ w.pc # "done"
  <2>1. ASSUME NEW bytes \in Sizes, Malloc(u, bytes) PROVE \E w : walk' = [walk EXCEPT ![u] = w] /\ w.pc # "done"
    <3>1. PICK w : w = [pc |-> "malloc", bytes |-> bytes, cur |-> head, prev |-> Null]
      OBVIOUS
    <3>2. walk' = [walk EXCEPT ![u] = w] /\ w.pc = "malloc"
      BY <2>1, <3>1 DEF Malloc
    <3>. QED  BY <3>2
  <2>2. CASE MallocNext(u) \/ FreeNext(u)
    <3>. DEFINE w == [walk[u] EXCEPT !.prev = Cur(u), !.cur = mem[Cur(u)].next]
    <3>1. walk' = [walk EXCEPT ![u] = w]
      BY <2>2 DEF MallocNext, FreeNext, Advance
    <3>2. w.pc # "done"
      BY <1>1, <2>2, Shapes DEF MallocNext, FreeNext, In
    <3>. QED  BY <3>1, <3>2
  <2>3. CASE FreeHere(u)
    <3>1. walk' = [walk EXCEPT ![u] = Idle] /\ Idle.pc # "done"
      BY <2>3 DEF FreeHere, Unlock, Idle
    <3>. QED  BY <3>1
  <2>. QED  BY <2>1, <2>2, <2>3
<1>. QED  BY <1>1, <1>2, NoAnswerYet DEF Blocks

\* Every step of the pool is one of the allocator, or is not seen.
LEMMA StepAllocates ==
  IInv /\ [PoolNext]_poolVars =>
    [A!Next]_<<{Extent(b) : b \in owned},
               [u \in User |->
                  IF In(u, "done")
                  THEN [n |-> Cardinality(Extent([walk[u] EXCEPT !.at = 0])),
                        got |-> IF walk[u].at = Null THEN {} ELSE Extent(walk[u])]
                  ELSE Null]>>
<1>. SUFFICES ASSUME IInv, [PoolNext]_poolVars, ~A!Next PROVE Blocks' = Blocks /\ Answers' = Answers
  BY DEF Blocks, Answers, AnswerTo
<1>1. CASE UNCHANGED poolVars
  BY <1>1 DEF poolVars, Blocks, Answers, AnswerTo, In
<1>2. ASSUME NEW u \in User, NEW b \in owned, Free(u, b) PROVE A!Next
  BY <1>2, FreeGivesBack DEF A!Next
<1>3. ASSUME NEW u \in User, MallocWhole(u) \/ MallocSplit(u) PROVE A!Next
  BY <1>3, TakeAllocates DEF A!Next
<1>4. ASSUME NEW u \in User, MallocFails(u) PROVE A!Next
  BY <1>4, FailureRefuses DEF A!Next
<1>5. ASSUME NEW u \in User, Returned(u) PROVE A!Next
  BY <1>5, ReturnedSees DEF A!Next
<1>. QED  BY <1>1, <1>2, <1>3, <1>4, <1>5, WalkIsHidden DEF PoolNext, Walking

\* At first nothing is handed out.
LEMMA InitAllocates == PoolInit => A!Init
BY DEF PoolInit, A!Init, In, Idle

\* malloc() answers with the lowest free run that is long enough, and with nullptr only
\* when no run is, whatever was allocated and freed by which threads
\* (Variable.h:51-107).
THEOREM PoolIsFirstFit == PoolSpec => ImplementsAllocator
<1>. QED  BY InitIInv, NextIInv, InitAllocates, StepAllocates, PTL DEF PoolSpec, ImplementsAllocator, A!Spec
-----------------------------------------------------------------------------
\* What packets do with the pool are steps of the pool.
LEMMA MemoryUsesPool == Spec => PoolSpec
<1>1. Init => PoolInit
  BY DEF Init
<1>2. [Next]_memoryVars => [PoolNext]_poolVars
  <2>. SUFFICES ASSUME [Next]_memoryVars PROVE [PoolNext]_poolVars
    OBVIOUS
  <2>1. CASE UNCHANGED memoryVars
    BY <2>1 DEF memoryVars
  <2>2. ASSUME NEW c \in User, EmplaceNode(c) \/ FreeNode(c) PROVE UNCHANGED poolVars
    BY <2>2 DEF EmplaceNode, FreeNode
  <2>3. ASSUME NEW c \in User, AllocateData(c) PROVE PoolNext
    BY <2>3 DEF AllocateData, PoolNext
  <2>4. ASSUME NEW c \in User, KeepPacket(c) \/ DropPacket(c) PROVE PoolNext
    BY <2>4 DEF KeepPacket, DropPacket, PoolNext
  <2>5. ASSUME NEW c \in User, RemovePacket(c) PROVE PoolNext
    <3>1. PICK p \in packets[c] : Free(c, p.data)
      BY <2>5 DEF RemovePacket
    <3>2. p.data \in owned
      BY <3>1 DEF Free
    <3>. QED  BY <3>1, <3>2 DEF PoolNext
  <2>6. ASSUME NEW c \in User, Walking(c) PROVE PoolNext
    BY <2>6 DEF PoolNext
  <2>. QED  BY <2>1, <2>2, <2>3, <2>4, <2>5, <2>6 DEF Next
<1>. QED  BY <1>1, <1>2, PTL DEF Spec, PoolSpec

\* The block that malloc() has returned to c.
Got(c) == [at |-> walk[c].at, bytes |-> walk[c].bytes]
Answered(c) == In(c, "done") /\ walk[c].at # Null

\* DataHasOneOwner, and the blocks that were just returned are of no packet.
Owners ==
  /\ packets = [c \in User |-> packets[c]]
  /\ DataHasOneOwner
  /\ \A c, d \in User : Answered(c) =>
       /\ \A p \in packets[d] : p.data # Got(c)
       /\ Answered(d) /\ c # d => Got(c) # Got(d)

\* DataHasOneOwner, block by block.
Listed(own, pack) ==
  /\ \A c \in User : \A p \in pack[c] : p.data \in own
  /\ \A b \in own : \/ \E c \in User : \E p \in pack[c] : p.data = b
                    \/ \E c \in User : Answered(c) /\ Got(c) = b
  /\ \A c \in User : Answered(c) => Got(c) \in own
  /\ \A c, d \in User : \A p \in pack[c], q \in pack[d] : p.data = q.data => c = d /\ p = q

\* The two forms say the same.
LEMMA OwnersListed == DataHasOneOwner <=> Listed(owned, packets)
BY DEF DataHasOneOwner, Listed, Answered, Got

\* A step of the walk that hands out no block.
LEMMA QuietOwners ==
  ASSUME PoolTypeOK, Owners, NEW u \in User, NEW w, walk' = [walk EXCEPT ![u] = w],
         ~Answered(u), w.pc = "done" => w.at = Null, UNCHANGED <<owned, packets>>
  PROVE  Owners'
<1>1. walk'[u] = w /\ \A v \in User \ {u} : walk'[v] = walk[v]
  BY DEF PoolTypeOK
<1>2. ~Answered(u)' /\ \A v \in User \ {u} : (Answered(v)' <=> Answered(v)) /\ Got(v)' = Got(v)
  BY <1>1 DEF Answered, Got, In
<1>3. Listed(owned, packets)'
  BY <1>2, OwnersListed DEF Owners, Listed
<1>4. DataHasOneOwner'
  BY <1>3, OwnersListed, PTL
<1>. QED  BY <1>2, <1>4 DEF Owners

\* malloc() hands out a block that nobody has.
LEMMA TakenOwners ==
  ASSUME IInv, Owners, NEW u \in User, In(u, "malloc"), Cur(u) # Null,
         NEW b, b = [at |-> Cur(u), bytes |-> walk[u].bytes],
         owned' = owned \cup {b}, walk' = [walk EXCEPT ![u] = Answer(u, Cur(u))],
         UNCHANGED packets
  PROVE  Owners'
<1>1. b \notin owned
  <2>1. PICK F \in SUBSET Unit, H \in SUBSET Unit : Layout(F, H)
    BY DEF IInv
  <2>2. b.at \in F
    BY <2>1, InList DEF IInv
  <2>3. \A d \in owned : d.at \in H
    BY <2>1 DEF Layout, Held
  <2>4. F \cap H = {}
    BY <2>1 DEF Layout, Good
  <2>. QED  BY <2>2, <2>3, <2>4
<1>2. walk'[u] = Answer(u, Cur(u)) /\ \A v \in User \ {u} : walk'[v] = walk[v]
  BY DEF IInv, PoolTypeOK
<1>3. ~Answered(u) /\ Answered(u)' /\ Got(u)' = b
  BY <1>2 DEF Answered, Got, In, Answer, Cur
<1>4. \A v \in User \ {u} : (Answered(v)' <=> Answered(v)) /\ Got(v)' = Got(v)
  BY <1>2 DEF Answered, Got, In
<1>5. Listed(owned, packets)
  BY OwnersListed DEF Owners
<1>6. /\ \A c \in User : \A p \in packets[c] : p.data # b
      /\ \A c \in User : Answered(c) => Got(c) # b
  BY <1>1, <1>5 DEF Listed
<1>7. Listed(owned, packets)'
  BY <1>3, <1>4, <1>5 DEF Listed
<1>8. DataHasOneOwner'
  BY <1>7, OwnersListed, PTL
<1>. QED  BY <1>3, <1>4, <1>6, <1>8 DEF Owners

\* The block that c has got is now of a packet.
LEMMA KeptOwners ==
  ASSUME PoolTypeOK, Owners, NEW c \in User, KeepPacket(c)
  PROVE  Owners'
<1>1. PICK p : p = [node |-> job[c].node, data |-> Got(c)]
  OBVIOUS
<1>2. /\ Answered(c) /\ walk' = [walk EXCEPT ![c] = Idle] /\ owned' = owned
      /\ packets' = [packets EXCEPT ![c] = @ \cup {p}] /\ p.data = Got(c)
  BY <1>1 DEF KeepPacket, Returned, Answered, Got
<1>3. walk'[c] = Idle /\ \A v \in User \ {c} : walk'[v] = walk[v]
  BY <1>2 DEF PoolTypeOK
<1>4. ~Answered(c)' /\ \A v \in User \ {c} : (Answered(v)' <=> Answered(v)) /\ Got(v)' = Got(v)
  BY <1>3 DEF Answered, Got, In, Idle
<1>5. /\ packets' = [d \in User |-> packets'[d]]
      /\ packets'[c] = packets[c] \cup {p}
      /\ \A v \in User \ {c} : packets'[v] = packets[v]
  BY <1>2 DEF Owners
<1>6. Listed(owned, packets)
  BY OwnersListed DEF Owners
<1>7. /\ \A d \in User : \A q \in packets[d] : q.data # p.data
      /\ \A d \in User \ {c} : Answered(d) => Got(d) # p.data
      /\ p.data \in owned
  BY <1>2, <1>6 DEF Owners, Listed
<1>8. \A d \in User : \A q \in packets'[d] : q \in packets[d] \/ (d = c /\ q = p)
  BY <1>5
<1>9. Listed(owned, packets)'
  <2>1. \A d \in User : \A q \in packets'[d] : q.data \in owned'
    BY <1>2, <1>6, <1>7, <1>8 DEF Listed
  <2>2. \A b \in owned' : \/ \E d \in User : \E q \in packets'[d] : q.data = b
                          \/ \E d \in User : Answered(d)' /\ Got(d)' = b
    BY <1>2, <1>4, <1>5, <1>6 DEF Listed
  <2>3. \A d \in User : Answered(d)' => Got(d)' \in owned'
    BY <1>2, <1>4, <1>6 DEF Listed
  <2>4. \A d, e \in User : \A q \in packets'[d], r \in packets'[e] :
          q.data = r.data => d = e /\ q = r
    BY <1>6, <1>7, <1>8 DEF Listed
  <2>. QED  BY <2>1, <2>2, <2>3, <2>4 DEF Listed
<1>10. DataHasOneOwner'
  BY <1>9, OwnersListed, PTL
<1>11. \A d, e \in User : Answered(d)' =>
         /\ \A q \in packets'[e] : q.data # Got(d)'
         /\ Answered(e)' /\ d # e => Got(d)' # Got(e)'
  BY <1>4, <1>7, <1>8 DEF Owners
<1>. QED  BY <1>5, <1>10, <1>11 DEF Owners

\* The block of a packet is freed with it.
LEMMA RemovedOwners ==
  ASSUME PoolTypeOK, Owners, NEW c \in User, RemovePacket(c)
  PROVE  Owners'
<1>1. PICK p \in packets[c] : /\ Free(c, p.data)
                              /\ packets' = [packets EXCEPT ![c] = @ \ {p}]
  BY DEF RemovePacket
<1>2. In(c, "idle") /\ owned' = owned \ {p.data}
  BY <1>1 DEF Free
<1>3. PICK w : walk' = [walk EXCEPT ![c] = w] /\ w.pc \in {"idle", "free"}
  <2>1. CASE walk' = walk
    <3>1. walk' = [walk EXCEPT ![c] = walk[c]]
      BY <2>1 DEF PoolTypeOK
    <3>. QED  BY <1>2, <3>1 DEF In
  <2>2. CASE walk' # walk
    <3>1. PICK w : w = [pc |-> "free", block |-> p.data.at, cur |-> head, prev |-> 0]
      OBVIOUS
    <3>2. walk' = [walk EXCEPT ![c] = w] /\ w.pc = "free"
      BY <1>1, <2>2, <3>1 DEF Free
    <3>. QED  BY <3>2
  <2>. QED  BY <2>1, <2>2
<1>4. walk'[c] = w /\ \A v \in User \ {c} : walk'[v] = walk[v]
  BY <1>3 DEF PoolTypeOK
<1>5. /\ ~Answered(c)' /\ ~Answered(c)
      /\ \A v \in User \ {c} : (Answered(v)' <=> Answered(v)) /\ Got(v)' = Got(v)
  BY <1>2, <1>3, <1>4 DEF Answered, Got, In
<1>6. /\ packets' = [d \in User |-> packets'[d]]
      /\ packets'[c] = packets[c] \ {p}
      /\ \A v \in User \ {c} : packets'[v] = packets[v]
  BY <1>1 DEF Owners
<1>7. Listed(owned, packets)
  BY OwnersListed DEF Owners
<1>8. \A d \in User : \A q \in packets'[d] : q \in packets[d] /\ q.data # p.data
  BY <1>6, <1>7 DEF Listed
<1>9. Listed(owned, packets)'
  <2>1. \A d \in User : \A q \in packets'[d] : q.data \in owned'
    BY <1>2, <1>7, <1>8 DEF Listed
  <2>2. \A b \in owned' : \/ \E d \in User : \E q \in packets'[d] : q.data = b
                          \/ \E d \in User : Answered(d)' /\ Got(d)' = b
    BY <1>2, <1>5, <1>6, <1>7 DEF Listed
  <2>3. \A d \in User : Answered(d)' => Got(d)' \in owned'
    BY <1>2, <1>5, <1>7 DEF Owners, Listed
  <2>4. \A d, e \in User : \A q \in packets'[d], r \in packets'[e] :
          q.data = r.data => d = e /\ q = r
    BY <1>7, <1>8 DEF Listed
  <2>. QED  BY <2>1, <2>2, <2>3, <2>4 DEF Listed
<1>10. DataHasOneOwner'
  BY <1>9, OwnersListed, PTL
<1>11. \A d, e \in User : Answered(d)' =>
         /\ \A q \in packets'[e] : q.data # Got(d)'
         /\ Answered(e)' /\ d # e => Got(d)' # Got(e)'
  BY <1>5, <1>8 DEF Owners
<1>. QED  BY <1>6, <1>10, <1>11 DEF Owners

\* Every step of a client keeps the owners.
LEMMA NextOwners == IInv /\ Owners /\ [Next]_memoryVars => Owners'
<1>. SUFFICES ASSUME IInv, Owners, [Next]_memoryVars PROVE Owners'
  OBVIOUS
<1>0. PoolTypeOK
  BY DEF IInv
<1>1. ASSUME UNCHANGED <<walk, owned, packets>> PROVE Owners'
  <2>1. Listed(owned, packets)
    BY OwnersListed DEF Owners
  <2>2. Listed(owned, packets)'
    BY <1>1, <2>1 DEF Listed, Answered, Got, In
  <2>3. DataHasOneOwner'
    BY <2>2, OwnersListed, PTL
  <2>. QED  BY <1>1, <2>3 DEF Owners, Answered, Got, In
<1>2. CASE UNCHANGED memoryVars
  BY <1>1, <1>2 DEF memoryVars, poolVars, outboxVars
<1>3. ASSUME NEW c \in User, EmplaceNode(c) \/ FreeNode(c) PROVE Owners'
  BY <1>1, <1>3 DEF EmplaceNode, FreeNode, poolVars
<1>4. ASSUME NEW c \in User, AllocateData(c) PROVE Owners'
  <2>1. PICK w : /\ walk' = [walk EXCEPT ![c] = w] /\ w.pc = "malloc" /\ In(c, "idle")
                 /\ UNCHANGED <<owned, packets>>
    BY <1>4 DEF AllocateData, Malloc, outboxVars
  <2>2. ~Answered(c)
    BY <2>1 DEF Answered, In
  <2>. QED  BY <1>0, <2>1, <2>2, QuietOwners
<1>5. ASSUME NEW c \in User, KeepPacket(c) PROVE Owners'
  BY <1>0, <1>5, KeptOwners
<1>6. ASSUME NEW c \in User, DropPacket(c) PROVE Owners'
  <2>1. ~Answered(c) /\ walk' = [walk EXCEPT ![c] = Idle] /\ UNCHANGED <<owned, packets>>
    BY <1>6 DEF DropPacket, Returned, Answered
  <2>. QED  BY <1>0, <2>1, QuietOwners DEF Idle
<1>7. ASSUME NEW c \in User, RemovePacket(c) PROVE Owners'
  BY <1>0, <1>7, RemovedOwners
<1>8. ASSUME NEW c \in User, MallocNext(c) \/ FreeNext(c) \/ FreeHere(c) \/ MallocFails(c),
             UNCHANGED outboxVars
      PROVE  Owners'
  <2>1. ~Answered(c) /\ UNCHANGED <<owned, packets>>
    BY <1>8 DEF MallocNext, FreeNext, FreeHere, MallocFails, Answered, In, Advance, outboxVars
  <2>2. PICK w : walk' = [walk EXCEPT ![c] = w] /\ (w.pc = "done" => w.at = Null)
    <3>1. CASE MallocNext(c) \/ FreeNext(c)
      <4>. DEFINE w == [walk[c] EXCEPT !.prev = Cur(c), !.cur = mem[Cur(c)].next]
      <4>1. walk' = [walk EXCEPT ![c] = w] /\ walk[c].pc # "done"
        BY <3>1 DEF MallocNext, FreeNext, Advance, In
      <4>2. w.pc # "done"
        BY <1>0, <3>1, Shapes DEF MallocNext, FreeNext, In
      <4>. QED  BY <4>1, <4>2
    <3>2. CASE FreeHere(c)
      <4>1. walk' = [walk EXCEPT ![c] = Idle] /\ Idle.pc # "done"
        BY <3>2 DEF FreeHere, Unlock, Idle
      <4>. QED  BY <4>1
    <3>3. CASE MallocFails(c)
      <4>1. walk' = [walk EXCEPT ![c] = Answer(c, Null)] /\ Answer(c, Null).at = Null
        BY <3>3 DEF MallocFails, Unlock, Answer
      <4>. QED  BY <4>1
    <3>. QED  BY <1>8, <3>1, <3>2, <3>3
  <2>. QED  BY <1>0, <2>1, <2>2, QuietOwners
<1>9. ASSUME NEW c \in User, MallocWhole(c) \/ MallocSplit(c), UNCHANGED outboxVars
      PROVE  Owners'
  <2>1. /\ In(c, "malloc") /\ Cur(c) # Null /\ UNCHANGED packets
        /\ owned' = owned \cup {[at |-> Cur(c), bytes |-> walk[c].bytes]}
        /\ walk' = [walk EXCEPT ![c] = Answer(c, Cur(c))]
    BY <1>9 DEF MallocWhole, MallocSplit, Take, Unlock, outboxVars
  <2>. QED  BY <2>1, TakenOwners
<1>. QED  BY <1>2, <1>3, <1>4, <1>5, <1>6, <1>7, <1>8, <1>9 DEF Next, Walking

\* With the pool as it is, packets of all clients never share a unit of it
\* (Packet.h:159).
THEOREM MemorySafe == Spec => []BlocksDisjoint
<1>. QED  BY MemoryUsesPool, PoolSafe, PTL

\* Packets get their memory from a first-fit allocator, and are refused only when no
\* free run of the pool is long enough for them (Packet.cpp:311-334, Variable.h:51-107).
THEOREM MemoryIsFirstFit == Spec => ImplementsAllocator
<1>. QED  BY MemoryUsesPool, PoolIsFirstFit, PTL

\* Every block that was handed out is of one packet of one client: none is lost,
\* none is shared (Packet.cpp:17-23, 311-334).
THEOREM MemoryOwned == Spec => []DataHasOneOwner
<1>1. PoolInit => IInv
  BY InitIInv
<1>2. IInv /\ [PoolNext]_poolVars => IInv'
  BY NextIInv
<1>3. Init => Owners
  <2>. SUFFICES ASSUME Init PROVE Owners
    OBVIOUS
  <2>1. /\ packets = [c \in User |-> {}] /\ owned = {} /\ \A c \in User : ~Answered(c)
    BY DEF Init, PoolInit, Answered, In, Idle
  <2>2. Listed(owned, packets)
    BY <2>1 DEF Listed
  <2>. QED  BY <2>1, <2>2, OwnersListed DEF Owners
<1>4. Owners => DataHasOneOwner
  BY DEF Owners
<1>. QED  BY <1>1, <1>2, <1>3, <1>4, MemoryUsesPool, NextOwners, PTL DEF Spec, PoolSpec
-----------------------------------------------------------------------------
\* The links from h end, and no node is reached twice.
FreeList(h, links) ==
  LET R == Reached(h, links) IN
  /\ DOMAIN links = Node
  /\ h \in R \cup {Null}
  /\ \A x \in R : links[x] \in R \cup {Null}
  /\ \A x \in R : links[x] = h => h = Null
  /\ \A x, y \in R : links[x] = links[y] => x = y \/ links[x] = Null

\* A node is in the free list, with a job, or of a packet, and of one packet only.
Nodes(h, links, j, ps) ==
  /\ FreeList(h, links)
  /\ j = NoJob \/ \E n \in Node, for \in {"make", "remove"} : j = [for |-> for, node |-> n]
  /\ \A p, q \in ps : p.node = q.node => p = q
  /\ \A p \in ps : p.node \in Node /\ (j # NoJob => j.node # p.node)
  /\ Reached(h, links) = {n \in Node : (\A p \in ps : p.node # n) /\ (j # NoJob => j.node # n)}

\* The pool is at work for the job at hand.
AtWork(w, j) ==
  /\ w.pc \in {"malloc", "done"} => j.for = "make"
  /\ w.pc = "free" => j.for = "remove"

NodesInv ==
  /\ fixedHead = [c \in User |-> fixedHead[c]] /\ link = [c \in User |-> link[c]]
  /\ job = [c \in User |-> job[c]] /\ packets = [c \in User |-> packets[c]]
  /\ \A c \in User : Nodes(fixedHead[c], link[c], job[c], packets[c]) /\ AtWork(walk[c], job[c])

\* The node of a job, which is not free.
LEMMA JobNode ==
  ASSUME NEW h, NEW links, NEW j, NEW ps, Nodes(h, links, j, ps), j # NoJob
  PROVE  j.node \in Node /\ j.node \notin Reached(h, links)
<1>1. PICK n \in Node, for \in {"make", "remove"} : j = [for |-> for, node |-> n]
  BY DEF Nodes
<1>2. j.node = n
  BY <1>1
<1>. QED  BY <1>2 DEF Nodes

\* A set that holds the first node, and with a node the next, holds what is reached.
LEMMA ReachedLeast ==
  ASSUME NEW h, NEW links, NEW S \in SUBSET Node,
         h \in Node => h \in S, \A x \in S : links[x] \in Node => links[x] \in S
  PROVE  Reached(h, links) \subseteq S
BY DEF Reached

\* The first node of the list is taken from it.
LEMMA TakeFirst ==
  ASSUME NEW links, NEW h \in Node, FreeList(h, links),
         NEW h2, h2 = links[h], NEW links2, links2 = [links EXCEPT ![h] = Data]
  PROVE  FreeList(h2, links2) /\ Reached(h2, links2) = Reached(h, links) \ {h}
<1>. DEFINE R == Reached(h, links)
<1>1. /\ DOMAIN links = Node /\ h \in R /\ R \subseteq Node /\ Null \notin Node
      /\ \A x \in R : links[x] \in R \cup {Null} /\ links[x] # h
      /\ \A x, y \in R : links[x] = links[y] => x = y \/ links[x] = Null
  <2>1. Null \notin Node
    BY PoolAssumption DEF Node
  <2>. QED  BY <2>1 DEF FreeList, Reached
<1>2. \A x \in Node \ {h} : links2[x] = links[x]
  BY <1>1
<1>3. Reached(h2, links2) \subseteq R \ {h}
  <2>1. R \ {h} \in SUBSET Node
    BY <1>1
  <2>2. h2 \in Node => h2 \in R \ {h}
    BY <1>1
  <2>3. \A x \in R \ {h} : links2[x] \in Node => links2[x] \in R \ {h}
    BY <1>1, <1>2
  <2>. HIDE DEF R
  <2>. QED  BY <2>1, <2>2, <2>3, ReachedLeast
<1>4. ASSUME NEW S \in SUBSET Node, h2 \in Node => h2 \in S,
             \A x \in S : links2[x] \in Node => links2[x] \in S
      PROVE  R \ {h} \subseteq S
  <2>1. S \cup {h} \in SUBSET Node /\ h \in S \cup {h}
    OBVIOUS
  <2>2. \A x \in S \cup {h} : links[x] \in Node => links[x] \in S \cup {h}
    BY <1>2, <1>4
  <2>3. R \subseteq S \cup {h}
    BY <2>1, <2>2, ReachedLeast
  <2>. QED  BY <2>3
<1>5. R \ {h} \subseteq Reached(h2, links2)
  <2>. SUFFICES ASSUME NEW n \in R \ {h} PROVE n \in Reached(h2, links2)
    OBVIOUS
  <2>1. n \in Node
    BY <1>1
  <2>. HIDE DEF R
  <2>. QED  BY <1>4, <2>1 DEF Reached
<1>6. Reached(h2, links2) = R \ {h}
  BY <1>3, <1>5
<1>. HIDE DEF R
<1>7. FreeList(h2, links2)
  <2>1. DOMAIN links2 = Node
    BY <1>1
  <2>2. h2 \in (R \ {h}) \cup {Null}
    BY <1>1
  <2>3. \A x \in R \ {h} : links2[x] = links[x]
    BY <1>1, <1>2
  <2>4. /\ \A x \in R \ {h} : links2[x] \in (R \ {h}) \cup {Null}
        /\ \A x \in R \ {h} : links2[x] = h2 => h2 = Null
        /\ \A x, y \in R \ {h} : links2[x] = links2[y] => x = y \/ links2[x] = Null
    BY <1>1, <2>3
  <2>. QED  BY <1>6, <2>1, <2>2, <2>4 DEF FreeList
<1>. QED  BY <1>6, <1>7 DEF R

\* A node comes back in front of the list.
LEMMA PutFirst ==
  ASSUME NEW links, NEW h, FreeList(h, links), NEW n \in Node, n \notin Reached(h, links),
         NEW links2, links2 = [links EXCEPT ![n] = h]
  PROVE  FreeList(n, links2) /\ Reached(n, links2) = Reached(h, links) \cup {n}
<1>. DEFINE R == Reached(h, links)
<1>1. /\ DOMAIN links = Node /\ h \in R \cup {Null} /\ R \subseteq Node /\ Null \notin Node
      /\ \A x \in R : links[x] \in R \cup {Null} /\ (links[x] = h => h = Null)
      /\ \A x, y \in R : links[x] = links[y] => x = y \/ links[x] = Null
  <2>1. Null \notin Node
    BY PoolAssumption DEF Node
  <2>. QED  BY <2>1 DEF FreeList, Reached
<1>2. links2[n] = h /\ n \notin R /\ \A x \in Node \ {n} : links2[x] = links[x]
  BY <1>1
<1>3. Reached(n, links2) \subseteq R \cup {n}
  <2>1. R \cup {n} \in SUBSET Node /\ n \in R \cup {n}
    BY <1>1
  <2>2. \A x \in R \cup {n} : links2[x] \in Node => links2[x] \in R \cup {n}
    BY <1>1, <1>2
  <2>. HIDE DEF R
  <2>. QED  BY <2>1, <2>2, ReachedLeast
<1>4. ASSUME NEW S \in SUBSET Node, n \in S, \A x \in S : links2[x] \in Node => links2[x] \in S
      PROVE  R \cup {n} \subseteq S
  <2>1. S \cap R \in SUBSET Node /\ (h \in Node => h \in S \cap R)
    BY <1>1, <1>2, <1>4
  <2>2. \A x \in S \cap R : links[x] \in Node => links[x] \in S \cap R
    BY <1>1, <1>2, <1>4
  <2>3. R \subseteq S \cap R
    BY <2>1, <2>2, ReachedLeast
  <2>. QED  BY <1>4, <2>3
<1>5. R \cup {n} \subseteq Reached(n, links2)
  <2>. SUFFICES ASSUME NEW m \in R \cup {n} PROVE m \in Reached(n, links2)
    OBVIOUS
  <2>1. m \in Node
    BY <1>1
  <2>. HIDE DEF R
  <2>. QED  BY <1>4, <2>1 DEF Reached
<1>6. Reached(n, links2) = R \cup {n}
  BY <1>3, <1>5
<1>. HIDE DEF R
<1>7. FreeList(n, links2)
  <2>1. DOMAIN links2 = Node /\ n \in R \cup {n} /\ n # Null
    BY <1>1
  <2>2. \A x \in R : links2[x] = links[x]
    BY <1>1, <1>2
  <2>3. /\ \A x \in R \cup {n} : links2[x] \in (R \cup {n}) \cup {Null} /\ links2[x] # n
        /\ \A x, y \in R \cup {n} : links2[x] = links2[y] => x = y \/ links2[x] = Null
    BY <1>1, <1>2, <2>2
  <2>. QED  BY <1>6, <2>1, <2>3 DEF FreeList
<1>. QED  BY <1>6, <1>7 DEF R

\* Each set of naturals has a least element.
LEMMA FirstOf ==
  ASSUME NEW T, T \subseteq Nat, T # {}
  PROVE  \E x \in T : \A y \in T : x <= y
<1>. DEFINE Below == {p \in Nat \X Nat : p[1] < p[2]}
<1>1. IsWellFoundedOn(Below, Nat)
  <2>1. OpToRel(<, Nat) = Below
    BY DEF OpToRel
  <2>. QED  BY <2>1, NatLessThanWellFounded
<1>2. \A x, y \in Nat : x < y => <<x, y>> \in Below
  OBVIOUS
<1>. HIDE DEF Below
<1>3. PICK x \in T : \A y \in T : ~(<<y, x>> \in Below)
  BY <1>1, WFMin
<1>4. ASSUME NEW y \in T PROVE x <= y
  <2>1. ~(y < x)
    BY <1>2, <1>3
  <2>. QED  BY <2>1
<1>. QED  BY <1>4

\* The constructor links all nodes.
LEMMA AllLinked ==
  ASSUME NEW links, links = [n \in Node |-> IF n = NrBlocks THEN Null ELSE n + 1]
  PROVE  FreeList(1, links) /\ Reached(1, links) = Node
<1>1. NrBlocks \in Nat \ {0} /\ Null \notin Node /\ Null \notin Int /\ Node = 1 .. NrBlocks
  BY PoolAssumption DEF Node
<1>2. ASSUME NEW S \in SUBSET Node, 1 \in S, \A x \in S : links[x] \in Node => links[x] \in S
      PROVE  Node \subseteq S
  <2>. SUFFICES ASSUME Node \ S # {} PROVE FALSE
    OBVIOUS
  <2>1. PICK k \in Node \ S : \A y \in Node \ S : k <= y
    <3>1. Node \ S \subseteq Nat
      BY <1>1
    <3>. QED  BY <3>1, FirstOf
  <2>2. k - 1 \in S /\ k - 1 \in Node /\ k - 1 # NrBlocks /\ k \in Int
    BY <1>1, <1>2, <2>1
  <2>3. links[k - 1] = k
    BY <2>2
  <2>. QED  BY <1>2, <2>1, <2>2, <2>3
<1>3. Reached(1, links) = Node
  <2>1. 1 \in Node
    BY <1>1
  <2>. QED  BY <1>2, <2>1 DEF Reached
<1>4. /\ 1 \in Node
      /\ \A x \in Node : links[x] \in Node \cup {Null} /\ links[x] # 1
      /\ \A x, y \in Node : links[x] = links[y] => x = y \/ links[x] = Null
  BY <1>1
<1>. QED  BY <1>3, <1>4 DEF FreeList

\* A step of one client leaves the nodes of the others alone.
LEMMA OthersNodes ==
  ASSUME NodesInv, NEW c \in User, NEW h, NEW links, NEW j, NEW ps,
         fixedHead' = [fixedHead EXCEPT ![c] = h], link' = [link EXCEPT ![c] = links],
         job' = [job EXCEPT ![c] = j], packets' = [packets EXCEPT ![c] = ps],
         \A d \in User \ {c} : walk'[d] = walk[d],
         Nodes(h, links, j, ps), AtWork(walk'[c], j)
  PROVE  NodesInv'
<1>1. /\ fixedHead'[c] = h /\ link'[c] = links /\ job'[c] = j /\ packets'[c] = ps
      /\ \A d \in User \ {c} : /\ fixedHead'[d] = fixedHead[d] /\ link'[d] = link[d]
                               /\ job'[d] = job[d] /\ packets'[d] = packets[d]
  BY DEF NodesInv
<1>2. /\ fixedHead' = [d \in User |-> fixedHead'[d]] /\ link' = [d \in User |-> link'[d]]
      /\ job' = [d \in User |-> job'[d]] /\ packets' = [d \in User |-> packets'[d]]
  BY DEF NodesInv
<1>3. ASSUME NEW d \in User
      PROVE  Nodes(fixedHead'[d], link'[d], job'[d], packets'[d]) /\ AtWork(walk'[d], job'[d])
  <2>1. CASE d = c
    BY <1>1, <2>1
  <2>2. CASE d # c
    <3>1. Nodes(fixedHead[d], link[d], job[d], packets[d]) /\ AtWork(walk[d], job[d])
      BY DEF NodesInv
    <3>. QED  BY <1>1, <2>2, <3>1
  <2>. QED  BY <2>1, <2>2
<1>. QED  BY <1>2, <1>3 DEF NodesInv

\* Each packet has a node, and the others are free: the invariant says so.
LEMMA NodesImply == NodesInv => NodesConserved
<1>. SUFFICES ASSUME NodesInv, NEW c \in User
              PROVE  /\ FreeNodes(c) \cup NodesInUse(c) = Node
                     /\ FreeNodes(c) \cap NodesInUse(c) = {}
  BY DEF NodesConserved
<1>1. Nodes(fixedHead[c], link[c], job[c], packets[c])
  BY DEF NodesInv
<1>2. job[c] # NoJob => job[c].node \in Node
  BY <1>1, JobNode
<1>. QED  BY <1>1, <1>2 DEF Nodes, FreeNodes, NodesInUse

\* At first all nodes are free.
LEMMA InitNodes == Init => NodesInv
<1>. SUFFICES ASSUME Init, NEW c \in User
              PROVE  /\ Nodes(fixedHead[c], link[c], job[c], packets[c])
                     /\ AtWork(walk[c], job[c])
  BY DEF Init, NodesInv
<1>1. PICK links : links = [n \in Node |-> IF n = NrBlocks THEN Null ELSE n + 1]
  OBVIOUS
<1>2. fixedHead[c] = 1 /\ link[c] = links /\ job[c] = NoJob /\ packets[c] = {} /\ walk[c] = Idle
  BY <1>1 DEF Init, PoolInit
<1>3. FreeList(1, links) /\ Reached(1, links) = Node
  BY <1>1, AllLinked
<1>4. Nodes(1, links, NoJob, {})
  BY <1>3 DEF Nodes
<1>. QED  BY <1>2, <1>4 DEF AtWork, Idle

\* emplace() takes the first free node.
LEMMA EmplaceNodes ==
  ASSUME NodesInv, NEW c \in User, EmplaceNode(c)
  PROVE  NodesInv'
<1>1. PICK h \in Node : /\ job[c] = NoJob /\ FixedMalloc(c, h)
                       /\ job' = [job EXCEPT ![c] = [for |-> "make", node |-> h]]
                       /\ UNCHANGED <<poolVars, packets>>
  BY DEF EmplaceNode
<1>. DEFINE links == [link[c] EXCEPT ![h] = Data]
            h2 == link[c][h]
            j == [for |-> "make", node |-> h]
<1>2. Nodes(h, link[c], NoJob, packets[c]) /\ AtWork(walk[c], NoJob)
  BY <1>1 DEF NodesInv, FixedMalloc
<1>3. /\ fixedHead' = [fixedHead EXCEPT ![c] = h2]
      /\ link' = [link EXCEPT ![c] = links]
      /\ job' = [job EXCEPT ![c] = j]
      /\ packets' = [packets EXCEPT ![c] = packets[c]] /\ walk' = walk
  BY <1>1 DEF NodesInv, FixedMalloc, poolVars
<1>4. FreeList(h2, links) /\ Reached(h2, links) = Reached(h, link[c]) \ {h}
  BY <1>2, TakeFirst DEF Nodes
<1>5. h \in Reached(h, link[c])
  BY DEF Reached
<1>6. j # NoJob /\ j.node = h
  BY DEF NoJob
<1>7. Nodes(h2, links, j, packets[c])
  BY <1>2, <1>4, <1>5, <1>6 DEF Nodes
<1>8. AtWork(walk'[c], j)
  BY <1>2, <1>3 DEF AtWork, NoJob
<1>. HIDE DEF links, h2, j
<1>. QED  BY <1>3, <1>7, <1>8, OthersNodes

\* A node whose packet could not be made, or is gone, is given back.
LEMMA GivenNodes ==
  ASSUME NodesInv, NEW c \in User, FixedFree(c, job[c].node), job[c] # NoJob,
         job' = [job EXCEPT ![c] = NoJob], UNCHANGED packets,
         \A d \in User \ {c} : walk'[d] = walk[d], walk'[c].pc = "idle"
  PROVE  NodesInv'
<1>. DEFINE n == job[c].node
            h == fixedHead[c]
            links == [link[c] EXCEPT ![n] = h]
<1>1. Nodes(h, link[c], job[c], packets[c])
  BY DEF NodesInv
<1>2. n \in Node /\ n \notin Reached(h, link[c]) /\ FreeList(h, link[c])
  BY <1>1, JobNode DEF Nodes
<1>3. /\ fixedHead' = [fixedHead EXCEPT ![c] = n]
      /\ link' = [link EXCEPT ![c] = links]
      /\ packets' = [packets EXCEPT ![c] = packets[c]]
  BY DEF NodesInv, FixedFree
<1>4. FreeList(n, links) /\ Reached(n, links) = Reached(h, link[c]) \cup {n}
  BY <1>2, PutFirst
<1>5. Nodes(n, links, NoJob, packets[c])
  BY <1>1, <1>2, <1>4 DEF Nodes
<1>6. AtWork(walk'[c], NoJob)
  BY DEF AtWork
<1>. HIDE DEF n, h, links
<1>. QED  BY <1>3, <1>5, <1>6, OthersNodes

\* The packet is made: its node is that of the job.
LEMMA KeptNodes ==
  ASSUME PoolTypeOK, NodesInv, NEW c \in User, KeepPacket(c)
  PROVE  NodesInv'
<1>1. PICK p : p = [node |-> job[c].node, data |-> [at |-> walk[c].at, bytes |-> walk[c].bytes]]
  OBVIOUS
<1>. DEFINE ps == packets[c] \cup {p}
<1>2. /\ In(c, "done") /\ walk' = [walk EXCEPT ![c] = Idle]
      /\ packets' = [packets EXCEPT ![c] = ps] /\ job' = [job EXCEPT ![c] = NoJob]
      /\ UNCHANGED <<fixedHead, link>>
  BY <1>1 DEF KeepPacket, Returned
<1>3. Nodes(fixedHead[c], link[c], job[c], packets[c]) /\ AtWork(walk[c], job[c])
  BY DEF NodesInv
<1>4. job[c] # NoJob /\ p.node = job[c].node /\ p.node \in Node
  <2>1. job[c] # NoJob
    <3>1. job[c].for = "make"
      BY <1>2, <1>3 DEF AtWork, In
    <3>. QED  BY <3>1 DEF NoJob
  <2>. QED  BY <1>1, <1>3, <2>1, JobNode
<1>5. Nodes(fixedHead[c], link[c], NoJob, ps)
  BY <1>3, <1>4 DEF Nodes
<1>6. /\ fixedHead' = [fixedHead EXCEPT ![c] = fixedHead[c]]
      /\ link' = [link EXCEPT ![c] = link[c]]
      /\ \A d \in User \ {c} : walk'[d] = walk[d]
      /\ walk'[c] = Idle
  BY <1>2 DEF NodesInv, PoolTypeOK
<1>7. AtWork(walk'[c], NoJob)
  BY <1>6 DEF AtWork, Idle
<1>. HIDE DEF ps
<1>. QED  BY <1>2, <1>5, <1>6, <1>7, OthersNodes

\* A packet leaves the outbox: its node is that of the job.
LEMMA RemovedNodes ==
  ASSUME PoolTypeOK, NodesInv, NEW c \in User, RemovePacket(c)
  PROVE  NodesInv'
<1>1. PICK p \in packets[c] :
        /\ Free(c, p.data) /\ job[c] = NoJob
        /\ packets' = [packets EXCEPT ![c] = @ \ {p}]
        /\ job' = [job EXCEPT ![c] = [for |-> "remove", node |-> p.node]]
        /\ UNCHANGED <<fixedHead, link>>
  BY DEF RemovePacket
<1>. DEFINE ps == packets[c] \ {p}
            j == [for |-> "remove", node |-> p.node]
<1>2. Nodes(fixedHead[c], link[c], NoJob, packets[c])
  BY <1>1 DEF NodesInv
<1>3. j # NoJob /\ j.node = p.node /\ j.for = "remove"
  BY DEF NoJob
<1>4. p.node \in Node
  BY <1>2 DEF Nodes
<1>5. Nodes(fixedHead[c], link[c], j, ps)
  BY <1>2, <1>3, <1>4 DEF Nodes
<1>6. walk'[c].pc \in {"idle", "free"} /\ \A d \in User \ {c} : walk'[d] = walk[d]
  <2>1. CASE walk' = walk
    BY <1>1, <2>1 DEF Free, In
  <2>2. CASE walk' # walk
    <3>1. PICK w : w = [pc |-> "free", block |-> p.data.at, cur |-> head, prev |-> 0]
      OBVIOUS
    <3>2. walk' = [walk EXCEPT ![c] = w] /\ w.pc = "free"
      BY <1>1, <2>2, <3>1 DEF Free
    <3>. QED  BY <3>2 DEF PoolTypeOK
  <2>. QED  BY <2>1, <2>2
<1>7. AtWork(walk'[c], j)
  BY <1>3, <1>6 DEF AtWork
<1>8. /\ fixedHead' = [fixedHead EXCEPT ![c] = fixedHead[c]]
      /\ link' = [link EXCEPT ![c] = link[c]]
      /\ packets' = [packets EXCEPT ![c] = ps]
      /\ job' = [job EXCEPT ![c] = j]
  BY <1>1 DEF NodesInv
<1>. HIDE DEF ps, j
<1>. QED  BY <1>5, <1>6, <1>7, <1>8, OthersNodes

\* What the pool does for a job leaves the nodes alone.
LEMMA PoolNodes ==
  ASSUME PoolTypeOK, NodesInv, NEW c \in User, NEW w, walk' = [walk EXCEPT ![c] = w],
         UNCHANGED outboxVars, AtWork(w, job[c])
  PROVE  NodesInv'
<1>1. walk'[c] = w /\ \A d \in User \ {c} : walk'[d] = walk[d]
  BY DEF PoolTypeOK
<1>2. fixedHead' = fixedHead /\ link' = link /\ job' = job /\ packets' = packets
  BY DEF outboxVars
<1>3. \A d \in User : AtWork(walk'[d], job[d])
  BY <1>1 DEF NodesInv
<1>. QED  BY <1>2, <1>3 DEF NodesInv

\* Every step of a client keeps its nodes.
LEMMA NextNodes == PoolTypeOK /\ NodesInv /\ [Next]_memoryVars => NodesInv'
<1>. SUFFICES ASSUME PoolTypeOK, NodesInv, [Next]_memoryVars PROVE NodesInv'
  OBVIOUS
<1>1. CASE UNCHANGED memoryVars
  BY <1>1 DEF memoryVars, poolVars, outboxVars, NodesInv
<1>2. \A c \in User : AtWork(walk[c], job[c])
  BY DEF NodesInv
<1>3. ASSUME NEW c \in User, AllocateData(c) PROVE NodesInv'
  <2>1. PICK w : walk' = [walk EXCEPT ![c] = w] /\ w.pc = "malloc"
    <3>1. PICK bytes \in Sizes : Malloc(c, bytes)
      BY <1>3 DEF AllocateData
    <3>2. PICK w : w = [pc |-> "malloc", bytes |-> bytes, cur |-> head, prev |-> Null]
      OBVIOUS
    <3>3. walk' = [walk EXCEPT ![c] = w] /\ w.pc = "malloc"
      BY <3>1, <3>2 DEF Malloc
    <3>. QED  BY <3>3
  <2>2. UNCHANGED outboxVars /\ AtWork(w, job[c])
    BY <1>3, <2>1 DEF AllocateData, AtWork
  <2>. QED  BY <2>1, <2>2, PoolNodes
<1>4. ASSUME NEW c \in User, DropPacket(c) PROVE NodesInv'
  <2>1. /\ FixedFree(c, job[c].node) /\ job' = [job EXCEPT ![c] = NoJob] /\ UNCHANGED packets
        /\ walk' = [walk EXCEPT ![c] = Idle] /\ In(c, "done")
    BY <1>4 DEF DropPacket, Returned
  <2>2. job[c] # NoJob
    BY <1>2, <2>1 DEF AtWork, In, NoJob
  <2>3. walk'[c].pc = "idle" /\ \A d \in User \ {c} : walk'[d] = walk[d]
    BY <2>1 DEF PoolTypeOK, Idle
  <2>. QED  BY <2>1, <2>2, <2>3, GivenNodes
<1>5. ASSUME NEW c \in User, FreeNode(c) PROVE NodesInv'
  <2>1. /\ FixedFree(c, job[c].node) /\ job' = [job EXCEPT ![c] = NoJob] /\ UNCHANGED packets
        /\ walk' = walk /\ walk[c].pc = "idle" /\ job[c].for = "remove"
    BY <1>5 DEF FreeNode, poolVars, In
  <2>2. job[c] # NoJob
    BY <2>1 DEF NoJob
  <2>. QED  BY <2>1, <2>2, GivenNodes
<1>6. ASSUME NEW c \in User, Walking(c), UNCHANGED outboxVars PROVE NodesInv'
  <2>1. PICK w : walk' = [walk EXCEPT ![c] = w] /\ AtWork(w, job[c])
    <3>1. CASE MallocNext(c) \/ FreeNext(c)
      <4>. DEFINE w == [walk[c] EXCEPT !.prev = Cur(c), !.cur = mem[Cur(c)].next]
      <4>1. walk' = [walk EXCEPT ![c] = w]
        BY <3>1 DEF MallocNext, FreeNext, Advance
      <4>2. w.pc = walk[c].pc
        BY <3>1, Shapes DEF MallocNext, FreeNext
      <4>3. AtWork(w, job[c])
        BY <1>2, <4>2 DEF AtWork
      <4>. QED  BY <4>1, <4>3
    <3>2. CASE FreeHere(c)
      <4>1. walk' = [walk EXCEPT ![c] = Idle] /\ AtWork(Idle, job[c])
        BY <3>2 DEF FreeHere, Unlock, Idle, AtWork
      <4>. QED  BY <4>1
    <3>3. ASSUME NEW at, walk' = [walk EXCEPT ![c] = Answer(c, at)], In(c, "malloc")
          PROVE  AtWork(Answer(c, at), job[c])
      BY <1>2, <3>3 DEF AtWork, Answer, In
    <3>4. CASE MallocFails(c)
      <4>1. walk' = [walk EXCEPT ![c] = Answer(c, Null)] /\ In(c, "malloc")
        BY <3>4 DEF MallocFails, Unlock
      <4>. QED  BY <3>3, <4>1
    <3>5. CASE MallocWhole(c) \/ MallocSplit(c)
      <4>1. walk' = [walk EXCEPT ![c] = Answer(c, Cur(c))] /\ In(c, "malloc")
        BY <3>5 DEF MallocWhole, MallocSplit, Take, Unlock
      <4>. QED  BY <3>3, <4>1
    <3>. QED  BY <1>6, <3>1, <3>2, <3>4, <3>5 DEF Walking
  <2>. QED  BY <1>6, <2>1, PoolNodes
<1>. QED  BY <1>1, <1>3, <1>4, <1>5, <1>6, EmplaceNodes, KeptNodes, RemovedNodes DEF Next

\* No node of a client is lost, and none is used twice (Outbox.h:93-103, 248-254,
\* MqttClient.h:151-173).
THEOREM NodesAreKept == Spec => []NodesConserved
<1>1. Init => IInv
  BY InitIInv DEF Init
<1>2. IInv /\ [PoolNext]_poolVars => IInv'
  BY NextIInv
<1>3. IInv => PoolTypeOK
  BY IInvImplies
<1>. QED  BY <1>1, <1>2, <1>3, MemoryUsesPool, InitNodes, NextNodes, NodesImply, PTL DEF Spec, PoolSpec
=============================================================================
