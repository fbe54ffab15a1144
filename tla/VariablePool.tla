------------------------------ MODULE VariablePool ------------------------------
(****************************************************************************)
(* src/src/MemoryPool/src/Variable.h at the level of its block headers: a   *)
(* buffer in units of sizeof(BlockHeader), and a list of free blocks that   *)
(* is sorted by address, linked through headers in the buffer itself.       *)
(*                                                                          *)
(* malloc() and free() walk the list, one block in a step, while they hold  *)
(* the mutex.  What a user may write is taken to be written: the units of   *)
(* an allocated block behind its header are Data, with no next or size.     *)
(****************************************************************************)
EXTENDS Integers, FiniteSets

CONSTANTS NrBlocks, BlockSize,  \* the parameters of the template
          HeaderSize,           \* sizeof(BlockHeader)
          Sizes,                \* bytes that are asked for
          User,                 \* threads that use the pool
          Null,                 \* nullptr
          Data

\* Whole units that hold this many bytes.
Ceil(bytes) == bytes \div HeaderSize + IF bytes % HeaderSize = 0 THEN 0 ELSE 1

PoolSize == NrBlocks * (Ceil(BlockSize) + 1)
Unit == 0 .. PoolSize - 1

ASSUME PoolAssumption ==
  /\ NrBlocks \in Nat \ {0} /\ BlockSize \in Nat /\ HeaderSize \in Nat \ {0}
  /\ Sizes \subseteq Nat
  /\ Null \notin Int /\ Null \notin User
  /\ Data \notin [next : Unit \cup {Null}, size : 1 .. PoolSize]

VARIABLES mem,          \* _buffer: a header, or Data, in each unit
          head,         \* _head
          mutex,        \* its holder
          walk,         \* the locals of each thread in malloc() or free()
          owned         \* blocks handed out: the unit of the header, the bytes

poolVars == <<mem, head, mutex, walk, owned>>

Address == Unit \cup {Null}
Header == [next : Address, size : 1 .. PoolSize]
Block == [at : Unit, bytes : Sizes \ {0}]
Idle == [pc |-> "idle"]

\* A header and the bytes behind it.
Extent(b) == b.at .. b.at + Ceil(b.bytes)

Units(bytes) == Ceil(bytes) + 1

\* Mutant: the mutex is not looked at.
LockIgnored(u) == mutex' = u

Lock(u) == mutex = Null /\ mutex' = u
Unlock(u, result) == mutex' = Null /\ walk' = [walk EXCEPT ![u] = result]

\* What currentBlock points to.
In(u, pc) == walk[u].pc = pc
Cur(u) == walk[u].cur
Advance(u) ==
  /\ walk' = [walk EXCEPT ![u].prev = Cur(u), ![u].cur = mem[Cur(u)].next]
  /\ UNCHANGED <<mem, head, mutex, owned>>
-----------------------------------------------------------------------------
\* For 0 bytes malloc() returns nullptr at once.
Malloc(u, bytes) ==
  /\ In(u, "idle") /\ bytes # 0
  /\ Lock(u)
  /\ walk' = [walk EXCEPT ![u] = [pc |-> "malloc", bytes |-> bytes,
                                  cur |-> head, prev |-> Null]]
  /\ UNCHANGED <<mem, head, owned>>

Want(u) == Units(walk[u].bytes)
Answer(u, at) == [pc |-> "done", at |-> at, bytes |-> walk[u].bytes]

MallocNext(u) ==
  /\ In(u, "malloc") /\ Cur(u) # Null
  /\ mem[Cur(u)].size < Want(u)
  /\ Advance(u)

\* The free block at the cursor is handed out, and rest takes its place.
Take(u, m, rest) ==
  LET b == [at |-> Cur(u), bytes |-> walk[u].bytes]
      linked == IF walk[u].prev = Null THEN m ELSE [m EXCEPT ![walk[u].prev].next = rest]
  IN  /\ mem' = [x \in Unit |->
                   IF x = b.at THEN [next |-> Null, size |-> Want(u)]
                   ELSE IF x \in Extent(b) THEN Data ELSE linked[x]]
      /\ head' = IF b.at = head THEN rest ELSE head
      /\ owned' = owned \cup {b}
      /\ Unlock(u, Answer(u, b.at))

MallocWhole(u) ==
  /\ In(u, "malloc") /\ Cur(u) # Null
  /\ mem[Cur(u)].size = Want(u)
  /\ Take(u, mem, mem[Cur(u)].next)

\* Mutant: a block that is just large enough is split, too.
MallocSplitAll(u) ==
  /\ In(u, "malloc") /\ Cur(u) # Null
  /\ mem[Cur(u)].size >= Want(u)
  /\ LET rest == Cur(u) + Want(u)
     IN  Take(u, [mem EXCEPT ![rest] = [next |-> mem[Cur(u)].next,
                                        size |-> mem[Cur(u)].size - Want(u)]], rest)

\* The second part of a larger block stays free.
MallocSplit(u) ==
  /\ In(u, "malloc") /\ Cur(u) # Null
  /\ mem[Cur(u)].size > Want(u)
  /\ LET rest == Cur(u) + Want(u)
     IN  Take(u, [mem EXCEPT ![rest] = [next |-> mem[Cur(u)].next,
                                        size |-> mem[Cur(u)].size - Want(u)]], rest)

MallocFails(u) ==
  /\ In(u, "malloc") /\ Cur(u) = Null
  /\ Unlock(u, Answer(u, Null))
  /\ UNCHANGED <<mem, head, owned>>

\* The caller has its pointer.
Returned(u) ==
  /\ In(u, "done")
  /\ walk' = [walk EXCEPT ![u] = Idle]
  /\ UNCHANGED <<mem, head, mutex, owned>>
-----------------------------------------------------------------------------
\* free() of a block that was handed out.  In an empty list it is the only one.
Free(u, b) ==
  /\ In(u, "idle") /\ b \in owned
  /\ owned' = owned \ {b}
  /\ IF head = Null
     THEN /\ mutex = Null
          /\ head' = b.at
          /\ UNCHANGED <<mutex, walk>>
     ELSE /\ Lock(u)
          /\ walk' = [walk EXCEPT ![u] = [pc |-> "free", block |-> b.at,
                                          cur |-> head, prev |-> 0]]
          /\ UNCHANGED head
  /\ UNCHANGED <<mem>>

Behind(u) == Cur(u) # Null /\ walk[u].block >= Cur(u)

FreeNext(u) ==
  /\ In(u, "free") /\ Behind(u)
  /\ Advance(u)

\* Mutant: blocks that are not adjacent are merged, too.
MergeNextAlways(m, f, next) ==
  IF next # Null
  THEN [m EXCEPT ![f] = [next |-> m[next].next, size |-> @.size + m[next].size]]
  ELSE m

\* Mutant: the second merge is forgotten.
MergeNextForgotten(m, f, next) == m

\* The block at f and the free one behind it become one, if they are adjacent.
MergeNext(m, f, next) ==
  IF f + m[f].size = next
  THEN [m EXCEPT ![f] = [next |-> m[next].next, size |-> @.size + m[next].size]]
  ELSE m

\* The block goes into the list, in front of the cursor, and is merged with its
\* neighbours.
FreeHere(u) ==
  LET f == walk[u].block
      prev == walk[u].prev
      next == Cur(u)
      first == f < head
      linked == IF first THEN [mem EXCEPT ![f].next = head]
                ELSE [mem EXCEPT ![prev].next = f, ![f].next = next]
      adjacent == ~first /\ f > head /\ f = prev + linked[prev].size
  IN  /\ In(u, "free") /\ ~Behind(u)
      /\ head' = IF first THEN f ELSE head
      /\ mem' = IF adjacent
                THEN MergeNext([linked EXCEPT ![prev] = [next |-> linked[f].next,
                                                        size |-> @.size + linked[f].size]],
                               prev, next)
                ELSE MergeNext(linked, f, next)
      /\ Unlock(u, Idle)
      /\ UNCHANGED owned
-----------------------------------------------------------------------------
PoolInit ==
  /\ mem = [x \in Unit |-> IF x = 0 THEN [next |-> Null, size |-> PoolSize] ELSE Data]
  /\ head = 0
  /\ mutex = Null
  /\ walk = [u \in User |-> Idle]
  /\ owned = {}

Walking(u) ==
  \/ MallocNext(u) \/ MallocWhole(u) \/ MallocSplit(u) \/ MallocFails(u)
  \/ FreeNext(u) \/ FreeHere(u)

PoolNext == \E u \in User :
  \/ \E bytes \in Sizes : Malloc(u, bytes)
  \/ \E b \in owned : Free(u, b)
  \/ Walking(u) \/ Returned(u)

PoolSpec == PoolInit /\ [][PoolNext]_poolVars
-----------------------------------------------------------------------------
Walk ==
  [pc : {"idle"}]
  \cup [pc : {"malloc"}, bytes : Sizes \ {0}, cur : Address, prev : Address]
  \cup [pc : {"done"}, bytes : Sizes \ {0}, at : Address]
  \cup [pc : {"free"}, block : Unit, cur : Address, prev : Unit]

PoolTypeOK ==
  /\ mem \in [Unit -> Header \cup {Data}]
  /\ head \in Address
  /\ mutex \in User \cup {Null}
  /\ walk \in [User -> Walk]
  /\ owned \subseteq Block

\* No two blocks that malloc() handed out share a unit, header or data, and all
\* lie in the buffer, whatever is allocated and freed in which order by which
\* threads (Variable.h:51-160).
BlocksDisjoint ==
  /\ \A b \in owned : Extent(b) \subseteq Unit
  /\ \A b, c \in owned : b # c => Extent(b) \cap Extent(c) = {}

\* n is the first of F behind x.
Follows(F, x, n) ==
  /\ n # Null => n \in F /\ x < n
  /\ \A b \in F : x < b => n # Null /\ n <= b

\* The list that begins at h is F, sorted.
Chain(F, m, h) ==
  /\ Follows(F, -1, h)
  /\ \A a \in F : Follows(F, a, m[a].next)

\* Whenever the mutex is free, the blocks of the free list, which is sorted, and those
\* handed out make up the buffer: no unit is lost, and free neighbours have become
\* one block (Variable.h:129-160).
NothingLost ==
  mutex = Null =>
    \E F \in SUBSET Unit :
      /\ Chain(F, mem, head)
      /\ \A x \in Unit : \/ \E a \in F : a <= x /\ x < a + mem[a].size
                         \/ \E b \in owned : x \in Extent(b)
      /\ \A a \in F : a + mem[a].size \notin F

A == INSTANCE Allocator WITH
       Request <- {Cardinality(Extent([at |-> 0, bytes |-> n])) : n \in Sizes \ {0}},
       NoAnswer <- Null,
       taken <- {Extent(b) : b \in owned},
       answer <- [u \in User |->
         IF In(u, "done")
         THEN [n |-> Cardinality(Extent([walk[u] EXCEPT !.at = 0])),
               got |-> IF walk[u].at = Null THEN {} ELSE Extent(walk[u])]
         ELSE Null]

\* The pool is a first-fit allocator: it gives the lowest free run that is long
\* enough, and refuses only if no free run is (Variable.h:51-107).
ImplementsAllocator == A!Spec
=============================================================================
