------------------------------- MODULE Allocator -------------------------------
(****************************************************************************)
(* What the memory pool of src/src/MemoryPool/src/Variable.h promises: it   *)
(* hands out runs of units of its buffer that are free, the lowest that is  *)
(* long enough, and refuses only if there is none.  A unit is the size of a *)
(* block header; a block is the set of its units.                           *)
(****************************************************************************)
EXTENDS Naturals

CONSTANTS PoolSize,     \* units in the buffer
          Request,      \* numbers of units that may be asked for
          User,
          NoAnswer

VARIABLES taken,        \* the blocks handed out
          answer        \* what each user asked for and got, until it has seen it

Taken == UNION taken

Fits(a, n) == a + n <= PoolSize /\ (a .. a + n - 1) \cap Taken = {}

Init == taken = {} /\ answer = [u \in User |-> NoAnswer]

Reply(u, n, block) ==
  answer[u] = NoAnswer /\ answer' = [answer EXCEPT ![u] = [n |-> n, got |-> block]]

Alloc(u, n) ==
  \E a \in 0 .. PoolSize - 1 :
    /\ Fits(a, n)
    /\ \A lower \in 0 .. a - 1 : ~Fits(lower, n)
    /\ taken' = taken \cup {a .. a + n - 1}
    /\ Reply(u, n, a .. a + n - 1)

Refuse(u, n) ==
  /\ \A a \in 0 .. PoolSize - 1 : ~Fits(a, n)
  /\ Reply(u, n, {})
  /\ UNCHANGED taken

See(u) == answer' = [answer EXCEPT ![u] = NoAnswer] /\ UNCHANGED taken

Free == \E block \in taken : taken' = taken \ {block} /\ UNCHANGED answer

Next == Free \/ \E u \in User : See(u) \/ \E n \in Request : Alloc(u, n) \/ Refuse(u, n)

Spec == Init /\ [][Next]_<<taken, answer>>
=============================================================================
