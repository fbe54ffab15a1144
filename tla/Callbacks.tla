------------------------------- MODULE Callbacks -------------------------------
(****************************************************************************)
(* The callbacks of src/src/MqttClientSetup.h for one kind of event: how    *)
(* the application adds and removes them, and how an event is passed on.    *)
(* With EMC_MULTIPLE_CALLBACKS they are a std::list of functions with ids,  *)
(* through which the event goes with an iterator; without, there is one     *)
(* function, which the next one replaces.                                   *)
(*                                                                          *)
(* The program that adds and removes callbacks is the one that calls        *)
(* loop(), so that it acts between two events or inside a callback.         *)
(****************************************************************************)
EXTENDS Integers, SequencesExt

CONSTANTS Id,             \* the ids that callbacks are given
          Function,       \* the functions
          Empty,          \* a std::function that holds none
          MaxAdded,       \* how many callbacks are added
          MaxEvents,      \* how many events occur
          RemovesRunning  \* a callback may remove or replace itself

ASSUME CallbacksAssumption ==
  /\ Empty \notin Function
  /\ MaxAdded \in Nat /\ MaxEvents \in Nat
  /\ RemovesRunning \in BOOLEAN

VARIABLES multiple,  \* EMC_MULTIPLE_CALLBACKS
          list,      \* _on...Callbacks; each node is known by its key
          added,     \* keys given out
          at,        \* the key of the iterator's node, or End
          running,   \* the callback that is being called is a copy of this node
          fault,     \* a node or a function was used after its end
          events,    \* events so far
          round      \* the nodes at the start of the event, and the keys called

vars == <<multiple, list, added, at, running, fault, events, round>>
dispatch == <<at, running, events, round>>

\* no node: the end of the list, or no callback
End == 0
NoNode == [key |-> End, id |-> CHOOSE i \in Id : TRUE, fn |-> Empty]

Keys(l) == {n.key : n \in Range(l)}
NodeOf(k) == CHOOSE n \in Range(list) : n.key = k

Init ==
  /\ multiple \in BOOLEAN
  /\ list = <<>> /\ added = 0
  /\ at = End /\ running = NoNode /\ fault = FALSE
  /\ events = 0
  /\ round = [open |-> FALSE, start |-> {}, called |-> <<>>]

InCallback == running # NoNode
AppMayAct == ~round.open \/ InCallback
-----------------------------------------------------------------------------
(* the application *)

\* Mutant: the newest callback comes first.
AddFirst(id, fn) ==
  /\ AppMayAct
  /\ added < MaxAdded
  /\ added' = added + 1
  /\ LET node == [key |-> added + 1, id |-> id, fn |-> fn]
     IN  IF multiple
         THEN list' = <<node>> \o list /\ UNCHANGED fault
         ELSE /\ list' = <<node>>
              /\ RemovesRunning \/ ~InCallback
              /\ fault' = (fault \/ InCallback)
  /\ UNCHANGED <<multiple, dispatch>>

\* onConnect(callback, id) and its like
AddCallback(id, fn) ==
  /\ AppMayAct
  /\ added < MaxAdded
  /\ added' = added + 1
  /\ LET node == [key |-> added + 1, id |-> id, fn |-> fn]
     IN  IF multiple
         THEN list' = Append(list, node) /\ UNCHANGED fault
         ELSE /\ list' = <<node>>
              /\ RemovesRunning \/ ~InCallback
              /\ fault' = (fault \/ InCallback)
  /\ UNCHANGED <<multiple, dispatch>>

\* Mutant: the loop goes on behind the first callback with the id.
RemoveAll(id) ==
  /\ AppMayAct
  /\ multiple
  /\ RemovesRunning \/ ~\E i \in 1 .. Len(list) :
                        /\ list[i].id = id /\ list[i].key = running.key
                        /\ \A j \in 1 .. i - 1 : list[j].id # id
  /\ list' = SelectSeq(list, LAMBDA n : n.id # id)
  /\ UNCHANGED <<multiple, added, fault, dispatch>>

\* removeOnConnect(id) and its like: the first callback with the id is removed.
RemoveCallback(id) ==
  /\ AppMayAct
  /\ multiple
  /\ IF \E n \in Range(list) : n.id = id
     THEN LET i == SelectInSeq(list, LAMBDA n : n.id = id)
          IN  /\ RemovesRunning \/ list[i].key # running.key
              /\ list' = RemoveAt(list, i)
     ELSE UNCHANGED list
  /\ UNCHANGED <<multiple, added, fault, dispatch>>
-----------------------------------------------------------------------------
(* an event *)

FirstKey == IF list = <<>> THEN End ELSE Head(list).key

\* ++it of the list, which reads the node
KeyAfter(k) ==
  LET i == SelectInSeq(list, LAMBDA n : n.key = k)
  IN  IF i < Len(list) THEN list[i + 1].key ELSE End

Event ==
  /\ ~round.open
  /\ events < MaxEvents
  /\ events' = events + 1
  /\ at' = FirstKey
  /\ round' = [open |-> TRUE, start |-> Range(list), called |-> <<>>]
  /\ UNCHANGED <<multiple, list, added, running, fault>>

\* for (auto callback : _on...Callbacks) if (callback.first) callback.first(...)
Call ==
  /\ round.open /\ ~InCallback
  /\ at \in Keys(list) /\ NodeOf(at).fn # Empty
  /\ running' = NodeOf(at)
  /\ round' = [round EXCEPT !.called = Append(@, at)]
  /\ UNCHANGED <<multiple, list, added, at, fault, events>>

\* What is done after a callback: the iterator goes to the next node.
Step ==
  /\ IF at \in Keys(list)
     THEN at' = KeyAfter(at) /\ UNCHANGED fault
     ELSE at' = End /\ fault' = TRUE
  /\ running' = NoNode
  /\ UNCHANGED <<multiple, list, added, events, round>>

\* Mutant: a function that is empty ends the loop.
SkipRest ==
  /\ round.open /\ ~InCallback
  /\ at \in Keys(list) /\ NodeOf(at).fn = Empty
  /\ at' = End
  /\ UNCHANGED <<multiple, list, added, running, fault, events, round>>

Skip ==
  /\ round.open /\ ~InCallback
  /\ at \in Keys(list) /\ NodeOf(at).fn = Empty
  /\ Step

Return == InCallback /\ Step

Finish ==
  /\ round.open /\ ~InCallback /\ at = End
  /\ round' = [round EXCEPT !.open = FALSE]
  /\ UNCHANGED <<multiple, list, added, at, running, fault, events>>

AppNext == \E id \in Id : \/ \E fn \in Function \cup {Empty} : AddCallback(id, fn)
                         \/ RemoveCallback(id)

Next == AppNext \/ Event \/ Call \/ Skip \/ Return \/ Finish

Spec == Init /\ [][Next]_vars
-----------------------------------------------------------------------------
\* No iterator is advanced, and no function called, that was erased meanwhile:
\* the loops of lines 213-231 copy the callback and advance the iterator after
\* the call, so that a callback may add any others and remove any but itself.
NoDeadNode == ~fault

\* Each callback is called at most once for an event, in the order in which they
\* were added, whatever callbacks add and remove meanwhile (lines 81-139, 213-231).
CalledInOrder ==
  \A i, j \in 1 .. Len(round.called) : i < j => round.called[i] < round.called[j]

\* An event that has been passed on has reached each callback that was there
\* when it came and was not removed before its turn (lines 141-201, 213-231).
NoneMissed ==
  round.open /\ ~InCallback /\ at = End =>
    \A node \in round.start \cap Range(list) :
      node.fn # Empty => node.key \in Range(round.called)
=============================================================================
