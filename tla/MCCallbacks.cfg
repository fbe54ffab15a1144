SPECIFICATION Spec
CONSTANTS
  Id = {i1, i2}
  Function = {f}
  Empty = empty
  MaxAdded = 4
  MaxEvents = 2
  RemovesRunning = FALSE
INVARIANTS NoDeadNode CalledInOrder NoneMissed
CHECK_DEADLOCK FALSE
