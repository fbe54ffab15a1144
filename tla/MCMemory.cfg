SPECIFICATION Spec
CONSTANTS
  NrBlocks = 3
  BlockSize = 2
  HeaderSize = 2
  Sizes = {0, 1, 3, 5}
  User = {c1, c2}
  Null = Null
  Data = Data
INVARIANTS PoolTypeOK BlocksDisjoint NothingLost NodesConserved DataHasOneOwner
PROPERTY ImplementsAllocator
CHECK_DEADLOCK FALSE
