SPECIFICATION FairSpec
CONSTANTS
  Radix = 5
  MaxString = 65535
  RxBuffer = 3
  TxBuffer = 3
  None = None
  Requests <- AllRequests
  Retries = 2
INVARIANTS InsideMemory SaysWhatWasAsked
PROPERTY SentInTheEnd
CHECK_DEADLOCK FALSE
