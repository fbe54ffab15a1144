SPECIFICATION Spec
CONSTANTS
  Radix = 3
  Sent <- LongTopics
  MaxTopic = 3
  PayloadBuffer = 4
  SizeWidth = 65536
  RxBuffer = 6
  Connections = 2
INVARIANTS DeliversWhatWasSent
CHECK_DEADLOCK FALSE
