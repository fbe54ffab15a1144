SPECIFICATION Spec
CONSTANTS
  Radix = 3
  Sent <- Ordinary
  MaxTopic = 3
  PayloadBuffer = 4
  SizeWidth = 65536
  RxBuffer = 6
  Connections = 2
INVARIANTS DeliversWhatWasSent InStep ErrorsAreRight WithinBuffers DecodesWhatIsEncoded
CHECK_DEADLOCK FALSE
