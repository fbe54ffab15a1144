SPECIFICATION Spec
CONSTANTS
  Thread = {t1}
  Threaded = FALSE
  KeepAlive = FALSE
  Retry = TRUE
  MayFail = FALSE
  Posix = FALSE
  MaxId = 3
  PubSize = 2
  WireCap = 2
  Msg = {1}
  BrokerMsg = {}
  Budget <- FramingRetryCalls
  None = None
  CleanSession = FALSE
  OutQos = {}
  ReusesIds = FALSE
  Refuses = FALSE
  LosesSession = FALSE
  MaxDrops = 0
INVARIANTS Framing
CHECK_DEADLOCK FALSE
