SPECIFICATION Spec
CONSTANTS
  Thread = {t1}
  Threaded = TRUE
  KeepAlive = FALSE
  Retry = FALSE
  MayFail = TRUE
  Posix = TRUE
  MaxId = 3
  PubSize = 2
  WireCap = 1
  Msg = {1}
  BrokerMsg = {}
  Budget <- ReconnectsCalls
  None = None
  CleanSession = FALSE
  OutQos = {}
  ReusesIds = FALSE
  Refuses = TRUE
  LosesSession = TRUE
  MaxDrops = 1
INVARIANTS NoMessageLost Framing
CHECK_DEADLOCK FALSE
