SPECIFICATION FairSpec
CONSTANTS
  Thread = {t1}
  Threaded = FALSE
  KeepAlive = TRUE
  Retry = TRUE
  MayFail = FALSE
  Posix = FALSE
  MaxId = 1
  PubSize = 1
  WireCap = 2
  Msg = {1}
  BrokerMsg = {}
  Budget <- LifecycleCalls
  None = None
  CleanSession = FALSE
  OutQos = {}
  ReusesIds = FALSE
  Refuses = FALSE
  LosesSession = FALSE
  MaxDrops = 1
INVARIANTS Balanced ConnectFirst PingIsPending
PROPERTIES TeardownIsFinal ConnectEnds DisconnectEnds ForcedDisconnectEnds AllIsAcked
CHECK_DEADLOCK FALSE
