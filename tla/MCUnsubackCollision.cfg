SPECIFICATION Spec
CONSTANTS
  Thread = {t1}
  Threaded = FALSE
  KeepAlive = FALSE
  Retry = TRUE
  MayFail = FALSE
  Posix = FALSE
  MaxId = 3
  PubSize = 1
  WireCap = 2
  Msg = {1}
  BrokerMsg = {1}
  Budget <- UnsubackCollisionCalls
  None = None
  CleanSession = FALSE
  OutQos = {2}
  ReusesIds = FALSE
  Refuses = FALSE
  LosesSession = FALSE
  MaxDrops = 1
INVARIANTS AtMostOnceIn
CHECK_DEADLOCK FALSE
