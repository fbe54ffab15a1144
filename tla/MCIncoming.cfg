SPECIFICATION Spec
CONSTANTS
  Thread = {t1}
  Threaded = FALSE
  KeepAlive = FALSE
  Retry = TRUE
  MayFail = FALSE
  Posix = FALSE
  MaxId = 3
  PubSize = 1
  WireCap = 2
  Msg = {1, 2}
  BrokerMsg = {1, 2}
  Budget <- IncomingCalls
  None = None
  CleanSession = FALSE
  OutQos = {1, 2}
  ReusesIds = FALSE
  Refuses = FALSE
  LosesSession = FALSE
  MaxDrops = 2
INVARIANTS AtMostOnceIn FinishedWasReceived
CHECK_DEADLOCK FALSE
