SPECIFICATION Spec
CONSTANTS
  Thread = {t1}
  Threaded = TRUE
  KeepAlive = FALSE
  Retry = TRUE
  MayFail = FALSE
  Posix = FALSE
  MaxId = 3
  PubSize = 1
  WireCap = 2
  Msg = {1}
  BrokerMsg = {}
  Budget <- OutgoingCalls
  None = None
  CleanSession = FALSE
  OutQos = {}
  ReusesIds = FALSE
  Refuses = FALSE
  LosesSession = FALSE
  MaxDrops = 1
INVARIANTS TypeOK ExchangeIsKept AtMostOnceOut NothingAfterDisconnect
PROPERTIES DupMarksRetransmission CleanDisconnectFlushes
CHECK_DEADLOCK FALSE
