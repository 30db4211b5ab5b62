SPECIFICATION FairSpec
CONSTANTS
  s1 = s1
  c1 = c1
  Call <- TwoCalls
  StreamCall <- OneStream
  Caps <- CapOne
  SendQueueSize = 1
  ChunkBuf = 1
  RespBuf = 1
  MaxCalls = 1
  MaxMsgs = 2
  MaxControl = 1
INVARIANT SuccessNeedsAnswer
PROPERTY EveryCallReturns
PROPERTY CapacityComesBack
CHECK_DEADLOCK FALSE
