SPECIFICATION Spec
CONSTANTS
  s1 = s1
  c1 = c1
  Call <- TwoCalls
  StreamCall <- OneStream
  Caps <- CapOneTwo
  SendQueueSize = 1
  ChunkBuf = 1
  RespBuf = 1
  MaxCalls = 2
  MaxMsgs = 1
  MaxControl = 0
INVARIANT TypeOK
INVARIANT NoOrphanedCall
PROPERTY ImplementsContract
CHECK_DEADLOCK FALSE
