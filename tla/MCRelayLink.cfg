SPECIFICATION FairSpec
CONSTANTS
  Call = {k1, k2}
  StreamCall = {k2}
  Caps = {1, 2}
  DefaultCap = 1
  SendQueueSize = 1
  DataBuf = 1
  MaxDials = 2
  MaxMsgs = 1
  MaxEvents = 3
INVARIANT CountMatchesCalls
PROPERTIES ImplementsContract EveryRelayCallReturns DroppedLinkIsRedialled
CHECK_DEADLOCK FALSE
