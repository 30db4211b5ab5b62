SPECIFICATION FairSpec
CONSTANTS
  s1 = s1
  s2 = s2
  s3 = s3
  w1 = w1
  w2 = w2
  natIP = natIP
  lanIP = lanIP
  None = None
  Sock <- ThreeSocks
  Worker <- TwoWorkers
  IP <- IPs
  WorkerOf <- OwnerOf3
  PeerOf <- SamePeer3
  SelfIP <- LanAddress
  MaxConnections = 1
INVARIANT SlotAccounting
INVARIANT ConnectionCap
INVARIANT MapHoldsLiveConnections
PROPERTY SuccessorKeepsItsEntry
PROPERTY SupersededConnectionEnds
PROPERTY DepartedWorkerForgotten
CHECK_DEADLOCK FALSE
