SPECIFICATION FairSpec
CONSTANTS
  FailureThreshold = 2
  InitCap = 2
  DefaultInitCap = 2
  Http429Threshold = 1
  PersistedCaps = {1, 2, 3}
  Req = {r1}
  MaxRetries = 2
  ChunkBuf = 1
  MaxChunks = 2
INVARIANTS BreakerMatchesCount CleanEndHidesNoError
PROPERTIES EveryRequestEnds CapacityRecovers
CHECK_DEADLOCK FALSE
