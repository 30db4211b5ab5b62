SPECIFICATION FairSpec
CONSTANTS
  w1 = w1
  w2 = w2
  Worker <- TwoWorkers
  Timely <- OneTimely
  UnavailableTTL = 1
  RemoveTTL = 2
  ChanCap = 2
  MaxSubFailures = 1
  MaxEvents = 3
INVARIANT ReplayMatchesRegistry
INVARIANT StatsOnlyForCached
PROPERTY SilentWorkersForgotten
CHECK_DEADLOCK FALSE
