SPECIFICATION FairSpec
CONSTANTS
  r1 = r1
  ws = ws
  http = http
  optout = optout
  Req <- OneReq
  Worker <- AllWorkers
  WSWorker <- WS
  Willing <- TwoWorkers
  MaxAttempts = 2
  MaxPosts = 2
  Cap = 1
  IncludeUnloaded = FALSE
  MaxChanges = 2
INVARIANT TraceMatchesAnswer
 
INVARIANT GivesUpOnlyWhenTried
PROPERTY EveryRequestAnswered
CHECK_DEADLOCK FALSE
