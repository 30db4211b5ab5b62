SPECIFICATION FairSpec
CONSTANTS
  c1 = c1
  c2 = c2
  w1 = w1
  WConn = {c1, c2}
  Worker = {w1}
  WorkerOf <- MCWorkerOf
  SendQueueSize = 1
  MaxRouters = 2
  MaxFrames = 1
  MaxEvents = 4
INVARIANTS NoFrameTwice SuccessorKeepsLink RegisterNotStranded NoRouteToEndedConnection
PROPERTIES LostRouterIsReleased
CHECK_DEADLOCK FALSE
