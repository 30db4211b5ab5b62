CONSTANTS
  Worker <- MCWorker
  Request <- MCRequest
  Weights <- MCWeights
  MaxCands = 2
SPECIFICATION SchedulingSpec
INVARIANTS
  SelectedIsBest
  BetterNeverScoresLess
