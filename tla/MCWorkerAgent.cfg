SPECIFICATION AgentFairSpec
CONSTANT MaxReloads = 1
PROPERTIES EveryLoopEnds LatestConfigWins DeclaredModelSurvives
CHECK_DEADLOCK FALSE
