SPECIFICATION Spec
CONSTANTS
  MaxTurns = 3
  Untracked = {}
  MaxBranch = 3
  MaxForks = 1
  MaxRewinds = 0
  MaxFaults = 0
  MaxCrashes = 0
PROPERTIES
  EveryTurnSaved
CHECK_DEADLOCK FALSE
