SPECIFICATION Spec
CONSTANTS
  Calls = {c}
  Paths = {"p", "q"}
  Contents <- MCContents
  Targets <- MCTargets
  MaxTurns = 2
  MaxCalls = 1
  MaxRestores = 2
  MaxHands = 1
  MaxFaults = 1
  MaxCrashes = 1
  MaxTroubles = 3
INVARIANT ReportIsTrue
PROPERTY PersonKeepsFiles
CHECK_DEADLOCK FALSE
