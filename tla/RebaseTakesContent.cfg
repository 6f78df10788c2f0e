SPECIFICATION Spec
CONSTANTS
  Calls = {c}
  Paths = {"p"}
  Contents <- MCContents3
  Targets <- MCTargets1
  MaxTurns = 2
  MaxCalls = 1
  MaxRestores = 2
  MaxHands = 1
  MaxFaults = 0
  MaxCrashes = 0
  MaxTroubles = 3
PROPERTY RebaseRefreshesIdentity
CHECK_DEADLOCK FALSE
