SPECIFICATION FairSpec
CONSTANTS
  MaxTurns = 3
  Untracked = {3}
  MaxBranch = 2
  MaxForks = 1
  MaxRewinds = 1
  MaxFaults = 2
  MaxCrashes = 2
INVARIANTS
  DiskSound
  ReplayShowsContext
PROPERTIES
  ImplementsAtomicRewind
  IntentSettles
\* All turns were begun, and nothing is left to restore.
CHECK_DEADLOCK FALSE
