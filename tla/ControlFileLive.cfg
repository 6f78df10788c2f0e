\* Processes stall, die and time out, or file calls fail.
SPECIFICATION FairSpec
CONSTANTS
  Procs = {p1, p2}
  NoProc = NoProc
  FaultSets = {{"crash", "slow", "stall"}, {"crash", "slow", "oserror"}}
  MaxTx = 2
INVARIANT WholeFile
PROPERTY NeverHangs
