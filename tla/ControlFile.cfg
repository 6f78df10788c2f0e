\* Three processes share the file: nothing goes wrong, deadlines pass, or
\* processes also stall and die, and transactions overlap.
SPECIFICATION Spec
CONSTANTS
  Procs = {p1, p2, p3}
  NoProc = NoProc
  FaultSets = {{}, {"slow"}, {"crash", "slow", "stall"}}
  MaxTx = 2
INVARIANTS OneTransaction TrailTrue HolderKeepsMarker GrantsAccounted
PROPERTY HandleStable
SYMMETRY Interchangeable
