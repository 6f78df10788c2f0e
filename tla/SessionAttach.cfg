\* Four processes attach: to a session nobody owns, or to one whose owner, one of the
\* four, was killed; three of them where binds and publications fail as well, and
\* where owners stop and processes die.
SPECIFICATION FairAttachSpec
CONSTANTS
  Procs = {p1, p2, p3, p4}
  NoProc = NoProc
  Few = {p1, p2, p3}
  FaultSets = {{}, {"killed"}, {"oserror"}, {"killed", "oserror"}, {"stop", "crash"}}
INVARIANTS OneAnnounced PeersReachOwner
PROPERTY NobodyWaitsForEver
