\* A submit, two steers and an answer race the ends of turns, retries, a crash
\* and the end of input.
SPECIFICATION FairSpec
CONSTANTS
  SubmitOps = {s1}
  SteerOps = {t1, t2, t3}
  DecisionOps = {d1}
  Keyed = {s1, t1}
  MaxSends = 2
  MaxQueue = 2
  MaxKeys = 2
  Eof = Eof
INVARIANT ActsOnce
PROPERTIES ImplementsInstructions SteersInOrder EofEnds
