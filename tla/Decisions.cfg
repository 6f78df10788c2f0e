\* Four decisions, room for three; a waiting execution may be interrupted.
SPECIFICATION FairDecisions
CONSTANTS
  b = b
  c = c
  q1 = q1
  q2 = q2
  q3 = q3
  g = g
  Asks = {b, c}
  AutoAsks = {c}
  NoAsk = NoAsk
  Decs = {q1, q2, q3, g}
  AskOf <- MCAskOf
  Cap = 3
INVARIANTS ReachedOnce ResultsSound
PROPERTY NoMissedAnswer
