\* Three calls ask, answers come in any order, twice, late or never.
SPECIFICATION FairSpec
CONSTANTS
  a1 = a1
  a2 = a2
  b1 = b1
  Calls = {a1, a2, b1}
  NoCall = NoCall
  Prompts = {"a", "b"}
  PromptOf <- MCPromptOf
  DefaultOf <- MCDefaultOf
  Slots = 1
INVARIANTS FailsClosedAloud TicketsTrue
PROPERTY EveryAskReturns
