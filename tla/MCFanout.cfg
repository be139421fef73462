SPECIFICATION FairSpec
CONSTANTS
  w1 = w1
  w2 = w2
  w3 = w3
  Workers = {w1, w2, w3}
  Required = {w1}
  Plans <- MCPlans
  TaskCalls = 2
  TaskTokens = 3
  ParentCalls = 6
  ParentTokens = 9
  Projected = 2
  ActualTokens = {1, 3}
  MaxConcurrency = 2
  MaxReruns = 1
CHECK_DEADLOCK FALSE
INVARIANTS WithinBudget EvidenceInv
PROPERTIES RerunContinues RequestEnds
