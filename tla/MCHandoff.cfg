SPECIFICATION FairSpec
CONSTANTS
  r1 = r1
  r2 = r2
  Runs = {r1, r2}
  MaxRetries = 1
  Threshold = 2
INVARIANTS BudgetInv OutcomeOnce
PROPERTIES DeadlineIsHard CircuitRecovers
