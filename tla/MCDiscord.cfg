SPECIFICATION DiscordSpec
CONSTANTS
  t1 = t1
  t2 = t2
  q1 = q1
  q2 = q2
  f1 = f1
  f2 = f2
  Nobody = Nobody
  Tasks = {t1, t2}
  Requests = {q1, q2}
  MaxGeneration = 1
  MaxFaults = 2
  Flushers = {f1, f2}
  MaxEvent = 2
  Limit = 1
  MaxErrors = 2
CHECK_DEADLOCK FALSE
INVARIANTS OneWorkspace OneInvestigation OutboxInv
PROPERTIES FoundAgain
