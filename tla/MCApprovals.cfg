SPECIFICATION RequestsSpec
CONSTANTS
  r1 = r1
  o1 = o1
  d1 = d1
  d2 = d2
  p1 = p1
  j1 = j1
  j2 = j2
  a = a
  b = b
  Nobody = Nobody
  Requests = {r1}
  Operators = {o1}
  DagRuns = {d1, d2}
  Dates = 2
  Plans = {p1}
  Jobs = {j1, j2}
  Contents = {a, b}
  Detached = TRUE
  MayClear = FALSE
  ApiMayCrash = FALSE
  MaxWrites = 1
  MaxIncident = 3
CHECK_DEADLOCK FALSE
INVARIANTS ApprovalInv OutcomesAreTrue ProjectionCurrent
PROPERTIES ImplementsSingleUse RecoveryImplementsSingleUse ClosureIsSafe ApprovalsSettle
