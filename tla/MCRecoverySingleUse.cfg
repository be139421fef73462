SPECIFICATION Spec
CONSTANTS
  p1 = p1
  p2 = p2
  j1 = j1
  j2 = j2
  j3 = j3
  a = a
  b = b
  Nobody = Nobody
  Plans = {p1, p2}
  Jobs = {j1, j2}
  Contents = {a, b}
  Detached = TRUE
  MayClear = TRUE
  ApiMayCrash = TRUE
  MaxWrites = 1
  MaxIncident = 3
CONSTRAINT Explored
SYMMETRY Symmetry
CHECK_DEADLOCK FALSE
INVARIANTS RecoveryInv
PROPERTIES ApprovedState
