SPECIFICATION Spec
CONSTANTS
  p1 = p1
  p2 = p2
  j1 = j1
  j2 = j2
  j3 = j3
  a = a
  b = b
  Nobody = Nobody
  Plans = {p1}
  Jobs = {j1}
  Contents = {a}
  Detached = TRUE
  MayClear = FALSE
  ApiMayCrash = FALSE
  MaxWrites = 0
  MaxIncident = 2
SYMMETRY Symmetry
CHECK_DEADLOCK FALSE
PROPERTIES NoMutationAfterClosure
