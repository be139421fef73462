SPECIFICATION Spec
CONSTANTS
  a1 = a1
  k1 = k1
  k2 = k2
  NoKey = NoKey
  Api = {a1}
  Keys = {k1, k2}
  MaxRequests = 1
  MaxTime = 2
  MaxData = 2
  MaxRevision = 3
  MaxContract = 1
  Deadline = 1
  Lifetime = 1
  Events = {"remedy", "recheck"}
CHECK_DEADLOCK FALSE
SYMMETRY Symmetric
INVARIANTS ClosureInv
PROPERTIES ClosedOnProof
