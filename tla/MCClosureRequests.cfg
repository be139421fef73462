SPECIFICATION FairSpec
CONSTANTS
  a1 = a1
  k1 = k1
  k2 = k2
  NoKey = NoKey
  Api = {a1}
  Keys = {k1}
  MaxRequests = 1
  MaxTime = 3
  MaxData = 1
  MaxRevision = 1
  MaxContract = 0
  Deadline = 1
  Lifetime = 1
  Events = {"airflow", "api", "task", "clear"}
CHECK_DEADLOCK FALSE
INVARIANTS PostedOnce
PROPERTIES LateIsIgnored RequestSettles
