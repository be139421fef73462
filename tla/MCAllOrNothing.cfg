SPECIFICATION Spec
CONSTANTS
  w1 = w1
  w2 = w2
  w3 = w3
  e1 = e1
  e2 = e2
  e3 = e3
  d1 = d1
  d2 = d2
  NoWorker = NoWorker
  Empty = Empty
  Absent = Absent
  NoPlan = NoPlan
  Workers = {w1}
  Execs = {e1}
  Data = {d1}
  ExecOf <- SoloExecOf
  Kind <- SoloKind
  ExternalWriters = FALSE
CHECK_DEADLOCK FALSE
INVARIANTS RecoveryAllOrNothing
