SPECIFICATION FairSpec
CONSTANTS
  w1 = w1
  w2 = w2
  w3 = w3
  e1 = e1
  e2 = e2
  e3 = e3
  d1 = d1
  d2 = d2
  NoWorker = NoWorker
  Empty = Empty
  Absent = Absent
  NoPlan = NoPlan
  Workers = {w1, w2, w3}
  Execs = {e1, e2, e3}
  Data = {d1, d2}
  ExecOf <- PublicationExecOf
  Kind <- PublicationKind
  ExternalWriters = FALSE
CHECK_DEADLOCK FALSE
CONSTRAINT OneRival
INVARIANTS TypeOK SettledLive SafetyInv LayersAgree
PROPERTIES CompensationRestores JournalBeforeMutation LockReleased
