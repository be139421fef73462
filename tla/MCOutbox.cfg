SPECIFICATION FairSpec
CONSTANTS
  r1 = r1
  r2 = r2
  u1 = u1
  u2 = u2
  NoReport = NoReport
  NoRequest = NoRequest
  w1 = w1
  Writers = {w1}
  Legacy = {"open"}
  Requests = {r1}
  Reports = {u1}
  DiscordConfigured = TRUE
  MaxRevision = 3
  MaxChecks = 1
CHECK_DEADLOCK FALSE
INVARIANTS SyncInv
PROPERTIES NoStepBack FailureReopens Converges
