SPECIFICATION FairSpec
CONSTANTS
  MaxSessions = 3
  Requests = {r1}
  Reports <- SomeReports
  Trees <- SomeTrees
  Base = "base"
  MaxFaults = 2
  NoRequest = NoRequest
  NoReport = NoReport
INVARIANTS RunAtMostOnce OneEnd TombstoneIsBacked SuccessIsWitnessed
PROPERTY RecoveryFinishes
CHECK_DEADLOCK FALSE
