SPECIFICATION Spec
CONSTANTS
  s1 = s1
  s2 = s2
  s3 = s3
  r1 = r1
  none = none
  norequest = norequest
  Sessions = {s1, s2, s3}
  Requests = {r1}
  HealthProbes = {}
  MaxAlive = 1
  MaxCycles = 2
  MaxFaults = 3
  PosixRename = TRUE
  NoSession = none
  NoRequest = norequest
VIEW SharedView
SYMMETRY SessionSymmetry
INVARIANTS TypeOK RunAtMostOnce OneRunnerAtATime InFlightUnderLock RecordedOnce RecordsAreBacked
PROPERTY InFlightEndsSettled
CHECK_DEADLOCK FALSE
