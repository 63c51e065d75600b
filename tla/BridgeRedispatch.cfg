SPECIFICATION Spec
CONSTANTS
  s1 = s1
  s2 = s2
  s3 = s3
  r1 = r1
  none = none
  norequest = norequest
  Sessions = {s1, s2, s3}
  Requests = {r1}
  HealthProbes = {}
  MaxAlive = 2
  MaxCycles = 1
  MaxFaults = 1
  PosixRename = FALSE
  NoSession = none
  NoRequest = norequest
VIEW SharedView
SYMMETRY SessionSymmetry
INVARIANT RunAtMostOnce
CHECK_DEADLOCK FALSE
