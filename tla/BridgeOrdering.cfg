SPECIFICATION FairSpec
CONSTANTS
  s1 = s1
  s2 = s2
  r1 = r1
  h1 = h1
  none = none
  norequest = norequest
  Sessions = {s1, s2}
  Requests = {r1, h1}
  HealthProbes = {h1}
  MaxAlive = 1
  MaxCycles = 1
  MaxFaults = 1
  PosixRename = FALSE
  NoSession = none
  NoRequest = norequest
PROPERTIES ImplementsOrdering SessionEnds RecoveryCompletes
CHECK_DEADLOCK FALSE
