SPECIFICATION FairSpec
CONSTANTS
  r1 = r1
  r2 = r2
  p1 = p1
  torn = torn
  nostate = nostate
  unreadable = unreadable
  Requests = {r1, r2}
  Scanners = {p1}
  MaxChunks = 4
  MaxFaults = 2
  Torn = torn
  NoState = nostate
  Unreadable = unreadable
INVARIANTS NeverShownTwice EntriesAreTrue NoneIsSkipped
PROPERTY EveryRecordIsNoticed
CHECK_DEADLOCK FALSE
