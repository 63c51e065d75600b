SPECIFICATION Spec
CONSTANTS
  LastRun = 2
  Task <- OneTask
  Frames <- SomeFrames
  MaxFrames = 1
  Wanted = {2}
  Limit = 2
  MaxFaults = 2
  MaxDrops = 1
INVARIANTS TypeOK ReplayIsExact OkIsReplayed CurrentIsNewest
CHECK_DEADLOCK FALSE
