SPECIFICATION Spec
CONSTANTS
  MarkerSpace <- MCMarkerSpace
  Trusted = {"owner"}
  Target = "ours"
  MaxInbox = 3
  MaxTime = 2
INVARIANTS ConsumedOnce NoiseIsIrrelevant
PROPERTIES SelectionNeverJumps
CHECK_DEADLOCK FALSE
