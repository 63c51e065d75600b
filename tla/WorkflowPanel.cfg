SPECIFICATION PanelSpec
CONSTANTS
  LastRequest = 2
  Verdicts <- SomeVerdicts
  Answers <- SomeAnswers
  Routings <- SomeRoutings
  MaxComments = 1
  MaxStarts = 2
  MaxFaults = 1
  MaxMoves = 0
INVARIANTS PanelIsTrue NothingOlderIsShown
CHECK_DEADLOCK FALSE
