SPECIFICATION FairSpec
CONSTANTS
  LastRequest = 2
  Verdicts <- SomeVerdicts
  Answers <- SomeAnswers
  Routings <- SomeRoutings
  MaxComments = 2
  MaxStarts = 2
  MaxFaults = 1
  MaxMoves = 1
INVARIANTS CandidateFirst
PROPERTIES VerdictsAreExact VerdictArrives
CHECK_DEADLOCK FALSE
