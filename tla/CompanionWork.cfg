SPECIFICATION FairSpec
CONSTANTS
  p1 = p1
  p2 = p2
  good = good
  bad = bad
  plain = plain
  protocol = protocol
  d1 = d1
  d2 = d2
  None = None
  Proposals = {p1, p2}
  Versions = {good, bad}
  Broken = {bad}
  Goals = {plain, protocol}
  Wordings <- OneMayBeRefused
  Unfit = {protocol}
  Deciders = {d1, d2}
  Actions = {"accept", "revise"}
  Asks <- OneAccepts
  MaxTasks = 2
  MaxPreviews = 2
  MaxFaults = 1
INVARIANTS ApprovedOnly ExecutedOnce OutcomeIsKept AnswersStand NeverToldOtherwise
PROPERTY StartedWorkEnds
CHECK_DEADLOCK FALSE
