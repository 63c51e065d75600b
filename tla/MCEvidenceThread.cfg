SPECIFICATION Spec
CONSTANTS
  CommentSpace <- MCCommentSpace
  Request <- MCRequest
  Trusted = {"owner"}
  MaxComments = 3
INVARIANT SettlesOnlyOnOneTrustedMatch
PROPERTY AnswerOnlyDegrades
CHECK_DEADLOCK FALSE
