SPECIFICATION PageFairSpec
CONSTANTS
  Poll = {"first", "second"}
  Resumed = FALSE
  Github = TRUE
  Flow = {"aborted", "next"}
  Call = {"a", "b"}
  MaxSessions = 2
INVARIANT PollsUntilProof
INVARIANT AnswerSettles
INVARIANT RestartsOnlyWhenDead
INVARIANT SpentIsHeld
INVARIANT TransactionIsEarned
PROPERTY QuietAfterAbort
PROPERTY PollingEnds
PROPERTY SuccessIsEarned
CHECK_DEADLOCK FALSE
