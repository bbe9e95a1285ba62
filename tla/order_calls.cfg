SPECIFICATION FairSpec
CONSTANTS
  Intent <- MCIntent
  Action <- MCAction
  Wait <- MCWait
  HasAccount <- MCHasAccount
  RetryOn <- MCSafeRetry
  MaxTries = 2
INVARIANT HonestErrors
INVARIANT OneEffect
PROPERTY PreparationEnds
CHECK_DEADLOCK FALSE
