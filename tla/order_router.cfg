SPECIFICATION RouterFairSpec
CONSTANTS
  Circle <- MCCircle
  Lists <- MCLists
  StatusOf <- MCStatus
  ScoreOf <- MCScore
  MerchantsOf <- MCMerchants
  CurrencyOf <- MCCurrency
  Wanted = "INR"
  MaxAttempts = 3
  NoCircle = NoCircle
  Timeout = 2
  BACKOFF = 1
  Reply = {"data", "HTTP_4xx", "GRAPHQL_ERROR", "NO_DATA", "not_JSON"}
INVARIANT GivesUpOnlyWhenRefused
INVARIANT AnswerIsAccepted
INVARIANT RidesOutOutage
PROPERTY SelectionEnds
CHECK_DEADLOCK FALSE
