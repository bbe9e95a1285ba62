SPECIFICATION WatchFairSpec
CONSTANTS
  Kind = {"placed", "accepted"}
  User = {"me"}
  Anyone = Anyone
  Watched = {"me"}
  InlineStore = TRUE
  MaxLog = 1
  MaxOrders = 1
PROPERTY EveryEventArrives
CHECK_DEADLOCK FALSE
