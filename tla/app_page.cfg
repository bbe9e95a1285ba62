SPECIFICATION AppFairSpec
CONSTANTS
  Wallet = {u1, u2}
  NoWallet = NoWallet
  NoLimits = NoLimits
  MaxAge = 1
  MaxMoves = 2
  Kind = {"placed", "accepted"}
  User = {"me", "other"}
  Anyone = Anyone
  Watched = {"me", Anyone}
  InlineStore = FALSE
  MaxLog = 2
  MaxOrders = 1
  Buy = {"first", "second", "steps"}
  Manual = {"steps"}
  MaxRuns = 2
  Log = {3}
  Preload = {4}
  Id = {"v1"}
INVARIANT ShowsOwnCounts
INVARIANT OnceInOrder
INVARIANT OnlyInGap
INVARIANT RejectionStops
INVARIANT LinksOwnOrder
INVARIANT ShowsNewestRun
PROPERTY SpinnersStop
PROPERTY YesterdayGoes
PROPERTY EveryEventArrives
PROPERTY CallSettles
CHECK_DEADLOCK FALSE
