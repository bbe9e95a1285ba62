SPECIFICATION ClientSpec
CONSTANTS
  Slot = {"s1", "s2"}
  Foreign = "foreign"
  Usdc = 2
  Fees = {0, 1}
  Unlimited = 9
  Policies = {"oneAtATime", "unlimited"}
  Accounts = {"bundled", "behind"}
  PageSize = 2
  MaxLedger = 4
  MaxDay = 1
  Cap = {0, 2}
  FirstCap = 2
  NoQuota = NoQuota
INVARIANT ReportedOrderIsOwn
INVARIANT ListIsWhole
INVARIANT QuotaSpeaksForContract
PROPERTY HandOffNeverCancels
CHECK_DEADLOCK FALSE
