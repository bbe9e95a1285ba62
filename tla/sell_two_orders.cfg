SPECIFICATION Spec
CONSTANTS
  Slot = {"s1", "s2"}
  Foreign = "foreign"
  Usdc = 2
  Fees = {0, 1}
  Unlimited = 9
  Policies = {"documented"}
  Accounts = {"alone"}
PROPERTY HandOffNeverCancels
CHECK_DEADLOCK FALSE
