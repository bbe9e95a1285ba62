SPECIFICATION HookFairSpec
CONSTANTS
  Wallet = {u1}
  NoWallet = NoWallet
  NoLimits = NoLimits
  MaxAge = 2
  MaxMoves = 0
PROPERTY StaleIsReplaced
