SPECIFICATION Spec
CONSTANTS
  MerchantId <- Merchants
  earnBps <- Rates
  dailyCap <- Caps
  TIERS <- Tiers
  STREAK_LIMIT = 2
  BASIS_POINTS_DENOMINATOR = 2
  MAX_SAFE_INTEGER = 6
  ReceiptInput <- Inputs
  NotAnInteger = NotAnInteger
  firstMerchant = "orbit"
  firstUnits = 2
  MaxU64 = 12
INVARIANT TierAgrees
PROPERTY DemoImplementsCore
