SPECIFICATION CallsSpec
CONSTANTS
  MerchantId <- Ids
  MaxU64 = 4
  MAX_TIER_COUNT = 1
  BASIS_POINTS_DENOMINATOR = 2
  Epoch <- Epochs
  MerchantArgs <- TwoMerchants
  RulesArgs <- Rules
  NoBalance = NoBalance
PROPERTIES FailedCallsLeaveNoTrace CallsAreAtomic
