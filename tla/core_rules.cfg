SPECIFICATION AuditSpec
CONSTANTS
  MerchantId <- Ids
  MaxU64 = 4
  MAX_TIER_COUNT = 2
  BASIS_POINTS_DENOMINATOR = 2
  Epoch <- Epochs
  MerchantArgs <- TwoMerchants
  RulesArgs <- Rules
  NoBalance = NoBalance
INVARIANTS CoreTypeOK EntriesSound EpochCounterCapped EpochCapInOrder ReputationBacked
PROPERTY CoreImplementsLedger
CHECK_DEADLOCK FALSE
