SPECIFICATION EventsSpec
CONSTANTS
  NoAccount = NoAccount
  EmptyReceiptHash = zero
  ReceiptHash = {zero, h}
  MAX_TIERS = 2
  BASIS_POINTS_DENOMINATOR = 2
  SECONDS_PER_DAY = 2
  MaxU64 = 4
  Authority = {a1}
  MerchantKey = {s1, s2}
  Customer = {u1}
  MintKey = {k1}
  Timestamp <- ThreeDays
  CoalitionArgs <- SmallCoalitionArgs
  MerchantArgs <- SmallMerchantArgs
INVARIANTS
  TypeOK
  Solvent
  CapRespected
  StreakBackedByCredit
  TierLevelExact
  NewDayReopensAccrual
  EventsTellAccounts
  VisitsAreReceipts
