SPECIFICATION AuditSpec
CONSTANTS
  NoAccount = NoAccount
  EmptyReceiptHash = zero
  ReceiptHash = {h}
  MAX_TIERS = 2
  BASIS_POINTS_DENOMINATOR = 1
  SECONDS_PER_DAY = 2
  MaxU64 = 6
  Authority = {a1}
  MerchantKey = {s1}
  Customer = {u1}
  MintKey = {k1}
  Timestamp <- FourDays
  CoalitionArgs <- AuditCoalitionArgs
  MerchantArgs <- AuditMerchantArgs
INVARIANTS DailyCapHolds DayCounterExact StreakTracksVisits
PROPERTY NonceCreditedOnce
