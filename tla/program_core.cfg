SPECIFICATION FairSpec
CONSTANTS
  NoAccount = NoAccount
  EmptyReceiptHash = zero
  ReceiptHash = {zero, h}
  MAX_TIERS = 2
  MAX_TIER_COUNT = 3
  BASIS_POINTS_DENOMINATOR = 2
  SECONDS_PER_DAY = 2
  MaxU64 = 3
  Authority = {a1}
  MerchantKey = {s1, s2}
  Customer = {u1}
  MintKey = {k1}
  Timestamp <- TwoDays
  CoalitionArgs <- CoreCoalitionArgs
  MerchantArgs <- CoreMerchantArgs
INVARIANTS BrokenAccountsNeverReported SameResult CreditRedeemable
PROPERTIES ImplementsCore CreditNotTrapped
