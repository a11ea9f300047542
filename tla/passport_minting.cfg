SPECIFICATION MintingSpec
CONSTANTS
  NoAccount = NoAccount
  EmptyReceiptHash = zero
  ReceiptHash = {h}
  MAX_TIERS = 1
  BASIS_POINTS_DENOMINATOR = 1
  SECONDS_PER_DAY = 2
  MaxU64 = 1
  Authority = {a1, a2}
  MerchantKey = {s1}
  Customer = {u1, u2}
  MintKey = {k1, k2}
  Timestamp <- DayZero
  CoalitionArgs <- OneCoalitionArgs
  MerchantArgs <- OneMerchantArgs
SYMMETRY MintSymmetry
INVARIANTS CallsNeverRefused MintsAreCredentials
PROPERTY MintingImplementsProgram
