SPECIFICATION CliSpec
CONSTANTS
  NoAccount = NoAccount
  NotFetched = NotFetched
  EmptyReceiptHash = zero
  commitment = h
  ReceiptHash = {h}
  MAX_TIERS = 2
  BASIS_POINTS_DENOMINATOR = 1
  SECONDS_PER_DAY = 2
  MaxU64 = 3
  admin = a1
  cafe = s1
  visitor = u1
  Authority = {a1}
  MerchantKey = {s1}
  Customer = {u1}
  MintKey = {k1, k2}
  Timestamp <- Days
  CoalitionArgs <- SchemeArgs
  MerchantArgs <- ShopArgs
  Command <- Flow
  MaxAttempts <- Attempts
  Status <- VisitorStatus
SYMMETRY MintSymmetry
INVARIANTS LandsOnce StatusBacked StatusTier
