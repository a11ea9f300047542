SPECIFICATION DemoSpec
CONSTANTS
  NoAccount = NoAccount
  NoFile = NoFile
  EmptyFile = EmptyFile
  EmptyReceiptHash = zero
  commitment = h
  ReceiptHash = {h}
  MAX_TIERS = 16
  BASIS_POINTS_DENOMINATOR = 10000
  SECONDS_PER_DAY = 86400
  MaxU64 = 2000000
  DEPLOYER = deployer
  MERCHANT = merchant_wallet
  CUSTOMER = customer_wallet
  Authority = {deployer}
  MerchantKey = {merchant_wallet}
  Customer = {customer_wallet}
  MintKey = {k1, k2, k3}
  Timestamp <- TwoDays
  CoalitionArgs <- ScriptCoalitionArgs
  MerchantArgs <- ScriptMerchantArgs
  MaxRuns = 3
INVARIANTS CompleteIsTrue FlowNeverRefused
