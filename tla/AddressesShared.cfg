\* Two onboardings approved at once, from the dashboard and from the Discord command.
CONSTANTS
  Exchangers = {"alice", "bob"}
  AssetList <- MCAssetList
  Onboarders = {o1, o2}
  Bannable = {}
  NoExchanger = "none"
  NoIndex = NoIndex
  Payments <- MCPayments
  Payee <- MCPayee
  PayAsset <- MCPayAsset
  Tx <- MCTx
  HookId <- MCHookId
  Scanned = {"btc"}
  Handlers = {h1}
  Scanners = {s1}
  MaxFaults = 1
  NoPayment = "no payment"
SPECIFICATION Spec
INVARIANT ReservedKeepApart
CHECK_DEADLOCK FALSE
