CONSTANTS
  Exchangers = {"alice", "bob"}
  AssetList <- MCAssetList
  Onboarders = {o1, o2}
  Bannable = {"alice"}
  NoExchanger = "none"
  NoIndex = NoIndex
  Payments <- MCPayments
  Payee <- MCPayee
  PayAsset <- MCPayAsset
  Tx <- MCTx
  HookId <- MCHookId
  Scanned = {"btc"}
  Handlers = {h1}
  Scanners = {s1}
  MaxFaults = 1
  NoPayment = "no payment"
SPECIFICATION FairSpec
INVARIANTS DepositsTypeOK SharedOnlyIfRaced CreditedTwiceOnlyIfShared ReconciledIsCredited
PROPERTIES AddressesSettle CleanDepositsCredited
CHECK_DEADLOCK FALSE
