\* Every handler, two at a time, each of which may be interrupted at any await:
\* a crypto and a fiat-to-fiat trade that share the funds of one exchanger.
CONSTANTS
  Trades <- MCTrades
  Exchangers = {"alice"}
  Assets = {"btc"}
  Txs = {}
  Direction <- MCDirection
  Asset <- MCAsset
  Amount <- MCAmount
  Quote <- MCQuote
  Fee <- MCFee
  Funds <- MCFunds
  NoExchanger = "none"
  NoAsset = "no asset"
  Slots = {p1, p2}
  Ops <- AllOps
  Overdue <- MCTrades
  Failures = TRUE
  Rank <- MCRank
SYMMETRY MCSymmetry
SPECIFICATION Spec
INVARIANTS FlowTypeOK FeeOnlyIfCompleted OneReleaseMethod
PROPERTIES CancelReturnsEscrow CancelReturnsCollateral RunsTransactions ImplementsLifecycle
\* All trades end, or nobody acts on them.
CHECK_DEADLOCK FALSE
