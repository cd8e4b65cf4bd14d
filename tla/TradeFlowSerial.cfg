\* Two crypto trades that may time out, beside a fiat-to-fiat trade whose collateral
\* may be of another asset than the trade: two exchangers, one handler at a time, no failures.
CONSTANTS
  Trades <- MCThree
  Exchangers = {"alice", "bob"}
  Assets = {"btc", "eth"}
  Txs = {}
  Direction <- MCDirection
  Asset <- MCEth
  Amount <- MCAmount
  Quote <- MCQuote
  Fee <- MCFee
  Funds <- MCFunds
  NoExchanger = "none"
  NoAsset = "no asset"
  Slots = {p1}
  Ops <- MCHandlers
  Overdue <- MCPair
  Failures = FALSE
  Rank <- MCRank
SPECIFICATION FairSpec
INVARIANTS LockedByOwnerOnly EscrowBacksTrades ReleasedOnce SumsExplained
PROPERTIES UnpaidTradesEnd ImplementsLifecycle
CHECK_DEADLOCK FALSE
