\* One payment whose broadcast is answered by an error, or whose recording fails.
CONSTANTS
  Trades = {"one"}
  Exchangers = {"alice"}
  Assets = {"btc"}
  Txs = {x1, x2}
  Direction <- MCDirection
  Asset <- MCAsset
  Amount <- MCAmount
  Quote <- MCQuote
  Fee <- MCFee
  Funds <- MCFunds
  NoExchanger = "none"
  NoAsset = "no asset"
  Slots = {p1}
  Ops = {"claim", "release"}
  Overdue <- Trades
  Failures = FALSE
  Rank <- MCRank
  Workers = {w1}
  MaxAttempts = 2
  Throws = TRUE
  NoTx = "no tx"
SPECIFICATION PaySpec
INVARIANT PaidOnce
CHECK_DEADLOCK FALSE
