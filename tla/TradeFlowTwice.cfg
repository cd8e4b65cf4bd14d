\* The buyer confirms an external payment while a dispute is raised and resolved.
CONSTANTS
  Trades <- MCPair
  Exchangers = {"alice"}
  Assets = {"btc"}
  Txs = {}
  Direction <- MCDirection
  Asset <- MCAsset
  Amount <- MCAmount
  Quote <- MCQuote
  Fee <- MCFee
  Funds <- MCPlenty
  NoExchanger = "none"
  NoAsset = "no asset"
  Slots = {p1, p2}
  Ops = {"claim", "release", "dispute", "force_cancel"}
  Overdue <- MCPair
  Failures = FALSE
  Rank <- MCRank
SPECIFICATION Spec
INVARIANT ReleasedOnce
CHECK_DEADLOCK FALSE
