\* Two crypto trades of one exchanger, two runs of the worker at once,
\* errors and restarts at any point, retries, and disputes in the middle of a payment.
CONSTANTS
  Trades <- MCTrades
  Exchangers = {"alice"}
  Assets = {"btc"}
  Txs = {x1, x2, x3}
  Direction <- MCDirection
  Asset <- MCAsset
  Amount <- MCAmount
  Quote <- MCQuote
  Fee <- MCFee
  Funds <- MCFunds
  NoExchanger = "none"
  NoAsset = "no asset"
  Slots = {p1}
  Ops = {"claim", "release", "dispute", "force_cancel"}
  Overdue <- MCTrades
  Failures = FALSE
  Rank <- MCRank
  Workers = {w1, w2}
  MaxAttempts = 2
  Throws = TRUE
  NoTx = "no tx"
SYMMETRY MCSymmetry
SPECIFICATION PaySpec
INVARIANTS PayTypeOK RowHeldOnce PaidIsRecorded RecordsAreSent SumsExplained
PROPERTIES NotRepaid MoneyConserved
CHECK_DEADLOCK FALSE
