CONSTANTS
  Accounts = {"available", "profit"}
  Standalone = {"withdraw"}
  Admin = {"first"}
  Account <- MCAccount
  Amount <- MCAmount
  Funds <- MCFunds
  Runs = {w1, w2}
  MaxAttempts = 3
  Interrupted = FALSE
  NoRequest = "no request"
SPECIFICATION FairSpec
PROPERTY QueuedWithdrawalsEnd
CHECK_DEADLOCK FALSE
