CONSTANTS
  Accounts = {"available", "profit"}
  Standalone = {"withdraw"}
  Admin = {"first", "second"}
  Account <- MCAccount
  Amount <- MCAmount
  Funds <- MCFunds
  Runs = {w1, w2}
  MaxAttempts = 3
  Interrupted = TRUE
  NoRequest = "no request"
SPECIFICATION FairSpec
INVARIANTS WithdrawalsTypeOK BalancesAddUp FailedIsRefunded
PROPERTIES NotSentAfterRefund AdminWithdrawalsEnd
CHECK_DEADLOCK FALSE
