\* Two connections, four transactions: every interleaving of a retry, of operations
\* that compete for the same funds, and of a crash at any statement.
CONSTANTS
  Sessions = {s1, s2}
  Balances <- MCBalances
  Keys <- MCKeys
  Requests <- MCRequests
  MaxTx = 4
  NoSession = NoSession
  NoRequest = NoRequest
SPECIFICATION FairSpec
INVARIANTS TypeOK KeysUnique SnapshotFresh
PROPERTIES ImplementsLedgerInOrder TransactionsEnd
\* The transactions of the bound run out.
CHECK_DEADLOCK FALSE
