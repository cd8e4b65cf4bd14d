\* Three deposits to one pair over two connections: is every commit one atomic
\* step of the ledger, as the header of ledgerService.ts says?
CONSTANTS
  Sessions = {s1, s2}
  Balances <- MCBalances
  Keys <- MCKeys
  Requests <- MCDeposits
  MaxTx = 3
  NoSession = NoSession
  NoRequest = NoRequest
SPECIFICATION Spec
PROPERTY SerialisesOperations
CHECK_DEADLOCK FALSE
