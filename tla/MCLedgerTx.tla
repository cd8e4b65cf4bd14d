------------------------------ MODULE MCLedgerTx ------------------------------
(* Small instances of LedgerTx: one contended pair and one beside it, two   *)
(* operations that compete for the same funds, and retries of every key.    *)
EXTENDS LedgerTx

MCKeys == {"dep", "lock", "rel", "pay", "fee", "debit", "eth"}
Op(k, b, kind, n) == [key |-> k, bal |-> b, kind |-> kind, amt |-> n]

\* A deposit of 2, everything that may compete for it, and another pair.
MCRequests == {Op("dep",   "btc", "DEPOSIT", 2),
               Op("lock",  "btc", "ESCROW_LOCK", 2),
               Op("rel",   "btc", "ESCROW_RELEASE", 2),
               Op("pay",   "btc", "WITHDRAWAL", 1),
               Op("fee",   "btc", "FEE", 1),
               Op("debit", "btc", "MANUAL_DEBIT", 1),
               Op("eth",   "eth", "MANUAL_CREDIT", 1)}
MCBalances == {"btc", "eth"}

\* Three deposits of different transactions to one pair.
MCDeposits == {Op("dep",   "btc", "DEPOSIT", 1),
               Op("pay",   "btc", "DEPOSIT", 2),
               Op("debit", "btc", "DEPOSIT", 1)}
=============================================================================
