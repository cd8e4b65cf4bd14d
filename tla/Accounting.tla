------------------------------ MODULE Accounting ------------------------------
(***************************************************************************)
(* What the accounting worker makes of ledger_entries while trades run.    *)
(* It keeps no state: its two queries sum the amounts of all entries of a  *)
(* pair, with a sign by type that the queries write down once more, next   *)
(* to the running balances of ledgerService.  The entries are told from    *)
(* the keys that TradeDb has used up; the funds at first are deposits.     *)
(* The key of a released collateral does not name its asset, so that it is *)
(* the trade's: handlers lock one collateral per trade (LockChosen), while *)
(* TradeDb alone, with more assets than one, might replace it.             *)
(***************************************************************************)
EXTENDS TradeDb, Functions

Row(kind, e, a, n) == [kind |-> kind, pair |-> <<e, a>>, amt |-> n]

\* The entry that carries key k; owner and collateral are those it was made with.
RowOf(k) ==
  LET t == k[2]
  IN CASE k[1] = "escrow_lock"        -> Row("ESCROW_LOCK", k[3], Asset[t], Amount[t])
       [] k[1] = "escrow_release"     -> Row("ESCROW_RELEASE", owner[t], Asset[t], Amount[t])
       [] k[1] = "collateral"         -> Row("ESCROW_LOCK", owner[t], k[3], Quote[t])
       [] k[1] = "collateral_release" -> Row("ESCROW_RELEASE", owner[t], collateral[t], Quote[t])
       [] k[1] = "withdrawal"         -> Row("WITHDRAWAL", owner[t], Asset[t], Amount[t])
       [] OTHER                       -> Row("MANUAL_CREDIT", owner[t], Asset[t], Fee[t] \div 2)

KeysOf(p) == {k \in keys : RowOf(k).pair = p}

\* Mutant: a manual credit is not counted.
ReconciledCredits(r) ==
  CASE r.kind \in {"DEPOSIT", "ESCROW_RELEASE"}          -> r.amt
    [] r.kind \in {"ESCROW_LOCK", "WITHDRAWAL", "FEE"}   -> -r.amt
    [] OTHER                                             -> 0

\* reconcileAddress: available.
ReconciledAvailable(r) ==
  CASE r.kind \in {"DEPOSIT", "ESCROW_RELEASE", "MANUAL_CREDIT"}            -> r.amt
    [] r.kind \in {"ESCROW_LOCK", "WITHDRAWAL", "FEE", "MANUAL_DEBIT"}      -> -r.amt
    [] OTHER                                                                -> 0

\* reconcileAddress and runDailyReport: escrow.
ReconciledEscrow(r) ==
  CASE r.kind = "ESCROW_LOCK"                       -> r.amt
    [] r.kind \in {"ESCROW_RELEASE", "WITHDRAWAL"}  -> -r.amt
    [] OTHER                                        -> 0

LedgerTotal(p) ==
  Funds[p] + SumFunctionOnSet([k \in keys |-> ReconciledAvailable(RowOf(k)) + ReconciledEscrow(RowOf(k))],
                              KeysOf(p))
EscrowReported(a) ==
  SumFunctionOnSet([k \in keys |-> ReconciledEscrow(RowOf(k))], {k \in keys : RowOf(k).pair[2] = a})

Withdrawn(p) ==
  SumFunctionOnSet([k \in keys |-> RowOf(k).amt], {k \in KeysOf(p) : k[1] = "withdrawal"})

-----------------------------------------------------------------------------
(* "Compares ledger sums vs on-chain balance" (accountingWorker): what the  *)
(* queries sum up is what the running balances say, whatever trades did and *)
(* in whatever order, except that every withdrawal is taken off twice; the  *)
(* daily report's escrow is right.                                          *)
SumsExplained ==
  /\ \A p \in Pairs : LedgerTotal(p) = Total(p) - Withdrawn(p)
  /\ \A a \in Assets : EscrowReported(a) = SumFunctionOnSet([e \in Exchangers |-> bal[<<e, a>>].esc], Exchangers)
=============================================================================
