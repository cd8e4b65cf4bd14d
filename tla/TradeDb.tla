------------------------------- MODULE TradeDb -------------------------------
(***************************************************************************)
(* The trades table and the escrow behind it: every database transaction   *)
(* of tradeService.ts and of the trade operations of ledgerService.ts, in  *)
(* whatever order handlers and workers call them.  A transaction is one    *)
(* step: each locks the trade row or the (exchanger, asset) pair it        *)
(* changes, and LedgerTx examines what that locking gives.                 *)
(*                                                                         *)
(* A transaction that throws changes nothing, so it is no step here; the   *)
(* operator Can... says when it goes through, for the callers in TradeFlow.*)
(***************************************************************************)
EXTENDS LedgerOps

CONSTANTS Trades, Exchangers, Assets, Txs,
          Direction,   \* [Trades -> {"CRYPTO", "FIAT_TO_FIAT"}]
          Asset,       \* the asset of each trade
          Amount,      \* the amount of each trade
          Quote,       \* the collateral createFiatCollateralQuote asks for
          Fee,         \* the fee of each trade
          Funds,       \* what each (exchanger, asset) pair has at first
          NoExchanger, NoAsset

Pairs == Exchangers \X Assets

ASSUME TradesOK ==
  /\ Direction \in [Trades -> {"CRYPTO", "FIAT_TO_FIAT"}]
  /\ Asset \in [Trades -> Assets]
  /\ Amount \in [Trades -> Nat \ {0}]
  /\ Quote \in [Trades -> Nat \ {0}]
  /\ Fee \in [Trades -> Nat]
  /\ Funds \in [Pairs -> Nat]
  /\ NoExchanger \notin Exchangers
  /\ NoAsset \notin Assets

VARIABLES status,      \* trades.status
          owner,       \* trades.exchanger_id
          wallet,      \* whether trades.user_wallet_address is set
          collateral,  \* trades.collateral_asset
          bal,         \* the latest ledger balance of each pair
          profit,      \* the latest balance of admin_profit_entries per asset
          keys         \* the idempotency keys used up

dbVars == <<status, owner, wallet, collateral, bal, profit, keys>>

Statuses == {"OPEN", "CLAIMED", "FIAT_PENDING", "FIAT_SENT", "RELEASE_PENDING",
             "CRYPTO_SENT", "COMPLETED", "CANCELLED", "DISPUTED", "EXPIRED", "FAILED"}

Allowed(from) ==
  CASE from = "OPEN"            -> {"CLAIMED", "CANCELLED", "EXPIRED"}
    [] from = "CLAIMED"         -> {"FIAT_PENDING", "CANCELLED"}
    [] from = "FIAT_PENDING"    -> {"FIAT_SENT", "CANCELLED", "EXPIRED"}
    [] from = "FIAT_SENT"       -> {"RELEASE_PENDING", "DISPUTED"}
    [] from = "RELEASE_PENDING" -> {"CRYPTO_SENT", "COMPLETED", "DISPUTED"}
    [] from = "CRYPTO_SENT"     -> {"COMPLETED", "FAILED"}
    [] from = "DISPUTED"        -> {"COMPLETED", "CANCELLED"}
    [] OTHER                    -> {}

Terminal == {"COMPLETED", "CANCELLED", "EXPIRED", "FAILED"}
IsTransitionAllowed(t, to) == to \in Allowed(status[t])

\* Idempotency keys: what the entry is for, the trade, and what it is about.
LockKey(t, e)       == <<"escrow_lock", t, e>>
ReleaseKey(t, why)  == <<"escrow_release", t, why>>
CollateralKey(t, a) == <<"collateral", t, a>>
FreeKey(t, why)     == <<"collateral_release", t, why>>
PayKey(t, tx)       == <<"withdrawal", t, tx>>
ProfitKey(t)        == <<"PROFIT_ADMIN", t, "CREDIT">>

EscrowReasons     == {"COMPLETE", "CANCEL"}
CollateralReasons == {"COMPLETE", "CANCEL", "FORCE", "ADMIN_CLOSE", "CLOSE_CMD"}

DbInit == /\ status = [t \in Trades |-> "OPEN"]
          /\ owner = [t \in Trades |-> NoExchanger]
          /\ wallet = [t \in Trades |-> FALSE]
          /\ collateral = [t \in Trades |-> NoAsset]
          /\ bal = [p \in Pairs |-> [avail |-> Funds[p], esc |-> 0]]
          /\ profit = [a \in Assets |-> 0]
          /\ keys = {}

-----------------------------------------------------------------------------
\* SELECT by key, readBalanceLocked, insertEntry.
Entered(kind, n) == [kind |-> kind, amt |-> n]

CanEnter(k, p, kind, n) == k \in keys \/ Covered(Entered(kind, n), bal[p])
Enter(k, p, kind, n) ==
  /\ CanEnter(k, p, kind, n)
  /\ keys' = keys \cup {k}
  /\ bal' = IF k \in keys THEN bal
            ELSE [bal EXCEPT ![p] = After(Entered(kind, n), @)]

SetStatus(t, to) == status' = [status EXCEPT ![t] = to]

\* transitionTrade without field updates.
Transition(t, to) ==
  /\ IsTransitionAllowed(t, to)
  /\ SetStatus(t, to)
  /\ UNCHANGED <<owner, wallet, collateral, bal, profit, keys>>

\* Mutant: the exchanger is left out of the updates.
TransitionWithoutOwner(t, e) ==
  /\ IsTransitionAllowed(t, "CLAIMED")
  /\ SetStatus(t, "CLAIMED")
  /\ e \in Exchangers
  /\ UNCHANGED <<owner, wallet, collateral, bal, profit, keys>>

\* transitionTrade with updates: { exchangerId }, the F2F claim.
TransitionToClaimed(t, e) ==
  /\ IsTransitionAllowed(t, "CLAIMED")
  /\ SetStatus(t, "CLAIMED")
  /\ owner' = [owner EXCEPT ![t] = e]
  /\ UNCHANGED <<wallet, collateral, bal, profit, keys>>

\* Mutant: without isTransitionAllowed.
SetWallet(t) ==
  /\ status[t] \notin Terminal
  /\ SetStatus(t, "RELEASE_PENDING")
  /\ wallet' = [wallet EXCEPT ![t] = TRUE]
  /\ UNCHANGED <<owner, collateral, bal, profit, keys>>

\* transitionTrade with updates: { userWalletAddress }.
TransitionWithWallet(t) ==
  /\ IsTransitionAllowed(t, "RELEASE_PENDING")
  /\ SetStatus(t, "RELEASE_PENDING")
  /\ wallet' = [wallet EXCEPT ![t] = TRUE]
  /\ UNCHANGED <<owner, collateral, bal, profit, keys>>

\* Mutant: the status is not read again under FOR UPDATE.
ClaimUnchecked(t, e) ==
  /\ Enter(LockKey(t, e), <<e, Asset[t]>>, "ESCROW_LOCK", Amount[t])
  /\ SetStatus(t, "FIAT_PENDING")
  /\ owner' = [owner EXCEPT ![t] = e]
  /\ UNCHANGED <<wallet, collateral, profit>>

\* OPEN to CLAIMED to FIAT_PENDING in one transaction, with the escrow locked.
ClaimTradeWithEscrow(t, e) ==
  /\ status[t] = "OPEN"
  /\ Enter(LockKey(t, e), <<e, Asset[t]>>, "ESCROW_LOCK", Amount[t])
  /\ SetStatus(t, "FIAT_PENDING")
  /\ owner' = [owner EXCEPT ![t] = e]
  /\ UNCHANGED <<wallet, collateral, profit>>

\* Below, e and a are the exchanger and the collateral asset the caller read.
CanRelease(t, e, why) ==
  CanEnter(ReleaseKey(t, why), <<e, Asset[t]>>, "ESCROW_RELEASE", Amount[t])
ReleaseEscrow(t, e, why) ==
  /\ Enter(ReleaseKey(t, why), <<e, Asset[t]>>, "ESCROW_RELEASE", Amount[t])
  /\ UNCHANGED <<status, owner, wallet, collateral, profit>>

\* Mutants: any trade may be cancelled, or the escrow is left where it is.
CanCancelAny(t, e) == CanRelease(t, e, "CANCEL")
CancelKeepsEscrow(t, e) ==
  /\ IsTransitionAllowed(t, "CANCELLED") /\ CanRelease(t, e, "CANCEL")
  /\ SetStatus(t, "CANCELLED")
  /\ UNCHANGED <<owner, wallet, collateral, bal, profit, keys>>

\* A trade that is already CANCELLED is left alone: no step.
CanCancel(t, e) == IsTransitionAllowed(t, "CANCELLED") /\ CanRelease(t, e, "CANCEL")
CancelTradeAndReleaseEscrow(t, e) ==
  /\ CanCancel(t, e)
  /\ Enter(ReleaseKey(t, "CANCEL"), <<e, Asset[t]>>, "ESCROW_RELEASE", Amount[t])
  /\ SetStatus(t, "CANCELLED")
  /\ UNCHANGED <<owner, wallet, collateral, profit>>

\* The status stays CLAIMED, although the transaction logs FIAT_PENDING.
CanLockCollateral(t, e, a) ==
  /\ status[t] = "CLAIMED"
  /\ CanEnter(CollateralKey(t, a), <<e, a>>, "ESCROW_LOCK", Quote[t])
LockCollateral(t, e, a) ==
  /\ CanLockCollateral(t, e, a)
  /\ Enter(CollateralKey(t, a), <<e, a>>, "ESCROW_LOCK", Quote[t])
  /\ collateral' = [collateral EXCEPT ![t] = a]
  /\ UNCHANGED <<status, owner, wallet, profit>>

CanFree(t, e, a, why) ==
  /\ collateral[t] # NoAsset
  /\ CanEnter(FreeKey(t, why), <<e, a>>, "ESCROW_RELEASE", Quote[t])
ReleaseCollateral(t, e, a, why) ==
  /\ CanFree(t, e, a, why)
  /\ Enter(FreeKey(t, why), <<e, a>>, "ESCROW_RELEASE", Quote[t])
  /\ UNCHANGED <<status, owner, wallet, collateral, profit>>

\* The funds sent on-chain leave the escrow.
RecordWithdrawal(t, e, tx) ==
  /\ Enter(PayKey(t, tx), <<e, Asset[t]>>, "WITHDRAWAL", Amount[t])
  /\ UNCHANGED <<status, owner, wallet, collateral, profit>>

\* Half the fee is credited to the exchanger, the rest to the admin ledger.
Settles(t) == owner[t] # NoExchanger /\ ProfitKey(t) \notin keys /\ Fee[t] > 0
SettleTradeProfit(t) ==
  /\ Settles(t)
  /\ Enter(ProfitKey(t), <<owner[t], Asset[t]>>, "MANUAL_CREDIT", Fee[t] \div 2)
  /\ profit' = [profit EXCEPT ![Asset[t]] = @ + Fee[t] - Fee[t] \div 2]
  /\ UNCHANGED <<status, owner, wallet, collateral>>

\* claimTrade takes one of two ways by the direction of the trade.
Claim(t, e) == IF Direction[t] = "FIAT_TO_FIAT" THEN TransitionToClaimed(t, e)
                                                ELSE ClaimTradeWithEscrow(t, e)

\* What callers may ask of a trade that has an exchanger.
OwnedNext(t, e) ==
  \/ \E why \in EscrowReasons : ReleaseEscrow(t, e, why)
  \/ \E a \in Assets : LockCollateral(t, e, a)
  \/ \E why \in CollateralReasons : ReleaseCollateral(t, e, collateral[t], why)
  \/ CancelTradeAndReleaseEscrow(t, e)
  \/ \E tx \in Txs : RecordWithdrawal(t, e, tx)
  \/ SettleTradeProfit(t)

DbNext == \E t \in Trades :
  \/ \E e \in Exchangers : Claim(t, e)
  \/ \E to \in Statuses \ {"CLAIMED"} : Transition(t, to)
  \/ TransitionWithWallet(t)
  \/ owner[t] # NoExchanger /\ OwnedNext(t, owner[t])

DbSpec == DbInit /\ [][DbNext]_dbVars

-----------------------------------------------------------------------------
(* Type correctness: no order of claims, releases, withdrawals and fee      *)
(* shares takes a balance below zero, even one that releases a trade twice. *)
DbTypeOK == /\ status \in [Trades -> Statuses]
            /\ owner \in [Trades -> Exchangers \cup {NoExchanger}]
            /\ wallet \in [Trades -> BOOLEAN]
            /\ collateral \in [Trades -> Assets \cup {NoAsset}]
            /\ bal \in [Pairs -> BalanceType]
            /\ profit \in [Assets -> Nat]

(* The funds of one exchanger only are ever locked for a crypto trade, and  *)
(* that exchanger is the trade's for good: a lost race for the claim leaves *)
(* nothing locked.                                                          *)
LockedByOwnerOnly ==
  \A t \in Trades, e \in Exchangers :
     LockKey(t, e) \in keys <=> Direction[t] = "CRYPTO" /\ owner[t] = e

(* Trades move money between available and escrow and nowhere else: what a  *)
(* pair holds in all changes only by a withdrawal, once per transaction id, *)
(* and by the fee share, once per trade.                                    *)
Total(p) == bal[p].avail + bal[p].esc
MoneyMoves(p) ==
  \E t \in Trades :
     /\ <<owner[t], Asset[t]>> = p
     /\ \/ /\ \E tx \in Txs : PayKey(t, tx) \in keys' \ keys
           /\ Total(p)' = Total(p) - Amount[t]
        \/ /\ ProfitKey(t) \in keys' \ keys
           /\ Total(p)' = Total(p) + Fee[t] \div 2
MoneyConserved ==
  [][\A p \in Pairs : Total(p)' # Total(p) => MoneyMoves(p)]_dbVars

Phase(t) ==
  CASE status[t] = "OPEN"                                        -> "waiting"
    [] status[t] = "COMPLETED"                                   -> "done"
    [] status[t] \in {"CANCELLED", "EXPIRED", "FAILED"}
         /\ owner[t] = NoExchanger                               -> "dropped"
    [] status[t] \in {"CANCELLED", "EXPIRED", "FAILED"}
         /\ owner[t] # NoExchanger                               -> "undone"
    [] OTHER                                                     -> "taken"

Lifecycle == INSTANCE TradeLifecycle WITH phase <- [t \in Trades |-> Phase(t)],
                                          by <- owner

(* The statuses follow the life of a trade: one exchanger takes it and      *)
(* keeps it, and once ended it never changes again, whatever order the      *)
(* transactions run in.                                                     *)
ImplementsLifecycle == Lifecycle!Spec

\* The entries a trade may make for an exchanger: pair, kind and amount of each key.
Entry(k, p, kind, n) == [key |-> k, bal |-> p, kind |-> kind, amt |-> n]
EntriesOf(t, e) ==
  LET own == <<e, Asset[t]>>
  IN  {Entry(LockKey(t, e), own, "ESCROW_LOCK", Amount[t])}
      \cup {Entry(ReleaseKey(t, why), own, "ESCROW_RELEASE", Amount[t]) : why \in EscrowReasons}
      \cup {Entry(CollateralKey(t, a), <<e, a>>, "ESCROW_LOCK", Quote[t]) : a \in Assets}
      \cup {Entry(FreeKey(t, why), <<e, a>>, "ESCROW_RELEASE", Quote[t]) :
               a \in Assets, why \in CollateralReasons}
      \cup {Entry(PayKey(t, tx), own, "WITHDRAWAL", Amount[t]) : tx \in Txs}
      \cup {Entry(ProfitKey(t), own, "MANUAL_CREDIT", Fee[t] \div 2)}
TradeEntries == UNION {EntriesOf(t, e) : t \in Trades, e \in Exchangers}

Books == INSTANCE Ledger WITH Balances <- Pairs, Requests <- TradeEntries, applied <- keys,
                              Opening <- [p \in Pairs |-> [avail |-> Funds[p], esc |-> 0]]

(* However trades run, what they do to the balances is what the ledger      *)
(* promises: one entry at a time, each key once, the amount its trade says. *)
ImplementsLedger == Books!Spec
=============================================================================
