---------------------------- MODULE TradeDbProofs ----------------------------
(***************************************************************************)
(* Proofs about TradeDb for any number of trades, exchangers and assets,   *)
(* any amounts and any funds: type correctness, exclusive claims, the      *)
(* conservation of money, the implementation of Ledger and TradeLifecycle, *)
(* and the sums by which the accounting worker explains the balances.      *)
(***************************************************************************)
EXTENDS Accounting, FiniteSums

\* Who has a trade, by its status: nobody while it is open, one exchanger from
\* the claim on; only a trade that ended may have ended unclaimed.
OwnerByStatus ==
  \A t \in Trades :
     /\ status[t] = "OPEN" => owner[t] = NoExchanger
     /\ status[t] \notin {"OPEN", "CANCELLED", "EXPIRED"} => owner[t] # NoExchanger

\* The inductive invariant.  A claim finds the trade open, hence without owner
\* and without a lock: that is why funds are locked once.
DbInv == /\ DbTypeOK
         /\ OwnerByStatus
         /\ LockedByOwnerOnly

-----------------------------------------------------------------------------
\* What each kind of entry that trades make changes.
LEMMA Deltas ==
  ASSUME NEW n
  PROVE  /\ AvailDelta(Entered("ESCROW_LOCK", n)) = -n
         /\ EscrowDelta(Entered("ESCROW_LOCK", n)) = n
         /\ AvailDelta(Entered("ESCROW_RELEASE", n)) = n
         /\ EscrowDelta(Entered("ESCROW_RELEASE", n)) = -n
         /\ AvailDelta(Entered("WITHDRAWAL", n)) = 0
         /\ EscrowDelta(Entered("WITHDRAWAL", n)) = -n
         /\ AvailDelta(Entered("MANUAL_CREDIT", n)) = n
         /\ EscrowDelta(Entered("MANUAL_CREDIT", n)) = 0
BY DEF AvailDelta, EscrowDelta, Entered

TradeKinds == {"ESCROW_LOCK", "ESCROW_RELEASE", "WITHDRAWAL", "MANUAL_CREDIT"}

\* How much an entry changes what its pair holds in all.
Change(kind, n) == CASE kind = "WITHDRAWAL"    -> -n
                     [] kind = "MANUAL_CREDIT" -> n
                     [] OTHER                  -> 0

\* An entry keeps every balance natural, and changes the total of its own pair
\* only, by the amount its kind says, and only if its key is new.
LEMMA EnterEffect ==
  ASSUME DbTypeOK, NEW k, NEW p \in Pairs, NEW kind \in TradeKinds,
         NEW n \in Nat, Enter(k, p, kind, n)
  PROVE  /\ bal' \in [Pairs -> BalanceType]
         /\ \A q \in Pairs : q # p => Total(q)' = Total(q)
         /\ k \in keys => Total(p)' = Total(p)
         /\ k \notin keys => Total(p)' = Total(p) + Change(kind, n)
<1>1. CASE k \in keys
  BY <1>1 DEF Enter, DbTypeOK, Total
<1>2. CASE k \notin keys
  <2> DEFINE r == Entered(kind, n)
  <2>1. Covered(r, bal[p]) /\ bal' = [bal EXCEPT ![p] = After(r, bal[p])]
    BY <1>2 DEF Enter, CanEnter
  <2>2. /\ AvailDelta(r) \in Int /\ EscrowDelta(r) \in Int
        /\ AvailDelta(r) + EscrowDelta(r) = Change(kind, n)
    BY Deltas DEF TradeKinds, Change
  <2> HIDE DEF r
  <2>3. bal[p] \in BalanceType
    BY DEF DbTypeOK
  <2>4. After(r, bal[p]) \in BalanceType
    BY <2>1, <2>2, <2>3 DEF Covered, After, BalanceType
  <2>5. bal' \in [Pairs -> BalanceType]
    BY <2>1, <2>4 DEF DbTypeOK
  <2>6. \A q \in Pairs : q # p => Total(q)' = Total(q)
    BY <2>1 DEF DbTypeOK, Total
  <2>7. Total(p)' = Total(p) + Change(kind, n)
    <3>1. bal'[p] = After(r, bal[p])
      BY <2>1 DEF DbTypeOK
    <3>2. QED
      BY <2>2, <2>3, <3>1 DEF After, Total, BalanceType
  <2>8. QED
    BY <1>2, <2>5, <2>6, <2>7
<1>3. QED
  BY <1>1, <1>2

\* Keys of different purposes differ, and a lock names its trade and exchanger.
LEMMA KeysDiffer ==
  ASSUME NEW t, NEW e
  PROVE  /\ \A u, f : LockKey(t, e) = LockKey(u, f) => t = u /\ e = f
         /\ \A u, w : LockKey(t, e) # ReleaseKey(u, w)
         /\ \A u, w : LockKey(t, e) # CollateralKey(u, w)
         /\ \A u, w : LockKey(t, e) # FreeKey(u, w)
         /\ \A u, w : LockKey(t, e) # PayKey(u, w)
         /\ \A u : LockKey(t, e) # ProfitKey(u)
BY DEF LockKey, ReleaseKey, CollateralKey, FreeKey, PayKey, ProfitKey

\* An allowed transition never leaves an ended trade, and never enters OPEN.
LEMMA AllowedFacts ==
  ASSUME NEW from \in Statuses
  PROVE  /\ Allowed(from) \subseteq Statuses \ {"OPEN"}
         /\ from \in Terminal => Allowed(from) = {}
         /\ from = "OPEN" => Allowed(from) = {"CLAIMED", "CANCELLED", "EXPIRED"}
         /\ from # "OPEN" => "CLAIMED" \notin Allowed(from)
BY DEF Allowed, Statuses, Terminal

-----------------------------------------------------------------------------
\* The empty tables satisfy the invariant.
LEMMA DbInitInv == DbInit => DbInv
<1> SUFFICES ASSUME DbInit PROVE DbInv
  OBVIOUS
<1>1. DbTypeOK
  BY TradesOK DEF DbInit, DbTypeOK, Statuses, BalanceType, Pairs
<1>2. OwnerByStatus
  BY DEF DbInit, OwnerByStatus
<1>3. LockedByOwnerOnly
  BY TradesOK DEF DbInit, LockedByOwnerOnly
<1>4. QED
  BY <1>1, <1>2, <1>3 DEF DbInv

\* An allowed transition that leaves the owner alone keeps the owner by status.
LEMMA TransitionOwner ==
  ASSUME DbInv, NEW t \in Trades, NEW to \in Statuses \ {"CLAIMED"},
         IsTransitionAllowed(t, to), SetStatus(t, to), UNCHANGED owner
  PROVE  OwnerByStatus' /\ status' \in [Trades -> Statuses]
<1>1. status[t] \in Statuses /\ status' = [status EXCEPT ![t] = to]
  BY DEF DbInv, DbTypeOK, SetStatus
<1>2. to # "OPEN" /\ (status[t] = "OPEN" => to \in {"CANCELLED", "EXPIRED"})
  BY <1>1, AllowedFacts DEF IsTransitionAllowed
<1>3. status[t] \notin {"CANCELLED", "EXPIRED"}
  BY <1>1, AllowedFacts DEF IsTransitionAllowed, Terminal
<1>4. status' \in [Trades -> Statuses]
  BY <1>1 DEF DbInv, DbTypeOK
<1>5. OwnerByStatus'
  BY <1>1, <1>2, <1>3 DEF DbInv, DbTypeOK, OwnerByStatus
<1>6. QED
  BY <1>4, <1>5

\* A new key that locks nothing keeps the locks those of the owners.
LEMMA OtherKey ==
  ASSUME DbInv, NEW k, keys' = keys \cup {k}, UNCHANGED owner,
         \A t \in Trades, e \in Exchangers : k # LockKey(t, e)
  PROVE  LockedByOwnerOnly'
BY DEF DbInv, LockedByOwnerOnly

LEMMA TransitionInv ==
  ASSUME DbInv, NEW t \in Trades, NEW to \in Statuses \ {"CLAIMED"},
         Transition(t, to)
  PROVE  DbInv'
<1>1. OwnerByStatus' /\ status' \in [Trades -> Statuses]
  BY TransitionOwner DEF Transition
<1>2. DbTypeOK'
  BY <1>1 DEF DbInv, DbTypeOK, Transition
<1>3. LockedByOwnerOnly'
  BY DEF DbInv, LockedByOwnerOnly, Transition
<1>4. QED
  BY <1>1, <1>2, <1>3 DEF DbInv

LEMMA WalletInv ==
  ASSUME DbInv, NEW t \in Trades, TransitionWithWallet(t)
  PROVE  DbInv'
<1>0. "RELEASE_PENDING" \in Statuses \ {"CLAIMED"}
  BY DEF Statuses
<1>1. OwnerByStatus' /\ status' \in [Trades -> Statuses]
  BY <1>0, TransitionOwner DEF TransitionWithWallet
<1>2. DbTypeOK'
  BY <1>1 DEF DbInv, DbTypeOK, TransitionWithWallet
<1>3. LockedByOwnerOnly'
  BY DEF DbInv, LockedByOwnerOnly, TransitionWithWallet
<1>4. QED
  BY <1>1, <1>2, <1>3 DEF DbInv

\* A claim of either kind finds the trade without an owner.
LEMMA ClaimFacts ==
  ASSUME DbInv, NEW t \in Trades, NEW e \in Exchangers, Claim(t, e)
  PROVE  /\ status[t] = "OPEN" /\ owner[t] = NoExchanger
         /\ owner' = [owner EXCEPT ![t] = e]
         /\ \E to \in {"CLAIMED", "FIAT_PENDING"} : SetStatus(t, to)
<1>1. CASE Direction[t] = "FIAT_TO_FIAT"
  <2>1. TransitionToClaimed(t, e)
    BY <1>1 DEF Claim
  <2>2. "CLAIMED" \in Allowed(status[t]) /\ status[t] \in Statuses
    BY <2>1 DEF TransitionToClaimed, IsTransitionAllowed, DbInv, DbTypeOK
  <2>3. status[t] = "OPEN"
    BY <2>2, AllowedFacts
  <2>4. QED
    BY <2>1, <2>3 DEF TransitionToClaimed, DbInv, OwnerByStatus
<1>2. CASE Direction[t] # "FIAT_TO_FIAT"
  BY <1>2 DEF Claim, ClaimTradeWithEscrow, DbInv, OwnerByStatus
<1>3. QED
  BY <1>1, <1>2

LEMMA ClaimInv ==
  ASSUME DbInv, NEW t \in Trades, NEW e \in Exchangers, Claim(t, e)
  PROVE  DbInv'
<1>0. /\ status[t] = "OPEN" /\ owner[t] = NoExchanger
      /\ owner' = [owner EXCEPT ![t] = e] /\ e # NoExchanger
  BY ClaimFacts, TradesOK
<1>1. PICK to \in {"CLAIMED", "FIAT_PENDING"} : status' = [status EXCEPT ![t] = to]
  BY ClaimFacts DEF SetStatus
<1>2. OwnerByStatus'
  BY <1>0, <1>1 DEF DbInv, DbTypeOK, OwnerByStatus
<1>3. DbTypeOK'
  <2>1. /\ status' \in [Trades -> Statuses]
        /\ owner' \in [Trades -> Exchangers \cup {NoExchanger}]
    BY <1>0, <1>1 DEF DbInv, DbTypeOK, Statuses
  <2>2. bal' \in [Pairs -> BalanceType]
    <3>1. CASE Direction[t] = "FIAT_TO_FIAT"
      BY <3>1 DEF DbInv, DbTypeOK, Claim, TransitionToClaimed
    <3>2. CASE Direction[t] # "FIAT_TO_FIAT"
      <4>1. <<e, Asset[t]>> \in Pairs /\ Amount[t] \in Nat
        BY TradesOK DEF Pairs
      <4>2. Enter(LockKey(t, e), <<e, Asset[t]>>, "ESCROW_LOCK", Amount[t])
        BY <3>2 DEF Claim, ClaimTradeWithEscrow
      <4>3. QED
        BY <4>1, <4>2, EnterEffect DEF DbInv, TradeKinds
    <3>3. QED
      BY <3>1, <3>2
  <2>3. UNCHANGED <<wallet, collateral, profit>>
    BY DEF Claim, TransitionToClaimed, ClaimTradeWithEscrow
  <2>4. QED
    BY <2>1, <2>2, <2>3 DEF DbInv, DbTypeOK
<1>4. LockedByOwnerOnly'
  <2> SUFFICES ASSUME NEW u \in Trades, NEW f \in Exchangers
               PROVE  LockKey(u, f) \in keys' <=> Direction[u] = "CRYPTO" /\ owner'[u] = f
    BY DEF LockedByOwnerOnly
  <2>0. LockKey(u, f) \in keys <=> Direction[u] = "CRYPTO" /\ owner[u] = f
    BY DEF DbInv, LockedByOwnerOnly
  <2>1. CASE Direction[t] = "FIAT_TO_FIAT"
    <3>1. keys' = keys
      BY <2>1 DEF Claim, TransitionToClaimed
    <3>2. QED
      BY <1>0, <2>0, <2>1, <3>1, TradesOK DEF DbInv, DbTypeOK
  <2>2. CASE Direction[t] # "FIAT_TO_FIAT"
    <3>1. keys' = keys \cup {LockKey(t, e)} /\ Direction[t] = "CRYPTO"
      BY <2>2, TradesOK DEF Claim, ClaimTradeWithEscrow, Enter
    <3>2. LockKey(u, f) = LockKey(t, e) <=> u = t /\ f = e
      BY KeysDiffer
    <3>3. QED
      BY <1>0, <2>0, <3>1, <3>2, TradesOK DEF DbInv, DbTypeOK
  <2>3. QED
    BY <2>1, <2>2
<1>5. QED
  BY <1>2, <1>3, <1>4 DEF DbInv

-----------------------------------------------------------------------------
\* The operations on a trade that has an exchanger: each enters one row of the
\* ledger for that exchanger, and none changes the owner.
Entering(t, e, k, p, kind, n) ==
  /\ p \in Pairs /\ kind \in TradeKinds /\ n \in Nat
  /\ Enter(k, p, kind, n)
  /\ \A u \in Trades, f \in Exchangers : k # LockKey(u, f)
  /\ UNCHANGED <<owner, wallet>>

\* Which row each operation enters.
LEMMA OwnedEnters ==
  ASSUME DbInv, NEW t \in Trades, owner[t] # NoExchanger, OwnedNext(t, owner[t])
  PROVE  \E k, p, kind, n : Entering(t, owner[t], k, p, kind, n)
<1> DEFINE e == owner[t]
<1>0. /\ e \in Exchangers /\ <<e, Asset[t]>> \in Pairs
      /\ \A a \in Assets : <<e, a>> \in Pairs
      /\ Amount[t] \in Nat /\ Quote[t] \in Nat /\ Fee[t] \div 2 \in Nat
  BY TradesOK DEF DbInv, DbTypeOK, Pairs
<1>1. ASSUME NEW why \in EscrowReasons, ReleaseEscrow(t, e, why)
      PROVE  Entering(t, e, ReleaseKey(t, why), <<e, Asset[t]>>, "ESCROW_RELEASE", Amount[t])
  BY <1>0, <1>1, KeysDiffer DEF ReleaseEscrow, Entering, TradeKinds
<1>2. ASSUME NEW a \in Assets, LockCollateral(t, e, a)
      PROVE  Entering(t, e, CollateralKey(t, a), <<e, a>>, "ESCROW_LOCK", Quote[t])
  BY <1>0, <1>2, KeysDiffer DEF LockCollateral, Entering, TradeKinds
<1>3. ASSUME NEW why \in CollateralReasons, ReleaseCollateral(t, e, collateral[t], why)
      PROVE  Entering(t, e, FreeKey(t, why), <<e, collateral[t]>>, "ESCROW_RELEASE", Quote[t])
  <2>1. collateral[t] \in Assets
    BY <1>3 DEF ReleaseCollateral, CanFree, DbInv, DbTypeOK
  <2>2. QED
    BY <1>0, <1>3, <2>1, KeysDiffer DEF ReleaseCollateral, Entering, TradeKinds
<1>4. ASSUME CancelTradeAndReleaseEscrow(t, e)
      PROVE  Entering(t, e, ReleaseKey(t, "CANCEL"), <<e, Asset[t]>>, "ESCROW_RELEASE", Amount[t])
  BY <1>0, <1>4, KeysDiffer DEF CancelTradeAndReleaseEscrow, Entering, TradeKinds
<1>5. ASSUME NEW tx \in Txs, RecordWithdrawal(t, e, tx)
      PROVE  Entering(t, e, PayKey(t, tx), <<e, Asset[t]>>, "WITHDRAWAL", Amount[t])
  BY <1>0, <1>5, KeysDiffer DEF RecordWithdrawal, Entering, TradeKinds
<1>6. ASSUME SettleTradeProfit(t)
      PROVE  Entering(t, e, ProfitKey(t), <<e, Asset[t]>>, "MANUAL_CREDIT", Fee[t] \div 2)
  BY <1>0, <1>6, KeysDiffer DEF SettleTradeProfit, Entering, TradeKinds
<1> HIDE DEF e
<1>7. OwnedNext(t, e)
  BY DEF e
<1>8. \E k, p, kind, n : Entering(t, e, k, p, kind, n)
  <2>1. CASE \E why \in EscrowReasons : ReleaseEscrow(t, e, why)
    BY <1>1, <2>1
  <2>2. CASE \E a \in Assets : LockCollateral(t, e, a)
    BY <1>2, <2>2
  <2>3. CASE \E why \in CollateralReasons : ReleaseCollateral(t, e, collateral[t], why)
    BY <1>3, <2>3
  <2>4. CASE CancelTradeAndReleaseEscrow(t, e)
    BY <1>4, <2>4
  <2>5. CASE \E tx \in Txs : RecordWithdrawal(t, e, tx)
    BY <1>5, <2>5
  <2>6. CASE SettleTradeProfit(t)
    BY <1>6, <2>6
  <2>7. QED
    BY <1>7, <2>1, <2>2, <2>3, <2>4, <2>5, <2>6 DEF OwnedNext
<1>9. QED
  BY <1>8 DEF e

\* The parts of the tables beside the ledger.
LEMMA OwnedRest ==
  ASSUME DbInv, NEW t \in Trades, owner[t] # NoExchanger, OwnedNext(t, owner[t])
  PROVE  /\ OwnerByStatus'
         /\ status' \in [Trades -> Statuses]
         /\ collateral' \in [Trades -> Assets \cup {NoAsset}]
         /\ profit' \in [Assets -> Nat]
<1> DEFINE e == owner[t]
<1>1. CASE CancelTradeAndReleaseEscrow(t, e)
  <2>1. "CANCELLED" \in Statuses \ {"CLAIMED"}
    BY DEF Statuses
  <2>2. OwnerByStatus' /\ status' \in [Trades -> Statuses]
    BY <1>1, <2>1, TransitionOwner DEF CancelTradeAndReleaseEscrow, CanCancel
  <2>3. QED
    BY <1>1, <2>2 DEF CancelTradeAndReleaseEscrow, DbInv, DbTypeOK
<1>2. CASE SettleTradeProfit(t)
  <2>1. Asset[t] \in Assets /\ Fee[t] \in Nat /\ Fee[t] - Fee[t] \div 2 \in Nat
    BY TradesOK
  <2>2. profit' \in [Assets -> Nat]
    BY <1>2, <2>1 DEF SettleTradeProfit, DbInv, DbTypeOK
  <2>3. QED
    BY <1>2, <2>2 DEF SettleTradeProfit, DbInv, DbTypeOK, OwnerByStatus
<1>3. ASSUME NEW a \in Assets, LockCollateral(t, e, a)
      PROVE  collateral' \in [Trades -> Assets \cup {NoAsset}] /\ UNCHANGED <<status, owner, profit>>
  BY <1>3 DEF LockCollateral, DbInv, DbTypeOK
<1>4. CASE UNCHANGED <<status, owner, profit>> /\ collateral' \in [Trades -> Assets \cup {NoAsset}]
  BY <1>4 DEF DbInv, DbTypeOK, OwnerByStatus
<1>5. CASE UNCHANGED <<status, owner, profit, collateral>>
  BY <1>5 DEF DbInv, DbTypeOK, OwnerByStatus
<1> HIDE DEF e
<1>6. OwnedNext(t, e)
  BY DEF e
<1>7. QED
  BY <1>1, <1>2, <1>3, <1>4, <1>5, <1>6
     DEF OwnedNext, ReleaseEscrow, ReleaseCollateral, RecordWithdrawal

LEMMA OwnedInv ==
  ASSUME DbInv, NEW t \in Trades, owner[t] # NoExchanger, OwnedNext(t, owner[t])
  PROVE  DbInv'
<1>1. PICK k, p, kind, n : Entering(t, owner[t], k, p, kind, n)
  BY OwnedEnters
<1>2. bal' \in [Pairs -> BalanceType]
  BY <1>1, EnterEffect DEF Entering, DbInv
<1>3. UNCHANGED <<owner, wallet>>
  BY <1>1 DEF Entering
<1>4. DbTypeOK'
  BY <1>2, <1>3, OwnedRest DEF DbInv, DbTypeOK
<1>5. LockedByOwnerOnly'
  <2>1. keys' = keys \cup {k}
    BY <1>1 DEF Entering, Enter
  <2>2. QED
    BY <1>1, <1>3, <2>1, OtherKey DEF Entering
<1>6. QED
  BY <1>4, <1>5, OwnedRest DEF DbInv

\* No transaction breaks the invariant.
LEMMA DbNextInv == DbInv /\ [DbNext]_dbVars => DbInv'
<1> SUFFICES ASSUME DbInv, [DbNext]_dbVars PROVE DbInv'
  OBVIOUS
<1>1. ASSUME NEW t \in Trades, NEW e \in Exchangers, Claim(t, e) PROVE DbInv'
  BY <1>1, ClaimInv
<1>2. ASSUME NEW t \in Trades, NEW to \in Statuses \ {"CLAIMED"}, Transition(t, to)
      PROVE  DbInv'
  BY <1>2, TransitionInv
<1>3. ASSUME NEW t \in Trades, TransitionWithWallet(t) PROVE DbInv'
  BY <1>3, WalletInv
<1>4. ASSUME NEW t \in Trades, owner[t] # NoExchanger, OwnedNext(t, owner[t])
      PROVE  DbInv'
  BY <1>4, OwnedInv
<1>5. CASE UNCHANGED dbVars
  <2>1. DbTypeOK'
    BY <1>5 DEF DbInv, DbTypeOK, dbVars
  <2>2. OwnerByStatus' /\ LockedByOwnerOnly'
    BY <1>5 DEF DbInv, OwnerByStatus, LockedByOwnerOnly, dbVars
  <2>3. QED
    BY <2>1, <2>2 DEF DbInv
<1>6. QED
  BY <1>1, <1>2, <1>3, <1>4, <1>5 DEF DbNext

\* The inductive invariant holds in every reachable state.
THEOREM DbInvariance == DbSpec => []DbInv
BY DbInitInv, DbNextInv, PTL DEF DbSpec

(* No order of claims, releases, withdrawals and fee shares takes a balance *)
(* below zero or a trade out of its statuses, for any amounts and funds.    *)
THEOREM DbTypeCorrect == DbSpec => []DbTypeOK
<1>1. DbInv => DbTypeOK
  BY DEF DbInv
<1>2. QED
  BY <1>1, DbInvariance, PTL

(* The funds of at most one exchanger are ever locked for a crypto trade:   *)
(* those of the exchanger it belongs to.                                    *)
THEOREM ExclusiveClaims == DbSpec => []LockedByOwnerOnly
<1>1. DbInv => LockedByOwnerOnly
  BY DEF DbInv
<1>2. QED
  BY <1>1, DbInvariance, PTL

-----------------------------------------------------------------------------
\* An entry of the escrow moves money inside its pair.
LEMMA EscrowKeepsTotals ==
  ASSUME DbTypeOK, NEW k, NEW p \in Pairs, NEW kind \in {"ESCROW_LOCK", "ESCROW_RELEASE"},
         NEW n \in Nat, Enter(k, p, kind, n), NEW q \in Pairs
  PROVE  Total(q)' = Total(q)
<1>0. kind \in TradeKinds
  BY DEF TradeKinds
<1>1. /\ q # p => Total(q)' = Total(q)
      /\ Total(p)' = Total(p) \/ Total(p)' = Total(p) + Change(kind, n)
  BY <1>0, EnterEffect
<1>2. Change(kind, n) = 0
  BY DEF Change
<1>3. Total(p) \in Nat
  BY DEF DbTypeOK, BalanceType, Total
<1>4. QED
  BY <1>1, <1>2, <1>3

\* Of the operations on a claimed trade two change a total, under a new key.
LEMMA OwnedMoney ==
  ASSUME DbInv, NEW t \in Trades, owner[t] # NoExchanger, OwnedNext(t, owner[t]),
         NEW p \in Pairs, Total(p)' # Total(p)
  PROVE  MoneyMoves(p)
<1> DEFINE e == owner[t]
<1>0. /\ DbTypeOK /\ e \in Exchangers /\ <<e, Asset[t]>> \in Pairs
      /\ \A a \in Assets : <<e, a>> \in Pairs
      /\ Amount[t] \in Nat /\ Quote[t] \in Nat /\ Fee[t] \div 2 \in Nat
  BY TradesOK DEF DbInv, DbTypeOK, Pairs
<1>1. ASSUME NEW why \in EscrowReasons, ReleaseEscrow(t, e, why) PROVE FALSE
  BY <1>0, <1>1, EscrowKeepsTotals DEF ReleaseEscrow
<1>2. ASSUME NEW a \in Assets, LockCollateral(t, e, a) PROVE FALSE
  BY <1>0, <1>2, EscrowKeepsTotals DEF LockCollateral
<1>3. ASSUME NEW why \in CollateralReasons, ReleaseCollateral(t, e, collateral[t], why)
      PROVE  FALSE
  <2>1. collateral[t] \in Assets
    BY <1>3 DEF ReleaseCollateral, CanFree, DbInv, DbTypeOK
  <2>2. QED
    BY <1>0, <1>3, <2>1, EscrowKeepsTotals DEF ReleaseCollateral
<1>4. ASSUME CancelTradeAndReleaseEscrow(t, e) PROVE FALSE
  BY <1>0, <1>4, EscrowKeepsTotals DEF CancelTradeAndReleaseEscrow
<1>5. ASSUME NEW tx \in Txs, RecordWithdrawal(t, e, tx) PROVE MoneyMoves(p)
  <2>1. Enter(PayKey(t, tx), <<e, Asset[t]>>, "WITHDRAWAL", Amount[t])
    BY <1>5 DEF RecordWithdrawal
  <2>2. /\ p = <<e, Asset[t]>> /\ PayKey(t, tx) \notin keys
        /\ Total(p)' = Total(p) + Change("WITHDRAWAL", Amount[t])
    BY <1>0, <2>1, EnterEffect DEF TradeKinds
  <2>3. PayKey(t, tx) \in keys' \ keys
    BY <2>1, <2>2 DEF Enter
  <2>4. Total(p)' = Total(p) - Amount[t]
    <3>1. Total(p) \in Nat
      BY <1>0 DEF DbTypeOK, BalanceType, Total
    <3>2. QED
      BY <1>0, <2>2, <3>1 DEF Change
  <2>5. QED
    BY <2>2, <2>3, <2>4 DEF MoneyMoves
<1>6. ASSUME SettleTradeProfit(t) PROVE MoneyMoves(p)
  <2>1. Enter(ProfitKey(t), <<e, Asset[t]>>, "MANUAL_CREDIT", Fee[t] \div 2)
    BY <1>6 DEF SettleTradeProfit
  <2>2. /\ p = <<e, Asset[t]>> /\ ProfitKey(t) \notin keys
        /\ Total(p)' = Total(p) + Change("MANUAL_CREDIT", Fee[t] \div 2)
    BY <1>0, <2>1, EnterEffect DEF TradeKinds
  <2>3. ProfitKey(t) \in keys' \ keys
    BY <2>1, <2>2 DEF Enter
  <2>4. QED
    BY <2>2, <2>3 DEF MoneyMoves, Change
<1> HIDE DEF e
<1>7. OwnedNext(t, e)
  BY DEF e
<1>8. QED
  BY <1>1, <1>2, <1>3, <1>4, <1>5, <1>6, <1>7 DEF OwnedNext

LEMMA ClaimMoney ==
  ASSUME DbInv, NEW t \in Trades, NEW e \in Exchangers, Claim(t, e), NEW p \in Pairs
  PROVE  Total(p)' = Total(p)
<1>1. CASE Direction[t] = "FIAT_TO_FIAT"
  BY <1>1 DEF Claim, TransitionToClaimed, Total
<1>2. CASE Direction[t] # "FIAT_TO_FIAT"
  <2>1. <<e, Asset[t]>> \in Pairs /\ Amount[t] \in Nat
    BY TradesOK DEF Pairs
  <2>2. Enter(LockKey(t, e), <<e, Asset[t]>>, "ESCROW_LOCK", Amount[t])
    BY <1>2 DEF Claim, ClaimTradeWithEscrow
  <2>3. QED
    BY <2>1, <2>2, EscrowKeepsTotals DEF DbInv
<1>3. QED
  BY <1>1, <1>2

(* claimTradeWithEscrow, releaseEscrow, cancelTradeAndReleaseEscrow and the *)
(* collateral functions move money inside a pair; only recordWithdrawal and *)
(* settleTradeProfit change what a pair holds, once per key, for the owner. *)
THEOREM MoneyIsConserved == DbSpec => MoneyConserved
<1>1. DbInv /\ [DbNext]_dbVars
        => [\A p \in Pairs : Total(p)' # Total(p) => MoneyMoves(p)]_dbVars
  <2> SUFFICES ASSUME DbInv, DbNext, NEW p \in Pairs, Total(p)' # Total(p)
               PROVE  MoneyMoves(p)
    OBVIOUS
  <2>1. ASSUME NEW t \in Trades, NEW to, Transition(t, to) PROVE FALSE
    BY <2>1 DEF Transition, Total
  <2>2. ASSUME NEW t \in Trades, TransitionWithWallet(t) PROVE FALSE
    BY <2>2 DEF TransitionWithWallet, Total
  <2>3. QED
    BY <2>1, <2>2, ClaimMoney, OwnedMoney DEF DbNext
<1>2. QED
  BY <1>1, DbInvariance, PTL DEF DbSpec, MoneyConserved

-----------------------------------------------------------------------------
\* Refinement of Ledger.  Each transaction makes one entry of its trade, or none.
NoEntry == UNCHANGED <<bal, keys>>

LEMMA EntryFields ==
  ASSUME NEW k, NEW p, NEW kind, NEW n
  PROVE  LET r == Entry(k, p, kind, n)
         IN /\ r.key = k /\ r.bal = p
            /\ Books!AvailDelta(r) = AvailDelta(Entered(kind, n))
            /\ Books!EscrowDelta(r) = EscrowDelta(Entered(kind, n))
BY DEF Entry, Entered, AvailDelta, EscrowDelta, Books!AvailDelta, Books!EscrowDelta

\* A row under a new key is one step of the Ledger, and under a used key none.
LEMMA EnterApplies ==
  ASSUME NEW k, NEW p, NEW kind, NEW n, Enter(k, p, kind, n), Entry(k, p, kind, n) \in TradeEntries
  PROVE  Books!Next \/ NoEntry
<1> DEFINE r == Entry(k, p, kind, n)
<1>1. CASE k \in keys
  BY <1>1 DEF Enter, NoEntry
<1>2. CASE k \notin keys
  <2>1. /\ Covered(Entered(kind, n), bal[p])
        /\ bal' = [bal EXCEPT ![p] = After(Entered(kind, n), bal[p])]
        /\ keys' = keys \cup {k}
    BY <1>2 DEF Enter, CanEnter
  <2>2. r.key = k /\ r.bal = p
    BY EntryFields
  <2>3. Books!After(r, bal[p]) = After(Entered(kind, n), bal[p])
    BY EntryFields DEF After, Books!After
  <2>4. Books!Covered(r, bal[p])
    BY <2>1, <2>3 DEF Covered, Books!Covered
  <2> HIDE DEF r
  <2>5. Books!Apply(r)
    BY <1>2, <2>1, <2>2, <2>3, <2>4 DEF Books!Apply
  <2> QED
    BY <2>5 DEF Books!Next, r
<1> QED
  BY <1>1, <1>2

\* The entries of the trades, one for each use of a key.
LEMMA EntriesAre ==
  ASSUME NEW t \in Trades, NEW e \in Exchangers
  PROVE  /\ Entry(LockKey(t, e), <<e, Asset[t]>>, "ESCROW_LOCK", Amount[t]) \in TradeEntries
         /\ \A why \in EscrowReasons :
               Entry(ReleaseKey(t, why), <<e, Asset[t]>>, "ESCROW_RELEASE", Amount[t]) \in TradeEntries
         /\ \A a \in Assets :
               Entry(CollateralKey(t, a), <<e, a>>, "ESCROW_LOCK", Quote[t]) \in TradeEntries
         /\ \A a \in Assets, why \in CollateralReasons :
               Entry(FreeKey(t, why), <<e, a>>, "ESCROW_RELEASE", Quote[t]) \in TradeEntries
         /\ \A tx \in Txs : Entry(PayKey(t, tx), <<e, Asset[t]>>, "WITHDRAWAL", Amount[t]) \in TradeEntries
         /\ Entry(ProfitKey(t), <<e, Asset[t]>>, "MANUAL_CREDIT", Fee[t] \div 2) \in TradeEntries
<1>1. \A r \in EntriesOf(t, e) : r \in TradeEntries
  BY DEF TradeEntries
<1>2. Entry(LockKey(t, e), <<e, Asset[t]>>, "ESCROW_LOCK", Amount[t]) \in EntriesOf(t, e)
  BY DEF EntriesOf
<1>3. ASSUME NEW why \in EscrowReasons
      PROVE  Entry(ReleaseKey(t, why), <<e, Asset[t]>>, "ESCROW_RELEASE", Amount[t]) \in EntriesOf(t, e)
  BY DEF EntriesOf
<1>4. ASSUME NEW a \in Assets
      PROVE  Entry(CollateralKey(t, a), <<e, a>>, "ESCROW_LOCK", Quote[t]) \in EntriesOf(t, e)
  BY DEF EntriesOf
<1>5. ASSUME NEW a \in Assets, NEW why \in CollateralReasons
      PROVE  Entry(FreeKey(t, why), <<e, a>>, "ESCROW_RELEASE", Quote[t]) \in EntriesOf(t, e)
  BY DEF EntriesOf
<1>6. ASSUME NEW tx \in Txs
      PROVE  Entry(PayKey(t, tx), <<e, Asset[t]>>, "WITHDRAWAL", Amount[t]) \in EntriesOf(t, e)
  BY DEF EntriesOf
<1>7. Entry(ProfitKey(t), <<e, Asset[t]>>, "MANUAL_CREDIT", Fee[t] \div 2) \in EntriesOf(t, e)
  BY DEF EntriesOf
<1> QED
  BY <1>1, <1>2, <1>3, <1>4, <1>5, <1>6, <1>7

LEMMA OwnedApplies ==
  ASSUME DbInv, NEW t \in Trades, owner[t] # NoExchanger, OwnedNext(t, owner[t])
  PROVE  Books!Next \/ NoEntry
<1>0. PICK e \in Exchangers : e = owner[t]
  BY DEF DbInv, DbTypeOK
<1>1. ASSUME NEW why \in EscrowReasons, ReleaseEscrow(t, e, why) PROVE Books!Next \/ NoEntry
  BY <1>1, EnterApplies, EntriesAre DEF ReleaseEscrow
<1>2. ASSUME NEW a \in Assets, LockCollateral(t, e, a) PROVE Books!Next \/ NoEntry
  BY <1>2, EnterApplies, EntriesAre DEF LockCollateral
<1>3. ASSUME NEW why \in CollateralReasons, ReleaseCollateral(t, e, collateral[t], why)
      PROVE  Books!Next \/ NoEntry
  <2>1. collateral[t] \in Assets
    BY <1>3 DEF ReleaseCollateral, CanFree, DbInv, DbTypeOK
  <2> QED
    BY <1>3, <2>1, EnterApplies, EntriesAre DEF ReleaseCollateral
<1>4. CASE CancelTradeAndReleaseEscrow(t, e)
  <2>1. "CANCEL" \in EscrowReasons
    BY DEF EscrowReasons
  <2> QED
    BY <1>4, <2>1, EnterApplies, EntriesAre DEF CancelTradeAndReleaseEscrow
<1>5. ASSUME NEW tx \in Txs, RecordWithdrawal(t, e, tx) PROVE Books!Next \/ NoEntry
  BY <1>5, EnterApplies, EntriesAre DEF RecordWithdrawal
<1>6. CASE SettleTradeProfit(t)
  BY <1>0, <1>6, EnterApplies, EntriesAre DEF SettleTradeProfit
<1>7. OwnedNext(t, e)
  BY <1>0
<1> QED
  BY <1>0, <1>1, <1>2, <1>3, <1>4, <1>5, <1>6, <1>7 DEF OwnedNext

LEMMA ClaimApplies ==
  ASSUME NEW t \in Trades, NEW e \in Exchangers, Claim(t, e)
  PROVE  Books!Next \/ NoEntry
<1>1. CASE Direction[t] = "FIAT_TO_FIAT"
  BY <1>1 DEF Claim, TransitionToClaimed, NoEntry
<1>2. CASE Direction[t] # "FIAT_TO_FIAT"
  BY <1>2, EnterApplies, EntriesAre DEF Claim, ClaimTradeWithEscrow
<1> QED
  BY <1>1, <1>2

(* What the transactions of trades do to the balances is what the ledger    *)
(* promises its callers: one entry at a time and once per key, of the       *)
(* amount, kind and pair that belong to the key, and covered.               *)
THEOREM LedgerImplemented == DbSpec => ImplementsLedger
<1>1. DbInit => Books!Init
  BY DEF DbInit, Books!Init
<1>2. DbInv /\ [DbNext]_dbVars => [Books!Next]_(Books!vars)
  <2> SUFFICES ASSUME DbInv, [DbNext]_dbVars PROVE Books!Next \/ NoEntry
    BY DEF NoEntry, Books!vars
  <2>1. ASSUME NEW t \in Trades, NEW to, Transition(t, to) PROVE NoEntry
    BY <2>1 DEF Transition, NoEntry
  <2>2. ASSUME NEW t \in Trades, TransitionWithWallet(t) PROVE NoEntry
    BY <2>2 DEF TransitionWithWallet, NoEntry
  <2>3. CASE UNCHANGED dbVars
    BY <2>3 DEF dbVars, NoEntry
  <2> QED
    BY <2>1, <2>2, <2>3, ClaimApplies, OwnedApplies DEF DbNext
<1> QED
  BY <1>1, <1>2, DbInvariance, PTL DEF DbSpec, ImplementsLedger, Books!Spec

-----------------------------------------------------------------------------
\* Refinement of TradeLifecycle.  A transition changes the phase of its trade
\* only, in one of the ways the abstract specification has.
PhaseOf(s, e) ==
  CASE s = "OPEN"                                                  -> "waiting"
    [] s = "COMPLETED"                                             -> "done"
    [] s \in {"CANCELLED", "EXPIRED", "FAILED"} /\ e = NoExchanger -> "dropped"
    [] s \in {"CANCELLED", "EXPIRED", "FAILED"} /\ e # NoExchanger -> "undone"
    [] OTHER                                                       -> "taken"

LEMMA PhaseIs == \A t \in Trades : Phase(t) = PhaseOf(status[t], owner[t])
BY DEF Phase, PhaseOf

\* Where an allowed transition of an exchanger's trade leads.
LEMMA PhaseMoves ==
  ASSUME NEW from \in Statuses, NEW to \in Allowed(from), NEW e,
         from = "OPEN" => e = NoExchanger,
         from \notin {"OPEN", "CANCELLED", "EXPIRED"} => e # NoExchanger,
         to # "CLAIMED"
  PROVE  \/ PhaseOf(from, e) = "waiting" /\ PhaseOf(to, e) = "dropped"
         \/ PhaseOf(from, e) = "taken" /\ PhaseOf(to, e) \in {"taken", "done", "undone"}
<1>1. CASE from = "OPEN"
  BY <1>1 DEF Allowed, PhaseOf
<1>2. CASE from \in Terminal
  BY <1>2, AllowedFacts
<1>3. CASE from \notin Terminal /\ from # "OPEN"
  <2>1. PhaseOf(from, e) = "taken" /\ e # NoExchanger
    BY <1>3 DEF PhaseOf, Terminal
  <2>2. to \in Statuses \ {"OPEN"}
    BY AllowedFacts
  <2>3. PhaseOf(to, e) \in {"taken", "done", "undone"}
    BY <2>1, <2>2 DEF PhaseOf
  <2>4. QED
    BY <2>1, <2>3
<1>4. QED
  BY <1>1, <1>2, <1>3

LEMMA StatusStep ==
  ASSUME DbInv, NEW t \in Trades, NEW to \in Statuses \ {"CLAIMED"},
         IsTransitionAllowed(t, to), SetStatus(t, to), UNCHANGED owner
  PROVE  Lifecycle!Next \/ UNCHANGED Lifecycle!vars
<1> DEFINE phase == [u \in Trades |-> Phase(u)]
           to2   == PhaseOf(to, owner[t])
<1>1. status[t] \in Statuses /\ status' = [status EXCEPT ![t] = to]
  BY DEF DbInv, DbTypeOK, SetStatus
<1>2. status'[t] = to /\ \A u \in Trades : u # t => status'[u] = status[u]
  BY <1>1 DEF DbInv, DbTypeOK
<1>3. /\ Phase(t)' = to2
      /\ \A u \in Trades : u # t => Phase(u)' = Phase(u)
  BY <1>2 DEF Phase, PhaseOf
<1>4. phase' = [phase EXCEPT ![t] = to2]
  BY <1>3
<1>5. \/ phase[t] = "waiting" /\ to2 = "dropped"
      \/ phase[t] = "taken" /\ to2 \in {"taken", "done", "undone"}
  <2>1. /\ status[t] = "OPEN" => owner[t] = NoExchanger
        /\ status[t] \notin {"OPEN", "CANCELLED", "EXPIRED"} => owner[t] # NoExchanger
    BY DEF DbInv, OwnerByStatus
  <2>2. phase[t] = PhaseOf(status[t], owner[t])
    BY PhaseIs
  <2>3. QED
    BY <1>1, <2>1, <2>2, PhaseMoves DEF IsTransitionAllowed
<1>6. CASE phase[t] = "waiting" /\ to2 = "dropped"
  BY <1>4, <1>6 DEF Lifecycle!Next, Lifecycle!Drop
<1>7. CASE phase[t] = "taken" /\ to2 \in {"done", "undone"}
  BY <1>4, <1>7 DEF Lifecycle!Next, Lifecycle!Finish
<1>8. CASE phase[t] = "taken" /\ to2 = "taken"
  BY <1>4, <1>8 DEF Lifecycle!vars
<1>9. QED
  BY <1>5, <1>6, <1>7, <1>8

\* A claim of either kind is the abstract Take.
LEMMA ClaimTakes ==
  ASSUME DbInv, NEW t \in Trades, NEW e \in Exchangers, Claim(t, e)
  PROVE  Lifecycle!Take(t, e)
<1> DEFINE phase == [u \in Trades |-> Phase(u)]
<1>1. /\ status[t] = "OPEN" /\ owner' = [owner EXCEPT ![t] = e]
      /\ e # NoExchanger
  BY ClaimFacts, TradesOK
<1>2. PICK to \in {"CLAIMED", "FIAT_PENDING"} : status' = [status EXCEPT ![t] = to]
  BY ClaimFacts DEF SetStatus
<1>3. Phase(t) = "waiting" /\ Phase(t)' = "taken"
  BY <1>1, <1>2 DEF Phase, DbInv, DbTypeOK
<1>4. \A u \in Trades : u # t => status'[u] = status[u] /\ owner'[u] = owner[u]
  BY <1>1, <1>2 DEF DbInv, DbTypeOK
<1>5. \A u \in Trades : u # t => Phase(u)' = Phase(u)
  BY <1>4 DEF Phase
<1>6. phase' = [phase EXCEPT ![t] = "taken"]
  BY <1>3, <1>5
<1>7. QED
  BY <1>1, <1>3, <1>6 DEF Lifecycle!Take

LEMMA QuietLifecycle == UNCHANGED <<status, owner>> => UNCHANGED Lifecycle!vars
BY DEF Lifecycle!vars, Phase

LEMMA OwnedStep ==
  ASSUME DbInv, NEW t \in Trades, owner[t] # NoExchanger, OwnedNext(t, owner[t])
  PROVE  Lifecycle!Next \/ UNCHANGED Lifecycle!vars
<1>1. CASE CancelTradeAndReleaseEscrow(t, owner[t])
  <2>1. "CANCELLED" \in Statuses \ {"CLAIMED"}
    BY DEF Statuses
  <2>2. QED
    BY <1>1, <2>1, StatusStep DEF CancelTradeAndReleaseEscrow, CanCancel
<1>2. CASE ~CancelTradeAndReleaseEscrow(t, owner[t])
  <2>1. UNCHANGED <<status, owner>>
    BY <1>2 DEF OwnedNext, ReleaseEscrow, LockCollateral, ReleaseCollateral,
                RecordWithdrawal, SettleTradeProfit
  <2>2. QED
    BY <2>1, QuietLifecycle
<1>3. QED
  BY <1>1, <1>2

(* ALLOWED_TRANSITIONS and the claims implement the life of a trade: taken  *)
(* by one exchanger who keeps it, ended once, in any order of transactions. *)
THEOREM LifecycleImplemented == DbSpec => ImplementsLifecycle
<1>1. DbInit => Lifecycle!Init
  BY DEF DbInit, Lifecycle!Init, Phase
<1>2. DbInv /\ [DbNext]_dbVars => [Lifecycle!Next]_(Lifecycle!vars)
  <2> SUFFICES ASSUME DbInv, [DbNext]_dbVars
               PROVE  Lifecycle!Next \/ UNCHANGED Lifecycle!vars
    OBVIOUS
  <2>1. ASSUME NEW t \in Trades, NEW e \in Exchangers, Claim(t, e)
        PROVE  Lifecycle!Next
    BY <2>1, ClaimTakes DEF Lifecycle!Next
  <2>2. ASSUME NEW t \in Trades, NEW to \in Statuses \ {"CLAIMED"}, Transition(t, to)
        PROVE  Lifecycle!Next \/ UNCHANGED Lifecycle!vars
    BY <2>2, StatusStep DEF Transition
  <2>3. ASSUME NEW t \in Trades, TransitionWithWallet(t)
        PROVE  Lifecycle!Next \/ UNCHANGED Lifecycle!vars
    <3>1. "RELEASE_PENDING" \in Statuses \ {"CLAIMED"}
      BY DEF Statuses
    <3>2. QED
      BY <2>3, <3>1, StatusStep DEF TransitionWithWallet
  <2>4. CASE UNCHANGED dbVars
    BY <2>4, QuietLifecycle DEF dbVars
  <2>5. QED
    BY <2>1, <2>2, <2>3, <2>4, OwnedStep DEF DbNext
<1>3. QED
  BY <1>1, <1>2, DbInvariance, PTL DEF DbSpec, ImplementsLifecycle, Lifecycle!Spec

-----------------------------------------------------------------------------
(* The sums of the accounting worker.  What is added up is fixed once a row *)
(* is entered: its owner stays, and so must the collateral of its trade.    *)

\* How a new entry changes the escrow of each pair.
LEMMA EnterEscrow ==
  ASSUME DbTypeOK, NEW k, k \notin keys, NEW p \in Pairs, NEW kind \in TradeKinds, NEW n \in Nat,
         Enter(k, p, kind, n)
  PROVE  \A q \in Pairs :
            bal'[q].esc = bal[q].esc + (IF q = p THEN EscrowDelta(Entered(kind, n)) ELSE 0)
<1> DEFINE r == Entered(kind, n)
<1>1. bal' = [bal EXCEPT ![p] = After(r, @)]
  BY DEF Enter
<1>2. EscrowDelta(r) \in Int
  BY Deltas DEF TradeKinds
<1> HIDE DEF r
<1>3. \A q \in Pairs : bal[q].esc \in Int
  BY DEF DbTypeOK, BalanceType
<1>4. ASSUME NEW q \in Pairs PROVE bal'[q].esc = bal[q].esc + (IF q = p THEN EscrowDelta(r) ELSE 0)
  BY <1>1, <1>2, <1>3 DEF After, DbTypeOK
<1> QED
  BY <1>4 DEF r

\* The row of each key.
LEMMA RowIs ==
  ASSUME NEW t
  PROVE  /\ \A e : /\ RowOf(LockKey(t, e)) = Row("ESCROW_LOCK", e, Asset[t], Amount[t])
                   /\ RowOf(LockKey(t, e))' = Row("ESCROW_LOCK", e, Asset[t], Amount[t])
         /\ \A y : /\ RowOf(ReleaseKey(t, y)) = Row("ESCROW_RELEASE", owner[t], Asset[t], Amount[t])
                   /\ RowOf(ReleaseKey(t, y))' = Row("ESCROW_RELEASE", owner'[t], Asset[t], Amount[t])
         /\ \A a : /\ RowOf(CollateralKey(t, a)) = Row("ESCROW_LOCK", owner[t], a, Quote[t])
                   /\ RowOf(CollateralKey(t, a))' = Row("ESCROW_LOCK", owner'[t], a, Quote[t])
         /\ \A y : /\ RowOf(FreeKey(t, y)) = Row("ESCROW_RELEASE", owner[t], collateral[t], Quote[t])
                   /\ RowOf(FreeKey(t, y))' = Row("ESCROW_RELEASE", owner'[t], collateral'[t], Quote[t])
         /\ \A x : /\ RowOf(PayKey(t, x)) = Row("WITHDRAWAL", owner[t], Asset[t], Amount[t])
                   /\ RowOf(PayKey(t, x))' = Row("WITHDRAWAL", owner'[t], Asset[t], Amount[t])
         /\ RowOf(ProfitKey(t)) = Row("MANUAL_CREDIT", owner[t], Asset[t], Fee[t] \div 2)
         /\ RowOf(ProfitKey(t))' = Row("MANUAL_CREDIT", owner'[t], Asset[t], Fee[t] \div 2)
BY DEF RowOf, LockKey, ReleaseKey, CollateralKey, FreeKey, PayKey, ProfitKey

\* A key that an operation on trades has entered.
KnownKey(k) ==
  \E t \in Trades :
     \/ \E e \in Exchangers : k = LockKey(t, e)
     \/ /\ owner[t] # NoExchanger
        /\ \/ \E y : k = ReleaseKey(t, y) \/ k = PayKey(t, y)
           \/ \E a \in Assets : k = CollateralKey(t, a)
           \/ collateral[t] # NoAsset /\ \E y : k = FreeKey(t, y)
           \/ k = ProfitKey(t)

RowType == [kind: TradeKinds, pair: Pairs, amt: Nat]

LEMMA KnownRows == ASSUME DbTypeOK, NEW k, KnownKey(k) PROVE RowOf(k) \in RowType
<1>1. PICK t \in Trades :
     \/ \E e \in Exchangers : k = LockKey(t, e)
     \/ /\ owner[t] # NoExchanger
        /\ \/ \E y : k = ReleaseKey(t, y) \/ k = PayKey(t, y)
           \/ \E a \in Assets : k = CollateralKey(t, a)
           \/ collateral[t] # NoAsset /\ \E y : k = FreeKey(t, y)
           \/ k = ProfitKey(t)
  BY DEF KnownKey
<1>2. /\ Asset[t] \in Assets /\ Amount[t] \in Nat /\ Quote[t] \in Nat /\ Fee[t] \div 2 \in Nat
      /\ owner[t] # NoExchanger => owner[t] \in Exchangers
      /\ collateral[t] # NoAsset => collateral[t] \in Assets
  BY TradesOK DEF DbTypeOK
<1>3. \A kind \in TradeKinds, e \in Exchangers, a \in Assets, n \in Nat : Row(kind, e, a, n) \in RowType
  BY DEF Row, RowType, Pairs
<1>4. {"ESCROW_LOCK", "ESCROW_RELEASE", "WITHDRAWAL", "MANUAL_CREDIT"} \subseteq TradeKinds
  BY DEF TradeKinds
<1> QED
  BY <1>1, <1>2, <1>3, <1>4, RowIs

\* A trade keeps its collateral.
CollateralStays == \A t \in Trades : collateral[t] # NoAsset => collateral'[t] = collateral[t]
OwnersStay == \A t \in Trades : owner[t] # NoExchanger => owner'[t] = owner[t]

LEMMA RowsStay ==
  ASSUME NoExchanger \notin Exchangers, CollateralStays, OwnersStay, NEW k, KnownKey(k)
  PROVE  KnownKey(k)' /\ RowOf(k)' = RowOf(k)
BY RowIs DEF KnownKey, CollateralStays, OwnersStay

\* What the entries add to the sums.
TotalSign(k) == ReconciledAvailable(RowOf(k)) + ReconciledEscrow(RowOf(k))
TotalSigns == [k \in keys |-> TotalSign(k)]
EscrowSigns == [k \in keys |-> ReconciledEscrow(RowOf(k))]
AmountsOf == [k \in keys |-> RowOf(k).amt]
OfAsset(a) == {k \in keys : RowOf(k).pair[2] = a}
Paying(p) == {k \in KeysOf(p) : k[1] = "withdrawal"}

LEMMA SumsAre ==
  /\ \A p : /\ LedgerTotal(p) = Funds[p] + SumFunctionOnSet(TotalSigns, KeysOf(p))
            /\ LedgerTotal(p)' = Funds[p] + SumFunctionOnSet(TotalSigns', KeysOf(p)')
            /\ Withdrawn(p) = SumFunctionOnSet(AmountsOf, Paying(p))
            /\ Withdrawn(p)' = SumFunctionOnSet(AmountsOf', Paying(p)')
  /\ \A a : /\ EscrowReported(a) = SumFunctionOnSet(EscrowSigns, OfAsset(a))
            /\ EscrowReported(a)' = SumFunctionOnSet(EscrowSigns', OfAsset(a)')
BY DEF LedgerTotal, EscrowReported, Withdrawn, TotalSigns, TotalSign, EscrowSigns, AmountsOf, OfAsset, Paying

LEMMA Signs ==
  ASSUME NEW r \in RowType
  PROVE  /\ ReconciledAvailable(r) \in Int /\ ReconciledEscrow(r) \in Int
         /\ ReconciledEscrow(r) = EscrowDelta(Entered(r.kind, r.amt))
         /\ ReconciledAvailable(r) + ReconciledEscrow(r)
              = Change(r.kind, r.amt) - (IF r.kind = "WITHDRAWAL" THEN r.amt ELSE 0)
<1>1. r.kind \in TradeKinds /\ r.amt \in Nat
  BY DEF RowType
<1> QED
  BY <1>1, Deltas DEF ReconciledAvailable, ReconciledEscrow, Change, TradeKinds

\* One more key adds its summand, where it belongs to the sum.
LEMMA SumGrows ==
  ASSUME NEW K, IsFiniteSet(K), NEW k, k \notin K, NEW f, NEW g,
         \A x \in K : f[x] \in Int /\ g[x] = f[x], g[k] \in Int,
         NEW S, S \subseteq K, NEW T, T \ {k} = S
  PROVE  SumFunctionOnSet(g, T) = SumFunctionOnSet(f, S) + (IF k \in T THEN g[k] ELSE 0)
<1>1. IsFiniteSet(S)
  BY FS_Subset
<1>2. SumFunctionOnSet(g, S) = SumFunctionOnSet(f, S)
  BY <1>1, SumSame
<1>3. SumFunctionOnSet(f, S) \in Int
  BY <1>1, SumInt
<1>4. CASE k \in T
  <2>1. T = S \cup {k} /\ k \notin S
    BY <1>4
  <2>2. SumFunctionOnSet(g, S \cup {k}) = g[k] + SumFunctionOnSet(g, S)
    BY <1>1, <2>1, SumWith
  <2> QED
    BY <1>2, <1>3, <1>4, <2>1, <2>2
<1>5. CASE k \notin T
  <2>1. T = S
    BY <1>5
  <2> QED
    BY <1>2, <1>3, <1>5, <2>1
<1> QED
  BY <1>4, <1>5

BooksInv == /\ IsFiniteSet(keys)
            /\ \A k \in keys : KnownKey(k)
            /\ SumsExplained

\* Without a new entry the sums stay.
LEMMA BooksQuiet ==
  ASSUME DbTypeOK, BooksInv, CollateralStays, OwnersStay, UNCHANGED <<keys, bal>>
  PROVE  BooksInv'
<1>1. \A k \in keys : KnownKey(k)' /\ RowOf(k)' = RowOf(k)
  BY RowsStay, TradesOK DEF BooksInv
<1>2. /\ TotalSigns' = TotalSigns /\ EscrowSigns' = EscrowSigns /\ AmountsOf' = AmountsOf
      /\ \A p : KeysOf(p)' = KeysOf(p) /\ Paying(p)' = Paying(p)
      /\ \A a : OfAsset(a)' = OfAsset(a)
  <2>1. \A k \in keys : TotalSign(k)' = TotalSign(k) /\ ReconciledEscrow(RowOf(k))' = ReconciledEscrow(RowOf(k))
    BY <1>1 DEF TotalSign, ReconciledAvailable, ReconciledEscrow
  <2>2. \A p : KeysOf(p)' = KeysOf(p)
    BY <1>1 DEF KeysOf
  <2> QED
    BY <1>1, <2>1, <2>2 DEF TotalSigns, EscrowSigns, AmountsOf, Paying, OfAsset
<1>3. \A p : LedgerTotal(p)' = LedgerTotal(p) /\ Withdrawn(p)' = Withdrawn(p) /\ Total(p)' = Total(p)
  BY <1>2, SumsAre DEF Total
<1>4. \A a : EscrowReported(a)' = EscrowReported(a)
  BY <1>2, SumsAre
<1>5. SumsExplained'
  BY <1>3, <1>4 DEF BooksInv, SumsExplained
<1> QED
  BY <1>1, <1>5 DEF BooksInv

\* A new entry is added up as its balance was changed, but for a withdrawal.
LEMMA BooksEnter ==
  ASSUME IsFiniteSet(Exchangers), DbTypeOK, BooksInv, CollateralStays, OwnersStay,
         NEW k, k \notin keys, NEW r \in RowType, Enter(k, r.pair, r.kind, r.amt),
         KnownKey(k)', RowOf(k)' = r, k[1] = "withdrawal" <=> r.kind = "WITHDRAWAL"
  PROVE  BooksInv'
<1>0. /\ keys' = keys \cup {k} /\ IsFiniteSet(keys)
      /\ r.pair \in Pairs /\ r.kind \in TradeKinds /\ r.amt \in Nat
  BY DEF Enter, BooksInv, RowType
<1>1. \A x \in keys : KnownKey(x)' /\ RowOf(x)' = RowOf(x) /\ RowOf(x) \in RowType
  BY RowsStay, KnownRows, TradesOK DEF BooksInv
<1>2. /\ \A x \in keys : TotalSigns[x] = TotalSign(x) /\ EscrowSigns[x] = ReconciledEscrow(RowOf(x))
                         /\ AmountsOf[x] = RowOf(x).amt
      /\ \A x \in keys' : TotalSigns'[x] = TotalSign(x)' /\ EscrowSigns'[x] = ReconciledEscrow(RowOf(x)')
                         /\ AmountsOf'[x] = RowOf(x)'.amt
  BY DEF TotalSigns, EscrowSigns, AmountsOf, ReconciledEscrow
<1>3. \A x \in keys : /\ TotalSigns[x] \in Int /\ TotalSigns'[x] = TotalSigns[x]
                      /\ EscrowSigns[x] \in Int /\ EscrowSigns'[x] = EscrowSigns[x]
                      /\ AmountsOf[x] \in Int /\ AmountsOf'[x] = AmountsOf[x]
  <2> TAKE x \in keys
  <2>1. /\ RowOf(x) \in RowType /\ RowOf(x)' = RowOf(x) /\ x \in keys'
    BY <1>0, <1>1
  <2>2. TotalSign(x)' = TotalSign(x)
    BY <2>1 DEF TotalSign, ReconciledAvailable, ReconciledEscrow
  <2>3. TotalSign(x) \in Int /\ ReconciledEscrow(RowOf(x)) \in Int /\ RowOf(x).amt \in Int
    BY <2>1, Signs DEF TotalSign, RowType
  <2> QED
    BY <1>2, <2>1, <2>2, <2>3
<1>4. /\ TotalSigns'[k] = ReconciledAvailable(r) + ReconciledEscrow(r) /\ TotalSigns'[k] \in Int
      /\ EscrowSigns'[k] = ReconciledEscrow(r) /\ EscrowSigns'[k] \in Int
      /\ AmountsOf'[k] = r.amt /\ AmountsOf'[k] \in Int
  <2>1. k \in keys'
    BY <1>0
  <2>2. TotalSign(k)' = ReconciledAvailable(r) + ReconciledEscrow(r)
    BY DEF TotalSign, ReconciledAvailable, ReconciledEscrow
  <2> QED
    BY <1>0, <1>2, <2>1, <2>2, Signs
<1>5. /\ \A p : /\ KeysOf(p) \subseteq keys /\ KeysOf(p)' \ {k} = KeysOf(p) /\ (k \in KeysOf(p)' <=> p = r.pair)
                /\ Paying(p) \subseteq keys /\ Paying(p)' \ {k} = Paying(p)
                /\ k \in Paying(p)' <=> p = r.pair /\ r.kind = "WITHDRAWAL"
      /\ \A a : /\ OfAsset(a) \subseteq keys /\ OfAsset(a)' \ {k} = OfAsset(a)
                /\ k \in OfAsset(a)' <=> a = r.pair[2]
  <2>1. \A p : KeysOf(p) \subseteq keys /\ KeysOf(p)' \ {k} = KeysOf(p) /\ (k \in KeysOf(p)' <=> p = r.pair)
    BY <1>0, <1>1 DEF KeysOf
  <2>2. \A p : /\ Paying(p) \subseteq keys /\ Paying(p)' \ {k} = Paying(p)
               /\ k \in Paying(p)' <=> p = r.pair /\ r.kind = "WITHDRAWAL"
    BY <2>1 DEF Paying
  <2>3. \A a : /\ OfAsset(a) \subseteq keys /\ OfAsset(a)' \ {k} = OfAsset(a)
               /\ k \in OfAsset(a)' <=> a = r.pair[2]
    BY <1>0, <1>1 DEF OfAsset
  <2> QED
    BY <2>1, <2>2, <2>3
<1>6. ASSUME NEW p \in Pairs PROVE LedgerTotal(p)' = Total(p)' - Withdrawn(p)'
  <2>1. SumFunctionOnSet(TotalSigns', KeysOf(p)')
          = SumFunctionOnSet(TotalSigns, KeysOf(p)) + (IF p = r.pair THEN TotalSigns'[k] ELSE 0)
    BY <1>0, <1>3, <1>4, <1>5, SumGrows
  <2>2. SumFunctionOnSet(AmountsOf', Paying(p)')
          = SumFunctionOnSet(AmountsOf, Paying(p)) + (IF p = r.pair /\ r.kind = "WITHDRAWAL" THEN r.amt ELSE 0)
    BY <1>0, <1>3, <1>4, <1>5, SumGrows
  <2>3. /\ p # r.pair => Total(p)' = Total(p)
        /\ p = r.pair => Total(p)' = Total(p) + Change(r.kind, r.amt)
    BY <1>0, EnterEffect
  <2>4. TotalSigns'[k] = Change(r.kind, r.amt) - (IF r.kind = "WITHDRAWAL" THEN r.amt ELSE 0)
    BY <1>4, Signs
  <2>5. LedgerTotal(p) = Total(p) - Withdrawn(p)
    BY DEF BooksInv, SumsExplained
  <2>6. /\ SumFunctionOnSet(TotalSigns, KeysOf(p)) \in Int
        /\ SumFunctionOnSet(AmountsOf, Paying(p)) \in Int
    <3>1. IsFiniteSet(KeysOf(p)) /\ IsFiniteSet(Paying(p))
      BY <1>0, <1>5, FS_Subset
    <3> QED
      BY <1>3, <1>5, <3>1, SumInt
  <2>7. Total(p) \in Int /\ Funds[p] \in Int /\ Change(r.kind, r.amt) \in Int
    BY <1>0, TradesOK DEF Total, DbTypeOK, BalanceType, Change
  <2>8. CASE p = r.pair
    BY <1>0, <2>1, <2>2, <2>3, <2>4, <2>5, <2>6, <2>7, <2>8, SumsAre
  <2>9. CASE p # r.pair
    BY <2>1, <2>2, <2>3, <2>5, <2>6, <2>7, <2>9, SumsAre
  <2> QED
    BY <2>8, <2>9
<1>7. ASSUME NEW a \in Assets
      PROVE  EscrowReported(a)' = SumFunctionOnSet([e \in Exchangers |-> bal[<<e, a>>].esc]', Exchangers)
  <2> DEFINE f == [e \in Exchangers |-> bal[<<e, a>>].esc]
             g == [e \in Exchangers |-> bal'[<<e, a>>].esc]
             d == ReconciledEscrow(r)
  <2>1. SumFunctionOnSet(EscrowSigns', OfAsset(a)')
          = SumFunctionOnSet(EscrowSigns, OfAsset(a)) + (IF a = r.pair[2] THEN d ELSE 0)
    BY <1>0, <1>3, <1>4, <1>5, SumGrows
  <2>2. \A q \in Pairs : bal'[q].esc = bal[q].esc + (IF q = r.pair THEN d ELSE 0)
    BY <1>0, EnterEscrow, Signs
  <2>3. /\ d \in Int /\ \A e \in Exchangers : f[e] \in Int
        /\ \A e \in Exchangers : g[e] = f[e] + (IF <<e, a>> = r.pair THEN d ELSE 0)
    BY <2>2, Signs DEF DbTypeOK, BalanceType, Pairs
  <2>4. SumFunctionOnSet(g, Exchangers) = SumFunctionOnSet(f, Exchangers) + (IF a = r.pair[2] THEN d ELSE 0)
    <3> HIDE DEF f, g, d
    <3>1. SumFunctionOnSet(f, Exchangers) \in Int
      BY <2>3, SumInt
    <3>2. PICK e \in Exchangers, b \in Assets : r.pair = <<e, b>>
      BY <1>0 DEF Pairs
    <3>3. CASE a = b
      <4>1. g[e] = f[e] + d /\ \A x \in Exchangers \ {e} : g[x] = f[x]
        BY <2>3, <3>2, <3>3
      <4>2. \A x \in Exchangers : g[x] \in Int
        BY <2>3
      <4>3. SumFunctionOnSet(g, Exchangers) = SumFunctionOnSet(f, Exchangers) - f[e] + g[e]
        BY <2>3, <4>1, <4>2, SumChange
      <4> QED
        BY <2>3, <3>1, <3>2, <3>3, <4>1, <4>3
    <3>4. CASE a # b
      <4>1. \A x \in Exchangers : f[x] = g[x]
        BY <2>3, <3>2, <3>4
      <4>2. SumFunctionOnSet(f, Exchangers) = SumFunctionOnSet(g, Exchangers)
        BY <4>1, SumSame
      <4> QED
        BY <3>1, <3>2, <3>4, <4>2
    <3> QED
      BY <3>3, <3>4
  <2>5. EscrowReported(a) = SumFunctionOnSet(f, Exchangers)
    BY DEF BooksInv, SumsExplained
  <2>6. [e \in Exchangers |-> bal[<<e, a>>].esc]' = g
    OBVIOUS
  <2> HIDE DEF f, g, d
  <2> QED
    BY <2>1, <2>4, <2>5, <2>6, SumsAre
<1>8. SumsExplained'
  BY <1>6, <1>7 DEF SumsExplained
<1>9. IsFiniteSet(keys') /\ \A x \in keys' : KnownKey(x)'
  BY <1>0, <1>1, FS_AddElement
<1> QED
  BY <1>8, <1>9 DEF BooksInv

\* A key used before enters nothing.
LEMMA BooksEntered ==
  ASSUME IsFiniteSet(Exchangers), DbTypeOK, BooksInv, CollateralStays, OwnersStay,
         NEW k, NEW kind \in TradeKinds, NEW e \in Exchangers, NEW a \in Assets, NEW n \in Nat,
         Enter(k, <<e, a>>, kind, n),
         KnownKey(k)', RowOf(k)' = Row(kind, e, a, n), k[1] = "withdrawal" <=> kind = "WITHDRAWAL"
  PROVE  BooksInv'
<1> DEFINE r == Row(kind, e, a, n)
<1>1. r \in RowType /\ r.pair = <<e, a>> /\ r.kind = kind /\ r.amt = n
  BY DEF Row, RowType, Pairs
<1> HIDE DEF r
<1>2. RowOf(k)' = r
  BY DEF r
<1>3. CASE k \in keys
  <2>1. UNCHANGED <<keys, bal>>
    BY <1>3 DEF Enter
  <2> QED
    BY <2>1, BooksQuiet
<1>4. CASE k \notin keys
  BY <1>1, <1>2, <1>4, BooksEnter
<1> QED
  BY <1>3, <1>4

LEMMA BooksClaim ==
  ASSUME IsFiniteSet(Exchangers), DbInv, BooksInv, CollateralStays, OwnersStay,
         NEW t \in Trades, NEW e \in Exchangers, Claim(t, e)
  PROVE  BooksInv'
<1>1. DbTypeOK
  BY DEF DbInv
<1>2. CASE TransitionToClaimed(t, e)
  BY <1>1, <1>2, BooksQuiet DEF TransitionToClaimed
<1>3. CASE ClaimTradeWithEscrow(t, e)
  <2> DEFINE k == LockKey(t, e)
  <2>1. Enter(k, <<e, Asset[t]>>, "ESCROW_LOCK", Amount[t])
    BY <1>3 DEF ClaimTradeWithEscrow
  <2>2. Asset[t] \in Assets /\ Amount[t] \in Nat /\ "ESCROW_LOCK" \in TradeKinds
    BY TradesOK DEF TradeKinds
  <2>3. KnownKey(k)' /\ k[1] # "withdrawal"
    BY DEF KnownKey, LockKey
  <2>4. RowOf(k)' = Row("ESCROW_LOCK", e, Asset[t], Amount[t])
    BY RowIs
  <2> HIDE DEF k
  <2> QED
    BY <1>1, <2>1, <2>2, <2>3, <2>4, BooksEntered
<1> QED
  BY <1>2, <1>3 DEF Claim

LEMMA BooksOwned ==
  ASSUME IsFiniteSet(Exchangers), DbInv, BooksInv, CollateralStays, OwnersStay,
         NEW t \in Trades, owner[t] # NoExchanger, OwnedNext(t, owner[t])
  PROVE  BooksInv'
<1> DEFINE e == owner[t]
<1>0. /\ DbTypeOK /\ e \in Exchangers /\ owner'[t] = e /\ e # NoExchanger
      /\ Asset[t] \in Assets /\ Amount[t] \in Nat /\ Quote[t] \in Nat /\ Fee[t] \div 2 \in Nat
      /\ {"ESCROW_LOCK", "ESCROW_RELEASE", "WITHDRAWAL", "MANUAL_CREDIT"} \subseteq TradeKinds
  BY TradesOK DEF DbInv, DbTypeOK, OwnersStay, TradeKinds
<1>1. ASSUME NEW y, Enter(ReleaseKey(t, y), <<e, Asset[t]>>, "ESCROW_RELEASE", Amount[t]) PROVE BooksInv'
  <2> DEFINE k == ReleaseKey(t, y)
  <2>1. KnownKey(k)' /\ k[1] # "withdrawal"
    BY <1>0 DEF KnownKey, ReleaseKey
  <2>2. RowOf(k)' = Row("ESCROW_RELEASE", e, Asset[t], Amount[t])
    BY <1>0, RowIs
  <2> HIDE DEF e
  <2> QED
    BY <1>0, <1>1, <2>1, <2>2, BooksEntered
<1>2. ASSUME NEW a \in Assets, LockCollateral(t, e, a) PROVE BooksInv'
  <2> DEFINE k == CollateralKey(t, a)
  <2>1. KnownKey(k)' /\ k[1] # "withdrawal"
    BY <1>0 DEF KnownKey, CollateralKey
  <2>2. RowOf(k)' = Row("ESCROW_LOCK", e, a, Quote[t])
    BY <1>0, RowIs
  <2>3. Enter(k, <<e, a>>, "ESCROW_LOCK", Quote[t])
    BY <1>2 DEF LockCollateral
  <2> HIDE DEF e, k
  <2> QED
    BY <1>0, <2>1, <2>2, <2>3, BooksEntered
<1>3. ASSUME NEW y, ReleaseCollateral(t, e, collateral[t], y) PROVE BooksInv'
  <2> DEFINE k == FreeKey(t, y)
             a == collateral[t]
  <2>1. a \in Assets /\ collateral'[t] = a /\ a # NoAsset
    BY <1>0, <1>3 DEF ReleaseCollateral, CanFree, DbTypeOK, CollateralStays
  <2>2. KnownKey(k)' /\ k[1] # "withdrawal"
    BY <1>0, <2>1 DEF KnownKey, FreeKey
  <2>3. RowOf(k)' = Row("ESCROW_RELEASE", e, a, Quote[t])
    BY <1>0, <2>1, RowIs
  <2>4. Enter(k, <<e, a>>, "ESCROW_RELEASE", Quote[t])
    BY <1>3 DEF ReleaseCollateral
  <2> HIDE DEF e, k, a
  <2> QED
    BY <1>0, <2>1, <2>2, <2>3, <2>4, BooksEntered
<1>4. ASSUME NEW tx, RecordWithdrawal(t, e, tx) PROVE BooksInv'
  <2> DEFINE k == PayKey(t, tx)
  <2>1. KnownKey(k)' /\ k[1] = "withdrawal"
    BY <1>0 DEF KnownKey, PayKey
  <2>2. RowOf(k)' = Row("WITHDRAWAL", e, Asset[t], Amount[t])
    BY <1>0, RowIs
  <2>3. Enter(k, <<e, Asset[t]>>, "WITHDRAWAL", Amount[t])
    BY <1>4 DEF RecordWithdrawal
  <2> HIDE DEF e, k
  <2> QED
    BY <1>0, <2>1, <2>2, <2>3, BooksEntered
<1>5. ASSUME SettleTradeProfit(t) PROVE BooksInv'
  <2> DEFINE k == ProfitKey(t)
  <2>1. KnownKey(k)' /\ k[1] # "withdrawal"
    BY <1>0 DEF KnownKey, ProfitKey
  <2>2. RowOf(k)' = Row("MANUAL_CREDIT", e, Asset[t], Fee[t] \div 2)
    BY <1>0, RowIs
  <2>3. Enter(k, <<e, Asset[t]>>, "MANUAL_CREDIT", Fee[t] \div 2)
    BY <1>5 DEF SettleTradeProfit
  <2> HIDE DEF e, k
  <2> QED
    BY <1>0, <2>1, <2>2, <2>3, BooksEntered
<1> HIDE DEF e
<1>6. OwnedNext(t, e)
  BY DEF e
<1> QED
  BY <1>1, <1>2, <1>3, <1>4, <1>5, <1>6 DEF OwnedNext, ReleaseEscrow, CancelTradeAndReleaseEscrow

\* No transaction breaks the books, as long as trades keep their collateral.
LEMMA BooksStep ==
  ASSUME IsFiniteSet(Exchangers), DbInv, BooksInv, CollateralStays, OwnersStay,
         DbNext \/ UNCHANGED dbVars
  PROVE  BooksInv'
<1>1. DbTypeOK
  BY DEF DbInv
<1>2. ASSUME NEW t \in Trades, NEW to, Transition(t, to) PROVE BooksInv'
  BY <1>1, <1>2, BooksQuiet DEF Transition
<1>3. ASSUME NEW t \in Trades, TransitionWithWallet(t) PROVE BooksInv'
  BY <1>1, <1>3, BooksQuiet DEF TransitionWithWallet
<1>4. CASE UNCHANGED dbVars
  BY <1>1, <1>4, BooksQuiet DEF dbVars
<1> QED
  BY <1>2, <1>3, <1>4, BooksClaim, BooksOwned DEF DbNext

LEMMA BooksInit == ASSUME IsFiniteSet(Exchangers), DbInit PROVE BooksInv
<1>1. keys = {} /\ IsFiniteSet(keys)
  BY FS_EmptySet DEF DbInit
<1>2. \A p : KeysOf(p) = {} /\ Paying(p) = {}
  BY <1>1 DEF KeysOf, Paying
<1>3. \A a : OfAsset(a) = {}
  BY <1>1 DEF OfAsset
<1>4. ASSUME NEW p \in Pairs PROVE LedgerTotal(p) = Total(p) - Withdrawn(p)
  <2>1. LedgerTotal(p) = Funds[p] + 0 /\ Withdrawn(p) = 0
    BY <1>2, SumsAre, SumEmpty
  <2>2. Total(p) = Funds[p] + 0 /\ Funds[p] \in Int
    BY TradesOK DEF DbInit, Total
  <2> QED
    BY <2>1, <2>2
<1>5. ASSUME NEW a \in Assets
      PROVE  EscrowReported(a) = SumFunctionOnSet([e \in Exchangers |-> bal[<<e, a>>].esc], Exchangers)
  <2> DEFINE f == [e \in Exchangers |-> bal[<<e, a>>].esc]
  <2>1. EscrowReported(a) = 0
    BY <1>3, SumsAre, SumEmpty
  <2>2. \A e \in Exchangers : f[e] = 0
    BY DEF DbInit, Pairs
  <2> HIDE DEF f
  <2>3. SumFunctionOnSet(f, Exchangers) = 0
    BY <2>2, SumZero
  <2> QED
    BY <2>1, <2>3 DEF f
<1> QED
  BY <1>1, <1>4, <1>5 DEF BooksInv, SumsExplained

\* Nobody loses a trade that was taken.
LEMMA DbKeepsOwners ==
  ASSUME DbInv, DbNext \/ UNCHANGED dbVars PROVE OwnersStay
<1>1. ASSUME NEW t \in Trades, NEW e \in Exchangers, Claim(t, e) PROVE OwnersStay
  <2>1. owner[t] = NoExchanger /\ owner' = [owner EXCEPT ![t] = e]
    BY <1>1, ClaimFacts
  <2> QED
    BY <2>1 DEF OwnersStay, DbInv, DbTypeOK
<1>2. ASSUME NEW t \in Trades, owner[t] # NoExchanger, OwnedNext(t, owner[t]) PROVE UNCHANGED owner
  BY <1>2, OwnedEnters DEF Entering
<1> QED
  BY <1>1, <1>2 DEF DbNext, Transition, TransitionWithWallet, OwnersStay, dbVars

(* What the accounting worker sums up is explained by the balances as long  *)
(* as no trade changes its collateral, which with one asset none can.       *)
KeepsCollateral == [][CollateralStays]_dbVars

THEOREM SumsAreExplained ==
  ASSUME IsFiniteSet(Exchangers) PROVE DbSpec /\ KeepsCollateral => []SumsExplained
<1>1. DbInit => BooksInv
  BY BooksInit
<1>2. DbInv /\ BooksInv /\ [DbNext]_dbVars /\ [CollateralStays]_dbVars => BooksInv'
  <2> SUFFICES ASSUME DbInv, BooksInv, [DbNext]_dbVars, [CollateralStays]_dbVars PROVE BooksInv'
    OBVIOUS
  <2>1. CollateralStays
    BY DEF CollateralStays, dbVars
  <2>2. OwnersStay
    BY DbKeepsOwners
  <2> QED
    BY <2>1, <2>2, BooksStep
<1>3. BooksInv => SumsExplained
  BY DEF BooksInv
<1> QED
  BY <1>1, <1>2, <1>3, DbInvariance, PTL DEF DbSpec, KeepsCollateral
=============================================================================
