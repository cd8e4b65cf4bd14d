--------------------------- MODULE TradeFlowProofs ---------------------------
(***************************************************************************)
(* Proofs about TradeFlow for any trades, exchangers, amounts, operations, *)
(* failures and number of handlers at once: however handlers interleave    *)
(* and wherever they are cut short, they implement TradeDb, and the        *)
(* hazards of acting on a row read before hold no surprise but those the   *)
(* README lists.  One at a time, they release an escrow once, and leave    *)
(* exactly the escrow that trades under way need.                          *)
(***************************************************************************)
EXTENDS TradeFlow, TradeDbProofs, WellFoundedInduction

CallRecords == [op: CallOps, trade: Trades \cup {"none"}, at: Places,
                exch: Exchangers \cup {NoExchanger}, coll: Assets \cup {NoAsset}]

FlowShape == /\ calls \in [Slots -> CallRecords]
             /\ buttons \subseteq {"submit_wallet", "external_check"} \X Trades
             /\ queue \in [Trades -> RowStatuses]

\* From the release on, a trade never goes back to FIAT_SENT; once disputed, it
\* is never released the ordinary way; once paid, it is completed or failed.
Past == Statuses \ {"OPEN", "CLAIMED", "FIAT_PENDING", "FIAT_SENT"}
Disputed == {"DISPUTED", "COMPLETED", "CANCELLED"}
Paid == {"CRYPTO_SENT", "COMPLETED", "FAILED"}

\* Neither of the two ways to release has come to its end.
NotReleased(t) == <<"external_check", t>> \notin buttons /\ queue[t] = "NONE"

\* What a handler knows of its trade at each await.
CallOK(p) ==
  LET c == calls[p]
      t == c.trade
  IN IF c.op = "none" THEN c = NoCall
     ELSE /\ t \in Trades
          /\ c.exch # NoExchanger => c.exch = owner[t]
          /\ c.op = "claim" => /\ c.exch \in Exchangers /\ status[t] # "OPEN"
                               /\ c.at \in {"choose", "lock"} => collateral[t] = NoAsset
                               /\ c.at = "lock" => c.coll \in Assets
          /\ c.op \in {"pay", "external"} => status[t] \in Past /\ NotReleased(t)
          /\ c.op \in Returning /\ c.coll # NoAsset => c.coll = collateral[t]
          /\ c.at = "settle" => status[t] = "COMPLETED"
          /\ c.at = "approve" => status[t] \in Disputed
          /\ c.op = "force_cancel" =>
               /\ c.exch # NoExchanger
               /\ c.at = "end" /\ Direction[t] = "CRYPTO" => ReleaseKey(t, "CANCEL") \in keys

\* A trade is claimed by one handler, and released by one.
Apart ==
  \A p, q \in Slots :
     p # q /\ calls[p].op # "none" /\ calls[p].trade = calls[q].trade =>
       /\ ~(calls[p].op = "claim" /\ calls[q].op = "claim")
       /\ ~(calls[p].op \in {"pay", "external"} /\ calls[q].op \in {"pay", "external"})

ReleaseOK == \A t \in Trades : /\ ~NotReleased(t) => status[t] \in Past
                               /\ <<"external_check", t>> \in buttons => queue[t] = "NONE"

OpenUnlocked == \A t \in Trades : status[t] = "OPEN" => collateral[t] = NoAsset

FlowInv == /\ DbInv
           /\ FlowShape
           /\ \A p \in Slots : CallOK(p)
           /\ Apart
           /\ ReleaseOK
           /\ OpenUnlocked
           /\ FeeOnlyIfCompleted

-----------------------------------------------------------------------------
(* What transactions of TradeDb do to what handlers have read               *)

Evolves == /\ \A t \in Trades :
                 /\ status[t] # "OPEN" => status'[t] # "OPEN"
                 /\ status[t] \in Past => status'[t] \in Past
                 /\ status[t] \in Disputed => status'[t] \in Disputed
                 /\ status[t] \in Paid => status'[t] \in Paid
                 /\ status[t] = "COMPLETED" => status'[t] = "COMPLETED"
                 /\ owner[t] # NoExchanger => owner'[t] = owner[t]
           /\ keys \subseteq keys'

LEMMA AllowedOnward ==
  ASSUME NEW from \in Statuses, NEW to \in Allowed(from)
  PROVE  /\ to # "OPEN" /\ from # "COMPLETED"
         /\ from \in Past => to \in Past
         /\ from \in Disputed => to \in Disputed
         /\ from \in Paid => to \in Paid
BY DEF Allowed, Statuses, Past, Disputed, Paid

LEMMA StatusEvolves ==
  ASSUME DbInv, NEW t \in Trades, NEW to, IsTransitionAllowed(t, to), SetStatus(t, to),
         UNCHANGED owner, keys \subseteq keys'
  PROVE  Evolves
<1>1. status[t] \in Statuses /\ to \in Allowed(status[t])
  BY DEF DbInv, DbTypeOK, IsTransitionAllowed
<1>2. /\ to # "OPEN" /\ status[t] # "COMPLETED"
      /\ status[t] \in Past => to \in Past
      /\ status[t] \in Disputed => to \in Disputed
      /\ status[t] \in Paid => to \in Paid
  BY <1>1, AllowedOnward
<1>3. status'[t] = to /\ \A u \in Trades \ {t} : status'[u] = status[u]
  BY DEF SetStatus, DbInv, DbTypeOK
<1> QED
  BY <1>2, <1>3 DEF Evolves

LEMMA StatusStays ==
  ASSUME UNCHANGED <<status, owner>>, keys \subseteq keys' PROVE Evolves
BY DEF Evolves

LEMMA EnterKeys ==
  ASSUME NEW k, NEW p, NEW kind, NEW n, Enter(k, p, kind, n)
  PROVE  keys \subseteq keys' /\ keys' = keys \cup {k}
BY DEF Enter

LEMMA DbEvolves ==
  ASSUME DbInv, DbNext \/ UNCHANGED dbVars
  PROVE  DbInv' /\ Evolves
<1>1. DbInv'
  BY DbNextInv
<1>2. ASSUME NEW t \in Trades, NEW e \in Exchangers, Claim(t, e) PROVE Evolves
  <2>1. /\ status[t] = "OPEN" /\ owner[t] = NoExchanger
        /\ owner' = [owner EXCEPT ![t] = e]
        /\ \E to \in {"CLAIMED", "FIAT_PENDING"} : SetStatus(t, to)
    BY <1>2, ClaimFacts
  <2>2. keys \subseteq keys'
    BY <1>2, EnterKeys DEF Claim, TransitionToClaimed, ClaimTradeWithEscrow
  <2>3. \A u \in Trades \ {t} : status'[u] = status[u] /\ owner'[u] = owner[u]
    BY <2>1 DEF DbInv, DbTypeOK, SetStatus
  <2>4. "OPEN" \notin Past \cup Disputed \cup Paid
    BY DEF Past, Disputed, Paid
  <2> QED
    BY <2>1, <2>2, <2>3, <2>4 DEF Evolves
<1>3. ASSUME NEW t \in Trades, NEW to, Transition(t, to) PROVE Evolves
  BY <1>3, StatusEvolves DEF Transition
<1>4. ASSUME NEW t \in Trades, TransitionWithWallet(t) PROVE Evolves
  BY <1>4, StatusEvolves DEF TransitionWithWallet
<1>5. ASSUME NEW t \in Trades, OwnedNext(t, owner[t]) PROVE Evolves
  <2>1. ASSUME NEW why, ReleaseEscrow(t, owner[t], why) PROVE Evolves
    BY <2>1, EnterKeys, StatusStays DEF ReleaseEscrow
  <2>2. ASSUME NEW a, LockCollateral(t, owner[t], a) PROVE Evolves
    BY <2>2, EnterKeys, StatusStays DEF LockCollateral
  <2>3. ASSUME NEW why, ReleaseCollateral(t, owner[t], collateral[t], why) PROVE Evolves
    BY <2>3, EnterKeys, StatusStays DEF ReleaseCollateral
  <2>4. CASE CancelTradeAndReleaseEscrow(t, owner[t])
    BY <2>4, EnterKeys, StatusEvolves DEF CancelTradeAndReleaseEscrow, CanCancel
  <2>5. ASSUME NEW tx, RecordWithdrawal(t, owner[t], tx) PROVE Evolves
    BY <2>5, EnterKeys, StatusStays DEF RecordWithdrawal
  <2>6. CASE SettleTradeProfit(t)
    BY <2>6, EnterKeys, StatusStays DEF SettleTradeProfit
  <2> QED
    BY <1>5, <2>1, <2>2, <2>3, <2>4, <2>5, <2>6 DEF OwnedNext
<1>6. CASE UNCHANGED dbVars
  BY <1>1, <1>6, StatusStays DEF dbVars
<1> QED
  BY <1>1, <1>2, <1>3, <1>4, <1>5, <1>6 DEF DbNext

\* Transactions of TradeDb other than those that lock collateral or share a fee.
ProfitsStay == \A t \in Trades : ProfitKey(t) \in keys' => ProfitKey(t) \in keys
Ordinary == (DbNext \/ UNCHANGED dbVars) /\ ProfitsStay /\ UNCHANGED collateral

LEMMA ProfitKeyApart ==
  ASSUME NEW t, NEW x, NEW u
  PROVE  /\ ProfitKey(u) # LockKey(t, x) /\ ProfitKey(u) # ReleaseKey(t, x)
         /\ ProfitKey(u) # CollateralKey(t, x) /\ ProfitKey(u) # FreeKey(t, x)
         /\ ProfitKey(u) = ProfitKey(t) => u = t
BY DEF ProfitKey, LockKey, ReleaseKey, CollateralKey, FreeKey

LEMMA OrdinaryNothing == UNCHANGED dbVars => Ordinary
BY DEF dbVars, Ordinary, ProfitsStay

LEMMA OrdinaryTransition ==
  ASSUME NEW t \in Trades, NEW to \in Statuses \ {"CLAIMED"}, Transition(t, to)
  PROVE  Ordinary
BY DEF Transition, Ordinary, ProfitsStay, DbNext

LEMMA OrdinaryWallet ==
  ASSUME NEW t \in Trades, TransitionWithWallet(t) PROVE Ordinary
BY DEF TransitionWithWallet, Ordinary, ProfitsStay, DbNext

LEMMA OrdinaryClaim ==
  ASSUME NEW t \in Trades, NEW e \in Exchangers, Claim(t, e) PROVE Ordinary
<1>1. DbNext
  BY DEF DbNext
<1>2. ProfitsStay /\ UNCHANGED collateral
  BY EnterKeys, ProfitKeyApart DEF Claim, TransitionToClaimed, ClaimTradeWithEscrow, ProfitsStay
<1> QED
  BY <1>1, <1>2 DEF Ordinary

LEMMA OrdinaryRelease ==
  ASSUME NEW t \in Trades, owner[t] # NoExchanger,
         NEW why \in EscrowReasons, ReleaseEscrow(t, owner[t], why)
  PROVE  Ordinary
<1>1. DbNext
  BY DEF DbNext, OwnedNext
<1>2. ProfitsStay /\ UNCHANGED collateral
  BY EnterKeys, ProfitKeyApart DEF ReleaseEscrow, ProfitsStay
<1> QED
  BY <1>1, <1>2 DEF Ordinary

LEMMA OrdinaryFree ==
  ASSUME NEW t \in Trades, owner[t] # NoExchanger,
         NEW why \in CollateralReasons, ReleaseCollateral(t, owner[t], collateral[t], why)
  PROVE  Ordinary
<1>1. DbNext
  BY DEF DbNext, OwnedNext
<1>2. ProfitsStay /\ UNCHANGED collateral
  BY EnterKeys, ProfitKeyApart DEF ReleaseCollateral, ProfitsStay
<1> QED
  BY <1>1, <1>2 DEF Ordinary

LEMMA OrdinaryCancel ==
  ASSUME NEW t \in Trades, owner[t] # NoExchanger, CancelTradeAndReleaseEscrow(t, owner[t])
  PROVE  Ordinary
<1>1. DbNext
  BY DEF DbNext, OwnedNext
<1>2. ProfitsStay /\ UNCHANGED collateral
  BY EnterKeys, ProfitKeyApart DEF CancelTradeAndReleaseEscrow, ProfitsStay
<1> QED
  BY <1>1, <1>2 DEF Ordinary

-----------------------------------------------------------------------------
(* One call changes at a time                                               *)

LEMMA SlotSet ==
  ASSUME FlowShape, NEW p \in Slots, NEW c, calls' = [calls EXCEPT ![p] = c]
  PROVE  /\ calls'[p] = c
         /\ \A q \in Slots \ {p} : calls'[q] = calls[q]
         /\ c \in CallRecords => calls' \in [Slots -> CallRecords]
BY DEF FlowShape

\* What the step leaves of the facts other calls rely on.
Undisturbed(q) ==
  LET t == calls[q].trade
  IN /\ t \in Trades => \/ collateral'[t] = collateral[t]
                        \/ collateral[t] = NoAsset /\ calls[q].op # "claim"
     /\ calls[q].op \in {"pay", "external"} => /\ <<"external_check", t>> \notin buttons'
                                               /\ queue'[t] = "NONE"

LEMMA OtherCall ==
  ASSUME FlowInv, Evolves, NEW q \in Slots, calls'[q] = calls[q], Undisturbed(q)
  PROVE  CallOK(q)'
<1> DEFINE t == calls[q].trade
<1>1. CASE calls[q].op = "none"
  BY <1>1 DEF FlowInv, CallOK, NoCall
<1>2. CASE calls[q].op # "none"
  <2>1. CallOK(q) /\ t \in Trades
    BY <1>2 DEF FlowInv, CallOK
  <2>2. /\ status[t] # "OPEN" => status'[t] # "OPEN"
        /\ status[t] \in Past => status'[t] \in Past
        /\ status[t] \in Disputed => status'[t] \in Disputed
        /\ status[t] = "COMPLETED" => status'[t] = "COMPLETED"
        /\ owner[t] # NoExchanger => owner'[t] = owner[t]
        /\ keys \subseteq keys'
    BY <2>1 DEF Evolves
  <2> QED
    BY <1>2, <2>1, <2>2 DEF CallOK, Undisturbed, NotReleased, Returning, CloseOps
<1> QED
  BY <1>1, <1>2

\* A fresh call of a claim or a release, or the end or next await of a call.
Arrives(p, c) ==
  \/ c.op \notin {"claim", "pay", "external"}
  \/ c.op = calls[p].op /\ c.trade = calls[p].trade
  \/ c.op = "claim" /\ status[c.trade] = "OPEN"
  \/ c.op \in {"pay", "external"} /\ status[c.trade] \notin Past

LEMMA ApartStays ==
  ASSUME FlowInv, NEW p \in Slots, NEW c, c.op # "none" => c.trade \in Trades, Arrives(p, c),
         calls'[p] = c, \A q \in Slots \ {p} : calls'[q] = calls[q]
  PROVE  Apart'
<1> SUFFICES ASSUME NEW q \in Slots, NEW r \in Slots, q # r, calls'[q].op # "none",
                    calls'[q].trade = calls'[r].trade
             PROVE  /\ ~(calls'[q].op = "claim" /\ calls'[r].op = "claim")
                    /\ ~(/\ calls'[q].op \in {"pay", "external"}
                         /\ calls'[r].op \in {"pay", "external"})
  BY DEF Apart
<1>1. CASE q # p /\ r # p
  BY <1>1 DEF FlowInv, Apart
<1>2. ASSUME NEW s \in Slots \ {p}, calls[s].op # "none", calls[s].trade = c.trade
      PROVE  /\ ~(c.op = "claim" /\ calls[s].op = "claim")
             /\ ~(c.op \in {"pay", "external"} /\ calls[s].op \in {"pay", "external"})
  <2>1. CallOK(s)
    BY DEF FlowInv
  <2>2. CASE c.op \notin {"claim", "pay", "external"}
    BY <2>2
  <2>3. CASE c.op = calls[p].op /\ c.trade = calls[p].trade
    BY <1>2, <2>3 DEF FlowInv, Apart
  <2>4. CASE c.op = "claim" /\ status[c.trade] = "OPEN"
    BY <1>2, <2>1, <2>4 DEF CallOK
  <2>5. CASE c.op \in {"pay", "external"} /\ status[c.trade] \notin Past
    BY <1>2, <2>1, <2>5 DEF CallOK
  <2> QED
    BY <2>2, <2>3, <2>4, <2>5 DEF Arrives
<1>3. CASE q = p
  BY <1>2, <1>3
<1>4. CASE r = p
  BY <1>2, <1>4
<1> QED
  BY <1>1, <1>3, <1>4

\* The rest of the invariant, from what a step does to collateral and fees.
CollateralSafe == \A t \in Trades : collateral'[t] # collateral[t] => status[t] # "OPEN"
FeesSafe == \A t \in Trades :
               ProfitKey(t) \in keys' => ProfitKey(t) \in keys \/ status[t] = "COMPLETED"

LEMMA TradesStay ==
  ASSUME FlowInv, Evolves, CollateralSafe, FeesSafe
  PROVE  OpenUnlocked' /\ FeeOnlyIfCompleted'
BY DEF FlowInv, Evolves, CollateralSafe, FeesSafe, OpenUnlocked, FeeOnlyIfCompleted, ProfitKey

LEMMA OrdinarySafe ==
  ASSUME Ordinary
  PROVE  CollateralSafe /\ FeesSafe
BY DEF Ordinary, ProfitsStay, CollateralSafe, FeesSafe

LEMMA ReleaseStays ==
  ASSUME FlowInv, Evolves, UNCHANGED <<buttons, queue>>
  PROVE  ReleaseOK'
BY DEF FlowInv, Evolves, ReleaseOK, NotReleased

LEMMA ButtonsStay ==
  ASSUME FlowInv, UNCHANGED <<collateral, buttons, queue>>, NEW q \in Slots
  PROVE  Undisturbed(q)
BY DEF FlowInv, CallOK, Undisturbed, NotReleased

\* A step of one handler.
LEMMA SlotStep ==
  ASSUME FlowInv, DbNext \/ UNCHANGED dbVars, CollateralSafe, FeesSafe,
         buttons' \subseteq {"submit_wallet", "external_check"} \X Trades,
         queue' \in [Trades -> RowStatuses], ReleaseOK',
         NEW p \in Slots, NEW c \in CallRecords, calls' = [calls EXCEPT ![p] = c],
         Arrives(p, c), CallOK(p)', \A q \in Slots \ {p} : Undisturbed(q)
  PROVE  FlowInv'
<1>1. DbInv' /\ Evolves
  BY DbEvolves DEF FlowInv
<1>2. /\ calls'[p] = c
      /\ \A q \in Slots \ {p} : calls'[q] = calls[q]
      /\ calls' \in [Slots -> CallRecords]
  BY SlotSet DEF FlowInv
<1>3. FlowShape'
  BY <1>2 DEF FlowInv, FlowShape, CallRecords
<1>4. \A q \in Slots : CallOK(q)'
  BY <1>1, <1>2, OtherCall
<1>5. Apart'
  <2>1. c.op # "none" => c.trade \in Trades
    BY <1>2 DEF CallOK
  <2> QED
    BY <1>2, <2>1, ApartStays
<1>6. OpenUnlocked' /\ FeeOnlyIfCompleted'
  BY <1>1, TradesStay
<1> QED
  BY <1>1, <1>3, <1>4, <1>5, <1>6 DEF FlowInv

\* The same for a step that leaves buttons and queue alone.
LEMMA QuietStep ==
  ASSUME FlowInv, Ordinary, UNCHANGED <<buttons, queue>>,
         NEW p \in Slots, NEW c \in CallRecords, calls' = [calls EXCEPT ![p] = c],
         Arrives(p, c), CallOK(p)'
  PROVE  FlowInv'
<1>1. DbInv' /\ Evolves
  BY DbEvolves DEF FlowInv, Ordinary
<1>2. \A q \in Slots : Undisturbed(q)
  BY ButtonsStay DEF Ordinary
<1>3. ReleaseOK' /\ CollateralSafe /\ FeesSafe
  BY <1>1, ReleaseStays, OrdinarySafe
<1>4. /\ buttons' \subseteq {"submit_wallet", "external_check"} \X Trades
      /\ queue' \in [Trades -> RowStatuses]
  BY DEF FlowInv, FlowShape
<1> QED
  BY <1>2, <1>3, <1>4, SlotStep DEF Ordinary

LEMMA NoCallFits == NoCall \in CallRecords /\ NoCall.op = "none"
BY DEF NoCall, CallRecords, CallOps, Places

\* The steps of a call that leave buttons and queue alone keep the invariant:
\* its end, its next await, and its start.
LEMMA ReturnInv ==
  ASSUME FlowInv, Ordinary, NEW p \in Slots, Return(p)
  PROVE  FlowInv'
<1>1. calls' = [calls EXCEPT ![p] = NoCall] /\ UNCHANGED <<buttons, queue>>
  BY DEF Return
<1>2. calls'[p] = NoCall
  BY <1>1, SlotSet DEF FlowInv
<1>3. CallOK(p)'
  BY <1>2, NoCallFits DEF CallOK, NoCall
<1>4. Arrives(p, NoCall)
  BY NoCallFits DEF Arrives
<1> QED
  BY <1>1, <1>3, <1>4, NoCallFits, QuietStep

LEMMA ThrowInv ==
  ASSUME FlowInv, NEW p \in Slots, Throw(p)
  PROVE  FlowInv' /\ UNCHANGED dbVars
BY ReturnInv, OrdinaryNothing DEF Throw

LEMMA GotoInv ==
  ASSUME FlowInv, Ordinary, NEW p \in Slots, NEW at \in Places \ {"approve"}, Goto(p, at),
         calls[p].op \notin {"none", "claim"},
         at = "settle" => status'[calls[p].trade] = "COMPLETED",
         /\ calls[p].op = "force_cancel" /\ at = "end"
         /\ Direction[calls[p].trade] = "CRYPTO"
         => ReleaseKey(calls[p].trade, "CANCEL") \in keys'
  PROVE  FlowInv'
<1> DEFINE c == [calls[p] EXCEPT !.at = at]
           t == calls[p].trade
<1>1. calls[p] \in CallRecords /\ CallOK(p) /\ t \in Trades
  BY DEF FlowInv, FlowShape, CallOK
<1>2. /\ c \in CallRecords /\ c.op = calls[p].op /\ c.trade = t /\ c.at = at
      /\ c.exch = calls[p].exch /\ c.coll = calls[p].coll
  BY <1>1 DEF CallRecords
<1>3. calls' = [calls EXCEPT ![p] = c]
  BY DEF Goto
<1> HIDE DEF c
<1>4. calls'[p] = c
  BY <1>2, <1>3, SlotSet DEF FlowInv
<1>5. Evolves /\ UNCHANGED <<collateral, buttons, queue>>
  BY DbEvolves DEF FlowInv, Ordinary, Goto
<1>6. CallOK(p)'
  BY <1>1, <1>2, <1>4, <1>5 DEF CallOK, Evolves, NotReleased, Returning, CloseOps
<1>7. Arrives(p, c)
  BY <1>2 DEF Arrives
<1> QED
  BY <1>2, <1>3, <1>5, <1>6, <1>7, QuietStep

LEMMA StartInv ==
  ASSUME FlowInv, NEW p \in Slots, NEW t \in Trades,
         NEW op \in Returning \cup {"expire", "cancel_stale"},
         NEW at \in {"return", "end", "approve"}, Start(p, op, t, at),
         at = "approve" => status[t] \in Disputed,
         op = "force_cancel" => at # "end" /\ owner[t] # NoExchanger
  PROVE  FlowInv' /\ UNCHANGED dbVars
<1> DEFINE c == Call(op, t, at)
<1>1. UNCHANGED dbVars /\ UNCHANGED <<buttons, queue>> /\ calls' = [calls EXCEPT ![p] = c]
  BY DEF Start
<1>2. Ordinary
  BY <1>1, OrdinaryNothing
<1>3. c.op = op /\ c.trade = t /\ c.at = at /\ c.exch = owner[t] /\ c.coll = collateral[t]
  BY DEF Call
<1>4. c \in CallRecords
  BY DEF Call, CallRecords, CallOps, Places, FlowInv, DbInv, DbTypeOK
<1> HIDE DEF c
<1>5. calls'[p] = c
  BY <1>1, SlotSet DEF FlowInv
<1>6. op \notin {"none", "claim", "pay", "external"}
  BY DEF Returning, CloseOps
<1>7. UNCHANGED <<status, owner, collateral>>
  BY <1>1 DEF dbVars
<1>8. CallOK(p)'
  BY <1>3, <1>5, <1>6, <1>7 DEF CallOK
<1>9. Arrives(p, c)
  BY <1>3, <1>6 DEF Arrives
<1> QED
  BY <1>1, <1>2, <1>4, <1>8, <1>9, QuietStep

\* A step that changes no call, and only adds buttons for an address.
LEMMA CallsKept ==
  ASSUME FlowInv, Ordinary, UNCHANGED <<calls, queue>>,
         NEW t \in Trades, buttons' \in {buttons, buttons \cup {<<"submit_wallet", t>>}}
  PROVE  FlowInv'
<1>1. DbInv' /\ Evolves
  BY DbEvolves DEF FlowInv, Ordinary
<1>2. FlowShape'
  BY DEF FlowInv, FlowShape, CallRecords
<1>3. \A u : <<"external_check", u>> \in buttons' <=> <<"external_check", u>> \in buttons
  OBVIOUS
<1>4. \A q \in Slots : Undisturbed(q)
  BY <1>3 DEF FlowInv, CallOK, Undisturbed, NotReleased, Ordinary
<1>5. \A q \in Slots : CallOK(q)'
  BY <1>1, <1>4, OtherCall
<1>6. Apart'
  BY DEF FlowInv, Apart
<1>7. ReleaseOK'
  BY <1>1, <1>3 DEF FlowInv, Evolves, ReleaseOK, NotReleased
<1>8. OpenUnlocked' /\ FeeOnlyIfCompleted'
  BY <1>1, OrdinarySafe, TradesStay
<1> QED
  BY <1>1, <1>2, <1>5, <1>6, <1>7, <1>8 DEF FlowInv

-----------------------------------------------------------------------------
(* The handlers: each keeps the invariant and runs a transaction of TradeDb *)

LEMMA OneStepInv ==
  ASSUME FlowInv, NEW t \in Trades, OneStep(t)
  PROVE  FlowInv' /\ Ordinary
<1>1. ASSUME NEW to \in Statuses \ {"CLAIMED"}, Transition(t, to), UNCHANGED flowVars
      PROVE  FlowInv' /\ Ordinary
  BY <1>1, OrdinaryTransition, CallsKept DEF flowVars
<1>2. {"FIAT_SENT", "DISPUTED", "COMPLETED", "CANCELLED"} \subseteq Statuses \ {"CLAIMED"}
  BY DEF Statuses
<1>3. ASSUME NEW e \in Exchangers, HandleClaim(t, e) PROVE FlowInv' /\ Ordinary
  <2>1. Ordinary
    BY <1>3, OrdinaryClaim DEF HandleClaim
  <2> QED
    BY <1>3, <2>1, CallsKept DEF HandleClaim, flowVars
<1>4. CASE HandleFiatSent(t)
  BY <1>1, <1>2, <1>4 DEF HandleFiatSent
<1>5. CASE HandleDispute(t)
  BY <1>1, <1>2, <1>5 DEF HandleDispute
<1>6. CASE HandleReleaseInternal(t)
  <2>1. Ordinary
    BY <1>6, OrdinaryNothing DEF HandleReleaseInternal
  <2> QED
    BY <1>6, <2>1, CallsKept DEF HandleReleaseInternal
<1>7. CASE HandleExternalPaymentNotReceived(t)
  BY <1>1, <1>2, <1>7 DEF HandleExternalPaymentNotReceived
<1>8. CASE DashboardForce(t)
  BY <1>1, <1>2, <1>8 DEF DashboardForce
<1> QED
  BY <1>3, <1>4, <1>5, <1>6, <1>7, <1>8 DEF OneStep

\* A claim finds the trade open: no other handler claims it, nothing is locked.
LEMMA BeginClaimInv ==
  ASSUME FlowInv, NEW p \in Slots, NEW t \in Trades, NEW e \in Exchangers, BeginF2FClaim(p, t, e)
  PROVE  FlowInv' /\ Ordinary
<1> DEFINE c == [Call("claim", t, "choose") EXCEPT !.exch = e]
<1>1. calls' = [calls EXCEPT ![p] = c] /\ UNCHANGED <<buttons, queue>>
  BY DEF BeginF2FClaim
<1>2. Ordinary
  BY OrdinaryClaim DEF BeginF2FClaim
<1>3. c.op = "claim" /\ c.trade = t /\ c.at = "choose" /\ c.exch = e /\ c.coll = collateral[t]
  BY DEF Call
<1>4. c \in CallRecords
  BY DEF Call, CallRecords, CallOps, Places, FlowInv, DbInv, DbTypeOK
<1> HIDE DEF c
<1>5. /\ status[t] = "OPEN" /\ collateral[t] = NoAsset /\ collateral' = collateral
      /\ owner'[t] = e /\ status'[t] = "CLAIMED"
  BY DEF BeginF2FClaim, Claim, TransitionToClaimed, IsTransitionAllowed, Allowed, SetStatus,
         FlowInv, OpenUnlocked, DbInv, DbTypeOK, Statuses
<1>6. calls'[p] = c
  BY <1>1, SlotSet DEF FlowInv
<1>7. CallOK(p)'
  BY <1>3, <1>5, <1>6 DEF CallOK, Returning, CloseOps
<1>8. Arrives(p, c)
  BY <1>3, <1>5 DEF Arrives
<1> QED
  BY <1>1, <1>2, <1>4, <1>7, <1>8, QuietStep

\* Either way of release finds the trade FIAT_SENT: neither has begun.
LEMMA BeginReleaseInv ==
  ASSUME FlowInv, NEW p \in Slots, NEW t \in Trades, Ordinary,
         IsTransitionAllowed(t, "RELEASE_PENDING"), SetStatus(t, "RELEASE_PENDING"),
         UNCHANGED <<owner, buttons, queue>>,
         NEW op \in {"pay", "external"}, NEW at \in {"check", "post"},
         calls' = [calls EXCEPT ![p] = Call(op, t, at)]
  PROVE  FlowInv'
<1> DEFINE c == Call(op, t, at)
<1>1. calls' = [calls EXCEPT ![p] = c]
  OBVIOUS
<1>2. c.op = op /\ c.trade = t /\ c.at = at /\ c.exch = owner[t]
  BY DEF Call
<1>3. c \in CallRecords
  BY DEF Call, CallRecords, CallOps, Places, FlowInv, DbInv, DbTypeOK
<1> HIDE DEF c
<1>4. status[t] \notin Past /\ status'[t] \in Past
  BY DEF IsTransitionAllowed, Allowed, SetStatus, Past, FlowInv, DbInv, DbTypeOK, Statuses
<1>5. NotReleased(t)
  BY <1>4 DEF FlowInv, ReleaseOK
<1>6. calls'[p] = c
  BY <1>1, SlotSet DEF FlowInv
<1>7. CallOK(p)'
  BY <1>2, <1>4, <1>5, <1>6 DEF CallOK, NotReleased, Returning, CloseOps
<1>8. Arrives(p, c)
  BY <1>2, <1>4 DEF Arrives
<1> QED
  BY <1>1, <1>3, <1>7, <1>8, QuietStep

LEMMA BeginInv ==
  ASSUME FlowInv, NEW p \in Slots, NEW t \in Trades, Begin(p, t)
  PROVE  FlowInv' /\ Ordinary
<1>1. CASE HandleWalletAddressSubmit(p, t)
  <2>1. Ordinary
    BY <1>1, OrdinaryWallet DEF HandleWalletAddressSubmit
  <2> QED
    BY <1>1, <2>1, BeginReleaseInv DEF HandleWalletAddressSubmit, TransitionWithWallet
<1>2. CASE HandleReleaseExternal(p, t)
  <2>1. Ordinary
    BY <1>2, OrdinaryTransition DEF HandleReleaseExternal, Statuses
  <2> QED
    BY <1>2, <2>1, BeginReleaseInv DEF HandleReleaseExternal, Transition
<1>3. ASSUME NEW op \in (Returning \cup {"expire", "cancel_stale"}) \ {"force_cancel"},
             NEW at \in {"return", "end"}, Start(p, op, t, at)
      PROVE  FlowInv' /\ Ordinary
  BY <1>3, StartInv, OrdinaryNothing
<1>4. CASE HandleExternalPaymentReceived(p, t)
  BY <1>3, <1>4 DEF HandleExternalPaymentReceived, Returning
<1>5. CASE HandleForceCancel(p, t)
  <2>1. owner[t] # NoExchanger
    BY <1>5 DEF HandleForceCancel, FlowInv, DbInv, OwnerByStatus
  <2> QED
    BY <1>5, <2>1, StartInv, OrdinaryNothing DEF HandleForceCancel, Returning
<1>6. CASE HandleForceRelease(p, t)
  BY <1>6, StartInv, OrdinaryNothing DEF HandleForceRelease, Returning, Disputed
<1>7. ASSUME NEW how \in CloseOps, HandleCloseTicket(p, t, how) PROVE FlowInv' /\ Ordinary
  BY <1>3, <1>7 DEF HandleCloseTicket, Returning, CloseOps
<1>8. CASE SelectExpired(p, t)
  BY <1>3, <1>8 DEF SelectExpired
<1>9. CASE SelectStale(p, t)
  BY <1>3, <1>9 DEF SelectStale
<1> QED
  BY <1>1, <1>2, <1>4, <1>5, <1>6, <1>7, <1>8, <1>9, BeginClaimInv DEF Begin

\* A set of natural numbers has a least one, so the list of assets a first offer.
LEMMA LeastExists ==
  ASSUME NEW T, T \subseteq Nat, T # {}
  PROVE  \E x \in T : \A y \in T : x <= y
<1> DEFINE less == {ss \in Nat \X Nat : ss[1] < ss[2]}
<1>1. IsWellFoundedOn(less, Nat)
  BY NatLessThanWellFounded DEF OpToRel
<1>2. \A x, y \in Nat : <<y, x>> \in less <=> y < x
  OBVIOUS
<1> HIDE DEF less
<1>3. PICK x \in T : \A y \in T : ~(<<y, x>> \in less)
  BY <1>1, WFMin
<1>4. \A y \in T : x <= y
  <2> TAKE y \in T
  <2>1. x \in Nat /\ y \in Nat /\ ~(y < x)
    BY <1>2, <1>3
  <2> QED
    BY <2>1
<1> QED
  BY <1>4

LEMMA ChosenIsAsset ==
  ASSUME NEW e, Offered(e) # {}
  PROVE  Chosen(e) \in Assets
<1> DEFINE T == {Rank[a] : a \in Offered(e)}
<1>1. \A a \in Offered(e) : a \in Assets /\ Rank[a] \in Nat
  BY FlowOK DEF Offered
<1>2. \E x \in T : \A y \in T : x <= y
  <2>1. T \subseteq Nat /\ T # {}
    BY <1>1
  <2> HIDE DEF T
  <2> QED
    BY <2>1, LeastExists
<1>3. \E a \in Offered(e) : \A b \in Offered(e) : Rank[a] <= Rank[b]
  BY <1>2
<1>4. Chosen(e) \in Offered(e)
  BY <1>3 DEF Chosen
<1> QED
  BY <1>1, <1>4

LEMMA ChooseCollateralInv ==
  ASSUME FlowInv, NEW p \in Slots, ChooseCollateral(p)
  PROVE  FlowInv' /\ UNCHANGED dbVars
<1> DEFINE a == Chosen(calls[p].exch)
           c == [[calls[p] EXCEPT !.at = "lock"] EXCEPT !.coll = a]
<1>1. UNCHANGED dbVars /\ UNCHANGED <<buttons, queue>> /\ Ordinary
  BY OrdinaryNothing DEF ChooseCollateral
<1>2. calls[p] \in CallRecords /\ CallOK(p) /\ calls[p].op = "claim" /\ calls[p].at = "choose"
  BY DEF FlowInv, FlowShape, ChooseCollateral, Running
<1>3. CASE Offered(calls[p].exch) # {} /\ calls' = [calls EXCEPT ![p].at = "lock", ![p].coll = a]
  <2>1. a \in Assets
    BY <1>3, ChosenIsAsset
  <2>2. calls' = [calls EXCEPT ![p] = c]
    BY <1>3, <1>2 DEF FlowInv, FlowShape, CallRecords
  <2>3. /\ c \in CallRecords /\ c.op = "claim" /\ c.at = "lock" /\ c.coll = a
        /\ c.trade = calls[p].trade /\ c.exch = calls[p].exch
    BY <1>2, <2>1 DEF CallRecords, Places
  <2> HIDE DEF c, a
  <2>4. calls'[p] = c
    BY <2>2, SlotSet DEF FlowInv
  <2>5. UNCHANGED <<status, owner, collateral>>
    BY <1>1 DEF dbVars
  <2>6. CallOK(p)'
    BY <1>2, <2>1, <2>3, <2>4, <2>5 DEF CallOK, Returning, CloseOps
  <2>7. Arrives(p, c)
    BY <1>2, <2>3 DEF Arrives
  <2> QED
    BY <1>1, <2>2, <2>3, <2>6, <2>7, QuietStep
<1>4. CASE calls' = [calls EXCEPT ![p] = NoCall]
  BY <1>1, <1>4, ReturnInv DEF Return
<1> QED
  BY <1>1, <1>3, <1>4 DEF ChooseCollateral

\* The collateral is locked for the exchanger who took the trade, and no other
\* handler has read this trade with collateral.
LEMMA LockChosenInv ==
  ASSUME FlowInv, NEW p \in Slots, LockChosen(p)
  PROVE  FlowInv' /\ (DbNext \/ UNCHANGED dbVars)
<1> DEFINE t == calls[p].trade
           e == calls[p].exch
           a == calls[p].coll
           c == [calls[p] EXCEPT !.at = "pending"]
<1>1. calls[p] \in CallRecords /\ CallOK(p) /\ calls[p].op = "claim" /\ calls[p].at = "lock"
  BY DEF FlowInv, FlowShape, LockChosen, Running
<1>2. /\ t \in Trades /\ a \in Assets /\ e = owner[t] /\ e # NoExchanger
      /\ collateral[t] = NoAsset
  BY <1>1, TradesOK DEF CallOK
<1>3. CASE Throw(p)
  BY <1>3, ThrowInv
<1>4. CASE LockCollateral(t, e, a) /\ Goto(p, "pending")
  <2>1. DbNext
    BY <1>2, <1>4 DEF DbNext, OwnedNext
  <2>2. /\ status[t] # "OPEN" /\ UNCHANGED <<status, owner>>
        /\ collateral' = [collateral EXCEPT ![t] = a]
        /\ keys' = keys \cup {CollateralKey(t, a)}
    BY <1>4, EnterKeys DEF LockCollateral, CanLockCollateral
  <2>3. \A u \in Trades \ {t} : collateral'[u] = collateral[u]
    BY <2>2 DEF FlowInv, DbInv, DbTypeOK
  <2>4. CollateralSafe /\ FeesSafe
    BY <2>2, <2>3, ProfitKeyApart DEF CollateralSafe, FeesSafe
  <2>5. /\ c \in CallRecords /\ c.op = "claim" /\ c.at = "pending"
        /\ c.trade = t /\ c.exch = e /\ calls' = [calls EXCEPT ![p] = c]
    BY <1>1, <1>4 DEF CallRecords, Places, Goto
  <2>6. UNCHANGED <<buttons, queue>>
    BY <1>4 DEF Goto
  <2> HIDE DEF c
  <2>7. calls'[p] = c
    BY <2>5, SlotSet DEF FlowInv
  <2>8. CallOK(p)'
    BY <1>1, <1>2, <2>2, <2>5, <2>7 DEF CallOK, Returning, CloseOps
  <2>9. Arrives(p, c)
    BY <1>1, <2>5 DEF Arrives
  <2>10. ASSUME NEW q \in Slots \ {p} PROVE Undisturbed(q)
    <3>1. calls[q].op = "claim" => calls[q].trade # t
      BY <1>1 DEF FlowInv, Apart
    <3>2. CallOK(q)
      BY DEF FlowInv
    <3> QED
      BY <1>2, <2>3, <2>6, <3>1, <3>2 DEF Undisturbed, CallOK, NotReleased
  <2>11. ReleaseOK'
    BY <2>2, <2>6 DEF FlowInv, ReleaseOK, NotReleased
  <2>12. /\ buttons' \subseteq {"submit_wallet", "external_check"} \X Trades
         /\ queue' \in [Trades -> RowStatuses]
    BY <2>6 DEF FlowInv, FlowShape
  <2> QED
    BY <2>1, <2>4, <2>5, <2>8, <2>9, <2>10, <2>11, <2>12, SlotStep
<1> QED
  BY <1>3, <1>4 DEF LockChosen

LEMMA AwaitFiatInv ==
  ASSUME FlowInv, NEW p \in Slots, AwaitFiat(p)
  PROVE  FlowInv' /\ Ordinary
<1>1. calls[p].trade \in Trades
  BY DEF FlowInv, CallOK, AwaitFiat, Running
<1> QED
  BY <1>1, ThrowInv, ReturnInv, OrdinaryNothing, OrdinaryTransition DEF AwaitFiat, Statuses

LEMMA CheckPaymentInv ==
  ASSUME FlowInv, NEW p \in Slots, CheckPayment(p)
  PROVE  FlowInv' /\ UNCHANGED dbVars
<1>1. calls[p].op = "pay" /\ "queue" \in Places \ {"approve"}
  BY DEF CheckPayment, Running, Places
<1>2. CASE Skip(p, "queue")
  BY <1>1, <1>2, GotoInv, OrdinaryNothing DEF Skip
<1> QED
  BY <1>2, ThrowInv DEF CheckPayment

\* The end of either way to release: the other has not ended, nor will it,
\* because there is no other handler of this kind for the trade.
LEMMA ReleasedInv ==
  ASSUME FlowInv, NEW p \in Slots, calls[p].op \in {"pay", "external"}, UNCHANGED dbVars,
         calls' = [calls EXCEPT ![p] = NoCall],
         buttons' \subseteq {"submit_wallet", "external_check"} \X Trades,
         queue' \in [Trades -> RowStatuses],
         \A u \in Trades \ {calls[p].trade} :
            /\ queue'[u] = queue[u]
            /\ <<"external_check", u>> \in buttons' <=> <<"external_check", u>> \in buttons,
         <<"external_check", calls[p].trade>> \in buttons' => queue'[calls[p].trade] = "NONE"
  PROVE  FlowInv'
<1> DEFINE t == calls[p].trade
<1>1. CallOK(p) /\ t \in Trades /\ status[t] \in Past
  BY DEF FlowInv, CallOK
<1>2. calls'[p] = NoCall
  BY SlotSet DEF FlowInv
<1>3. CallOK(p)' /\ Arrives(p, NoCall)
  BY <1>2, NoCallFits DEF CallOK, Arrives, NoCall
<1>4. UNCHANGED <<status, collateral>> /\ CollateralSafe /\ FeesSafe
  BY OrdinaryNothing, OrdinarySafe DEF dbVars
<1>5. ASSUME NEW q \in Slots \ {p} PROVE Undisturbed(q)
  <2>1. CallOK(q) /\ (calls[q].op \in {"pay", "external"} => calls[q].trade # t)
    BY DEF FlowInv, Apart
  <2> QED
    BY <1>4, <2>1 DEF Undisturbed, CallOK, NotReleased
<1>6. ReleaseOK'
  BY <1>1, <1>4 DEF FlowInv, ReleaseOK, NotReleased
<1> QED
  BY <1>3, <1>4, <1>5, <1>6, NoCallFits, SlotStep

LEMMA QueueWithdrawalInv ==
  ASSUME FlowInv, NEW p \in Slots, QueueWithdrawal(p)
  PROVE  FlowInv' /\ UNCHANGED dbVars
<1> DEFINE t == calls[p].trade
<1>1. calls[p].op = "pay" /\ UNCHANGED dbVars /\ calls' = [calls EXCEPT ![p] = NoCall]
  BY DEF QueueWithdrawal, Running
<1>2. t \in Trades /\ NotReleased(t)
  BY <1>1 DEF FlowInv, CallOK
<1>3. queue' = [queue EXCEPT ![t] = "PENDING"] /\ buttons' = buttons
  BY <1>2 DEF QueueWithdrawal, FlowInv, FlowShape, NotReleased
<1>4. /\ queue' \in [Trades -> RowStatuses]
      /\ buttons' \subseteq {"submit_wallet", "external_check"} \X Trades
      /\ \A u \in Trades \ {t} : queue'[u] = queue[u]
  BY <1>2, <1>3 DEF FlowInv, FlowShape, RowStatuses
<1>5. <<"external_check", t>> \notin buttons'
  BY <1>2, <1>3 DEF NotReleased
<1> QED
  BY <1>1, <1>3, <1>4, <1>5, ReleasedInv

LEMMA PostExternalCheckInv ==
  ASSUME FlowInv, NEW p \in Slots, PostExternalCheck(p)
  PROVE  FlowInv' /\ UNCHANGED dbVars
<1> DEFINE t == calls[p].trade
<1>1. calls[p].op = "external" /\ UNCHANGED dbVars /\ calls' = [calls EXCEPT ![p] = NoCall]
  BY DEF PostExternalCheck, Running
<1>2. t \in Trades /\ NotReleased(t)
  BY <1>1 DEF FlowInv, CallOK
<1>3. buttons' = buttons \cup {<<"external_check", t>>} /\ queue' = queue
  BY DEF PostExternalCheck
<1>4. /\ queue' \in [Trades -> RowStatuses]
      /\ buttons' \subseteq {"submit_wallet", "external_check"} \X Trades
      /\ queue'[t] = "NONE"
  BY <1>2, <1>3 DEF FlowInv, FlowShape, NotReleased
<1>5. \A u \in Trades \ {t} :
         <<"external_check", u>> \in buttons' <=> <<"external_check", u>> \in buttons
  BY <1>3
<1> QED
  BY <1>1, <1>3, <1>4, <1>5, ReleasedInv

LEMMA ReturnFundsInv ==
  ASSUME FlowInv, NEW p \in Slots, ReturnFunds(p)
  PROVE  FlowInv' /\ Ordinary
<1> DEFINE c == calls[p]
           t == calls[p].trade
           e == calls[p].exch
<1>1. c.op \in Returning /\ c.at = "return" /\ CallOK(p)
  BY DEF FlowInv, ReturnFunds
<1>2. c.op \notin {"none", "claim"} /\ "end" \in Places \ {"approve"}
  BY <1>1 DEF Returning, CloseOps, Places
<1>3. /\ t \in Trades
      /\ e # NoExchanger => e = owner[t]
      /\ c.coll # NoAsset => c.coll = collateral[t]
      /\ c.op = "force_cancel" => e # NoExchanger
  BY <1>1, <1>2 DEF CallOK
\* Going on without an entry: force-cancel of a crypto trade never does.
<1>4. ASSUME Skip(p, "end"), c.op # "force_cancel" \/ Direction[t] # "CRYPTO"
      PROVE  FlowInv' /\ Ordinary
  BY <1>2, <1>4, GotoInv, OrdinaryNothing DEF Skip
<1>5. ASSUME ReturnFails(p) PROVE FlowInv' /\ Ordinary
  <2>1. CASE c.op \in CloseOps /\ Skip(p, "end")
    BY <1>4, <2>1 DEF CloseOps
  <2>2. CASE Throw(p)
    BY <2>2, ThrowInv, OrdinaryNothing
  <2> QED
    BY <1>5, <2>1, <2>2 DEF ReturnFails
<1>6. ASSUME e # NoExchanger, Direction[t] = "FIAT_TO_FIAT", c.coll # NoAsset,
             ReleaseCollateral(t, e, c.coll, CollateralReason(c.op)), Goto(p, "end")
      PROVE  FlowInv' /\ Ordinary
  <2>1. CollateralReason(c.op) \in CollateralReasons
    BY <1>1 DEF CollateralReason, CollateralReasons, Returning, CloseOps
  <2>2. Ordinary
    BY <1>3, <1>6, <2>1, OrdinaryFree
  <2> QED
    BY <1>2, <1>6, <2>2, GotoInv
<1>7. ASSUME e # NoExchanger, ReleaseEscrow(t, e, EscrowReason(c.op)), Goto(p, "end")
      PROVE  FlowInv' /\ Ordinary
  <2>1. EscrowReason(c.op) \in EscrowReasons
    BY DEF EscrowReason, EscrowReasons
  <2>2. Ordinary
    BY <1>3, <1>7, <2>1, OrdinaryRelease
  <2>3. c.op = "force_cancel" => ReleaseKey(t, "CANCEL") \in keys'
    BY <1>7, EnterKeys DEF ReleaseEscrow, EscrowReason
  <2> QED
    BY <1>2, <1>7, <2>2, <2>3, GotoInv
<1>8. CASE e = NoExchanger
  <2>1. Skip(p, "end") /\ c.op # "force_cancel"
    BY <1>3, <1>8 DEF ReturnFunds
  <2> QED
    BY <1>4, <2>1
<1>9. CASE e # NoExchanger /\ Direction[t] = "FIAT_TO_FIAT" /\ c.coll # NoAsset
  BY <1>5, <1>6, <1>9 DEF ReturnFunds
<1>10. CASE e # NoExchanger /\ ~(Direction[t] = "FIAT_TO_FIAT" /\ c.coll # NoAsset)
  <2>1. CASE c.op = "force_release"
    BY <1>4, <1>10, <2>1 DEF ReturnFunds
  <2>2. CASE c.op # "force_release"
    BY <1>5, <1>7, <1>10, <2>2 DEF ReturnFunds
  <2> QED
    BY <2>1, <2>2
<1> QED
  BY <1>8, <1>9, <1>10

LEMMA EndTradeInv ==
  ASSUME FlowInv, NEW p \in Slots, EndTrade(p)
  PROVE  FlowInv' /\ Ordinary
<1> DEFINE t == calls[p].trade
           to == Outcome(calls[p].op)
<1>1. /\ t \in Trades /\ calls[p].op \notin {"none", "claim"}
      /\ calls[p].op \in Returning /\ calls[p].at = "end"
  BY DEF FlowInv, CallOK, EndTrade, Returning, CloseOps
<1>2. to \in Statuses \ {"CLAIMED"}
  BY DEF Outcome, Statuses
<1>3. CASE Throw(p)
  BY <1>3, ThrowInv, OrdinaryNothing
<1>4. CASE Transition(t, to) /\ Return(p)
  BY <1>1, <1>2, <1>4, OrdinaryTransition, ReturnInv
<1>5. CASE Transition(t, to) /\ to = "COMPLETED" /\ Goto(p, "settle")
  <2>1. Ordinary
    BY <1>1, <1>2, <1>5, OrdinaryTransition
  <2>2. status'[t] = "COMPLETED"
    BY <1>1, <1>5 DEF Transition, SetStatus, FlowInv, DbInv, DbTypeOK
  <2>3. "settle" \in Places \ {"approve"}
    BY DEF Places
  <2> QED
    BY <1>1, <1>5, <2>1, <2>2, <2>3, GotoInv
<1> QED
  BY <1>3, <1>4, <1>5 DEF EndTrade

\* Only a trade that is COMPLETED is settled: a call comes here after its own
\* transition, and COMPLETED is never left.
LEMMA SettleInv ==
  ASSUME FlowInv, NEW p \in Slots, Settle(p)
  PROVE  FlowInv' /\ (DbNext \/ UNCHANGED dbVars)
<1> DEFINE t == calls[p].trade
<1>1. /\ t \in Trades /\ status[t] = "COMPLETED" /\ Return(p)
  BY DEF FlowInv, CallOK, Settle, Returning, CloseOps
<1>2. CASE UNCHANGED dbVars
  BY <1>1, <1>2, OrdinaryNothing, ReturnInv
<1>3. CASE SettleTradeProfit(t)
  <2>1. DbNext
    BY <1>1, <1>3 DEF DbNext, OwnedNext, SettleTradeProfit, Settles
  <2>2. UNCHANGED <<status, owner, collateral>> /\ keys' = keys \cup {ProfitKey(t)}
    BY <1>3, EnterKeys DEF SettleTradeProfit
  <2>3. CollateralSafe /\ FeesSafe
    BY <1>1, <2>2, ProfitKeyApart DEF CollateralSafe, FeesSafe
  <2>4. calls' = [calls EXCEPT ![p] = NoCall] /\ UNCHANGED <<buttons, queue>>
    BY <1>1 DEF Return
  <2>5. calls'[p] = NoCall
    BY <2>4, SlotSet DEF FlowInv
  <2>6. CallOK(p)' /\ Arrives(p, NoCall)
    BY <2>5, NoCallFits DEF CallOK, Arrives, NoCall
  <2>7. \A q \in Slots : Undisturbed(q)
    BY <2>2, <2>4, ButtonsStay
  <2>8. ReleaseOK'
    BY <2>2, <2>4 DEF FlowInv, ReleaseOK, NotReleased
  <2>9. /\ buttons' \subseteq {"submit_wallet", "external_check"} \X Trades
        /\ queue' \in [Trades -> RowStatuses]
    BY <2>4 DEF FlowInv, FlowShape
  <2> QED
    BY <2>1, <2>3, <2>4, <2>6, <2>7, <2>8, <2>9, NoCallFits, SlotStep
<1> QED
  BY <1>2, <1>3 DEF Settle

\* The transition that force-release of a crypto trade needs does not exist.
LEMMA ApproveReleaseInv ==
  ASSUME FlowInv, NEW p \in Slots, ApproveRelease(p)
  PROVE  FlowInv' /\ UNCHANGED dbVars
<1>1. status[calls[p].trade] \in Disputed
  BY DEF FlowInv, CallOK, ApproveRelease, Running
<1>2. ~IsTransitionAllowed(calls[p].trade, "RELEASE_PENDING")
  BY <1>1 DEF IsTransitionAllowed, Allowed, Disputed
<1> QED
  BY <1>2, ThrowInv DEF ApproveRelease

LEMMA ExpireOpenInv ==
  ASSUME FlowInv, NEW p \in Slots, ExpireOpen(p)
  PROVE  FlowInv' /\ Ordinary
<1>1. calls[p].trade \in Trades /\ Return(p)
  BY DEF FlowInv, CallOK, ExpireOpen, Running
<1>2. Ordinary
  BY <1>1, OrdinaryNothing, OrdinaryTransition DEF ExpireOpen, Statuses
<1> QED
  BY <1>1, <1>2, ReturnInv

LEMMA CancelStaleInv ==
  ASSUME FlowInv, NEW p \in Slots, CancelStale(p)
  PROVE  FlowInv' /\ Ordinary
<1>1. /\ calls[p].trade \in Trades /\ Return(p)
      /\ calls[p].exch # NoExchanger => calls[p].exch = owner[calls[p].trade]
  BY DEF FlowInv, CallOK, CancelStale, Running
<1>2. Ordinary
  BY <1>1, OrdinaryNothing, OrdinaryCancel DEF CancelStale
<1> QED
  BY <1>1, <1>2, ReturnInv

-----------------------------------------------------------------------------
LEMMA FlowInit == Init => FlowInv
<1> SUFFICES ASSUME Init PROVE FlowInv
  OBVIOUS
<1>1. DbInv
  BY DbInitInv DEF Init
<1>2. \A p \in Slots : calls[p] = NoCall
  BY DEF Init
<1>3. FlowShape /\ \A p \in Slots : CallOK(p)
  BY <1>2, NoCallFits DEF Init, FlowShape, CallOK, RowStatuses
<1>4. Apart
  BY <1>2, NoCallFits DEF Apart
<1>5. ReleaseOK /\ OpenUnlocked /\ FeeOnlyIfCompleted
  BY DEF Init, DbInit, ReleaseOK, NotReleased, OpenUnlocked, FeeOnlyIfCompleted
<1> QED
  BY <1>1, <1>3, <1>4, <1>5 DEF FlowInv

\* Every step of every handler keeps the invariant and is a transaction of TradeDb,
\* or changes none of its variables.
LEMMA FlowStep ==
  ASSUME FlowInv, [Next]_vars
  PROVE  FlowInv' /\ [DbNext]_dbVars
<1>1. ASSUME NEW t \in Trades, OneStep(t) PROVE FlowInv' /\ [DbNext]_dbVars
  BY <1>1, OneStepInv DEF Ordinary
<1>2. ASSUME NEW t \in Trades, NEW p \in Slots, Begin(p, t) PROVE FlowInv' /\ [DbNext]_dbVars
  BY <1>2, BeginInv DEF Ordinary
<1>3. ASSUME NEW p \in Slots, Continue(p) PROVE FlowInv' /\ [DbNext]_dbVars
  <2>1. CASE ChooseCollateral(p) \/ LockChosen(p) \/ AwaitFiat(p)
    BY <2>1, ChooseCollateralInv, LockChosenInv, AwaitFiatInv DEF Ordinary
  <2>2. CASE CheckPayment(p) \/ QueueWithdrawal(p) \/ PostExternalCheck(p)
    BY <2>2, CheckPaymentInv, QueueWithdrawalInv, PostExternalCheckInv
  <2>3. CASE ReturnFunds(p) \/ EndTrade(p) \/ Settle(p) \/ ApproveRelease(p)
    BY <2>3, ReturnFundsInv, EndTradeInv, SettleInv, ApproveReleaseInv DEF Ordinary
  <2>4. CASE ExpireOpen(p) \/ CancelStale(p)
    BY <2>4, ExpireOpenInv, CancelStaleInv DEF Ordinary
  <2> QED
    BY <1>3, <2>1, <2>2, <2>3, <2>4 DEF Continue
<1>4. ASSUME NEW p \in Slots, Abandon(p) PROVE FlowInv' /\ [DbNext]_dbVars
  BY <1>4, ThrowInv DEF Abandon
<1>5. CASE UNCHANGED vars
  <2>1. UNCHANGED dbVars /\ UNCHANGED <<calls, buttons, queue>>
    BY <1>5 DEF vars, flowVars
  <2>2. Ordinary /\ Evolves /\ DbInv'
    BY <2>1, OrdinaryNothing, DbEvolves DEF FlowInv
  <2>3. FlowShape' /\ Apart'
    BY <2>1 DEF FlowInv, FlowShape, CallRecords, Apart
  <2>4. \A p \in Slots : CallOK(p)'
    BY <2>1, <2>2, ButtonsStay, OtherCall DEF Ordinary
  <2>5. ReleaseOK' /\ OpenUnlocked' /\ FeeOnlyIfCompleted'
    BY <2>1, <2>2, ReleaseStays, OrdinarySafe, TradesStay
  <2> QED
    BY <2>1, <2>2, <2>3, <2>4, <2>5 DEF FlowInv
<1> QED
  BY <1>1, <1>2, <1>3, <1>4, <1>5 DEF Next

(* What a call remembers of its trade, where it can be, and which facts of  *)
(* the trade survive until it acts, for any interleaving of handlers.       *)
THEOREM FlowInvHolds == Spec => []FlowInv
<1>1. FlowInv /\ [Next]_vars => FlowInv'
  BY FlowStep
<1> QED
  BY FlowInit, <1>1, PTL DEF Spec

\* The queue changes only where sendCryptoAsync queues a payment.
LEMMA QueueMoves ==
  ASSUME Next PROVE UNCHANGED queue \/ \E p \in Slots : QueueWithdrawal(p)
<1>1. ASSUME NEW t \in Trades, OneStep(t) PROVE UNCHANGED queue
  BY <1>1 DEF OneStep, HandleClaim, HandleFiatSent, HandleDispute, HandleReleaseInternal,
              HandleExternalPaymentNotReceived, DashboardForce, flowVars
<1>2. ASSUME NEW t \in Trades, NEW p \in Slots, Begin(p, t) PROVE UNCHANGED queue
  BY <1>2 DEF Begin, BeginF2FClaim, HandleWalletAddressSubmit, HandleReleaseExternal,
              HandleExternalPaymentReceived, HandleForceCancel, HandleForceRelease,
              HandleCloseTicket, SelectExpired, SelectStale, Start
<1>3. ASSUME NEW p \in Slots, Continue(p) \/ Abandon(p), ~QueueWithdrawal(p)
      PROVE  UNCHANGED queue
  <2>1. ASSUME NEW at, Goto(p, at) \/ Skip(p, at) PROVE UNCHANGED queue
    BY <2>1 DEF Goto, Skip
  <2>2. Return(p) \/ Throw(p) => UNCHANGED queue
    BY DEF Return, Throw
  <2>3. CASE ChooseCollateral(p) \/ LockChosen(p) \/ AwaitFiat(p) \/ CheckPayment(p)
    BY <2>1, <2>2, <2>3 DEF ChooseCollateral, LockChosen, AwaitFiat, CheckPayment
  <2>4. CASE PostExternalCheck(p) \/ ReturnFunds(p) \/ EndTrade(p) \/ ApproveRelease(p)
    BY <2>1, <2>2, <2>4
       DEF PostExternalCheck, ReturnFunds, ReturnFails, EndTrade, ApproveRelease
  <2>5. CASE Settle(p) \/ ExpireOpen(p) \/ CancelStale(p) \/ Abandon(p)
    BY <2>2, <2>5 DEF Settle, ExpireOpen, CancelStale, Abandon
  <2> QED
    BY <1>3, <2>3, <2>4, <2>5 DEF Continue
<1> QED
  BY <1>1, <1>2, <1>3 DEF Next

(* The exchanger that a handler read is still the trade's when the handler  *)
(* acts on it, whatever ran in between (the types with it).                 *)
THEOREM FlowTypeCorrect == Spec => []FlowTypeOK
<1> DEFINE rows == queue \in [Trades -> {"NONE", "PENDING"}]
<1>1. Init => rows
  BY DEF Init
<1>2. rows /\ [Next]_vars => rows'
  <2> SUFFICES ASSUME rows, [Next]_vars PROVE rows'
    OBVIOUS
  <2>1. CASE UNCHANGED queue
    BY <2>1
  <2>2. ASSUME NEW p \in Slots, QueueWithdrawal(p) PROVE rows'
    BY <2>2 DEF QueueWithdrawal
  <2> QED
    BY <2>1, <2>2, QueueMoves DEF vars, flowVars
<1>3. FlowInv /\ rows => FlowTypeOK
  <2> SUFFICES ASSUME FlowInv, NEW p \in Slots
               PROVE  /\ calls[p].op \in CallOps /\ calls[p].at \in Places
                      /\ calls[p].exch # NoExchanger => calls[p].exch = owner[calls[p].trade]
    BY DEF FlowInv, FlowShape, DbInv, FlowTypeOK
  <2>1. calls[p] \in CallRecords /\ CallOK(p)
    BY DEF FlowInv, FlowShape
  <2> QED
    BY <2>1 DEF CallRecords, CallOK, NoCall
<1> QED
  BY <1>1, <1>2, <1>3, FlowInvHolds, PTL DEF Spec

(* A fee is shared only by a trade that is COMPLETED, although              *)
(* settleTradeProfit never looks at the status.                             *)
THEOREM FeesOfCompletedTrades == Spec => []FeeOnlyIfCompleted
<1>1. FlowInv => FeeOnlyIfCompleted
  BY DEF FlowInv
<1> QED
  BY <1>1, FlowInvHolds, PTL

(* A trade is paid by the bot or by hand, never both, although both buttons *)
(* stay in the channel.                                                     *)
THEOREM PaidOneWay == Spec => []OneReleaseMethod
<1>1. FlowInv => OneReleaseMethod
  BY DEF FlowInv, ReleaseOK, OneReleaseMethod
<1> QED
  BY <1>1, FlowInvHolds, PTL

(* However handlers and the worker interleave and wherever they are cut     *)
(* short, what they do to the database is transactions of TradeDb, asked    *)
(* for the exchanger and the collateral the trade has: so what is proved of *)
(* TradeDb holds of them.                                                   *)
THEOREM HandlersRunTransactions == Spec => RunsTransactions
<1>1. Init => DbInit
  BY DEF Init
<1>2. FlowInv /\ [Next]_vars => [DbNext]_dbVars
  BY FlowStep
<1> QED
  BY <1>1, <1>2, FlowInvHolds, PTL DEF Spec, RunsTransactions, DbSpec

\* The collateral of a trade is recorded where a claim locks it, and nowhere else.
LEMMA CollateralMoves ==
  ASSUME Next PROVE UNCHANGED collateral \/ \E p \in Slots : LockChosen(p)
<1>1. ASSUME NEW t \in Trades, OneStep(t) PROVE UNCHANGED collateral
  BY <1>1 DEF OneStep, HandleClaim, HandleFiatSent, HandleDispute, HandleReleaseInternal,
              HandleExternalPaymentNotReceived, DashboardForce, dbVars,
              Claim, TransitionToClaimed, ClaimTradeWithEscrow, Transition
<1>2. ASSUME NEW t \in Trades, NEW p \in Slots, Begin(p, t) PROVE UNCHANGED collateral
  <2>1. ASSUME NEW op, NEW at, Start(p, op, t, at) PROVE UNCHANGED collateral
    BY <2>1 DEF Start, dbVars
  <2>2. ASSUME NEW e \in Exchangers, BeginF2FClaim(p, t, e) PROVE UNCHANGED collateral
    BY <2>2 DEF BeginF2FClaim, Claim, TransitionToClaimed
  <2>3. CASE HandleWalletAddressSubmit(p, t) \/ HandleReleaseExternal(p, t)
    BY <2>3 DEF HandleWalletAddressSubmit, HandleReleaseExternal, TransitionWithWallet, Transition
  <2> QED
    BY <1>2, <2>1, <2>2, <2>3
       DEF Begin, HandleExternalPaymentReceived, HandleForceCancel, HandleForceRelease,
           HandleCloseTicket, SelectExpired, SelectStale
<1>3. ASSUME NEW p \in Slots, Continue(p) \/ Abandon(p), ~LockChosen(p)
      PROVE  UNCHANGED collateral
  <2>1. ASSUME NEW at, Skip(p, at) PROVE UNCHANGED collateral
    BY <2>1 DEF Skip, dbVars
  <2>2. Throw(p) => UNCHANGED collateral
    BY DEF Throw, dbVars
  <2>3. CASE ChooseCollateral(p) \/ AwaitFiat(p) \/ CheckPayment(p) \/ QueueWithdrawal(p)
    BY <2>1, <2>2, <2>3
       DEF ChooseCollateral, AwaitFiat, CheckPayment, QueueWithdrawal, Transition, dbVars
  <2>4. CASE PostExternalCheck(p) \/ ReturnFunds(p) \/ EndTrade(p) \/ ApproveRelease(p)
    BY <2>1, <2>2, <2>4
       DEF PostExternalCheck, ReturnFunds, ReturnFails, EndTrade, ApproveRelease, dbVars,
           Transition, ReleaseEscrow, ReleaseCollateral
  <2>5. CASE Settle(p) \/ ExpireOpen(p) \/ CancelStale(p) \/ Abandon(p)
    BY <2>2, <2>5
       DEF Settle, ExpireOpen, CancelStale, Abandon, dbVars,
           Transition, SettleTradeProfit, CancelTradeAndReleaseEscrow
  <2> QED
    BY <1>3, <2>3, <2>4, <2>5 DEF Continue
<1> QED
  BY <1>1, <1>2, <1>3 DEF Next

\* A claim reaches LockChosen for a trade without collateral, so the asset recorded for
\* a trade is never replaced by another.
LEMMA KeepsItsCollateral ==
  ASSUME FlowInv, [Next]_vars PROVE CollateralStays
<1>1. CASE UNCHANGED collateral
  BY <1>1 DEF CollateralStays
<1>2. ASSUME NEW p \in Slots, LockChosen(p) PROVE CollateralStays
  <2>1. CASE Throw(p)
    BY <1>1, <2>1 DEF Throw, dbVars
  <2>2. CASE LockCollateral(calls[p].trade, calls[p].exch, calls[p].coll)
    <3>1. CallOK(p) /\ calls[p].op = "claim" /\ calls[p].at = "lock"
      BY <1>2 DEF FlowInv, LockChosen, Running
    <3>2. collateral[calls[p].trade] = NoAsset
      BY <3>1 DEF CallOK
    <3> QED
      BY <2>2, <3>2 DEF LockCollateral, CollateralStays, FlowInv, DbInv, DbTypeOK
  <2> QED
    BY <1>2, <2>1, <2>2 DEF LockChosen
<1> QED
  BY <1>1, <1>2, CollateralMoves DEF vars, dbVars

(* The two sums by which the dashboard reconciles an exchanger's rows, and  *)
(* the sum it reports as escrow, are the balances the ledger holds, under   *)
(* any interleaving of handlers: all trades' rows of one exchanger and one  *)
(* asset are one pair of sums, whichever asset each trade locked.           *)
THEOREM HandlersSumsExplained ==
  ASSUME IsFiniteSet(Exchangers) PROVE Spec => []SumsExplained
<1>1. DbSpec /\ KeepsCollateral => []SumsExplained
  BY SumsAreExplained
<1>2. Spec => DbSpec
  BY HandlersRunTransactions DEF RunsTransactions
<1>3. Spec => KeepsCollateral
  <2>1. FlowInv /\ [Next]_vars => [CollateralStays]_dbVars
    BY KeepsItsCollateral
  <2> QED
    BY <2>1, FlowInvHolds, PTL DEF Spec, KeepsCollateral
<1> QED
  BY <1>1, <1>2, <1>3, PTL

\* A step changes the call of one slot; what begins there finds it free.
\* A step of a call leaves the others alone.
LEMMA OthersStay ==
  ASSUME FlowInv, NEW p \in Slots, (\E t \in Trades : Begin(p, t)) \/ Continue(p) \/ Abandon(p)
  PROVE  \A q \in Slots \ {p} : calls'[q] = calls[q]
<1>1. ASSUME NEW c, calls' = [calls EXCEPT ![p] = c]
      PROVE  \A q \in Slots \ {p} : calls'[q] = calls[q]
  BY <1>1, SlotSet DEF FlowInv
<1>2. ASSUME NEW t \in Trades, Begin(p, t)
      PROVE  \E c : calls' = [calls EXCEPT ![p] = c]
  BY <1>2 DEF Begin, BeginF2FClaim, HandleWalletAddressSubmit, HandleReleaseExternal,
              HandleExternalPaymentReceived, HandleForceCancel, HandleForceRelease,
              HandleCloseTicket, SelectExpired, SelectStale, Start
<1>3. ASSUME Continue(p) \/ Abandon(p) PROVE \E c : calls' = [calls EXCEPT ![p] = c]
  <2>1. ASSUME NEW at, Goto(p, at) PROVE \E c : calls' = [calls EXCEPT ![p] = c]
    BY <2>1 DEF Goto
  <2>2. Return(p) => \E c : calls' = [calls EXCEPT ![p] = c]
    BY DEF Return
  <2>3. Throw(p) => \E c : calls' = [calls EXCEPT ![p] = c]
    BY <2>2 DEF Throw
  <2>4. ASSUME NEW at, Skip(p, at) PROVE \E c : calls' = [calls EXCEPT ![p] = c]
    BY <2>1, <2>4 DEF Skip
  <2>5. CASE ChooseCollateral(p)
    BY <2>5 DEF ChooseCollateral, FlowInv, FlowShape
  <2>6. CASE LockChosen(p) \/ AwaitFiat(p) \/ CheckPayment(p) \/ ReturnFunds(p) \/ EndTrade(p)
    BY <2>1, <2>2, <2>3, <2>4, <2>6
       DEF LockChosen, AwaitFiat, CheckPayment, ReturnFunds, ReturnFails, EndTrade
  <2>7. CASE QueueWithdrawal(p) \/ PostExternalCheck(p)
    BY <2>7 DEF QueueWithdrawal, PostExternalCheck
  <2>8. CASE Settle(p) \/ ExpireOpen(p) \/ CancelStale(p) \/ Abandon(p)
    BY <2>2, <2>3, <2>8 DEF Settle, ExpireOpen, CancelStale, Abandon
  <2>9. CASE ApproveRelease(p)
    BY <2>3, <2>9 DEF ApproveRelease
  <2> QED
    BY <1>3, <2>5, <2>6, <2>7, <2>8, <2>9 DEF Continue
<1> QED
  BY <1>1, <1>2, <1>3

LEMMA OneSlot ==
  ASSUME FlowInv, Next
  PROVE  \/ UNCHANGED calls
         \/ \E p \in Slots : /\ \A q \in Slots \ {p} : calls'[q] = calls[q]
                             /\ Free(p) \/ Continue(p) \/ Abandon(p)
<1>1. ASSUME NEW t \in Trades, OneStep(t) PROVE UNCHANGED calls
  BY <1>1 DEF OneStep, HandleClaim, HandleFiatSent, HandleDispute, HandleReleaseInternal,
              HandleExternalPaymentNotReceived, DashboardForce, flowVars
<1>2. ASSUME NEW t \in Trades, NEW p \in Slots, Begin(p, t) PROVE Free(p)
  BY <1>2 DEF Begin, BeginF2FClaim, HandleWalletAddressSubmit, HandleReleaseExternal,
              HandleExternalPaymentReceived, HandleForceCancel, HandleForceRelease,
              HandleCloseTicket, SelectExpired, SelectStale, Start
<1> QED
  BY <1>1, <1>2, OthersStay DEF Next

\* A handler that ends with the trade newly cancelled is at its last await.
LEMMA CancelsAtEnd ==
  ASSUME FlowInv, Next, NEW p \in Slots, Cancels(p, {"force_cancel", "cancel_stale"})
  PROVE  EndTrade(p) \/ CancelStale(p)
<1>1. /\ calls[p].op \in {"force_cancel", "cancel_stale"} /\ calls'[p] = NoCall
      /\ status' # status
  BY DEF Cancels, Ends
<1>2. calls'[p] # calls[p]
  BY <1>1, NoCallFits
<1>3. Continue(p) \/ Abandon(p)
  BY <1>1, <1>2, NoCallFits, OneSlot DEF Free
<1>4. ~Throw(p)
  BY <1>1 DEF Throw, dbVars
<1>5. ASSUME NEW at, Goto(p, at) PROVE FALSE
  <2>1. calls[p] \in CallRecords
    BY DEF FlowInv, FlowShape
  <2>2. calls'[p] = [calls[p] EXCEPT !.at = at]
    BY <1>5, SlotSet DEF Goto, FlowInv
  <2>3. calls'[p].op = calls[p].op
    BY <2>1, <2>2 DEF CallRecords
  <2> QED
    BY <1>1, <2>3, NoCallFits
<1>6. ~ReturnFunds(p)
  BY <1>1, <1>4, <1>5 DEF ReturnFunds, ReturnFails, Skip
<1>7. ~Settle(p)
  BY <1>1 DEF Settle, SettleTradeProfit, dbVars
<1> QED
  BY <1>1, <1>3, <1>4, <1>6, <1>7
     DEF Continue, Abandon, ChooseCollateral, LockChosen, AwaitFiat, CheckPayment,
         QueueWithdrawal, PostExternalCheck, ApproveRelease, ExpireOpen, Running

LEMMA CancelledReturned ==
  ASSUME FlowInv, Next, NEW p \in Slots, Cancels(p, {"force_cancel", "cancel_stale"}),
         Direction[calls[p].trade] = "CRYPTO"
  PROVE  ReleaseKey(calls[p].trade, "CANCEL") \in keys'
<1>1. CallOK(p) /\ keys \subseteq keys'
  BY FlowStep, DbEvolves DEF FlowInv, Evolves
<1>2. CASE EndTrade(p)
  BY <1>1, <1>2 DEF EndTrade, Cancels, Ends, Returning, CloseOps, CallOK
<1>3. CASE CancelStale(p)
  BY <1>3, EnterKeys DEF CancelStale, Cancels, CancelTradeAndReleaseEscrow, dbVars
<1> QED
  BY <1>2, <1>3, CancelsAtEnd

(* A crypto trade that force-cancel or its timeout cancels has had its      *)
(* escrow returned, whatever ran or was cut short in between.               *)
THEOREM CancellingReturnsEscrow == Spec => CancelReturnsEscrow
<1>1. FlowInv /\ [Next]_vars =>
        [\A p \in Slots :
           LET t == calls[p].trade
           IN Cancels(p, {"force_cancel", "cancel_stale"}) /\ Direction[t] = "CRYPTO"
                => ReleaseKey(t, "CANCEL") \in keys']_vars
  BY CancelledReturned
<1> QED
  BY <1>1, FlowInvHolds, PTL DEF Spec, CancelReturnsEscrow
-----------------------------------------------------------------------------
(* Collateral of cancelled trades                                           *)

\* What force-cancel read stays so, and it cancels what it has returned.
CancelCall(p) ==
  LET c == calls[p]
      t == c.trade
  IN /\ c.op = "claim" => Direction[t] = "FIAT_TO_FIAT"
     /\ c.op = "force_cancel" =>
          /\ status[t] \in Disputed
          /\ c.coll = collateral[t]
          /\ c.at = "end" /\ Direction[t] = "FIAT_TO_FIAT" /\ c.coll # NoAsset
               => FreeKey(t, "CANCEL") \in keys

CryptoUnlocked == \A t \in Trades : Direction[t] = "CRYPTO" => collateral[t] = NoAsset

CollateralInv == /\ FlowInv
                 /\ \A p \in Slots : CancelCall(p)
                 /\ CryptoUnlocked

\* What the calls' steps make of the call.
LEMMA GotoIs ==
  ASSUME FlowInv, NEW p \in Slots, NEW at, Goto(p, at)
  PROVE  /\ \A q \in Slots \ {p} : calls'[q] = calls[q]
         /\ calls'[p].op = calls[p].op /\ calls'[p].trade = calls[p].trade /\ calls'[p].at = at
         /\ calls'[p].exch = calls[p].exch /\ calls'[p].coll = calls[p].coll
<1>1. calls[p] \in CallRecords
  BY DEF FlowInv, FlowShape
<1>2. calls'[p] = [calls[p] EXCEPT !.at = at] /\ \A q \in Slots \ {p} : calls'[q] = calls[q]
  BY SlotSet DEF Goto, FlowInv
<1> QED
  BY <1>1, <1>2 DEF CallRecords

LEMMA ReturnIs ==
  ASSUME FlowInv, NEW p \in Slots, Return(p)
  PROVE  /\ \A q \in Slots \ {p} : calls'[q] = calls[q]
         /\ calls'[p] = NoCall
BY SlotSet DEF Return, FlowInv

LEMMA StartIs ==
  ASSUME FlowInv, NEW p \in Slots, NEW op, NEW t, NEW at, Start(p, op, t, at)
  PROVE  /\ \A q \in Slots \ {p} : calls'[q] = calls[q]
         /\ calls'[p].op = op /\ calls'[p].trade = t /\ calls'[p].at = at
         /\ calls'[p].exch = owner[t] /\ calls'[p].coll = collateral[t]
         /\ UNCHANGED dbVars /\ calls[p] = NoCall
<1>1. calls'[p] = Call(op, t, at) /\ \A q \in Slots \ {p} : calls'[q] = calls[q]
  BY SlotSet DEF Start, FlowInv
<1> QED
  BY <1>1 DEF Start, Call, Free

\* Collateral is locked for a trade that is CLAIMED, and for fiat-to-fiat trades only.
LockedWhenClaimed ==
  \A t \in Trades : collateral'[t] # collateral[t] => status[t] = "CLAIMED" /\ Direction[t] = "FIAT_TO_FIAT"

LEMMA CollateralMove ==
  ASSUME CollateralInv, FlowInv', Evolves, LockedWhenClaimed,
         NEW P \in SUBSET Slots, \A q \in Slots \ P : calls'[q] = calls[q],
         \A p \in P : CancelCall(p)'
  PROVE  CollateralInv'
<1>1. FlowInv' /\ Evolves
  OBVIOUS
<1>2. ASSUME NEW q \in Slots \ P PROVE CancelCall(q)'
  <2>1. CancelCall(q) /\ calls'[q] = calls[q]
    BY DEF CollateralInv
  <2>2. calls[q].op = "force_cancel" => calls[q].trade \in Trades
    BY DEF CollateralInv, FlowInv, CallOK
  <2>3. "CLAIMED" \notin Disputed
    BY DEF Disputed
  <2> QED
    BY <1>1, <2>1, <2>2, <2>3 DEF CancelCall, Evolves, LockedWhenClaimed
<1>3. CryptoUnlocked'
  BY DEF CollateralInv, CryptoUnlocked, LockedWhenClaimed
<1> QED
  BY <1>1, <1>2, <1>3 DEF CollateralInv

LEMMA CollateralEvolves == ASSUME CollateralInv, [Next]_vars PROVE FlowInv' /\ Evolves
BY FlowStep, DbEvolves DEF CollateralInv, FlowInv

\* The same for a step of one call, or of none.
LEMMA OneCallMoves ==
  ASSUME CollateralInv, [Next]_vars, LockedWhenClaimed,
         NEW p \in Slots, \A q \in Slots \ {p} : calls'[q] = calls[q], CancelCall(p)'
  PROVE  CollateralInv'
<1> DEFINE P == {p}
<1>1. P \in SUBSET Slots /\ \A q \in P : q = p
  OBVIOUS
<1>2. \A q \in Slots \ P : calls'[q] = calls[q]
  OBVIOUS
<1>3. \A q \in P : CancelCall(q)'
  BY <1>1
<1> HIDE DEF P
<1> QED
  BY <1>1, <1>2, <1>3, CollateralMove, CollateralEvolves

LEMMA NoCallMoves ==
  ASSUME CollateralInv, [Next]_vars, LockedWhenClaimed, UNCHANGED calls
  PROVE  CollateralInv'
<1> DEFINE P == {}
<1>1. P \in SUBSET Slots /\ \A q \in P : FALSE
  OBVIOUS
<1> HIDE DEF P
<1> QED
  BY <1>1, CollateralMove, CollateralEvolves

LEMMA OneStepKeepsCollateral ==
  ASSUME NEW t \in Trades, OneStep(t) PROVE UNCHANGED <<calls, collateral>>
BY DEF OneStep, HandleClaim, Claim, ClaimTradeWithEscrow, HandleFiatSent, HandleDispute,
       HandleReleaseInternal, HandleExternalPaymentNotReceived, DashboardForce, Transition,
       flowVars, dbVars

LEMMA BeginKeepsCollateral ==
  ASSUME CollateralInv, NEW p \in Slots, NEW t \in Trades, Begin(p, t)
  PROVE  /\ UNCHANGED collateral
         /\ \A q \in Slots \ {p} : calls'[q] = calls[q]
         /\ CancelCall(p)'
<1> USE DEF CollateralInv
<1>1. ASSUME NEW e \in Exchangers, BeginF2FClaim(p, t, e)
      PROVE  /\ UNCHANGED collateral
             /\ \A q \in Slots \ {p} : calls'[q] = calls[q]
             /\ CancelCall(p)'
  <2> DEFINE c == [Call("claim", t, "choose") EXCEPT !.exch = e]
  <2>1. /\ Direction[t] = "FIAT_TO_FIAT" /\ TransitionToClaimed(t, e)
        /\ calls' = [calls EXCEPT ![p] = c]
    BY <1>1 DEF BeginF2FClaim, Claim
  <2>2. c.op = "claim" /\ c.trade = t
    BY DEF Call
  <2> HIDE DEF c
  <2>3. calls'[p] = c /\ \A q \in Slots \ {p} : calls'[q] = calls[q]
    BY <2>1, SlotSet DEF FlowInv
  <2>4. CancelCall(p)'
    BY <2>1, <2>2, <2>3 DEF CancelCall, CloseOps
  <2> QED
    BY <2>1, <2>3, <2>4 DEF TransitionToClaimed
<1>2. ASSUME NEW op \in {"pay", "external"}, NEW at, calls' = [calls EXCEPT ![p] = Call(op, t, at)],
             SetStatus(t, "RELEASE_PENDING"), UNCHANGED collateral
      PROVE  /\ UNCHANGED collateral
             /\ \A q \in Slots \ {p} : calls'[q] = calls[q]
             /\ CancelCall(p)'
  <2>1. calls'[p] = Call(op, t, at) /\ \A q \in Slots \ {p} : calls'[q] = calls[q]
    BY <1>2, SlotSet DEF FlowInv
  <2>2. calls'[p].op = op
    BY <2>1 DEF Call
  <2>3. CancelCall(p)'
    BY <2>2 DEF CancelCall, CloseOps
  <2> QED
    BY <1>2, <2>1, <2>3
<1>3. ASSUME NEW op, NEW at, Start(p, op, t, at), op # "claim",
             op = "force_cancel" => status[t] = "DISPUTED" /\ at = "return"
      PROVE  /\ UNCHANGED collateral
             /\ \A q \in Slots \ {p} : calls'[q] = calls[q]
             /\ CancelCall(p)'
  <2>1. UNCHANGED <<status, collateral, keys>>
    BY <1>3 DEF Start, dbVars
  <2>2. CancelCall(p)'
    BY <1>3, <2>1, StartIs DEF CancelCall, Disputed
  <2> QED
    BY <1>3, <2>1, <2>2, StartIs
<1>4. CASE HandleWalletAddressSubmit(p, t)
  BY <1>2, <1>4 DEF HandleWalletAddressSubmit, TransitionWithWallet
<1>5. CASE HandleReleaseExternal(p, t)
  BY <1>2, <1>5 DEF HandleReleaseExternal, Transition
<1>6. CASE HandleExternalPaymentReceived(p, t)
  BY <1>3, <1>6 DEF HandleExternalPaymentReceived, CloseOps
<1>7. CASE HandleForceCancel(p, t)
  BY <1>3, <1>7 DEF HandleForceCancel, CloseOps
<1>8. CASE HandleForceRelease(p, t)
  BY <1>3, <1>8 DEF HandleForceRelease, CloseOps
<1>9. CASE \E how \in CloseOps : HandleCloseTicket(p, t, how)
  BY <1>3, <1>9 DEF HandleCloseTicket, CloseOps
<1>10. CASE SelectExpired(p, t)
  BY <1>3, <1>10 DEF SelectExpired, CloseOps
<1>11. CASE SelectStale(p, t)
  BY <1>3, <1>11 DEF SelectStale, CloseOps
<1> QED
  BY <1>1, <1>4, <1>5, <1>6, <1>7, <1>8, <1>9, <1>10, <1>11 DEF Begin

\* The next await of a call, or its end.
LEMMA ContinueKeepsCollateral ==
  ASSUME CollateralInv, [Next]_vars, NEW p \in Slots, LockedWhenClaimed,
         \/ Return(p)
         \/ \E at : /\ Goto(p, at)
                    /\ calls[p].op = "force_cancel" => at # "end"
  PROVE  CollateralInv'
<1>1. /\ \A q \in Slots \ {p} : calls'[q] = calls[q]
      /\ CancelCall(p)'
  <2>1. CASE Return(p)
    BY <2>1, ReturnIs, NoCallFits DEF CollateralInv, CancelCall, CloseOps
  <2>2. ASSUME NEW at, Goto(p, at), calls[p].op = "force_cancel" => at # "end"
        PROVE  /\ \A q \in Slots \ {p} : calls'[q] = calls[q]
               /\ CancelCall(p)'
    <3>1. CancelCall(p) /\ Evolves
      BY FlowStep, DbEvolves DEF CollateralInv, FlowInv
    <3>2. /\ \A q \in Slots \ {p} : calls'[q] = calls[q]
          /\ calls'[p].op = calls[p].op /\ calls'[p].trade = calls[p].trade /\ calls'[p].at = at
          /\ calls'[p].exch = calls[p].exch /\ calls'[p].coll = calls[p].coll
      BY <2>2, GotoIs DEF CollateralInv
    <3>3. calls[p].op = "force_cancel" =>
            /\ calls[p].trade \in Trades
            /\ status'[calls[p].trade] \in Disputed
            /\ collateral'[calls[p].trade] = collateral[calls[p].trade]
      BY <3>1 DEF CancelCall, CollateralInv, FlowInv, CallOK, Evolves, Disputed, LockedWhenClaimed
    <3> QED
      BY <2>2, <3>1, <3>2, <3>3 DEF CancelCall
  <2> QED
    BY <2>1, <2>2
<1> QED
  BY <1>1, OneCallMoves

LEMMA NothingLocked ==
  UNCHANGED dbVars => LockedWhenClaimed
BY DEF dbVars, LockedWhenClaimed

LEMMA ThrowKeepsCollateral ==
  ASSUME CollateralInv, [Next]_vars, NEW p \in Slots, Throw(p) PROVE CollateralInv'
BY ContinueKeepsCollateral, NothingLocked DEF Throw

LEMMA ClaimKeepsCollateral ==
  ASSUME CollateralInv, [Next]_vars, NEW p \in Slots,
         ChooseCollateral(p) \/ LockChosen(p) \/ AwaitFiat(p)
  PROVE  CollateralInv'
<1>1. calls[p].op = "claim" /\ CancelCall(p) /\ calls[p].trade \in Trades /\ CallOK(p)
  BY DEF ChooseCollateral, LockChosen, AwaitFiat, Running, CollateralInv, FlowInv, CallOK
<1>2. CASE ChooseCollateral(p)
  <2>1. UNCHANGED dbVars
    BY <1>2 DEF ChooseCollateral
  <2>2. \A q \in Slots \ {p} : calls'[q] = calls[q]
    <3>1. calls \in [Slots -> CallRecords]
      BY DEF CollateralInv, FlowInv, FlowShape
    <3> QED
      BY <1>2, <3>1 DEF ChooseCollateral
  <2>3. calls'[p] = NoCall \/ (calls'[p].op = "claim" /\ calls'[p].trade = calls[p].trade)
    <3>1. calls \in [Slots -> CallRecords]
      BY DEF CollateralInv, FlowInv, FlowShape
    <3> QED
      BY <1>1, <1>2, <3>1 DEF ChooseCollateral, CallRecords
  <2>4. CancelCall(p)'
    BY <1>1, <2>3, NoCallFits DEF CancelCall, CloseOps
  <2> QED
    BY <2>1, <2>2, <2>4, NothingLocked, OneCallMoves
<1>3. CASE LockChosen(p)
  <2>1. CASE Throw(p)
    BY <2>1, ThrowKeepsCollateral
  <2>2. CASE LockCollateral(calls[p].trade, calls[p].exch, calls[p].coll) /\ Goto(p, "pending")
    <3>1. /\ status[calls[p].trade] = "CLAIMED" /\ UNCHANGED status
          /\ collateral' = [collateral EXCEPT ![calls[p].trade] = calls[p].coll]
      BY <2>2 DEF LockCollateral, CanLockCollateral
    <3>2. LockedWhenClaimed
      BY <1>1, <3>1 DEF CancelCall, LockedWhenClaimed, CollateralInv, FlowInv,
                        DbInv, DbTypeOK
    <3> QED
      BY <1>1, <2>2, <3>2, ContinueKeepsCollateral
  <2> QED
    BY <1>3, <2>1, <2>2 DEF LockChosen
<1>4. CASE AwaitFiat(p)
  <2>1. CASE Throw(p)
    BY <2>1, ThrowKeepsCollateral
  <2>2. CASE Transition(calls[p].trade, "FIAT_PENDING") /\ Return(p)
    <3>1. LockedWhenClaimed
      BY <1>1, <2>2 DEF Transition, CollateralInv, LockedWhenClaimed
    <3> QED
      BY <2>2, <3>1, ContinueKeepsCollateral
  <2> QED
    BY <1>4, <2>1, <2>2 DEF AwaitFiat
<1> QED
  BY <1>2, <1>3, <1>4

LEMMA PayKeepsCollateral ==
  ASSUME CollateralInv, [Next]_vars, NEW p \in Slots,
         CheckPayment(p) \/ QueueWithdrawal(p) \/ PostExternalCheck(p)
  PROVE  CollateralInv'
<1>1. calls[p].op \in {"pay", "external"} /\ UNCHANGED dbVars
  BY DEF CheckPayment, QueueWithdrawal, PostExternalCheck, Running, Skip, Throw
<1>2. CASE Throw(p)
  BY <1>2, ThrowKeepsCollateral
<1>3. CASE Skip(p, "queue")
  BY <1>1, <1>3, ContinueKeepsCollateral, NothingLocked DEF Skip
<1>4. CASE calls' = [calls EXCEPT ![p] = NoCall]
  <2>1. calls'[p] = NoCall /\ \A q \in Slots \ {p} : calls'[q] = calls[q]
    BY <1>4, SlotSet DEF CollateralInv, FlowInv
  <2>2. CancelCall(p)'
    BY <2>1, NoCallFits DEF CancelCall, CloseOps
  <2> QED
    BY <1>1, <2>1, <2>2, NothingLocked, OneCallMoves
<1> QED
  BY <1>2, <1>3, <1>4 DEF CheckPayment, QueueWithdrawal, PostExternalCheck

\* Force-cancel goes on to cancel once it has returned the collateral it read.
LEMMA ReturnKeepsCollateral ==
  ASSUME CollateralInv, [Next]_vars, NEW p \in Slots, ReturnFunds(p)
  PROVE  CollateralInv'
<1> DEFINE c == calls[p]
           t == calls[p].trade
           e == calls[p].exch
<1>1. c.op \in Returning /\ c.at = "return" /\ CallOK(p) /\ CancelCall(p)
  BY DEF CollateralInv, FlowInv, ReturnFunds
<1>2. t \in Trades /\ (c.op = "force_cancel" => e # NoExchanger)
  BY <1>1 DEF CallOK, Returning, CloseOps
<1>3. UNCHANGED <<status, collateral>>
  BY DEF ReturnFunds, ReturnFails, Skip, Throw, dbVars, ReleaseCollateral, ReleaseEscrow
<1>4. LockedWhenClaimed
  BY <1>3 DEF LockedWhenClaimed
<1>5. CASE Throw(p)
  BY <1>5, ThrowKeepsCollateral
<1>6. ASSUME Goto(p, "end"),
             c.op = "force_cancel" /\ Direction[t] = "FIAT_TO_FIAT" /\ c.coll # NoAsset
               => FreeKey(t, "CANCEL") \in keys'
      PROVE  CollateralInv'
  <2>1. /\ \A q \in Slots \ {p} : calls'[q] = calls[q]
        /\ calls'[p].op = c.op /\ calls'[p].trade = t /\ calls'[p].coll = c.coll
    BY <1>6, GotoIs DEF CollateralInv
  <2>2. CancelCall(p)'
    BY <1>1, <1>3, <1>6, <2>1 DEF CancelCall
  <2> QED
    BY <1>4, <2>1, <2>2, OneCallMoves
<1>7. CASE e = NoExchanger
  BY <1>2, <1>6, <1>7 DEF ReturnFunds, Skip
<1>8. CASE e # NoExchanger /\ Direction[t] = "FIAT_TO_FIAT" /\ c.coll # NoAsset
  <2>1. CASE ReleaseCollateral(t, e, c.coll, CollateralReason(c.op)) /\ Goto(p, "end")
    <3>1. FreeKey(t, CollateralReason(c.op)) \in keys'
      BY <2>1, EnterKeys DEF ReleaseCollateral
    <3> QED
      BY <1>6, <2>1, <3>1 DEF CollateralReason
  <2>2. CASE ReturnFails(p)
    BY <1>5, <1>6, <2>2 DEF ReturnFails, Skip, CloseOps
  <2> QED
    BY <1>8, <2>1, <2>2 DEF ReturnFunds
<1>9. CASE e # NoExchanger /\ ~(Direction[t] = "FIAT_TO_FIAT" /\ c.coll # NoAsset)
  <2>1. CASE ReturnFails(p)
    BY <1>5, <1>6, <2>1 DEF ReturnFails, Skip, CloseOps
  <2>2. CASE Goto(p, "end")
    BY <1>6, <1>9, <2>2
  <2> QED
    BY <1>9, <2>1, <2>2 DEF ReturnFunds, Skip
<1> QED
  BY <1>7, <1>8, <1>9

LEMMA EndKeepsCollateral ==
  ASSUME CollateralInv, [Next]_vars, NEW p \in Slots, EndTrade(p)
  PROVE  CollateralInv'
<1> DEFINE t == calls[p].trade
           to == Outcome(calls[p].op)
<1>1. /\ calls[p].op \in Returning /\ calls[p].at = "end" /\ CallOK(p) /\ CancelCall(p)
      /\ t \in Trades
  BY DEF CollateralInv, FlowInv, EndTrade, CallOK, Returning, CloseOps
<1>2. CASE Throw(p)
  BY <1>2, ThrowKeepsCollateral
<1>3. CASE Transition(t, to) /\ (Goto(p, "settle") \/ Return(p))
  <2>1. LockedWhenClaimed
    BY <1>3 DEF Transition, LockedWhenClaimed
  <2> QED
    BY <1>1, <1>3, <2>1, ContinueKeepsCollateral DEF Outcome
<1> QED
  BY <1>2, <1>3 DEF EndTrade

LEMMA OthersKeepCollateral ==
  ASSUME CollateralInv, [Next]_vars, NEW p \in Slots,
         Settle(p) \/ ApproveRelease(p) \/ ExpireOpen(p) \/ CancelStale(p)
  PROVE  CollateralInv'
<1> DEFINE t == calls[p].trade
<1>1. CallOK(p) /\ CancelCall(p) /\ t \in Trades
  BY DEF CollateralInv, FlowInv, CallOK, Settle, ApproveRelease, ExpireOpen, CancelStale, Running,
         Returning, CloseOps
<1>2. CASE Settle(p)
  <2>1. UNCHANGED <<status, collateral>> /\ Return(p)
    BY <1>2 DEF Settle, SettleTradeProfit, dbVars
  <2>2. LockedWhenClaimed
    BY <2>1 DEF LockedWhenClaimed
  <2> QED
    BY <2>1, <2>2, ContinueKeepsCollateral
<1>3. CASE ApproveRelease(p)
  <2>1. UNCHANGED dbVars /\ Throw(p)
    BY <1>1, <1>3 DEF ApproveRelease, CallOK, IsTransitionAllowed, Allowed, Disputed, Running, Throw
  <2> QED
    BY <2>1, ThrowKeepsCollateral
<1>4. CASE ExpireOpen(p)
  <2>1. Return(p) /\ (UNCHANGED dbVars \/ Transition(t, "EXPIRED"))
    BY <1>4 DEF ExpireOpen
  <2>2. LockedWhenClaimed
    BY <1>1, <2>1, NothingLocked DEF Transition, LockedWhenClaimed, CollateralInv
  <2> QED
    BY <2>1, <2>2, ContinueKeepsCollateral
<1>5. CASE CancelStale(p)
  <2>1. Return(p) /\ UNCHANGED collateral
    BY <1>5 DEF CancelStale, CancelTradeAndReleaseEscrow, dbVars
  <2>2. LockedWhenClaimed
    BY <2>1 DEF LockedWhenClaimed
  <2> QED
    BY <2>1, <2>2, ContinueKeepsCollateral
<1> QED
  BY <1>2, <1>3, <1>4, <1>5

LEMMA CollateralStep ==
  ASSUME CollateralInv, [Next]_vars PROVE CollateralInv'
<1>1. ASSUME NEW t \in Trades, OneStep(t) PROVE CollateralInv'
  <2>1. UNCHANGED <<calls, collateral>>
    BY <1>1, OneStepKeepsCollateral
  <2>2. LockedWhenClaimed
    BY <2>1 DEF LockedWhenClaimed
  <2> QED
    BY <2>1, <2>2, NoCallMoves
<1>2. ASSUME NEW t \in Trades, NEW p \in Slots, Begin(p, t) PROVE CollateralInv'
  <2>1. /\ UNCHANGED collateral
        /\ \A q \in Slots \ {p} : calls'[q] = calls[q]
        /\ CancelCall(p)'
    BY <1>2, BeginKeepsCollateral
  <2>2. LockedWhenClaimed
    BY <2>1 DEF LockedWhenClaimed
  <2> QED
    BY <2>1, <2>2, OneCallMoves
<1>3. ASSUME NEW p \in Slots, Continue(p) PROVE CollateralInv'
  BY <1>3, ClaimKeepsCollateral, PayKeepsCollateral, ReturnKeepsCollateral, EndKeepsCollateral,
     OthersKeepCollateral DEF Continue
<1>4. ASSUME NEW p \in Slots, Abandon(p) PROVE CollateralInv'
  BY <1>4, ThrowKeepsCollateral DEF Abandon
<1>5. CASE UNCHANGED vars
  <2>1. UNCHANGED calls /\ UNCHANGED dbVars
    BY <1>5 DEF vars, flowVars
  <2> QED
    BY <2>1, NothingLocked, NoCallMoves
<1> QED
  BY <1>1, <1>2, <1>3, <1>4, <1>5 DEF Next

LEMMA CollateralInit == Init => CollateralInv
<1> SUFFICES ASSUME Init PROVE CollateralInv
  OBVIOUS
<1>1. \A p \in Slots : calls[p] = NoCall
  BY DEF Init
<1>2. \A p \in Slots : CancelCall(p)
  BY <1>1, NoCallFits DEF CancelCall, CloseOps
<1> QED
  BY <1>2, FlowInit DEF Init, DbInit, CollateralInv, CryptoUnlocked

LEMMA CollateralInvHolds == Spec => []CollateralInv
<1>1. CollateralInv /\ [Next]_vars => CollateralInv'
  BY CollateralStep
<1> QED
  BY <1>1, CollateralInit, PTL DEF Spec

LEMMA CancelledFree ==
  ASSUME CollateralInv, Next, NEW p \in Slots, Cancels(p, {"force_cancel"}),
         WithCollateral(calls[p].trade)
  PROVE  FreeKey(calls[p].trade, "CANCEL") \in keys'
<1>1. CancelCall(p) /\ keys \subseteq keys' /\ calls[p].op = "force_cancel"
  BY FlowStep, DbEvolves DEF CollateralInv, FlowInv, Evolves, Cancels, Ends
<1>2. Cancels(p, {"force_cancel", "cancel_stale"})
  BY DEF Cancels, Ends
<1>3. EndTrade(p)
  BY <1>1, <1>2, CancelsAtEnd DEF CollateralInv, CancelStale, Running
<1> QED
  BY <1>1, <1>3 DEF EndTrade, CancelCall, WithCollateral

(* "The collateral is held until the trade completes or is cancelled": what *)
(* force-cancel cancels has had its collateral returned, whatever runs      *)
(* beside it (timeouts, close-ticket and the dashboard too, which do not    *)
(* return it) and wherever handlers are cut short.                          *)
THEOREM CollateralReturned == Spec => CancelReturnsCollateral
<1>1. CollateralInv /\ [Next]_vars =>
        [\A p \in Slots :
           LET t == calls[p].trade
           IN Cancels(p, {"force_cancel"}) /\ WithCollateral(t)
                => FreeKey(t, "CANCEL") \in keys']_vars
  BY CancelledFree
<1> QED
  BY <1>1, CollateralInvHolds, PTL DEF Spec, CancelReturnsCollateral

-----------------------------------------------------------------------------
(* One handler at a time: what is released, and what the escrow holds       *)

\* Trades are not closed by the ticket or the dashboard, and only crypto trades
\* time out.
Undirected == /\ {"close", "dashboard"} \cap Ops = {}
              /\ \A t \in Overdue : Direction[t] = "CRYPTO"

Serial == Undirected /\ ~Failures /\ \A p, q \in Slots : p = q

\* Then no call closes, and a timeout cancels crypto trades only.
DirectCall(p) == /\ calls[p].op \notin CloseOps
                 /\ calls[p].op = "cancel_stale" => Direction[calls[p].trade] = "CRYPTO"

LEMMA DirectStep ==
  ASSUME CollateralInv, Undirected, [Next]_vars, NEW p \in Slots, DirectCall(p) PROVE DirectCall(p)'
<1>1. CASE calls'[p] = calls[p]
  BY <1>1 DEF DirectCall
<1>2. CASE calls'[p].op \in {"none", "claim", "pay", "external"}
  BY <1>2 DEF DirectCall, CloseOps
<1>3. CASE calls'[p].op = calls[p].op /\ calls'[p].trade = calls[p].trade
  BY <1>3 DEF DirectCall
<1>4. ASSUME NEW c, calls' = [calls EXCEPT ![p] = c], c.op \in {"none", "claim", "pay", "external"}
      PROVE  calls'[p].op \in {"none", "claim", "pay", "external"}
  BY <1>4, SlotSet DEF CollateralInv, FlowInv
<1>5. ASSUME NEW t \in Trades, Begin(p, t) PROVE DirectCall(p)'
  <2>1. ASSUME NEW e \in Exchangers, BeginF2FClaim(p, t, e) PROVE DirectCall(p)'
    <3> DEFINE c == [Call("claim", t, "choose") EXCEPT !.exch = e]
    <3>1. c.op = "claim" /\ calls' = [calls EXCEPT ![p] = c]
      BY <2>1 DEF BeginF2FClaim, Call
    <3> HIDE DEF c
    <3> QED
      BY <1>2, <1>4, <3>1
  <2>2. CASE HandleWalletAddressSubmit(p, t) \/ HandleReleaseExternal(p, t)
    BY <1>2, <1>4, <2>2 DEF HandleWalletAddressSubmit, HandleReleaseExternal, Call
  <2>3. ASSUME NEW op, NEW at, Start(p, op, t, at), op \notin CloseOps,
               op = "cancel_stale" => Direction[t] = "CRYPTO"
        PROVE  DirectCall(p)'
    BY <2>3, StartIs DEF DirectCall, CollateralInv
  <2>4. ~ \E how \in CloseOps : HandleCloseTicket(p, t, how)
    BY DEF HandleCloseTicket, Undirected
  <2> QED
    BY <1>5, <2>1, <2>2, <2>3, <2>4
       DEF Begin, HandleExternalPaymentReceived, HandleForceCancel, HandleForceRelease,
           SelectExpired, SelectStale, CloseOps, Undirected
<1>6. CASE Continue(p) \/ Abandon(p)
  <2>1. ASSUME NEW at, Goto(p, at) PROVE DirectCall(p)'
    BY <1>3, <2>1, GotoIs DEF CollateralInv
  <2>2. CASE Return(p)
    BY <1>2, <2>2, ReturnIs, NoCallFits DEF CollateralInv
  <2>3. CASE QueueWithdrawal(p) \/ PostExternalCheck(p)
    BY <1>2, <1>4, <2>3, NoCallFits DEF QueueWithdrawal, PostExternalCheck
  <2>4. CASE ChooseCollateral(p)
    <3>1. calls \in [Slots -> CallRecords] /\ calls[p].op = "claim"
      BY <2>4 DEF CollateralInv, FlowInv, FlowShape, ChooseCollateral, Running
    <3>2. calls'[p] = NoCall \/ calls'[p].op = "claim"
      BY <2>4, <3>1 DEF ChooseCollateral, CallRecords
    <3> QED
      BY <1>2, <3>2, NoCallFits
  <2>5. CASE ApproveRelease(p)
    <3>1. calls[p] \in CallRecords
      BY DEF CollateralInv, FlowInv, FlowShape
    <3>2. Throw(p) \/ calls'[p].op = "pay"
      BY <2>5, <3>1, SlotSet DEF ApproveRelease, CollateralInv, FlowInv, CallRecords
    <3> QED
      BY <1>2, <2>2, <3>2 DEF Throw
  <2> QED
    BY <1>6, <2>1, <2>2, <2>3, <2>4, <2>5
       DEF Continue, Abandon, Throw, Skip, LockChosen, AwaitFiat, CheckPayment, ReturnFunds, ReturnFails,
           EndTrade, Settle, ExpireOpen, CancelStale
<1>7. CASE Next
  <2>1. CASE UNCHANGED calls
    BY <1>1, <2>1
  <2>2. ASSUME NEW t \in Trades, OneStep(t) PROVE DirectCall(p)'
    BY <1>1, <2>2, OneStepKeepsCollateral
  <2>3. ASSUME NEW q \in Slots \ {p}, (\E t \in Trades : Begin(q, t)) \/ Continue(q) \/ Abandon(q)
        PROVE  DirectCall(p)'
    BY <1>1, <2>3, OthersStay DEF CollateralInv
  <2> QED
    BY <1>5, <1>6, <1>7, <2>2, <2>3 DEF Next
<1> QED
  BY <1>1, <1>7 DEF vars, flowVars

\* The handler of the trade has returned its funds, and not ended the trade yet.
Returned(t) == \E p \in Slots : /\ calls[p].op \in Returning
                                /\ calls[p].at = "end" /\ calls[p].trade = t

\* Collateral is locked once, and nothing of a trade under way was ever returned.
KeysFresh ==
  \A t \in Trades :
     /\ collateral[t] = NoAsset => \A a \in Assets : CollateralKey(t, a) \notin keys
     /\ status[t] \notin Terminal /\ ~Returned(t) =>
          /\ \A why \in EscrowReasons : ReleaseKey(t, why) \notin keys
          /\ \A why \in CollateralReasons : FreeKey(t, why) \notin keys

\* A fiat-to-fiat trade goes on from CLAIMED only with collateral.
Needs(t, s) == Direction[t] = "FIAT_TO_FIAT" /\ s \in Underway \ {"CLAIMED"}
CollateralFirst == \A t \in Trades : Needs(t, status[t]) => collateral[t] # NoAsset

\* Nothing moves under the one handler that runs.
SerialCall(p) ==
  LET c == calls[p]
      t == c.trade
  IN /\ c.op = "claim" /\ c.at = "pending" => collateral[t] # NoAsset
     /\ c.op = "expire" => status[t] = "OPEN"
     /\ c.op \in Returning /\ c.at \in {"return", "end"} =>
          /\ status[t] = IF c.op = "received" THEN "RELEASE_PENDING" ELSE "DISPUTED"
          /\ c.coll = collateral[t] /\ c.exch = owner[t]
          /\ c.op = "force_release" => Direction[t] = "FIAT_TO_FIAT"

OnceInv == /\ CollateralInv
           /\ \A p \in Slots : DirectCall(p) /\ SerialCall(p)
           /\ CollateralFirst
           /\ KeysFresh
           /\ ReleasedOnce

\* A call that is not at its last await has returned nothing.
LEMMA AtEndOnly ==
  ASSUME Serial, NEW p \in Slots, NEW t
  PROVE  /\ Returned(t) => calls[p].op \in Returning /\ calls[p].at = "end" /\ calls[p].trade = t
         /\ Returned(t)' => calls'[p].op \in Returning /\ calls'[p].at = "end" /\ calls'[p].trade = t
         /\ calls[p].op \in Returning /\ calls[p].at = "end" /\ calls[p].trade = t => Returned(t)
         /\ calls'[p].op \in Returning /\ calls'[p].at = "end" /\ calls'[p].trade = t => Returned(t)'
BY DEF Serial, Returned

\* No key of a release, nor of collateral, is new.
NewKeysApart == \A k \in keys' : k \in keys \/ k[1] \in {"escrow_lock", "PROFIT_ADMIN"}

LEMMA EnterApart ==
  ASSUME NEW k, NEW q, NEW kind, NEW n, Enter(k, q, kind, n), k[1] \in {"escrow_lock", "PROFIT_ADMIN"}
  PROVE  NewKeysApart
BY EnterKeys DEF NewKeysApart

LEMMA KeysStayFresh ==
  ASSUME KeysFresh, ReleasedOnce, UNCHANGED collateral, NewKeysApart,
         \A t \in Trades : status[t] \in Terminal \/ Returned(t) => status'[t] \in Terminal \/ Returned(t)'
  PROVE  KeysFresh' /\ ReleasedOnce'
<1>1. \A t, x : /\ CollateralKey(t, x) \in keys' => CollateralKey(t, x) \in keys
                /\ ReleaseKey(t, x) \in keys' => ReleaseKey(t, x) \in keys
                /\ FreeKey(t, x) \in keys' => FreeKey(t, x) \in keys
  BY DEF NewKeysApart, CollateralKey, ReleaseKey, FreeKey
<1>2. KeysFresh'
  <2> SUFFICES ASSUME NEW t \in Trades
               PROVE  /\ collateral'[t] = NoAsset => \A a \in Assets : CollateralKey(t, a) \notin keys'
                      /\ status'[t] \notin Terminal /\ ~Returned(t)' =>
                           /\ \A why \in EscrowReasons : ReleaseKey(t, why) \notin keys'
                           /\ \A why \in CollateralReasons : FreeKey(t, why) \notin keys'
    BY DEF KeysFresh, CollateralKey, ReleaseKey, FreeKey
  <2> QED
    BY <1>1 DEF KeysFresh
<1>3. ReleasedOnce'
  BY <1>1 DEF ReleasedOnce, ReleaseKey
<1> QED
  BY <1>2, <1>3

\* A trade takes another status.
LEMMA StatusMoves ==
  ASSUME OnceInv, NEW t \in Trades, NEW to, SetStatus(t, to), status[t] \notin Terminal,
         UNCHANGED collateral, NewKeysApart, Needs(t, to) => collateral[t] # NoAsset,
         \A u \in Trades : Returned(u) => status'[u] \in Terminal \/ Returned(u)'
  PROVE  CollateralFirst' /\ KeysFresh' /\ ReleasedOnce'
<1>1. status'[t] = to /\ \A u \in Trades \ {t} : status'[u] = status[u]
  BY DEF SetStatus, OnceInv, CollateralInv, FlowInv, DbInv, DbTypeOK
<1>2. CollateralFirst'
  BY <1>1 DEF OnceInv, CollateralFirst, Needs
<1>3. KeysFresh' /\ ReleasedOnce'
  BY <1>1, KeysStayFresh DEF OnceInv
<1> QED
  BY <1>2, <1>3

LEMMA NotEnded ==
  ASSUME NEW t, NEW to, IsTransitionAllowed(t, to)
  PROVE  status[t] \notin Terminal
BY DEF IsTransitionAllowed, Allowed, Terminal

\* An allowed transition to a status other than FIAT_PENDING.
LEMMA TransitionMoves ==
  ASSUME OnceInv, NEW t \in Trades, NEW to, IsTransitionAllowed(t, to), SetStatus(t, to),
         to # "FIAT_PENDING", UNCHANGED <<collateral, keys>>,
         \A u \in Trades : Returned(u) => status'[u] \in Terminal \/ Returned(u)'
  PROVE  CollateralFirst' /\ KeysFresh' /\ ReleasedOnce'
<1>1. status[t] \notin Terminal /\ NewKeysApart
  BY NotEnded DEF NewKeysApart
<1>2. Needs(t, to) => Needs(t, status[t])
  <2>1. status[t] \in Statuses
    BY DEF OnceInv, CollateralInv, FlowInv, DbInv, DbTypeOK
  <2> QED
    BY <2>1 DEF Needs, IsTransitionAllowed, Allowed, Underway, Statuses, Terminal
<1> QED
  BY <1>1, <1>2, StatusMoves DEF OnceInv, CollateralFirst

LEMMA NothingReturned ==
  ASSUME Serial, OnceInv, NEW p \in Slots, calls[p].at # "end" \/ calls[p].op \notin Returning
  PROVE  \A t : ~Returned(t)
BY AtEndOnly

LEMMA IdleReturnsNothing ==
  ASSUME Serial, IsFree PROVE \A t : ~Returned(t)
BY NoCallFits DEF IsFree, Free, Serial, Returned, Returning, CloseOps

\* Of a call that holds no funds in its hand there is nothing to remember.
LEMMA FreeSerialCall ==
  ASSUME NEW p, calls[p] = NoCall PROVE SerialCall(p)
BY NoCallFits DEF SerialCall, Returning, CloseOps

LEMMA ClaimMoves ==
  ASSUME OnceInv, NEW t \in Trades, NEW e \in Exchangers, Claim(t, e), \A u : ~Returned(u)
  PROVE  CollateralFirst' /\ KeysFresh' /\ ReleasedOnce'
<1>1. CASE Direction[t] = "FIAT_TO_FIAT"
  BY <1>1, TransitionMoves DEF Claim, TransitionToClaimed
<1>2. CASE Direction[t] # "FIAT_TO_FIAT"
  <2>1. ClaimTradeWithEscrow(t, e)
    BY <1>2 DEF Claim
  <2>2. NewKeysApart
    BY <2>1, EnterApart DEF ClaimTradeWithEscrow, LockKey
  <2>3. status[t] \notin Terminal
    BY <2>1 DEF ClaimTradeWithEscrow, Terminal
  <2> QED
    BY <1>2, <2>1, <2>2, <2>3, StatusMoves DEF ClaimTradeWithEscrow, Needs
<1> QED
  BY <1>1, <1>2

LEMMA OneStepOnce ==
  ASSUME OnceInv, Serial, [Next]_vars, NEW t \in Trades, OneStep(t)
  PROVE  OnceInv'
<1>1. CollateralInv' /\ UNCHANGED calls /\ \A p \in Slots : DirectCall(p)'
  BY CollateralStep, DirectStep, OneStepKeepsCollateral DEF OnceInv, Serial
<1>2. IsFree
  BY DEF OneStep, HandleClaim, HandleFiatSent, HandleDispute, HandleReleaseInternal,
         HandleExternalPaymentNotReceived, DashboardForce
<1>3. \A u : ~Returned(u)
  BY <1>2, IdleReturnsNothing
<1>4. \A p \in Slots : calls[p] = NoCall /\ SerialCall(p)'
  BY <1>1, <1>2, NoCallFits DEF IsFree, Free, Serial, SerialCall, Returning, CloseOps
<1>5. CollateralFirst' /\ KeysFresh' /\ ReleasedOnce'
  <2>1. ASSUME NEW to, Transition(t, to), to # "FIAT_PENDING"
        PROVE  CollateralFirst' /\ KeysFresh' /\ ReleasedOnce'
    BY <1>3, <2>1, TransitionMoves DEF Transition
  <2>2. ASSUME NEW e \in Exchangers, HandleClaim(t, e)
        PROVE  CollateralFirst' /\ KeysFresh' /\ ReleasedOnce'
    BY <1>3, <2>2, ClaimMoves DEF HandleClaim
  <2>3. CASE HandleReleaseInternal(t)
    <3>1. UNCHANGED dbVars
      BY <2>3 DEF HandleReleaseInternal
    <3>2. UNCHANGED <<status, collateral, keys>> /\ NewKeysApart
      BY <3>1 DEF dbVars, NewKeysApart
    <3>3. CollateralFirst'
      BY <3>2 DEF OnceInv, CollateralFirst
    <3> QED
      BY <1>3, <3>2, <3>3, KeysStayFresh DEF OnceInv
  <2>4. ~DashboardForce(t)
    BY DEF DashboardForce, Serial, Undirected
  <2> QED
    BY <2>1, <2>2, <2>3, <2>4
       DEF OneStep, HandleFiatSent, HandleDispute, HandleExternalPaymentNotReceived
<1> QED
  BY <1>1, <1>4, <1>5 DEF OnceInv

LEMMA BeginOnce ==
  ASSUME OnceInv, Serial, [Next]_vars, NEW p \in Slots, NEW t \in Trades, Begin(p, t)
  PROVE  OnceInv'
<1> USE DEF OnceInv, CollateralInv
<1>1. CollateralInv' /\ \A q \in Slots : DirectCall(q)'
  BY CollateralStep, DirectStep DEF Serial
<1>2. Free(p)
  BY DEF Begin, BeginF2FClaim, HandleWalletAddressSubmit, HandleReleaseExternal,
         HandleExternalPaymentReceived, HandleForceCancel, HandleForceRelease,
         HandleCloseTicket, SelectExpired, SelectStale, Start
<1>3. \A u : ~Returned(u)
  BY <1>2, IdleReturnsNothing DEF IsFree
<1>4. ASSUME SerialCall(p)', CollateralFirst', KeysFresh', ReleasedOnce' PROVE OnceInv'
  BY <1>1, <1>4 DEF Serial
<1>5. ASSUME NEW c, calls' = [calls EXCEPT ![p] = c], c.op \in {"claim", "pay", "external"},
             c.at \in {"choose", "check", "post"}
      PROVE  SerialCall(p)'
  <2>1. calls'[p] = c
    BY <1>5, SlotSet DEF FlowInv
  <2> QED
    BY <1>5, <2>1 DEF SerialCall, Returning, CloseOps
<1>6. ASSUME NEW e \in Exchangers, BeginF2FClaim(p, t, e) PROVE OnceInv'
  <2> DEFINE c == [Call("claim", t, "choose") EXCEPT !.exch = e]
  <2>1. c.op = "claim" /\ c.at = "choose"
    BY DEF Call
  <2>2. calls' = [calls EXCEPT ![p] = c] /\ Claim(t, e)
    BY <1>6 DEF BeginF2FClaim
  <2> HIDE DEF c
  <2>3. SerialCall(p)'
    BY <1>5, <2>1, <2>2
  <2> QED
    BY <1>3, <1>4, <2>2, <2>3, ClaimMoves
<1>7. ASSUME NEW op \in {"pay", "external"}, NEW at \in {"check", "post"},
             calls' = [calls EXCEPT ![p] = Call(op, t, at)],
             IsTransitionAllowed(t, "RELEASE_PENDING"), SetStatus(t, "RELEASE_PENDING"),
             UNCHANGED <<collateral, keys>>
      PROVE  OnceInv'
  <2>1. Call(op, t, at).op = op /\ Call(op, t, at).at = at
    BY DEF Call
  <2>2. SerialCall(p)'
    BY <1>5, <1>7, <2>1
  <2> QED
    BY <1>3, <1>4, <1>7, <2>2, TransitionMoves
<1>8. ASSUME NEW op, NEW at, Start(p, op, t, at), op # "claim",
             op = "expire" => status[t] = "OPEN",
             op \in Returning => status[t] = IF op = "received" THEN "RELEASE_PENDING" ELSE "DISPUTED",
             op = "force_release" => Direction[t] = "FIAT_TO_FIAT" \/ at = "approve"
      PROVE  OnceInv'
  <2>1. UNCHANGED <<status, collateral, keys, owner>> /\ NewKeysApart
    BY <1>8 DEF Start, dbVars, NewKeysApart
  <2>2. SerialCall(p)'
    BY <1>8, <2>1, StartIs DEF SerialCall
  <2>3. CollateralFirst' /\ KeysFresh' /\ ReleasedOnce'
    <3>1. CollateralFirst'
      BY <2>1 DEF CollateralFirst
    <3> QED
      BY <1>3, <2>1, <3>1, KeysStayFresh
  <2> QED
    BY <1>4, <2>2, <2>3
<1>9. CASE HandleWalletAddressSubmit(p, t)
  BY <1>7, <1>9 DEF HandleWalletAddressSubmit, TransitionWithWallet
<1>10. CASE HandleReleaseExternal(p, t)
  BY <1>7, <1>10 DEF HandleReleaseExternal, Transition
<1>11. CASE HandleExternalPaymentReceived(p, t)
  BY <1>8, <1>11 DEF HandleExternalPaymentReceived
<1>12. CASE HandleForceCancel(p, t)
  BY <1>8, <1>12 DEF HandleForceCancel
<1>13. CASE HandleForceRelease(p, t)
  BY <1>8, <1>13 DEF HandleForceRelease
<1>14. ~ \E how \in CloseOps : HandleCloseTicket(p, t, how)
  BY DEF HandleCloseTicket, Serial, Undirected
<1>15. CASE SelectExpired(p, t)
  BY <1>8, <1>15 DEF SelectExpired, Returning, CloseOps
<1>16. CASE SelectStale(p, t)
  BY <1>8, <1>16 DEF SelectStale, Returning, CloseOps
<1> QED
  BY <1>6, <1>9, <1>10, <1>11, <1>12, <1>13, <1>14, <1>15, <1>16 DEF Begin

\* The next await of the handler, or its end, where only a status may change.
LEMMA CallMovesOnce ==
  ASSUME OnceInv, Serial, [Next]_vars, NEW p \in Slots, SerialCall(p)',
         CollateralFirst', KeysFresh', ReleasedOnce'
  PROVE  OnceInv'
BY CollateralStep, DirectStep DEF OnceInv, Serial

LEMMA NothingMoves ==
  ASSUME OnceInv, UNCHANGED dbVars, \A u \in Trades : Returned(u) => Returned(u)'
  PROVE  CollateralFirst' /\ KeysFresh' /\ ReleasedOnce'
<1>1. UNCHANGED <<status, collateral, keys>> /\ NewKeysApart
  BY DEF dbVars, NewKeysApart
<1>2. CollateralFirst'
  BY <1>1 DEF OnceInv, CollateralFirst
<1> QED
  BY <1>1, <1>2, KeysStayFresh DEF OnceInv

LEMMA ThrowOnce ==
  ASSUME OnceInv, Serial, [Next]_vars, NEW p \in Slots, Throw(p),
         calls[p].at # "end" \/ calls[p].op \notin Returning
  PROVE  OnceInv'
<1>1. calls'[p] = NoCall /\ UNCHANGED dbVars
  BY ReturnIs DEF Throw, OnceInv, CollateralInv
<1>2. SerialCall(p)'
  BY <1>1, NoCallFits DEF SerialCall, Returning, CloseOps
<1>3. CollateralFirst' /\ KeysFresh' /\ ReleasedOnce'
  BY <1>1, NothingReturned, NothingMoves
<1> QED
  BY <1>2, <1>3, CallMovesOnce

LEMMA ClaimOnce ==
  ASSUME OnceInv, Serial, [Next]_vars, NEW p \in Slots,
         ChooseCollateral(p) \/ LockChosen(p) \/ AwaitFiat(p)
  PROVE  OnceInv'
<1> DEFINE t == calls[p].trade
           a == calls[p].coll
<1>1. /\ calls[p].op = "claim" /\ t \in Trades /\ CallOK(p) /\ SerialCall(p)
      /\ calls[p] \in CallRecords
  BY DEF ChooseCollateral, LockChosen, AwaitFiat, Running, OnceInv, CollateralInv, FlowInv, FlowShape,
         CallOK
<1>2. \A u : ~Returned(u)
  BY <1>1, NothingReturned DEF Returning, CloseOps
<1>3. CASE ChooseCollateral(p)
  <2>1. calls'[p] = NoCall \/ (calls'[p].op = "claim" /\ calls'[p].at = "lock")
    <3>1. calls \in [Slots -> CallRecords]
      BY DEF OnceInv, CollateralInv, FlowInv, FlowShape
    <3> QED
      BY <1>1, <1>3, <3>1 DEF ChooseCollateral, CallRecords
  <2>2. SerialCall(p)'
    BY <2>1, NoCallFits DEF SerialCall, Returning, CloseOps
  <2>3. UNCHANGED dbVars
    BY <1>3 DEF ChooseCollateral
  <2> QED
    BY <1>2, <2>2, <2>3, NothingMoves, CallMovesOnce
<1>4. CASE Throw(p)
  BY <1>1, <1>4, ThrowOnce DEF Returning, CloseOps
<1>5. CASE LockChosen(p) /\ LockCollateral(t, calls[p].exch, a) /\ Goto(p, "pending")
  <2>1. /\ UNCHANGED status
        /\ collateral' = [collateral EXCEPT ![t] = a]
        /\ keys' = keys \cup {CollateralKey(t, a)}
    BY <1>5, EnterKeys DEF LockCollateral
  <2>2. a \in Assets /\ a # NoAsset
    BY <1>1, <1>5, TradesOK DEF LockChosen, Running, CallOK
  <2>3. collateral'[t] = a /\ \A u \in Trades \ {t} : collateral'[u] = collateral[u]
    BY <1>1, <2>1 DEF OnceInv, CollateralInv, FlowInv, DbInv, DbTypeOK
  <2>4. SerialCall(p)'
    BY <1>1, <1>5, <2>2, <2>3, GotoIs DEF SerialCall, Returning, CloseOps, OnceInv, CollateralInv
  <2>5. CollateralFirst'
    BY <2>1, <2>2, <2>3 DEF OnceInv, CollateralFirst, Needs
  <2>6. /\ \A u, x : /\ CollateralKey(u, x) \in keys' => CollateralKey(u, x) \in keys \/ u = t
                     /\ ReleaseKey(u, x) \in keys' => ReleaseKey(u, x) \in keys
                     /\ FreeKey(u, x) \in keys' => FreeKey(u, x) \in keys
    BY <2>1 DEF CollateralKey, ReleaseKey, FreeKey
  <2>7. KeysFresh'
    <3> SUFFICES ASSUME NEW u \in Trades
                 PROVE  /\ collateral'[u] = NoAsset => \A b \in Assets : CollateralKey(u, b) \notin keys'
                        /\ status'[u] \notin Terminal /\ ~Returned(u)' =>
                             /\ \A why \in EscrowReasons : ReleaseKey(u, why) \notin keys'
                             /\ \A why \in CollateralReasons : FreeKey(u, why) \notin keys'
      BY DEF KeysFresh, CollateralKey, ReleaseKey, FreeKey
    <3> QED
      BY <1>2, <2>1, <2>2, <2>3, <2>6 DEF OnceInv, KeysFresh
  <2>8. ReleasedOnce'
    BY <2>6 DEF OnceInv, ReleasedOnce, ReleaseKey
  <2> QED
    BY <2>4, <2>5, <2>7, <2>8, CallMovesOnce
<1>6. CASE AwaitFiat(p) /\ Transition(t, "FIAT_PENDING") /\ Return(p)
  <2>1. calls'[p] = NoCall
    BY <1>6, ReturnIs DEF OnceInv, CollateralInv
  <2>2. SerialCall(p)'
    BY <2>1, NoCallFits DEF SerialCall, Returning, CloseOps
  <2>3. collateral[t] # NoAsset
    BY <1>1, <1>6 DEF AwaitFiat, Running, SerialCall
  <2>4. NewKeysApart
    BY <1>6 DEF Transition, NewKeysApart
  <2>5. CollateralFirst' /\ KeysFresh' /\ ReleasedOnce'
    BY <1>1, <1>2, <1>6, <2>3, <2>4, NotEnded, StatusMoves DEF Transition
  <2> QED
    BY <2>2, <2>5, CallMovesOnce
<1> QED
  BY <1>3, <1>4, <1>5, <1>6 DEF LockChosen, AwaitFiat

LEMMA PayOnce ==
  ASSUME OnceInv, Serial, [Next]_vars, NEW p \in Slots,
         CheckPayment(p) \/ QueueWithdrawal(p) \/ PostExternalCheck(p)
  PROVE  OnceInv'
<1>1. calls[p].op \in {"pay", "external"} /\ UNCHANGED dbVars
  BY DEF CheckPayment, QueueWithdrawal, PostExternalCheck, Running, Skip, Throw
<1>2. \A u : ~Returned(u)
  BY <1>1, NothingReturned DEF Returning, CloseOps
<1>3. calls'[p] = NoCall \/ calls'[p].op = calls[p].op
  <2>1. calls' = [calls EXCEPT ![p] = NoCall] => calls'[p] = NoCall
    BY SlotSet DEF OnceInv, CollateralInv, FlowInv
  <2> QED
    BY <2>1, GotoIs, ReturnIs
       DEF CheckPayment, QueueWithdrawal, PostExternalCheck, Skip, Throw, OnceInv, CollateralInv
<1>4. SerialCall(p)'
  BY <1>1, <1>3, NoCallFits DEF SerialCall, Returning, CloseOps
<1> QED
  BY <1>1, <1>2, <1>4, NothingMoves, CallMovesOnce

\* What the one handler at its return knows.
LEMMA ReturningFacts ==
  ASSUME OnceInv, NEW p \in Slots, calls[p].op \in Returning, calls[p].at \in {"return", "end"}
  PROVE  /\ calls[p].trade \in Trades /\ calls[p].exch = owner[calls[p].trade]
         /\ calls[p].exch \in Exchangers
         /\ calls[p].coll = collateral[calls[p].trade]
         /\ status[calls[p].trade] \in {"RELEASE_PENDING", "DISPUTED"}
         /\ IsTransitionAllowed(calls[p].trade, Outcome(calls[p].op))
         /\ calls[p].op \notin CloseOps
         /\ Direction[calls[p].trade] = "FIAT_TO_FIAT" => calls[p].coll \in Assets
         /\ calls[p].op = "force_release" => Direction[calls[p].trade] = "FIAT_TO_FIAT"
<1> DEFINE t == calls[p].trade
<1>1. CallOK(p) /\ SerialCall(p) /\ DirectCall(p)
  BY DEF OnceInv, CollateralInv, FlowInv
<1>2. t \in Trades
  BY <1>1 DEF CallOK, Returning, CloseOps
<1>3. /\ calls[p].exch = owner[t] /\ calls[p].coll = collateral[t]
      /\ status[t] = IF calls[p].op = "received" THEN "RELEASE_PENDING" ELSE "DISPUTED"
      /\ calls[p].op = "force_release" => Direction[t] = "FIAT_TO_FIAT"
      /\ calls[p].op \notin CloseOps
  BY <1>1 DEF SerialCall, DirectCall
<1>4. owner[t] \in Exchangers
  BY <1>2, <1>3 DEF OnceInv, CollateralInv, FlowInv, DbInv, DbTypeOK, OwnerByStatus
<1>5. Direction[t] = "FIAT_TO_FIAT" => collateral[t] \in Assets
  BY <1>2, <1>3 DEF OnceInv, CollateralFirst, Needs, Underway, Statuses, Terminal, CollateralInv, FlowInv,
                    DbInv, DbTypeOK
<1>6. IsTransitionAllowed(t, Outcome(calls[p].op))
  BY <1>3 DEF IsTransitionAllowed, Allowed, Outcome, Returning
<1> QED
  BY <1>2, <1>3, <1>4, <1>5, <1>6

\* The handler returns the escrow or the collateral, or it throws.
LEMMA ReturnsOrThrows ==
  ASSUME OnceInv, NEW p \in Slots, ReturnFunds(p)
  PROVE  LET c == calls[p]
             t == c.trade
         IN \/ Throw(p)
            \/ /\ Direction[t] = "FIAT_TO_FIAT"
               /\ ReleaseCollateral(t, c.exch, c.coll, CollateralReason(c.op))
               /\ Goto(p, "end")
            \/ /\ Direction[t] # "FIAT_TO_FIAT"
               /\ ReleaseEscrow(t, c.exch, EscrowReason(c.op))
               /\ Goto(p, "end")
<1>1. calls[p].op \in Returning /\ calls[p].at = "return"
  BY DEF ReturnFunds
<1>2. /\ calls[p].exch # NoExchanger /\ calls[p].op \notin CloseOps
      /\ Direction[calls[p].trade] = "FIAT_TO_FIAT" => calls[p].coll # NoAsset
      /\ calls[p].op = "force_release" => Direction[calls[p].trade] = "FIAT_TO_FIAT"
  BY <1>1, ReturningFacts, TradesOK
<1> QED
  BY <1>2 DEF ReturnFunds, ReturnFails

LEMMA ReturnOnce ==
  ASSUME OnceInv, Serial, [Next]_vars, NEW p \in Slots, ReturnFunds(p)
  PROVE  OnceInv'
<1> DEFINE t == calls[p].trade
<1>1. /\ calls[p].op \in Returning /\ calls[p].at = "return" /\ t \in Trades
      /\ status[t] \in {"RELEASE_PENDING", "DISPUTED"} /\ SerialCall(p)
  BY ReturningFacts DEF ReturnFunds, OnceInv
<1>2. \A u : ~Returned(u)
  BY <1>1, NothingReturned
<1>3. CASE Throw(p)
  BY <1>1, <1>3, ThrowOnce
<1>4. ASSUME Goto(p, "end"), UNCHANGED <<status, owner, collateral>>,
             NEW k, keys' = keys \cup {k},
             \/ \E why \in EscrowReasons : k = ReleaseKey(t, why)
             \/ \E why \in CollateralReasons : k = FreeKey(t, why)
      PROVE  OnceInv'
  <2>1. /\ calls'[p].op = calls[p].op /\ calls'[p].trade = t /\ calls'[p].at = "end"
        /\ calls'[p].exch = calls[p].exch /\ calls'[p].coll = calls[p].coll
    BY <1>4, GotoIs DEF OnceInv, CollateralInv
  <2>2. SerialCall(p)'
    BY <1>1, <1>4, <2>1 DEF SerialCall, Returning, CloseOps
  <2>3. Returned(t)'
    BY <1>1, <2>1 DEF Returned
  <2>4. CollateralFirst'
    BY <1>4 DEF OnceInv, CollateralFirst
  <2>5. \A u, x : /\ CollateralKey(u, x) \in keys' => CollateralKey(u, x) \in keys
                  /\ ReleaseKey(u, x) \in keys' => ReleaseKey(u, x) \in keys \/ u = t
                  /\ FreeKey(u, x) \in keys' => FreeKey(u, x) \in keys \/ u = t
    BY <1>4 DEF CollateralKey, ReleaseKey, FreeKey
  <2>6. KeysFresh'
    <3> SUFFICES ASSUME NEW u \in Trades
                 PROVE  /\ collateral'[u] = NoAsset => \A b \in Assets : CollateralKey(u, b) \notin keys'
                        /\ status'[u] \notin Terminal /\ ~Returned(u)' =>
                             /\ \A why \in EscrowReasons : ReleaseKey(u, why) \notin keys'
                             /\ \A why \in CollateralReasons : FreeKey(u, why) \notin keys'
      BY DEF KeysFresh, CollateralKey, ReleaseKey, FreeKey
    <3>1. UNCHANGED <<status, collateral>>
      BY <1>4
    <3>2. KeysFresh
      BY DEF OnceInv
    <3>3. collateral'[u] = NoAsset => \A b \in Assets : CollateralKey(u, b) \notin keys'
      BY <2>5, <3>1, <3>2 DEF KeysFresh
    <3>4. CASE u = t
      BY <1>1, <2>1, <3>3, <3>4 DEF Returned
    <3>5. CASE u # t
      BY <1>2, <2>5, <3>1, <3>2, <3>3, <3>5 DEF KeysFresh
    <3> QED
      BY <3>4, <3>5
  <2>7. ReleasedOnce'
    <3>1. \A why \in EscrowReasons : ReleaseKey(t, why) \notin keys
      BY <1>1, <1>2 DEF OnceInv, KeysFresh, Terminal
    <3>2. ~(ReleaseKey(t, "COMPLETE") \in keys' /\ ReleaseKey(t, "CANCEL") \in keys')
      BY <1>4, <3>1 DEF EscrowReasons, ReleaseKey, FreeKey
    <3>3. ASSUME NEW u \in Trades PROVE ~ {ReleaseKey(u, why) : why \in EscrowReasons} \subseteq keys'
      <4>1. CASE u = t
        BY <3>2, <4>1 DEF EscrowReasons
      <4>2. CASE u # t
        BY <2>5, <4>2 DEF OnceInv, ReleasedOnce
      <4> QED
        BY <4>1, <4>2
    <3> QED
      BY <3>3 DEF ReleasedOnce, ReleaseKey
  <2> QED
    BY <2>2, <2>4, <2>6, <2>7, CallMovesOnce
<1>5. ASSUME ReleaseCollateral(t, calls[p].exch, calls[p].coll, CollateralReason(calls[p].op)),
             Goto(p, "end")
      PROVE  OnceInv'
  <2>1. CollateralReason(calls[p].op) \in CollateralReasons
    BY <1>1 DEF CollateralReason, CollateralReasons, Returning, CloseOps
  <2> QED
    BY <1>4, <1>5, <2>1, EnterKeys DEF ReleaseCollateral
<1>6. ASSUME ReleaseEscrow(t, calls[p].exch, EscrowReason(calls[p].op)), Goto(p, "end")
      PROVE  OnceInv'
  <2>1. EscrowReason(calls[p].op) \in EscrowReasons
    BY DEF EscrowReason, EscrowReasons
  <2> QED
    BY <1>4, <1>6, <2>1, EnterKeys DEF ReleaseEscrow
<1> QED
  BY <1>3, <1>5, <1>6, ReturnsOrThrows

\* The trade always ends after its funds were returned.
LEMMA EndOnce ==
  ASSUME OnceInv, Serial, [Next]_vars, NEW p \in Slots, EndTrade(p)
  PROVE  OnceInv'
<1> DEFINE t == calls[p].trade
           to == Outcome(calls[p].op)
<1>1. /\ calls[p].op \in Returning /\ calls[p].at = "end" /\ t \in Trades
      /\ IsTransitionAllowed(t, to)
  BY ReturningFacts DEF EndTrade
<1>2. Transition(t, to) /\ (Goto(p, "settle") \/ Return(p))
  BY <1>1 DEF EndTrade
<1>3. to \in Terminal /\ to # "FIAT_PENDING"
  BY DEF Outcome, Terminal
<1>4. status'[t] = to
  BY <1>1, <1>2 DEF Transition, SetStatus, OnceInv, CollateralInv, FlowInv, DbInv, DbTypeOK
<1>5. \A u \in Trades : Returned(u) => status'[u] \in Terminal
  BY <1>3, <1>4, AtEndOnly
<1>6. calls'[p] = NoCall \/ (calls'[p].op = calls[p].op /\ calls'[p].at = "settle")
  BY <1>2, GotoIs, ReturnIs DEF OnceInv, CollateralInv
<1>7. SerialCall(p)'
  BY <1>1, <1>6, NoCallFits DEF SerialCall, Returning, CloseOps
<1> QED
  BY <1>1, <1>2, <1>3, <1>5, <1>7, TransitionMoves, CallMovesOnce DEF Transition

LEMMA OthersOnce ==
  ASSUME OnceInv, Serial, [Next]_vars, NEW p \in Slots,
         Settle(p) \/ ApproveRelease(p) \/ ExpireOpen(p)
  PROVE  OnceInv'
<1> DEFINE t == calls[p].trade
<1>1. /\ t \in Trades /\ CallOK(p)
      /\ calls[p].at # "end" \/ calls[p].op \notin Returning
  BY DEF Settle, ApproveRelease, ExpireOpen, Running, OnceInv, CollateralInv, FlowInv, CallOK, Returning,
         CloseOps
<1>2. \A u : ~Returned(u)
  BY <1>1, NothingReturned
<1>3. ASSUME Return(p) PROVE SerialCall(p)'
  BY <1>3, ReturnIs, NoCallFits DEF SerialCall, Returning, CloseOps, OnceInv, CollateralInv
<1>4. ASSUME Return(p), UNCHANGED dbVars PROVE OnceInv'
  BY <1>2, <1>3, <1>4, NothingMoves, CallMovesOnce
<1>5. CASE Settle(p)
  <2>1. CASE SettleTradeProfit(t)
    <3>1. UNCHANGED <<status, collateral>> /\ NewKeysApart
      BY <2>1, EnterApart DEF SettleTradeProfit, ProfitKey
    <3>2. CollateralFirst'
      BY <3>1 DEF OnceInv, CollateralFirst
    <3>3. KeysFresh' /\ ReleasedOnce'
      BY <1>2, <3>1, KeysStayFresh DEF OnceInv
    <3> QED
      BY <1>3, <1>5, <3>2, <3>3, CallMovesOnce DEF Settle
  <2> QED
    BY <1>4, <1>5, <2>1 DEF Settle
<1>6. CASE ApproveRelease(p)
  <2>1. Throw(p)
    BY <1>1, <1>6 DEF ApproveRelease, CallOK, IsTransitionAllowed, Allowed, Disputed, Running
  <2> QED
    BY <1>1, <2>1, ThrowOnce
<1>7. CASE ExpireOpen(p)
  <2>1. CASE Transition(t, "EXPIRED") /\ Return(p)
    BY <1>1, <1>2, <1>3, <2>1, TransitionMoves, CallMovesOnce DEF Transition
  <2> QED
    BY <1>4, <1>7, <2>1 DEF ExpireOpen
<1> QED
  BY <1>5, <1>6, <1>7

LEMMA StaleOnce ==
  ASSUME OnceInv, Serial, [Next]_vars, NEW p \in Slots, CancelStale(p)
  PROVE  OnceInv'
<1> DEFINE t == calls[p].trade
<1>1. t \in Trades /\ calls[p].op \notin Returning /\ Return(p)
  BY DEF CancelStale, Running, OnceInv, CollateralInv, FlowInv, CallOK, Returning, CloseOps
<1>2. \A u : ~Returned(u)
  BY <1>1, NothingReturned
<1>3. SerialCall(p)'
  BY <1>1, ReturnIs, NoCallFits DEF SerialCall, Returning, CloseOps, OnceInv, CollateralInv
<1>4. CASE UNCHANGED dbVars
  BY <1>2, <1>3, <1>4, NothingMoves, CallMovesOnce
<1>5. CASE CancelTradeAndReleaseEscrow(t, calls[p].exch)
  <2>1. /\ SetStatus(t, "CANCELLED") /\ status[t] \notin Terminal /\ UNCHANGED collateral
        /\ keys' = keys \cup {ReleaseKey(t, "CANCEL")}
    BY <1>5, EnterKeys, NotEnded DEF CancelTradeAndReleaseEscrow, CanCancel
  <2>2. status'[t] = "CANCELLED" /\ \A u \in Trades \ {t} : status'[u] = status[u]
    BY <1>1, <2>1 DEF SetStatus, OnceInv, CollateralInv, FlowInv, DbInv, DbTypeOK
  <2>3. CollateralFirst'
    BY <2>1, <2>2 DEF OnceInv, CollateralFirst, Needs, Underway, Terminal
  <2>4. \A u, x : /\ CollateralKey(u, x) \in keys' => CollateralKey(u, x) \in keys
                  /\ FreeKey(u, x) \in keys' => FreeKey(u, x) \in keys
                  /\ ReleaseKey(u, x) \in keys' => ReleaseKey(u, x) \in keys \/ (u = t /\ x = "CANCEL")
    BY <2>1 DEF CollateralKey, ReleaseKey, FreeKey
  <2>5. KeysFresh'
    <3> SUFFICES ASSUME NEW u \in Trades
                 PROVE  /\ collateral'[u] = NoAsset => \A b \in Assets : CollateralKey(u, b) \notin keys'
                        /\ status'[u] \notin Terminal /\ ~Returned(u)' =>
                             /\ \A why \in EscrowReasons : ReleaseKey(u, why) \notin keys'
                             /\ \A why \in CollateralReasons : FreeKey(u, why) \notin keys'
      BY DEF KeysFresh, CollateralKey, ReleaseKey, FreeKey
    <3> QED
      BY <1>2, <2>1, <2>2, <2>4 DEF OnceInv, KeysFresh, Terminal
  <2>6. ReleasedOnce'
    <3>1. ReleaseKey(t, "COMPLETE") \notin keys'
      BY <1>1, <1>2, <2>1, <2>4 DEF OnceInv, KeysFresh, EscrowReasons
    <3>2. ASSUME NEW u \in Trades PROVE ~ {ReleaseKey(u, why) : why \in EscrowReasons} \subseteq keys'
      <4>1. CASE u = t
        BY <3>1, <4>1 DEF EscrowReasons
      <4>2. CASE u # t
        BY <2>4, <4>2 DEF OnceInv, ReleasedOnce
      <4> QED
        BY <4>1, <4>2
    <3> QED
      BY <3>2 DEF ReleasedOnce, ReleaseKey
  <2> QED
    BY <1>3, <2>3, <2>5, <2>6, CallMovesOnce
<1> QED
  BY <1>4, <1>5 DEF CancelStale

LEMMA OnceStep == ASSUME OnceInv, Serial, [Next]_vars PROVE OnceInv'
<1>1. ASSUME NEW p \in Slots, Continue(p) PROVE OnceInv'
  BY <1>1, ClaimOnce, PayOnce, ReturnOnce, EndOnce, OthersOnce, StaleOnce DEF Continue
<1>2. ~ \E p \in Slots : Abandon(p)
  BY DEF Abandon, Serial
<1>3. CASE UNCHANGED vars
  <2>1. UNCHANGED calls /\ UNCHANGED dbVars
    BY <1>3 DEF vars, flowVars
  <2>2. CollateralFirst' /\ KeysFresh' /\ ReleasedOnce'
    BY <2>1, NothingMoves DEF Returned
  <2>3. \A p \in Slots : SerialCall(p)'
    BY <2>1 DEF dbVars, OnceInv, SerialCall
  <2> QED
    BY <2>2, <2>3, CollateralStep, DirectStep DEF OnceInv, Serial
<1> QED
  BY <1>1, <1>2, <1>3, OneStepOnce, BeginOnce DEF Next

LEMMA OnceInit == Init => OnceInv
<1> SUFFICES ASSUME Init PROVE OnceInv
  OBVIOUS
<1>1. \A p \in Slots : DirectCall(p) /\ SerialCall(p)
  BY NoCallFits DEF Init, DirectCall, SerialCall, Returning, CloseOps
<1>2. CollateralFirst /\ KeysFresh /\ ReleasedOnce
  BY DEF Init, DbInit, CollateralFirst, Needs, Underway, KeysFresh, ReleasedOnce, EscrowReasons
<1> QED
  BY <1>1, <1>2, CollateralInit DEF OnceInv

LEMMA OnceInvHolds ==
  ASSUME Serial PROVE Spec => []OnceInv
<1>1. OnceInv /\ [Next]_vars => OnceInv'
  BY OnceStep
<1> QED
  BY <1>1, OnceInit, PTL DEF Spec

(* One key "per trade completion or cancellation" (idempotency.ts): with    *)
(* one handler at a time, none that fails half-way, and none of the ways of *)
(* Undirected to end a trade, no trade has its escrow released for its      *)
(* completion and for its cancellation.  (With two it does: see the README.)*)
THEOREM EscrowReleasedOnce ==
  ASSUME Serial
  PROVE  Spec => []ReleasedOnce
<1>1. OnceInv => ReleasedOnce
  BY DEF OnceInv
<1> QED
  BY <1>1, OnceInvHolds, PTL

-----------------------------------------------------------------------------
(* One handler at a time: what the escrow holds                             *)

\* The stake of a trade, locked in one pair until the trade ends or a handler
\* that is about to end it has returned it.
Staked(t) == status[t] \in Underway /\ ~Returned(t) /\ StakePair(t) \in Pairs

StakeIn(t, q) == IF Staked(t) /\ StakePair(t) = q THEN StakeSize(t) ELSE 0
StakesIn(q) == [t \in Trades |-> StakeIn(t, q)]
Backed == \A q \in Pairs : bal[q].esc = SumFunctionOnSet(StakesIn(q), Trades)

BackedInv == OnceInv /\ Backed

LEMMA StakeInInt == ASSUME NEW t \in Trades, NEW q PROVE StakeIn(t, q) \in Int /\ StakeIn(t, q)' \in Int
BY TradesOK DEF StakeIn, StakeSize

\* Nothing about the stake of the trade changes.
Alike(t) == /\ status[t] \in Underway <=> status'[t] \in Underway
            /\ Returned(t) <=> Returned(t)'
            /\ owner'[t] = owner[t] /\ collateral'[t] = collateral[t]

LEMMA AlikeStakes ==
  ASSUME NEW t, NEW q, Alike(t) \/ (~Staked(t) /\ ~Staked(t)')
  PROVE  StakeIn(t, q)' = StakeIn(t, q)
BY DEF Alike, StakeIn, Staked, StakePair, StakeSize

EscrowStays == \A q \in Pairs : bal'[q].esc = bal[q].esc

LEMMA BackedStays ==
  ASSUME IsFiniteSet(Trades), Backed, EscrowStays,
         \A t \in Trades : Alike(t) \/ (~Staked(t) /\ ~Staked(t)')
  PROVE  Backed'
<1> SUFFICES ASSUME NEW q \in Pairs
             PROVE  bal'[q].esc = SumFunctionOnSet(StakesIn(q)', Trades)
  BY DEF Backed
<1>1. \A t \in Trades : StakesIn(q)[t] = StakesIn(q)'[t]
  BY AlikeStakes DEF StakesIn
<1>2. SumFunctionOnSet(StakesIn(q), Trades) = SumFunctionOnSet(StakesIn(q)', Trades)
  BY <1>1, SumSame
<1> QED
  BY <1>2 DEF Backed, EscrowStays

\* The stake of one trade is locked or returned, by an entry in its pair.
LEMMA StakeMoves ==
  ASSUME IsFiniteSet(Trades), Backed, DbTypeOK, NEW t \in Trades, NEW p \in Pairs, NEW d \in Int,
         \A q \in Pairs : bal'[q].esc = bal[q].esc + (IF q = p THEN d ELSE 0),
         \A q \in Pairs : StakeIn(t, q)' = StakeIn(t, q) + (IF q = p THEN d ELSE 0),
         \A u \in Trades \ {t} : Alike(u)
  PROVE  Backed'
<1> SUFFICES ASSUME NEW q \in Pairs
             PROVE  bal'[q].esc = SumFunctionOnSet(StakesIn(q)', Trades)
  BY DEF Backed
<1> DEFINE f == StakesIn(q)
           g == StakesIn(q)'
<1>1. \A u \in Trades : f[u] = StakeIn(u, q) /\ f[u] \in Int
  BY StakeInInt DEF StakesIn
<1>2. \A u \in Trades : g[u] = StakeIn(u, q)' /\ g[u] \in Int
  BY StakeInInt DEF StakesIn
<1>3. \A u \in Trades \ {t} : g[u] = f[u]
  BY <1>1, <1>2, AlikeStakes
<1>4. bal[q].esc = SumFunctionOnSet(f, Trades) /\ bal[q].esc \in Int
  BY DEF Backed, DbTypeOK, BalanceType
<1> HIDE DEF f, g
<1>5. SumFunctionOnSet(g, Trades) = SumFunctionOnSet(f, Trades) - f[t] + g[t]
  BY <1>1, <1>2, <1>3, SumChange
<1>6. g[t] = f[t] + (IF q = p THEN d ELSE 0)
  BY <1>1, <1>2
<1>7. bal'[q].esc = SumFunctionOnSet(g, Trades)
  BY <1>1, <1>4, <1>5, <1>6
<1> QED
  BY <1>7 DEF g

\* A fee share is no stake.
LEMMA EnterFee ==
  ASSUME DbTypeOK, NEW k, NEW p \in Pairs, NEW n \in Nat, Enter(k, p, "MANUAL_CREDIT", n)
  PROVE  EscrowStays
<1>1. CASE k \in keys
  BY <1>1 DEF Enter, EscrowStays
<1>2. CASE k \notin keys
  <2>1. "MANUAL_CREDIT" \in TradeKinds /\ EscrowDelta(Entered("MANUAL_CREDIT", n)) = 0
    BY Deltas DEF TradeKinds
  <2>2. \A q \in Pairs : bal[q].esc \in Int
    BY DEF DbTypeOK, BalanceType
  <2> QED
    BY <1>2, <2>1, <2>2, EnterEscrow DEF EscrowStays
<1> QED
  BY <1>1, <1>2

\* A new lock of the stake, and a first return of it.
LEMMA StakeLocked ==
  ASSUME IsFiniteSet(Trades), Backed, DbTypeOK, NEW t \in Trades, NEW p \in Pairs,
         NEW k, k \notin keys, Enter(k, p, "ESCROW_LOCK", StakeSize(t)),
         ~Staked(t), Staked(t)', StakePair(t)' = p, \A u \in Trades \ {t} : Alike(u)
  PROVE  Backed'
<1> DEFINE d == StakeSize(t)
<1>1. d \in Nat
  BY TradesOK DEF StakeSize
<1>2. \A q \in Pairs : bal'[q].esc = bal[q].esc + (IF q = p THEN d ELSE 0)
  BY <1>1, EnterEscrow, Deltas DEF TradeKinds
<1>3. \A q \in Pairs : StakeIn(t, q)' = StakeIn(t, q) + (IF q = p THEN d ELSE 0)
  BY <1>1 DEF StakeIn, StakeSize
<1> HIDE DEF d
<1> QED
  BY <1>1, <1>2, <1>3, StakeMoves

LEMMA StakeReturned ==
  ASSUME IsFiniteSet(Trades), Backed, DbTypeOK, NEW t \in Trades,
         NEW k, k \notin keys, Enter(k, StakePair(t), "ESCROW_RELEASE", StakeSize(t)),
         Staked(t), ~Staked(t)', \A u \in Trades \ {t} : Alike(u)
  PROVE  Backed'
<1> DEFINE n == StakeSize(t)
           d == -n
           p == StakePair(t)
<1>1. n \in Nat /\ d \in Int /\ p \in Pairs
  BY TradesOK DEF StakeSize, Staked
<1>2. \A q \in Pairs : bal'[q].esc = bal[q].esc + (IF q = p THEN d ELSE 0)
  BY <1>1, EnterEscrow, Deltas DEF TradeKinds
<1>3. \A q \in Pairs : StakeIn(t, q)' = StakeIn(t, q) + (IF q = p THEN d ELSE 0)
  BY <1>1 DEF StakeIn
<1> HIDE DEF d
<1> QED
  BY <1>1, <1>2, <1>3, StakeMoves

\* What all these steps start from.
LEMMA BackedFacts ==
  ASSUME OnceInv
  PROVE  /\ DbTypeOK /\ OwnerByStatus /\ LockedByOwnerOnly /\ OpenUnlocked /\ KeysFresh
         /\ FlowInv /\ CollateralInv /\ CryptoUnlocked /\ CollateralFirst
BY DEF OnceInv, CollateralInv, FlowInv, DbInv

\* Nothing but a call changes, and it neither had nor has returned funds in hand.
LEMMA CallsOnlyBacked ==
  ASSUME IsFiniteSet(Trades), Backed, UNCHANGED dbVars, \A t \in Trades : Returned(t) <=> Returned(t)'
  PROVE  Backed'
BY BackedStays DEF Alike, EscrowStays, dbVars

\* A trade takes another status, under way or not under way as before.
LEMMA StatusBacked ==
  ASSUME IsFiniteSet(Trades), Backed, DbTypeOK, NEW t \in Trades, NEW to, SetStatus(t, to),
         UNCHANGED <<owner, collateral, bal>>, status[t] \in Underway <=> to \in Underway,
         \A u : ~Returned(u), \A u : ~Returned(u)'
  PROVE  Backed'
<1>1. status'[t] = to /\ \A u \in Trades \ {t} : status'[u] = status[u]
  BY DEF SetStatus, DbTypeOK
<1>2. \A u \in Trades : Alike(u)
  BY <1>1 DEF Alike
<1> QED
  BY <1>2, BackedStays DEF EscrowStays

\* A trade without owner, or ended, has no stake.
LEMMA Unstaked ==
  ASSUME NEW t
  PROVE  /\ status[t] \in Terminal \cup {"OPEN"} \/ Returned(t) \/ StakePair(t) \notin Pairs => ~Staked(t)
         /\ status'[t] \in Terminal \cup {"OPEN"} \/ Returned(t)' \/ StakePair(t)' \notin Pairs => ~Staked(t)'
BY DEF Staked, Underway

\* The claim of a crypto trade locks its amount, under a key never used before.
LEMMA ClaimBacked ==
  ASSUME IsFiniteSet(Trades), OnceInv, Backed, NEW t \in Trades, NEW e \in Exchangers, Claim(t, e),
         \A u : ~Returned(u), \A u : ~Returned(u)'
  PROVE  Backed'
<1>1. /\ status[t] = "OPEN" /\ owner[t] = NoExchanger /\ collateral[t] = NoAsset
      /\ owner' = [owner EXCEPT ![t] = e] /\ UNCHANGED collateral
      /\ \E to \in {"CLAIMED", "FIAT_PENDING"} : SetStatus(t, to)
  BY BackedFacts DEF Claim, TransitionToClaimed, ClaimTradeWithEscrow, IsTransitionAllowed, Allowed,
                     OwnerByStatus, OpenUnlocked
<1>2. /\ status'[t] \in {"CLAIMED", "FIAT_PENDING"} /\ owner'[t] = e
      /\ \A u \in Trades \ {t} : status'[u] = status[u] /\ owner'[u] = owner[u]
  BY <1>1, BackedFacts DEF SetStatus, DbTypeOK
<1>3. \A u \in Trades \ {t} : Alike(u)
  BY <1>1, <1>2 DEF Alike
<1>4. ~Staked(t)
  BY <1>1, Unstaked
<1>5. CASE Direction[t] = "FIAT_TO_FIAT"
  <2>1. StakePair(t)' \notin Pairs
    BY <1>1, <1>5, TradesOK DEF StakePair, Pairs
  <2>2. UNCHANGED bal
    BY <1>5 DEF Claim, TransitionToClaimed
  <2> QED
    BY <1>3, <1>4, <2>1, <2>2, Unstaked, BackedStays DEF EscrowStays
<1>6. CASE Direction[t] # "FIAT_TO_FIAT"
  <2> DEFINE p == <<e, Asset[t]>>
  <2>1. Direction[t] = "CRYPTO" /\ StakeSize(t) = Amount[t] /\ p \in Pairs
    BY <1>6, TradesOK DEF StakeSize, Pairs
  <2>2. StakePair(t)' = p /\ Staked(t)'
    BY <1>2, <2>1 DEF StakePair, Staked, Underway, Statuses, Terminal
  <2>3. LockKey(t, e) \notin keys
    BY <1>1, TradesOK, BackedFacts DEF LockedByOwnerOnly
  <2>4. Enter(LockKey(t, e), p, "ESCROW_LOCK", StakeSize(t))
    BY <1>6, <2>1 DEF Claim, ClaimTradeWithEscrow
  <2> HIDE DEF p
  <2> QED
    BY <1>3, <1>4, <2>1, <2>2, <2>3, <2>4, BackedFacts, StakeLocked
<1> QED
  BY <1>5, <1>6

LEMMA OneStepBacked ==
  ASSUME IsFiniteSet(Trades), OnceInv, Backed, Serial, NEW t \in Trades, OneStep(t)
  PROVE  Backed'
<1>1. IsFree /\ UNCHANGED calls
  BY DEF OneStep, HandleClaim, HandleFiatSent, HandleDispute, HandleReleaseInternal,
         HandleExternalPaymentNotReceived, DashboardForce, flowVars
<1>2. (\A u : ~Returned(u)) /\ (\A u : ~Returned(u)')
  <2>1. \A u : ~Returned(u)
    BY <1>1, IdleReturnsNothing
  <2> QED
    BY <1>1, <2>1 DEF Returned
<1>3. ASSUME NEW to \in {"FIAT_SENT", "DISPUTED"}, Transition(t, to) PROVE Backed'
  <2>1. status[t] \in Underway /\ to \in Underway
    BY <1>3 DEF Transition, IsTransitionAllowed, Allowed, Underway, Statuses, Terminal
  <2> QED
    BY <1>2, <1>3, <2>1, BackedFacts, StatusBacked DEF Transition
<1>4. ASSUME NEW e \in Exchangers, HandleClaim(t, e) PROVE Backed'
  BY <1>2, <1>4, ClaimBacked DEF HandleClaim
<1>5. CASE HandleReleaseInternal(t)
  BY <1>2, <1>5, CallsOnlyBacked DEF HandleReleaseInternal
<1>6. ~DashboardForce(t)
  BY DEF DashboardForce, Serial, Undirected
<1> QED
  BY <1>3, <1>4, <1>5, <1>6
     DEF OneStep, HandleFiatSent, HandleDispute, HandleExternalPaymentNotReceived

LEMMA BeginBacked ==
  ASSUME IsFiniteSet(Trades), OnceInv, Backed, Serial, NEW p \in Slots, NEW t \in Trades, Begin(p, t)
  PROVE  Backed'
<1>1. Free(p)
  BY DEF Begin, BeginF2FClaim, HandleWalletAddressSubmit, HandleReleaseExternal,
         HandleExternalPaymentReceived, HandleForceCancel, HandleForceRelease,
         HandleCloseTicket, SelectExpired, SelectStale, Start
<1>2. \A u : ~Returned(u)
  BY <1>1, IdleReturnsNothing DEF IsFree
<1>3. ASSUME calls'[p].op \notin Returning \/ calls'[p].at # "end" PROVE \A u : ~Returned(u)'
  BY <1>3 DEF Returned, Serial
<1>4. ASSUME NEW c, calls' = [calls EXCEPT ![p] = c], c.op \in {"claim", "pay", "external"}
      PROVE  \A u : ~Returned(u)'
  <2>1. calls'[p] = c
    BY <1>4, SlotSet, BackedFacts DEF FlowInv
  <2> QED
    BY <1>3, <1>4, <2>1 DEF Returning, CloseOps
<1>5. ASSUME NEW e \in Exchangers, BeginF2FClaim(p, t, e) PROVE Backed'
  <2> DEFINE c == [Call("claim", t, "choose") EXCEPT !.exch = e]
  <2>1. c.op = "claim"
    BY DEF Call
  <2>2. calls' = [calls EXCEPT ![p] = c] /\ Claim(t, e)
    BY <1>5 DEF BeginF2FClaim
  <2> HIDE DEF c
  <2> QED
    BY <1>2, <1>4, <2>1, <2>2, ClaimBacked
<1>6. ASSUME NEW op \in {"pay", "external"}, NEW at,
             calls' = [calls EXCEPT ![p] = Call(op, t, at)],
             IsTransitionAllowed(t, "RELEASE_PENDING"), SetStatus(t, "RELEASE_PENDING"),
             UNCHANGED <<owner, collateral, bal>>
      PROVE  Backed'
  <2>1. Call(op, t, at).op = op
    BY DEF Call
  <2>2. status[t] \in Underway /\ "RELEASE_PENDING" \in Underway
    BY <1>6 DEF IsTransitionAllowed, Allowed, Underway, Statuses, Terminal
  <2> QED
    BY <1>2, <1>4, <1>6, <2>1, <2>2, BackedFacts, StatusBacked
<1>7. ASSUME NEW op, NEW at, Start(p, op, t, at), op \notin Returning \/ at # "end" PROVE Backed'
  BY <1>2, <1>3, <1>7, StartIs, BackedFacts, CallsOnlyBacked
<1>8. CASE HandleWalletAddressSubmit(p, t)
  BY <1>6, <1>8 DEF HandleWalletAddressSubmit, TransitionWithWallet
<1>9. CASE HandleReleaseExternal(p, t)
  BY <1>6, <1>9 DEF HandleReleaseExternal, Transition
<1>10. CASE HandleExternalPaymentReceived(p, t)
  BY <1>7, <1>10 DEF HandleExternalPaymentReceived
<1>11. CASE HandleForceCancel(p, t)
  BY <1>7, <1>11 DEF HandleForceCancel
<1>12. CASE HandleForceRelease(p, t)
  BY <1>7, <1>12 DEF HandleForceRelease
<1>13. ~ \E how \in CloseOps : HandleCloseTicket(p, t, how)
  BY DEF HandleCloseTicket, Serial, Undirected
<1>14. CASE SelectExpired(p, t)
  BY <1>7, <1>14 DEF SelectExpired, Returning, CloseOps
<1>15. CASE SelectStale(p, t)
  BY <1>7, <1>15 DEF SelectStale, Returning, CloseOps
<1> QED
  BY <1>5, <1>8, <1>9, <1>10, <1>11, <1>12, <1>13, <1>14, <1>15 DEF Begin

\* A step that ends the call or takes it to an await other than the last one.
LEMMA CallReturnsNothing ==
  ASSUME OnceInv, Serial, NEW p \in Slots, Return(p) \/ (\E at : at # "end" /\ Goto(p, at))
  PROVE  \A u : ~Returned(u)'
<1>1. calls'[p].op \notin Returning \/ calls'[p].at # "end"
  BY GotoIs, ReturnIs, BackedFacts, NoCallFits DEF Returning, CloseOps
<1> QED
  BY <1>1 DEF Returned, Serial

LEMMA ThrowBacked ==
  ASSUME IsFiniteSet(Trades), OnceInv, Backed, Serial, NEW p \in Slots, Throw(p), \A u : ~Returned(u)
  PROVE  Backed'
BY CallReturnsNothing, CallsOnlyBacked DEF Throw

\* The collateral is locked under a key never used before.
LEMMA CollateralBacked ==
  ASSUME IsFiniteSet(Trades), OnceInv, Backed, Serial, NEW p \in Slots, LockChosen(p)
  PROVE  Backed'
<1> PICK t \in Trades : calls[p].trade = t
  BY DEF LockChosen, Running, OnceInv, CollateralInv, FlowInv, CallOK
<1> DEFINE e == calls[p].exch
           a == calls[p].coll
<1>1. \A u : ~Returned(u)
  BY NothingReturned DEF LockChosen, Running
<1>2. CASE Throw(p)
  BY <1>1, <1>2, ThrowBacked
<1>3. CASE LockCollateral(t, e, a) /\ Goto(p, "pending")
  <2>1. \A u : ~Returned(u)'
    BY <1>3, CallReturnsNothing
  <2>2. /\ e \in Exchangers /\ e = owner[t] /\ a \in Assets /\ collateral[t] = NoAsset
        /\ Direction[t] = "FIAT_TO_FIAT"
    BY TradesOK DEF LockChosen, Running, OnceInv, CollateralInv, FlowInv, CallOK, CancelCall
  <2>3. PICK q \in Pairs : q = <<e, a>>
    BY <2>2 DEF Pairs
  <2>4. /\ status[t] = "CLAIMED" /\ UNCHANGED <<status, owner>>
        /\ collateral' = [collateral EXCEPT ![t] = a]
        /\ Enter(CollateralKey(t, a), q, "ESCROW_LOCK", Quote[t])
    BY <1>3, <2>3 DEF LockCollateral, CanLockCollateral
  <2>5. collateral'[t] = a /\ \A u \in Trades \ {t} : collateral'[u] = collateral[u]
    BY <2>4, BackedFacts DEF DbTypeOK
  <2>6. \A u \in Trades \ {t} : Alike(u)
    BY <1>1, <2>1, <2>4, <2>5 DEF Alike
  <2>7. ~Staked(t)
    BY <2>2, TradesOK DEF Staked, StakePair, Pairs
  <2>8. StakePair(t)' = q /\ Staked(t)'
    BY <2>1, <2>2, <2>3, <2>4, <2>5 DEF StakePair, Staked, Underway, Statuses, Terminal
  <2>9. \A b \in Assets : CollateralKey(t, b) \notin keys
    BY <2>2, BackedFacts DEF KeysFresh
  <2>10. PICK k : k = CollateralKey(t, a)
    OBVIOUS
  <2>11. k \notin keys /\ Enter(k, q, "ESCROW_LOCK", StakeSize(t))
    BY <2>2, <2>4, <2>9, <2>10 DEF StakeSize
  <2> QED
    BY <2>6, <2>7, <2>8, <2>11, BackedFacts, StakeLocked
<1> QED
  BY <1>2, <1>3 DEF LockChosen

LEMMA ClaimCallBacked ==
  ASSUME IsFiniteSet(Trades), OnceInv, Backed, Serial, NEW p \in Slots,
         ChooseCollateral(p) \/ AwaitFiat(p)
  PROVE  Backed'
<1> PICK t \in Trades : calls[p].trade = t
  BY DEF ChooseCollateral, AwaitFiat, Running, OnceInv, CollateralInv, FlowInv, CallOK
<1>1. calls[p].op = "claim" /\ \A u : ~Returned(u)
  BY NothingReturned DEF ChooseCollateral, AwaitFiat, Running, Returning, CloseOps
<1>2. CASE ChooseCollateral(p)
  <2>1. calls'[p].op \in {"claim", "none"}
    <3>1. calls \in [Slots -> CallRecords]
      BY BackedFacts DEF FlowInv, FlowShape
    <3> QED
      BY <1>1, <1>2, <3>1 DEF ChooseCollateral, CallRecords, NoCall
  <2>2. \A u : ~Returned(u)'
    BY <2>1 DEF Returned, Serial, Returning, CloseOps
  <2> QED
    BY <1>1, <1>2, <2>2, CallsOnlyBacked DEF ChooseCollateral
<1>3. CASE AwaitFiat(p)
  <2>1. CASE Throw(p)
    BY <1>1, <2>1, ThrowBacked
  <2>2. CASE Transition(t, "FIAT_PENDING") /\ Return(p)
    <3>1. \A u : ~Returned(u)'
      BY <2>2, CallReturnsNothing
    <3>2. status[t] \in Underway /\ "FIAT_PENDING" \in Underway
      BY <2>2 DEF Transition, IsTransitionAllowed, Allowed, Underway, Statuses, Terminal
    <3> QED
      BY <1>1, <2>2, <3>1, <3>2, BackedFacts, StatusBacked DEF Transition
  <2> QED
    BY <1>3, <2>1, <2>2 DEF AwaitFiat
<1> QED
  BY <1>2, <1>3

LEMMA PayBacked ==
  ASSUME IsFiniteSet(Trades), OnceInv, Backed, Serial, NEW p \in Slots,
         CheckPayment(p) \/ QueueWithdrawal(p) \/ PostExternalCheck(p)
  PROVE  Backed'
<1>1. calls[p].op \in {"pay", "external"} /\ UNCHANGED dbVars
  BY DEF CheckPayment, QueueWithdrawal, PostExternalCheck, Running, Skip, Throw
<1>2. \A u : ~Returned(u)
  BY <1>1, NothingReturned DEF Returning, CloseOps
<1>3. calls'[p] = NoCall \/ calls'[p].op = calls[p].op
  <2>1. calls' = [calls EXCEPT ![p] = NoCall] => calls'[p] = NoCall
    BY SlotSet, BackedFacts DEF FlowInv
  <2> QED
    BY <2>1, GotoIs, ReturnIs, BackedFacts
       DEF CheckPayment, QueueWithdrawal, PostExternalCheck, Skip, Throw
<1>4. \A u : ~Returned(u)'
  BY <1>1, <1>3, NoCallFits DEF Returned, Serial, Returning, CloseOps
<1> QED
  BY <1>1, <1>2, <1>4, CallsOnlyBacked

\* The stake is returned, under a key never used before.
LEMMA ReturnBacked ==
  ASSUME IsFiniteSet(Trades), OnceInv, Backed, Serial, NEW p \in Slots, ReturnFunds(p)
  PROVE  Backed'
<1> PICK t \in Trades : calls[p].trade = t
  BY ReturningFacts DEF ReturnFunds
<1> DEFINE c == calls[p]
<1>1. /\ c.op \in Returning /\ c.at = "return" /\ c.exch = owner[t] /\ c.exch \in Exchangers
      /\ c.coll = collateral[t] /\ status[t] \in {"RELEASE_PENDING", "DISPUTED"}
      /\ Direction[t] = "FIAT_TO_FIAT" => c.coll \in Assets
  BY ReturningFacts DEF ReturnFunds
<1>2. \A u : ~Returned(u)
  BY <1>1, NothingReturned
<1>3. CASE Throw(p)
  BY <1>2, <1>3, ThrowBacked
<1>4. ASSUME Goto(p, "end"), UNCHANGED <<status, owner, collateral>>, NEW k, k \notin keys,
             Enter(k, StakePair(t), "ESCROW_RELEASE", StakeSize(t))
      PROVE  Backed'
  <2>1. calls'[p].op = c.op /\ calls'[p].at = "end" /\ calls'[p].trade = t
    BY <1>4, GotoIs, BackedFacts
  <2>2. Returned(t)' /\ \A u \in Trades \ {t} : ~Returned(u)'
    BY <1>1, <2>1 DEF Returned, Serial
  <2>3. \A u \in Trades \ {t} : Alike(u)
    BY <1>2, <1>4, <2>2 DEF Alike
  <2>4. StakePair(t) \in Pairs
    BY <1>1, TradesOK DEF StakePair, Pairs
  <2>5. Staked(t)
    BY <1>1, <1>2, <2>4 DEF Staked, Underway, Statuses, Terminal
  <2> QED
    BY <1>4, <2>2, <2>3, <2>5, Unstaked, BackedFacts, StakeReturned
<1>5. status[t] \notin Terminal
  BY <1>1 DEF Terminal
<1>6. CASE Direction[t] = "FIAT_TO_FIAT" /\ Goto(p, "end")
           /\ ReleaseCollateral(t, c.exch, c.coll, CollateralReason(c.op))
  <2>1. CollateralReason(c.op) \in CollateralReasons
    BY <1>1 DEF CollateralReason, CollateralReasons, Returning, CloseOps
  <2>2. PICK k : k = FreeKey(t, CollateralReason(c.op))
    OBVIOUS
  <2>3. k \notin keys
    BY <1>2, <1>5, <2>1, <2>2, BackedFacts DEF KeysFresh
  <2>4. Enter(k, StakePair(t), "ESCROW_RELEASE", StakeSize(t)) /\ UNCHANGED <<status, owner, collateral>>
    BY <1>1, <1>6, <2>2 DEF ReleaseCollateral, StakePair, StakeSize
  <2> QED
    BY <1>4, <1>6, <2>3, <2>4
<1>7. CASE Direction[t] # "FIAT_TO_FIAT" /\ Goto(p, "end")
           /\ ReleaseEscrow(t, c.exch, EscrowReason(c.op))
  <2>1. EscrowReason(c.op) \in EscrowReasons
    BY DEF EscrowReason, EscrowReasons
  <2>2. PICK k : k = ReleaseKey(t, EscrowReason(c.op))
    OBVIOUS
  <2>3. k \notin keys
    BY <1>2, <1>5, <2>1, <2>2, BackedFacts DEF KeysFresh
  <2>4. Enter(k, StakePair(t), "ESCROW_RELEASE", StakeSize(t)) /\ UNCHANGED <<status, owner, collateral>>
    BY <1>1, <1>7, <2>2, TradesOK DEF ReleaseEscrow, StakePair, StakeSize
  <2> QED
    BY <1>4, <1>7, <2>3, <2>4
<1> QED
  BY <1>3, <1>6, <1>7, ReturnsOrThrows

\* A trade ends once its stake was returned.
LEMMA EndBacked ==
  ASSUME IsFiniteSet(Trades), OnceInv, Backed, Serial, NEW p \in Slots, EndTrade(p)
  PROVE  Backed'
<1> PICK t \in Trades : calls[p].trade = t
  BY ReturningFacts DEF EndTrade
<1> DEFINE to == Outcome(calls[p].op)
<1>1. calls[p].op \in Returning /\ calls[p].at = "end" /\ IsTransitionAllowed(t, to)
  BY ReturningFacts DEF EndTrade
<1>2. Transition(t, to) /\ (Goto(p, "settle") \/ Return(p))
  BY <1>1 DEF EndTrade
<1>3. Returned(t) /\ (\A u \in Trades \ {t} : ~Returned(u)) /\ \A u : ~Returned(u)'
  BY <1>1, <1>2, AtEndOnly, CallReturnsNothing
<1>4. /\ status'[t] = to /\ \A u \in Trades \ {t} : status'[u] = status[u]
      /\ UNCHANGED <<owner, collateral, bal>>
  BY <1>2, BackedFacts DEF Transition, SetStatus, DbTypeOK
<1>5. ~Staked(t) /\ ~Staked(t)'
  BY <1>3, <1>4, Unstaked DEF Outcome, Terminal
<1>6. \A u \in Trades \ {t} : Alike(u)
  BY <1>3, <1>4 DEF Alike
<1> QED
  BY <1>4, <1>5, <1>6, BackedStays DEF EscrowStays

LEMMA SettleBacked ==
  ASSUME IsFiniteSet(Trades), OnceInv, Backed, Serial, NEW p \in Slots, Settle(p)
  PROVE  Backed'
<1> PICK t \in Trades : calls[p].trade = t
  BY DEF Settle, OnceInv, CollateralInv, FlowInv, CallOK, Returning, CloseOps
<1>1. (\A u : ~Returned(u)) /\ Return(p)
  BY NothingReturned DEF Settle
<1>2. \A u : ~Returned(u)'
  BY <1>1, CallReturnsNothing
<1>3. CASE UNCHANGED dbVars
  BY <1>1, <1>2, <1>3, CallsOnlyBacked
<1>4. CASE SettleTradeProfit(t)
  <2>1. Fee[t] \div 2 \in Nat
    BY TradesOK
  <2>2. PICK q \in Pairs : q = <<owner[t], Asset[t]>>
    BY <1>4, TradesOK, BackedFacts DEF SettleTradeProfit, Settles, DbTypeOK, Pairs
  <2>3. Enter(ProfitKey(t), q, "MANUAL_CREDIT", Fee[t] \div 2)
    BY <1>4, <2>2 DEF SettleTradeProfit
  <2>4. EscrowStays
    BY <2>1, <2>3, BackedFacts, EnterFee
  <2>5. \A u \in Trades : Alike(u)
    BY <1>1, <1>2, <1>4 DEF SettleTradeProfit, Alike
  <2> QED
    BY <2>4, <2>5, BackedStays
<1> QED
  BY <1>3, <1>4 DEF Settle

LEMMA ExpireBacked ==
  ASSUME IsFiniteSet(Trades), OnceInv, Backed, Serial, NEW p \in Slots,
         ApproveRelease(p) \/ ExpireOpen(p)
  PROVE  Backed'
<1> PICK t \in Trades : calls[p].trade = t
  BY DEF ApproveRelease, ExpireOpen, Running, OnceInv, CollateralInv, FlowInv, CallOK
<1>1. \A u : ~Returned(u)
  BY NothingReturned DEF ApproveRelease, ExpireOpen, Running, Returning, CloseOps
<1>2. CASE ApproveRelease(p)
  <2>1. Throw(p)
    BY <1>2 DEF ApproveRelease, IsTransitionAllowed, Allowed, Disputed, Running, OnceInv, CollateralInv,
                FlowInv, CallOK
  <2> QED
    BY <1>1, <2>1, ThrowBacked
<1>3. CASE ExpireOpen(p)
  <2>1. Return(p) /\ \A u : ~Returned(u)'
    BY <1>3, CallReturnsNothing DEF ExpireOpen
  <2>2. CASE UNCHANGED dbVars
    BY <1>1, <2>1, <2>2, CallsOnlyBacked
  <2>3. CASE Transition(t, "EXPIRED")
    <3>1. status[t] = "OPEN"
      BY <1>3 DEF ExpireOpen, Running, OnceInv, SerialCall
    <3> QED
      BY <1>1, <2>1, <2>3, <3>1, BackedFacts, StatusBacked DEF Transition, Underway, Terminal
  <2> QED
    BY <1>3, <2>2, <2>3 DEF ExpireOpen
<1> QED
  BY <1>2, <1>3

LEMMA StaleBacked ==
  ASSUME IsFiniteSet(Trades), OnceInv, Backed, Serial, NEW p \in Slots, CancelStale(p)
  PROVE  Backed'
<1> PICK t \in Trades : calls[p].trade = t
  BY DEF CancelStale, Running, OnceInv, CollateralInv, FlowInv, CallOK
<1> DEFINE e == calls[p].exch
<1>1. (\A u : ~Returned(u)) /\ Return(p)
  BY NothingReturned DEF CancelStale, Running, Returning, CloseOps
<1>2. \A u : ~Returned(u)'
  BY <1>1, CallReturnsNothing
<1>3. CASE UNCHANGED dbVars
  BY <1>1, <1>2, <1>3, CallsOnlyBacked
<1>4. CASE e # NoExchanger /\ CancelTradeAndReleaseEscrow(t, e)
  <2>1. e = owner[t] /\ Direction[t] = "CRYPTO" /\ owner[t] \in Exchangers
    <3>1. CallOK(p) /\ DirectCall(p) /\ DbTypeOK /\ calls[p].op = "cancel_stale"
      BY BackedFacts DEF CancelStale, Running, OnceInv, CollateralInv, FlowInv
    <3>2. e = owner[t] /\ Direction[t] = "CRYPTO"
      BY <1>4, <3>1 DEF CallOK, DirectCall
    <3> QED
      BY <1>4, <3>1, <3>2 DEF DbTypeOK
  <2>2. /\ IsTransitionAllowed(t, "CANCELLED") /\ SetStatus(t, "CANCELLED")
        /\ UNCHANGED <<owner, collateral>>
        /\ Enter(ReleaseKey(t, "CANCEL"), StakePair(t), "ESCROW_RELEASE", StakeSize(t))
    BY <1>4, <2>1 DEF CancelTradeAndReleaseEscrow, CanCancel, StakePair, StakeSize
  <2>3. status[t] \in Underway /\ status[t] \notin Terminal
    <3>1. status[t] \in Statuses /\ status[t] # "OPEN"
      BY <2>1, TradesOK, BackedFacts DEF DbTypeOK, OwnerByStatus
    <3> QED
      BY <2>2, <3>1, NotEnded DEF Underway
  <2>4. status'[t] = "CANCELLED" /\ \A u \in Trades \ {t} : status'[u] = status[u]
    BY <2>2, BackedFacts DEF SetStatus, DbTypeOK
  <2>5. Staked(t) /\ ~Staked(t)'
    BY <1>1, <2>1, <2>3, <2>4, TradesOK DEF Staked, StakePair, Pairs, Underway, Terminal
  <2>6. \A u \in Trades \ {t} : Alike(u)
    BY <1>1, <1>2, <2>2, <2>4 DEF Alike
  <2>7. PICK k : k = ReleaseKey(t, "CANCEL")
    OBVIOUS
  <2>8. k \notin keys
    BY <1>1, <2>3, <2>7, BackedFacts DEF KeysFresh, EscrowReasons
  <2> QED
    BY <2>2, <2>5, <2>6, <2>7, <2>8, BackedFacts, StakeReturned
<1> QED
  BY <1>3, <1>4 DEF CancelStale

LEMMA BackedStep ==
  ASSUME IsFiniteSet(Trades), BackedInv, Serial, [Next]_vars PROVE BackedInv'
<1> USE DEF BackedInv
<1>1. ASSUME NEW p \in Slots, Continue(p) PROVE Backed'
  BY <1>1, CollateralBacked, ClaimCallBacked, PayBacked, ReturnBacked, EndBacked, SettleBacked,
     ExpireBacked, StaleBacked DEF Continue
<1>2. ~ \E p \in Slots : Abandon(p)
  BY DEF Abandon, Serial
<1>3. CASE UNCHANGED vars
  <2>1. UNCHANGED dbVars /\ \A t : Returned(t) <=> Returned(t)'
    BY <1>3 DEF vars, flowVars, Returned
  <2> QED
    BY <2>1, OnceStep, CallsOnlyBacked
<1> QED
  BY <1>1, <1>2, <1>3, OnceStep, OneStepBacked, BeginBacked DEF Next

LEMMA BackedInit ==
  ASSUME IsFiniteSet(Trades), Init PROVE BackedInv
<1> SUFFICES ASSUME NEW q \in Pairs
             PROVE  bal[q].esc = SumFunctionOnSet(StakesIn(q), Trades)
  BY OnceInit DEF BackedInv, Backed
<1> DEFINE zero == [t \in Trades |-> 0]
<1>1. bal[q].esc = 0
  BY DEF Init, DbInit
<1>2. \A t \in Trades : StakesIn(q)[t] = 0
  BY DEF StakesIn, StakeIn, Staked, Init, DbInit, Underway
<1>3. SumFunctionOnSet(StakesIn(q), Trades) = 0
  BY <1>2, SumZero
<1> QED
  BY <1>1, <1>3

(* Between handlers the escrow of an exchanger is exactly what its trades   *)
(* under way need: nothing stays locked for a trade that has ended, and no  *)
(* trade under way has lost its escrow or its collateral.  One handler runs *)
(* at a time and none fails half-way; the hazards of the README show that   *)
(* either makes it false.                                                   *)
THEOREM EscrowAlwaysBacks ==
  ASSUME IsFiniteSet(Trades), Serial
  PROVE  Spec => []EscrowBacksTrades
<1>1. BackedInv => EscrowBacksTrades
  <2> SUFFICES ASSUME BackedInv, Quiet, NEW q \in Pairs
               PROVE  bal[q].esc = SumFunctionOnSet([t \in Trades |-> Stake(t, q)], Trades)
    BY DEF EscrowBacksTrades
  <2> DEFINE f == [t \in Trades |-> Stake(t, q)]
  <2>1. \A t : ~Returned(t)
    BY DEF Quiet, Free, NoCall, Returned, Returning, CloseOps
  <2>2. \A t \in Trades : StakesIn(q)[t] = f[t]
    BY <2>1 DEF StakesIn, StakeIn, Staked, Stake
  <2>3. SumFunctionOnSet(StakesIn(q), Trades) = SumFunctionOnSet(f, Trades)
    <3> HIDE DEF f
    <3> QED
      BY <2>2, SumSame
  <2> QED
    BY <2>3 DEF BackedInv, Backed
<1>2. BackedInv /\ [Next]_vars => BackedInv'
  BY BackedStep
<1>3. Init => BackedInv
  BY BackedInit
<1> QED
  BY <1>1, <1>2, <1>3, PTL DEF Spec

=============================================================================
