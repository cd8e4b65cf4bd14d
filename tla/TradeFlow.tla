------------------------------ MODULE TradeFlow ------------------------------
(***************************************************************************)
(* The handlers of a trade's life: Discord buttons and modals              *)
(* (tradeFlowHandler.ts), /close-ticket, the dashboard's force actions and *)
(* the expiry worker, interleaved at every await.                          *)
(*                                                                         *)
(* A handler reads the trade row without a lock, checks it, and then runs  *)
(* transactions of TradeDb one after another on the row it read.  A        *)
(* handler whose only transaction re-checks, under FOR UPDATE, everything  *)
(* its read checked is one step (the statuses it transitions from are the  *)
(* ones it accepts); every other handler is a call, one step per await.    *)
(* Any await may throw, and the process may restart: the rest of the call  *)
(* is then lost and what it committed stays (Abandon).                     *)
(***************************************************************************)
EXTENDS TradeDb, Functions

CONSTANTS Slots,       \* bound: the handlers running at once
          Ops,         \* the operations of this instance
          Overdue,     \* the trades that time out unless someone pays
          Failures,    \* whether an await may throw
          Rank         \* priorityAssets: the place of each asset of the list

AllOps == {"claim", "release", "dispute", "force_cancel", "force_release",
           "close", "dashboard", "expire", "cancel_stale"}

ASSUME FlowOK ==
  /\ Ops \subseteq AllOps
  /\ Overdue \subseteq Trades
  /\ Failures \in BOOLEAN
  /\ DOMAIN Rank \subseteq Assets
  /\ \A a, b \in DOMAIN Rank : Rank[a] \in Nat /\ (Rank[a] = Rank[b] => a = b)

VARIABLES calls,       \* the handler running in each slot
          buttons,     \* the messages with a button posted in trade channels
          queue        \* withdrawals.status of each trade's payment

\* The statuses of a withdrawal row; "NONE" where there is no row.
RowStatuses == {"NONE", "PENDING", "PROCESSING", "BROADCAST", "CONFIRMED", "FAILED"}

flowVars == <<calls, buttons, queue>>
vars == <<dbVars, flowVars>>

NoCall == [op |-> "none", trade |-> "none", at |-> "idle", exch |-> NoExchanger, coll |-> NoAsset]
Call(op, t, at) ==
  [op |-> op, trade |-> t, at |-> at, exch |-> owner[t], coll |-> collateral[t]]

Init == /\ DbInit
        /\ calls = [p \in Slots |-> NoCall]
        /\ buttons = {}
        /\ queue = [t \in Trades |-> "NONE"]

Free(p) == calls[p] = NoCall
IsFree == \E p \in Slots : Free(p)
Running(p, op, at) == calls[p].op = op /\ calls[p].at = at

\* The read at the head of a handler; then its next step is "at".
Start(p, op, t, at) == /\ Free(p)
                       /\ calls' = [calls EXCEPT ![p] = Call(op, t, at)]
                       /\ UNCHANGED <<dbVars, buttons, queue>>
Goto(p, at) == /\ calls' = [calls EXCEPT ![p].at = at]
               /\ UNCHANGED <<buttons, queue>>
Return(p) == /\ calls' = [calls EXCEPT ![p] = NoCall]
             /\ UNCHANGED <<buttons, queue>>

\* A transaction that throws ends the call.
Throw(p) == Return(p) /\ UNCHANGED dbVars
Skip(p, at) == Goto(p, at) /\ UNCHANGED dbVars

-----------------------------------------------------------------------------
(* Handlers of one transaction.                                             *)

\* handleClaim, or handleTermsAccept: a crypto trade is taken in one go.
HandleClaim(t, e) == /\ "claim" \in Ops /\ IsFree
                     /\ Direction[t] = "CRYPTO"
                     /\ Claim(t, e)
                     /\ UNCHANGED flowVars

HandleFiatSent(t) == /\ "release" \in Ops /\ IsFree
                     /\ Transition(t, "FIAT_SENT")
                     /\ UNCHANGED flowVars

HandleDispute(t) == /\ "dispute" \in Ops /\ IsFree
                    /\ Transition(t, "DISPUTED")
                    /\ UNCHANGED flowVars

\* The exchanger asks the buyer for an address: a message with a button.
HandleReleaseInternal(t) ==
  /\ "release" \in Ops /\ IsFree
  /\ Direction[t] = "CRYPTO"
  /\ status[t] = "FIAT_SENT"
  /\ buttons' = buttons \cup {<<"submit_wallet", t>>}
  /\ UNCHANGED <<dbVars, calls, queue>>

\* The buyer's "no": possible once the confirmation request was posted.
HandleExternalPaymentNotReceived(t) ==
  /\ "dispute" \in Ops /\ IsFree
  /\ <<"external_check", t>> \in buttons
  /\ status[t] = "RELEASE_PENDING"
  /\ Transition(t, "DISPUTED")
  /\ UNCHANGED flowVars

\* The dashboard's force-release and force-cancel: a bare transition.
DashboardForce(t) == /\ "dashboard" \in Ops /\ IsFree
                     /\ Transition(t, "COMPLETED") \/ Transition(t, "CANCELLED")
                     /\ UNCHANGED flowVars

-----------------------------------------------------------------------------
(* handleFiatToFiatClaim: take the trade, choose and lock collateral.       *)
BeginF2FClaim(p, t, e) ==
  /\ "claim" \in Ops /\ Free(p)
  /\ Direction[t] = "FIAT_TO_FIAT"
  /\ Claim(t, e)
  /\ calls' = [calls EXCEPT ![p] = [Call("claim", t, "choose") EXCEPT !.exch = e]]
  /\ UNCHANGED <<buttons, queue>>

\* The first asset of the list with anything available; it must cover the quote.
Offered(e) == {a \in DOMAIN Rank : bal[<<e, a>>].avail > 0}
Chosen(e) == CHOOSE a \in Offered(e) : \A b \in Offered(e) : Rank[a] <= Rank[b]

ChooseCollateral(p) ==
  LET c == calls[p]
      a == Chosen(c.exch)
  IN /\ Running(p, "claim", "choose")
     /\ IF Offered(c.exch) # {} /\ bal[<<c.exch, a>>].avail >= Quote[c.trade]
          THEN calls' = [calls EXCEPT ![p].at = "lock", ![p].coll = a]
          ELSE calls' = [calls EXCEPT ![p] = NoCall]
     /\ UNCHANGED <<dbVars, buttons, queue>>

LockChosen(p) ==
  LET c == calls[p]
  IN /\ Running(p, "claim", "lock")
     /\ IF CanLockCollateral(c.trade, c.exch, c.coll)
          THEN LockCollateral(c.trade, c.exch, c.coll) /\ Goto(p, "pending")
          ELSE Throw(p)

\* Mutant: the status is set without looking at it.
AwaitFiatUnchecked(p) ==
  /\ Running(p, "claim", "pending")
  /\ SetStatus(calls[p].trade, "FIAT_PENDING")
  /\ UNCHANGED <<owner, wallet, collateral, bal, profit, keys>>
  /\ Return(p)

AwaitFiat(p) ==
  LET t == calls[p].trade
  IN /\ Running(p, "claim", "pending")
     /\ IF IsTransitionAllowed(t, "FIAT_PENDING")
          THEN Transition(t, "FIAT_PENDING") /\ Return(p)
          ELSE Throw(p)

-----------------------------------------------------------------------------
(* The two ways to release.                                                 *)

\* The buyer submits the address; sendCryptoAsync then queues the payment.
HandleWalletAddressSubmit(p, t) ==
  /\ "release" \in Ops /\ Free(p)
  /\ <<"submit_wallet", t>> \in buttons
  /\ TransitionWithWallet(t)
  /\ calls' = [calls EXCEPT ![p] = Call("pay", t, "check")]
  /\ UNCHANGED <<buttons, queue>>

\* sendTradePayment reads the trade again before it queues.
CheckPayment(p) ==
  LET t == calls[p].trade
  IN /\ Running(p, "pay", "check")
     /\ IF status[t] = "RELEASE_PENDING" /\ wallet[t]
          THEN Skip(p, "queue")
          ELSE Throw(p)

QueueWithdrawal(p) ==
  LET t == calls[p].trade
  IN /\ Running(p, "pay", "queue")
     /\ queue' = [queue EXCEPT ![t] = IF @ \in {"NONE", "FAILED"} THEN "PENDING" ELSE @]
     /\ calls' = [calls EXCEPT ![p] = NoCall]
     /\ UNCHANGED <<dbVars, buttons>>

\* The exchanger says the payment was sent by hand; the buyer is then asked.
HandleReleaseExternal(p, t) ==
  /\ "release" \in Ops /\ Free(p)
  /\ Transition(t, "RELEASE_PENDING")
  /\ calls' = [calls EXCEPT ![p] = Call("external", t, "post")]
  /\ UNCHANGED <<buttons, queue>>

PostExternalCheck(p) ==
  /\ Running(p, "external", "post")
  /\ buttons' = buttons \cup {<<"external_check", calls[p].trade>>}
  /\ calls' = [calls EXCEPT ![p] = NoCall]
  /\ UNCHANGED <<dbVars, queue>>

-----------------------------------------------------------------------------
(* Handlers that return the escrow or the collateral and then end the trade. *)

\* handleExternalPaymentReceived: the buyer's "yes".
HandleExternalPaymentReceived(p, t) ==
  /\ "release" \in Ops
  /\ <<"external_check", t>> \in buttons
  /\ status[t] = "RELEASE_PENDING"
  /\ Start(p, "received", t, "return")

\* Mutants: a trade in dispute is not asked for, or nothing is returned.
ForceCancelAny(p, t) == "force_cancel" \in Ops /\ Start(p, "force_cancel", t, "return")
ForceCancelKeeps(p, t) == /\ "force_cancel" \in Ops
                          /\ status[t] = "DISPUTED"
                          /\ Start(p, "force_cancel", t, "end")

HandleForceCancel(p, t) == /\ "force_cancel" \in Ops
                           /\ status[t] = "DISPUTED"
                           /\ Start(p, "force_cancel", t, "return")

HandleForceRelease(p, t) ==
  /\ "force_release" \in Ops
  /\ status[t] = "DISPUTED"
  /\ IF Direction[t] = "FIAT_TO_FIAT" THEN Start(p, "force_release", t, "return")
     ELSE wallet[t] /\ owner[t] # NoExchanger /\ Start(p, "force_release", t, "approve")

\* handleAdminCloseTicket and /close-ticket: any trade that has not ended.
CloseOps == {"ADMIN_CLOSE", "CLOSE_CMD"}
HoldsEscrow == {"CLAIMED", "FIAT_PENDING", "FIAT_SENT", "RELEASE_PENDING"}
WithCollateral(t) == Direction[t] = "FIAT_TO_FIAT" /\ collateral[t] # NoAsset
HandleCloseTicket(p, t, how) ==
  /\ "close" \in Ops
  /\ status[t] \notin Terminal
  /\ Start(p, how, t, IF /\ owner[t] # NoExchanger
                         /\ WithCollateral(t) \/ status[t] \in HoldsEscrow
                      THEN "return" ELSE "end")

Returning == {"received", "force_cancel", "force_release"} \cup CloseOps
EscrowReason(op) == IF op = "received" THEN "COMPLETE" ELSE "CANCEL"
CollateralReason(op) == CASE op = "received"      -> "COMPLETE"
                          [] op = "force_cancel"  -> "CANCEL"
                          [] op = "force_release" -> "FORCE"
                          [] OTHER                -> op

\* Mutant: every handler goes on after a failed release.
ReturnLogs(p) == Skip(p, "end")

\* An error of the release ends the handler, but is only logged by close-ticket.
ReturnFails(p) == IF calls[p].op \in CloseOps THEN Skip(p, "end") ELSE Throw(p)

ReturnFunds(p) ==
  LET c == calls[p]
      t == c.trade
      e == c.exch
  IN /\ c.op \in Returning /\ c.at = "return"
     /\ IF e = NoExchanger THEN Skip(p, "end")
        ELSE IF Direction[t] = "FIAT_TO_FIAT" /\ c.coll # NoAsset
        THEN IF CanFree(t, e, c.coll, CollateralReason(c.op))
             THEN ReleaseCollateral(t, e, c.coll, CollateralReason(c.op)) /\ Goto(p, "end")
             ELSE ReturnFails(p)
        ELSE IF c.op = "force_release" THEN Skip(p, "end")
        ELSE IF CanRelease(t, e, EscrowReason(c.op))
             THEN ReleaseEscrow(t, e, EscrowReason(c.op)) /\ Goto(p, "end")
             ELSE ReturnFails(p)

Outcome(op) == IF op \in {"received", "force_release"} THEN "COMPLETED" ELSE "CANCELLED"

\* Mutant: the fee is shared whichever way the trade ends.
EndTradeSettles(p) ==
  LET c == calls[p]
  IN /\ c.op \in Returning /\ c.at = "end"
     /\ IF IsTransitionAllowed(c.trade, Outcome(c.op))
          THEN Transition(c.trade, Outcome(c.op)) /\ Goto(p, "settle")
          ELSE Throw(p)

EndTrade(p) ==
  LET c == calls[p]
  IN /\ c.op \in Returning /\ c.at = "end"
     /\ IF IsTransitionAllowed(c.trade, Outcome(c.op))
          THEN /\ Transition(c.trade, Outcome(c.op))
               /\ IF Outcome(c.op) = "COMPLETED" THEN Goto(p, "settle") ELSE Return(p)
          ELSE Throw(p)

Settle(p) ==
  LET c == calls[p]
  IN /\ c.op \in Returning /\ c.at = "settle"
     /\ IF Settles(c.trade) THEN SettleTradeProfit(c.trade) ELSE UNCHANGED dbVars
     /\ Return(p)

\* handleForceRelease of a crypto trade: back to RELEASE_PENDING, then pay.
ApproveRelease(p) ==
  LET t == calls[p].trade
  IN /\ Running(p, "force_release", "approve")
     /\ IF IsTransitionAllowed(t, "RELEASE_PENDING")
          THEN /\ Transition(t, "RELEASE_PENDING")
               /\ calls' = [calls EXCEPT ![p].op = "pay", ![p].at = "check"]
               /\ UNCHANGED <<buttons, queue>>
          ELSE Throw(p)

-----------------------------------------------------------------------------
(* expiryWorker.ts: SELECT the overdue trades, then end them one by one,    *)
(* awaiting notifications and Discord in between.                            *)
SelectExpired(p, t) == /\ "expire" \in Ops
                       /\ t \in Overdue
                       /\ status[t] = "OPEN"
                       /\ Start(p, "expire", t, "end")

\* Mutant: what the name cancelStaleClaimed suggests.
SelectStaleClaimed(p, t) == /\ "cancel_stale" \in Ops
                            /\ t \in Overdue
                            /\ status[t] = "CLAIMED"
                            /\ Start(p, "cancel_stale", t, "end")

SelectStale(p, t) == /\ "cancel_stale" \in Ops
                     /\ t \in Overdue
                     /\ status[t] = "FIAT_PENDING"
                     /\ Start(p, "cancel_stale", t, "end")

ExpireOpen(p) ==
  LET t == calls[p].trade
  IN /\ Running(p, "expire", "end")
     /\ IF IsTransitionAllowed(t, "EXPIRED") THEN Transition(t, "EXPIRED")
                                             ELSE UNCHANGED dbVars
     /\ Return(p)

CancelStale(p) ==
  LET c == calls[p]
  IN /\ Running(p, "cancel_stale", "end")
     /\ IF c.exch # NoExchanger /\ CanCancel(c.trade, c.exch)
          THEN CancelTradeAndReleaseEscrow(c.trade, c.exch)
          ELSE UNCHANGED dbVars
     /\ Return(p)

\* An await throws, or the process is restarted.
Abandon(p) == /\ Failures
              /\ ~Free(p)
              /\ Throw(p)

-----------------------------------------------------------------------------
Continue(p) == \/ ChooseCollateral(p) \/ LockChosen(p) \/ AwaitFiat(p)
               \/ CheckPayment(p) \/ QueueWithdrawal(p) \/ PostExternalCheck(p)
               \/ ReturnFunds(p) \/ EndTrade(p) \/ Settle(p) \/ ApproveRelease(p)
               \/ ExpireOpen(p) \/ CancelStale(p)

OneStep(t) == \/ \E e \in Exchangers : HandleClaim(t, e)
              \/ HandleFiatSent(t)
              \/ HandleDispute(t)
              \/ HandleReleaseInternal(t)
              \/ HandleExternalPaymentNotReceived(t)
              \/ DashboardForce(t)

Begin(p, t) == \/ \E e \in Exchangers : BeginF2FClaim(p, t, e)
               \/ HandleWalletAddressSubmit(p, t)
               \/ HandleReleaseExternal(p, t)
               \/ HandleExternalPaymentReceived(p, t)
               \/ HandleForceCancel(p, t)
               \/ HandleForceRelease(p, t)
               \/ \E how \in CloseOps : HandleCloseTicket(p, t, how)
               \/ SelectExpired(p, t)
               \/ SelectStale(p, t)

Next == \/ \E t \in Trades : OneStep(t) \/ \E p \in Slots : Begin(p, t)
        \/ \E p \in Slots : Continue(p) \/ Abandon(p)

Spec == Init /\ [][Next]_vars

\* Every await returns, and cron runs the expiry worker every minute, whatever
\* else is running.
Fairness == /\ \A p \in Slots : WF_vars(Continue(p))
            /\ \A t \in Overdue : SF_vars(\E p \in Slots : SelectExpired(p, t))
            /\ \A t \in Overdue : SF_vars(\E p \in Slots : SelectStale(p, t))
FairSpec == Spec /\ Fairness

-----------------------------------------------------------------------------
Quiet == \A p \in Slots : Free(p)
CallOps == {"none", "claim", "pay", "external", "expire", "cancel_stale"} \cup Returning
Places  == {"idle", "choose", "lock", "pending", "check", "queue", "post", "return",
            "approve", "end", "settle"}

(* Type correctness, and what a call remembers: the exchanger it read is    *)
(* still the trade's when the call acts on it, however late.                *)
FlowTypeOK ==
  /\ DbTypeOK
  /\ \A p \in Slots :
       LET c == calls[p]
       IN /\ c.op \in CallOps /\ c.at \in Places
          /\ c.exch # NoExchanger => c.exch = owner[c.trade]
  /\ buttons \subseteq {"submit_wallet", "external_check"} \X Trades
  /\ queue \in [Trades -> {"NONE", "PENDING"}]

(* Whatever a handler is interrupted by, its steps are the transactions of  *)
(* TradeDb asked for the exchanger and the collateral the trade really has. *)
RunsTransactions == DbSpec

(* The fee of a trade is shared only once the trade is COMPLETED, although  *)
(* settleTradeProfit itself never looks at the status.                      *)
FeeOnlyIfCompleted == \A t \in Trades :
                         ProfitKey(t) \in keys => status[t] = "COMPLETED"

(* A trade is paid by the bot or by hand, never both: once the buyer has    *)
(* been asked to confirm an external payment no payment is ever queued, and *)
(* the other way round, though both buttons stay in the channel.            *)
OneReleaseMethod == \A t \in Trades :
                       <<"external_check", t>> \in buttons => queue[t] = "NONE"

(* "Escrow returns on cancellation" (expiryWorker.ts): a crypto trade that  *)
(* is cancelled by force-cancel or by its timeout has its escrow returned,  *)
(* whatever ran or was interrupted between the two transactions.            *)
Ends(p, ops) == calls[p].op \in ops /\ calls'[p] = NoCall
Cancels(p, ops) == LET t == calls[p].trade
                   IN Ends(p, ops) /\ status[t] # "CANCELLED" /\ status'[t] = "CANCELLED"
CancelReturnsEscrow ==
  [][\A p \in Slots :
       LET t == calls[p].trade
       IN Cancels(p, {"force_cancel", "cancel_stale"}) /\ Direction[t] = "CRYPTO"
            => ReleaseKey(t, "CANCEL") \in keys']_vars

(* "The collateral is held until the trade completes or is cancelled": a    *)
(* fiat-to-fiat trade that force-cancel cancels has its collateral returned *)
(* and is not cancelled if that fails, whatever ran or was interrupted in   *)
(* between.  Force-cancel only: the timeout, close-ticket and the dashboard *)
(* end such a trade without it (README, findings 6, 7 and 9).               *)
CancelReturnsCollateral ==
  [][\A p \in Slots :
       LET t == calls[p].trade
       IN Cancels(p, {"force_cancel"}) /\ WithCollateral(t)
            => FreeKey(t, "CANCEL") \in keys']_vars

(* The escrow of a trade is released once: one key "per trade completion or *)
(* cancellation" (idempotency.ts).                                          *)
ReleasedOnce == \A t \in Trades :
                   ~ {ReleaseKey(t, why) : why \in EscrowReasons} \subseteq keys

Underway == Statuses \ (Terminal \cup {"OPEN"})
\* What a trade under way has locked: in which pair, and how much.
StakePair(t) == <<owner[t], IF Direction[t] = "CRYPTO" THEN Asset[t] ELSE collateral[t]>>
StakeSize(t) == IF Direction[t] = "CRYPTO" THEN Amount[t] ELSE Quote[t]
Stake(t, p) == IF status[t] \in Underway /\ StakePair(t) = p THEN StakeSize(t) ELSE 0

(* Between handlers the escrow of an exchanger is exactly what its trades   *)
(* under way need: nothing is locked for a trade that has ended, and no     *)
(* trade under way has lost its escrow or collateral.                       *)
EscrowBacksTrades ==
  Quiet => \A p \in Pairs :
              bal[p].esc = SumFunctionOnSet([t \in Trades |-> Stake(t, p)], Trades)

(* A trade nobody takes, or nobody pays for, ends by itself, and nothing    *)
(* stays locked for it.                                                     *)
Unpaid == {"OPEN", "FIAT_PENDING"}
UnpaidTradesEnd ==
  \A t \in Overdue : status[t] \in Unpaid ~> status[t] \notin Unpaid
=============================================================================
