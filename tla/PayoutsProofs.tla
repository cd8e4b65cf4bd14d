---------------------------- MODULE PayoutsProofs ----------------------------
(***************************************************************************)
(* Proofs about Payouts for any trades, operations, transactions, limit of *)
(* attempts and runs of the worker at once: one run at a time works on a   *)
(* row, the ledger records as paid only what was broadcast, for a trade    *)
(* that was released, and what counts as paid was recorded and is not paid *)
(* again.  The handlers keep their invariant while the bot pays, trades    *)
(* are cancelled with what they had locked returned, and the whole engine  *)
(* implements TradeDb.  A second payment of a trade takes a run that fails *)
(* between its broadcast and CRYPTO_SENT.                                  *)
(***************************************************************************)
EXTENDS Payouts, TradeFlowProofs

JobRecords == [trade: Trades \cup {"none"}, tx: Txs \cup {NoTx},
               at: {"idle", "check", "send", "record", "sent", "mark", "fail"}]

PayShape == /\ queue \in [Trades -> RowStatuses]
            /\ wallet \in [Trades -> BOOLEAN]
            /\ jobs \in [Workers -> JobRecords]
            /\ chain \in [Txs -> Trades \cup {"none"}]

\* What a run knows of the row it claimed, and of the trade, at each await.
JobOK(w) ==
  LET t == jobs[w].trade
      at == jobs[w].at
  IN IF at = "idle" THEN jobs[w] = NoJob
     ELSE /\ t \in Trades
          /\ queue[t] \in {"PROCESSING", "CONFIRMED"}
          /\ at \in {"send", "record"} => wallet[t]
          /\ at = "record" => jobs[w].tx \in Txs /\ chain[jobs[w].tx] = t

\* A run that ends its row gives it up: no other may be at it still.
RunsApart == \A v, w \in Workers :
            v # w /\ jobs[v].at # "idle" => jobs[v].trade # jobs[w].trade

PayInv == /\ PayShape
          /\ \A w \in Workers : JobOK(w)
          /\ RunsApart
          /\ RecordsAreSent

-----------------------------------------------------------------------------
(* What the handlers of a trade do to the queue, the wallet and the keys    *)

SameKeys == \A t \in Trades, tx \in Txs : PayKey(t, tx) \in keys' => PayKey(t, tx) \in keys
WalletStays == \A t \in Trades : wallet[t] => wallet'[t]
WalletShape == wallet \in [Trades -> BOOLEAN] /\ wallet' \in [Trades -> BOOLEAN]
Harmless == SameKeys /\ WalletStays /\ WalletShape

LEMMA KeysApart ==
  ASSUME NEW t, NEW x, NEW s, NEW y
  PROVE  /\ PayKey(s, y) # LockKey(t, x) /\ PayKey(s, y) # ReleaseKey(t, x)
         /\ PayKey(s, y) # CollateralKey(t, x) /\ PayKey(s, y) # FreeKey(t, x)
         /\ PayKey(s, y) # ProfitKey(t)
         /\ PayKey(s, y) = PayKey(t, x) => s = t /\ y = x
BY DEF PayKey, LockKey, ReleaseKey, CollateralKey, FreeKey, ProfitKey

LEMMA HarmlessUnchanged ==
  ASSUME wallet \in [Trades -> BOOLEAN], UNCHANGED <<keys, wallet>> PROVE Harmless
BY DEF Harmless, SameKeys, WalletStays, WalletShape

LEMMA HarmlessEnter ==
  ASSUME wallet \in [Trades -> BOOLEAN], UNCHANGED wallet,
         NEW k, NEW p, NEW kind, NEW n, Enter(k, p, kind, n),
         \A t \in Trades, tx \in Txs : k # PayKey(t, tx)
  PROVE  Harmless
BY DEF Enter, Harmless, SameKeys, WalletStays, WalletShape

LEMMA HarmlessTransactions ==
  ASSUME wallet \in [Trades -> BOOLEAN], NEW t, NEW e, NEW a, NEW to, NEW why,
         \/ Transition(t, to) \/ TransitionToClaimed(t, e) \/ TransitionWithWallet(t)
         \/ ClaimTradeWithEscrow(t, e) \/ ReleaseEscrow(t, e, why)
         \/ CancelTradeAndReleaseEscrow(t, e) \/ LockCollateral(t, e, a)
         \/ ReleaseCollateral(t, e, a, why) \/ SettleTradeProfit(t)
  PROVE  Harmless
<1>1. CASE Transition(t, to) \/ TransitionToClaimed(t, e)
  BY <1>1, HarmlessUnchanged DEF Transition, TransitionToClaimed
<1>2. CASE TransitionWithWallet(t)
  BY <1>2 DEF TransitionWithWallet, Harmless, SameKeys, WalletStays, WalletShape
<1>3. CASE ClaimTradeWithEscrow(t, e)
  BY <1>3, HarmlessEnter, KeysApart DEF ClaimTradeWithEscrow
<1>4. CASE ReleaseEscrow(t, e, why)
  BY <1>4, HarmlessEnter, KeysApart DEF ReleaseEscrow
<1>5. CASE CancelTradeAndReleaseEscrow(t, e)
  BY <1>5, HarmlessEnter, KeysApart DEF CancelTradeAndReleaseEscrow
<1>6. CASE LockCollateral(t, e, a)
  BY <1>6, HarmlessEnter, KeysApart DEF LockCollateral
<1>7. CASE ReleaseCollateral(t, e, a, why)
  BY <1>7, HarmlessEnter, KeysApart DEF ReleaseCollateral
<1>8. CASE SettleTradeProfit(t)
  BY <1>8, HarmlessEnter, KeysApart DEF SettleTradeProfit
<1> QED
  BY <1>1, <1>2, <1>3, <1>4, <1>5, <1>6, <1>7, <1>8

\* A handler enters a row in the queue only where there is none or it has failed.
QueueGrows == \A t \in Trades : queue'[t] # queue[t] => queue[t] \in {"NONE", "FAILED"}

LEMMA QueueUnchanged == UNCHANGED queue => QueueGrows
BY DEF QueueGrows

LEMMA OneStepEffect ==
  ASSUME wallet \in [Trades -> BOOLEAN], NEW t \in Trades, OneStep(t)
  PROVE  Harmless /\ UNCHANGED queue
<1>1. ASSUME NEW e \in Exchangers, HandleClaim(t, e) PROVE Harmless /\ UNCHANGED queue
  BY <1>1, HarmlessTransactions DEF HandleClaim, Claim, flowVars
<1>2. CASE HandleFiatSent(t)
  BY <1>2, HarmlessTransactions DEF HandleFiatSent, flowVars
<1>3. CASE HandleDispute(t)
  BY <1>3, HarmlessTransactions DEF HandleDispute, flowVars
<1>4. CASE HandleReleaseInternal(t)
  BY <1>4, HarmlessUnchanged DEF HandleReleaseInternal, dbVars
<1>5. CASE HandleExternalPaymentNotReceived(t)
  BY <1>5, HarmlessTransactions DEF HandleExternalPaymentNotReceived, flowVars
<1>6. CASE DashboardForce(t)
  BY <1>6, HarmlessTransactions DEF DashboardForce, flowVars
<1> QED
  BY <1>1, <1>2, <1>3, <1>4, <1>5, <1>6 DEF OneStep

LEMMA BeginEffect ==
  ASSUME wallet \in [Trades -> BOOLEAN], NEW p \in Slots, NEW t \in Trades, Begin(p, t)
  PROVE  Harmless /\ UNCHANGED queue
<1>1. ASSUME NEW e \in Exchangers, BeginF2FClaim(p, t, e) PROVE Harmless /\ UNCHANGED queue
  BY <1>1, HarmlessTransactions DEF BeginF2FClaim, Claim
<1>2. CASE HandleWalletAddressSubmit(p, t)
  BY <1>2, HarmlessTransactions DEF HandleWalletAddressSubmit
<1>3. CASE HandleReleaseExternal(p, t)
  BY <1>3, HarmlessTransactions DEF HandleReleaseExternal
<1>4. ASSUME NEW op, NEW at, Start(p, op, t, at) PROVE Harmless /\ UNCHANGED queue
  BY <1>4, HarmlessUnchanged DEF Start, dbVars
<1>5. CASE \/ HandleExternalPaymentReceived(p, t) \/ HandleForceCancel(p, t)
           \/ SelectExpired(p, t) \/ SelectStale(p, t)
  BY <1>4, <1>5 DEF HandleExternalPaymentReceived, HandleForceCancel, SelectExpired, SelectStale
<1>6. CASE HandleForceRelease(p, t)
  BY <1>4, <1>6 DEF HandleForceRelease
<1>7. ASSUME NEW how \in CloseOps, HandleCloseTicket(p, t, how) PROVE Harmless /\ UNCHANGED queue
  BY <1>4, <1>7 DEF HandleCloseTicket
<1> QED
  BY <1>1, <1>2, <1>3, <1>5, <1>6, <1>7 DEF Begin

StepEffect == Harmless /\ QueueGrows /\ queue' \in [Trades -> RowStatuses]

LEMMA ContinueEffect ==
  ASSUME wallet \in [Trades -> BOOLEAN], queue \in [Trades -> RowStatuses],
         NEW p \in Slots, Continue(p) \/ Abandon(p)
  PROVE  StepEffect
<1>0. Harmless /\ UNCHANGED queue => StepEffect
  BY QueueUnchanged DEF StepEffect
<1>1. ASSUME UNCHANGED dbVars, UNCHANGED queue PROVE StepEffect
  BY <1>0, <1>1, HarmlessUnchanged DEF dbVars
<1>2. ASSUME Throw(p) PROVE StepEffect
  BY <1>1, <1>2 DEF Throw, Return
<1>3. ASSUME NEW at, Skip(p, at) PROVE StepEffect
  BY <1>1, <1>3 DEF Skip, Goto
<1>4. ASSUME Harmless, \/ \E at : Goto(p, at)
                    \/ Return(p)
      PROVE  StepEffect
  BY <1>0, <1>4 DEF Goto, Return
<1>5. CASE ChooseCollateral(p)
  BY <1>1, <1>5 DEF ChooseCollateral
<1>6. CASE LockChosen(p)
  BY <1>2, <1>4, <1>6, HarmlessTransactions DEF LockChosen
<1>7. CASE AwaitFiat(p)
  BY <1>2, <1>4, <1>7, HarmlessTransactions DEF AwaitFiat
<1>8. CASE CheckPayment(p)
  BY <1>2, <1>3, <1>8 DEF CheckPayment
<1>9. CASE QueueWithdrawal(p)
  <2> DEFINE q == calls[p].trade
  <2>1. queue' = [queue EXCEPT ![q] = IF queue[q] \in {"NONE", "FAILED"} THEN "PENDING" ELSE queue[q]]
    BY <1>9 DEF QueueWithdrawal
  <2>2. UNCHANGED dbVars
    BY <1>9 DEF QueueWithdrawal
  <2> HIDE DEF q
  <2>3. queue' \in [Trades -> RowStatuses] /\ QueueGrows
    BY <2>1 DEF QueueGrows, RowStatuses
  <2> QED
    BY <2>2, <2>3, HarmlessUnchanged DEF StepEffect, dbVars
<1>10. CASE PostExternalCheck(p)
  BY <1>1, <1>10 DEF PostExternalCheck
<1>11. CASE ReturnFunds(p)
  BY <1>2, <1>3, <1>4, <1>11, HarmlessTransactions DEF ReturnFunds, ReturnFails
<1>12. CASE EndTrade(p)
  BY <1>2, <1>4, <1>12, HarmlessTransactions DEF EndTrade
<1>13. CASE Settle(p)
  BY <1>1, <1>4, <1>13, HarmlessTransactions DEF Settle, Return
<1>14. CASE ApproveRelease(p)
  <2>1. CASE IsTransitionAllowed(calls[p].trade, "RELEASE_PENDING")
    BY <1>0, <1>14, <2>1, HarmlessTransactions DEF ApproveRelease
  <2>2. CASE ~IsTransitionAllowed(calls[p].trade, "RELEASE_PENDING")
    BY <1>2, <1>14, <2>2 DEF ApproveRelease
  <2> QED
    BY <2>1, <2>2
<1>15. CASE ExpireOpen(p)
  BY <1>1, <1>4, <1>15, HarmlessTransactions DEF ExpireOpen, Return
<1>16. CASE CancelStale(p)
  BY <1>1, <1>4, <1>16, HarmlessTransactions DEF CancelStale, Return
<1>17. CASE Abandon(p)
  BY <1>2, <1>17 DEF Abandon
<1> QED
  BY <1>5, <1>6, <1>7, <1>8, <1>9, <1>10, <1>11, <1>12, <1>13, <1>14, <1>15, <1>16, <1>17
     DEF Continue

LEMMA FlowEffect ==
  ASSUME wallet \in [Trades -> BOOLEAN], queue \in [Trades -> RowStatuses], Next
  PROVE  StepEffect
<1>1. ASSUME NEW t \in Trades, OneStep(t) PROVE StepEffect
  BY <1>1, OneStepEffect, QueueUnchanged DEF StepEffect
<1>2. ASSUME NEW t \in Trades, NEW p \in Slots, Begin(p, t) PROVE StepEffect
  BY <1>2, BeginEffect, QueueUnchanged DEF StepEffect
<1> QED
  BY <1>1, <1>2, ContinueEffect DEF Next

-----------------------------------------------------------------------------
(* The worker                                                               *)

Held == {"PROCESSING", "CONFIRMED"}

\* What a broadcast pays is settled for good.
ChainStays == \A tx \in Txs : chain[tx] # "none" => chain'[tx] = chain[tx]

LEMMA JobStays ==
  ASSUME PayInv, WalletStays, ChainStays, NEW v \in Workers, jobs'[v] = jobs[v],
         \A t \in Trades : t = jobs[v].trade /\ queue[t] \in Held => queue'[t] \in Held
  PROVE  JobOK(v)'
BY PayoutsOK DEF PayInv, JobOK, WalletStays, ChainStays, Held

LEMMA RecordsStay ==
  ASSUME PayInv, SameKeys, WalletStays, ChainStays PROVE RecordsAreSent'
BY PayoutsOK DEF PayInv, RecordsAreSent, SameKeys, WalletStays, ChainStays

\* A step of one run, on its own row.
LEMMA OneJob ==
  ASSUME PayInv, PayShape', RecordsAreSent', WalletStays, ChainStays, NEW w \in Workers,
         \A v \in Workers \ {w} : jobs'[v] = jobs[v],
         jobs[w].at # "idle", jobs'[w].trade = jobs[w].trade \/ jobs'[w] = NoJob,
         \A t \in Trades \ {jobs[w].trade} : queue[t] \in Held => queue'[t] \in Held,
         JobOK(w)'
  PROVE  PayInv'
<1>1. ASSUME NEW v \in Workers PROVE JobOK(v)'
  <2>1. CASE v = w
    BY <2>1
  <2>2. CASE v # w
    <3>1. \A t \in Trades : t = jobs[v].trade /\ queue[t] \in Held => queue'[t] \in Held
      BY <2>2 DEF PayInv, RunsApart
    <3> QED
      BY <2>2, <3>1, JobStays
  <2> QED
    BY <2>1, <2>2
<1>2. \A v \in Workers : jobs[v].at # "idle" => jobs[v].trade \in Trades
  BY DEF PayInv, JobOK
<1>3. RunsApart'
  BY <1>2, PayoutsOK DEF PayInv, RunsApart, NoJob
<1> QED
  BY <1>1, <1>3 DEF PayInv

\* Steps in which no run moves.
LEMMA NoJobMoves ==
  ASSUME PayInv, PayShape', SameKeys, WalletStays, ChainStays, UNCHANGED jobs,
         \A t \in Trades : queue[t] \in Held => queue'[t] \in Held
  PROVE  PayInv'
<1>1. RecordsAreSent'
  BY RecordsStay
<1>2. \A v \in Workers : JobOK(v)'
  BY JobStays
<1>3. RunsApart'
  BY DEF PayInv, RunsApart
<1> QED
  BY <1>1, <1>2, <1>3 DEF PayInv

LEMMA JobToEffect ==
  ASSUME PayShape, NEW w \in Workers,
         NEW at \in {"check", "send", "record", "sent", "mark", "fail"}, JobTo(w, at)
  PROVE  /\ jobs' \in [Workers -> JobRecords]
         /\ \A v \in Workers \ {w} : jobs'[v] = jobs[v]
         /\ jobs'[w].at = at /\ jobs'[w].trade = jobs[w].trade /\ jobs'[w].tx = jobs[w].tx
BY DEF PayShape, JobTo, JobRecords

LEMMA JobDoneEffect ==
  ASSUME PayShape, NEW w \in Workers, JobDone(w)
  PROVE  /\ jobs' \in [Workers -> JobRecords]
         /\ \A v \in Workers \ {w} : jobs'[v] = jobs[v]
         /\ jobs'[w] = NoJob /\ jobs'[w].at = "idle"
<1>1. NoJob \in JobRecords /\ NoJob.at = "idle"
  BY DEF NoJob, JobRecords
<1> QED
  BY <1>1 DEF PayShape, JobDone

\* What JobOK says of a run that goes on.
LEMMA JobFacts ==
  ASSUME PayInv, NEW w \in Workers, jobs[w].at # "idle"
  PROVE  /\ jobs[w].trade \in Trades /\ queue[jobs[w].trade] \in Held
         /\ jobs[w].at \in {"send", "record"} => wallet[jobs[w].trade]
         /\ jobs[w].at = "record" => jobs[w].tx \in Txs /\ chain[jobs[w].tx] = jobs[w].trade
BY DEF PayInv, JobOK, Held

LEMMA PayTypes == PayInv => /\ PayShape /\ wallet \in [Trades -> BOOLEAN]
                            /\ queue \in [Trades -> RowStatuses]
BY DEF PayInv, PayShape

LEMMA ClaimRowStep ==
  ASSUME PayInv, NEW w \in Workers, NEW t \in Trades, ClaimRow(w, t)
  PROVE  PayInv'
<1> DEFINE new == [trade |-> t, at |-> "check", tx |-> NoTx]
<1>1. new \in JobRecords /\ new.trade = t /\ new.at = "check"
  BY DEF JobRecords
<1>2. /\ jobs' = [jobs EXCEPT ![w] = new] /\ queue' = [queue EXCEPT ![t] = "PROCESSING"]
      /\ queue[t] = "PENDING" /\ jobs[w] = NoJob
      /\ UNCHANGED <<wallet, keys, chain>>
  BY DEF ClaimRow, SetRow, Idle, dbVars
<1> HIDE DEF new
<1>3. jobs'[w] = new /\ \A v \in Workers \ {w} : jobs'[v] = jobs[v]
  BY <1>2 DEF PayInv, PayShape
<1>4. queue'[t] = "PROCESSING" /\ \A q \in Trades \ {t} : queue'[q] = queue[q]
  BY <1>2 DEF PayInv, PayShape
<1>5. PayShape'
  BY <1>1, <1>2 DEF PayInv, PayShape, RowStatuses
<1>6. SameKeys /\ WalletStays /\ ChainStays
  BY <1>2 DEF SameKeys, WalletStays, ChainStays
<1>7. RecordsAreSent'
  BY <1>6, RecordsStay
<1>8. JobOK(w)'
  BY <1>1, <1>3, <1>4 DEF JobOK
<1>9. ASSUME NEW v \in Workers \ {w} PROVE JobOK(v)'
  <2>1. \A q \in Trades : q = jobs[v].trade /\ queue[q] \in Held => queue'[q] \in Held
    BY <1>4 DEF Held
  <2> QED
    BY <1>3, <1>6, <2>1, JobStays
<1>10. \A v \in Workers : jobs[v].at # "idle" => jobs[v].trade # t
  BY <1>2, JobFacts DEF Held
<1>11. \A v \in Workers : jobs[v].at = "idle" => jobs[v].trade # t
  BY PayoutsOK DEF PayInv, JobOK, NoJob
<1>12. RunsApart'
  BY <1>1, <1>3, <1>10, <1>11 DEF PayInv, RunsApart
<1> QED
  BY <1>5, <1>7, <1>8, <1>9, <1>12 DEF PayInv

\* Steps that only move a run on, or end it for its row.
LEMMA JobGoes ==
  ASSUME PayInv, NEW w \in Workers, jobs[w].at # "idle",
         NEW at \in {"check", "send", "record", "sent", "mark", "fail"}, JobTo(w, at),
         at = "send" => wallet[jobs[w].trade], at # "record",
         Harmless, UNCHANGED <<queue, chain>>
  PROVE  PayInv'
<1>1. /\ jobs' \in [Workers -> JobRecords]
      /\ \A v \in Workers \ {w} : jobs'[v] = jobs[v]
      /\ jobs'[w].at = at /\ jobs'[w].trade = jobs[w].trade
  BY PayTypes, JobToEffect
<1>2. PayShape' /\ WalletStays /\ SameKeys /\ ChainStays
  BY <1>1 DEF PayInv, PayShape, Harmless, WalletShape, ChainStays
<1>3. RecordsAreSent'
  BY <1>2, RecordsStay
<1>4. jobs[w].trade \in Trades /\ queue[jobs[w].trade] \in Held
  BY JobFacts
<1>5. JobOK(w)'
  BY <1>1, <1>2, <1>4 DEF JobOK, Held, WalletStays
<1> QED
  BY <1>1, <1>2, <1>3, <1>5, OneJob

LEMMA JobEnds ==
  ASSUME PayInv, NEW w \in Workers, jobs[w].at # "idle", JobDone(w),
         NEW to \in RowStatuses, SetRow(jobs[w].trade, to),
         UNCHANGED <<wallet, keys, chain>>
  PROVE  PayInv'
<1>1. /\ jobs' \in [Workers -> JobRecords]
      /\ \A v \in Workers \ {w} : jobs'[v] = jobs[v]
      /\ jobs'[w] = NoJob /\ jobs'[w].at = "idle"
  BY PayTypes, JobDoneEffect
<1>2. /\ queue' \in [Trades -> RowStatuses]
      /\ \A q \in Trades \ {jobs[w].trade} : queue'[q] = queue[q]
  BY PayTypes DEF SetRow
<1>3. PayShape' /\ WalletStays /\ SameKeys /\ ChainStays
  BY <1>1, <1>2 DEF PayInv, PayShape, WalletStays, SameKeys, ChainStays
<1>4. RecordsAreSent'
  BY <1>3, RecordsStay
<1>5. JobOK(w)'
  BY <1>1 DEF JobOK
<1> QED
  BY <1>1, <1>2, <1>3, <1>4, <1>5, OneJob

LEMMA BroadcastStep ==
  ASSUME PayInv, NEW w \in Workers, NEW tx \in Txs, NEW at \in {"record", "fail"},
         Broadcast(w, tx, at)
  PROVE  PayInv'
<1>1. /\ jobs[w].at = "send" /\ chain[tx] = "none"
      /\ chain' = [chain EXCEPT ![tx] = jobs[w].trade]
      /\ jobs' = [jobs EXCEPT ![w].at = at, ![w].tx = tx]
      /\ UNCHANGED <<queue, wallet, keys>>
  BY DEF Broadcast, At, Unsent, vars, dbVars, flowVars
<1>2. jobs[w].trade \in Trades /\ queue[jobs[w].trade] \in Held /\ wallet[jobs[w].trade]
  BY <1>1, JobFacts
<1>3. /\ jobs' \in [Workers -> JobRecords]
      /\ \A v \in Workers \ {w} : jobs'[v] = jobs[v]
      /\ jobs'[w].at = at /\ jobs'[w].trade = jobs[w].trade /\ jobs'[w].tx = tx
  BY <1>1 DEF PayInv, PayShape, JobRecords
<1>4. chain' \in [Txs -> Trades \cup {"none"}] /\ chain'[tx] = jobs[w].trade /\ ChainStays
  BY <1>1, <1>2 DEF PayInv, PayShape, ChainStays
<1>5. PayShape' /\ WalletStays /\ SameKeys
  BY <1>1, <1>3, <1>4 DEF PayInv, PayShape, WalletStays, SameKeys
<1>6. RecordsAreSent'
  BY <1>4, <1>5, RecordsStay
<1>7. JobOK(w)'
  BY <1>1, <1>2, <1>3, <1>4 DEF JobOK, Held
<1> QED
  BY <1>1, <1>3, <1>4, <1>5, <1>6, <1>7, OneJob

\* The one step that records: the run knows that its tx went out for its trade.
LEMMA RecordStep ==
  ASSUME PayInv, NEW w \in Workers, RecordPayment(w)
  PROVE  PayInv'
<1> DEFINE t == jobs[w].trade
           tx == jobs[w].tx
<1>1. jobs[w].at = "record" /\ UNCHANGED <<queue, chain>>
  BY DEF RecordPayment, At, flowVars
<1>2. t \in Trades /\ queue[t] \in Held /\ wallet[t] /\ tx \in Txs /\ chain[tx] = t
  BY <1>1, JobFacts
<1>3. CASE UNCHANGED dbVars /\ JobTo(w, "fail")
  <2>1. Harmless
    BY <1>3, PayTypes, HarmlessUnchanged DEF dbVars
  <2> QED
    BY <1>1, <1>3, <2>1, JobGoes
<1>4. CASE RecordWithdrawal(t, owner[t], tx) /\ JobTo(w, "sent")
  <2>1. /\ jobs' \in [Workers -> JobRecords]
        /\ \A v \in Workers \ {w} : jobs'[v] = jobs[v]
        /\ jobs'[w].at = "sent" /\ jobs'[w].trade = jobs[w].trade
    BY <1>4, PayTypes, JobToEffect
  <2>2. UNCHANGED wallet /\ keys' = keys \cup {PayKey(t, tx)}
    BY <1>4 DEF RecordWithdrawal, Enter
  <2>3. PayShape' /\ WalletStays /\ ChainStays
    BY <1>1, <2>1, <2>2 DEF PayInv, PayShape, WalletStays, ChainStays
  <2>4. RecordsAreSent'
    <3> SUFFICES ASSUME NEW s \in Trades, NEW y \in Txs, PayKey(s, y) \in keys'
                 PROVE  chain[y] = s /\ wallet[s]
      BY <1>1, <2>2 DEF RecordsAreSent
    <3>1. CASE PayKey(s, y) \in keys
      BY <3>1 DEF PayInv, RecordsAreSent
    <3>2. CASE PayKey(s, y) = PayKey(t, tx)
      BY <1>2, <3>2, KeysApart
    <3> QED
      BY <2>2, <3>1, <3>2
  <2>5. JobOK(w)'
    BY <1>1, <1>2, <2>1 DEF JobOK, Held
  <2> QED
    BY <1>1, <2>1, <2>3, <2>4, <2>5, OneJob
<1> QED
  BY <1>3, <1>4 DEF RecordPayment

LEMMA WorkerSteps ==
  ASSUME PayInv, NEW w \in Workers, WorkerStep(w)
  PROVE  PayInv'
<1>0. ASSUME UNCHANGED <<wallet, keys>> PROVE Harmless
  BY <1>0, PayTypes, HarmlessUnchanged
<1>1. CASE CheckTrade(w)
  <2> DEFINE at == CASE status[jobs[w].trade] \in {"CRYPTO_SENT", "COMPLETED"} -> "mark"
                     [] status[jobs[w].trade] = "RELEASE_PENDING" /\ wallet[jobs[w].trade] -> "send"
                     [] OTHER -> "fail"
  <2>1. /\ JobTo(w, at) /\ jobs[w].at = "check" /\ UNCHANGED <<queue, chain, wallet, keys>>
    BY <1>1 DEF CheckTrade, At, vars, dbVars, flowVars
  <2>2. at \in {"send", "mark", "fail"} /\ (at = "send" => wallet[jobs[w].trade])
    OBVIOUS
  <2> HIDE DEF at
  <2> QED
    BY <1>0, <2>1, <2>2, JobGoes
<1>2. ASSUME NEW tx \in Txs, Send(w, tx) \/ SendUnanswered(w, tx) PROVE PayInv'
  BY <1>2, BroadcastStep DEF Send, SendUnanswered
<1>3. CASE MarkSent(w)
  <2>1. jobs[w].at = "sent" /\ UNCHANGED <<queue, chain>>
    BY <1>3 DEF MarkSent, At, flowVars
  <2>2. Harmless
    BY <1>0, <1>3, PayTypes, HarmlessTransactions DEF MarkSent, dbVars
  <2>3. JobTo(w, "mark") \/ JobTo(w, "fail")
    BY <1>3 DEF MarkSent
  <2> QED
    BY <2>1, <2>2, <2>3, JobGoes
<1>4. CASE MarkBroadcast(w)
  BY <1>4, JobEnds DEF MarkBroadcast, At, RowStatuses, dbVars
<1>5. CASE JobThrows(w)
  BY <1>0, <1>5, JobGoes DEF JobThrows, vars, dbVars, flowVars
<1>6. CASE FailJob(w)
  BY <1>6, JobEnds DEF FailJob, At, RowStatuses, dbVars
<1> QED
  BY <1>1, <1>2, <1>3, <1>4, <1>5, <1>6, ClaimRowStep, RecordStep DEF WorkerStep

-----------------------------------------------------------------------------
(* Everything else                                                          *)

LEMMA LoopSteps ==
  ASSUME PayInv, NEW tx \in Txs, LoopStep(tx)
  PROVE  PayInv'
<1>1. UNCHANGED <<jobs, chain>>
  BY DEF LoopStep, Confirm, SettlePaid, MarkConfirmed, LoopThrows, GiveUp
<1>2. Harmless
  <2>0. ASSUME UNCHANGED <<wallet, keys>> PROVE Harmless
    BY <2>0, PayTypes, HarmlessUnchanged
  <2>1. CASE Confirm(tx)
    BY <2>1, PayTypes, HarmlessTransactions DEF Confirm
  <2>2. CASE SettlePaid(tx)
    BY <2>0, <2>2, PayTypes, HarmlessTransactions DEF SettlePaid, dbVars
  <2>3. CASE MarkConfirmed(tx) \/ LoopThrows(tx) \/ GiveUp(tx)
    BY <2>0, <2>3 DEF MarkConfirmed, LoopThrows, GiveUp, vars, dbVars
  <2> QED
    BY <2>1, <2>2, <2>3 DEF LoopStep
<1>3. /\ queue' \in [Trades -> RowStatuses]
      /\ \A t \in Trades : queue[t] \in Held => queue'[t] \in Held
  <2>1. CASE MarkConfirmed(tx)
    <3> DEFINE t == chain[tx]
               to == IF queue[t] \in {"BROADCAST", "PROCESSING"} THEN "CONFIRMED" ELSE queue[t]
    <3>1. queue' = [queue EXCEPT ![t] = to]
      BY <2>1 DEF MarkConfirmed, SetRow
    <3>2. t \in Trades => to \in RowStatuses /\ (queue[t] \in Held => to \in Held)
      BY PayTypes DEF RowStatuses, Held
    <3> HIDE DEF t, to
    <3> QED
      BY <3>1, <3>2, PayTypes
  <2>2. CASE ~MarkConfirmed(tx)
    BY <2>2, PayTypes DEF LoopStep, Confirm, SettlePaid, LoopThrows, GiveUp, vars, flowVars
  <2> QED
    BY <2>1, <2>2
<1>4. PayShape' /\ ChainStays
  BY <1>1, <1>2, <1>3 DEF PayInv, PayShape, Harmless, WalletShape, ChainStays
<1> QED
  BY <1>1, <1>2, <1>3, <1>4, NoJobMoves DEF Harmless

LEMMA FlowSteps ==
  ASSUME PayInv, Next, UNCHANGED payVars PROVE PayInv'
<1>1. Harmless /\ QueueGrows /\ queue' \in [Trades -> RowStatuses] /\ UNCHANGED <<jobs, chain>>
  BY PayTypes, FlowEffect DEF StepEffect, payVars
<1>2. \A t \in Trades : queue[t] \in Held => queue'[t] \in Held
  BY <1>1 DEF QueueGrows, Held
<1>3. PayShape' /\ ChainStays
  BY <1>1 DEF PayInv, PayShape, Harmless, WalletShape, ChainStays
<1> QED
  BY <1>1, <1>2, <1>3, NoJobMoves DEF Harmless

LEMMA RetryStep ==
  ASSUME PayInv, NEW t \in Trades, RetryRow(t) PROVE PayInv'
<1>1. /\ queue' = [queue EXCEPT ![t] = "PENDING"] /\ queue[t] \notin Held
      /\ UNCHANGED <<wallet, keys, jobs, chain>>
  BY DEF RetryRow, SetRow, Held, dbVars, payVars
<1>2. /\ queue' \in [Trades -> RowStatuses]
      /\ \A q \in Trades : queue[q] \in Held => queue'[q] \in Held
  BY <1>1, PayTypes DEF RowStatuses
<1>3. PayShape' /\ ChainStays /\ SameKeys /\ WalletStays
  BY <1>1, <1>2 DEF PayInv, PayShape, ChainStays, SameKeys, WalletStays
<1> QED
  BY <1>1, <1>2, <1>3, NoJobMoves

LEMMA RestartKeeps == ASSUME PayInv, Restart PROVE PayInv'
<1>1. jobs' = [w \in Workers |-> NoJob] /\ UNCHANGED <<queue, wallet, keys, chain>>
  BY DEF Restart, dbVars
<1>2. NoJob \in JobRecords /\ NoJob.at = "idle"
  BY DEF NoJob, JobRecords
<1>3. PayShape' /\ SameKeys /\ WalletStays /\ ChainStays
  BY <1>1, <1>2 DEF PayInv, PayShape, SameKeys, WalletStays, ChainStays
<1>4. (\A w \in Workers : JobOK(w)') /\ RunsApart'
  BY <1>1, <1>2 DEF JobOK, RunsApart
<1> QED
  BY <1>3, <1>4, RecordsStay DEF PayInv

LEMMA PayUnchanged == ASSUME PayInv, UNCHANGED allVars PROVE PayInv'
BY DEF allVars, vars, dbVars, flowVars, payVars, PayInv, PayShape, JobOK, RunsApart, RecordsAreSent

LEMMA PayInvInit == PayInit => PayInv
<1> SUFFICES ASSUME PayInit PROVE PayInv
  OBVIOUS
<1>1. NoJob \in JobRecords /\ NoJob.at = "idle"
  BY DEF NoJob, JobRecords
<1>2. \A w \in Workers : jobs[w] = NoJob
  BY DEF PayInit
<1>3. PayShape
  BY <1>1 DEF PayInit, Init, DbInit, PayShape, RowStatuses
<1>4. (\A w \in Workers : JobOK(w)) /\ RunsApart
  BY <1>1, <1>2 DEF JobOK, RunsApart
<1>5. RecordsAreSent
  BY DEF PayInit, Init, DbInit, RecordsAreSent
<1> QED
  BY <1>3, <1>4, <1>5 DEF PayInv

THEOREM PayInvHolds == PaySpec => []PayInv
<1>1. PayInit => PayInv
  BY PayInvInit
<1>2. PayInv /\ [PayNext]_allVars => PayInv'
  BY WorkerSteps, LoopSteps, FlowSteps, RetryStep, RestartKeeps, PayUnchanged DEF PayNext
<1> QED
  BY <1>1, <1>2, PTL DEF PaySpec

\* Two runs of the worker never work on the same row: cron starts a run whether or
\* not the last is done, and the status of a row may change under a run.
THEOREM RowsHeldOnce == PaySpec => []RowHeldOnce
<1>1. PayInv => RowHeldOnce
  BY DEF PayInv, RunsApart, RowHeldOnce, JobOK, Idle, NoJob
<1> QED
  BY <1>1, PayInvHolds, PTL

\* What leaves the escrow of the ledger went out on the chain, for a released trade.
THEOREM RecordedWasSent == PaySpec => []RecordsAreSent
<1>1. PayInv => RecordsAreSent
  BY DEF PayInv
<1> QED
  BY <1>1, PayInvHolds, PTL

-----------------------------------------------------------------------------
(* The payment engine runs transactions of TradeDb: a payment is recorded   *)
(* for a trade that has an exchanger, and what a confirmation loop waits    *)
(* for was recorded first.                                                  *)

RunOK(w) ==
  LET j == jobs[w]
  IN /\ j.at \in {"send", "record"} => owner[j.trade] # NoExchanger
     /\ j.at = "sent" => /\ j.tx \in Txs /\ chain[j.tx] = j.trade
                         /\ PayKey(j.trade, j.tx) \in keys

LoopOK(tx) ==
  loops[tx] # "none" => /\ chain[tx] # "none"
                        /\ PayKey(chain[tx], tx) \in keys
                        /\ status[chain[tx]] \in Paid
                        /\ loops[tx] # "poll" => status[chain[tx]] = "COMPLETED"

PayCounts == /\ attempts \in [Trades -> 0..MaxAttempts]
             /\ loops \in [Txs -> {"none", "poll", "settle", "confirmed"}]

ChainInv == /\ PayCounts
            /\ \A w \in Workers : RunOK(w)
            /\ \A tx \in Txs : LoopOK(tx)

EngineInv == FlowInv /\ PayInv /\ ChainInv

LEMMA RunStays ==
  ASSUME EngineInv, Evolves, ChainStays, NEW v \in Workers, jobs'[v] = jobs[v]
  PROVE  RunOK(v)'
<1>1. JobOK(v) /\ RunOK(v)
  BY DEF EngineInv, PayInv, ChainInv
<1>2. jobs[v].at \in {"send", "record", "sent"} => jobs[v].trade \in Trades
  BY <1>1 DEF JobOK
<1> QED
  BY <1>1, <1>2, PayoutsOK DEF RunOK, Evolves, ChainStays

LEMMA LoopStays ==
  ASSUME EngineInv, Evolves, ChainStays, NEW tx \in Txs, loops'[tx] = loops[tx]
  PROVE  LoopOK(tx)'
<1>1. LoopOK(tx) /\ chain[tx] \in Trades \cup {"none"}
  BY DEF EngineInv, ChainInv, PayInv, PayShape
<1> QED
  BY <1>1 DEF LoopOK, Evolves, ChainStays

\* A step that moves rows of the queue, but makes and removes none.
LEMMA RowsMove ==
  ASSUME FlowInv, DbNext \/ UNCHANGED dbVars, FeesSafe, UNCHANGED <<calls, buttons, collateral>>,
         queue' \in [Trades -> RowStatuses],
         \A t \in Trades : queue'[t] = "NONE" <=> queue[t] = "NONE"
  PROVE  FlowInv' /\ [DbNext]_dbVars /\ Evolves
<1>1. DbInv' /\ Evolves
  BY DbEvolves DEF FlowInv
<1>2. FlowShape'
  BY DEF FlowInv, FlowShape, CallRecords
<1>3. \A q \in Slots : Undisturbed(q)
  BY DEF FlowInv, CallOK, Undisturbed, NotReleased
<1>4. \A q \in Slots : CallOK(q)'
  BY <1>1, <1>3, OtherCall
<1>5. Apart'
  BY DEF FlowInv, Apart
<1>6. ReleaseOK'
  BY <1>1 DEF FlowInv, Evolves, ReleaseOK, NotReleased
<1>7. CollateralSafe
  BY DEF CollateralSafe
<1>8. OpenUnlocked' /\ FeeOnlyIfCompleted'
  BY <1>1, <1>7, TradesStay
<1> QED
  BY <1>1, <1>2, <1>4, <1>5, <1>6, <1>8 DEF FlowInv

LEMMA RowsKept ==
  ASSUME FlowInv, Ordinary, UNCHANGED <<calls, buttons, queue>>
  PROVE  FlowInv' /\ [DbNext]_dbVars /\ Evolves
<1>1. FeesSafe /\ UNCHANGED collateral /\ (DbNext \/ UNCHANGED dbVars)
  BY OrdinarySafe DEF Ordinary
<1>2. queue' \in [Trades -> RowStatuses]
  BY DEF FlowInv, FlowShape
<1> QED
  BY <1>1, <1>2, RowsMove

LEMMA RowMoves ==
  ASSUME FlowInv, UNCHANGED dbVars, UNCHANGED <<calls, buttons>>,
         NEW t \in Trades, NEW to \in RowStatuses \ {"NONE"}, queue[t] # "NONE", SetRow(t, to)
  PROVE  FlowInv' /\ [DbNext]_dbVars /\ Evolves
<1>1. FeesSafe /\ UNCHANGED collateral
  BY OrdinaryNothing, OrdinarySafe DEF Ordinary
<1>2. /\ queue' \in [Trades -> RowStatuses]
      /\ \A u \in Trades : queue'[u] = "NONE" <=> queue[u] = "NONE"
  BY DEF FlowInv, FlowShape, SetRow
<1> QED
  BY <1>1, <1>2, RowsMove

LEMMA OrdinaryRecord ==
  ASSUME NEW t \in Trades, owner[t] # NoExchanger, NEW tx \in Txs,
         RecordWithdrawal(t, owner[t], tx)
  PROVE  Ordinary
<1>1. DbNext
  BY DEF DbNext, OwnedNext
<1>2. ProfitsStay /\ UNCHANGED collateral
  BY EnterKeys, KeysApart DEF RecordWithdrawal, ProfitsStay
<1> QED
  BY <1>1, <1>2 DEF Ordinary

\* One run moves, and no loop.
LEMMA RunMoves ==
  ASSUME EngineInv, Evolves, ChainStays, PayCounts', UNCHANGED loops, NEW w \in Workers,
         \A v \in Workers \ {w} : jobs'[v] = jobs[v], RunOK(w)'
  PROVE  ChainInv'
BY RunStays, LoopStays DEF ChainInv

\* One loop moves, and no run.
LEMMA LoopMoves ==
  ASSUME EngineInv, Evolves, UNCHANGED <<jobs, attempts, chain>>, NEW tx \in Txs,
         NEW at \in {"none", "poll", "settle", "confirmed"}, LoopTo(tx, at), LoopOK(tx)'
  PROVE  ChainInv'
<1>1. PayCounts' /\ \A x \in Txs \ {tx} : loops'[x] = loops[x]
  BY DEF EngineInv, ChainInv, PayCounts, LoopTo
<1>2. ChainStays
  BY DEF ChainStays
<1> QED
  BY <1>1, <1>2, RunStays, LoopStays DEF ChainInv

EngineStep == FlowInv' /\ [DbNext]_dbVars /\ Evolves /\ ChainInv'

\* A run moves on without touching the tables.
LEMMA RunGoes ==
  ASSUME EngineInv, NEW w \in Workers, jobs[w].at # "idle",
         NEW at \in {"check", "send", "record", "sent", "mark", "fail"}, JobTo(w, at),
         UNCHANGED <<vars, attempts, chain, loops>>, at \notin {"record", "sent"},
         at = "send" => status[jobs[w].trade] = "RELEASE_PENDING"
  PROVE  EngineStep
<1>1. FlowInv' /\ [DbNext]_dbVars /\ Evolves
  BY OrdinaryNothing, RowsKept DEF EngineInv, vars, flowVars
<1>2. /\ \A v \in Workers \ {w} : jobs'[v] = jobs[v]
      /\ jobs'[w].at = at /\ jobs'[w].trade = jobs[w].trade
  BY PayTypes, JobToEffect DEF EngineInv
<1>3. jobs[w].trade \in Trades
  BY JobFacts DEF EngineInv
<1>4. RunOK(w)'
  BY <1>2, <1>3 DEF RunOK, EngineInv, FlowInv, DbInv, OwnerByStatus, vars, dbVars
<1>5. PayCounts' /\ ChainStays
  BY DEF EngineInv, ChainInv, PayCounts, ChainStays
<1> QED
  BY <1>1, <1>2, <1>4, <1>5, RunMoves DEF EngineStep

\* A run ends, and its row with it.
LEMMA RunEnds ==
  ASSUME EngineInv, NEW w \in Workers, jobs[w].at # "idle", JobDone(w),
         NEW to \in RowStatuses \ {"NONE"}, SetRow(jobs[w].trade, to),
         UNCHANGED <<dbVars, calls, buttons, attempts, chain, loops>>
  PROVE  EngineStep
<1>1. /\ \A v \in Workers \ {w} : jobs'[v] = jobs[v]
      /\ jobs'[w].at = "idle"
  BY PayTypes, JobDoneEffect DEF EngineInv
<1>2. jobs[w].trade \in Trades /\ queue[jobs[w].trade] # "NONE"
  BY JobFacts DEF EngineInv, Held
<1>3. FlowInv' /\ [DbNext]_dbVars /\ Evolves
  BY <1>2, RowMoves DEF EngineInv
<1>4. RunOK(w)'
  BY <1>1 DEF RunOK
<1>5. PayCounts' /\ ChainStays
  BY DEF EngineInv, ChainInv, PayCounts, ChainStays
<1> QED
  BY <1>1, <1>3, <1>4, <1>5, RunMoves DEF EngineStep

LEMMA ClaimRowEngine ==
  ASSUME EngineInv, NEW w \in Workers, NEW t \in Trades, ClaimRow(w, t)
  PROVE  EngineStep
<1> DEFINE new == [trade |-> t, at |-> "check", tx |-> NoTx]
<1>1. /\ jobs' = [jobs EXCEPT ![w] = new] /\ queue[t] = "PENDING"
      /\ SetRow(t, "PROCESSING") /\ UNCHANGED <<calls, buttons, chain, loops>>
      /\ UNCHANGED dbVars
  BY DEF ClaimRow
<1>2. new.at = "check"
  OBVIOUS
<1> HIDE DEF new
<1>3. FlowInv' /\ [DbNext]_dbVars /\ Evolves
  BY <1>1, RowMoves DEF EngineInv, RowStatuses
<1>4. jobs'[w].at = "check" /\ \A v \in Workers \ {w} : jobs'[v] = jobs[v]
  BY <1>1, <1>2 DEF EngineInv, PayInv, PayShape
<1>5. PayCounts'
  <2>1. attempts \in [Trades -> 0..MaxAttempts] /\ MaxAttempts \in Nat
    BY PayoutsOK DEF EngineInv, ChainInv, PayCounts
  <2>2. (IF attempts[t] < MaxAttempts THEN attempts[t] + 1 ELSE attempts[t]) \in 0..MaxAttempts
    BY <2>1
  <2>3. attempts' \in [Trades -> 0..MaxAttempts]
    BY <2>1, <2>2 DEF ClaimRow
  <2> QED
    BY <1>1, <2>3 DEF EngineInv, ChainInv, PayCounts
<1>6. RunOK(w)' /\ ChainStays
  BY <1>1, <1>4 DEF RunOK, ChainStays
<1> QED
  BY <1>1, <1>3, <1>4, <1>5, <1>6, RunMoves DEF EngineStep

LEMMA BroadcastEngine ==
  ASSUME EngineInv, NEW w \in Workers, NEW tx \in Txs, NEW at \in {"record", "fail"},
         Broadcast(w, tx, at)
  PROVE  EngineStep
<1>1. /\ jobs[w].at = "send" /\ chain[tx] = "none"
      /\ chain' = [chain EXCEPT ![tx] = jobs[w].trade]
      /\ jobs' = [jobs EXCEPT ![w].at = at, ![w].tx = tx]
      /\ UNCHANGED <<vars, attempts, loops>>
  BY DEF Broadcast, At, Unsent
<1>2. FlowInv' /\ [DbNext]_dbVars /\ Evolves
  BY <1>1, OrdinaryNothing, RowsKept DEF EngineInv, vars, flowVars
<1>3. /\ \A v \in Workers \ {w} : jobs'[v] = jobs[v]
      /\ jobs'[w].at = at /\ jobs'[w].trade = jobs[w].trade
  BY <1>1 DEF EngineInv, PayInv, PayShape, JobRecords
<1>4. ChainStays
  BY <1>1 DEF EngineInv, PayInv, PayShape, ChainStays
<1>5. RunOK(w)'
  <2>1. RunOK(w) /\ UNCHANGED owner
    BY <1>1 DEF EngineInv, ChainInv, vars, dbVars
  <2> QED
    BY <1>1, <1>3, <2>1 DEF RunOK
<1>6. PayCounts'
  BY <1>1 DEF EngineInv, ChainInv, PayCounts
<1> QED
  BY <1>1, <1>2, <1>3, <1>4, <1>5, <1>6, RunMoves DEF EngineStep

LEMMA RecordEngine ==
  ASSUME EngineInv, NEW w \in Workers, RecordPayment(w)
  PROVE  EngineStep
<1> DEFINE t == jobs[w].trade
           tx == jobs[w].tx
<1>1. jobs[w].at = "record" /\ UNCHANGED <<flowVars, attempts, chain, loops>>
  BY DEF RecordPayment, At
<1>2. t \in Trades /\ tx \in Txs /\ chain[tx] = t /\ owner[t] # NoExchanger
  BY <1>1, JobFacts DEF EngineInv, ChainInv, RunOK
<1>3. CASE UNCHANGED dbVars /\ JobTo(w, "fail")
  BY <1>1, <1>3, RunGoes DEF vars
<1>4. CASE RecordWithdrawal(t, owner[t], tx) /\ JobTo(w, "sent")
  <2>1. FlowInv' /\ [DbNext]_dbVars /\ Evolves
    BY <1>1, <1>2, <1>4, OrdinaryRecord, RowsKept DEF EngineInv, flowVars
  <2>2. /\ \A v \in Workers \ {w} : jobs'[v] = jobs[v]
        /\ jobs'[w].at = "sent" /\ jobs'[w].trade = t /\ jobs'[w].tx = tx
    BY <1>4, PayTypes, JobToEffect DEF EngineInv
  <2>3. PayKey(t, tx) \in keys'
    BY <1>4, EnterKeys DEF RecordWithdrawal
  <2>4. RunOK(w)'
    BY <1>1, <1>2, <2>2, <2>3 DEF RunOK
  <2>5. PayCounts' /\ ChainStays
    BY <1>1 DEF EngineInv, ChainInv, PayCounts, ChainStays
  <2> QED
    BY <1>1, <2>1, <2>2, <2>4, <2>5, RunMoves DEF EngineStep
<1> QED
  BY <1>3, <1>4 DEF RecordPayment

\* The trade becomes CRYPTO_SENT, and a loop starts for its recorded payment.
LEMMA MarkSentEngine ==
  ASSUME EngineInv, NEW w \in Workers, MarkSent(w)
  PROVE  EngineStep
<1> DEFINE t == jobs[w].trade
           tx == jobs[w].tx
<1>1. jobs[w].at = "sent" /\ UNCHANGED <<flowVars, attempts, chain>>
  BY DEF MarkSent, At
<1>2. t \in Trades /\ tx \in Txs /\ chain[tx] = t /\ PayKey(t, tx) \in keys
  BY <1>1, JobFacts DEF EngineInv, ChainInv, RunOK
<1>3. CASE UNCHANGED <<dbVars, loops>> /\ JobTo(w, "fail")
  BY <1>1, <1>3, RunGoes DEF vars
<1>4. CASE /\ Transition(t, "CRYPTO_SENT") /\ loops' = [loops EXCEPT ![tx] = "poll"]
           /\ JobTo(w, "mark")
  <2>1. FlowInv' /\ [DbNext]_dbVars /\ Evolves
    BY <1>1, <1>2, <1>4, OrdinaryTransition, RowsKept DEF EngineInv, flowVars, Statuses
  <2>2. /\ \A v \in Workers \ {w} : jobs'[v] = jobs[v]
        /\ jobs'[w].at = "mark"
    BY <1>4, PayTypes, JobToEffect DEF EngineInv
  <2>3. status'[t] = "CRYPTO_SENT" /\ UNCHANGED keys
    BY <1>2, <1>4 DEF Transition, SetStatus, EngineInv, FlowInv, DbInv, DbTypeOK
  <2>4. PayCounts' /\ loops'[tx] = "poll" /\ \A x \in Txs \ {tx} : loops'[x] = loops[x]
    BY <1>1, <1>2, <1>4 DEF EngineInv, ChainInv, PayCounts
  <2>5. ChainStays
    BY <1>1 DEF ChainStays
  <2>6. /\ chain'[tx] = t /\ t # "none" /\ PayKey(t, tx) \in keys'
        /\ status'[t] \in Paid
    BY <1>1, <1>2, <2>3, PayoutsOK DEF Paid
  <2>7. ASSUME NEW x \in Txs, x = tx PROVE LoopOK(x)'
    BY <2>4, <2>6, <2>7 DEF LoopOK
  <2>8. \A x \in Txs : LoopOK(x)'
    BY <2>1, <2>4, <2>5, <2>7, LoopStays
  <2>9. \A v \in Workers : RunOK(v)'
    BY <2>1, <2>2, <2>5, RunStays DEF RunOK
  <2> QED
    BY <2>1, <2>4, <2>8, <2>9 DEF EngineStep, ChainInv
<1> QED
  BY <1>3, <1>4 DEF MarkSent

LEMMA WorkerEngine ==
  ASSUME EngineInv, NEW w \in Workers, WorkerStep(w)
  PROVE  EngineStep
<1>1. CASE CheckTrade(w)
  <2> DEFINE at == CASE status[jobs[w].trade] \in {"CRYPTO_SENT", "COMPLETED"} -> "mark"
                     [] status[jobs[w].trade] = "RELEASE_PENDING" /\ wallet[jobs[w].trade] -> "send"
                     [] OTHER -> "fail"
  <2>1. /\ JobTo(w, at) /\ jobs[w].at = "check" /\ UNCHANGED <<vars, attempts, chain, loops>>
    BY <1>1 DEF CheckTrade, At
  <2>2. /\ at \in {"send", "mark", "fail"}
        /\ at = "send" => status[jobs[w].trade] = "RELEASE_PENDING"
    OBVIOUS
  <2> HIDE DEF at
  <2> QED
    BY <2>1, <2>2, RunGoes
<1>2. ASSUME NEW tx \in Txs, Send(w, tx) \/ SendUnanswered(w, tx) PROVE EngineStep
  BY <1>2, BroadcastEngine DEF Send, SendUnanswered
<1>3. CASE MarkBroadcast(w)
  BY <1>3, RunEnds DEF MarkBroadcast, At, RowStatuses
<1>4. CASE JobThrows(w)
  BY <1>4, RunGoes DEF JobThrows
<1>5. CASE FailJob(w)
  BY <1>5, RunEnds DEF FailJob, At, RowStatuses
<1> QED
  BY <1>1, <1>2, <1>3, <1>4, <1>5, ClaimRowEngine, RecordEngine, MarkSentEngine DEF WorkerStep

LEMMA LoopEngine ==
  ASSUME EngineInv, NEW tx \in Txs, LoopStep(tx)
  PROVE  EngineStep
<1> DEFINE t == chain[tx]
<1>0. /\ LoopOK(tx) /\ (t # "none" => t \in Trades)
      /\ UNCHANGED <<jobs, attempts, chain, calls, buttons>>
  BY DEF EngineInv, ChainInv, PayInv, PayShape, LoopStep, Confirm, SettlePaid, MarkConfirmed,
         LoopThrows, GiveUp, flowVars, vars
<1>1. CASE Confirm(tx)
  <2>1. loops[tx] = "poll" /\ t \in Trades /\ Transition(t, "COMPLETED") /\ LoopTo(tx, "settle")
    BY <1>0, <1>1 DEF Confirm, LoopOK
  <2>2. FlowInv' /\ [DbNext]_dbVars /\ Evolves
    BY <1>0, <1>1, <2>1, OrdinaryTransition, RowsKept DEF EngineInv, Confirm, flowVars, Statuses
  <2>3. status'[t] = "COMPLETED" /\ UNCHANGED keys
    BY <2>1 DEF Transition, SetStatus, EngineInv, FlowInv, DbInv, DbTypeOK
  <2>4. LoopOK(tx)'
    BY <1>0, <2>1, <2>3 DEF LoopOK, Paid
  <2> QED
    BY <1>0, <2>1, <2>2, <2>4, LoopMoves DEF EngineStep
<1>2. CASE SettlePaid(tx)
  <2>1. /\ loops[tx] = "settle" /\ t \in Trades /\ status[t] = "COMPLETED"
        /\ LoopTo(tx, "confirmed") /\ UNCHANGED queue
    BY <1>0, <1>2 DEF SettlePaid, LoopOK, flowVars
  <2>2. FlowInv' /\ [DbNext]_dbVars /\ Evolves
    <3>1. CASE UNCHANGED dbVars
      BY <1>0, <2>1, <3>1, OrdinaryNothing, RowsKept DEF EngineInv
    <3>2. CASE SettleTradeProfit(t)
      <4>1. DbNext
        BY <2>1, <3>2 DEF DbNext, OwnedNext, SettleTradeProfit, Settles
      <4>2. UNCHANGED collateral /\ keys' = keys \cup {ProfitKey(t)}
        BY <3>2, EnterKeys DEF SettleTradeProfit
      <4>3. FeesSafe
        BY <2>1, <4>2, ProfitKeyApart DEF FeesSafe
      <4>4. queue' \in [Trades -> RowStatuses]
        BY <2>1 DEF EngineInv, FlowInv, FlowShape
      <4> QED
        BY <1>0, <2>1, <4>1, <4>2, <4>3, <4>4, RowsMove DEF EngineInv
    <3> QED
      BY <1>2, <3>1, <3>2 DEF SettlePaid
  <2>3. LoopOK(tx)'
    BY <1>0, <2>1, <2>2 DEF LoopOK, Evolves
  <2> QED
    BY <1>0, <2>1, <2>2, <2>3, LoopMoves DEF EngineStep
<1>3. CASE MarkConfirmed(tx)
  <2> DEFINE to == IF queue[t] \in {"BROADCAST", "PROCESSING"} THEN "CONFIRMED" ELSE queue[t]
  <2>1. /\ loops[tx] = "confirmed" /\ t \in Trades /\ queue' = [queue EXCEPT ![t] = to]
        /\ UNCHANGED dbVars /\ LoopTo(tx, "none")
    BY <1>0, <1>3 DEF MarkConfirmed, LoopOK, SetRow
  <2>2. to \in RowStatuses /\ (to = "NONE" <=> queue[t] = "NONE")
    BY <2>1, PayTypes DEF EngineInv, RowStatuses
  <2> HIDE DEF to
  <2>3. /\ queue' \in [Trades -> RowStatuses]
        /\ \A u \in Trades : queue'[u] = "NONE" <=> queue[u] = "NONE"
    BY <2>1, <2>2 DEF EngineInv, FlowInv, FlowShape
  <2>4. FeesSafe /\ UNCHANGED collateral
    BY <2>1, OrdinaryNothing, OrdinarySafe DEF Ordinary
  <2>5. FlowInv' /\ [DbNext]_dbVars /\ Evolves
    BY <1>0, <2>1, <2>3, <2>4, RowsMove DEF EngineInv
  <2>6. LoopOK(tx)'
    BY <2>1 DEF LoopOK, LoopTo, EngineInv, ChainInv, PayCounts
  <2> QED
    BY <1>0, <2>1, <2>5, <2>6, LoopMoves DEF EngineStep
<1>4. ASSUME NEW at \in {"poll", "none"}, LoopTo(tx, at), UNCHANGED vars, loops[tx] # "none"
      PROVE  EngineStep
  <2>1. FlowInv' /\ [DbNext]_dbVars /\ Evolves
    BY <1>4, OrdinaryNothing, RowsKept DEF EngineInv, vars, flowVars
  <2>2. loops'[tx] = at
    BY <1>4 DEF LoopTo, EngineInv, ChainInv, PayCounts
  <2>3. LoopOK(tx)'
    BY <1>0, <1>4, <2>1, <2>2 DEF LoopOK, Evolves
  <2> QED
    BY <1>0, <1>4, <2>1, <2>3, LoopMoves DEF EngineStep
<1> QED
  BY <1>1, <1>2, <1>3, <1>4 DEF LoopStep, LoopThrows, GiveUp

LEMMA FlowEngine ==
  ASSUME EngineInv, [Next]_vars, UNCHANGED payVars PROVE EngineStep
<1>1. FlowInv' /\ [DbNext]_dbVars
  BY FlowStep DEF EngineInv
<1>2. Evolves
  BY <1>1, DbEvolves DEF EngineInv, FlowInv
<1>3. PayCounts' /\ ChainStays /\ UNCHANGED <<jobs, loops>>
  BY DEF payVars, EngineInv, ChainInv, PayCounts, ChainStays
<1> QED
  BY <1>1, <1>2, <1>3, RunStays, LoopStays DEF EngineStep, ChainInv

LEMMA RetryEngine ==
  ASSUME EngineInv, NEW t \in Trades, RetryRow(t) PROVE EngineStep
<1>1. FlowInv' /\ [DbNext]_dbVars /\ Evolves
  BY RowMoves DEF EngineInv, RetryRow, RowStatuses
<1>2. PayCounts' /\ ChainStays /\ UNCHANGED <<jobs, loops>>
  BY DEF RetryRow, payVars, EngineInv, ChainInv, PayCounts, ChainStays
<1> QED
  BY <1>1, <1>2, RunStays, LoopStays DEF EngineStep, ChainInv

LEMMA RestartEngine == ASSUME EngineInv, Restart PROVE EngineStep
<1>1. /\ jobs' = [w \in Workers |-> NoJob] /\ loops' = [tx \in Txs |-> "none"]
      /\ calls' = [p \in Slots |-> NoCall] /\ UNCHANGED <<buttons, queue, attempts, chain>>
      /\ UNCHANGED dbVars
  BY DEF Restart
<1>2. DbInv' /\ Evolves
  BY <1>1, DbEvolves DEF EngineInv, FlowInv
<1>3. FlowShape' /\ (\A p \in Slots : CallOK(p)') /\ Apart'
  BY <1>1, NoCallFits DEF EngineInv, FlowInv, FlowShape, CallOK, Apart
<1>4. ReleaseOK' /\ OpenUnlocked' /\ FeeOnlyIfCompleted'
  BY <1>1 DEF EngineInv, FlowInv, ReleaseOK, NotReleased, OpenUnlocked, FeeOnlyIfCompleted, dbVars
<1>5. NoJob.at = "idle"
  BY DEF NoJob
<1>6. PayCounts' /\ (\A w \in Workers : RunOK(w)') /\ \A tx \in Txs : LoopOK(tx)'
  BY <1>1, <1>5 DEF EngineInv, ChainInv, PayCounts, RunOK, LoopOK
<1> QED
  BY <1>1, <1>2, <1>3, <1>4, <1>6 DEF EngineStep, FlowInv, ChainInv

LEMMA EngineNext == EngineInv /\ [PayNext]_allVars => EngineStep
BY WorkerEngine, LoopEngine, FlowEngine, RetryEngine, RestartEngine DEF PayNext, allVars

LEMMA EngineInit == PayInit => FlowInv /\ ChainInv
<1> SUFFICES ASSUME PayInit PROVE ChainInv
  BY FlowInit DEF PayInit
<1>1. NoJob.at = "idle" /\ MaxAttempts \in Nat
  BY PayoutsOK DEF NoJob
<1>2. PayCounts
  BY <1>1 DEF PayInit, PayCounts
<1> QED
  BY <1>1, <1>2 DEF PayInit, ChainInv, RunOK, LoopOK

THEOREM EngineInvHolds == PaySpec => []EngineInv
<1>1. PayInit => FlowInv /\ ChainInv
  BY EngineInit
<1>2. EngineInv /\ [PayNext]_allVars => FlowInv' /\ ChainInv'
  BY EngineNext DEF EngineStep
<1>3. PayInv /\ FlowInv /\ ChainInv <=> EngineInv
  BY DEF EngineInv
<1> QED
  BY <1>1, <1>2, <1>3, PayInvHolds, PTL DEF PaySpec

(* Type correctness, and a loop waits for a transaction that was broadcast. *)
THEOREM PayTypeCorrect == PaySpec => []PayTypeOK
<1>1. EngineInv => PayTypeOK
  BY DEF EngineInv, PayInv, PayShape, JobOK, JobRecords, ChainInv, PayCounts, LoopOK, PayTypeOK, Idle
<1> QED
  BY <1>1, EngineInvHolds, PTL

(* Payments, confirmations, retries and restarts together with all handlers *)
(* still do to the tables nothing but transactions of TradeDb: what is      *)
(* proved of TradeDb holds of the whole engine.                             *)
THEOREM PaymentsRunTransactions == PaySpec => RunsTransactions
<1>1. PayInit => DbInit
  BY DEF PayInit, Init
<1>2. EngineInv /\ [PayNext]_allVars => [DbNext]_dbVars
  BY EngineNext DEF EngineStep
<1> QED
  BY <1>1, <1>2, EngineInvHolds, PTL DEF PaySpec, RunsTransactions, DbSpec

(* So the whole engine keeps the promises of TradeDb: funds are locked for  *)
(* a trade by its one exchanger, what a pair holds changes by withdrawals   *)
(* and fee shares only, statuses follow the abstract life of a trade, and   *)
(* balances the abstract ledger, whatever is retried, refused or restarted. *)
THEOREM EngineFollowsLifecycle ==
  PaySpec => []LockedByOwnerOnly /\ MoneyConserved /\ ImplementsLifecycle /\ ImplementsLedger
BY PaymentsRunTransactions, ExclusiveClaims, MoneyIsConserved, LifecycleImplemented,
   LedgerImplemented, PTL
   DEF RunsTransactions

\* What the engine does beside the handlers touches no collateral.
EngineOnly == \/ \E w \in Workers : WorkerStep(w)
              \/ \E tx \in Txs : LoopStep(tx)
              \/ \E t \in Trades : RetryRow(t)
              \/ Restart

LEMMA EngineCollateral == ASSUME EngineOnly PROVE UNCHANGED collateral
<1>1. ASSUME NEW w \in Workers, WorkerStep(w) PROVE UNCHANGED collateral
  BY <1>1 DEF WorkerStep, ClaimRow, CheckTrade, Send, SendUnanswered, Broadcast, RecordPayment,
              MarkSent, MarkBroadcast, JobThrows, FailJob, RecordWithdrawal, Transition,
              vars, dbVars
<1>2. ASSUME NEW tx \in Txs, LoopStep(tx) PROVE UNCHANGED collateral
  BY <1>2 DEF LoopStep, Confirm, SettlePaid, MarkConfirmed, LoopThrows, GiveUp,
              SettleTradeProfit, Transition, vars, dbVars
<1> QED
  BY <1>1, <1>2 DEF EngineOnly, RetryRow, Restart, dbVars

(* So the sums by which the rows are reconciled stay explained while the    *)
(* bot pays: each withdrawal is taken off twice by the first sum, however   *)
(* often the payment was retried, and the escrow reported is the ledger's.  *)
THEOREM PaymentsSumsExplained ==
  ASSUME IsFiniteSet(Exchangers) PROVE PaySpec => []SumsExplained
<1>1. DbSpec /\ KeepsCollateral => []SumsExplained
  BY SumsAreExplained
<1>2. PaySpec => DbSpec
  BY PaymentsRunTransactions DEF RunsTransactions
<1>3. FlowInv /\ [PayNext]_allVars => [CollateralStays]_dbVars
  <2> SUFFICES ASSUME FlowInv, PayNext, ~UNCHANGED collateral PROVE CollateralStays
    BY DEF CollateralStays, allVars, vars, dbVars
  <2>1. CASE Next
    BY <2>1, KeepsItsCollateral
  <2> QED
    BY <2>1, EngineCollateral DEF PayNext, EngineOnly
<1>4. PaySpec => KeepsCollateral
  <2>1. EngineInv => FlowInv
    BY DEF EngineInv
  <2> QED
    BY <1>3, <2>1, EngineInvHolds, PTL DEF PaySpec, KeepsCollateral
<1> QED
  BY <1>1, <1>2, <1>4, PTL

(* With payments, confirmations and restarts running too, a fee is shared   *)
(* only by a COMPLETED trade, and a trade is paid by the bot or by hand.    *)
THEOREM EngineKeepsTrades == PaySpec => [](FeeOnlyIfCompleted /\ OneReleaseMethod)
<1>1. EngineInv => FeeOnlyIfCompleted /\ OneReleaseMethod
  BY DEF EngineInv, FlowInv, ReleaseOK, OneReleaseMethod
<1> QED
  BY <1>1, EngineInvHolds, PTL

-----------------------------------------------------------------------------
(* What counts as paid by the bot was paid and recorded, wherever no        *)
(* dashboard completes trades by a bare transition: the other ways to       *)
(* complete a trade never meet a row of the queue.                          *)

\* The ways to complete a trade without a payment of the bot.
ByHand(t) == <<"external_check", t>> \in buttons \/ Direction[t] = "FIAT_TO_FIAT"

WayOK(p) ==
  LET c == calls[p]
  IN /\ c.op = "pay" => Direction[c.trade] = "CRYPTO"
     /\ c.op = "received" => <<"external_check", c.trade>> \in buttons
     /\ c.op = "force_release" /\ c.at # "approve" => Direction[c.trade] = "FIAT_TO_FIAT"

Ways == /\ \A t \in Trades : Direction[t] = "FIAT_TO_FIAT" =>
                              queue[t] = "NONE" /\ <<"submit_wallet", t>> \notin buttons
        /\ \A p \in Slots : WayOK(p)

PaidOK(t) == /\ status[t] = "CRYPTO_SENT" => Recorded(t)
             /\ status[t] = "COMPLETED" => Recorded(t) \/ ByHand(t)
SendOK(w) == jobs[w].at = "send" => status[jobs[w].trade] \notin Paid

PaidInv == /\ Ways
           /\ \A t \in Trades : PaidOK(t)
           /\ \A w \in Workers : SendOK(w)

\* Where a step of a handler takes a trade: completed by hand, or not paid at all.
Moves == \A t \in Trades : status'[t] # status[t] =>
            status'[t] \notin Paid \/ (status'[t] = "COMPLETED" /\ ByHand(t))
WaysStep == Ways' /\ Moves /\ buttons \subseteq buttons'

LEMMA Moved ==
  ASSUME FlowInv, NEW t \in Trades, NEW to, SetStatus(t, to),
         to \notin Paid \/ (to = "COMPLETED" /\ ByHand(t))
  PROVE  Moves
BY DEF FlowInv, DbInv, DbTypeOK, SetStatus, Moves

LEMMA NotMoved == UNCHANGED status => Moves
BY DEF Moves

\* A step of a call that leaves buttons and queue alone.
LEMMA WaysQuiet ==
  ASSUME FlowInv, Ways, UNCHANGED <<buttons, queue>>, NEW p \in Slots, NEW c,
         calls' = [calls EXCEPT ![p] = c],
         c.op = "pay" => Direction[c.trade] = "CRYPTO",
         c.op = "received" => <<"external_check", c.trade>> \in buttons,
         c.op = "force_release" /\ c.at # "approve" => Direction[c.trade] = "FIAT_TO_FIAT"
  PROVE  Ways' /\ buttons \subseteq buttons'
<1>1. calls'[p] = c /\ \A q \in Slots \ {p} : calls'[q] = calls[q]
  BY SlotSet DEF FlowInv
<1> QED
  BY <1>1 DEF Ways, WayOK

LEMMA WaysReturn ==
  ASSUME FlowInv, Ways, NEW p \in Slots, Return(p)
  PROVE  Ways' /\ buttons \subseteq buttons'
BY NoCallFits, WaysQuiet DEF Return

LEMMA WaysThrow ==
  ASSUME FlowInv, Ways, NEW p \in Slots, Throw(p) PROVE WaysStep
BY WaysReturn, NotMoved DEF Throw, WaysStep, dbVars

LEMMA WaysGoto ==
  ASSUME FlowInv, Ways, NEW p \in Slots, calls[p].at # "approve", NEW at, Goto(p, at)
  PROVE  Ways' /\ buttons \subseteq buttons'
<1> DEFINE c == [calls[p] EXCEPT !.at = at]
<1>1. calls' = [calls EXCEPT ![p] = c] /\ UNCHANGED <<buttons, queue>>
  BY DEF Goto
<1>2. calls[p] \in CallRecords
  BY DEF FlowInv, FlowShape
<1>3. c.op = calls[p].op /\ c.trade = calls[p].trade
  BY <1>2 DEF CallRecords
<1> HIDE DEF c
<1>4. WayOK(p)
  BY DEF Ways
<1> QED
  BY <1>1, <1>3, <1>4, WaysQuiet DEF WayOK

LEMMA WaysStart ==
  ASSUME FlowInv, Ways, NEW p \in Slots, NEW t \in Trades, NEW op, NEW at, Start(p, op, t, at),
         op # "pay", op = "received" => <<"external_check", t>> \in buttons,
         op = "force_release" /\ at # "approve" => Direction[t] = "FIAT_TO_FIAT"
  PROVE  WaysStep
<1> DEFINE c == Call(op, t, at)
<1>1. calls' = [calls EXCEPT ![p] = c] /\ UNCHANGED <<buttons, queue>> /\ UNCHANGED status
  BY DEF Start, dbVars
<1>2. c.op = op /\ c.trade = t /\ c.at = at
  BY DEF Call
<1> HIDE DEF c
<1> QED
  BY <1>1, <1>2, WaysQuiet, NotMoved DEF WaysStep

LEMMA WaysOneStep ==
  ASSUME FlowInv, Ways, "dashboard" \notin Ops, NEW t \in Trades, OneStep(t)
  PROVE  WaysStep
<1>1. ASSUME UNCHANGED flowVars PROVE Ways' /\ buttons \subseteq buttons'
  BY <1>1 DEF flowVars, Ways, WayOK
<1>2. ASSUME NEW e \in Exchangers, HandleClaim(t, e) PROVE Moves
  BY <1>2, ClaimFacts, Moved DEF HandleClaim, FlowInv, Paid
<1>3. CASE HandleFiatSent(t) \/ HandleDispute(t) \/ HandleExternalPaymentNotReceived(t)
  <2>1. Transition(t, "FIAT_SENT") \/ Transition(t, "DISPUTED")
    BY <1>3 DEF HandleFiatSent, HandleDispute, HandleExternalPaymentNotReceived
  <2>2. Moves
    BY <2>1, Moved DEF Transition, Paid
  <2> QED
    BY <1>1, <1>3, <2>2
       DEF HandleFiatSent, HandleDispute, HandleExternalPaymentNotReceived, WaysStep
<1>4. CASE HandleReleaseInternal(t)
  <2>1. /\ Direction[t] = "CRYPTO" /\ buttons' = buttons \cup {<<"submit_wallet", t>>}
        /\ UNCHANGED <<status, calls, queue>>
    BY <1>4 DEF HandleReleaseInternal, dbVars
  <2>2. Ways'
    BY <2>1 DEF Ways, WayOK
  <2> QED
    BY <2>1, <2>2, NotMoved DEF WaysStep
<1>5. ~DashboardForce(t)
  BY DEF DashboardForce
<1> QED
  BY <1>1, <1>2, <1>3, <1>4, <1>5 DEF OneStep, HandleClaim, WaysStep

LEMMA WaysBegin ==
  ASSUME FlowInv, Ways, NEW p \in Slots, NEW t \in Trades, Begin(p, t)
  PROVE  WaysStep
<1>1. ASSUME NEW e \in Exchangers, BeginF2FClaim(p, t, e) PROVE WaysStep
  <2> DEFINE c == [Call("claim", t, "choose") EXCEPT !.exch = e]
  <2>1. calls' = [calls EXCEPT ![p] = c] /\ UNCHANGED <<buttons, queue>> /\ c.op = "claim"
    BY <1>1 DEF BeginF2FClaim, Call
  <2> HIDE DEF c
  <2>2. Moves
    BY <1>1, ClaimFacts, Moved DEF BeginF2FClaim, FlowInv, Paid
  <2> QED
    BY <2>1, <2>2, WaysQuiet DEF WaysStep
<1>2. CASE HandleWalletAddressSubmit(p, t) \/ HandleReleaseExternal(p, t)
  <2> DEFINE pay == Call("pay", t, "check")
             external == Call("external", t, "post")
  <2>1. /\ pay.op = "pay" /\ pay.trade = t /\ external.op = "external"
        /\ calls' = [calls EXCEPT ![p] = pay] \/ calls' = [calls EXCEPT ![p] = external]
        /\ calls' = [calls EXCEPT ![p] = pay] \/ ~HandleWalletAddressSubmit(p, t)
        /\ UNCHANGED <<buttons, queue>> /\ SetStatus(t, "RELEASE_PENDING")
    BY <1>2 DEF HandleWalletAddressSubmit, HandleReleaseExternal, Call, Transition,
                TransitionWithWallet
  <2>2. HandleWalletAddressSubmit(p, t) => Direction[t] = "CRYPTO"
    BY TradesOK DEF HandleWalletAddressSubmit, Ways
  <2>3. ~HandleWalletAddressSubmit(p, t) => calls' = [calls EXCEPT ![p] = external]
    BY <1>2 DEF HandleReleaseExternal
  <2> HIDE DEF pay, external
  <2>4. Ways' /\ buttons \subseteq buttons'
    BY <2>1, <2>2, <2>3, WaysQuiet
  <2> QED
    BY <2>1, <2>4, Moved DEF WaysStep, Paid
<1>3. CASE HandleExternalPaymentReceived(p, t)
  BY <1>3, WaysStart DEF HandleExternalPaymentReceived
<1>4. CASE HandleForceCancel(p, t)
  BY <1>4, WaysStart DEF HandleForceCancel
<1>5. CASE HandleForceRelease(p, t)
  BY <1>5, WaysStart DEF HandleForceRelease
<1>6. ASSUME NEW how \in CloseOps, HandleCloseTicket(p, t, how) PROVE WaysStep
  BY <1>6, WaysStart DEF HandleCloseTicket, CloseOps
<1>7. CASE SelectExpired(p, t) \/ SelectStale(p, t)
  BY <1>7, WaysStart DEF SelectExpired, SelectStale
<1> QED
  BY <1>1, <1>2, <1>3, <1>4, <1>5, <1>6, <1>7 DEF Begin

LEMMA WaysContinue ==
  ASSUME FlowInv, Ways, NEW p \in Slots, Continue(p) \/ Abandon(p)
  PROVE  WaysStep
<1> DEFINE t == calls[p].trade
<1>0. CallOK(p) /\ WayOK(p)
  BY DEF FlowInv, Ways
<1>1. ASSUME calls[p].at # "approve", NEW at, Skip(p, at) PROVE WaysStep
  BY <1>1, WaysGoto, NotMoved DEF Skip, WaysStep, dbVars
<1>2. ASSUME calls[p].at # "approve", UNCHANGED status, Return(p) \/ \E at : Goto(p, at)
      PROVE  WaysStep
  BY <1>2, WaysReturn, WaysGoto, NotMoved DEF WaysStep
<1>3. CASE ChooseCollateral(p)
  <2> DEFINE a == Chosen(calls[p].exch)
             c == [[calls[p] EXCEPT !.at = "lock"] EXCEPT !.coll = a]
  <2>1. calls[p] \in CallRecords /\ calls[p].op = "claim"
    BY <1>3 DEF FlowInv, FlowShape, ChooseCollateral, Running
  <2>2. /\ calls' = [calls EXCEPT ![p] = c] \/ calls' = [calls EXCEPT ![p] = NoCall]
        /\ UNCHANGED <<buttons, queue>> /\ UNCHANGED status
    BY <1>3, <2>1 DEF ChooseCollateral, FlowInv, FlowShape, CallRecords, dbVars
  <2>3. c.op = "claim"
    BY <2>1 DEF CallRecords
  <2> HIDE DEF c, a
  <2> QED
    BY <2>2, <2>3, NoCallFits, WaysQuiet, NotMoved DEF WaysStep
<1>4. CASE LockChosen(p)
  BY <1>2, <1>4, WaysThrow DEF LockChosen, LockCollateral, Running
<1>5. CASE AwaitFiat(p)
  <2>1. CASE Throw(p)
    BY <2>1, WaysThrow
  <2>2. CASE Transition(t, "FIAT_PENDING") /\ Return(p)
    <3>1. t \in Trades
      BY <1>0, <1>5 DEF AwaitFiat, Running, CallOK
    <3> QED
      BY <2>2, <3>1, WaysReturn, Moved DEF Transition, WaysStep, Paid
  <2> QED
    BY <1>5, <2>1, <2>2 DEF AwaitFiat
<1>6. CASE CheckPayment(p)
  BY <1>1, <1>6, WaysThrow DEF CheckPayment, Running
<1>7. CASE QueueWithdrawal(p)
  <2>1. /\ t \in Trades /\ Direction[t] = "CRYPTO"
        /\ calls' = [calls EXCEPT ![p] = NoCall] /\ UNCHANGED <<status, buttons>>
        /\ \A u \in Trades \ {t} : queue'[u] = queue[u]
    BY <1>0, <1>7 DEF QueueWithdrawal, Running, CallOK, WayOK, FlowInv, FlowShape, dbVars
  <2>2. calls'[p] = NoCall /\ \A q \in Slots \ {p} : calls'[q] = calls[q]
    BY <2>1, SlotSet DEF FlowInv
  <2>3. Ways'
    BY <2>1, <2>2, NoCallFits DEF Ways, WayOK
  <2> QED
    BY <2>1, <2>3, NotMoved DEF WaysStep
<1>8. CASE PostExternalCheck(p)
  <2>1. /\ buttons' = buttons \cup {<<"external_check", t>>}
        /\ calls' = [calls EXCEPT ![p] = NoCall] /\ UNCHANGED <<status, queue>>
    BY <1>8 DEF PostExternalCheck, dbVars
  <2>2. calls'[p] = NoCall /\ \A q \in Slots \ {p} : calls'[q] = calls[q]
    BY <2>1, SlotSet DEF FlowInv
  <2>3. Ways'
    BY <2>1, <2>2, NoCallFits DEF Ways, WayOK
  <2> QED
    BY <2>1, <2>3, NotMoved DEF WaysStep
<1>9. CASE ReturnFunds(p)
  <2>1. calls[p].at # "approve"
    BY <1>9 DEF ReturnFunds
  <2>2. ReturnFails(p) => WaysStep
    BY <1>1, <2>1, WaysThrow DEF ReturnFails
  <2> QED
    BY <1>1, <1>2, <1>9, <2>1, <2>2 DEF ReturnFunds, ReleaseCollateral, ReleaseEscrow
<1>10. CASE EndTrade(p)
  <2> DEFINE to == Outcome(calls[p].op)
  <2>1. calls[p].at = "end" /\ calls[p].op \in Returning /\ t \in Trades
    BY <1>0, <1>10 DEF EndTrade, CallOK, Returning, CloseOps
  <2>2. CASE Throw(p)
    BY <2>2, WaysThrow
  <2>3. CASE Transition(t, to) /\ (Goto(p, "settle") \/ Return(p))
    <3>1. to \in {"COMPLETED", "CANCELLED"} /\ (to = "COMPLETED" => ByHand(t))
      BY <1>0, <2>1 DEF Outcome, WayOK, ByHand
    <3>2. SetStatus(t, to)
      BY <2>3 DEF Transition
    <3> HIDE DEF to, t
    <3>3. Moves
      BY <2>1, <3>1, <3>2, Moved DEF Paid
    <3> QED
      BY <2>1, <2>3, <3>3, WaysGoto, WaysReturn DEF WaysStep
  <2> QED
    BY <1>10, <2>2, <2>3 DEF EndTrade
<1>11. CASE Settle(p)
  BY <1>2, <1>11 DEF Settle, SettleTradeProfit, dbVars
<1>12. CASE ApproveRelease(p)
  <2>1. ~IsTransitionAllowed(t, "RELEASE_PENDING")
    BY <1>0, <1>12 DEF ApproveRelease, Running, CallOK, IsTransitionAllowed, Allowed, Disputed
  <2> QED
    BY <1>12, <2>1, WaysThrow DEF ApproveRelease
<1>13. CASE ExpireOpen(p) \/ CancelStale(p)
  <2>1. Return(p) /\ t \in Trades
    BY <1>0, <1>13 DEF ExpireOpen, CancelStale, Running, CallOK
  <2>2. SetStatus(t, "EXPIRED") \/ SetStatus(t, "CANCELLED") \/ UNCHANGED status
    BY <1>13 DEF ExpireOpen, CancelStale, Transition, CancelTradeAndReleaseEscrow, dbVars
  <2>3. Moves
    BY <2>1, <2>2, Moved, NotMoved DEF Paid
  <2> QED
    BY <2>1, <2>3, WaysReturn DEF WaysStep
<1>14. CASE Abandon(p)
  BY <1>14, WaysThrow DEF Abandon
<1> QED
  BY <1>3, <1>4, <1>5, <1>6, <1>7, <1>8, <1>9, <1>10, <1>11, <1>12, <1>13, <1>14 DEF Continue

LEMMA WaysNext ==
  ASSUME FlowInv, Ways, "dashboard" \notin Ops, Next PROVE WaysStep
BY WaysOneStep, WaysBegin, WaysContinue DEF Next

\* A payment recorded, or a buyer asked to confirm, stays so.
LEMMA PaidStays ==
  ASSUME EngineInv, PaidInv, Evolves, ChainStays, buttons \subseteq buttons', NEW t \in Trades
  PROVE  /\ Recorded(t) => Recorded(t)'
         /\ ByHand(t) => ByHand(t)'
         /\ status'[t] = status[t] => PaidOK(t)'
<1>1. Recorded(t) => Recorded(t)'
  BY PayoutsOK DEF Recorded, ChainStays, Evolves
<1>2. ByHand(t) => ByHand(t)'
  BY DEF ByHand
<1>3. PaidOK(t)
  BY DEF PaidInv
<1> QED
  BY <1>1, <1>2, <1>3 DEF PaidOK

\* Where nobody is asked, and nothing queued, a trade completed by hand has no row.
LEMMA ByHandUnqueued ==
  ASSUME EngineInv, Ways, NEW t \in Trades, ByHand(t) PROVE queue[t] = "NONE"
BY DEF EngineInv, FlowInv, ReleaseOK, Ways, ByHand

LEMMA SenderHolds ==
  ASSUME EngineInv, NEW w \in Workers, jobs[w].at # "idle"
  PROVE  jobs[w].trade \in Trades /\ queue[jobs[w].trade] \in Held
BY JobFacts DEF EngineInv

\* Rows move but none is made; no call moves.
LEMMA WaysRest ==
  ASSUME Ways, UNCHANGED <<calls, buttons>>,
         \A t \in Trades : queue[t] = "NONE" => queue'[t] = "NONE"
  PROVE  Ways' /\ buttons \subseteq buttons'
BY DEF Ways, WayOK

LEMMA WorkerRows ==
  ASSUME EngineInv, NEW w \in Workers, WorkerStep(w)
  PROVE  /\ UNCHANGED <<calls, buttons>>
         /\ \A t \in Trades : queue[t] = "NONE" => queue'[t] = "NONE"
         /\ \A v \in Workers \ {w} : jobs'[v] = jobs[v]
         /\ jobs'[w].at = "send" => /\ status[jobs'[w].trade] = "RELEASE_PENDING"
                                    /\ UNCHANGED status
<1>0. queue \in [Trades -> RowStatuses] /\ jobs \in [Workers -> JobRecords] /\ PayShape
  BY PayTypes DEF EngineInv, PayShape
<1>1. ASSUME NEW t \in Trades, ClaimRow(w, t)
      PROVE  /\ UNCHANGED <<calls, buttons>> /\ jobs'[w].at = "check"
             /\ \A u \in Trades : queue[u] = "NONE" => queue'[u] = "NONE"
             /\ \A v \in Workers \ {w} : jobs'[v] = jobs[v]
  BY <1>0, <1>1 DEF ClaimRow, SetRow
<1>2. ASSUME NEW at \in {"check", "send", "record", "sent", "mark", "fail"}, JobTo(w, at)
      PROVE  jobs'[w].at = at /\ jobs'[w].trade = jobs[w].trade
             /\ \A v \in Workers \ {w} : jobs'[v] = jobs[v]
  BY <1>0, <1>2, JobToEffect
<1>3. JobDone(w) => jobs'[w].at = "idle" /\ \A v \in Workers \ {w} : jobs'[v] = jobs[v]
  BY <1>0, JobDoneEffect
<1>4. CASE CheckTrade(w)
  <2> DEFINE at == CASE status[jobs[w].trade] \in {"CRYPTO_SENT", "COMPLETED"} -> "mark"
                     [] status[jobs[w].trade] = "RELEASE_PENDING" /\ wallet[jobs[w].trade] -> "send"
                     [] OTHER -> "fail"
  <2>1. JobTo(w, at) /\ UNCHANGED <<calls, buttons, queue>> /\ UNCHANGED status
    BY <1>4 DEF CheckTrade, vars, dbVars, flowVars
  <2>2. /\ at \in {"send", "mark", "fail"}
        /\ at = "send" => status[jobs[w].trade] = "RELEASE_PENDING"
    OBVIOUS
  <2> HIDE DEF at
  <2> QED
    BY <1>2, <2>1, <2>2
<1>5. ASSUME NEW tx \in Txs, NEW at \in {"record", "fail"}, Broadcast(w, tx, at)
      PROVE  /\ UNCHANGED <<calls, buttons, queue>> /\ jobs'[w].at = at
             /\ \A v \in Workers \ {w} : jobs'[v] = jobs[v]
  BY <1>0, <1>5 DEF Broadcast, vars, flowVars, JobRecords
<1>6. CASE RecordPayment(w) \/ MarkSent(w) \/ JobThrows(w)
  <2>1. UNCHANGED <<calls, buttons, queue>>
    BY <1>6 DEF RecordPayment, MarkSent, JobThrows, vars, flowVars
  <2>2. \E at \in {"sent", "fail", "mark"} : JobTo(w, at)
    BY <1>6 DEF RecordPayment, MarkSent, JobThrows
  <2> QED
    BY <1>2, <2>1, <2>2
<1>7. CASE MarkBroadcast(w) \/ FailJob(w)
  <2>1. PICK to \in RowStatuses : SetRow(jobs[w].trade, to)
    BY <1>7 DEF MarkBroadcast, FailJob, RowStatuses
  <2>2. jobs[w].at # "idle" /\ JobDone(w) /\ UNCHANGED <<calls, buttons>>
    BY <1>7 DEF MarkBroadcast, FailJob, At
  <2>3. queue[jobs[w].trade] # "NONE"
    BY <2>2, SenderHolds DEF Held
  <2> QED
    BY <1>0, <1>3, <2>1, <2>2, <2>3 DEF SetRow
<1> QED
  BY <1>1, <1>4, <1>5, <1>6, <1>7 DEF WorkerStep, Send, SendUnanswered

LEMMA WorkerStatus ==
  ASSUME NEW w \in Workers, WorkerStep(w)
  PROVE  \/ UNCHANGED status
         \/ jobs[w].at = "sent" /\ Transition(jobs[w].trade, "CRYPTO_SENT")
<1>1. ASSUME NEW tx \in Txs, Send(w, tx) \/ SendUnanswered(w, tx) PROVE UNCHANGED status
  BY <1>1 DEF Send, SendUnanswered, Broadcast, vars, dbVars
<1>2. RecordPayment(w) => UNCHANGED status
  BY DEF RecordPayment, RecordWithdrawal, dbVars
<1>3. CheckTrade(w) \/ MarkBroadcast(w) \/ JobThrows(w) \/ FailJob(w) => UNCHANGED status
  BY DEF CheckTrade, MarkBroadcast, JobThrows, FailJob, vars, dbVars
<1>4. ASSUME NEW t \in Trades, ClaimRow(w, t) PROVE UNCHANGED status
  BY <1>4 DEF ClaimRow, dbVars
<1>5. MarkSent(w) => \/ UNCHANGED status
                     \/ jobs[w].at = "sent" /\ Transition(jobs[w].trade, "CRYPTO_SENT")
  BY DEF MarkSent, At, dbVars
<1> QED
  BY <1>1, <1>2, <1>3, <1>4, <1>5 DEF WorkerStep

LEMMA ChainNext ==
  ASSUME EngineInv, [PayNext]_allVars
  PROVE  /\ ChainStays
         /\ \A tx \in Txs : chain'[tx] # chain[tx] =>
               \E w \in Workers : jobs[w].at = "send" /\ chain'[tx] = jobs[w].trade
<1>1. ASSUME NEW w \in Workers, NEW tx \in Txs, NEW at, Broadcast(w, tx, at)
      PROVE  /\ jobs[w].at = "send" /\ chain[tx] = "none" /\ chain'[tx] = jobs[w].trade
             /\ \A x \in Txs \ {tx} : chain'[x] = chain[x]
  BY <1>1 DEF Broadcast, At, Unsent, EngineInv, PayInv, PayShape
<1>2. ASSUME NEW w \in Workers, WorkerStep(w), UNCHANGED chain
      PROVE  ChainStays
  BY <1>2 DEF ChainStays
<1>3. \/ UNCHANGED chain
      \/ \E w \in Workers, tx \in Txs, at \in {"record", "fail"} : Broadcast(w, tx, at)
  <2>1. ASSUME NEW w \in Workers, WorkerStep(w)
        PROVE  \/ UNCHANGED chain
               \/ \E tx \in Txs, at \in {"record", "fail"} : Broadcast(w, tx, at)
    BY <2>1 DEF WorkerStep, ClaimRow, CheckTrade, Send, SendUnanswered, RecordPayment, MarkSent,
                MarkBroadcast, JobThrows, FailJob
  <2>2. ASSUME NEW tx \in Txs, LoopStep(tx) PROVE UNCHANGED chain
    BY <2>2 DEF LoopStep, Confirm, SettlePaid, MarkConfirmed, LoopThrows, GiveUp
  <2> QED
    BY <2>1, <2>2 DEF PayNext, payVars, allVars, RetryRow, Restart
<1> QED
  BY <1>1, <1>3 DEF ChainStays

LEMMA WorkerPaid ==
  ASSUME EngineInv, PaidInv, NEW w \in Workers, WorkerStep(w), Evolves, ChainStays,
         keys \subseteq keys'
  PROVE  PaidInv'
<1>1. Ways' /\ buttons \subseteq buttons'
  BY WorkerRows, WaysRest DEF PaidInv
<1>2. CASE UNCHANGED status
  <2>1. \A t \in Trades : PaidOK(t)'
    BY <1>1, <1>2, PaidStays
  <2>2. \A v \in Workers : SendOK(v)'
    BY <1>2, WorkerRows DEF PaidInv, SendOK, Paid
  <2> QED
    BY <1>1, <2>1, <2>2 DEF PaidInv
<1>3. CASE jobs[w].at = "sent" /\ Transition(jobs[w].trade, "CRYPTO_SENT")
  <2>1. PICK t \in Trades : t = jobs[w].trade
    BY <1>3, SenderHolds
  <2>2. status'[t] = "CRYPTO_SENT" /\ \A u \in Trades \ {t} : status'[u] = status[u]
    BY <1>3, <2>1 DEF Transition, SetStatus, EngineInv, FlowInv, DbInv, DbTypeOK
  <2>3. Recorded(t)
    BY <1>3, <2>1 DEF EngineInv, ChainInv, RunOK, Recorded
  <2>4. Recorded(t)'
    BY <1>1, <2>3, PaidStays
  <2>5. \A u \in Trades : PaidOK(u)'
    BY <1>1, <2>2, <2>4, PaidStays DEF PaidOK
  <2>6. ASSUME NEW v \in Workers \ {w} PROVE SendOK(v)'
    <3>1. jobs'[v] = jobs[v] /\ SendOK(v)
      BY WorkerRows DEF PaidInv
    <3>2. jobs[v].at = "send" => jobs[v].trade \in Trades \ {t}
      BY <2>1, SenderHolds DEF EngineInv, PayInv, RunsApart
    <3> QED
      BY <2>2, <3>1, <3>2 DEF SendOK
  <2>7. SendOK(w)'
    BY <2>1, <2>2, <1>3, WorkerRows DEF SendOK, Paid, EngineInv, FlowInv
  <2> QED
    BY <1>1, <2>5, <2>6, <2>7 DEF PaidInv
<1> QED
  BY <1>2, <1>3, WorkerStatus

LEMMA LoopRows ==
  ASSUME EngineInv, NEW tx \in Txs, LoopStep(tx)
  PROVE  /\ UNCHANGED <<calls, buttons, jobs, chain>>
         /\ \A t \in Trades : queue[t] = "NONE" => queue'[t] = "NONE"
         /\ UNCHANGED status \/ (loops[tx] = "poll" /\ Transition(chain[tx], "COMPLETED"))
<1>1. CASE Confirm(tx)
  BY <1>1 DEF Confirm, flowVars
<1>2. CASE SettlePaid(tx)
  BY <1>2 DEF SettlePaid, SettleTradeProfit, flowVars, dbVars
<1>3. CASE MarkConfirmed(tx)
  BY <1>3, PayTypes DEF MarkConfirmed, SetRow, dbVars, EngineInv
<1>4. CASE LoopThrows(tx) \/ GiveUp(tx)
  BY <1>4 DEF LoopThrows, GiveUp, vars, dbVars, flowVars
<1> QED
  BY <1>1, <1>2, <1>3, <1>4 DEF LoopStep

LEMMA LoopPaid ==
  ASSUME EngineInv, PaidInv, NEW tx \in Txs, LoopStep(tx), Evolves
  PROVE  PaidInv'
<1>1. /\ UNCHANGED <<calls, buttons, jobs, chain>>
      /\ \A t \in Trades : queue[t] = "NONE" => queue'[t] = "NONE"
      /\ UNCHANGED status \/ (loops[tx] = "poll" /\ Transition(chain[tx], "COMPLETED"))
  BY LoopRows
<1>2. Ways' /\ buttons \subseteq buttons' /\ ChainStays
  BY <1>1, WaysRest DEF PaidInv, ChainStays
<1>3. CASE UNCHANGED status
  BY <1>1, <1>2, <1>3, PaidStays DEF PaidInv, SendOK
<1>4. CASE loops[tx] = "poll" /\ Transition(chain[tx], "COMPLETED")
  <2>1. PICK t \in Trades : t = chain[tx] /\ status[t] \in Paid /\ PayKey(t, tx) \in keys
    BY <1>4 DEF EngineInv, ChainInv, LoopOK, PayInv, PayShape
  <2>2. status'[t] = "COMPLETED" /\ \A u \in Trades \ {t} : status'[u] = status[u]
    BY <1>4, <2>1 DEF Transition, SetStatus, EngineInv, FlowInv, DbInv, DbTypeOK
  <2>3. Recorded(t)
    BY <2>1 DEF Recorded
  <2>4. \A u \in Trades : PaidOK(u)'
    BY <1>2, <2>2, <2>3, PaidStays DEF PaidOK
  <2>5. ASSUME NEW w \in Workers PROVE SendOK(w)'
    <3>1. jobs[w].at = "send" => jobs[w].trade \in Trades \ {t}
      BY <2>1, SenderHolds DEF PaidInv, SendOK
    <3> QED
      BY <1>1, <2>2, <3>1 DEF PaidInv, SendOK
  <2> QED
    BY <1>2, <2>4, <2>5 DEF PaidInv
<1> QED
  BY <1>1, <1>3, <1>4

LEMMA FlowPaid ==
  ASSUME EngineInv, PaidInv, "dashboard" \notin Ops, Next, UNCHANGED payVars, Evolves
  PROVE  PaidInv'
<1>1. WaysStep /\ ChainStays /\ UNCHANGED jobs
  BY WaysNext DEF EngineInv, PaidInv, ChainStays, payVars
<1>2. ASSUME NEW t \in Trades PROVE PaidOK(t)'
  <2>1. CASE status'[t] = status[t]
    BY <1>1, <2>1, PaidStays DEF WaysStep
  <2>2. CASE status'[t] # status[t]
    BY <1>1, <2>2, PaidStays DEF WaysStep, Moves, PaidOK, Paid
  <2> QED
    BY <2>1, <2>2
<1>3. ASSUME NEW w \in Workers PROVE SendOK(w)'
  <2> DEFINE t == jobs[w].trade
  <2>1. CASE jobs[w].at = "send"
    <3>1. t \in Trades /\ ~ByHand(t) /\ status[t] \notin Paid
      BY <2>1, SenderHolds, ByHandUnqueued DEF Held, PaidInv, SendOK
    <3> QED
      BY <1>1, <3>1 DEF WaysStep, Moves, SendOK
  <2>2. CASE jobs[w].at # "send"
    BY <1>1, <2>2 DEF SendOK
  <2> QED
    BY <2>1, <2>2
<1> QED
  BY <1>1, <1>2, <1>3 DEF PaidInv, WaysStep

LEMMA RestPaid ==
  ASSUME EngineInv, PaidInv, Evolves,
         (\E t \in Trades : RetryRow(t)) \/ Restart \/ UNCHANGED allVars
  PROVE  PaidInv'
<1>0. /\ UNCHANGED <<buttons, chain>> /\ UNCHANGED status
      /\ \A t \in Trades : queue[t] = "NONE" => queue'[t] = "NONE"
  BY PayTypes DEF RetryRow, Restart, SetRow, allVars, vars, dbVars, flowVars, payVars, EngineInv
<1>1. Ways'
  <2>1. CASE UNCHANGED calls
    BY <1>0, <2>1, WaysRest DEF PaidInv
  <2>2. CASE calls' = [p \in Slots |-> NoCall]
    BY <1>0, <2>2, NoCallFits DEF PaidInv, Ways, WayOK
  <2> QED
    BY <2>1, <2>2 DEF RetryRow, Restart, allVars, vars, flowVars
<1>2. \A w \in Workers : jobs'[w].at = "send" => jobs'[w] = jobs[w]
  BY DEF RetryRow, Restart, NoJob, allVars, payVars
<1>3. \A w \in Workers : SendOK(w)'
  BY <1>0, <1>2 DEF PaidInv, SendOK
<1>4. \A t \in Trades : PaidOK(t)'
  BY <1>0, PaidStays DEF ChainStays
<1> QED
  BY <1>1, <1>3, <1>4 DEF PaidInv

LEMMA PaidInit == PayInit => PaidInv
<1>1. NoJob.at = "idle"
  BY DEF NoJob
<1> QED
  BY NoCallFits, <1>1 DEF PayInit, Init, DbInit, PaidInv, Ways, WayOK, PaidOK, SendOK

LEMMA PaidNext ==
  ASSUME EngineInv, PaidInv, "dashboard" \notin Ops, [PayNext]_allVars PROVE PaidInv'
<1>1. Evolves /\ ChainStays /\ keys \subseteq keys'
  BY EngineNext, ChainNext DEF EngineStep, Evolves
<1> QED
  BY <1>1, WorkerPaid, LoopPaid, FlowPaid, RestPaid DEF PayNext

THEOREM PaidInvHolds == ASSUME "dashboard" \notin Ops PROVE PaySpec => []PaidInv
<1>1. PayInit => PaidInv
  BY PaidInit
<1>2. EngineInv /\ PaidInv /\ [PayNext]_allVars => PaidInv'
  BY PaidNext
<1> QED
  BY <1>1, <1>2, EngineInvHolds, PTL DEF PaySpec

(* Where no dashboard completes trades by a bare transition, a trade counts *)
(* as paid by the bot only if a payment for it went out and its amount left *)
(* the escrow of the ledger: whatever fails, restarts or is retried.        *)
THEOREM CountedIsRecorded == ASSUME "dashboard" \notin Ops PROVE PaySpec => []PaidIsRecorded
<1>1. EngineInv /\ PaidInv => PaidIsRecorded
  BY ByHandUnqueued DEF PaidInv, PaidOK, PaidIsRecorded, CountsAsPaid
<1> QED
  BY <1>1, EngineInvHolds, PaidInvHolds, PTL

(* Nothing is broadcast for a trade that counts as paid: between the look   *)
(* at the trade and the payment, nobody else completes it.                  *)
THEOREM NeverRepaid == ASSUME "dashboard" \notin Ops PROVE PaySpec => NotRepaid
<1>1. EngineInv /\ PaidInv /\ [PayNext]_allVars =>
        [\A tx \in Txs : chain'[tx] # chain[tx] => ~CountsAsPaid(chain'[tx])]_allVars
  BY ChainNext DEF PaidInv, SendOK, Paid, CountsAsPaid
<1> QED
  BY <1>1, EngineInvHolds, PaidInvHolds, PTL DEF PaySpec, NotRepaid

-----------------------------------------------------------------------------
(* Cancelled trades, while the bot pays and restarts                        *)

\* Payments take a trade to be sent or completed, never to be cancelled.
Cancelling(t) == status[t] # "CANCELLED" /\ status'[t] = "CANCELLED"
Uncancelled == \A t \in Trades : ~Cancelling(t)

LEMMA ToAnother ==
  ASSUME FlowInv, NEW t \in Trades, NEW to, SetStatus(t, to), to # "CANCELLED"
  PROVE  Uncancelled
BY DEF SetStatus, FlowInv, DbInv, DbTypeOK, Uncancelled, Cancelling

LEMMA EngineCancelsNothing ==
  ASSUME EngineInv, EngineOnly PROVE Uncancelled
<1>1. ASSUME NEW t \in Trades, NEW to, Transition(t, to), to # "CANCELLED" PROVE Uncancelled
  BY <1>1, ToAnother DEF Transition, EngineInv
<1>2. CASE UNCHANGED status
  BY <1>2 DEF Uncancelled, Cancelling
<1>3. ASSUME NEW w \in Workers, WorkerStep(w) PROVE Uncancelled
  <2>1. jobs[w].at = "sent" => jobs[w].trade \in Trades
    BY SenderHolds
  <2> QED
    BY <1>1, <1>2, <1>3, <2>1, WorkerStatus
<1>4. ASSUME NEW tx \in Txs, LoopStep(tx) PROVE Uncancelled
  <2>1. loops[tx] = "poll" => chain[tx] \in Trades
    BY DEF EngineInv, ChainInv, LoopOK, PayInv, PayShape
  <2> QED
    BY <1>1, <1>2, <1>4, <2>1, LoopRows
<1>5. (\E t \in Trades : RetryRow(t)) \/ Restart => UNCHANGED status
  BY DEF RetryRow, Restart, dbVars
<1> QED
  BY <1>2, <1>3, <1>4, <1>5 DEF EngineOnly

\* Calls go on where they were, or are all forgotten.
LEMMA EngineCalls ==
  ASSUME EngineInv, EngineOnly
  PROVE  UNCHANGED calls \/ \A p \in Slots : calls'[p] = NoCall
BY WorkerRows, LoopRows DEF EngineOnly, RetryRow, Restart

(* Also while the bot pays, rows are retried and the process restarts, a    *)
(* crypto trade that force-cancel or its timeout cancels has had its escrow *)
(* returned.                                                                *)
THEOREM PayingReturnsEscrow == PaySpec => CancelReturnsEscrow
<1>1. ASSUME EngineInv, [PayNext]_allVars, NEW p \in Slots,
             Cancels(p, {"force_cancel", "cancel_stale"}), Direction[calls[p].trade] = "CRYPTO"
      PROVE  ReleaseKey(calls[p].trade, "CANCEL") \in keys'
  <2>1. CASE Next
    BY <1>1, <2>1, CancelledReturned DEF EngineInv
  <2>2. CASE EngineOnly
    <3>1. calls[p].trade \in Trades
      BY <1>1 DEF EngineInv, FlowInv, CallOK, Cancels, Ends
    <3> QED
      BY <1>1, <2>2, <3>1, EngineCancelsNothing DEF Cancels, Uncancelled, Cancelling
  <2>3. CASE UNCHANGED allVars
    BY <1>1, <2>3 DEF Cancels, allVars, vars, dbVars
  <2> QED
    BY <1>1, <2>1, <2>2, <2>3 DEF PayNext, EngineOnly
<1>2. EngineInv /\ [PayNext]_allVars =>
        [\A p \in Slots :
           LET t == calls[p].trade
           IN Cancels(p, {"force_cancel", "cancel_stale"}) /\ Direction[t] = "CRYPTO"
                => ReleaseKey(t, "CANCEL") \in keys']_vars
  BY <1>1
<1> QED
  BY <1>2, EngineInvHolds, PTL DEF PaySpec, CancelReturnsEscrow

LEMMA PayingKeepsCollateral ==
  ASSUME EngineInv, CollateralInv, EngineOnly PROVE CollateralInv'
<1>1. FlowInv' /\ Evolves
  BY EngineNext DEF EngineStep, PayNext, EngineOnly
<1>2. LockedWhenClaimed
  BY EngineCollateral DEF LockedWhenClaimed
<1>3. CASE UNCHANGED calls
  <2> DEFINE P == {}
  <2>1. P \in SUBSET Slots /\ \A q \in P : FALSE
    OBVIOUS
  <2> HIDE DEF P
  <2> QED
    BY <1>1, <1>2, <1>3, <2>1, CollateralMove
<1>4. CASE \A p \in Slots : calls'[p] = NoCall
  <2>1. \A p \in Slots : CancelCall(p)'
    BY <1>4, NoCallFits DEF CancelCall
  <2>2. Slots \in SUBSET Slots /\ \A q \in Slots \ Slots : calls'[q] = calls[q]
    OBVIOUS
  <2> QED
    BY <1>1, <1>2, <2>1, <2>2, CollateralMove
<1> QED
  BY <1>3, <1>4, EngineCalls

LEMMA PayingCollateralInv == PaySpec => []CollateralInv
<1>1. EngineInv /\ CollateralInv /\ [PayNext]_allVars => CollateralInv'
  <2> SUFFICES ASSUME EngineInv, CollateralInv, [PayNext]_allVars PROVE CollateralInv'
    OBVIOUS
  <2>1. CASE [Next]_vars
    BY <2>1, CollateralStep
  <2>2. CASE EngineOnly
    BY <2>2, PayingKeepsCollateral
  <2> QED
    BY <2>1, <2>2 DEF PayNext, EngineOnly, allVars
<1>2. PayInit => CollateralInv
  BY CollateralInit DEF PayInit
<1> QED
  BY <1>1, <1>2, EngineInvHolds, PTL DEF PaySpec

(* Also while the bot pays, rows are retried and the process restarts, a    *)
(* fiat-to-fiat trade that force-cancel cancels has had its collateral      *)
(* returned.                                                                *)
THEOREM PayingReturnsCollateral == PaySpec => CancelReturnsCollateral
<1>1. ASSUME EngineInv, CollateralInv, [PayNext]_allVars, NEW p \in Slots,
             Cancels(p, {"force_cancel"}), WithCollateral(calls[p].trade)
      PROVE  FreeKey(calls[p].trade, "CANCEL") \in keys'
  <2>1. CASE Next
    BY <1>1, <2>1, CancelledFree
  <2>2. CASE EngineOnly
    <3>1. calls[p].trade \in Trades
      BY <1>1 DEF EngineInv, FlowInv, CallOK, Cancels, Ends
    <3> QED
      BY <1>1, <2>2, <3>1, EngineCancelsNothing DEF Cancels, Uncancelled, Cancelling
  <2>3. CASE UNCHANGED allVars
    BY <1>1, <2>3 DEF Cancels, allVars, vars, dbVars
  <2> QED
    BY <1>1, <2>1, <2>2, <2>3 DEF PayNext, EngineOnly
<1>2. EngineInv /\ CollateralInv /\ [PayNext]_allVars =>
        [\A p \in Slots :
           LET t == calls[p].trade
           IN Cancels(p, {"force_cancel"}) /\ WithCollateral(t)
                => FreeKey(t, "CANCEL") \in keys']_vars
  BY <1>1
<1> QED
  BY <1>2, EngineInvHolds, PayingCollateralInv, PTL DEF PaySpec, CancelReturnsCollateral
-----------------------------------------------------------------------------
(* A second payment.  It takes a run that fails after its broadcast, before *)
(* the trade is CRYPTO_SENT: nothing else makes one.                        *)

Sent(t) == \E tx \in Txs : chain[tx] = t

\* A run that fails for a trade whose payment is out fails once it is marked as
\* sent, or disputed; the two are then told from a trade that is still to be paid.
LateFailuresMarked ==
  \A w \in Workers : jobs'[w].at = "fail" /\ jobs[w].at # "fail" /\ Sent(jobs[w].trade)'
                       => status[jobs[w].trade] # "RELEASE_PENDING"
FailsEarly == [][LateFailuresMarked]_allVars

\* Until then one run keeps the row, or a restart leaves it where nothing takes it up.
Unclaimable(t) == /\ queue[t] \in Held
                  /\ \A w \in Workers : jobs[w].trade = t => jobs[w].at \in {"record", "sent"}

SentInv == /\ PaidOnce
           /\ \A t \in Trades : Sent(t) => queue[t] # "NONE"
           /\ \A t \in Trades : Sent(t) /\ status[t] = "RELEASE_PENDING" => Unclaimable(t)
           /\ \A w \in Workers : jobs[w].at = "send" => ~Sent(jobs[w].trade)

\* RELEASE_PENDING is entered from FIAT_SENT only.
LEMMA ReleasedFrom ==
  ASSUME DbInv, [DbNext]_dbVars, NEW t \in Trades, status'[t] = "RELEASE_PENDING"
  PROVE  status[t] \in {"RELEASE_PENDING", "FIAT_SENT"}
<1> SUFFICES ASSUME DbNext, status'[t] # status[t] PROVE status[t] = "FIAT_SENT"
  BY DEF dbVars
<1>1. ASSUME NEW u \in Trades, NEW to, SetStatus(u, to) PROVE u = t /\ to = "RELEASE_PENDING"
  BY <1>1 DEF SetStatus, DbInv, DbTypeOK
<1>2. ASSUME IsTransitionAllowed(t, "RELEASE_PENDING") PROVE status[t] = "FIAT_SENT"
  <2>1. status[t] \in Statuses
    BY DEF DbInv, DbTypeOK
  <2> QED
    BY <1>2, <2>1 DEF IsTransitionAllowed, Allowed, Statuses
<1>3. ASSUME NEW u \in Trades, NEW e \in Exchangers, Claim(u, e) PROVE FALSE
  BY <1>1, <1>3, ClaimFacts
<1>4. ASSUME NEW u \in Trades, NEW to, Transition(u, to) PROVE status[t] = "FIAT_SENT"
  BY <1>1, <1>2, <1>4 DEF Transition
<1>5. ASSUME NEW u \in Trades, TransitionWithWallet(u) PROVE status[t] = "FIAT_SENT"
  BY <1>1, <1>2, <1>5 DEF TransitionWithWallet
<1>6. ASSUME NEW u \in Trades, OwnedNext(u, owner[u]) PROVE FALSE
  <2>1. CASE CancelTradeAndReleaseEscrow(u, owner[u])
    BY <1>1, <2>1 DEF CancelTradeAndReleaseEscrow
  <2> QED
    BY <1>6, <2>1 DEF OwnedNext, ReleaseEscrow, LockCollateral, ReleaseCollateral,
                      RecordWithdrawal, SettleTradeProfit
<1> QED
  BY <1>3, <1>4, <1>5, <1>6 DEF DbNext

\* So a trade that was paid and waits for CRYPTO_SENT has been waiting.
LEMMA StillPending ==
  ASSUME EngineInv, SentInv, [DbNext]_dbVars, NEW t \in Trades, Sent(t),
         status'[t] = "RELEASE_PENDING"
  PROVE  status[t] = "RELEASE_PENDING"
<1>1. status[t] \in Past
  BY DEF SentInv, EngineInv, FlowInv, ReleaseOK, NotReleased
<1> QED
  BY <1>1, ReleasedFrom DEF Past, EngineInv, FlowInv

\* Steps in which no run moves, but runs may be forgotten.
LEMMA SentQuiet ==
  ASSUME EngineInv, SentInv, [DbNext]_dbVars, UNCHANGED chain,
         \A w \in Workers : jobs'[w] = jobs[w] \/ jobs'[w] = NoJob,
         \A t \in Trades : /\ queue[t] # "NONE" => queue'[t] # "NONE"
                           /\ queue[t] \in Held => queue'[t] \in Held
  PROVE  SentInv'
<1>1. \A t : Sent(t)' = Sent(t)
  BY DEF Sent
<1>2. NoJob.at = "idle" /\ NoJob.trade \notin Trades
  BY PayoutsOK DEF NoJob
<1>3. PaidOnce' /\ \A t \in Trades : Sent(t)' => queue'[t] # "NONE"
  BY <1>1 DEF SentInv, PaidOnce
<1>4. ASSUME NEW t \in Trades, Sent(t)', status'[t] = "RELEASE_PENDING" PROVE Unclaimable(t)'
  <2>1. Unclaimable(t)
    BY <1>1, <1>4, StillPending DEF SentInv
  <2> QED
    BY <1>2, <2>1 DEF Unclaimable
<1>5. \A w \in Workers : jobs'[w].at = "send" => \A x \in Txs : chain'[x] # jobs'[w].trade
  BY <1>1, <1>2 DEF SentInv, Sent
<1> QED
  BY <1>3, <1>4, <1>5 DEF SentInv, Sent

\* Other runs are at other trades.
LEMMA OthersElsewhere ==
  ASSUME EngineInv, NEW w \in Workers, jobs[w].at # "idle", NEW v \in Workers \ {w}
  PROVE  jobs[v].trade # jobs[w].trade
<1>1. jobs[w].trade \in Trades
  BY SenderHolds
<1>2. CASE jobs[v].at = "idle"
  BY <1>1, <1>2, PayoutsOK DEF EngineInv, PayInv, JobOK, NoJob
<1>3. CASE jobs[v].at # "idle"
  BY <1>3 DEF EngineInv, PayInv, RunsApart
<1> QED
  BY <1>2, <1>3

\* A run moves on, or ends, without a broadcast.
LEMMA SentRun ==
  ASSUME EngineInv, SentInv, [DbNext]_dbVars, UNCHANGED chain,
         NEW w \in Workers, NEW t \in Trades, t = jobs[w].trade, jobs[w].at # "idle",
         \A v \in Workers \ {w} : jobs'[v] = jobs[v],
         jobs'[w].trade = t \/ jobs'[w] = NoJob,
         \A u \in Trades \ {t} : queue'[u] = queue[u], queue'[t] # "NONE",
         jobs'[w].at = "send" => ~Sent(t),
         jobs[w].at \in {"record", "sent"} /\ Sent(t) /\ status'[t] = "RELEASE_PENDING"
            => queue'[t] = queue[t] /\ jobs'[w].at \in {"record", "sent"}
  PROVE  SentInv'
<1>1. \A u : Sent(u)' = Sent(u)
  BY DEF Sent
<1>2. NoJob.at = "idle" /\ NoJob.trade \notin Trades
  BY PayoutsOK DEF NoJob
<1>3. PaidOnce' /\ \A u \in Trades : Sent(u)' => queue'[u] # "NONE"
  BY <1>1 DEF SentInv, PaidOnce
<1>4. ASSUME NEW u \in Trades, Sent(u)', status'[u] = "RELEASE_PENDING" PROVE Unclaimable(u)'
  <2>1. Unclaimable(u) /\ Sent(u)
    BY <1>1, <1>4, StillPending DEF SentInv
  <2>2. CASE u = t
    <3>1. queue'[t] = queue[t] /\ jobs'[w].at \in {"record", "sent"}
      BY <1>4, <2>1, <2>2 DEF Unclaimable
    <3>2. \A v \in Workers \ {w} : jobs'[v].trade # t
      BY OthersElsewhere
    <3> QED
      BY <2>1, <2>2, <3>1, <3>2 DEF Unclaimable
  <2>3. CASE u # t
    BY <1>2, <2>1, <2>3 DEF Unclaimable
  <2> QED
    BY <2>2, <2>3
<1>5. \A v \in Workers : jobs'[v].at = "send" => \A x \in Txs : chain'[x] # jobs'[v].trade
  BY <1>1, <1>2 DEF SentInv, Sent
<1> QED
  BY <1>3, <1>4, <1>5 DEF SentInv, Sent

LEMMA SentClaim ==
  ASSUME EngineInv, SentInv, [DbNext]_dbVars, NEW w \in Workers, NEW t \in Trades, ClaimRow(w, t)
  PROVE  SentInv'
<1>1. /\ queue[t] = "PENDING" /\ UNCHANGED chain
      /\ queue'[t] = "PROCESSING" /\ \A u \in Trades \ {t} : queue'[u] = queue[u]
      /\ jobs'[w].trade = t /\ jobs'[w].at = "check"
      /\ \A v \in Workers \ {w} : jobs'[v] = jobs[v]
  BY PayTypes DEF ClaimRow, SetRow, EngineInv, PayShape
<1>2. \A u : Sent(u)' = Sent(u)
  BY <1>1 DEF Sent
<1>3. PaidOnce' /\ \A u \in Trades : Sent(u)' => queue'[u] # "NONE"
  BY <1>1, <1>2 DEF SentInv, PaidOnce
<1>4. ASSUME NEW u \in Trades, Sent(u)', status'[u] = "RELEASE_PENDING" PROVE Unclaimable(u)'
  <2>1. Unclaimable(u)
    BY <1>2, <1>4, StillPending DEF SentInv
  <2>2. u # t
    BY <1>1, <2>1 DEF Unclaimable, Held
  <2> QED
    BY <1>1, <2>1, <2>2 DEF Unclaimable
<1>5. \A v \in Workers : jobs'[v].at = "send" => \A x \in Txs : chain'[x] # jobs'[v].trade
  BY <1>1, <1>2 DEF SentInv, Sent
<1> QED
  BY <1>3, <1>4, <1>5 DEF SentInv, Sent

LEMMA SentBroadcast ==
  ASSUME EngineInv, SentInv, [DbNext]_dbVars, LateFailuresMarked,
         NEW w \in Workers, NEW tx \in Txs, NEW at \in {"record", "fail"}, Broadcast(w, tx, at)
  PROVE  SentInv'
<1> PICK t : t = jobs[w].trade
  OBVIOUS
<1>1. /\ jobs[w].at = "send" /\ chain[tx] = "none" /\ chain'[tx] = t
      /\ \A x \in Txs \ {tx} : chain'[x] = chain[x]
      /\ UNCHANGED queue /\ UNCHANGED status
  BY DEF Broadcast, At, Unsent, EngineInv, PayInv, PayShape, vars, dbVars, flowVars
<1>2. /\ jobs'[w].at = at /\ jobs'[w].trade = t
      /\ \A v \in Workers \ {w} : jobs'[v] = jobs[v]
  BY PayTypes DEF Broadcast, EngineInv, PayShape, JobRecords
<1>3. t \in Trades /\ queue[t] \in Held /\ ~Sent(t)
  BY <1>1, SenderHolds DEF SentInv
<1>4. \A v \in Workers \ {w} : jobs[v].trade # t
  BY <1>1, OthersElsewhere
<1>5. \A u \in Trades \ {t} : Sent(u)' = Sent(u)
  BY <1>1, PayoutsOK DEF Sent
<1>6. Sent(t)'
  BY <1>1 DEF Sent
<1>7. PaidOnce'
  BY <1>1, <1>3 DEF SentInv, PaidOnce, Sent
<1>8. \A u \in Trades : Sent(u)' => queue'[u] # "NONE"
  BY <1>1, <1>3, <1>5 DEF SentInv, Held
<1>9. ASSUME NEW u \in Trades, Sent(u)', status'[u] = "RELEASE_PENDING" PROVE Unclaimable(u)'
  <2>1. CASE u = t
    <3>1. at = "record"
      BY <1>1, <1>2, <1>6, <1>9, <2>1 DEF LateFailuresMarked, Sent
    <3> QED
      BY <1>1, <1>2, <1>3, <1>4, <2>1, <3>1 DEF Unclaimable
  <2>2. CASE u # t
    BY <1>1, <1>2, <1>5, <1>9, <2>2 DEF Unclaimable, SentInv
  <2> QED
    BY <2>1, <2>2
<1>10. ASSUME NEW v \in Workers, jobs'[v].at = "send"
       PROVE  \A x \in Txs : chain'[x] # jobs'[v].trade
  <2>1. v # w /\ jobs'[v] = jobs[v]
    BY <1>2, <1>10
  <2>2. jobs[v].trade \in Trades \ {t} /\ ~Sent(jobs[v].trade)
    BY <1>4, <1>10, <2>1, SenderHolds DEF SentInv
  <2> QED
    BY <1>1, <2>1, <2>2 DEF Sent
<1> QED
  BY <1>7, <1>8, <1>9, <1>10 DEF SentInv, Sent

LEMMA SentWorker ==
  ASSUME EngineInv, SentInv, [DbNext]_dbVars, LateFailuresMarked, NEW w \in Workers, WorkerStep(w)
  PROVE  SentInv'
<1> PICK t : t = jobs[w].trade
  OBVIOUS
<1>1. ASSUME NEW u \in Trades, ClaimRow(w, u) PROVE SentInv'
  BY <1>1, SentClaim
<1>2. ASSUME NEW tx \in Txs, Send(w, tx) \/ SendUnanswered(w, tx) PROVE SentInv'
  BY <1>2, SentBroadcast DEF Send, SendUnanswered
<1>3. jobs[w].at # "idle" => t \in Trades /\ queue[t] # "NONE"
  BY SenderHolds DEF Held
<1>4. ASSUME NEW at \in {"send", "sent", "mark", "fail"}, JobTo(w, at), jobs[w].at # "idle",
             UNCHANGED <<queue, chain>>, at = "send" => ~Sent(t),
             jobs[w].at \in {"record", "sent"} /\ Sent(t) /\ status'[t] = "RELEASE_PENDING"
                => at \in {"record", "sent"}
      PROVE  SentInv'
  <2>1. /\ \A v \in Workers \ {w} : jobs'[v] = jobs[v]
        /\ jobs'[w].at = at /\ jobs'[w].trade = t
    BY <1>4, PayTypes, JobToEffect DEF EngineInv
  <2> QED
    BY <1>3, <1>4, <2>1, SentRun
<1>5. ASSUME JobTo(w, "fail"), jobs[w].at \notin {"idle", "fail"}, UNCHANGED <<queue, chain>>
      PROVE  SentInv'
  <2>1. jobs'[w].at = "fail" /\ jobs'[w].trade = t
    BY <1>5, PayTypes, JobToEffect DEF EngineInv
  <2>2. Sent(t) => status[t] # "RELEASE_PENDING"
    BY <1>5, <2>1 DEF LateFailuresMarked, Sent
  <2>3. Sent(t) => status'[t] # "RELEASE_PENDING"
    BY <1>3, <1>5, <2>2, StillPending
  <2> QED
    BY <1>4, <1>5, <2>3
<1>6. CASE CheckTrade(w)
  <2> DEFINE at == CASE status[t] \in {"CRYPTO_SENT", "COMPLETED"} -> "mark"
                     [] status[t] = "RELEASE_PENDING" /\ wallet[t] -> "send"
                     [] OTHER -> "fail"
  <2>1. JobTo(w, at) /\ jobs[w].at = "check" /\ UNCHANGED <<queue, chain>>
    BY <1>6 DEF CheckTrade, At, vars, flowVars
  <2>2. at \in {"send", "mark", "fail"} /\ (at = "send" => status[t] = "RELEASE_PENDING")
    OBVIOUS
  <2> HIDE DEF at
  <2>3. at = "send" => ~Sent(t)
    BY <1>3, <2>1, <2>2 DEF SentInv, Unclaimable
  <2> QED
    BY <1>4, <2>1, <2>2, <2>3
<1>7. CASE RecordPayment(w) \/ JobThrows(w)
  <2>1. /\ jobs[w].at \notin {"idle", "fail"} /\ UNCHANGED <<queue, chain>>
        /\ JobTo(w, "sent") \/ JobTo(w, "fail")
    BY <1>7 DEF RecordPayment, JobThrows, At, vars, flowVars
  <2> QED
    BY <1>4, <1>5, <2>1
<1>8. CASE MarkSent(w)
  <2>1. jobs[w].at = "sent" /\ UNCHANGED <<queue, chain>>
    BY <1>8 DEF MarkSent, At, flowVars
  <2>2. CASE Transition(t, "CRYPTO_SENT") /\ JobTo(w, "mark")
    <3>1. status'[t] = "CRYPTO_SENT"
      BY <1>3, <2>1, <2>2 DEF Transition, SetStatus, EngineInv, FlowInv, DbInv, DbTypeOK
    <3> QED
      BY <1>4, <2>1, <2>2, <3>1
  <2> QED
    BY <1>5, <1>8, <2>1, <2>2 DEF MarkSent
<1>9. CASE MarkBroadcast(w) \/ FailJob(w)
  <2>1. PICK to \in RowStatuses \ {"NONE"} : SetRow(t, to)
    BY <1>9 DEF MarkBroadcast, FailJob, RowStatuses
  <2>2. jobs[w].at \in {"mark", "fail"} /\ JobDone(w) /\ UNCHANGED chain
    BY <1>9 DEF MarkBroadcast, FailJob, At
  <2>3. /\ \A v \in Workers \ {w} : jobs'[v] = jobs[v]
        /\ jobs'[w] = NoJob /\ jobs'[w].at = "idle"
    BY <2>2, PayTypes, JobDoneEffect DEF EngineInv
  <2>4. queue'[t] = to /\ \A u \in Trades \ {t} : queue'[u] = queue[u]
    BY <1>3, <2>1, <2>2, PayTypes DEF SetRow, EngineInv
  <2> QED
    BY <1>3, <2>1, <2>2, <2>3, <2>4, SentRun
<1> QED
  BY <1>1, <1>2, <1>6, <1>7, <1>8, <1>9 DEF WorkerStep

LEMMA SentRest ==
  ASSUME EngineInv, SentInv, [DbNext]_dbVars,
         \/ Next /\ UNCHANGED payVars
         \/ \E tx \in Txs : LoopStep(tx)
         \/ \E t \in Trades : RetryRow(t)
         \/ Restart
         \/ UNCHANGED allVars
  PROVE  SentInv'
<1> DEFINE rows == \A t \in Trades : /\ queue[t] # "NONE" => queue'[t] # "NONE"
                                     /\ queue[t] \in Held => queue'[t] \in Held
<1>0. queue \in [Trades -> RowStatuses]
  BY PayTypes DEF EngineInv
<1>1. ASSUME NEW t \in Trades, NEW to, SetRow(t, to), to # "NONE", queue[t] \in Held => to \in Held
      PROVE  rows
  BY <1>0, <1>1 DEF SetRow
<1>2. CASE Next /\ UNCHANGED payVars
  <2>1. ASSUME NEW p \in Slots, QueueWithdrawal(p) PROVE rows
    BY <1>0, <2>1 DEF QueueWithdrawal, Held
  <2>2. rows
    BY <1>2, <2>1, QueueMoves
  <2>3. UNCHANGED <<jobs, chain>>
    BY <1>2 DEF payVars
  <2> QED
    BY <2>2, <2>3, SentQuiet
<1>3. ASSUME NEW tx \in Txs, LoopStep(tx) PROVE SentInv'
  <2>1. MarkConfirmed(tx) \/ UNCHANGED queue
    BY <1>3 DEF LoopStep, Confirm, SettlePaid, LoopThrows, GiveUp, vars, flowVars
  <2>2. ASSUME MarkConfirmed(tx) PROVE rows
    <3>1. /\ chain[tx] \in Trades
          /\ SetRow(chain[tx], IF queue[chain[tx]] \in {"BROADCAST", "PROCESSING"} THEN "CONFIRMED"
                               ELSE queue[chain[tx]])
      BY <2>2 DEF MarkConfirmed, EngineInv, ChainInv, LoopOK, PayInv, PayShape
    <3> QED
      BY <1>0, <3>1 DEF SetRow, Held
  <2>3. rows
    BY <2>1, <2>2
  <2> QED
    BY <1>3, <2>3, LoopRows, SentQuiet
<1>4. ASSUME NEW t \in Trades, RetryRow(t) PROVE SentInv'
  <2>1. rows /\ UNCHANGED <<jobs, chain>>
    BY <1>1, <1>4 DEF RetryRow, payVars, Held
  <2> QED
    BY <2>1, SentQuiet
<1>5. CASE Restart
  <2>1. rows /\ UNCHANGED chain /\ \A w \in Workers : jobs'[w] = NoJob
    BY <1>5 DEF Restart
  <2> QED
    BY <2>1, SentQuiet
<1>6. CASE UNCHANGED allVars
  <2>1. rows /\ UNCHANGED <<jobs, chain>>
    BY <1>6 DEF allVars, vars, flowVars, payVars
  <2> QED
    BY <2>1, SentQuiet
<1> QED
  BY <1>2, <1>3, <1>4, <1>5, <1>6

(* "Duplicate requests are safely ignored" (idempotency.ts), as far as it   *)
(* goes: a second payment of a trade takes a run of the worker that fails   *)
(* between the broadcast and CRYPTO_SENT.  Restarts at any point, retries   *)
(* by hand, disputes, the dashboard and other runs never cause one.         *)
THEOREM PaidTwiceOnlyByLateFailure == PaySpec /\ FailsEarly => []PaidOnce
<1>1. PayInit => SentInv
  <2>1. NoJob.at = "idle"
    BY DEF NoJob
  <2> QED
    BY <2>1, PayoutsOK DEF PayInit, SentInv, PaidOnce, Sent
<1>2. EngineInv /\ SentInv /\ [PayNext]_allVars /\ [LateFailuresMarked]_allVars => SentInv'
  <2> SUFFICES ASSUME EngineInv, SentInv, [PayNext]_allVars, [LateFailuresMarked]_allVars
               PROVE  SentInv'
    OBVIOUS
  <2>1. [DbNext]_dbVars
    BY EngineNext DEF EngineStep
  <2>2. CASE UNCHANGED allVars
    BY <2>1, <2>2, SentRest
  <2>3. CASE PayNext /\ LateFailuresMarked
    BY <2>1, <2>3, SentWorker, SentRest DEF PayNext
  <2> QED
    BY <2>2, <2>3
<1>3. SentInv => PaidOnce
  BY DEF SentInv
<1> QED
  BY <1>1, <1>2, <1>3, EngineInvHolds, PTL DEF PaySpec, FailsEarly
=============================================================================
