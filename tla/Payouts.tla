------------------------------- MODULE Payouts -------------------------------
(***************************************************************************)
(* Payment of trades on-chain: the queue row a release leaves behind, the  *)
(* withdrawal worker that claims it, sendTradePayment, and the loop that   *)
(* waits for confirmations, together with the handlers of TradeFlow.       *)
(*                                                                         *)
(* A run of the worker (a job) claims one row in a transaction and then    *)
(* awaits one call after another: cron starts a run every 15 seconds       *)
(* whether or not the last one is done.  An await may reject (Throws), and *)
(* a restart of the process forgets all jobs and confirmation loops, while *)
(* the rows and what was broadcast stay.  Rows become due again in time    *)
(* (next_attempt_at), so a PENDING row may be claimed at any moment.       *)
(***************************************************************************)
EXTENDS TradeFlow

CONSTANTS Workers,      \* bound: runs of the worker at once
          MaxAttempts,  \* attempt_count from which a failure is final
          Throws,       \* whether an await of the worker may reject
          NoTx

ASSUME PayoutsOK == /\ MaxAttempts \in Nat \ {0}
                    /\ Throws \in BOOLEAN
                    /\ NoTx \notin Txs
                    /\ "none" \notin Trades   \* no trade yet: of a job, of a tx

VARIABLES jobs,      \* the run of each worker slot
          attempts,  \* withdrawals.attempt_count, counted up to MaxAttempts
          chain,     \* the trade each broadcast transaction pays
          loops      \* where waitForConfirmations of each transaction is

payVars == <<jobs, attempts, chain, loops>>
allVars == <<vars, payVars>>

NoJob == [trade |-> "none", at |-> "idle", tx |-> NoTx]
Idle(w) == jobs[w] = NoJob
At(w, at) == jobs[w].at = at
Unsent == {tx \in Txs : chain[tx] = "none"}

PayInit == /\ Init
           /\ jobs = [w \in Workers |-> NoJob]
           /\ attempts = [t \in Trades |-> 0]
           /\ chain = [tx \in Txs |-> "none"]
           /\ loops = [tx \in Txs |-> "none"]

JobTo(w, at) == jobs' = [jobs EXCEPT ![w].at = at]
JobDone(w) == jobs' = [jobs EXCEPT ![w] = NoJob]
SetRow(t, to) == queue' = [queue EXCEPT ![t] = to]

-----------------------------------------------------------------------------
(* processNextWithdrawal                                                    *)

\* SELECT ... FOR UPDATE SKIP LOCKED and UPDATE, one transaction.
ClaimRow(w, t) ==
  /\ Idle(w)
  /\ queue[t] = "PENDING"
  /\ SetRow(t, "PROCESSING")
  /\ jobs' = [jobs EXCEPT ![w] = [trade |-> t, at |-> "check", tx |-> NoTx]]
  /\ attempts' = [attempts EXCEPT ![t] = IF @ < MaxAttempts THEN @ + 1 ELSE @]
  /\ UNCHANGED <<dbVars, calls, buttons, chain, loops>>

\* Mutant: the payment does not look at the status of the trade.
CheckWalletOnly(w) ==
  LET t == jobs[w].trade
  IN /\ At(w, "check")
     /\ JobTo(w, IF wallet[t] THEN "send" ELSE "fail")
     /\ UNCHANGED <<vars, attempts, chain, loops>>

\* sendTradePayment reads the trade, which may have been paid already.
CheckTrade(w) ==
  LET t == jobs[w].trade
  IN /\ At(w, "check")
     /\ JobTo(w, CASE status[t] \in {"CRYPTO_SENT", "COMPLETED"}     -> "mark"
                   [] status[t] = "RELEASE_PENDING" /\ wallet[t]     -> "send"
                   [] OTHER                                          -> "fail")
     /\ UNCHANGED <<vars, attempts, chain, loops>>

\* Mutant: an id is returned before anything is sent.
BroadcastNothing(w, tx, at) ==
  /\ At(w, "send")
  /\ tx \in Unsent
  /\ jobs' = [jobs EXCEPT ![w].at = at, ![w].tx = tx]
  /\ UNCHANGED <<vars, attempts, chain, loops>>

Broadcast(w, tx, at) ==
  /\ At(w, "send")
  /\ tx \in Unsent
  /\ chain' = [chain EXCEPT ![tx] = jobs[w].trade]
  /\ jobs' = [jobs EXCEPT ![w].at = at, ![w].tx = tx]
  /\ UNCHANGED <<vars, attempts, loops>>

\* The transaction is out, and its id is known; or the provider's answer is lost.
Send(w, tx) == Broadcast(w, tx, "record")
SendUnanswered(w, tx) == Throws /\ Broadcast(w, tx, "fail")

\* Mutant: the ledger entry is left for later.
RecordSkipped(w) ==
  /\ At(w, "record")
  /\ JobTo(w, "sent")
  /\ UNCHANGED <<vars, attempts, chain, loops>>

RecordPayment(w) ==
  LET j == jobs[w]
      p == <<owner[j.trade], Asset[j.trade]>>
  IN /\ At(w, "record")
     /\ IF CanEnter(PayKey(j.trade, j.tx), p, "WITHDRAWAL", Amount[j.trade])
          THEN RecordWithdrawal(j.trade, owner[j.trade], j.tx) /\ JobTo(w, "sent")
          ELSE UNCHANGED dbVars /\ JobTo(w, "fail")
     /\ UNCHANGED <<flowVars, attempts, chain, loops>>

\* Then waitForConfirmations runs on its own.
MarkSent(w) ==
  LET j == jobs[w]
  IN /\ At(w, "sent")
     /\ IF IsTransitionAllowed(j.trade, "CRYPTO_SENT")
          THEN /\ Transition(j.trade, "CRYPTO_SENT")
               /\ loops' = [loops EXCEPT ![j.tx] = "poll"]
               /\ JobTo(w, "mark")
          ELSE UNCHANGED <<dbVars, loops>> /\ JobTo(w, "fail")
     /\ UNCHANGED <<flowVars, attempts, chain>>

MarkBroadcast(w) == /\ At(w, "mark")
                    /\ SetRow(jobs[w].trade, "BROADCAST")
                    /\ JobDone(w)
                    /\ UNCHANGED <<dbVars, calls, buttons, attempts, chain, loops>>

JobThrows(w) == /\ Throws
                /\ jobs[w].at \in {"check", "send", "record", "sent", "mark"}
                /\ JobTo(w, "fail")
                /\ UNCHANGED <<vars, attempts, chain, loops>>

\* The catch block.
FailJob(w) ==
  LET t == jobs[w].trade
  IN /\ At(w, "fail")
     /\ SetRow(t, IF attempts[t] >= MaxAttempts THEN "FAILED" ELSE "PENDING")
     /\ JobDone(w)
     /\ UNCHANGED <<dbVars, calls, buttons, attempts, chain, loops>>

-----------------------------------------------------------------------------
(* waitForConfirmations: an error starts the next poll, of 240 at most.     *)

LoopTo(tx, at) == loops' = [loops EXCEPT ![tx] = at]

Confirm(tx) == /\ loops[tx] = "poll"
               /\ Transition(chain[tx], "COMPLETED")
               /\ LoopTo(tx, "settle")
               /\ UNCHANGED <<flowVars, jobs, attempts, chain>>

SettlePaid(tx) ==
  LET t == chain[tx]
  IN /\ loops[tx] = "settle"
     /\ IF Settles(t) THEN SettleTradeProfit(t) ELSE UNCHANGED dbVars
     /\ LoopTo(tx, "confirmed")
     /\ UNCHANGED <<flowVars, jobs, attempts, chain>>

MarkConfirmed(tx) ==
  LET t == chain[tx]
  IN /\ loops[tx] = "confirmed"
     /\ SetRow(t, IF queue[t] \in {"BROADCAST", "PROCESSING"} THEN "CONFIRMED" ELSE queue[t])
     /\ LoopTo(tx, "none")
     /\ UNCHANGED <<dbVars, calls, buttons, jobs, attempts, chain>>

LoopThrows(tx) == /\ Throws
                  /\ loops[tx] \in {"settle", "confirmed"}
                  /\ LoopTo(tx, "poll")
                  /\ UNCHANGED <<vars, jobs, attempts, chain>>

GiveUp(tx) == /\ loops[tx] = "poll"
              /\ LoopTo(tx, "none")
              /\ UNCHANGED <<vars, jobs, attempts, chain>>

-----------------------------------------------------------------------------
\* Mutant: a row that is being worked on may be retried.
RetryAnyRow(t) == /\ queue[t] \notin {"NONE", "PENDING"}
                  /\ SetRow(t, "PENDING")
                  /\ UNCHANGED <<dbVars, calls, buttons, payVars>>

\* The dashboard's retry button.
RetryRow(t) == /\ queue[t] \in {"FAILED", "BROADCAST"}
               /\ SetRow(t, "PENDING")
               /\ UNCHANGED <<dbVars, calls, buttons, payVars>>

\* The process restarts: nothing looks for jobs or loops that were under way.
Restart == /\ jobs' = [w \in Workers |-> NoJob]
           /\ loops' = [tx \in Txs |-> "none"]
           /\ calls' = [p \in Slots |-> NoCall]
           /\ UNCHANGED <<dbVars, buttons, queue, attempts, chain>>

WorkerStep(w) == \/ \E t \in Trades : ClaimRow(w, t)
                 \/ CheckTrade(w)
                 \/ \E tx \in Txs : Send(w, tx) \/ SendUnanswered(w, tx)
                 \/ RecordPayment(w)
                 \/ MarkSent(w)
                 \/ MarkBroadcast(w)
                 \/ JobThrows(w)
                 \/ FailJob(w)

LoopStep(tx) == \/ Confirm(tx) \/ SettlePaid(tx) \/ MarkConfirmed(tx)
                \/ LoopThrows(tx) \/ GiveUp(tx)

PayNext == \/ Next /\ UNCHANGED payVars
           \/ \E w \in Workers : WorkerStep(w)
           \/ \E tx \in Txs : LoopStep(tx)
           \/ \E t \in Trades : RetryRow(t)
           \/ Restart

PaySpec == PayInit /\ [][PayNext]_allVars

-----------------------------------------------------------------------------
(* Type correctness, and a loop waits for a transaction that was broadcast. *)
PayTypeOK ==
  /\ queue \in [Trades -> RowStatuses]
  /\ \A w \in Workers :
        \/ Idle(w)
        \/ jobs[w] \in [trade: Trades, tx: Txs \cup {NoTx},
                        at: {"check", "send", "record", "sent", "mark", "fail"}]
  /\ attempts \in [Trades -> 0..MaxAttempts]
  /\ chain \in [Txs -> Trades \cup {"none"}]
  /\ loops \in [Txs -> {"none", "poll", "settle", "confirmed"}]
  /\ \A tx \in Txs : loops[tx] # "none" => chain[tx] # "none"

(* Two runs of the worker never work on the same row, whatever becomes of   *)
(* its status while one of them is in the middle of a payment.              *)
RowHeldOnce == \A v, w \in Workers :
                  v # w /\ ~Idle(v) => jobs[v].trade # jobs[w].trade

(* A trade counts as paid by the bot only if a transaction that pays it was *)
(* broadcast and its amount has left the escrow of the ledger.              *)
Recorded(t) == \E tx \in Txs : chain[tx] = t /\ PayKey(t, tx) \in keys
CountsAsPaid(t) == \/ status[t] = "CRYPTO_SENT"
                   \/ status[t] = "COMPLETED" /\ queue[t] # "NONE"
PaidIsRecorded == \A t \in Trades : CountsAsPaid(t) => Recorded(t)

(* Whatever fails, restarts or is retried by hand, nothing is broadcast for *)
(* a trade that already counts as paid.                                     *)
NotRepaid == [][\A tx \in Txs : chain'[tx] # chain[tx] => ~CountsAsPaid(chain'[tx])]_allVars

(* "Duplicate requests are safely ignored" (idempotency.ts): a payment that *)
(* is retried is not carried out a second time.                             *)
PaidOnce == \A x, y \in Txs : chain[x] = chain[y] /\ chain[x] # "none" => x = y

(* The ledger takes an amount out of escrow only for a payment that really  *)
(* went out, and for a trade that was released.                             *)
RecordsAreSent == \A t \in Trades, tx \in Txs :
                     PayKey(t, tx) \in keys => chain[tx] = t /\ wallet[t]
=============================================================================
