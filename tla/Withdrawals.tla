----------------------------- MODULE Withdrawals -----------------------------
(***************************************************************************)
(* Withdrawals that pay no trade: an exchanger's /withdraw (a debit of the *)
(* available balance, then a row of withdrawals) and the admin's share of  *)
(* the profit (entry and row of admin_withdrawals in one transaction), and *)
(* the worker, which every 15 seconds starts a run on each of the tables.  *)
(*                                                                         *)
(* A run claims one row, sends, and writes down the outcome; from          *)
(* MaxAttempts failures it gives the money back.  An await may throw, and  *)
(* a restart loses the handlers and runs under way; rows become due again  *)
(* in time.  The ledger operations are one step each (LedgerTx).           *)
(***************************************************************************)
EXTENDS Integers, Functions

CONSTANTS Accounts,     \* the balances withdrawn from
          Standalone,   \* the requests made with /withdraw
          Admin,        \* the requests of the admin
          Account, Amount,
          Funds,        \* what each balance starts with
          Runs,         \* bound: runs of the worker at once
          MaxAttempts,
          Interrupted,  \* whether handlers and runs may be lost
          NoRequest

Requests == Standalone \cup Admin

ASSUME WithdrawalsOK ==
  /\ Standalone \cap Admin = {}
  /\ Account \in [Requests -> Accounts]
  /\ Amount \in [Requests -> Nat \ {0}]
  /\ Funds \in [Accounts -> Nat]
  /\ MaxAttempts \in Nat \ {0}
  /\ Interrupted \in BOOLEAN
  /\ NoRequest \notin Requests

VARIABLES balance,     \* the available balances, and the profit balance
          debited,     \* the requests that have been taken from a balance
          refunded,    \* the requests that have been given back
          handler,     \* how far handleWithdraw has come for each request
          row,         \* the status of each request's row
          attempts,    \* attempt_count, in both tables
          runs,        \* the run of the worker in each slot
          sent         \* how often each request was broadcast

vars == <<balance, debited, refunded, handler, row, attempts, runs, sent>>
requestVars == <<balance, debited, refunded, handler>>

NoRun == [req |-> NoRequest, count |-> 0, at |-> "idle"]
Idle(w) == runs[w] = NoRun

Init == /\ balance = Funds
        /\ debited = {}
        /\ refunded = {}
        /\ handler = [r \in Standalone |-> "debit"]
        /\ row = [r \in Requests |-> "none"]
        /\ attempts = [r \in Requests |-> 0]
        /\ runs = [w \in Runs |-> NoRun]
        /\ sent = [r \in Requests |-> 0]

Debit(r) == /\ balance[Account[r]] >= Amount[r]
            /\ balance' = [balance EXCEPT ![Account[r]] = @ - Amount[r]]
            /\ debited' = debited \cup {r}
Credit(r) == /\ balance' = [balance EXCEPT ![Account[r]] = @ + Amount[r]]
             /\ refunded' = refunded \cup {r}
HandlerTo(r, at) == handler' = [handler EXCEPT ![r] = at]
SetRow(r, to) == row' = [row EXCEPT ![r] = to]
GoOn(w, at) == runs' = [runs EXCEPT ![w].at = at]
End(w) == runs' = [runs EXCEPT ![w] = NoRun]

-----------------------------------------------------------------------------
(* handleWithdraw                                                           *)

AdminDebit(r) == /\ handler[r] = "debit"
                 /\ Debit(r)
                 /\ HandlerTo(r, "queue")
                 /\ UNCHANGED <<refunded, row, attempts, runs, sent>>

QueueWithdrawal(r) == /\ handler[r] = "queue"
                      /\ SetRow(r, "PENDING")
                      /\ HandlerTo(r, "reply")
                      /\ UNCHANGED <<balance, debited, refunded, attempts, runs, sent>>

Reply(r) == /\ handler[r] = "reply"
            /\ HandlerTo(r, "done")
            /\ UNCHANGED <<balance, debited, refunded, row, attempts, runs, sent>>

\* Queueing or replying threw: the catch block refunds, whether there is a row or not.
Refund(r) == /\ handler[r] \in {"queue", "reply"}
             /\ Credit(r)
             /\ HandlerTo(r, "done")
             /\ UNCHANGED <<debited, row, attempts, runs, sent>>

\* A restart; or the refund threw as well, which is ignored.
HandlerLost(r) == /\ Interrupted
                  /\ handler[r] \in {"queue", "reply"}
                  /\ HandlerTo(r, "done")
                  /\ UNCHANGED <<balance, debited, refunded, row, attempts, runs, sent>>

\* requestAdminWithdrawal
RequestAdminWithdrawal(r) == /\ row[r] = "none"
                             /\ Debit(r)
                             /\ SetRow(r, "PENDING")
                             /\ UNCHANGED <<refunded, handler, attempts, runs, sent>>

-----------------------------------------------------------------------------
(* processNextWithdrawal, processNextAdminWithdrawal                        *)

\* Mutant: the attempt is not counted.
ClaimUncounted(w, r) ==
  /\ Idle(w)
  /\ row[r] = "PENDING"
  /\ SetRow(r, "PROCESSING")
  /\ runs' = [runs EXCEPT ![w] = [req |-> r, count |-> 1, at |-> "send"]]
  /\ UNCHANGED <<requestVars, attempts, sent>>

\* One transaction: FOR UPDATE SKIP LOCKED, then UPDATE ... RETURNING.
Claim(w, r) ==
  /\ Idle(w)
  /\ row[r] = "PENDING"
  /\ SetRow(r, "PROCESSING")
  /\ attempts' = [attempts EXCEPT ![r] = @ + 1]
  /\ runs' = [runs EXCEPT ![w] = [req |-> r, count |-> attempts[r] + 1, at |-> "send"]]
  /\ UNCHANGED <<requestVars, sent>>

\* The rows whose asset, amount and destination RETURNING gives to the run: the
\* claim of a row of withdrawals leaves them out.
Returned == Admin

Broadcast(w) == /\ runs[w].at = "send"
                /\ runs[w].req \in Returned
                /\ sent' = [sent EXCEPT ![runs[w].req] = @ + 1]

Send(w) == /\ Broadcast(w)
           /\ GoOn(w, "record")
           /\ UNCHANGED <<requestVars, row, attempts>>

\* The transaction is out, but the answer of the provider is lost.
SendUnanswered(w) == /\ Broadcast(w)
                     /\ GoOn(w, "fail")
                     /\ UNCHANGED <<requestVars, row, attempts>>

\* Without its asset a row has no derivation path.
SendFails(w) == /\ runs[w].at = "send"
                /\ GoOn(w, "fail")
                /\ UNCHANGED <<requestVars, row, attempts, sent>>

MarkBroadcast(w) == /\ runs[w].at = "record"
                    /\ SetRow(runs[w].req, "BROADCAST")
                    /\ End(w)
                    /\ UNCHANGED <<requestVars, attempts, sent>>

MarkFails(w) == /\ runs[w].at = "record"
                /\ GoOn(w, "fail")
                /\ UNCHANGED <<requestVars, row, attempts, sent>>

\* Mutant: every failure is refunded.
RefundAnyFailure(w) ==
  /\ runs[w].at = "fail"
  /\ Credit(runs[w].req)
  /\ GoOn(w, "settle")
  /\ UNCHANGED <<debited, handler, row, attempts, sent>>

\* Mutant: the last failure is not refunded.
NeverRefund(w) == /\ runs[w].at = "fail"
                  /\ GoOn(w, "settle")
                  /\ UNCHANGED <<requestVars, row, attempts, sent>>

\* The head of the catch block: adminCredit without an amount throws, so that a
\* row of withdrawals gets no further; refundAdminWithdrawal refunds once.
RefundFailed(w) ==
  LET r == runs[w].req
      last == runs[w].count >= MaxAttempts
  IN /\ runs[w].at = "fail"
     /\ \/ ~last /\ GoOn(w, "settle") /\ UNCHANGED requestVars
        \/ last /\ r \notin Returned /\ End(w) /\ UNCHANGED requestVars
        \/ /\ last /\ r \in Returned
           /\ GoOn(w, "settle")
           /\ IF r \in refunded THEN UNCHANGED requestVars
                                ELSE Credit(r) /\ UNCHANGED <<debited, handler>>
     /\ UNCHANGED <<row, attempts, sent>>

\* Mutant: one attempt more.
SettleLate(w) ==
  LET r == runs[w].req
  IN /\ runs[w].at = "settle"
     /\ SetRow(r, IF attempts[r] > MaxAttempts THEN "FAILED" ELSE "PENDING")
     /\ End(w)
     /\ UNCHANGED <<requestVars, attempts, sent>>

Settle(w) ==
  LET r == runs[w].req
  IN /\ runs[w].at = "settle"
     /\ SetRow(r, IF attempts[r] >= MaxAttempts THEN "FAILED" ELSE "PENDING")
     /\ End(w)
     /\ UNCHANGED <<requestVars, attempts, sent>>

\* A restart, or an error in the catch block: the row stays PROCESSING.
RunLost(w) == /\ Interrupted
              /\ ~Idle(w)
              /\ End(w)
              /\ UNCHANGED <<requestVars, row, attempts, sent>>

RunStep(w) == \/ Send(w) \/ SendUnanswered(w) \/ SendFails(w) \/ MarkBroadcast(w)
              \/ MarkFails(w) \/ RefundFailed(w) \/ Settle(w)

Next == \/ \E r \in Standalone : \/ AdminDebit(r) \/ QueueWithdrawal(r) \/ Reply(r)
                                 \/ Refund(r) \/ HandlerLost(r)
        \/ \E r \in Admin : RequestAdminWithdrawal(r)
        \/ \E w \in Runs, r \in Requests : Claim(w, r)
        \/ \E w \in Runs : RunStep(w) \/ RunLost(w)

Spec == Init /\ [][Next]_vars

\* A run that is not lost goes on; rows are claimed in the order of created_at
\* among the ones that are due, so that each gets its turn.
FairSpec == /\ Spec
            /\ \A w \in Runs : WF_vars(RunStep(w))
            /\ \A r \in Requests : SF_vars(\E w \in Runs : Claim(w, r))

-----------------------------------------------------------------------------
Held(r) == \E w \in Runs : runs[w].req = r
Total(S) == SumFunctionOnSet(Amount, S)

(* Type correctness.                                                        *)
WithdrawalsTypeOK ==
  /\ balance \in [Accounts -> Nat]
  /\ debited \subseteq Requests /\ refunded \subseteq Requests
  /\ handler \in [Standalone -> {"debit", "queue", "reply", "done"}]
  /\ row \in [Requests -> {"none", "PENDING", "PROCESSING", "BROADCAST", "FAILED"}]
  /\ attempts \in [Requests -> 0..MaxAttempts]
  /\ runs \in [Runs -> [req: Requests \cup {NoRequest}, count: 0..MaxAttempts,
                        at: {"idle", "send", "record", "fail", "settle"}]]
  /\ sent \in [Requests -> 0..MaxAttempts]

(* What is left of a balance and what is out of it, queued, sent or stuck,  *)
(* add up to what was there: nothing is given back twice.                   *)
BalancesAddUp ==
  \A acc \in Accounts :
     balance[acc] + Total({r \in debited \ refunded : Account[r] = acc}) = Funds[acc]

(* An admin withdrawal whose attempts are used up has been given back.      *)
FailedIsRefunded == \A r \in Admin : row[r] = "FAILED" => r \in refunded

(* Nothing is broadcast for a request that was given back, neither by a     *)
(* later attempt nor by another run, nor after handleWithdraw refunded a    *)
(* withdrawal that had been queued all the same.                            *)
NotSentAfterRefund ==
  [][\A r \in Requests : sent'[r] # sent[r] => r \notin refunded /\ r \in debited]_vars

(* An admin withdrawal is broadcast or given up for good, unless a run that *)
(* was working on it is lost: nothing ever takes up its row again.          *)
Orphaned(r) == row[r] = "PROCESSING" /\ ~Held(r)
AdminWithdrawalsEnd ==
  \A r \in Admin : row[r] = "PENDING" ~> row[r] \in {"BROADCAST", "FAILED"} \/ Orphaned(r)

(* What the reply of handleWithdraw promises with "Withdrawal queued": where *)
(* no run is lost, a queued withdrawal is broadcast or given back in the end. *)
QueuedWithdrawalsEnd ==
  \A r \in Standalone : row[r] = "PENDING" ~> row[r] = "BROADCAST" \/ r \in refunded
=============================================================================
