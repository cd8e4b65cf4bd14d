-------------------------- MODULE WithdrawalsProofs --------------------------
(***************************************************************************)
(* Proofs about Withdrawals for any accounts, requests, amounts, limit of  *)
(* attempts and number of runs at once.  All rest on one inductive         *)
(* invariant, which says what each run may assume of its row; the balances *)
(* need besides that one request at a time adds to their sums.             *)
(***************************************************************************)
EXTENDS Withdrawals, FiniteSums

\* A row being worked on is PROCESSING, belongs to one run, and the run knows
\* how many attempts were made.
HeldRows ==
  \A w \in Runs : runs[w].req # NoRequest =>
     /\ runs[w].at # "idle"
     /\ row[runs[w].req] = "PROCESSING"
     /\ runs[w].count = attempts[runs[w].req]
     /\ \A v \in Runs : runs[v].req = runs[w].req => v = w

\* A row that will be claimed has an attempt left, and an attempt sends once.
AttemptsLeft ==
  /\ \A w \in Runs : runs[w].req = NoRequest => runs[w].at = "idle" /\ runs[w].count = 0
  /\ \A r \in Requests : /\ row[r] \in {"none", "PENDING"} => attempts[r] < MaxAttempts
                         /\ sent[r] <= attempts[r]
  /\ \A w \in Runs : runs[w].at = "send" => sent[runs[w].req] < attempts[runs[w].req]

\* How far a request of /withdraw has come.
Handled ==
  /\ \A r \in Standalone : /\ handler[r] \in {"debit", "queue"} => row[r] = "none"
                           /\ handler[r] # "debit" => r \in debited
  /\ \A r \in Requests : row[r] # "none" => r \in debited

\* The worker gives an admin withdrawal back after its last attempt only.
RefundsAreFinal ==
  /\ \A r \in Admin \cap refunded :
        /\ attempts[r] = MaxAttempts
        /\ row[r] \in {"PROCESSING", "FAILED"}
        /\ \A w \in Runs : runs[w].req = r => runs[w].at = "settle"
  /\ \A w \in Runs : runs[w].at = "settle" /\ runs[w].count >= MaxAttempts
                        => runs[w].req \in Admin \cap refunded

WInv == /\ WithdrawalsTypeOK
        /\ HeldRows
        /\ AttemptsLeft
        /\ Handled
        /\ RefundsAreFinal
        /\ FailedIsRefunded
        /\ \A w \in Runs : runs[w].at = "record" => runs[w].req \in Admin

-----------------------------------------------------------------------------
LEMMA InitWInv == Init => WInv
<1> SUFFICES ASSUME Init PROVE WInv
  OBVIOUS
<1> USE DEF Init
<1>1. \A w \in Runs : runs[w].req = NoRequest /\ runs[w].at = "idle" /\ runs[w].count = 0
  BY DEF NoRun
<1>2. WithdrawalsTypeOK
  BY WithdrawalsOK DEF WithdrawalsTypeOK, NoRun, Requests
<1>3. HeldRows /\ AttemptsLeft /\ Handled /\ RefundsAreFinal
  BY <1>1, WithdrawalsOK DEF HeldRows, AttemptsLeft, Handled, RefundsAreFinal, Requests
<1>4. FailedIsRefunded
  BY DEF FailedIsRefunded, Requests
<1> QED
  BY <1>1, <1>2, <1>3, <1>4 DEF WInv

\* The steps of handleWithdraw change no run, and of rows only one that nobody holds.
LEMMA HandlerKeepsWInv ==
  ASSUME WInv, NEW r \in Standalone,
         AdminDebit(r) \/ QueueWithdrawal(r) \/ Reply(r) \/ Refund(r) \/ HandlerLost(r)
  PROVE  WInv'
<1> USE DEF AdminDebit, QueueWithdrawal, Reply, Refund, HandlerLost, Debit, Credit, HandlerTo,
            SetRow, Requests
<1>1. WithdrawalsTypeOK'
  BY WithdrawalsOK DEF WInv, WithdrawalsTypeOK
<1>2. HeldRows'
  BY DEF WInv, WithdrawalsTypeOK, HeldRows, Handled
<1>3. AttemptsLeft'
  BY DEF WInv, WithdrawalsTypeOK, AttemptsLeft, Handled
<1>4. Handled'
  BY DEF WInv, WithdrawalsTypeOK, Handled
<1>5. RefundsAreFinal'
  BY WithdrawalsOK DEF WInv, WithdrawalsTypeOK, RefundsAreFinal, Handled
<1>6. FailedIsRefunded'
  BY DEF WInv, WithdrawalsTypeOK, FailedIsRefunded
<1>7. (\A w \in Runs : runs[w].at = "record" => runs[w].req \in Admin)'
  BY DEF WInv
<1> QED
  BY <1>1, <1>2, <1>3, <1>4, <1>5, <1>6, <1>7 DEF WInv

LEMMA RequestKeepsWInv ==
  ASSUME WInv, NEW r \in Admin, RequestAdminWithdrawal(r)
  PROVE  WInv'
<1> USE DEF RequestAdminWithdrawal, Debit, SetRow, Requests
<1>1. WithdrawalsTypeOK'
  BY WithdrawalsOK DEF WInv, WithdrawalsTypeOK
<1>2. HeldRows' /\ AttemptsLeft'
  BY DEF WInv, WithdrawalsTypeOK, HeldRows, AttemptsLeft
<1>3. Handled' /\ RefundsAreFinal'
  BY WithdrawalsOK DEF WInv, WithdrawalsTypeOK, Handled, RefundsAreFinal
<1>4. FailedIsRefunded'
  BY DEF WInv, WithdrawalsTypeOK, FailedIsRefunded
<1>5. (\A w \in Runs : runs[w].at = "record" => runs[w].req \in Admin)'
  BY DEF WInv
<1> QED
  BY <1>1, <1>2, <1>3, <1>4, <1>5 DEF WInv

\* A claimed row is PENDING, so that no run holds it.
LEMMA ClaimKeepsWInv ==
  ASSUME WInv, NEW w \in Runs, NEW r \in Requests, Claim(w, r)
  PROVE  WInv'
<1> USE DEF Claim, Idle, SetRow, requestVars, Requests
<1>1. /\ runs[w] = NoRun /\ row[r] = "PENDING"
      /\ runs' = [runs EXCEPT ![w] = [req |-> r, count |-> attempts[r] + 1, at |-> "send"]]
      /\ row' = [row EXCEPT ![r] = "PROCESSING"]
      /\ attempts' = [attempts EXCEPT ![r] = @ + 1]
      /\ UNCHANGED <<balance, debited, refunded, handler, sent>>
  OBVIOUS
<1>2. attempts[r] \in Nat /\ attempts[r] < MaxAttempts /\ r \notin Admin \cap refunded
  BY <1>1 DEF WInv, WithdrawalsTypeOK, AttemptsLeft, RefundsAreFinal
<1>3. \A v \in Runs : runs[v].req # r
  BY <1>1, WithdrawalsOK DEF WInv, HeldRows
<1>4. /\ runs'[w] = [req |-> r, count |-> attempts[r] + 1, at |-> "send"]
      /\ \A v \in Runs \ {w} : runs'[v] = runs[v]
      /\ row'[r] = "PROCESSING" /\ attempts'[r] = attempts[r] + 1
      /\ \A q \in Requests \ {r} : row'[q] = row[q] /\ attempts'[q] = attempts[q]
  BY <1>1 DEF WInv, WithdrawalsTypeOK
<1>5. WithdrawalsTypeOK'
  BY <1>1, <1>2, WithdrawalsOK DEF WInv, WithdrawalsTypeOK
<1>6. HeldRows'
  BY <1>3, <1>4 DEF WInv, HeldRows, WithdrawalsTypeOK
<1>7. AttemptsLeft'
  BY <1>1, <1>2, <1>3, <1>4, WithdrawalsOK DEF WInv, AttemptsLeft, WithdrawalsTypeOK
<1>8. Handled'
  BY <1>1, <1>4 DEF WInv, Handled
<1>9. RefundsAreFinal'
  BY <1>1, <1>2, <1>4 DEF WInv, RefundsAreFinal, WithdrawalsTypeOK
<1>10. FailedIsRefunded'
  BY <1>1, <1>4 DEF WInv, FailedIsRefunded
<1>11. (\A v \in Runs : runs[v].at = "record" => runs[v].req \in Admin)'
  BY <1>4 DEF WInv
<1> QED
  BY <1>5, <1>6, <1>7, <1>8, <1>9, <1>10, <1>11 DEF WInv

\* What a run that is not idle may assume.
LEMMA RunFacts ==
  ASSUME WInv, NEW w \in Runs, runs[w].at # "idle"
  PROVE  /\ runs[w].req \in Requests /\ runs[w].req # NoRequest
         /\ row[runs[w].req] = "PROCESSING"
         /\ runs[w].count = attempts[runs[w].req]
         /\ \A v \in Runs : runs[v].req = runs[w].req => v = w
         /\ runs[w].at = "send" => sent[runs[w].req] < attempts[runs[w].req]
         /\ runs[w].at # "settle" => runs[w].req \notin Admin \cap refunded
BY DEF WInv, WithdrawalsTypeOK, HeldRows, AttemptsLeft, RefundsAreFinal

\* What moving a run on changes.
LEMMA GoOnEffect ==
  ASSUME WithdrawalsTypeOK, NEW w \in Runs,
         NEW to \in {"send", "record", "fail", "settle"}, GoOn(w, to)
  PROVE  /\ runs'[w].at = to
         /\ runs'[w].req = runs[w].req
         /\ runs'[w].count = runs[w].count
         /\ \A v \in Runs \ {w} : runs'[v] = runs[v]
         /\ runs' \in [Runs -> [req: Requests \cup {NoRequest}, count: 0..MaxAttempts,
                               at: {"idle", "send", "record", "fail", "settle"}]]
<1>1. runs \in [Runs -> [req: Requests \cup {NoRequest}, count: 0..MaxAttempts,
                       at: {"idle", "send", "record", "fail", "settle"}]]
  BY DEF WithdrawalsTypeOK
<1>2. runs' = [runs EXCEPT ![w] = [runs[w] EXCEPT !.at = to]]
  BY DEF GoOn
<1>3. /\ runs'[w].at = to
      /\ runs'[w].req = runs[w].req
      /\ runs'[w].count = runs[w].count
  BY <1>1, <1>2
<1>4. \A v \in Runs \ {w} : runs'[v] = runs[v]
  BY <1>1, <1>2
<1>5. runs' \in [Runs -> [req: Requests \cup {NoRequest}, count: 0..MaxAttempts,
                        at: {"idle", "send", "record", "fail", "settle"}]]
  BY <1>1, <1>2
<1> QED
  BY <1>3, <1>4, <1>5

\* The steps that only move a run on, and may have counted a broadcast.
LEMMA MoveKeepsWInv ==
  ASSUME WInv, NEW w \in Runs,
         Send(w) \/ SendUnanswered(w) \/ SendFails(w) \/ MarkFails(w)
  PROVE  WInv'
<1> DEFINE r == runs[w].req
<1>1. /\ runs[w].at \in {"send", "record"}
      /\ UNCHANGED <<balance, debited, refunded, handler, row, attempts>>
  BY DEF Send, SendUnanswered, SendFails, MarkFails, Broadcast, GoOn, requestVars
<1>2. PICK to \in {"record", "fail"} : GoOn(w, to) /\ (to = "record" => r \in Admin)
  BY DEF Send, SendUnanswered, SendFails, MarkFails, Broadcast, Returned
<1>3. /\ runs'[w].at = to /\ runs'[w].req = r /\ runs'[w].count = runs[w].count
      /\ \A v \in Runs \ {w} : runs'[v] = runs[v]
      /\ runs' \in [Runs -> [req: Requests \cup {NoRequest}, count: 0..MaxAttempts,
                            at: {"idle", "send", "record", "fail", "settle"}]]
  BY <1>2, GoOnEffect DEF WInv
<1>4. /\ r \in Requests /\ row[r] = "PROCESSING" /\ r # NoRequest
      /\ \A v \in Runs : runs[v].req = r => v = w
      /\ runs[w].at = "send" => sent[r] < attempts[r]
      /\ r \notin Admin \cap refunded
  BY <1>1, RunFacts
<1>5. /\ sent' \in [Requests -> 0..MaxAttempts]
      /\ \A q \in Requests : /\ sent'[q] <= attempts[q]
                             /\ q # r => sent'[q] = sent[q]
                             /\ q \notin Admin => sent'[q] = sent[q]
  <2>1. CASE UNCHANGED sent
    BY <2>1 DEF WInv, WithdrawalsTypeOK, AttemptsLeft
  <2>2. CASE Broadcast(w)
    BY <2>2, <1>4, WithdrawalsOK DEF WInv, WithdrawalsTypeOK, AttemptsLeft, Broadcast, Returned
  <2>3. QED
    BY <2>1, <2>2 DEF Send, SendUnanswered, SendFails, MarkFails
<1>6. WithdrawalsTypeOK'
  BY <1>1, <1>3, <1>5 DEF WInv, WithdrawalsTypeOK
<1>7. HeldRows'
  BY <1>1, <1>3, <1>4 DEF WInv, HeldRows
<1>8. AttemptsLeft'
  BY <1>1, <1>3, <1>4, <1>5 DEF WInv, AttemptsLeft, HeldRows
<1>9. Handled' /\ FailedIsRefunded'
  BY <1>1 DEF WInv, Handled, FailedIsRefunded
<1>10. RefundsAreFinal'
  BY <1>1, <1>3, <1>4 DEF WInv, RefundsAreFinal
<1>11. (\A v \in Runs : runs[v].at = "record" => runs[v].req \in Admin)'
  BY <1>2, <1>3 DEF WInv
<1> QED
  BY <1>6, <1>7, <1>8, <1>9, <1>10, <1>11 DEF WInv

\* The end of a run: its row is left as it is, broadcast, or settled.
LEMMA EndKeepsWInv ==
  ASSUME WInv, NEW w \in Runs, End(w),
         NEW r \in Requests, r = runs[w].req, runs[w].at # "idle",
         NEW to \in {"PROCESSING", "PENDING", "BROADCAST", "FAILED"},
         row' = [row EXCEPT ![r] = to],
         to = "PENDING" => attempts[r] < MaxAttempts,
         to = "BROADCAST" => r \in Admin \ refunded,
         to = "FAILED" => r \in Admin \cap refunded,
         r \in Admin \cap refunded => to \in {"PROCESSING", "FAILED"},
         UNCHANGED <<requestVars, attempts, sent>>
  PROVE  WInv'
<1> USE DEF requestVars
<1>1. /\ runs'[w] = NoRun /\ runs' = [runs EXCEPT ![w] = NoRun]
      /\ \A v \in Runs \ {w} : runs'[v] = runs[v]
      /\ row'[r] = to
      /\ \A q \in Requests \ {r} : row'[q] = row[q]
  BY DEF End, WInv, WithdrawalsTypeOK
<1>2. NoRun.req = NoRequest /\ NoRun.at = "idle" /\ NoRun.count = 0
  BY DEF NoRun
<1>3. /\ row[r] = "PROCESSING" /\ \A v \in Runs : runs[v].req = r => v = w
  BY RunFacts
<1>4. WithdrawalsTypeOK'
  BY <1>1, WithdrawalsOK DEF WInv, WithdrawalsTypeOK, NoRun
<1>5. HeldRows'
  BY <1>1, <1>2, <1>3 DEF WInv, HeldRows, WithdrawalsTypeOK
<1>6. AttemptsLeft'
  BY <1>1, <1>2, <1>3 DEF WInv, AttemptsLeft, WithdrawalsTypeOK
<1>7. Handled'
  BY <1>1, <1>3 DEF WInv, Handled, Requests
<1>8. RefundsAreFinal'
  BY <1>1, <1>2, <1>3, WithdrawalsOK DEF WInv, RefundsAreFinal, Requests
<1>9. FailedIsRefunded'
  BY <1>1, <1>3, WithdrawalsOK DEF WInv, FailedIsRefunded, Requests
<1>10. (\A v \in Runs : runs[v].at = "record" => runs[v].req \in Admin)'
  BY <1>1, <1>2 DEF WInv
<1> QED
  BY <1>4, <1>5, <1>6, <1>7, <1>8, <1>9, <1>10 DEF WInv

\* The worker's last failure of an admin withdrawal: given back, then to be settled.
LEMMA RefundKeepsWInv ==
  ASSUME WInv, NEW w \in Runs, RefundFailed(w)
  PROVE  WInv'
<1> DEFINE r == runs[w].req
<1>1. /\ runs[w].at = "fail"
      /\ UNCHANGED <<row, attempts, sent>>
  BY DEF RefundFailed
<1>2. /\ r \in Requests /\ row[r] = "PROCESSING" /\ r # NoRequest
      /\ runs[w].count = attempts[r] /\ attempts[r] \in 0..MaxAttempts
      /\ \A v \in Runs : runs[v].req = r => v = w
      /\ r \notin Admin \cap refunded
  BY <1>1, RunFacts DEF WInv, WithdrawalsTypeOK
<1>3. MaxAttempts \in Nat \ {0}
  BY WithdrawalsOK
<1>4. CASE runs[w].count < MaxAttempts
  <2>1. GoOn(w, "settle") /\ UNCHANGED <<balance, debited, refunded, handler>>
    BY <1>2, <1>3, <1>4 DEF RefundFailed, requestVars
  <2>2. /\ runs'[w].at = "settle" /\ runs'[w].req = r /\ runs'[w].count = runs[w].count
        /\ \A v \in Runs \ {w} : runs'[v] = runs[v]
        /\ runs' \in [Runs -> [req: Requests \cup {NoRequest}, count: 0..MaxAttempts,
                              at: {"idle", "send", "record", "fail", "settle"}]]
    BY <2>1, GoOnEffect DEF WInv
  <2>3. WithdrawalsTypeOK'
    BY <1>1, <2>1, <2>2 DEF WInv, WithdrawalsTypeOK
  <2>4. HeldRows' /\ AttemptsLeft' /\ Handled'
    BY <1>1, <1>2, <2>1, <2>2 DEF WInv, HeldRows, AttemptsLeft, Handled
  <2>5. RefundsAreFinal'
    BY <1>1, <1>2, <1>3, <1>4, <2>1, <2>2 DEF WInv, RefundsAreFinal
  <2>6. FailedIsRefunded'
    BY <1>1, <2>1 DEF WInv, FailedIsRefunded
  <2>7. (\A v \in Runs : runs[v].at = "record" => runs[v].req \in Admin)'
    BY <2>2 DEF WInv
  <2>8. QED
    BY <2>3, <2>4, <2>5, <2>6, <2>7 DEF WInv
<1>5. CASE runs[w].count >= MaxAttempts /\ r \notin Admin
  <2>1. End(w) /\ UNCHANGED <<requestVars, row, attempts, sent>>
    BY <1>1, <1>2, <1>3, <1>5 DEF RefundFailed, Returned
  <2>2. row' = [row EXCEPT ![r] = "PROCESSING"]
    BY <1>1, <1>2 DEF WInv, WithdrawalsTypeOK
  <2>3. QED
    BY <1>1, <1>2, <1>5, <2>1, <2>2, EndKeepsWInv
<1>6. CASE runs[w].count >= MaxAttempts /\ r \in Admin
  <2>1. /\ GoOn(w, "settle") /\ attempts[r] = MaxAttempts
        /\ Credit(r) /\ UNCHANGED <<debited, handler>>
    BY <1>2, <1>3, <1>6 DEF RefundFailed, Returned, requestVars
  <2>2. /\ runs'[w].at = "settle" /\ runs'[w].req = r /\ runs'[w].count = runs[w].count
        /\ \A v \in Runs \ {w} : runs'[v] = runs[v]
        /\ runs' \in [Runs -> [req: Requests \cup {NoRequest}, count: 0..MaxAttempts,
                              at: {"idle", "send", "record", "fail", "settle"}]]
    BY <2>1, GoOnEffect DEF WInv
  <2>3. refunded' = refunded \cup {r} /\ balance' \in [Accounts -> Nat]
    BY <1>2, <2>1, WithdrawalsOK DEF WInv, WithdrawalsTypeOK, Credit
  <2>4. WithdrawalsTypeOK'
    BY <1>1, <1>2, <2>1, <2>2, <2>3 DEF WInv, WithdrawalsTypeOK
  <2>5. HeldRows' /\ AttemptsLeft' /\ Handled'
    BY <1>1, <1>2, <2>1, <2>2 DEF WInv, HeldRows, AttemptsLeft, Handled
  <2>6. RefundsAreFinal'
    BY <1>1, <1>2, <1>6, <2>1, <2>2, <2>3 DEF WInv, RefundsAreFinal
  <2>7. FailedIsRefunded'
    BY <1>1, <2>3 DEF WInv, FailedIsRefunded
  <2>8. (\A v \in Runs : runs[v].at = "record" => runs[v].req \in Admin)'
    BY <2>2 DEF WInv
  <2>9. QED
    BY <2>4, <2>5, <2>6, <2>7, <2>8 DEF WInv
<1> QED
  BY <1>2, <1>3, <1>4, <1>5, <1>6

LEMMA RunStepKeepsWInv ==
  ASSUME WInv, NEW w \in Runs, RunStep(w) \/ RunLost(w)
  PROVE  WInv'
<1> DEFINE r == runs[w].req
<1>1. CASE MarkBroadcast(w)
  <2>1. r \in Requests /\ r \in Admin \ refunded
    BY <1>1, RunFacts DEF WInv, MarkBroadcast
  <2>2. QED
    BY <1>1, <2>1, EndKeepsWInv DEF MarkBroadcast, SetRow
<1>2. CASE Settle(w)
  <2>1. /\ r \in Requests /\ runs[w].count = attempts[r] /\ attempts[r] \in Nat
        /\ MaxAttempts \in Nat
    BY <1>2, RunFacts, WithdrawalsOK DEF WInv, WithdrawalsTypeOK, Settle
  <2>2. CASE attempts[r] >= MaxAttempts
    <3>1. r \in Admin \cap refunded
      BY <1>2, <2>1, <2>2 DEF WInv, RefundsAreFinal, Settle
    <3>2. QED
      BY <1>2, <2>1, <2>2, <3>1, EndKeepsWInv DEF Settle, SetRow
  <2>3. CASE ~(attempts[r] >= MaxAttempts)
    <3>1. attempts[r] < MaxAttempts /\ r \notin Admin \cap refunded
      BY <2>1, <2>3 DEF WInv, RefundsAreFinal
    <3>2. QED
      BY <1>2, <2>1, <2>3, <3>1, EndKeepsWInv DEF Settle, SetRow
  <2>4. QED
    BY <2>2, <2>3
<1>3. CASE RunLost(w)
  <2>1. runs[w].at # "idle" /\ r \in Requests /\ row[r] = "PROCESSING"
    <3>1. runs[w].req # NoRequest \/ runs[w].at # "idle"
      BY <1>3, WithdrawalsOK DEF RunLost, Idle, NoRun, WInv, WithdrawalsTypeOK, AttemptsLeft
    <3>2. QED
      BY <3>1, RunFacts DEF WInv, HeldRows
  <2>2. row' = [row EXCEPT ![r] = "PROCESSING"]
    BY <1>3, <2>1 DEF RunLost, WInv, WithdrawalsTypeOK
  <2>3. QED
    BY <1>3, <2>1, <2>2, EndKeepsWInv DEF RunLost
<1> QED
  BY <1>1, <1>2, <1>3, MoveKeepsWInv, RefundKeepsWInv DEF RunStep

LEMMA NextKeepsWInv == WInv /\ [Next]_vars => WInv'
<1> SUFFICES ASSUME WInv, [Next]_vars PROVE WInv'
  OBVIOUS
<1>1. CASE Next
  BY <1>1, HandlerKeepsWInv, RequestKeepsWInv, ClaimKeepsWInv, RunStepKeepsWInv DEF Next
<1>2. CASE UNCHANGED vars
  BY <1>2 DEF vars, WInv, WithdrawalsTypeOK, HeldRows, AttemptsLeft, Handled, RefundsAreFinal,
              FailedIsRefunded
<1> QED
  BY <1>1, <1>2

THEOREM WInvHolds == Spec => []WInv
BY InitWInv, NextKeepsWInv, PTL DEF Spec

-----------------------------------------------------------------------------
(* Type correctness: balances stay natural, no row is attempted or sent     *)
(* more often than MaxAttempts.                                             *)
THEOREM WithdrawalsTypeCorrect == Spec => []WithdrawalsTypeOK
<1>1. WInv => WithdrawalsTypeOK
  BY DEF WInv
<1> QED
  BY <1>1, WInvHolds, PTL

(* An admin withdrawal that is FAILED has been given back.                  *)
THEOREM FailedRefunded == Spec => []FailedIsRefunded
<1>1. WInv => FailedIsRefunded
  BY DEF WInv
<1> QED
  BY <1>1, WInvHolds, PTL

(* A step that broadcasts finds the request debited and not given back.     *)
THEOREM NeverSentAfterRefund == Spec => NotSentAfterRefund
<1> DEFINE Step == \A r \in Requests : sent'[r] # sent[r] => r \notin refunded /\ r \in debited
<1>1. WInv /\ [Next]_vars => [Step]_vars
  <2> SUFFICES ASSUME WInv, Next, NEW r \in Requests, sent'[r] # sent[r]
               PROVE  r \notin refunded /\ r \in debited
    BY DEF vars
  <2>1. PICK w \in Runs : Broadcast(w)
    BY DEF Next, RunStep, Send, SendUnanswered, SendFails, MarkBroadcast, MarkFails,
           RefundFailed, Settle, RunLost, Claim, RequestAdminWithdrawal, AdminDebit,
           QueueWithdrawal, Reply, Refund, HandlerLost
  <2>2. r = runs[w].req
    BY <2>1 DEF Broadcast, WInv, WithdrawalsTypeOK
  <2>3. QED
    BY <2>1, <2>2, RunFacts DEF Broadcast, Returned, WInv, Handled
<1> QED
  BY <1>1, WInvHolds, PTL DEF Spec, NotSentAfterRefund

-----------------------------------------------------------------------------
(* The balances, with the books behind them                                 *)

\* What is out of balance acc.
Out(acc) == {r \in debited \ refunded : Account[r] = acc}

\* A request is taken from its balance once and given back once.
Books == /\ IsFiniteSet(debited)
         /\ refunded \subseteq debited
         /\ \A r \in Standalone : /\ handler[r] = "debit" => r \notin debited
                                  /\ handler[r] \in {"queue", "reply"} => r \notin refunded
         /\ \A r \in Admin : row[r] = "none" => r \notin debited
         /\ BalancesAddUp

LEMMA OutIsFinite ==
  ASSUME WInv, Books, NEW acc
  PROVE  IsFiniteSet(Out(acc)) /\ \A r \in Out(acc) : Amount[r] \in Int
<1>1. Out(acc) \subseteq debited /\ debited \subseteq Requests
  BY DEF Out, WInv, WithdrawalsTypeOK
<1> QED
  BY <1>1, FS_Subset, WithdrawalsOK DEF Books

LEMMA TotalIsInt == ASSUME WInv, Books, NEW acc PROVE Total(Out(acc)) \in Int
BY OutIsFinite, SumInt DEF Total

LEMMA DebitAddsUp ==
  ASSUME WInv, Books, NEW r \in Requests, r \notin debited, Debit(r), UNCHANGED refunded
  PROVE  /\ BalancesAddUp' /\ refunded' \subseteq debited' /\ IsFiniteSet(debited')
         /\ debited' = debited \cup {r}
<1>1. /\ balance' = [balance EXCEPT ![Account[r]] = @ - Amount[r]]
      /\ debited' = debited \cup {r} /\ refunded' = refunded
      /\ r \notin refunded
  BY DEF Debit, Books
<1>2. Account[r] \in Accounts /\ Amount[r] \in Int
  BY WithdrawalsOK
<1>3. ASSUME NEW acc \in Accounts PROVE balance'[acc] + Total(Out(acc)') = Funds[acc]
  <2>1. balance[acc] + Total(Out(acc)) = Funds[acc] /\ balance[acc] \in Int
    BY DEF Books, BalancesAddUp, Out, WInv, WithdrawalsTypeOK
  <2>2. CASE acc = Account[r]
    <3>1. Out(acc)' = Out(acc) \cup {r} /\ r \notin Out(acc)
      BY <1>1, <2>2 DEF Out
    <3>2. Total(Out(acc) \cup {r}) = Amount[r] + Total(Out(acc))
      BY <1>2, <3>1, OutIsFinite, SumWith DEF Total
    <3>3. balance'[acc] = balance[acc] - Amount[r]
      BY <1>1, <1>2, <2>2 DEF WInv, WithdrawalsTypeOK
    <3> QED
      BY <1>2, <2>1, <3>1, <3>2, <3>3, TotalIsInt
  <2>3. CASE acc # Account[r]
    <3>1. Out(acc)' = Out(acc)
      BY <1>1, <2>3 DEF Out
    <3>2. balance'[acc] = balance[acc]
      BY <1>1, <1>2, <2>3 DEF WInv, WithdrawalsTypeOK
    <3> QED
      BY <2>1, <3>1, <3>2
  <2> QED
    BY <2>2, <2>3
<1>4. BalancesAddUp'
  BY <1>3 DEF BalancesAddUp, Out, Total
<1>5. IsFiniteSet(debited') /\ refunded' \subseteq debited'
  BY <1>1, FS_AddElement DEF Books
<1> QED
  BY <1>1, <1>4, <1>5

LEMMA CreditAddsUp ==
  ASSUME WInv, Books, NEW r \in Requests, r \in debited \ refunded, Credit(r), UNCHANGED debited
  PROVE  /\ BalancesAddUp' /\ refunded' \subseteq debited' /\ IsFiniteSet(debited')
         /\ refunded' = refunded \cup {r}
<1>1. /\ balance' = [balance EXCEPT ![Account[r]] = @ + Amount[r]]
      /\ refunded' = refunded \cup {r} /\ debited' = debited
  BY DEF Credit
<1>2. Account[r] \in Accounts /\ Amount[r] \in Int
  BY WithdrawalsOK
<1>3. ASSUME NEW acc \in Accounts PROVE balance'[acc] + Total(Out(acc)') = Funds[acc]
  <2>1. balance[acc] + Total(Out(acc)) = Funds[acc] /\ balance[acc] \in Int
    BY DEF Books, BalancesAddUp, Out, WInv, WithdrawalsTypeOK
  <2>2. CASE acc = Account[r]
    <3>1. Out(acc)' = Out(acc) \ {r} /\ r \in Out(acc)
      BY <1>1, <2>2 DEF Out
    <3>2. Total(Out(acc)) = Amount[r] + Total(Out(acc) \ {r})
      BY <3>1, OutIsFinite, SumWithout DEF Total
    <3>3. IsFiniteSet(Out(acc) \ {r}) /\ \A q \in Out(acc) \ {r} : Amount[q] \in Int
      BY OutIsFinite, FS_RemoveElement
    <3>4. Total(Out(acc) \ {r}) \in Int
      BY <3>3, SumInt DEF Total
    <3>5. balance'[acc] = balance[acc] + Amount[r]
      BY <1>1, <1>2, <2>2 DEF WInv, WithdrawalsTypeOK
    <3> QED
      BY <1>2, <2>1, <3>1, <3>2, <3>4, <3>5
  <2>3. CASE acc # Account[r]
    <3>1. Out(acc)' = Out(acc)
      BY <1>1, <2>3 DEF Out
    <3>2. balance'[acc] = balance[acc]
      BY <1>1, <1>2, <2>3 DEF WInv, WithdrawalsTypeOK
    <3> QED
      BY <2>1, <3>1, <3>2
  <2> QED
    BY <2>2, <2>3
<1>4. BalancesAddUp'
  BY <1>3 DEF BalancesAddUp, Out, Total
<1> QED
  BY <1>1, <1>4 DEF Books

\* Steps that move no money.
LEMMA BooksStay ==
  ASSUME Books, UNCHANGED <<balance, debited, refunded>>,
         \A r \in Standalone : handler'[r] # handler[r] => handler'[r] # "debit" /\ handler[r] # "debit",
         \A r \in Standalone : handler'[r] # handler[r] => \/ handler'[r] = "done"
                                                           \/ handler[r] = "queue",
         \A r \in Admin : row'[r] = "none" => row[r] = "none"
  PROVE  Books'
BY DEF Books, BalancesAddUp, Total

LEMMA HandlerKeepsBooks ==
  ASSUME WInv, Books, NEW r \in Standalone,
         AdminDebit(r) \/ QueueWithdrawal(r) \/ Reply(r) \/ Refund(r) \/ HandlerLost(r)
  PROVE  Books'
<1>0. r \in Requests /\ r \notin Admin
  BY WithdrawalsOK DEF Requests
<1>1. CASE AdminDebit(r)
  <2>1. /\ Debit(r) /\ handler[r] = "debit" /\ UNCHANGED <<refunded, row>>
        /\ handler' = [handler EXCEPT ![r] = "queue"] /\ r \notin debited
    BY <1>1 DEF AdminDebit, HandlerTo, Books
  <2>2. /\ BalancesAddUp' /\ refunded' \subseteq debited' /\ IsFiniteSet(debited')
        /\ debited' = debited \cup {r}
    BY <1>0, <2>1, DebitAddsUp
  <2>3. handler'[r] = "queue" /\ \A q \in Standalone \ {r} : handler'[q] = handler[q]
    BY <2>1 DEF WInv, WithdrawalsTypeOK
  <2>4. r \notin refunded'
    BY <2>1 DEF Books
  <2> QED
    BY <1>0, <2>1, <2>2, <2>3, <2>4 DEF Books
<1>2. CASE Refund(r)
  <2>1. /\ Credit(r) /\ handler[r] \in {"queue", "reply"} /\ UNCHANGED <<debited, row>>
        /\ handler' = [handler EXCEPT ![r] = "done"]
        /\ r \in debited \ refunded
    BY <1>2 DEF Refund, HandlerTo, Books, WInv, Handled
  <2>2. /\ BalancesAddUp' /\ refunded' \subseteq debited' /\ IsFiniteSet(debited')
        /\ refunded' = refunded \cup {r}
    BY <1>0, <2>1, CreditAddsUp
  <2>3. handler'[r] = "done" /\ \A q \in Standalone \ {r} : handler'[q] = handler[q]
    BY <2>1 DEF WInv, WithdrawalsTypeOK
  <2> QED
    BY <1>0, <2>1, <2>2, <2>3 DEF Books
<1>3. CASE QueueWithdrawal(r) \/ Reply(r) \/ HandlerLost(r)
  <2>1. /\ UNCHANGED <<balance, debited, refunded>>
        /\ handler[r] \in {"queue", "reply"}
        /\ \/ handler' = [handler EXCEPT ![r] = "done"]
           \/ handler[r] = "queue" /\ handler' = [handler EXCEPT ![r] = "reply"]
        /\ row' = row \/ row' = [row EXCEPT ![r] = "PENDING"]
    BY <1>3 DEF QueueWithdrawal, Reply, HandlerLost, HandlerTo, SetRow
  <2>2. \A q \in Admin : row'[q] = row[q]
    BY <1>0, <2>1 DEF WInv, WithdrawalsTypeOK, Requests
  <2> QED
    BY <2>1, <2>2, BooksStay DEF WInv, WithdrawalsTypeOK
<1> QED
  BY <1>1, <1>2, <1>3

LEMMA RequestKeepsBooks ==
  ASSUME WInv, Books, NEW r \in Admin, RequestAdminWithdrawal(r)
  PROVE  Books'
<1>0. r \in Requests /\ r \notin Standalone
  BY WithdrawalsOK DEF Requests
<1>1. /\ Debit(r) /\ UNCHANGED <<refunded, handler>> /\ r \notin debited
      /\ row' = [row EXCEPT ![r] = "PENDING"]
  BY DEF RequestAdminWithdrawal, SetRow, Books
<1>2. /\ BalancesAddUp' /\ refunded' \subseteq debited' /\ IsFiniteSet(debited')
      /\ debited' = debited \cup {r}
  BY <1>0, <1>1, DebitAddsUp
<1>3. row'[r] = "PENDING" /\ \A q \in Admin \ {r} : row'[q] = row[q]
  BY <1>0, <1>1 DEF WInv, WithdrawalsTypeOK, Requests
<1> QED
  BY <1>0, <1>1, <1>2, <1>3 DEF Books

LEMMA ClaimKeepsBooks ==
  ASSUME WInv, Books, NEW w \in Runs, NEW r \in Requests, Claim(w, r)
  PROVE  Books'
<1>1. /\ row' = [row EXCEPT ![r] = "PROCESSING"]
      /\ UNCHANGED <<balance, debited, refunded, handler>>
  BY DEF Claim, SetRow, requestVars
<1>2. \A q \in Admin : row'[q] = "none" => row[q] = "none"
  BY <1>1 DEF WInv, WithdrawalsTypeOK, Requests
<1> QED
  BY <1>1, <1>2, BooksStay

LEMMA RunStepKeepsBooks ==
  ASSUME WInv, Books, NEW w \in Runs, RunStep(w) \/ RunLost(w)
  PROVE  Books'
<1> DEFINE r == runs[w].req
<1>1. CASE RefundFailed(w) /\ ~UNCHANGED requestVars
  <2>1. /\ Credit(r) /\ r \in Returned /\ r \notin refunded /\ runs[w].at = "fail"
        /\ UNCHANGED <<debited, handler, row>>
    BY <1>1 DEF RefundFailed
  <2>2. r \in Requests /\ r \in Admin /\ r \in debited
    BY <2>1, RunFacts DEF WInv, Handled, Returned, Requests
  <2>3. /\ BalancesAddUp' /\ refunded' \subseteq debited' /\ IsFiniteSet(debited')
        /\ refunded' = refunded \cup {r}
    BY <2>1, <2>2, CreditAddsUp
  <2>4. r \notin Standalone
    BY <2>2, WithdrawalsOK
  <2> QED
    BY <2>1, <2>3, <2>4 DEF Books
<1>2. CASE ~(RefundFailed(w) /\ ~UNCHANGED requestVars)
  <2>1. UNCHANGED requestVars
    BY <1>2 DEF RunStep, Send, SendUnanswered, SendFails, MarkBroadcast, MarkFails, Settle, RunLost
  <2>2. row' = row \/ \E to \in {"BROADCAST", "FAILED", "PENDING"} : row' = [row EXCEPT ![r] = to]
    BY DEF RunStep, Send, SendUnanswered, SendFails, MarkBroadcast, MarkFails, RefundFailed,
           Settle, RunLost, SetRow
  <2>3. \A q \in Admin : row'[q] = "none" => row[q] = "none"
    BY <2>2 DEF WInv, WithdrawalsTypeOK, Requests
  <2> QED
    BY <2>1, <2>3, BooksStay DEF requestVars
<1> QED
  BY <1>1, <1>2

LEMMA InitBooks == Init => Books
<1> SUFFICES ASSUME Init PROVE Books
  OBVIOUS
<1>1. debited = {} /\ refunded = {} /\ balance = Funds
  BY DEF Init
<1>2. BalancesAddUp
  <2>1. \A acc : {r \in debited \ refunded : Account[r] = acc} = {}
    BY <1>1
  <2>2. Total({}) = 0 /\ \A acc \in Accounts : Funds[acc] \in Nat
    BY SumEmpty, WithdrawalsOK DEF Total
  <2> QED
    BY <1>1, <2>1, <2>2 DEF BalancesAddUp
<1> QED
  BY <1>1, <1>2, FS_EmptySet DEF Books

LEMMA NextKeepsBooks == WInv /\ Books /\ [Next]_vars => Books'
<1> SUFFICES ASSUME WInv, Books, [Next]_vars PROVE Books'
  OBVIOUS
<1>1. CASE Next
  BY <1>1, HandlerKeepsBooks, RequestKeepsBooks, ClaimKeepsBooks, RunStepKeepsBooks DEF Next
<1>2. CASE UNCHANGED vars
  BY <1>2 DEF vars, Books, BalancesAddUp, Total
<1> QED
  BY <1>1, <1>2

(* Whatever fails or is retried, what is left of a balance and what is out  *)
(* of it add up to what was there: no request is taken or given back twice. *)
THEOREM BalancesAlwaysAddUp == Spec => []BalancesAddUp
<1>1. Books => BalancesAddUp
  BY DEF Books
<1>2. Spec => []Books
  BY InitBooks, NextKeepsBooks, WInvHolds, PTL DEF Spec
<1> QED
  BY <1>1, <1>2, PTL
=============================================================================
