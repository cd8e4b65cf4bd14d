------------------------------- MODULE Deposits -------------------------------
(***************************************************************************)
(* Deposits: NOWNodes' webhooks and the reconciliation worker, which scans *)
(* the history of the known addresses, both feed processDeposit.  Its      *)
(* statements commit one by one:                                           *)
(*                                                                         *)
(*   gate      skip an event that is processed                             *)
(*   record    upsert the event's row, unprocessed if it is new            *)
(*   find      confirmations >= 1, exchanger by address                    *)
(*   credit    recordDeposit, once per key (tx, asset, exchanger)          *)
(*   mark      the event is processed                                      *)
(*                                                                         *)
(* Any of them may fail, and the process may restart between two.  A row   *)
(* left unprocessed is not retried by itself; NOWNodes may deliver again,  *)
(* and a run of the worker takes one page of the history of every active   *)
(* address and looks at the payments whose tx is not the id of a processed *)
(* event.  recordDeposit is one step: LedgerTx shows that its key is used  *)
(* once.                                                                   *)
(***************************************************************************)
EXTENDS Addresses

CONSTANTS Payments,    \* the on-chain payments to deposit addresses
          Payee,       \* the exchanger who passes an address on for each payment
          PayAsset,
          Tx,          \* the transaction of each payment: it may pay several addresses
          HookId,      \* the id NOWNodes gives its event: its own, or the tx
          Scanned,     \* the assets of chains the worker can scan
          Handlers,    \* bound: webhook calls running at once
          Scanners,    \* bound: runs of the worker at once
          NoPayment

ASSUME DepositsOK ==
  /\ Payee \in [Payments -> Exchangers]
  /\ PayAsset \in [Payments -> Assets]
  /\ Tx \in [Payments -> STRING]
  /\ HookId \in [Payments -> STRING]
  /\ Scanned \subseteq Assets
  /\ Handlers \cap Scanners = {}
  /\ NoPayment \notin Payments

VARIABLES paidTo,     \* the address each payment went to, once it is on the chain
          crowded,    \* the addresses whose history is longer than a page of the worker
          events,     \* webhook_events: none, new or processed
          credits,    \* the DEPOSIT entries of the ledger
          calls,      \* the processDeposit call in each slot
          scans       \* the addresses and the payments each run has yet to go through

depVars == <<paidTo, crowded, events, credits, calls, scans>>
vars == <<addrVars, depVars>>

Providers == {"NOWNODES", "RECONCILIATION"}
EventIds == {Tx[p] : p \in Payments} \cup {HookId[p] : p \in Payments}
NoAddress == <<"none", NoIndex>>
Slots == Handlers \cup Scanners
NoScan == [todo |-> {}, rows |-> {}]
NoCall == [pay |-> NoPayment, event |-> <<"none", "none">>, at |-> "idle", conf |-> FALSE, exch |-> NoExchanger]
Idle(c) == calls[c] = NoCall

Init == /\ AddrInit
        /\ paidTo = [p \in Payments |-> NoAddress]
        /\ crowded = {}
        /\ events = [ev \in Providers \X EventIds |-> "none"]
        /\ credits = {}
        /\ calls = [c \in Slots |-> NoCall]
        /\ scans = [s \in Scanners |-> NoScan]

Paid(p) == paidTo[p] # NoAddress
Processed(ev) == events[ev] = "processed"
Call(p, ev, conf) == [pay |-> p, event |-> ev, at |-> "record", conf |-> conf, exch |-> NoExchanger]
Enter(c, call) == calls' = [calls EXCEPT ![c] = call]
Goto(c, at) == calls' = [calls EXCEPT ![c].at = at]
\* What is left to do needs the event only.
Conclude(c) == Enter(c, [calls[c] EXCEPT !.at = "mark", !.conf = FALSE, !.exch = NoExchanger])
Finish(c) == calls' = [calls EXCEPT ![c] = NoCall]

\* A depositor sends to the address of the payee's that was passed on.
Pay(p) == LET a == PayAsset[p]
          IN /\ ~Paid(p)
             /\ address[Payee[p]][a] # NoIndex
             /\ paidTo' = [paidTo EXCEPT ![p] = <<a, address[Payee[p]][a]>>]
             /\ UNCHANGED <<addrVars, crowded, events, credits, calls, scans>>

\* An address gets, or spends in, more transactions than a page of the worker holds.
Crowd(adr) == /\ crowded' = crowded \cup {adr}
              /\ UNCHANGED <<addrVars, paidTo, events, credits, calls, scans>>

\* NOWNodes delivers, late, more than once, before or after confirmation; a
\* payload that does not say how many confirmations counts as confirmed.
Deliver(h, p, conf) ==
  LET ev == <<"NOWNODES", HookId[p]>>
  IN /\ Idle(h)
     /\ Paid(p)
     /\ ~Processed(ev)
     /\ Enter(h, Call(p, ev, conf))
     /\ UNCHANGED <<addrVars, paidTo, crowded, events, credits, scans>>

-----------------------------------------------------------------------------
(* The reconciliation worker                                                *)

ActiveAddresses == {<<a, address[e][a]>> : e \in {d \in Exchangers : account[d] = "active"},
                                           a \in Scanned}
                     \ {<<a, NoIndex>> : a \in Scanned}

\* cron starts a run whether or not the last one has ended.
StartRun(s) ==
  /\ scans[s] = NoScan /\ Idle(s)
  /\ scans' = [scans EXCEPT ![s].todo = ActiveAddresses]
  /\ UNCHANGED <<addrVars, paidTo, crowded, events, credits, calls>>

\* One page of 20 transactions, the address's own spends among them; which
\* ones of a longer history is the provider's choice.
History(adr) == {p \in Payments : paidTo[p] = adr}
Pages(adr) == IF adr \in crowded THEN SUBSET History(adr) ELSE {History(adr)}

\* The next address, in no order, when the last one's page is through; an
\* error of the provider counts as an empty page.
FetchPage(s, adr, ok) ==
  /\ Idle(s) /\ scans[s].rows = {}
  /\ adr \in scans[s].todo
  /\ Works(ok)
  /\ \E page \in Pages(adr) :
       scans' = [scans EXCEPT ![s] = [todo |-> @.todo \ {adr}, rows |-> IF ok THEN page ELSE {}]]
  /\ UNCHANGED <<accountVars, paidTo, crowded, events, credits, calls>>

\* Mutant: an event that was recorded is taken for processed.
KnownIfRecorded(p) == \E pr \in Providers : events[<<pr, Tx[p]>>] # "none"

Known(p) == \E pr \in Providers : Processed(<<pr, Tx[p]>>)

\* A payment of the page is skipped if it is processed as an event of either provider,
\* or if its amount cannot be fetched.  (The other rows, in which the address gets
\* nothing, have no positive amount and are skipped always.)
Look(s, p, ok) ==
  /\ Idle(s)
  /\ p \in scans[s].rows
  /\ Works(ok)
  /\ scans' = [scans EXCEPT ![s].rows = @ \ {p}]
  /\ IF Known(p) \/ ~ok
       THEN UNCHANGED calls
       ELSE Enter(s, Call(p, <<"RECONCILIATION", Tx[p]>>, TRUE))
  /\ UNCHANGED <<accountVars, paidTo, crowded, events, credits>>

\* An error that is not caught ends the page, a restart the whole run.
Abandon(s) ==
  /\ scans[s] # NoScan \/ ~Idle(s)
  /\ Works(FALSE)
  /\ Finish(s)
  /\ \E left \in {{}, scans[s].todo} : scans' = [scans EXCEPT ![s] = [todo |-> left, rows |-> {}]]
  /\ UNCHANGED <<accountVars, paidTo, crowded, events, credits>>

-----------------------------------------------------------------------------
(* processDeposit                                                           *)

RecordEvent(h) ==
  LET ev == calls[h].event
  IN /\ calls[h].at = "record"
     /\ events' = [events EXCEPT ![ev] = IF @ = "none" THEN "new" ELSE @]
     /\ IF calls[h].conf THEN Goto(h, "find") ELSE Conclude(h)
     /\ UNCHANGED <<addrVars, paidTo, crowded, credits, scans>>

\* LIMIT 1 without an order: any holder; an address nobody holds is not ours.
FindExchanger(h, e) ==
  LET holders == Holders(paidTo[calls[h].pay])
  IN /\ calls[h].at = "find"
     /\ IF holders = {}
          THEN e = NoExchanger /\ Conclude(h)
          ELSE e \in holders /\ calls' = [calls EXCEPT ![h].at = "credit", ![h].exch = e]
     /\ UNCHANGED <<addrVars, paidTo, crowded, events, credits, scans>>

\* Mutant: the key of a deposit depends on how it was learnt.
KeyPerEvent(c) == <<Tx[c.pay], PayAsset[c.pay], c.exch, c.event>>

DepositKey(c) == <<Tx[c.pay], PayAsset[c.pay], c.exch>>

\* recordDeposit: no second entry for a key.
WithCredit(c) ==
  credits \cup {credit \in {[pay |-> c.pay, exch |-> c.exch, event |-> c.event]} :
                  \A old \in credits : DepositKey(old) # DepositKey(credit)}

\* Mutant: the event is marked before the ledger is credited.
CreditLater(h) ==
  \/ /\ calls[h].at = "credit"
     /\ events' = [events EXCEPT ![calls[h].event] = "processed"]
     /\ Goto(h, "later")
     /\ UNCHANGED <<addrVars, paidTo, crowded, credits, scans>>
  \/ /\ calls[h].at = "later"
     /\ credits' = WithCredit(calls[h])
     /\ Finish(h)
     /\ UNCHANGED <<addrVars, paidTo, crowded, events, scans>>

CreditDeposit(h) == /\ calls[h].at = "credit"
                    /\ credits' = WithCredit(calls[h])
                    /\ Conclude(h)
                    /\ UNCHANGED <<addrVars, paidTo, crowded, events, scans>>

MarkProcessed(h) == /\ calls[h].at = "mark"
                    /\ events' = [events EXCEPT ![calls[h].event] = "processed"]
                    /\ Finish(h)
                    /\ UNCHANGED <<addrVars, paidTo, crowded, credits, scans>>

\* markFailed writes down the error only; a restart does not even do that.
Fail(c) == /\ ~Idle(c)
           /\ Works(FALSE)
           /\ Finish(c)
           /\ UNCHANGED <<accountVars, paidTo, crowded, events, credits, scans>>

Step(h) == \/ RecordEvent(h)
           \/ \E e \in Exchangers \cup {NoExchanger} : FindExchanger(h, e)
           \/ CreditDeposit(h)
           \/ MarkProcessed(h)

RunStep(s) == \/ \E adr \in scans[s].todo : FetchPage(s, adr, TRUE)
              \/ \E p \in scans[s].rows : Look(s, p, TRUE)

Next == \/ AddrNext /\ UNCHANGED depVars
        \/ \E p \in Payments : Pay(p) \/ (Paid(p) /\ Crowd(paidTo[p]))
        \/ \E h \in Handlers, p \in Payments, conf \in BOOLEAN : Deliver(h, p, conf)
        \/ \E s \in Scanners, ok \in BOOLEAN :
              \/ \E adr \in scans[s].todo : FetchPage(s, adr, ok)
              \/ \E p \in scans[s].rows : Look(s, p, ok)
        \/ \E s \in Scanners : StartRun(s) \/ Abandon(s)
        \/ \E c \in Slots : Step(c) \/ Fail(c)

Spec == Init /\ [][Next]_vars

\* cron starts runs, and every await of a call or a run returns: both go on until they end.
FairSpec == /\ Spec
            /\ \A s \in Scanners : WF_vars(StartRun(s)) /\ WF_vars(RunStep(s))
            /\ \A c \in Slots : WF_vars(Step(c))

-----------------------------------------------------------------------------
Credited(p) == \E c \in credits : c.pay = p

(* Type correctness.                                                        *)
DepositsTypeOK ==
  /\ AddrTypeOK
  /\ paidTo \in [Payments -> (Assets \X IndexOrNone) \cup {NoAddress}]
  /\ events \in [Providers \X EventIds -> {"none", "new", "processed"}]
  /\ credits \subseteq [pay: Payments, exch: Exchangers, event: Providers \X EventIds]
  /\ \A c \in Slots :
        \/ Idle(c)
        \/ calls[c] \in [pay: Payments, event: Providers \X EventIds, conf: BOOLEAN,
                         at: {"record", "find", "credit", "mark"},
                         exch: Exchangers \cup {NoExchanger}]
  /\ scans \in [Scanners -> [todo: SUBSET (Assets \X Nat), rows: SUBSET Payments]]

(* A payment delivered by webhook, delivered again, and found by the worker *)
(* is credited once, but for one case: its address belongs to two accounts  *)
(* as well.  Unless provisionings raced, one of those is left over from a   *)
(* provisioning that was cut short.                                         *)
CreditedTwiceOnlyIfShared ==
  \A c, d \in credits :
     c # d /\ c.pay = d.pay
       => c.exch # d.exch /\ (raced \/ ~(Reserved(c.exch) /\ Reserved(d.exch)))

(* The worker crosses a payment off only once it is in the ledger, also     *)
(* when calls fail: unless its tx is shared with another payment, whose     *)
(* event crosses it off as well, or provisionings raced, which replaces     *)
(* addresses.                                                               *)
Alone(p) == \A q \in Payments : Tx[q] = Tx[p] => q = p
CrossedOff(p) == Processed(<<"RECONCILIATION", Tx[p]>>)
ReconciledIsCredited ==
  \A p \in Payments : Alone(p) /\ CrossedOff(p) => raced \/ Credited(p)

(* Errors, restarts and lost or unconfirmed webhooks do not lose a deposit  *)
(* to an active exchanger: the worker gets it credited, unless its tx also  *)
(* pays another address or is the id of a webhook event, another address    *)
(* took the place of the one it went to, or the history of that one is      *)
(* longer than a page.                                                      *)
Clean(p) == /\ Alone(p)
            /\ PayAsset[p] \in Scanned
            /\ \A q \in Payments : HookId[q] # Tx[p]
InSight(p) == /\ account[Payee[p]] = "active"
              /\ paidTo[p] = <<PayAsset[p], address[Payee[p]][PayAsset[p]]>>
              /\ paidTo[p] \notin crowded
CleanDepositsCredited ==
  \A p \in {q \in Payments : Clean(q)} : Paid(p) ~> Credited(p) \/ ~InSight(p)
=============================================================================
