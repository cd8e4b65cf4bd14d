# RapidEx in TLA+

RapidEx is a Discord escrow exchange: a user opens a trade, an exchanger takes it and has
crypto locked in the internal ledger, the user pays in fiat outside the system, and the
crypto is then released (sent on-chain by the bot, or by hand and confirmed by the buyer).
The program is one Node process over one PostgreSQL database; button and modal handlers,
slash commands, a web dashboard, a deposit webhook and cron workers all run in that
process, interleaved at every `await`, and meet in the database.

This directory holds TLA+ modules translated from the source, TLC configurations that
check them on small instances, and TLAPS proofs for every value of the constants. Paths
below are relative to the repository.

Run a check with `tlc -config TradeFlow.cfg MCTradeFlow.tla`, a proof with
`tlapm TradeDbProofs.tla`.

## 1. The system

| Part | Source | State it keeps | Operations | What makes it hard |
|---|---|---|---|---|
| Ledger | `src/ledger/ledgerService.ts`, `src/db/migrations/001_initial_schema.sql`, `src/db/client.ts` | `ledger_entries`: an append-only row per operation with the balance it leaves | `recordDeposit`, `lockEscrow`, `releaseEscrow`, `recordWithdrawal`, `recordFee`, `adminCredit`, `adminDebit` | READ COMMITTED transactions, advisory locks, `created_at` as order, retries |
| Trade tables | `src/engine/tradeService.ts`, the trade operations of `ledgerService.ts`, `src/security/idempotency.ts` | `trades.status`, `exchanger_id`, wallet, collateral; the escrow; `admin_profit_entries` | `transitionTrade`, `claimTradeWithEscrow`, `cancelTradeAndReleaseEscrow`, `lockCollateralForFiatTrade`, `releaseCollateralToExchanger`, `settleTradeProfit` | any order of callers |
| Trade handlers | `src/bot/handlers/tradeFlowHandler.ts`, `src/bot/commands/adminCommands.ts`, `src/dashboard/apiRouter.ts` | buttons left in channels, what a handler read before an `await` | claim, fiat sent, both releases, dispute, force-release and -cancel, close-ticket | stale reads, two transactions where one is meant, restarts |
| Expiry worker | `src/workers/expiryWorker.ts` | the rows its SELECT returned | expire unclaimed, cancel unpaid, escalate | acts on what it selected before |
| Payment engine | `src/engine/txEngine.ts`, `src/workers/withdrawalWorker.ts`, `src/withdrawal/withdrawalService.ts` | `withdrawals` queue, confirmation polls in memory | queue, claim a row, broadcast, record, confirm, retry | crash between broadcast and record |
| Exchanger withdrawals | `src/bot/commands/exchangerCommands.ts` | the same queue, a debit in the ledger | reserve, queue, refund | partial failure |
| Admin profit | `src/ledger/adminProfitService.ts`, `withdrawalWorker.ts` | `admin_profit_entries`, `admin_withdrawals` | credit, withdraw, pay out, refund | partial failure, retries |
| Deposits | `src/monitor/depositProcessor.ts`, `webhookServer.ts`, `src/monitor/reconciliationWorker.ts` | `webhook_events`, DEPOSIT rows | webhook, reconciliation, credit | duplicates, delay, errors between statements |
| Addresses | `src/wallet/*`, `src/admin/exchangerService.ts` | derivation index, an address per asset, active or banned accounts | verify, provision, ban, reactivate | a provisioning that is cut short or races |
| Settings, limits, roles | `src/admin/settingsService.ts`, `src/security/*` | a cache, fixed windows | load, set, consume | staleness, window edges |
| Panel, forms, tickets | `src/bot/handlers/buttonHandler.ts`, `modalHandler.ts`, `src/quote/quoteService.ts` | menus and offers in memory, quotes in the database, channels | choose, submit, confirm, open a ticket | double clicks, restarts, partial failure |
| Terms | `buttonHandler.ts`, `src/admin/exchangerService.ts` | terms of exchangers, acceptances of buyers | show, accept, decline, change | several awaits between look-up and claim |
| Quotes and fees | `src/quote/*`, `src/services/feeConfigService.ts` | rate cache | quote, fee | decimal arithmetic |
| Accounting | `src/workers/accountingWorker.ts` | none | sum the ledger, compare | its formula |
| Presentation | embeds, notifications, dashboards | none | | I/O |

How they interact. Handlers and workers share no memory but the database (and the
messages with buttons that stay in a channel). A handler reads a trade row without a lock,
checks it, and calls one or more transactions, each of which locks its rows; between two
of them anything may run. Every money movement is a ledger row under an idempotency key,
so a repeated call with the same key is harmless and a call under another key is not.

What must hold, part by part:

* Ledger: an operation is atomic and applied once per key; no balance is negative; what
  was read under the lock is still true when the row is inserted; nobody waits for ever.
* Trade tables: one exchanger takes a trade and keeps it; a trade ends once; money moves
  between available and escrow only; only the owner has funds locked for a trade.
* Handlers and worker: escrow is exactly what trades under way need; it is released once;
  cancelled trades get it back; a trade is paid one way; fees are of completed trades;
  trades nobody pays for end.
* Payments: a trade counts as paid only if a payment was broadcast and recorded, nothing is
  recorded that was not broadcast, a paid trade is not paid again.
* Withdrawals: what is taken from a balance is out or given back, once; what was given back
  is not sent; a withdrawal that is queued ends.
* Addresses: an exchanger's address is its own and stays.
* Deposits: a deposit is credited, and once; what is crossed off has been credited.
* Tickets and terms: an offer becomes one trade; a buyer has accepted an exchanger's terms
  before the exchanger gets the trade; a setting that was stored is in force in the end.
* Accounting: the sums of the worker are the balances.

## 2. Modules

```
LedgerOps ── Ledger                       one entry's arithmetic; the abstract ledger
    │   └── LedgerTx ── LedgerTxProofs    the database transactions, refining Ledger
    └── TradeDb                           all transactions on trades, refining Ledger and
           │  ├── TradeLifecycle          the abstract life of a trade
           │  └── Accounting ── TradeDbProofs    what the accounting worker sums up
           └── TradeFlow ── TradeFlowProofs      handlers and expiry worker, refining TradeDb
                  └── Payouts ── PayoutsProofs   with the payment queue and its worker
Withdrawals ── WithdrawalsProofs          withdrawals of exchangers and of the admin
Addresses                                 accounts and their deposit addresses
    └── Deposits ── DepositsProofs        webhooks, reconciliation, processDeposit
Settings                                  bot_settings behind its cache
    └── Tickets                           from the panel to a trade in a channel
           └── Consent ── ConsentProofs   the terms gate in front of a claim
FiniteSums                                lemmas on sums over finite sets, for the proofs
MCLedgerTx, MCTradeFlow, MCPayouts, MCWithdrawals, MCDeposits, MCConsent
                                          the instances TLC checks
```

TradeFlowProofs extends TradeDbProofs, and PayoutsProofs extends TradeFlowProofs, so that the
engine inherits what is proved of handlers and of transactions.

**LedgerOps** is the arithmetic of one row: which kinds add to or take from `available` and
`escrow`, and when a row is refused. The code computes on 18-digit fixed point with
`BigInt`; natural numbers of the smallest unit are the same thing.

**Ledger** is what callers rely on: `Apply(r)` is atomic, once per key, never below zero, from a balance
each pair starts with (`Opening`: none in LedgerTx, the first funds in TradeDb).

**LedgerTx** is how the code provides it. A session of the pool runs BEGIN (which fixes
`NOW()`, the row's `created_at`), the look-up of the key, `pg_advisory_xact_lock`, the
SELECT of the newest row, and INSERT with COMMIT; it may be refused or crash anywhere.
`pc`, `req`, `began`, `lock` and `snap` are the session; `entries` the table in commit order;
`clock` the database clock. The seven operations of `ledgerService.ts` differ in the kind
and the sign only, and a request carries its kind. INSERT and COMMIT are one step, because
an uncommitted row is invisible and a second INSERT of its key waits for the COMMIT.

**TradeDb** has one action per transaction on trades. Each action is guarded by what the
transaction checks under its row lock and does all its writes; LedgerTx is the
justification for taking it as one step, under the condition `InOrder` discussed below.
`keys` are the idempotency keys used up: a repeated key changes no balance. `CanRelease`,
`CanCancel`, `CanLockCollateral` and `CanFree` say when the transaction goes through, for
callers that must react to its error. `Claim` picks the claim by the trade's direction.
`DbNext` lets callers run these in any order, for the exchanger the trade has. `EntriesOf` lists the
entries a trade may make, each with the pair, kind and amount of its key; `ImplementsLedger` says that
all the transactions do to the balances is `Ledger` on these.

**TradeLifecycle** is the abstract promise: waiting, taken by one exchanger for good, ended
once. `Phase` in TradeDb maps the eleven statuses to it.

**TradeFlow** composes the callers. A handler that makes one transaction, whose checks under
the lock imply those of its earlier read, is one action. The others are calls in a slot:
the head reads the trade and remembers `exch` and `coll` (`Call`), and each further step is
one `await`. `Abandon` is an `await` that rejects, or a restart. `buttons` are the messages
with a button, which stay usable; `queue` is the row of the payment queue, of which only
the insertion is here; the rest is in Payouts. The expiry worker is a call as well: SELECT, then one
transaction on each row. Any trade may be overdue at any time, so time itself is left out.
`Ops` restricts an instance to some operations.

| In the model | In the code |
|---|---|
| `HandleClaim`, `BeginF2FClaim`, `ChooseCollateral`, `LockChosen`, `AwaitFiat` | `handleClaim`, `claimTrade`, `handleFiatToFiatClaim` |
| `HandleFiatSent`, `HandleDispute` | the handlers of these names |
| `HandleReleaseInternal`, `HandleWalletAddressSubmit`, `CheckPayment`, `QueueWithdrawal` | release by the bot, down to `queueWithdrawal` |
| `HandleReleaseExternal`, `PostExternalCheck`, `HandleExternalPayment(Not)Received` | release by hand |
| `HandleForceCancel`, `HandleForceRelease`, `HandleCloseTicket`, `DashboardForce` | admin actions |
| `ReturnFunds`, `EndTrade`, `Settle`, `ApproveRelease` | what these do, one step per transaction |
| `SelectExpired`, `ExpireOpen`, `SelectStale`, `CancelStale` | `expireOpenTrades`, `cancelStaleClaimed` |

**Payouts** composes TradeFlow with the payment of trades on-chain. A run of the withdrawal worker
(`jobs`) claims a PENDING row in a transaction, and then awaits: reading the trade, the
broadcast, the ledger entry, the transition to CRYPTO_SENT, the row's BROADCAST. Runs
overlap, because cron does not wait. `chain` is what has been broadcast and stays so;
`loops` are the runs of `waitForConfirmations`, which exist in memory only. With `Throws` any
`await` may reject, also after the provider has the transaction (`SendUnanswered`). `Restart`
forgets jobs, loops and handlers. `attempts` counts to `MaxAttempts` (8 in the code) and no
further, since the code only compares it. Backoff is left out: a PENDING row may be due.

| In the model | In the code |
|---|---|
| `ClaimRow`, `MarkBroadcast`, `FailJob` | `processNextWithdrawal` |
| `CheckTrade`, `Send`, `SendUnanswered`, `RecordPayment`, `MarkSent` | `sendTradePayment` with `processNow` |
| `Confirm`, `SettlePaid`, `MarkConfirmed`, `LoopThrows`, `GiveUp` | `waitForConfirmations` |
| `RetryRow` | `POST /withdrawals/:id/retry` |

**Accounting** has no state. It reads the ledger's entries out of `keys` (what a key says is
what its entry holds) and sums them as the two queries of `accountingWorker.ts` do, with
their own signs by type. The key of a released collateral does not name its asset, so the asset
is the trade's. That is right as long as no collateral is replaced by another, which the
handlers never do (a claim comes to `LockChosen` for a trade without one), though TradeDb alone
might. So `SumsExplained` is checked with the handlers and with the payments.

**Withdrawals** is the queue for what is not a trade: `handleWithdraw` (`AdminDebit`,
`QueueWithdrawal`, `Reply`, `Refund`) and `requestAdminWithdrawal`, and the runs of the worker
on `withdrawals` and on `admin_withdrawals`, which differ in the columns that RETURNING gives
back (`Returned`) and in the refund. `Claim` is one transaction; `Send`, `MarkBroadcast`,
`RefundFailed` and `Settle` are awaits; `SendUnanswered`, `SendFails`, `MarkFails` are the
errors; `RunLost` and `HandlerLost` a restart, or an error in the catch block, where the instance
allows for them (`Interrupted`). Payments of trades share the table and the first half of the code; they are in Payouts.

**Addresses** is `verifyExchanger` and `provisionAddresses`. An account index gives one
address per asset, so an address is an asset and an index; key derivation is left out.
`provisionAddresses` runs outside any transaction: a task takes the next index, upserts the
addresses one by one, then reserves the index, and may be cut short after each (`Interrupt`).
Several run at once (`Onboarders`): approvals come from Discord and from the dashboard. They race if
they are of one exchanger, or both between reading the index and reserving it; `raced` notes that,
for the properties, and no action reads it.

**Deposits** extends it with `processDeposit` called by webhooks (`Deliver`) and by
reconciliation, one step per statement: `RecordEvent`, `FindExchanger`,
`CreditDeposit`, `MarkProcessed`. `Fail` is an error or a restart before any of them. A run of the
reconciliation worker (`scans`) takes the addresses of active exchangers (`StartRun`), then for one
address after the other a page of its history (`FetchPage`), whose payments it looks at one by one
(`Look`), running `processDeposit` itself for those that are not processed. The provider returns 20
rows at most, the address's own spends among them on some chains; while an address is not `crowded`
its page has all payments to it, and from then on any part of them, for all runs to come. A page or an
amount that cannot be fetched counts as none, and the payment is skipped by this run
(`ok` = FALSE). A transaction may pay several addresses
(`Tx`), and NOWNodes may use an id of its own or the txid for its event (`HookId`).

**Settings** is one setting behind the cache of `settingsService.ts`: a load is a query and an
assignment, an update an upsert and a write in place, interleaved. **Tickets** are the menus of
the panel, the form with its gates, the offer (a quote in the database or an entry in memory),
and Confirm: `Consume`, `OpenTicketChannel`, `InsertTrade`, `LogTrade`, `PostTicketMessage`, with
`DeleteChannel` and `ClickFails` for the errors. **Consent** is Claim and Accept in the channel,
one step per query: `CheckTerms`, `LookUpAcceptance`, `ShowTerms`; `ReadAcceptedTerms`,
`RecordAcceptance`, `RemoveButtons`, `ClaimTrade`; terms change meanwhile (`SetExchangerTerms`).

## 3. What the runs check

| Run | Instance | Checked |
|---|---|---|
| `ledger_tx` | 2 connections, 2 pairs, 7 operations of all kinds, 4 transactions | `TypeOK`, `KeysUnique`, `SnapshotFresh`, `ImplementsLedgerInOrder`, `TransactionsEnd` |
| `trade_flow` | a crypto and a fiat-to-fiat trade of one exchanger, 2 handlers at once, all operations, interruptions | `FlowTypeOK`, `FeeOnlyIfCompleted`, `OneReleaseMethod`, `CancelReturnsEscrow`, `CancelReturnsCollateral`, `RunsTransactions`, `ImplementsLifecycle` |
| `trade_flow_serial` | two crypto trades and a fiat-to-fiat one, 2 exchangers, 2 assets, one handler at a time | `LockedByOwnerOnly`, `EscrowBacksTrades`, `ReleasedOnce`, `SumsExplained`, `UnpaidTradesEnd`, `ImplementsLifecycle` |
| `payouts` | two crypto trades of one exchanger, 2 worker runs, 3 transactions, errors, restarts, disputes, retries | `PayTypeOK`, `RowHeldOnce`, `PaidIsRecorded`, `RecordsAreSent`, `SumsExplained`, `NotRepaid`, `MoneyConserved` |
| `deposits` | 2 exchangers, one of whom may be banned, 2 provisionings at once, a payment, one webhook call and one worker run at a time, one error or restart | `DepositsTypeOK`, `SharedOnlyIfRaced`, `CreditedTwiceOnlyIfShared`, `ReconciledIsCredited`, `AddressesSettle`, `CleanDepositsCredited` |
| `withdrawals` | a /withdraw and 2 admin withdrawals that compete for the profit, 2 worker runs, 3 attempts | `WithdrawalsTypeOK`, `BalancesAddUp`, `FailedIsRefunded`, `NotSentAfterRefund`, `AdminWithdrawalsEnd` |
| `tickets` | one form, 2 coins, 2 methods, 2 Confirm clicks, 2 calls of Claim or Accept, an exchanger with 2 texts, one setting | `ConsentTypeOK`, `OneTradePerOffer`, `ConsentBeforeClaim`, `SettingsSettle` |
| `ledger_tx_serial` | 3 deposits of 2 connections | `SerialisesOperations` fails |
| `payouts_twice` | one trade, one worker run, an error | `PaidOnce` fails |
| `trade_flow_twice` | two crypto trades of one exchanger, 2 handlers at once | `ReleasedOnce` fails |
| `addresses_shared` | 2 exchangers, 2 provisionings at once | `ReservedKeepApart` fails |
| `withdrawals_unsent` | a /withdraw and an admin withdrawal, 2 worker runs, 3 attempts, no restart | `QueuedWithdrawalsEnd` fails |

Bounds. `MaxTx` = 4 transactions are enough for a deposit, two operations that compete for
it and a retry; the races of interest are between two connections. Two handlers at
once suffice for every interference of one handler with another, and every handler can
run any number of times one after the other, because a slot is reused. Two trades
are what it takes for one trade to take the escrow of another. Amounts are chosen so
that one exchanger can afford both trades and the other only one, and a fee of 3 makes
the halves unequal. In `payouts` three transaction ids allow a trade
to be paid twice beside the payment of the other, and 2 attempts a retry and a final
failure. Symmetry is used for slots, worker runs and transaction ids in `trade_flow` and
`payouts`, where no property names one and none is about liveness.

In `deposits` the webhook and the worker are the two calls that can meet over one payment,
and a call that failed leaves its row for the next run; `MaxFaults` = 1 bounds errors
and restarts, of provisionings, calls, fetches and runs together: one interruption leaves addresses without
an index, or an event without its credit, for the other actor and the next run to meet. With two
provisionings besides, more does not finish in minutes; the theorems are for any `MaxFaults` and any number of
provisionings. One asset is enough for a
provisioning that stops between the address and the index. `withdrawals` has
`MaxAttempts` = 3 instead of 8: a first, a middle and a last attempt, with two runs that may
hold different rows. In `tickets` two clicks and two calls are the pairs that race;
`MaxMessages` bounds how often terms are posted, and
`MaxUpdates` the updates of the setting: there is one, so that two updates which finish in the other
order are not reached; a load that overtakes an update, and an update whose answer is lost, are. Deadlock is not checked: transactions run out
(`MaxTx`), trades end, requests end.

Fairness. In LedgerTx the server answers every statement (`WF` on `Step`) and serves
waiters of an advisory lock in turn (`SF` on `AcquireLock`). Nothing is assumed of clients:
they need not begin, and may crash at any time, which rolls back and frees the locks. In TradeFlow
every `await` returns (`WF` on `Continue`), and cron runs the worker every minute whatever
else runs (`SF` on the two SELECTs, which need a free slot). In Deposits cron starts a run
every 10 minutes (`WF` on `StartRun`), and every `await` of a call or a run returns, so that both go on until they
end (`WF` on `Step` and `RunStep`). That a run comes to a payment is no assumption: it follows from
finitely many addresses and rows on its pages, and does not hold of a crowded address, which is why
`CleanDepositsCredited` excepts it. In Withdrawals a run goes on
unless it is lost, and rows are claimed in the order of `created_at`, so each gets its turn (`SF` on
`Claim`). In Consent the cache expires with time, the expiry worker reads settings every
minute (`WF` on the load), and a load does not fail every time (`SF` on `FinishLoad`). No user
or admin ever has to act, and no webhook has to arrive.

`EscrowBacksTrades` and `ReleasedOnce` are checked with one handler at a time, and without
close-ticket and the dashboard's force actions: they are false otherwise (section 5). There the
fiat-to-fiat trade does not time out (`Overdue`), because its timeout keeps the collateral (6 below).
`CancelReturnsEscrow` speaks of force-cancel and the timeout of crypto trades, `CancelReturnsCollateral` of the
force-cancel of fiat-to-fiat trades, both in the presence of all the rest. The other ways to cancel a
fiat-to-fiat trade do not return its collateral: the timeout (6), close-ticket of a trade it cannot cancel
(7) and the dashboard (9).
`PaidIsRecorded` and `NotRepaid` are checked for the operations of the run `payouts`; the
dashboard's force actions, which look at nothing, are not among them. Provisionings that race do share
addresses (`addresses_shared`, 13 below); `SharedOnlyIfRaced`, and the exceptions in the properties of deposits,
say that nothing else does.

## 4. What is proved

TLAPS proves the following for any sets of sessions, keys, trades, exchangers, assets,
handlers, worker runs, payments and requests, and any amounts. The assumptions are those on the
constants of each module (`ConstantsOK`, `TradesOK`, `FlowOK`, `PayoutsOK`, `AddressesOK`,
`DepositsOK`, `WithdrawalsOK`, `ConsentOK` and what it extends): amounts are positive naturals,
fees and initial funds naturals, and the values for "none" are no members of the sets. TLC evaluates
them in the runs. Some theorems have a hypothesis beside them, without which the code does not do
what they say:

| Hypothesis | Theorems | Why |
|---|---|---|
| `Serial`: no close-ticket, no dashboard actions, only crypto trades time out, one handler at a time, none of which fails half-way | `EscrowReleasedOnce`, `EscrowAlwaysBacks` | these keep or return the wrong funds (6, 7, 9), two release twice (2), a half-done handler leaves funds (10) |
| no dashboard actions | `CountedIsRecorded`, `NeverRepaid` | its bare transition completes a trade whose payment is still queued (9) |
| `FailsEarly`: a run that fails once its trade is paid fails after that trade has left RELEASE_PENDING | `PaidTwiceOnlyByLateFailure` | an error between the broadcast and CRYPTO_SENT puts the row back, and it is paid again (4) |
| finitely many trades or exchangers | `EscrowAlwaysBacks`, `SumsAreExplained`, `HandlersSumsExplained`, `PaymentsSumsExplained` | so that there is a sum |

*FiniteSums.* What `SumFunctionOnSet` of the community modules gives for the empty set, with an
element more or less, with one summand changed, and for summands that agree. Induction over finite sets
takes an operator as parameter, which the provers cannot instantiate; instead each lemma takes
a smallest set for which it fails (`SmallestMember`, from the well-foundedness of strict
inclusion among finite sets) and shows that there is none.

*LedgerTxProofs.* The inductive invariant `Inv` adds to the checked invariants `Busy` (a
session under way has a request), `HoldsLock` (past the lock statement a session holds
the lock of its pair) and `HasNewest` (rows of a pair have a newest one). `SnapshotFresh`
is not inductive without `HoldsLock`, which excludes a second writer, and `TypeOK` not
without `HasNewest`, without which the balance read need not be a natural number. From it:
`TypeCorrect`, `OneEntryPerKey`, `FreshUnderLock`, and `ImplementsInOrder`: a step that
leaves the rows in `created_at` order is a step of Ledger or a stutter. The heart is that in
order, the row inserted last is the newest, so the balance it leaves is what the next reads.

*TradeDbProofs.* `DbInv` adds `OwnerByStatus`: an OPEN trade has no exchanger, and one that
left OPEN other than by ending has one. Without it a claim of a trade could overwrite an owner whose
lock key is used, and `LockedByOwnerOnly` would not be inductive. From it: `DbTypeCorrect`
(no order of transactions takes a balance below zero), `ExclusiveClaims`,
`MoneyIsConserved` (the total of a pair changes only by a withdrawal under a new key or one
fee share), `LifecycleImplemented` (TradeDb implements TradeLifecycle) and `LedgerImplemented` (what TradeDb
does to balances and keys implements Ledger: each transaction makes one of the entries of its trade under a new
key, `EnterApplies`, or none). So the two levels meet: LedgerTx implements the Ledger that the transactions on trades
need, in commit order, and they ask nothing else of it. The entries of the
accounting are an argument of their own: `BooksInv` says that each key used up is of a
known form, for a trade with an exchanger, that finitely many are used up, and that the sums are as
`SumsExplained` has them. A transaction makes one entry at most, under a new key, which adds to one
pair's sums what `After` adds to its balance (`BooksEnter`), and the rows of the keys before do not change
(`RowsStay`): owners stay by `DbInv`, collateral by the hypothesis `KeepsCollateral` of
`SumsAreExplained`.

*TradeFlowProofs.* `FlowInv` says what a handler still knows of its trade at each `await`
(`CallOK`): its exchanger is the owner, the collateral it read is the one locked, a trade to settle
is COMPLETED, a trade under force-cancel whose escrow was returned has the key to show for it.
These facts are stable because a transaction of TradeDb never goes back
(`Evolves`: OPEN is never entered, COMPLETED never left, what is past FIAT_SENT stays past it,
what is disputed is not released the ordinary way, owners and keys stay), whoever runs it. `Apart` adds
that one handler claims a trade and one releases it, and `ReleaseOK` that neither way of release
has ended before the trade left FIAT_SENT; without the two, a trade could be paid both ways.
One lemma per handler shows that it keeps `FlowInv` and is a transaction of TradeDb. From it:
`FlowTypeCorrect`, `FeesOfCompletedTrades`, `PaidOneWay`, `CancellingReturnsEscrow`, and
`HandlersRunTransactions` (TradeFlow implements TradeDb), through which the theorems of
TradeDbProofs hold of handlers and worker. That `CallOK` knows a trade at `LockChosen` to be without
collateral discharges `KeepsCollateral`, and gives `HandlersSumsExplained` without it.

`CollateralInv` adds what a force-cancel knows between its two transactions: the trade is still
disputed or has ended, its collateral is the one that was read, and at `end` the key of its return is used up
(`CancelCall`); and that crypto trades have no collateral. From it: `CollateralReturned`, which needs no hypothesis:
whatever else ends the trade meanwhile, the call that cancels it has come past the return (`CancelledFree`).
With one handler at a time, `OnceInv` adds the status of the trade of a handler that returns funds
(nothing moves under it: `SerialCall`), and `KeysFresh`: the keys under which a trade
under way may release its escrow or collateral are unused until a handler that is about to end it has
returned the funds. Without it a release could be swallowed as a repetition, and `ReleasedOnce` is
not inductive. From it: `EscrowReleasedOnce`. `Backed` then says at every moment, and not only between
handlers, that the escrow of a pair is the sum of the stakes of the trades under way, without those
of a trade whose funds the running handler has returned and which it has not ended yet.
Each transaction changes one summand by what it moves (`StakeLocked`, `StakeReturned`), or none.
From it: `EscrowAlwaysBacks`.

*PayoutsProofs.* `PayInv` adds to `RowHeldOnce` that a row some run works on is PROCESSING (or
CONFIRMED, by its confirmation loop) and that no two runs are at one trade, and to
`RecordsAreSent` that a run that still has to record a transaction has it on the chain. The handlers of
a trade touch neither (`Harmless`). From it: `RowsHeldOnce`, `RecordedWasSent`. `EngineInv` joins it
with `FlowInv`, which the worker's steps have to keep as well, and with `ChainInv`: a run about to send has
a trade with an exchanger, one past the record has its key on the ledger, a confirmation loop waits for a
transaction that was recorded, for a trade that is CRYPTO_SENT or later, and settles one that is COMPLETED. Without
that a fee might be shared by a trade that is not, and `settleTradeProfit` would not notice. From it:
`PayTypeCorrect`, `EngineKeepsTrades`, `PaymentsRunTransactions` (Payouts implements TradeDb), and through this
`EngineFollowsLifecycle` (exclusive claims, conservation of money, TradeLifecycle and Ledger) and
`PaymentsSumsExplained`. What the engine does beside the handlers cancels no trade, changes no collateral and
leaves calls alone or forgets them all (`EngineCancelsNothing`, `EngineCollateral`, `EngineCalls`), so that
`CollateralInv` survives it. From it: `PayingReturnsEscrow`, `PayingReturnsCollateral`. `PaidInv` adds the ways in which a trade comes to be paid: a
crypto trade is completed by hand only after its buyer was asked, and is then never queued; a
fiat-to-fiat trade is never queued at all (`Ways`); so a trade that counts as paid by the bot got there
through `MarkSent`, behind the record, and a run that is about to send has a trade that is not paid. From it:
`CountedIsRecorded`, `NeverRepaid`. `SentInv` is about what `payouts_twice` refutes: while a paid trade
still waits in RELEASE_PENDING, its row is PROCESSING or CONFIRMED, where nothing claims it and no retry
by hand takes it up, and only a run between its broadcast and CRYPTO_SENT is at it. A trade enters
RELEASE_PENDING from FIAT_SENT alone (`StillPending`), so a restart leaves such a trade unfinished and
a dispute ends the wait, and only a failure of that run makes the row claimable. From it:
`PaidTwiceOnlyByLateFailure`: that failure is the one cause of finding 4.

*WithdrawalsProofs.* `WInv` relates row, attempts and the runs: a held row is PROCESSING and held
once, a run's count is the row's, and a refund by the worker happens only from the last attempt on,
so that a row that was refunded is never claimed again. From it: `WithdrawalsTypeCorrect`, `FailedRefunded`,
`NeverSentAfterRefund`, and, with the lemmas of FiniteSums, `BalancesAlwaysAddUp`: every
step moves one request into the sum of what is out of a balance or out of it, together with its amount, or
moves nothing.

*DepositsProofs.* `AddrInv`, of Addresses, adds what a task knows while none has raced another: the index it works
with is reserved by nobody, its exchanger has exactly the addresses it has inserted, and whoever has reserved an
index has all the addresses of it and has it alone. That the next index is free needs the greatest element of a
finite set (`MaxOfFinite`). Tasks may overlap as long as they do not race, and one that races sets `raced` for good, so
the invariant is `raced \/ AddrApart`. From it: `SharedByRaceOnly`. `SettledAddressesStay` needs types
only: an insert belongs to a task of its exchanger, and a task begins for one without addresses. The
invariant of Deposits rests on `AddrApart`: a call past
`find` has an exchanger whose address was paid, an entry belongs to a holder of the address, a run looks at
payments that were made, and a call that is about to mark has credited. From it: `ReconciledDeposits`, `CreditedTwice`.
The second also rests on `KeysOnce`, which holds whatever raced: one entry per key, so that two entries for a payment have
different exchangers. `DepTyped`, which asks nothing of provisionings, gives `DepositsTypeCorrect`.

*ConsentProofs.* `TicketInv` says that a click under way has used its offer and is the only one of it,
how many channels and trades it has made by then (`ClickProgress`), and that an offer still there has made
none (`Untouched`). `ConsentInv` says that a call about to claim a gated trade, or to remove its buttons, has
an acceptance of the exchanger's on record; a trade whose exchanger had no terms when it was looked at is not
gated. From it: `OneTrade`, `ConsentFirst`. `RestOK` adds that the choices made so far are answers to the menus of
their direction in turn (`Path`), without a method or coin chosen twice; a complete path is then one that the
modal accepts, which is what `ConsentTypeCorrect` says beside the types.

What the proofs changed in the model. The stake of a trade was a CASE whose guards overlapped for a
fiat-to-fiat trade of the escrowed asset, which TLC resolves by order and the logic does not; it is now a
pair and a size. A form was shown when no option was left, which is not the code's condition: it is shown after
the last menu of the direction. The accounting read the collateral's asset from an instance with one asset;
it now reads it from the trade. Ledger takes
what a pair starts with as a constant, so that TradeDb, whose exchangers start with funds, can be mapped to it.

Only model-checked: liveness (`TransactionsEnd`, `UnpaidTradesEnd`, `CleanDepositsCredited`,
`AdminWithdrawalsEnd`, `SettingsSettle`), which is outside the prover's reach. Every invariant and
action property of the passing runs is stated by a theorem. `ReleasedOnce` and `EscrowBacksTrades` are proved of
TradeFlow only: a restart, which Payouts has, like a failure half-way, may leave
a trade going on whose funds were returned. `ImplementsLedger` and `DbTypeOK` are proved and not properties of a run: the
runs check what they are made of (`FlowTypeOK`, `MoneyConserved`, `SumsExplained`).

## 5. Where code and comments disagree

Findings 1, 2, 4, 13 and the second half of 16 have a run in which TLC violates what the code or its
reply promises; the others were met while modelling, and no run is spent on them.

1. *A lost update in the ledger* (`ledger_tx_serial`). `readBalanceLocked` takes the row with
   the newest `created_at`, which is the start of the transaction, not the order of the
   lock. A transaction that begins first and locks second inserts a row with the right
   balance and an older time; the next operation reads the other row.
2. *Escrow released twice* (`trade_flow_twice`). Completion and cancellation have different
   release keys, and both release before they check the transition. A buyer's "yes" that
   was read before a dispute, and a force-cancel of that dispute, both release; the second
   takes the escrow of another trade.
3. *A claimed trade expires* (`expiryWorker.ts:66`). The worker transitions what its SELECT found
   OPEN, and FIAT_PENDING to EXPIRED is an allowed transition. With a claim in between, the escrow
   stays locked (`SelectExpired`, `HandleClaim`, `ExpireOpen`).
4. *A payment is sent twice* (`payouts_twice`). Any error of `sendTradePayment` puts the row back
   in the queue, also one after the broadcast, and the key of the ledger entry contains the
   transaction id, which a second broadcast does not share. A restart does not do this: it
   leaves the row in PROCESSING, where nothing picks it up again.
5. `cancelStaleClaimed` likewise cancels a trade that was paid and disputed meanwhile
   (`expiryWorker.ts:105`).
6. For a fiat-to-fiat trade the timeout releases the trade's asset and amount instead of
   the collateral (`expiryWorker.ts:105`), or fails for ever when there is no such escrow. "The collateral
   is held until the trade completes or is cancelled" (`ledgerService.ts:827`) is therefore checked and proved of
   force-cancel only.
7. Close-ticket of a trade in FIAT_SENT or RELEASE_PENDING releases its escrow, cannot
   cancel it, logs that, and reports it cancelled (`tradeFlowHandler.ts:518`, `:553`).
8. Force-release of a disputed crypto trade needs the transition DISPUTED to
   RELEASE_PENDING, which does not exist, so it always throws (`tradeFlowHandler.ts:640`).
   Hence the first branch of `ApproveRelease` is never taken.
9. The dashboard's force-cancel cancels without returning escrow (`tradeService.ts:253`).
10. A fiat-to-fiat claim that fails after its first transaction leaves the trade CLAIMED, a
    status no timeout looks at.
11. A dispute that is raised while the payment is on its way makes the transition to CRYPTO_SENT
    fail; the trade has been paid, and its force-cancel then tries to return an escrow that is
    gone, out of another trade's (`txEngine.ts:127`).
12. When `settleTradeProfit` fails after COMPLETED was committed, the next poll throws at the
    transition, so the fee is never shared (`txEngine.ts:355`).
13. *Shared addresses* (`addresses_shared`). "Two concurrent verifications cannot race"
    (`addressService.ts:21`; migration 012 promises an
    atomic, unique counter): `nextAccountIndex` is a plain SELECT of the maximum, and
    the row is written after all the inserts, so two provisionings at once read the same index and
    give two exchangers the same addresses. Two provisionings of one exchanger replace each other's
    addresses (`:64`) until the last is over, and a depositor may have been given one of those.
14. `reserveAccountIndex` does not run in a transaction with the addresses (`addressService.ts:33`).
    A provisioning that is cut short leaves addresses of an index that is handed out again, and one address
    is enough for the exchanger to count as provisioned, so it is never completed.
15. A payment that arrives unconfirmed is marked processed (`depositProcessor.ts:134`); if the
    event's id is the transaction's, reconciliation skips it (`reconciliationWorker.ts:94`). For the same
    reason one transaction that pays two addresses is processed once. Reconciliation takes
    whatever the history lists as confirmed (`:111`), which may be unconfirmed, and a
    webhook without a count is taken as confirmed once (`depositProcessor.ts:124`). It reads 20 rows
    per address and asset (`:125`, `:145`, `:161`), on Bitcoin, Litecoin and Solana with the address's own spends among
    them, and does not turn the page: what is older is never looked at. A row whose amount is missing is skipped (`:101`).
16. /withdraw: both keys contain the time (`exchangerCommands.ts:121`, `:147`), so they
    deduplicate nothing; an error of the reply refunds a withdrawal that is in the queue. The worker does
    not send it only because of the next. *A queued withdrawal is never sent* (`withdrawals_unsent`): RETURNING leaves
    out asset, amount and destination (`withdrawalWorker.ts:100`), so every attempt fails, and after the
    eighth so does the refund; the row stays PROCESSING and the money out of the balance. Adding
    the columns alone would send the refunded ones too. A row in PROCESSING at a restart stays there as well.
17. "Immediately consistent" (`settingsService.ts:91`): a load that began before the update
    overwrites the cache with the old value, until it expires. The limits on the settings page are not
    read (`rateLimiter.ts:54`, `:65` use the environment), and the "sliding window" (`rateLimiter.ts:2`)
    is a fixed one, so twice the limit passes at its edge. Maintenance is looked at when the
    form is submitted (`modalHandler.ts:170`) and not at Confirm.
18. What is accepted is the text in force at the click, which may not be the text shown
    (`exchangerService.ts:288`). Accept does not check again that the exchanger is active, and
    the claim after it opens the channel to who pressed the button, the buyer
    (`tradeFlowHandler.ts:147`).
19. When the second INSERT of the ticket fails, its channel is deleted and the trade stays OPEN
    (`modalHandler.ts:450`); when the channel cannot be created, the offer is used up.
20. The comment of `tradeFlowHandler.ts:200` lists USDT and SOL among the collateral assets; `priorityAssets`
    (`:203`) has neither USDT_BEP20 nor SOL, but USDT_ERC20 and USDC_ERC20, which are no assets any more.
    An exchanger with nothing but these two cannot take a fiat-to-fiat trade.
21. The accounting worker takes WITHDRAWAL from both sums and FEE from available, where the ledger
    takes a withdrawal and a fee from escrow only (`accountingWorker.ts:182`,
    `:187`): its total is too low by what was withdrawn. `SumsExplained` states the difference.

## 6. Not modelled, and what is left

Not modelled: Discord embeds, notifications and forum threads, closing and archiving of channels,
the HTML of the dashboards and their queries, chain clients, explorers' formats, key derivation and
signing (I/O and cryptography); the escalation jobs, which set a flag and notify; log rows;
permission checks (who may press a button), which every action takes as passed. Rates, their cache and
decimal arithmetic are left out: amounts are naturals of the smallest unit, and a quote is the amount
the trade carries. Of the rate limiter, Tickets has the count of submissions and the end of a window, at
any moment; the limiters of commands and of webhooks are the same code.

Narrower than the code on purpose: several assets in `trade_flow` and `payouts`; time, for which anything overdue
may happen at any moment.

What is left to do: the fee tiers and the decimal strings as functions against a reference
definition over bounded inputs; the hazards of PROJECT.json that no property covers, as the statements of
what the code guarantees around them.
