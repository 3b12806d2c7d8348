# TLA+ models of the bidmart wallet service

The wallet service keeps two balances per user and role, *active* (spendable) and
*held* (set aside), and moves money between them for an auction house: top-ups through
Midtrans, withdrawals, holds for bids, sale proceeds for sellers. This directory holds
TLA+ models of its handlers, TLC configurations that check them on small instances, and
TLAPS proofs about them for instances of every size.

Paths are relative to the repository's root; `repositories.rs` is
`src/persistence/repositories.rs` and `wallet_service.rs` is
`src/service/wallet_service.rs`.

## The system

| Part | State it keeps | Operations | What makes it correct |
|---|---|---|---|
| Wallet entity (`src/wallet.rs`) | `active`, `held`, `version` of a row | top_up, withdraw, hold, release, convert, payout, bid, credit/settle seller escrow | no operation takes more than a balance has, or lets an amount outgrow its width |
| Holds (`repositories.rs` 236-497) | table `holds` | `hold_funds`, `release_funds`, `convert_funds` | a hold settles once; one hold per bid; one ACTIVE hold per wallet and auction; held money covers the holds |
| gRPC service, hold routes (`grpc/mod.rs`, `http/router.rs`) | none | reply to the three hold operations | what a reply says stays true |
| Reconciliation worker (`service/reconciliation.rs`) | the list of expired ids it is walking | release every expired hold | expired holds are settled in the end |
| Balance mutations (`wallet_service.rs` 194-248, 565-676, 937) | `wallets`, `wallet_transactions` | top_up, withdraw, hold, release, convert, bid by amount, cancel_bid | no lost update; a balance changes by the amount asked for; held covers the bids |
| Payment intents (`wallet_service.rs` 250-410, `repositories.rs` 499-692) | `wallet_payment_intents` | create, callback, return, sync, expiry on reading, wallet page | credited once; a settled payment stays settled; one intent per idempotency key |
| Withdrawals (`wallet_service.rs` 413-560) | `wallet_withdrawals` | create (account check, payout, debit, insert), report a status | a payout per stored withdrawal and no more; money comes back once |
| Midtrans adapter (`payment/mod.rs`) | none | charge, fetch a status, check an account, pay out | nothing is stored that Midtrans did not say |
| Seller escrow (`wallet_service.rs` 736-860, `repositories.rs` 151-235) | SELLER wallets, rows of `wallet_transactions` unique per sale and order | credit, payout, settle | a sale is credited once, an order settled once |
| Provisioning (`messaging/provisioning_consumer.rs`, `wallet_service.rs` 165-192, 858-935) | `wallet_provisioning_events` | consume an auth event, create a wallet, reconcile | every event gets its wallet, a repeated one changes nothing |
| Metrics (`http/metrics.rs`, `http/metrics_auth.rs`) | atomic counters | record a request or an operation, scrape | the counters agree with each other |
| Validation, DTOs, command handlers | none | translate calls | (adapters) |
| Midtrans, RabbitMQ, PostgreSQL | external | charges, payouts, statuses; deliveries; transactions | (assumed, see below) |

All handlers share the tables of one PostgreSQL database (or SQLite, in memory, with one
connection) through an `sqlx` pool; the metrics are all that is shared in memory. A wallet row
carries a `version` that most writes check and increment: `UPDATE ... WHERE id = .. AND
version = ..`; a handler that finds another version answers with a conflict and its client has
to retry. What is hard in this code comes from the statements in between: a status read by one
statement and relied on after another, two writes of one operation in two transactions, a
call to Midtrans between them, and repeated or reordered messages from outside. The list of
hazards in `PROJECT.json` gives each with its line.

## The modules

```
WalletDomain                 balances and version; what an operation checks and moves
 ├─ WalletHolds              holds, worker, mutate_wallet    ── implements ──> HoldContract
 │    ├─ MCWalletHolds          instances for TLC
 │    └─ HoldApi             what callers are told           ── implements ──> WalletHolds
 │         ├─ MCHoldApi         instance for TLC (of WalletHolds too)
 │         └─ WalletHoldsProofs theorems, about WalletHolds and HoldApi
 ├─ Mutations  (with Money: widths)   mutations by amount, cancel_bid
 │    ├─ MCMutations            instance for TLC
 │    └─ MutationsProofs        theorems
 ├─ Payments   (with Midtrans)        top-ups, wallet page   ── implements ──> PaymentContract
 │    ├─ MCPayments             instance for TLC
 │    └─ PaymentsProofs         theorems
 ├─ Withdrawals (with Midtrans)       create_withdrawal, status reports
 │    ├─ MCWithdrawals          instances for TLC
 │    └─ WithdrawalsProofs      theorems
 └─ SellerEscrow                      sales and orders       ── implements ──> SaleContract
      ├─ MCSellerEscrow         instances for TLC
      └─ SellerEscrowProofs     theorems
Provisioning                 RabbitMQ consumer, HTTP creation, reconcile
 ├─ MCProvisioning              instance for TLC
 └─ ProvisioningProofs          theorems
Metrics                      middleware, counters, scrape
 ├─ MCMetrics                   instance for TLC
 └─ MetricsProofs               theorems
SumTheorems                  lemmas on sums over finite sets, for all proofs but Provisioning's
```

**How code becomes actions.** A handler is a process. `pc[p]` names its next statement,
`call[p]` its arguments, `snap[p]` the wallet row it has read: these are the local variables
of one async function, and `Finish`, `Quit` or `GoTo` to one of `Outcomes` is its return. One
action is one database statement (or one call to Midtrans), with every early return that
follows it, so that everything between two awaits is atomic and nothing else is. Two
conventions keep the models short and faithful:

- A *transaction* whose first write takes the row lock of the wallet (or of the payment) and
  whose further writes are invisible until COMMIT is one action from that write on; its reads
  before are actions of their own. PostgreSQL's READ COMMITTED, which the code does not
  change, lets each of these reads see what other transactions have committed meanwhile.
- Two writes in two transactions (`mutate_wallet`'s receipt and update, the steps of
  `create_withdrawal` and `simulate_withdrawal_status`) are two actions.

`Abort` drops a handler between two statements, as when a client hangs up or the service is
killed: an open transaction rolls back, what is committed stays.

**WalletDomain** translates the operations of `Wallet` into three sets of transaction types:
which credit or debit which balance. `Allowed` is the check they make, `Apply` their effect,
`Stored` what a versioned UPDATE leaves. **Money** has the widths: `Sum` is the u64 addition of
a build without overflow checks, `AsI64` and `AsU64` the casts, `ColumnAccepts` the INTEGER
column with its CHECK. `Half` and `ColumnMax` are parameters, so that TLC can take small ones.

**WalletHolds** has `hold_funds` as `HoldLookup`, `HoldReadWallet`, `HoldReadSiblings`,
`HoldWrite`; `release_funds` and `convert_funds` as lookup, read and write; `mutate_wallet`
as `MutateRead`, `MutateLedger`, `MutateUpdate`; the worker as `WorkerTick` and `WorkerNext`,
after which it runs `release_funds` like anyone else. `holds` is a function on the ids in the
table. `ledger` abstracts `wallet_transactions` to the sum of the moves its rows record, which
is all the properties need. The clock only decides when a hold has expired (`Expire`).
`MaxConnections` is the size of the pool (`server.rs:17`: 1 for `sqlite::memory:`, else 5); a
process inside a transaction owns a connection, and a statement outside one needs a free one.
Every identifier of a call is the caller's own (`hold_id` is chosen by the auction service),
so calls may repeat them.

**HoldContract** is what the auction service may rely on: placement, release and conversion
are each atomic, an ACTIVE hold settles once, a later bid replaces the earlier one. The
statement-level module implements it with one connection (`ImplementsContract`) and does not
with more (`hold_finality` below).

**HoldApi** adds to each step of `WalletHolds` what the service returns (`Results`) and what
the HTTP handlers and the gRPC adapter make of it. `hold_funds` reads the hold back after its
COMMIT, in a statement of its own: `ReadBack`, or `LoseReply` when the handler is gone by then.

**Mutations** has the seven operations by amount with the widths of `Money`. The receipts keep
the request that inserted them, because `cancel_bid` reads one. An amount is any u64; whether it
survives the casts, the CHECK of `wallet_transactions.amount` and the CHECKs of `wallets` is
what the module is about. A build that checks for overflow panics (`Overflows`).

**Midtrans** is the adapter, without state: for each exchange the set of outcomes the service
may see. A charge may be made and its answer lost, or lack the instruction of the channel asked
for; IRIS may refuse an account or name another, pay and lose the answer, answer with a
reference of its own or a blank one. Without keys the adapter answers by itself.

**Payments** identifies a payment by wallet and idempotency key, or by the request that made
it (`PaymentIdOf`); the code hashes the same data. `apply` holds the arguments of
`apply_payment_status`, which five handlers reach. Midtrans may report any status at any time,
again and again. `old` is the set of payments past PAYMENT_EXPIRY_MINUTES. `history` and
`shown` are what the wallet page has read and answers. **PaymentContract** knows no handlers:
a payment is opened, settles once and is credited in that step, a mutation is carried out once.

**Withdrawals** has `payouts` remember what IRIS was told to pay, by the reference that names
the payout: its request, and whether the name is the one the request carried (`own`) or the one
IRIS answered. `account` is the account as IRIS has named it, `named` the name the handler goes
on with. Which characters a reference has is left out. A request that loses the race for a key gives
its debit back (`RefundRead`, `RefundUpdate`), which may meet a conflict.

**SellerEscrow** keeps the SELLER_ESCROW and SELLER_ESCROW_SETTLE rows, which are what
repetitions are recognised by. `settle_seller_escrow` is `release_seller_payout` without an
order id, and is modelled as that. **SaleContract** is what is left when the handlers are
hidden: a sale is recorded and credited in one step, once; a settlement is recorded once per
order (`Claim`), nothing being set aside for it, and what it recorded moves from held to active
at most once (`Settle`) or never (`Forfeit`, the payout that met a conflict or was dropped
between its two writes). The settlements still `owed` are those of the handlers between the
two.

**Provisioning** has the broker hand out ready messages, one per consumer (`basic_qos(1)`),
and make a message ready again when its connection is gone, while the handler that has it may
still be running. `Malformed` messages are acknowledged unread, and so is a message whose
handler failed. A user has a wallet per role; whatever role is not SELLER is BUYER.
`reconcile_provisioned_wallets` walks the users of any set of recorded events, which stands for
every limit it may be called with. Nothing in the running service calls it, only
`tests/provisioning_tests.rs` does; the model lets it run next to everything else, as its
public signature allows.

**Metrics** takes every addition and every load of a counter as one action, in any order,
since all are Relaxed. `Watched` picks the counters an instance follows, among them always those
that the properties compare.

## What the runs check

Each module's type invariant is checked too, with what handlers have established (that an
operation was allowed on the row read, that a row they will update exists), so a step that
relied on something no longer known would show.

| Run | States | Instance | Shows |
|---|---|---|---|
| `holds_serial` | 318,439 | 3 requests of 16 calls, worker, 2 holds, 2 bids, 1 connection, 1 crash | The handlers implement `HoldContract`, so a hold settles once; a bid has one hold, held money covers the ACTIVE holds, and while only holds move money the balances are exactly what the holds say. |
| `holds_pooled` | 533,916 | `HoldApi`: 3 requests of 10 calls, worker, 2 connections, 1 crash | With transactions interleaved the version check still detects every change to the row and to the ACTIVE siblings (`ReadsCurrent`), no update is lost (`WritesApplyToCurrentRow`), an auction has one ACTIVE hold per wallet, and the receipts of hold transactions add up to the balances. A success reply to a hold names a stored hold of its bid with its amount (`HeldRepliesStand`); one reported settled is never ACTIVE again (`SettledRepliesStand`). |
| `holds_liveness` | 5,560 | 2 requests of 10 calls, 1 connection, 1 crash | An expired hold does not stay ACTIVE (`ExpiredHoldsSettle`); a call that has begun ends (`CallsEnd`). |
| `hold_finality` | violation | 3 requests of 5 calls, 2 connections | Refutes `HoldFinality`: a release and a conversion (or the worker) that both read ACTIVE both commit: the second reads the wallet after the first has bumped the version, and never looks at the status again. |
| `mutations` | 496,474 | 3 requests of 16 calls, 3 owners of whom 2 have a wallet, small widths, 1 abort | Every update of a wallet is exactly one call's amount on the row it replaces, whatever amount is named (`MovesAreExact`); the balances are what the successful answers add up to, and each of these has the receipt that shows its move (`BalancesAreAnswers`); while clients cancel each bid once, held covers the bids. |
| `payments` | 484,135 | 3 requests of 18 calls, one payment open and one made by key, 1 crash | The handlers implement `PaymentContract`. Replies name the stored intent under the amount Midtrans was asked to collect, and what they call settled is; a payment settles once and stays; it is credited once, also next to versioned writes; it leaves one receipt of its status; the wallet page loses no unpaid payment. |
| `withdrawals` | 706,798 | 3 requests of 9 calls, 1 key, 2 accounts, 1 crash | Replies name stored rows with the amount, account and reference of the payout (`WithdrawalRepliesStand`); every stored withdrawal has been paid for by the wallet, as long as one report is made; no money leaves without a payout. |
| `withdrawal_payout` | violation | 2 requests | Refutes `PayoutHasWithdrawal`: the payout precedes the debit, and a request refused for its balance has been paid out. |
| `escrow` | 349,682 | 4 requests of 8 calls, 2 sellers, 1 sale, 1 order, 1 crash | The handlers implement `SaleContract`. A sale is credited once; what has ever been active is covered by settlements, one per order. |
| `escrow_payout` | violation | 4 requests of 3 calls | Refutes `SuccessfulPayoutsSettled`: a payout that meets a conflict leaves its row, and its repetition is told it succeeded while the money is still held. |
| `provisioning` | 336,352 | 2 consumers, 1 HTTP creation, 1 reconciliation, 3 messages (a buyer's and a seller's event of one user, a malformed one), 1 loss, 1 database error | A recorded event has its wallet (`RecordedHasWallet`); without database errors a message is acknowledged only when its user has a wallet (`AckedHasWallet`), and every published message is provisioned in the end (`PublishedIsProvisioned`). |
| `metrics` | 745,458 | 2 requests and 1 scrape, credentials set, 7 counters | At rest the counters agree with each other (`CountersAgreeAtRest`); what a scrape shows is off by no more than the requests recorded while it loaded (`ScrapeSkewBounded`). |

**Bounds and why they suffice.** The races are between two handlers about one row, with a third
to repeat, to bump the version or to settle; so three requests (four for escrow: credit,
payout, conflicting credit, retry) on one wallet and two holds reach each of them, and the
violations above are found well inside these bounds. PostgreSQL's pool has five connections
(`server.rs:22`); two let two transactions overlap while a third request waits or mutates.
Balances of 1 to 3 and amounts of 0 to 2 give every outcome of the balance checks: refused at
zero, exact, more than enough. In `mutations` u64 has 16 values and the column 4, so that
amounts fit (1, 2), fit i64 but not the column (5), are negative as i64 (9, 15) and wrap a
balance (15). A payout of an order with two different amounts, a key with two different
amounts, and a hold of one bid under two ids are in the call sets because repetitions need not
be equal. In `metrics` the durations lie on either side of the bounds that APDEX and the
histogram divide at. `MaxCrashes`, `MaxAborts`, `MaxLosses` and `MaxDatabaseErrors` bound
failures, each at one: a failure needs no second one to do harm here, since a process that
failed does not resume. Requests are interchangeable, so they are a symmetry set in the runs
that check no liveness and in which no call names another request.

**Deadlock** is checked in the holds runs, where the worker always has a next step. The others
stop when every request has been served and say so.

**Fairness.** `WalletHolds!FairSpec` has weak fairness of a request's next statement and of
the worker's step: tokio polls every spawned task, and statements that wait for a connection
are queued by the pool and served when it is free. It does not make clients call, holds
expire or handlers drop. With one connection weak fairness is enough because a transaction
never waits for a second one. `Provisioning!FairSpec` has weak fairness of each consumer's
loop, which `run()` repeats for ever; it makes neither the auth service publish nor the broker
lose connections.

## What is proved

`tlapm` checks all eight proof modules. Every invariant and every action property of the passing
runs is a theorem, and so are the three refinements of contracts: TLC shows them on an instance,
the theorem for every value of the constants under the assumptions of the module. Those worth
knowing: where a property adds up amounts of requests, the requests are finitely many
(`RequestsAssumption` of `Withdrawals`, `SellerEscrow` and `Metrics`, `RequestAssumption` of
`Mutations`); no request has the name of a sale or an order; and `MaxConnections = 1` is a
hypothesis of the theorems whose name begins with `Serial`, which `hold_finality` shows to be
needed.

**SumTheorems** has the lemmas about `SumFunctionOnSet` that the rest needs: what a sum is when
an element joins (`SumAdd`), leaves (`SumRemove`) or changes (`SumChange`), when two functions are
added (`SumPlus`) or the set is split or renamed (`SumSplit`, `SumImage`), and when it can only
grow or shrink. The provers cannot instantiate the library's induction theorems, so each is proved
from the subsets of a finite set being well-founded under strict inclusion: among the subsets
where the claim failed there would be a smallest (`MinimalSubset`), and it is not one. The
recursion inside `SumFunctionOnSet` is a function on subsets, which exists and is unique by the
same argument (`IteratesAgree`).

**WalletHoldsProofs**, for every set of requests, calls, wallets and holds, and every bound:

- `TypeCorrect`: `TypeOK`. Its last conjunct, `HandlerOK`, is what makes it inductive: the
  operation a handler is about to commit was allowed on the row it read, so the balances stay
  natural numbers.
- `SnapshotsDetectChange` (`ReadsCurrent`), `AtMostOneActive`, `NoLostUpdate`, for every size of
  the pool. The invariant is `Lock`: `TypeOK`, the two halves of `ReadsCurrent`
  (`SnapshotCurrent` about the row, `SiblingsCurrent` about the ACTIVE holds) and
  `OneActivePerAuction` together. None is inductive alone: that a hold inserted at a current
  version leaves one ACTIVE hold per auction needs the siblings to be current, that they stay
  current needs every commit about the wallet's holds to bump its version, and that the
  version tells needs the snapshot to equal the row. `LockCommit` is the heart: a commit
  increments the version, so every other handler's copy is out of date and it promises
  nothing about it any more.
- `ReceiptsAgree` (`LedgerAgrees`), for every size of the pool: `LedgerInv` is `Lock` with the
  property. The receipts grow by what the operation moves, the balances become what the
  operation makes of the row read, and `Lock` says that this is the row replaced.
- `SerialOneHoldPerBid`, `SerialRefinement`, and `SerialFinality`: with one connection what
  `hold_finality` refutes for two (`HoldFinality`) is true; `holds_serial` checks it as part of
  `HoldContract`, whose `Settle` takes an ACTIVE hold.
  The invariant is `Serial`: at most one process is inside a transaction, and what that
  process has found (no hold of the bid, or an ACTIVE hold) is still so. The refinement maps
  `active` and `held` to the columns of `wallets`; reads are stutters and a commit is one
  action of `HoldContract`. It needs `CallsOK`, that the amounts committed are those callers
  name, and `Lock`, that the row replaced is the one the operation was computed from.
- `SerialHeldCovers` (`HeldCoversHolds`) and `SerialBalances` (`BalancesFollowHolds`), by
  `MoneyInv`: `Serial`, the two properties, and that there are finitely many holds. The amount a
  settlement takes out is that of a hold that is still ACTIVE, which with a second connection it
  need not be; a placement replaces a set of holds, whose sum leaves one side of the equation
  and joins the other (`SumSplit`).
- `ApiRefinesHolds`: with the answers hidden, `HoldApi` is `WalletHolds`, so these theorems hold
  there too.
- `HeldReplies` and `SettledReplies`, for every pool. The invariant `ApiInv` says of each answer
  that the hold it names is stored with the auction, bid and amount it was read with, and that
  one it calls settled is not ACTIVE. It rests on what every step of `WalletHolds` does to the
  table: a hold is never removed or given another bid or amount, and never becomes ACTIVE again.

**MutationsProofs**, for every width with `ColumnMax` below `Half`:

- `TypeCorrect`: no stored balance and no balance in a handler's hands is out of the range of
  its column. `MovesExactly`: each update is the operation of one call on the row it replaces,
  in unbounded integers. The argument is that an amount passes as a receipt first: one that is
  beyond the column is refused there, and for the others u64, i64 and INTEGER agree.
- `AnswersAddUp` (`BalancesAreAnswers`), by `BalancesInv`: a balance is the initial one and the
  moves of the calls answered with success, each shown by its receipt. `RowsInv` adds that a
  receipt is of its request's call, that a call about to update its wallet has the receipt of
  exactly its move, and that the receipt `cancel_bid` has found is one of its own wallet.
- `HeldCovers` (`HeldCoversBids`) follows from the same invariant: when clients cancel each of
  their bids once, a release and the bid it cancels drop out of the sum together.

**PaymentsProofs**, for every set of calls, and every number of requests, wallets, keys and
payments:

- `TypeCorrect`, with the payments' `HandlerOK` as its inductive part.
- `SettledForGood` (`PaymentFinality`): only two actions change the table of payments
  (`WhoWrites`), the insert under a new id and the conditional UPDATE of a PENDING row.
- `OneReceipt` (`ReceiptPerPayment`), by the invariant `RowPerPayment`, which says of each pair of
  payment and type whether there is a row.
- `RepliesStand` (`IntentRepliesStand`), by `Collected` (what is stored or about to be inserted has
  been charged under its amount) and `ReadStands` (a row that was read is still stored under
  its amount, whatever became of its status).
- `FinalReplies` (`FinalRepliesStand`): a row shown as settled is what is stored, since
  a settled row does not change.
- `PaymentRefinement`: the handlers implement `PaymentContract`. It needs that the row a mutation
  replaces is the one it read (`SnapshotCurrent`), for which in turn every credit must bump the
  version.
- `BalanceIsExplained` (`BalanceExplained`): a wallet has what it began with, its PAID payments
  and its successful mutations. `BalanceInv` adds `Countable`, that only finitely many have
  happened yet, which is why the requests need not be finite.
- `PageShowsUnpaid` (`PageLosesOnlyPaid`), by `PageInv`: from the moment the page has read its
  list, each payment that was there is PAID, or still in its list, being expired, or shown,
  unless the history it read first had it (`InHand`). A payment that leaves the list goes
  through one of these and a payment never stops being PAID, which is `PaymentFinality` again.

**WithdrawalsProofs**:

- `TypeCorrect` and `WithdrawalReplies`. The invariant adds to `TypeOK` that
  a handler past its payout has sent it (`HandlersPaid`), that each stored row has (`RowsPaid`), and
  that a row in a reply is stored (`RepliesRead`).
- `DebitsArePaidOut` (`DebitsHavePayouts`). That debits never exceed payouts is not inductive: a
  handler that has paid and not debited would have to be known to be a debit short. `DebitInv`
  says that what was debited is covered by `Spent(w)`, the payouts whose handler is not about
  to debit, and that no one has a payout who has not come to it.
- `StoredArePaidFor` (`StoredAreDebited`), while clients make one report. `Solvent` is the
  invariant: the active balance, the stored rows that still count (`Counted`), and what handlers
  between their debit and their row, or before their refund, are owed (`Debtors`), are together
  at most the initial balance. A debit moves its amount from the first to the third, the insert
  from the third to the second, a failure report from the second back, a conflict loses it.

**SellerEscrowProofs**:

- `TypeCorrect`, and `ProceedsAreConserved`, an action property stated in
  that module: a step leaves a seller's active plus held balance alone, or adds the amount of the
  one credit it records, or takes out that of a withdrawal. The invariant `IInv` carries the
  snapshot of every handler whose version still matches (`Fresh`) and whose the rows without an
  id are (`OwnRows`).
- `SalesCredited` (`SalesCreditedOnce`) and `ActiveIsSettled` (`ActiveOnlyIfSettled`), by
  `BooksInv`. The second is not inductive as it stands, since a payout writes its row first:
  `Books` counts what handlers between the two writes have yet to move (`Pending`) with what has
  become active, so that the retry in between finds no room.
- `SaleRefinement`: the handlers implement `SaleContract`. `ClaimInv` adds that a payout between
  its two writes has its row (`ClaimsRecorded`) and is the only one under that order
  (`ClaimsDistinct`), so that the step that moves the money strikes exactly its own entry from
  `owed`; `Fresh` gives that held covers it at that moment.

**ProvisioningProofs**, for every number of consumers, creations, reconciliations, messages,
losses and database errors: `TypeCorrect`, `RecordedProvisioned` and
`AcknowledgedProvisioned`. The invariant `Kept` adds `ConsumerKnows`: a consumer about to
record an event has seen or inserted the wallet, and one about to acknowledge has the wallet
unless a statement failed. It rests on the assumption `SameEventSameUser`, that one event is
about one user and role.

**MetricsProofs**, for every finite number of requests and scrapes:

- `TypeCorrect`, and `RestAgreement` (`CountersAgreeAtRest`), by `BooksInv`: a latency counter is
  the number of requests that have added to it, an operation's counter that of the exchanges
  handled. At rest a request has added to all of its counters.
- `ScrapeSkew` (`ScrapeSkewBounded`), by `ScrapeInv`: while a scrape loads, the requests that are
  recording are among those that overlap it, and what it has seen of a counter lies between the
  requests recorded before it began and those begun (`Loading`).

**Only model-checked.** The three liveness properties (`ExpiredHoldsSettle`, `CallsEnd`,
`PublishedIsProvisioned`): liveness under fairness and ENABLED are beyond the backends.
The three properties of the violation runs are false.

## Disagreements with the documentation

The three violation runs are the `findings` of `PROJECT.json`. Reading the code for the models
showed further ones, which no run asserts:

- With several connections two requests for one bid both find no hold and both insert one
  (`repositories.rs:246`): the unique index of `20260521000000_unique_hold_auction_bid.sql` is not
  among what `run_migrations` executes. `OneHoldPerBid` holds with one connection.
- `mutate_wallet` leaves a receipt of a mutation that met a conflict (`wallet_service.rs:945`,
  `:962`), although `src/wallet.rs:155` calls a row an "Immutable record of a single wallet
  mutation"; `LedgerAgrees` therefore speaks of hold transactions only, and `BalancesAreAnswers`
  of the receipts of successes. `escrow_payout` shows the worst consequence.
- Two failure reports of one withdrawal both find PENDING and both refund
  (`wallet_service.rs:535`), although `docs/2. Software Quality.md:17` says
  "Idempotency/concurrency paths reject duplicate mutation"; `StoredAreDebited` therefore speaks
  of one report. A second report also overwrites a terminal status (`repositories.rs:764`), and
  two concurrent withdrawals under one key send two payouts of which one is stored.
- gRPC answers HELD for a repeated bid whatever became of its hold (`grpc/mod.rs:52`), and the
  search for that hold does not look at the wallet (`repositories.rs:246`).
- `map_error` of the hold routes looks for "Insufficient active balance" where the domain says
  "insufficient active balance", so a refused hold has the code HOLD_OPERATION_FAILED.
- The wallet page can list a payment as unpaid, or as PAID, that a callback has settled since
  the page read its history (`wallet_service.rs:142`), and leave out one that was PAID between
  its two reads: `filter_unpaid_without_settled_top_up` (`ListDone`) drops what the history has,
  whatever its status in the list.
- The consumer acknowledges a delivery whose handler failed (`provisioning_consumer.rs:123`),
  so a database error loses the event. `reconcile_provisioned_wallets`, which could repair
  some of this, is called by tests only; it handles the BUYER role only (`wallet_service.rs:916`), reads only events that
  were recorded, and ends at the first wallet that someone else has inserted meanwhile.
- A payment that expired locally is never credited when Midtrans settles it later
  (`repositories.rs:613`).
- The operation id of an idempotency key hashes user, role and key joined by colons, so that
  two different triples may agree, and only the first 128 characters of a key are stored.
- The balances of a `WalletCreateRequest` are not used.
- A scrape is no snapshot: within the requests recorded meanwhile it may show an APDEX score
  above 1 or a bucket above a wider one, and the uptime counts from the first scrape
  (`http/metrics.rs:201`). gRPC calls are not among the request counters.

## What is not modelled

- DTOs, the command handlers that only forward, the profiling binary, the ALTER TABLE
  statements of start-up: they have no state of their own, or none that outlives start-up.
- What is refused before anything is read: the internal token, bodies that do not parse, blank
  ids, roles and keys.
- The order of `expires_at` as text: a hold may expire at any time in the models.
- NULL columns.
- Roles outside `Provisioning` only select the wallet row, and a model has one wallet per owner.
- Amounts outside `Mutations` are natural numbers; `MovesExactly` is why that is enough for
  `mutate_wallet`.
- Local mode without Midtrans keys is in `Midtrans`, and the theorems allow it; the runs set the
  keys, which gives more outcomes.
- PostgreSQL is assumed to do what READ COMMITTED says and not to lose commits; a failing
  statement other than by a constraint is modelled in `Provisioning` and elsewhere is the
  `Abort` of a handler.
- A start-up over data that violates the unique indexes of keys and sales, which then are not
  created (`server.rs:116`): the models have them.

## Plan

Written, in this order: `WalletDomain`, `WalletHolds` with its proofs, `HoldContract` and the
refinement, `Payments` with its proofs, `Withdrawals`, `SellerEscrow`, `Provisioning` with its
proofs; then `Money` and `Mutations`, `HoldApi`, `PaymentContract` and its refinement, `Midtrans`,
roles and reconciliation in `Provisioning`, `Metrics`, and the proofs of `Mutations`, `HoldApi`,
`Withdrawals` and `SellerEscrow`; then `SumTheorems` and with it the proofs about amounts, the
proofs of `Metrics`, and `SaleContract` with its refinement. The order is by how much money moves
and how many actors meet. What is left:

1. *An abstract specification* of a withdrawal under the condition that clients report once,
   with a refinement.
2. *Settled for good* for withdrawals, once reports are conditional on the stored status.
3. *What customers paid* at Midtrans, next to what Midtrans reported, to state what a late
   payment is owed.
4. *Start-up without indexes*, as a parameter of `Payments`, `Withdrawals` and `SellerEscrow`.
