# Verification of jcool-ecommerce-backend

TLA+ models of the parts of the backend that keep state other parts rely on,
with TLC runs on small instances and TLAPS proofs for every instance. The
promises come from the code and its README — "never oversell, never
double-charge, never lose an event" — and from what a reviewer would ask of
sessions, ids, search, cache, uploads and a process that is being stopped.

`PROJECT.json` holds the machine-readable side: which lines each definition
models, the runs, a mutant for every property, the hazards and the theorems.

## The system

A NestJS monolith (`apps/api`) and five services taken out of it, each with its
own Postgres; Redis carries queues, caches and rate limits, Temporal the
checkout saga, etcd the node leases, Stripe the money.

| Part | State it keeps | Operations | Talks to |
|---|---|---|---|
| inventory-service | `stock_levels`, `reservations` (lines), `reservation_orders` (header) | Try, Commit, Release, Restock; sweep of lapsed holds; admin `setOnHand`, `adjust`, top-up | called by the saga's activities over HTTP, with retries |
| payment-service | `payment_orders` (header), `payments` (attempts), webhook events, outbox | open session, record authorization, capture, cancel, reconcile, webhook | Stripe; emits `payment.authorized` |
| order-service | `orders`, `idempotency_keys`, outbox, inbox; a Temporal run per order | checkout, pay, cancel; saga transitions, activities; reaper; invariant checker | inventory, payment, Temporal, the queue |
| packages/messaging | outbox rows, BullMQ jobs, inbox claims, dead letters | append, relay tick, consume, dead-letter, replay, sweeps | Postgres and Redis of each service |
| id-service, packages/id-generator | etcd owner and floor keys; lease, last timestamp and sequence of a replica | acquire, renew, release, fence, mint | everyone who inserts a row |
| user-service, packages/auth-verifier | users, refresh-token families, link tokens, the layout pin; epochs in Redis | signup, login, refresh, logout, password change and reset, links; publish, reconcile, verify | Redis, the mailer, the services' guards |
| api: catalog, search, cache, cart, media | product rows, Elasticsearch documents and aliases, Redis envelopes, carts, assets | admin writes, versioned indexing, reindex, SWR lookups, cart edits, upload life cycle | outbox, Elasticsearch, Redis, S3 |
| packages/platform | timers, breakers, counters of a process | admit, shed, drain, circuit breaker, retention scheduler | everyone |

What is hard in it, and what makes each part correct:

- *inventory*: commands arrive late, twice and out of order, beside a sweep and
  beside admins. Correct when nothing is oversold, the reserved column is the
  sum of the held lines, and what was answered once stays true.
- *payment*: a use case is a few transactions with Stripe calls in between, and
  everything else runs in those gaps; the buyer and Stripe act on their own, and
  Stripe repeats a stored 5xx under its key. Correct when at most one attempt can
  take money, a confirmed cancel left no money behind, a hold the order counts on
  is not voided, and no key is given up while its outcome is open.
- *saga*: activities are retried while earlier attempts still run; signals,
  cancel updates, the deadline and late authorizations race. Correct when a
  finished order agrees with stock and money, and every order finishes.
- *messaging*: at-least-once from outbox to inbox, with three retention windows.
  Correct when each event is applied once and is never silently gone.
- *idempotency gate*: leases, reclaims and a row that carries the key twice.
  Correct when one key means one order and one answer.
- *ids*: clocks that step, suspended processes, leases that change hands, writes
  that timed out and land. Correct when no id is handed out twice.
- *sessions*: two tabs, a thief, a password change and a login that read the old
  password. Correct when what was ended stays ended, everywhere.
- *search and cache*: events and rebuilds out of order; a value read before a
  write and stored after it. Correct when the newest write wins in the end, and
  at once for whoever waited for it.
- *media*: rows and bytes in two stores and a sweep between them.
- *process*: a signal at any moment. Correct when nothing is closed under work
  that was accepted, and the process ends.

## Modules

```
ReservationFence ── Inventory ──(AtomicSpec)── StockTransactions
       └── CheckoutSaga ──(Pay)── Payment ── PaymentFence
Messaging     CheckoutGate     CheckoutTiming
NodeLease ──(Mint)── IdMint
SessionEpoch  Sessions      AccountLinks     LayoutPin
CatalogAdmin  CatalogSearch    CatalogCache     Cart     Media
ServiceProcess                 OutboundCall
```

An MC module instantiates a component for TLC. Where one holds several
components (`MCSessions`, `MCCatalogSearch`, `MCServiceProcess`, `MCStorefront`),
these share no state: a behaviour picks one, in `part`, and follows it to the end.
It names each component (`Cache`, `Admin`, `Images`, `Process`, `Timing`, ...) and
leaves the values to the cfg, so that a theorem about `Cache!Spec` is about the
component for every value of its constants and names the property the run checks.
The proofs about a component are in a module named after it (`PaymentProofs`);
`SessionsProofs`, `StorefrontProofs` and `OrderServiceProofs` extend the MC modules
of several components and speak of them by these names.

### Stock, money, orders

**ReservationFence** is `decideReservationFence`: given the header of an order
and a command, whether it applies, is already done, or conflicts. A Release
before its Try leaves a `FENCED` header so that the Try is refused.

**Inventory** is the inventory participant at the level of whole requests. The
state is the three tables; `done` is history, the answers given so far. A
request is one action (`TryReserve`, `TryRefused`, `CommandApplied`,
`CommandAnswered`), because each runs in one transaction that locks the header
first; the sweep and the admin operations are actions of their own. `Int4Max`
is the width of the stock columns and `Min2` the `LEAST` of `STOCK_DELTA`.

**StockTransactions** is the same service statement by statement: row locks on
headers and levels, the `SELECT FOR UPDATE` of the pessimistic strategy and the
version-guarded updates of the optimistic one, `SKIP LOCKED` of the sweep,
rollbacks. A strategy is the configuration of a process, so each transaction
chooses one of `Strategies`: with both, old and new processes are live at once,
as while the setting is rolled out. It implements Inventory (`AtomicSpec`).

**PaymentFence** and **Payment** are payment-service for one order. A call is
one execution of a use case, with a program counter; a step is a transaction, an
unlocked read or one Stripe request, and a call can stop for good between any
two. Stripe (sessions, intents) is external: the states the adapter tells apart,
and per key the answer it stored, a 5xx too. The webhook log admits an event
once per provider id and again when its processing failed.

**CheckoutSaga** is order-service for one order: the pure transitions of
`checkout-saga.ts`, the workflow that schedules their commands as tasks, the
activities, the late-authorization run, `orders.status` with the events its
changes append, pay, cancel, the reaper, and the invariant checker with what it
would report. It composes Payment (INSTANCE) and the inventory header, through
the fence. Finished activities linger: `sent` lets any of them take effect again.

**CheckoutTiming** is what the untimed saga leaves out: the settings the process
validates at boot (`assertCheckoutSagaEnv`) and the instants they fix for one
order. `Candidates` are settings on both sides of every rule; only the accepted
ones start a behaviour. An attempt of an activity calls one of the two
`Participants`; api-internal is asked by the checkout request alone, so the
timeout of its client (`Services`) bounds the Try's budget and no attempt.

**CheckoutGate** is `POST /orders` for one user: the interceptor's reads,
inserts and reclaims of the key row, the use case behind it, the placement
transaction under the per-user advisory lock, the saga's result transaction,
leases, the sweep of keys and the deletion of rejected orders. A request is
interrupted between any two awaits and can die anywhere.

**Messaging** follows an event from its outbox row to its inbox claim: the relay
tick and its transaction, the queue (BullMQ, external: job ids, locks, the
stalled check, retries, `removeOnComplete`/`removeOnFail`), deliveries that
prepare, claim and apply, send the mail after the commit and complete or fail
the job, the dead-letter router, the replay CLI call by call, and the sweeps.
Time is in days, the unit of the retention windows. `InboxRetention >=
FailRetention` is the assertion the service makes at boot. `backlogged` and
`retriedLate` are history: the applied events that waited for a redelivery, or were
retried in place, longer than the windows cover. Nothing in the code prevents either,
so no action is guarded by them; the properties name them.

### Ids

**IdMint** is the promise: an id is new and above every earlier one of its node.
**NodeLease** is the id service: `EtcdLeaseStore` request by request, the
keeper's acquire, renew, floor lift, fence and release, and the generator's
timestamp and sequence. True time, the wall clock and the monotonic clock of a
replica are three things; a store request that threw has run, has not, or runs
later. The mint of NodeLease is shown to be a step of IdMint (`FreshIds`).

### Accounts

**Sessions** is one account: every transaction under the per-user lock is an
action, and what a request read before it is kept in `req`, possibly stale.
**SessionEpoch** is the way of an epoch to the verifiers: commit, publish
(raise only), read-through fill, reconciler, lost keys. **AccountLinks** is
signup and the mailed links, one statement per action. **LayoutPin** is the boot
of processes of several builds against one database.

### Catalog and cart

**CatalogAdmin** is the admin's transactions, each in two steps: locks and
reads, then the commit. `Public` is the filter of the public read, the category's
archive included. **CatalogSearch** is what follows: events, sync workers, the rename
fan-out, reindex runs with lock alias, fill, swap, abort, clean-up of a stale lock;
and the archive of the category in its two steps, as it changes what is public
without a word to any of these. `stranded`, in both, is history: the versions that
were public when their category was archived. **CatalogCache** is `SwrCacheService`: generation, leased single
flight, stale serving with a refresh behind, the shared source read of the paths
that cannot use Redis. **Cart** is `addItem` statement by statement beside the
one-statement writes. **Media** is an asset from ticket to reclaim, with two
overlapping sweeps.

### Processes

**ServiceProcess** is one process from boot to exit: requests, queue worker,
Temporal worker and its supervisor, timers, and the shutdown hooks in the order
of the framework. **OutboundCall** is the circuit breaker of one dependency
(opossum external) and what the caller is told. It is one given
`isDownstreamFault`, as all are but the mail breaker (`mail.module.ts:60`), which
counts every rejection, a no as well.

The definitions headed "Defect:" are deliberate mistakes; nothing uses them but
the mutants of `PROJECT.json`, each of which replaces a definition and must make
the property it is listed for fail.

## Runs

| Run | Instance | Shows |
|---|---|---|
| `inventory` | 2 transactions at a time, 2 orders over the same 2 variants, stock to 2, either strategy for each | holds accounted, no oversell, answers stay true, units conserved, no lock cycle; every transaction is one atomic step of Inventory |
| `payment` | 2 attempts, the second for a wrong amount, 3 concurrent calls, 2 5xx answers | one live attempt, the header and the answers are true, the good hold is kept, keys are kept while their outcome is open |
| `checkout` | 2 attempts, 2 payment calls, 3 deliveries | money, stock and order agree, dead orders hold nothing, the other services are told once |
| `checkout_liveness` | 1 attempt, 1 call, 1 5xx, fair | every order settles and every run closes |
| `messaging` | 1 event, 2 workers, 2 attempts, 2 days, retention 1 day, 1 fault, 2 failures, fair | applied once but after a backlog or a late retry, and kept until then; a committed event is consumed or failed visibly |
| `messaging_backlog` | 1 event, 1 worker, 2 attempts, 2 days, retention 1 day | violated: an applied event that waited for its redelivery is applied again |
| `ids` | 2 replicas, 1 node, a TTL of 2, 3 ticks, 2 leases, 2 ids | one minter at a time; minting implements IdMint |
| `sessions` | 2 requests, 3 refresh tokens, 2 passwords, 3 ticks, a crash; 2 requests and 3 links; 2 processes, 2 builds, 1 fault | one live token per family, under the current password; reuse ends access; ended families stay ended; links; pin |
| `catalog_search` | 1 product, 1 worker, 2 reindex runs, an edit or a rename, an archive of the category, a failure, a late item; 2 products, 2 categories, 1 SKU, 2 admins, 3 writes; 2 lookups, a write, a fault | one index serves and ends up right but for stranded versions; one content per version but for these, archived categories stay empty; reads see bumped writes |
| `catalog_archive` | the same | violated: search shows a product of an archived category with every event handled |
| `process` | 2 connections for 1 slot, 1 activity, 1 job, 2 timers, 2 faults, fair; 3 requests, 2 keys, cap 1, 2 claims, 2 orders; 2 calls; 288 settings | nothing torn down under work, no leak, the end is reached; one order per key, the cap holds; breaker; timing |
| `storefront` | 2 writers, 2 verifiers, 3 epochs, 2 faults, fair; 2 requests, 3 SKUs, cap 1; 2 assets, 1 product, 2 passes, 1 crash, fair | an answered revocation is effective and all reach the verifiers; carts; images keep their bytes, what nobody attached is reclaimed |

A run marked "violated" checks a statement of the repository's comments or runbook,
which TLC finds false of the code; it is a finding of `PROJECT.json`, described under
Observations.

Why the bounds are enough:

- Orders interact only through shared variants. Two orders that share both
  variants give every pair of lock orders and every race for the last unit; stock
  goes to 2 because a lock cycle needs two requests that both get as far as their
  second row. More orders, quantities and widths are the proofs' business.
- Payment has two attempts because the rules compare the latest with an older
  one, and three calls because a race is between the gap of one call and another,
  with a third to be misled by what they leave.
- The gate needs three requests: a slow handler and two that reclaim its key. Two
  claims are the slow one and the one that replaces it.
- In Messaging, events meet only in a relay batch: one whose publishes are refused
  `MaxRefusalsPerTick` times ends its tick and leaves the other rows for the
  next. That is `TickIsOver`, but with one event the run never leaves a second
  row behind. Two days hold a retention window and its far side, and one fault a
  crash or a lost answer at any point; more of either, and more events, are the
  proofs' business.
- Nodes of the id service do not interact, so one is enough; two replicas are a
  holder and its successor. With a TTL of 2 and a margin of 1 there is a tick in
  which a holder is fenced and its key is alive, and three ticks reach the one in
  which the key is gone and its successor has taken over.
- A family of refresh tokens needs three: one spent, one live, one of another
  family. Users do not interact: every lock is per user.
- Reindex runs compete in pairs for one lock alias; a third would meet what a
  second left. Pages hold one row, so a run is interrupted between rows.
- Two lookups of one process meet in the single flight and in the shared read;
  across processes they meet only in Redis, where the lock's lease may lapse.
- A setting of CheckoutTiming is tried at, below and above each bound.

The deadlock check is on in `inventory` and `payment`. The others may really
stop, when the order is done, the process has exited or a bound is used up.
`SYMMETRY` is used where no liveness is checked, and in `process` for the requests and
keys of the gate: no temporal property speaks of the gate, and no other part holds one
of them.

### Fairness

- CheckoutSaga: Temporal runs workflow tasks and retries activities without
  limit. A payment call goes on or stops; each of its steps, repeated by the
  retries, succeeds at some point (strong fairness: a fault can always happen once
  more, but not for ever). Nothing is assumed of the buyer, of webhooks or of
  cancel requests.
- Messaging: the relay polls on an interval, BullMQ hands out waiting jobs and
  checks for stalled ones, a delivery that runs goes on. Nothing is assumed of
  operators or sweeps. `prepare` may fail each time: the property then says the
  job is failed, which is visible.
- SessionEpoch: the reconciler runs on a timer. Nothing is assumed of the request
  that committed an epoch and may die before it publishes, nor of verifiers.
- Media: signed URLs and rows expire, and the sweep is a timer.
- ServiceProcess: the supervisor and the drain go on, requests end or their
  clients leave, activities and jobs end. Faults are bounded, so that the end of
  a drain never rests on one of its timeouts.

The other runs state safety only and assume nothing.

## What the models leave out

- Inventory, in TLC: no restock meets the clamp at `Int4Max`, as `MaxVersion` stops the
  admin writes that would fill the row after its commit. The clamp is in the model, and
  what is said of it is the proofs'.
- Payment: intents in `processing`; the pre-saga `/pay` rows; webhook events of
  sessions no header owns, which are only logged. `requires_payment_method` counts
  as cancelled, and the three success outcomes of cancel are one. A session whose
  insert loses never leaves the service, so it does not exist in the model.
- CheckoutSaga: one order. Temporal's retention of closed runs, and an operator
  who fails or cancels a workflow. The `ERROR` outcome of a Try is a timeout.
  `AMOUNT_MISMATCH` at the saga cannot be reached, as `decideAuthorization`
  rejects such a hold first. A `paymentAuthorized` signal that arrives while the
  saga is `RESERVING` is ignored, as in the code; the order then expires and the
  hold is voided. The REST layer answers a repeated cancel from a `CANCELLED`
  row; "confirmed" here is the answer of the update.
- CheckoutTiming: timers of a running process are punctual; what a process that
  was down does late is in CheckoutSaga. Rules on the invariant checker's window,
  the retry cap and production-only settings fix no instant of an order.
- CheckoutGate: one user, as scope and lock are per user. The 422 of a reused
  key with another body changes no state. The sweep of a key does not meet a
  running request of that key: its TTL is a day. `CONFIRMING` counts as `PENDING`
  (both are in flight).
- Messaging: rows without a route, malformed envelopes and the `attempts` column
  of the outbox (visibility only). One relay: `SKIP LOCKED` keeps relays on
  disjoint rows. `--force` is used as its message says, after checking that the
  event was not applied. The count limit of the failed set (10 000) would only
  shorten the week. A tick, a delivery and a replay take less than a day; how long
  a row stays unpublished or a job waits is not limited.
- NodeLease: one fault of suspend, clock step and lost keyspace per behaviour. A
  write that timed out lands before its client's next request on that node
  (`LateWrites = FALSE`). A lost keyspace keeps revisions growing.
  `MaxFloorAhead <= FenceMargin` is assumed of the clocks: two replicas whose
  clocks are further apart than the margin can collide.
- Sessions: access tokens do not expire and a denylisted one is accepted, which
  only makes the properties harder to keep. SessionEpoch: a key is not evicted while
  an older publish is in flight. The denylist of single tokens and
  `requireVerifiedEmail` are filters that keep no state of their own.
- LayoutPin: a process that could not read the pin serves by design;
  `PinHolds` speaks of databases no such process wrote to.
- CatalogSearch: one category, so products do not move between categories; that
  is CatalogAdmin's. It is archived at most once. A page of the fan-out is bumped
  and read in one step: an edit in between has an event of its own, and an archive in
  between might as well have come before the bump. A run that died takes no further
  step. A bulk resolves its aliases once, as Elasticsearch does.
- CatalogAdmin: texts and amounts are 0 or 1; the order of images is data. The
  category's name is no part of `Projection`: a renaming bumps the products from its
  own event, which is CatalogSearch's.
- CatalogCache: a lookup that could not read the generation may answer the value
  of before; eviction of the generation counter is excluded; a bump that was lost
  heals by TTL; envelopes that do not decode are misses.
- Media: image positions; a second PUT of other bytes after the confirmation. A
  confirmation refused because the object is missing or wrong is one not taken.
- ServiceProcess: a request that is shed changes nothing. A handler whose client
  is gone is not awaited, as in the code. Rate limits are counters of a library.
- Logging, metrics, tracing, DTO validation, error mapping everywhere.

### Not modelled

The id codec (packing of bit fields), the internal contracts (shapes of HTTP
bodies), the gateway and deployment configuration, the seeds and load tests, the
read-only listings and the schema declarations as such. They keep no state a
property could be about.

## Observations

What the code does where a comment or a reader may expect otherwise; none is
excluded by accident.

- `dead-letter.ts` says a lost move "costs visibility, not the message". The
  failed set, the only place left that has the event, drops it after a week.
  `AppliedOnce` says what holds: a failed event that was not applied is in a queue
  until its failed job ages out.
- A claim is swept by its age. `sweep-inbox.ts:49` takes the retention of the failed
  job for the horizon it has to clear, but that starts when the job fails: a job handed
  back after a lost acknowledgement, or a row whose publish landed but whose mark was
  rolled back, waits for as long as the backlog or the outage lasts. The run
  `messaging_backlog` applies such an event a second time. At the defaults (30 days of
  inbox, 7 of failed jobs) that takes 30 days of waiting, or 23 and a retry.
- Nor does a failed job bound the redelivery: `queue-options.ts:4` calls
  `REMOVE_ON_FAIL_AGE_SEC` the longest a failed message can still be re-run, and
  `RUNBOOK.md:351` says "A failed job is re-runnable for exactly that long". The age
  counts from the last failure: a job whose event was applied (the answer was lost) and
  that is retried in place every few days, each time failing before its claim is looked
  at, outlives the claim, and the next retry applies the event again. `AppliedOnce`
  excepts the events of these two kinds (`backlogged`, `retriedLate`), and only these:
  without the first TLC refutes it on the run's instance, without the second on one of
  three days, two faults and three failures.
- `replayOne` re-reads the dead letter so as not to delete "a fresher diagnosis",
  but the read and the removal are two calls and the removal goes by id.
- `archiveCategoryIfEmpty` counts on "the FOR SHARE every product write takes on
  its category". A PATCH of the status alone takes none, so it can activate a
  product under a category that is being archived. The archive then hides the product
  without a bump or an event, although `catalog.schema.ts:51` says that every write
  that changes the search document bumps its version: one version has two documents.
  If a worker indexed the product before the archive committed, it stays in the search
  results, which are filtered by the document's status alone, until its next write, a renaming of the category or a reindex (run
  `catalog_archive`). The listings read the database and hide it. `CatalogHolds` and
  `SearchConverges` except the versions this happened to (`stranded`), and
  `CatalogHolds` the products as occupants of the archived category (`reopened`).
- Two requests that issue links of one kind can retire each other's link before
  either is mailed; then none works and the user asks again. A crash between the
  consumption of a link and its effect spends the link.
- A crash between the revocation of a stolen family and the bump of the epoch
  leaves the thief's access token alive until it expires.
- `MAX_CART_LINES` is checked before the upsert: concurrent adds pass it together,
  by one line each at most.
- `idempotency.interceptor.ts:136` says that after a failed clean-up "every retry
  now 409s until IDEMPOTENCY_TTL_MS"; the 30 s lease lets a retry reclaim the key.
  And `sweep-idempotency-keys.use-case.ts` fears "a second order" from an early
  sweep; the key on the order row prevents it, as `OneOrderPerKey` shows.
- The reaper measures the age of an order from its placement, so a run it starts
  is always past the budget of its Try: it rejects the order and never reserves.

## Proofs

Eight modules of proofs, for every value of the constants that the named ASSUMEs
admit (TLC evaluates these on the instances too). In each of them the property a
run checks is not inductive; what is proved is the invariant named below, of which
it is a consequence. Each invariant was checked by TLC on the run's instance
before it was proved (the saga's on two smaller ones). A step lemma per action (`...Keeps`) shows that the action
preserves it; the last lemma goes through the disjuncts of `Next`.

**StockTransactionsProofs**, about Inventory: `StockIsConsistent` (`StockInv`),
`NeverOversold`, `HoldsAlwaysAccounted`, `TypeCorrect`, `AnswersAlwaysTrue`,
`UnitsAreConserved`. That `reserved` can be decreased by a commit or a release
needs `reserved` to be at least the quantity of the line (`HoldsAccounted`), and
that needs every line to be in the state of its header (`LinesFollowHeader`), as
the fence looks only at the header. The units of a status form a finite set of
pairs, so a line that enters or leaves a status changes its cardinality by exactly
its quantity (`UnitsEnter`, `UnitsLeave`, `UnitsStay`); the same lemmas give the
conservation of units.

About StockTransactions: `TransactionsAreSafe`
(`TxInv` beside `StockInv`), `TransactionsAreAtomic` (it implements Inventory),
`TransactionsNeverDeadlock`, and through the refinement the four properties of
Inventory for the interleaved statements. The locks are exactly what the
transactions in flight have written (`LocksMatch`), so what a transaction found
true of a row it locked stays true until it ends (`Claims`): its commit is then
one step of Inventory, and every statement before it a stutter. No deadlock:
lines are taken in ascending order of variant (`Ascends`), so of a finite set of
transactions that wait, one waits for the highest line, and its holder is not
waiting (`NoCycle`, by well-foundedness of the sets of transactions above one).
Assumptions: finitely many workers, variants are numbers (the order of their ids).

**PaymentProofs**, about Payment, for any number of attempts, calls and faults:
`PaymentIsConsistent` (`PaymentInv`), `OneAttemptIsLive`, `HeaderAlwaysTrue`,
`KeysAreKept`, and the action property `GoodHoldsAreKept`. The invariant has three
layers. Rows are numbered in order and only the last may be active (`OneActive`),
and what each says of Stripe is so (`RowsAreTrue`): a retired row's session is
expired or its hold gone, so money can only be at the active one. The header and
the history of recorded holds fit them (`HeaderFits`, `RecordedOnce`: once a hold
was recorded no payment is pending, which is why an insert, a second recording and
a capture cannot meet). And what every call has read is still so when it acts
(`CallOK`, by where it is): a cancel that expires or voids works on the last row
of a closed order (`Closed`, after which no row is added), an `open.insert` that
replaces a payment found its session expired, a stray about to be voided is gone
already, a settle knows a recorded hold. `Grows` is what no step undoes, and
`CallKept` that whoever does not move keeps what it relies on, so each action is
looked at for the data it writes and the one call it moves.

For whoever commands the participant, `StepsKeep`, `FamilyKept`, `NoChargeKept`
and `NoCancelKept` say how it moves: a call stays in the family of the command it
was made for (`Capturing`, `Cancelling`); with no capture asked for nothing is
captured; what was answered stays so, and once `CANCELLED` was answered nothing of
the order can take money any more (`NothingLive`).

**CheckoutSagaProofs**, about CheckoutSaga, for any number of attempts, calls,
faults and deliveries: `SagaInvariant` (`SagaInv`), `OnlyServedAreCharged`,
`ClosedStaysConsistent`, `DeadOrdersAreFree`, `EventsToldOnce`. A request of an
activity that is over can still be executed, so the state of the order alone says
little; what counts is which requests were ever made and what is still owed.
`SagaInv` puts the order in one of nine phases (`Phase`), each naming its tasks,
the kinds of request that may linger (`sent`) and the stock. A dead order
(`Doomed`) died in one of three ways: it was never committed, so no commit was ever
asked for; its commit was refused, since the hold had lapsed, so the stock is
`RELEASED` for good; or its capture was refused, so nothing of the order is live at
Stripe and the restock is owed until it is done. Beside the phase: no money moves
that was not asked for (`MoneyInv`), a call somebody waits for is of the kind asked
(`Callers`), every compensation owed has an id of its own in `pending` and so a run
cannot end before it (`Ids`), a cancel is confirmed only after its compensations
(`Cancels`). Payment enters through PaymentProofs (`PP`), whose lemmas are used for
the calls the saga starts; Pay and PP are the same module over the same variables,
which the `Same...` lemmas state.

**OrderServiceProofs**, about CheckoutGate: `GateIsSafe` (`GateInv`),
`OneOrderPerKeyHolds`, `PendingCapHolds`. What makes the order of a key unique is
the order row: it carries its key from its creation until it is rejected
(`Carries`), and two never carry one key (`KeysUnique`, the unique index). Answers,
frozen key rows and requests about to replay name only that order. The leases of
the key rows play no part, which is the point: they can lapse and be stolen.

About ServiceProcess: `NothingEverLeaks` and `AlwaysDrainsBeforeTeardown`
(`ProcessInv`). Each step of the shutdown leaves behind what it waited for, or
notes in `late` what outlasted it: a worker that runs implies that the stop was not
awaited, or has not begun (`ActivitiesDrained`, `QueueDrained`), and the supervisor
has a connection exactly from its connect to its release (`OneConnection`). The
shedder's count is the cardinality of the open responses (`RequestsCountedIn`).
About OutboundCall: `BreakerAlwaysTells` (`BreakerInv`): without a fault nothing
ever failed that counts, so the circuit is closed or shut down. About
CheckoutTiming: `TimingAlwaysHolds` (`TimingInv`), for every setting of `Settings`
and every instant: `RulesGive` and `AttemptsFit` are the arithmetic that the boot
checks were written for, `RunInTime` and `AttemptInTime` what it gives a run and an
attempt at each of their states. The attempt to prove it for all settings showed
that an earlier version let an attempt call api-internal, which no activity does.

**MessagingProofs**, about Messaging: `DeliveryIsConsistent` (`OnceInv` with
`MailsFollow`) and `EffectsAreAppliedOnce`, with nothing assumed of the relay, the
workers or the operator. An event is on time (`OnTime`) as long as it was neither
backlogged nor retried late. Its claim dates from a day it was applied; once the slack
between the two retention windows is over, nothing but a retry of a job that failed
within it can deliver the event again (`Settled`), and when the claim may be swept
that retry would be late (`Unreachable`). This is the argument of
`assertClearsRedeliveryHorizon`, made good by the exception: the step that needs
`InboxRetention >= FailRetention` is the one where a day passes. That no event at all
is mailed more often than it was applied (`MailsFollow`) is counted: the deliveries
about to mail it and the mails sent are together at most the times it was applied.

**SessionsProofs**, about Sessions, AccountLinks and LayoutPin:
`SessionsAreConsistent` (`SessionInv`), `OneLiveLeafHolds`,
`TheftAlwaysEndsAccess`, `SessionsStayEnded`; `LinksAlwaysHold`, `PinAlwaysHolds`.
Two live tokens of a family are excluded because a rotation spends the one it
replaces under the user's lock; a family whose theft is known, or is about to be
told by a request that has committed the revocation and not yet the bump, has no
live token (`TheftFreezes`), so no rotation can issue a newer access token.
A link is mailed only when it is the newest of its kind and the others were
retired, and a request that applies one has consumed it alone (`RequestsCarry`).
A process that lost the race for the pin reads a pin that is there (`PinIsKnown`).

**StorefrontProofs**, about SessionEpoch: `EpochsInOrder` (`EpochInv`),
`RevocationEffective`, `EpochsTyped`. A published key never goes down (`Raise`), so
`AnsweredIsEffective` could only fail where there is no key: the next publish,
whoever makes it, then decides. `EpochInv` therefore says that while the key is
missing nothing on its way to it is older than the last answer
(`NothingOlderInFlight`), that no answer is ahead of the row (`AnswersCommitted`),
and that a verifier's epoch is no older than the answers given when it began
(`LooksRecent`). The step that needs the guard of `KeyLost` is the only one where a
key disappears.

About CatalogCache: `CacheAlwaysServesWrites` (`CacheInv`). A value that may still
be served is `Recent`: it holds every write that a lookup with its key waits for,
and at the generation of now every write whose bump was taken. Entries, the values
lookups carry to a store, and the reads they share are recent (`Stored`, `Carried`,
`SharedReads`), because whoever reads the source took its generation before. The
generation counts the bumps (`BumpsFollow`), so a bump makes every earlier key old.

About Cart: `CartAlwaysHolds` (`CartInv`). A line that a request was let in for
takes its place before it is written (`Coming`); each request was let in beside
fewer than `MaxLines` lines, so lines and coming lines together exceed the cap by
at most the other requests (`RoomKept`).

About CatalogAdmin: `CatalogAlwaysHolds` (`AdminInv`). A transaction that names a
category holds it live and keeps archives and renamings out (`SharesLive`); an
archive that has locked a category found it empty, and it stays so until the commit
but for the products that were activated by a PATCH that names no category
(`ArchivesEmpty`). What was seen last at a version is what is public of the
product at it (`VersionsFollow`), as every commit that changes that raises the version
or, being an archive, has found the product reopened and strands the version.

About Media: `ImagesAlwaysHaveObjects` (`MediaInv`). What a sweep has claimed leaves
`SWEEPING` only with its row (`ClaimHeld`), so no confirmation or attachment can
count on bytes that the sweep is about to delete (`Uploaded`, `Linked`), and an
object without a row is one whose upload landed after the claim (`NoOrphan`).

About CatalogSearch: `SearchAlwaysConverges` (`SearchInv`), for any finite set of
products and any page size, workers, runs and faults. `SearchConverges` looks only at
quiet states, so the invariant says what holds on the way there. The index that
serves has each row as it is, or something still pending will bring it (`Current`):
the product's event, a rename whose fan-out has not passed the product
(`Renaming`), or a delivery that is about to write that version to that index
(`Sends`). The index a run is filling has each row that the run has read or that was
written since (`Filled`), because writes go to both aliases; so the swap, or a late
one, hands over an index that is `Current` (`Rebuilt`). That a write refused for its
version loses nothing is `AllShow`: whatever carries a row's version, in the engine or
on its way, shows that row as it is, but for the name during a rename, which raises the
version of each row it comes to, and for what is public at a stranded version. And one index serves while at most one other is locked
(`OneAlias`), a swap takes the alias from an index that had it, and only indices
without an alias are deleted (`RunsKnow`). A page ends the fill when it is short, so
the proof needs that a row beyond a page makes it a full one (`PageIs`).

**NodeLeaseProofs**, about NodeLease, for any number of replicas, nodes, leases and
ticks: `AlwaysOneMinter` (`TenureInv`) and `ServiceIsIdMint` (`IdInv` beside it).
A tenure is a node, an etcd lease and the time its clocks were read, which is before
etcd was asked. As long as that time and the TTL are not over, the key stands in
etcd at least until then, or was lost with the keyspace and the lift waits for it
(`TenuresKept`); so of two tenures of a node one is over (`OneAtATime`), and a
holder whose tenure is over is past its fence, as at least one of its two clocks
has counted the time (`OverIsFenced`: a suspended host stops the monotonic clock
and a step moves the wall, and a behaviour has one fault). Ids: a holder in its
tenure stamps above every id of its node (`MintsAbove`), and the ids of a node stay
at or below the node's floor (`IdsUnderFloor`), which only rises while its owner
stands (`FloorRises`); the next owner starts from the floor. While the floors are
lost the bound is the time of the lift.

`ServiceIsIdMint` has two hypotheses, neither of them about the code. A txn that
timed out lands before its client's next request (`~LateWrites`, the bound of the
run as well): one that lands later can lower a floor its successor raised. And
`LittleAhead`: after the keyspace was lost, ids are at most the fence's margin ahead
of true time. A floor further ahead is handed back, but a process also starts above
what it stamped before (`retiredLastMs`), which no check bounds: if it lost its node
and acquired one again and again within a millisecond, its lead would grow, while
the floors the lift writes are computed from the time alone. Nothing but the pace of
an acquisition rules that out. Without a lost keyspace `LittleAhead` says nothing;
with one TLC checks `FreshIds` on the run's instance without it.

What TLC found for the proofs: every invariant above was checked on the instance of
its run first, `TenureInv`, `IdInv` and `LittleAhead` on 1.5 million states.

Only model-checked:

- liveness (`RunsSettle`, `Delivered`, `Reclaimed`, `ProcessSettles`,
  `RevocationReaches`): fairness and ENABLED are beyond the prover.

## Plan

Done: all components but those under "Not modelled"; the proofs above.
