# NovaMart in TLA+

NovaMart is a marketplace: a NestJS API (`services/commerce-api`), a worker
(`services/worker-service`) and a PostgreSQL schema that holds most of the rules
(`supabase/migrations`). This directory holds the models of the parts where money and stock
can go wrong, the TLC configurations that check them on small instances, and proofs, checked
by TLAPS, of the properties that matter most for every size of the system.

All paths below are relative to the repository root. `checkout.service.ts` and its like
stand in `services/commerce-api/src/modules/<name>/`, the SQL files in
`supabase/migrations/` (the prefix 20260823 is dropped where it is not ambiguous).

1. The system and its parts
2. The modules and the code they stand for
3. What the runs check, their bounds, the fairness assumed
4. What is proved
5. What the code's comments and documents say and the code does not keep
6. What is only model-checked, and what is not modelled
7. The plan

To check a run: `tlc -config MCPayments_order.cfg MCPayments.tla`. To check the proofs:
`tlapm Payments_proofs.tla`.

## 1. The system and its parts

Every request runs in its own transaction or sequence of transactions on one PostgreSQL
primary, at READ COMMITTED (`infrastructure/database/database.service.ts`). There is no state
in the API processes that a property depends on, and one piece of state in Redis, the cached
principals. So concurrency is between *transactions*:
each is atomic and sees what committed before each of its statements, and between two
transactions of one request every other request, job and consumer may act. Wherever a service
reads outside the transaction that writes, or calls a provider between two transactions, the
models have a step boundary; where a row lock is held, they have a lock.

Components, their state, their operations, how they meet and what makes them correct:

| component | state | operations | hard behaviour | correct when |
|---|---|---|---|---|
| **Stock engine** (`1000_inventory.sql`, `1100_inventory_functions.sql`, `inventory.service.ts`) | balance rows with five quantities, the append-only ledger, holds, adjustments, transfers | reserve, release, confirm, consume, sweep; receive; request, approve, reject an adjustment; create, dispatch, receive a transfer | retries under one key that both find nothing to replay; the sweeper against confirmation; approvals decided on an old read; batches smaller than the backlog | never oversold; reserved units are those of the live holds; the ledger replays to the balances; a hold ends once; an adjustment applies once |
| **Outbox and dispatcher** (`0300_platform.sql`, `outbox/dispatcher.ts`) | event rows with status, attempts, lock; consumer offsets | claim a batch, run consumers, complete, fail, dead-letter, requeue stuck rows | a slow worker and its successor run the same event; crash between claim and settlement; writes by id after the lock was lost | effects once; published means consumed; every event settles |
| **Job runner** (`jobs/scheduler.ts`) | RUNNING rows, advisory locks, timers | begin, lock or skip, run, record | a process killed mid-run; a lost connection whose statement goes on at the server | one run at a time; jobs keep running |
| **Checkout** (`checkout.service.ts`) | sessions, their item and price snapshot, the hold, the order | start, update, rebuild, placeOrder, expiry job | two transactions per request with reads between them; release against confirmation; the view that counts own holds as gone | units conserved; one order per session; the order has its stock and its price; sessions and holds end |
| **Payments, refunds, cancellation** (`payments.service.ts`, `orders.service.ts`, `1500_payments.sql`) | intents, attempts, transactions, webhook events, refunds; the order and its items; the provider's payments | createSession, webhook, client verification, recordSuccess, recordFailure, cancel, processRefund, applyRefundOutcome | webhooks of several payments late, twice and out of order; a request that dies after it claimed an event; cancellation during capture; two attempts numbered alike | paid once and only by a capture; no outcome revives an order; a refund is for what was cancelled |
| **Request idempotency** (`common/idempotency/idempotency.service.ts`) | key rows: fingerprint, status, response, locked_at | claim, look again, replay, take over after a minute, complete, fail; the pruning job | takeover of a slow request that then finishes; a FAILED key claimed by two retries at once; a lost closing update | one effect per session, the same answer to every retry, nobody waits for ever |
| **Order item lifecycle** (`1400_commerce_orders.sql`, `seller.service.ts`) | item status, its history, the order's derived status | guarded transitions by kind of actor | a chain of stages of which one has no actor; a seller's cancellation beside the customer's | only listed transitions; the order follows its items |
| **Shipments and tracking** (`fulfillment.service.ts`) | shipments, their items, tracking events | create in three steps around the carrier, label, tracking, carrier webhook | items that move while the carrier is asked; events out of order, ranked against a status read before the transaction | a shipment and its items agree; a parcel without a setback arrives |
| **Last mile** (`delivery.service.ts`) | assignments, OTP challenges, attempts, proofs, cash collected | request OTP, attempt, proof, collect | the count of wrong codes rolled back with its transaction; proof without collection | delivered only with proof; cash collected once |
| **Returns** (`returns.service.ts`) | requests, items, inspections, refund rows | create, decide, receive, inspect | eligibility read before the transaction; an approval no step accepts | an item returns once; the refund follows the inspection |
| **Finance** (`finance.service.ts`, `finance.consumer.ts`) | seller ledger, settlements and their items, payouts, invoices | post earnings and reversals, settle, approve, pay, adjust | overlapping periods; a settlement regenerated after approval; a reversal before its earning | an entry is settled and paid once |
| **Pricing and money** (`packages/domain`, `0200_shared_types_and_functions.sql`) | none | price a cart, allocate a discount or tax in proportion | rounding, and the same function written twice in two languages | shares add up; both agree |
| **Cart** (`cart.service.ts`) | a cart per user, its lines, saved items | add, update, remove, save for later, move back; checkout reads and empties it | two devices, each statement its own transaction; retries after a crash | nothing is lost by requests that do not overlap |
| **Notifications** (`notification.consumer.ts`, dispatch job) | QUEUED, SENDING, SENT rows | enqueue, send, retry | a job killed while sending | sent at most once per row, or retried |
| **Search indexer, analytics** (`worker-service/src/consumers`) | documents; counters | consume | redelivery | as consumers of the outbox |
| **Coupons and promotions** (`1200_pricing.sql`) | limits, redemptions, usage counts | quote, redeem | the limit is read at the quote and not at the redemption | used no more often than allowed |
| **Listings, buy box, sellable view** (`2300_views_and_buybox.sql`, `seller.service.ts`, `admin-seller.service.ts`, `catalog-admin.service.ts`) | a listing per seller and product, the winner flag, the seller's and the product's status | activate, deactivate, suspend, moderate, change of stock; elect | what a seller may do is read before the transaction that does it; an election that meets a unique index | what is suspended is not sold |
| **Seller onboarding** (`seller.service.ts`, `admin-seller.service.ts`) | a seller's status, onboarding step and what was handed in | register, hand in, submit; reject, suspend | checks before the transaction that acts on them; a step read and written without a lock | what is under review is complete |
| **Principals and their cache** (`auth.service.ts`, `auth.guard.ts`, `redis.service.ts`, `identity-admin.service.ts`) | role grants, account status, a key in Redis per user | resolve, remember, admit; grant, revoke, evict | a request that read the grants before they changed and caches them after the eviction; Redis away when it is to forget | the cache follows the grants, at once when nothing overlaps and in the end always |
| **Reviews** (`reviews.service.ts`, `2200_commerce_social.sql`) | reviews, votes, reports; the seller's rating, the product's summary, the counts of a review | create, vote, report, moderate | triggers that count in one snapshot and write in another's wake | a shown number is what there is; a review with enough reports is down |
| **Catalogue reads, search, identity, questions, support, risk, the rest of administration** | rows of one owner | reads, single-row writes | little: unique keys and row security decide | out of scope, see section 6 |
| **Tokens and row security, rate limits, storage, assistant, provider adapters, shared packages, apps, seeds** | none a property depends on | I/O | none | out of scope, see section 6 |

How they meet:

- Checkout calls the stock engine (`reserve_stock`, `release_reservation`,
  `confirm_reservations`) inside its own transactions; the holds of a session share an
  idempotency key, and the order takes them over by `reference_id`.
- placeOrder leaves an order that waits for payment with its holds CONFIRMED. Payments and
  cancellation act on that order, its items and its holds, through the status triggers of
  `1400_commerce_orders.sql`.
- Every service writes outbox rows in the transaction of the change they tell of. The worker
  delivers them to the search index, notifications, analytics and finance.
- The cart is what start reads; placeOrder deletes the ordered lines. What a cart may hold and a
  quote may contain is decided by the view of sellable listings.
- Shipments, proofs and the seller move order items; returns move them on; one trigger holds
  all of them to one table. The events of delivery and return reach finance through the outbox.
- Every request passes the guard with a principal from the cache; registering and suspending a
  seller, granting and revoking a role evict it after their commit.
- The worker's jobs sweep holds (every minute), requeue stuck outbox rows (every minute),
  expire sessions (every five minutes), reconcile balances, dispatch notifications and prune
  idempotency keys. All of them run under the job runner, so all liveness below rests on it. A worker process
  dispatches and runs jobs; a kill takes both.

## 2. The modules and the code they stand for

| module | stands for | checked by | proved in |
|---|---|---|---|
| `StockPromise` | abstract: promises of stock are made when the units are there, and end once | as the property `ImplementsPromises` of `Inventory` | refinement in `Inventory_proofs` |
| `Inventory` | the stock engine | `MCInventory` | `Inventory_proofs` |
| `Outbox` | outbox table, dispatcher, requeue job | with `WorkerService` | `WorkerService_proofs` |
| `JobScheduler` | job runner | with `WorkerService` | `WorkerService_proofs` |
| `WorkerService` | a worker process: `Outbox` and `JobScheduler` together | `MCWorkerService` | `WorkerService_proofs` |
| `Checkout` | start, update, rebuild, placeOrder, sweeper and expiry job | `MCCheckout` | `CheckoutAndPricing_proofs` |
| `Payments` | payment, refund and cancellation of one order | `MCPayments` | `Payments_proofs` |
| `OneShot` | abstract: however often a request is sent, it is done once and answered alike | as the property `ImplementsOneShot` of `Idempotency` | refinement in `IdempotencyAndStorefront_proofs` |
| `Idempotency` | idempotency keys around placeOrder | `MCIdempotency` | `IdempotencyAndStorefront_proofs` |
| `OrderItem` | the transition table of order items and its trigger | by its users | with its users |
| `Fulfilment` | items, shipments, tracking, codes and proofs | `MCFulfilment` | `FulfilmentAndReviews_proofs` |
| `Returns` | return requests and their refunds | with `Aftersale` | `Aftersale_proofs` |
| `Settlement` | the seller's ledger, adjustments, settlements | with `Aftersale` | `Aftersale_proofs` |
| `Aftersale` | `Returns` and `Settlement` joined by the finance consumer | `MCAftersale` | `Aftersale_proofs` |
| `Money` | integer arithmetic of money: rounding and sharing out | by `Pricing` | `CheckoutAndPricing_proofs` |
| `Pricing` | computePricing and what rebuild loads for it | `MCPricing` | `CheckoutAndPricing_proofs` |
| `Listing` | listings, the sellable view, suspension, the buy box | with `Storefront` | `IdempotencyAndStorefront_proofs` |
| `Cart` | the cart and what checkout does to it | with `Storefront` | `IdempotencyAndStorefront_proofs` |
| `Storefront` | `Listing` and `Cart` at the same time | `MCStorefront` | `IdempotencyAndStorefront_proofs` |
| `Reviews` | reviews, votes, reports, decisions of the staff and the numbers shown for them | `MCReviews` | `FulfilmentAndReviews_proofs` |
| `Access` | a user's grants, his account, the cached principal and the guard | with `Onboarding` | `Onboarding_proofs` |
| `Onboarding` | registering a seller, handing in, submitting, deciding | `MCOnboarding` | `Onboarding_proofs` |

Each module names in its comments the function an action stands for, and why it is atomic or
split. `PROJECT.json` maps every definition to its lines. A definition whose name begins with
`Mut` is the definition below it with a plausible mistake in it; it is used only to show that
a property notices the mistake.

**Inventory.** A database function is one transaction under the row locks it takes, hence one
action. `reserve_stock` is two (`ReserveCheck`, `ReserveInsert` / `ReserveRefused`), since it
looks for a replay before it locks; `approveAdjustment` is two (`ReadAdjustment`, then
`ApproveAdjustment` / `RejectAdjustment` / `ApprovalRefused`), since it reads before its
transaction. `balance` is `warehouse_inventory`, one row per unit and warehouse; `ledger` is
the running sum of `inventory_ledger`, which is what `reconcile_balances` compares with the
balances; `hold` is `inventory_reservations` with `expires_at < now()` as a flag. What a
transaction does to the quantities of a row is a function of the five buckets (`Reserving`,
`Selling`, `Dispatching`, ...); `Move` applies it to balances and ledger and is disabled where
a CHECK constraint would reject it. The ledger row of an adjustment is written from its own
expressions (`AdjustLedgerDeltas`), as in the code. Several holds released in one transaction
(a cancellation, an expired session) are one action.

**Outbox.** `Claim` is the statement of `claim_outbox_batch`; `Dispatch`, one `RunConsumer` or
`ConsumerThrows` per consumer, and `Finish` are the steps of `dispatch`. `Abandon` is a worker
that dies, `WorkerStalls` one that outlives its visibility timeout and goes on: it completes
or fails the row by id although another worker has it. `ready` is `available_at <= now()`,
`stale` is `locked_at` older than the timeout. Payloads are reduced to whether they are
malformed and who wants them.

**JobScheduler.** One `phase` per replica and job: waiting for its timer, row inserted,
running, done. `Disconnect` and `Kill` leave a transaction on the server (`orphan`) that keeps
its advisory lock until `OrphanEnds`. `RecordLost` is the closing update that fails twice.

**WorkerService.** The two share processes and meet in one job: `RunJob` commits the
transaction of a job and, when it is the requeue job, that transaction is `Outbox`'s `Requeue`;
`KillWorker` ends a run and abandons the batch the same process was dispatching. On its own,
`Outbox` takes for granted that stuck events are requeued; here that depends on the scheduler,
which a lost end of a run can stop for good. What the two do otherwise is theirs.

**Checkout.** A request is a process with a position and what it has read so far (`req`).
start is `Open`, `Abandon`, then rebuild; update is `Change`, `Write`, then rebuild; rebuild
is `Resolve` and one of `Reprice`, `RepriceUnsellable`, `Reserve`, `RebuildFails`; placeOrder
is `Lock` (its checks, under the session's row lock) and `Place` or `PlaceFails`. The
parameter `late` of `Reserve` (and the set `late` in `Abandon`) is the hold a releasing
statement still saw ACTIVE in its snapshot although it is CONFIRMED by the time the row is
locked: `release_reservation` takes it all the same since `20260826100000`. Prices are not
computed here but in `Pricing`; a quote remembers the address and method it was computed for,
which is what the properties need. A session is for one unit of one listing, so that a session
has at most one live hold.

**Payments.** One order with its items at unit price, its payment intent, any number of
payments at the provider, which reports any amount of `Charge` for each. A webhook is
`Deliver` (the unique insert), `Fetch`, `FindIntent`, and one transaction (`RecordSuccess`,
`RecordFailure`, `RecordNothing`, `ApplyFails`); the client's verification is `Verify`,
`VerifyFetch`, `VerifyClaim` and the same transaction. Two outcomes recorded at once number
their attempt alike, and the unique index lets one commit: `Overlapping` and `Commit` end the
others. That loses a capture without any crash. processRefund is `BeginRefund`,
`CallRefund`, `SettleRefund` / `SettleFails`; a refund webhook is `FetchRefund`,
`FindAttempt`, `ApplyRefundOutcome` / `RefundOutcomeFails`. `Cancel` is one transaction.
`held` is the set of items whose hold is still CONFIRMED.

**Idempotency.** Every statement on the key table is a step of a caller: `Claim` (the insert),
`LookAgain`, `Refuse`, `Replay`, `LookStale` (the select and what is made of it), `TakeOver`,
then `Run` (the handler's own transaction: placeOrder, which returns the session's order if
there is one), `Complete` and `Fail`, which write by key and not by claim. `RunFails`,
`CompleteFails` and `Die` are the faults; `Elapse` is the minute after which a claim counts
as abandoned, `Prune` the daily job. The abstract `OneShot` has two actions, a thing is done
and a caller is told of it; `outcome` is mapped to the sessions' orders.

**Fulfilment.** `AskShipment` (reads the items), `HandOver` (the carrier's number),
`MakeShipment` / `DropRequest` (the transaction) are createShipment; `ReadReport`, then
`RecordOnly`, `ApplyReport` or `DropReport`, are applyTracking, whose rank is compared with a
status read before its transaction. A shipment asked for and not yet written is a record with
status ASKED or HANDED. Codes are counted; the one with the latest time is the only one that
may prove a delivery. `Allocate` has no caller in the services: it stands for whatever
allocates an item, since without it nothing can be packed.

**Returns, Settlement, Aftersale.** `Ask` in two steps (eligibility, then the insert),
the decision, the receipt, the inspection and its refund are actions on one `request` per
return; `SellerMove` and `Deliver` act on the same items. `Settlement` has the ledger with the
settlement each entry names, the pins (`settlement_items`), and per period one settlement;
which entries a period's query finds is the constant `Selects`. `Aftersale` adds the finance
consumer: `ReadItem` and `PostEarnings` for a delivery, `ReverseEarnings` for a receipt. An
event that fails is still there and is tried again; that it is delivered at least once, and
its effect committed once, is what `Outbox` is about.

**Pricing.** The function is a chain of actions, one per stage, because the promotions of one
priority come in the database's order, that is in any: `ApplyPromotion` chooses among them.
`Money!Shares` is the *set* of ways in which a total may be shared out, since equal
remainders are compared as floating-point numbers.

**Listing, Cart, Storefront.** A cart request is a process (`req`) that runs its statements one
by one: `Enter`, find the cart, find the line, insert or update it. A listing is for sale as
the view says (`OnSaleWith`). A suspension locks the listings it finds on sale and is one
step; one that finds none commits later (`leaving`), and a listing may go on sale in between.
`alone` is a history variable: it says that a request overlapped no other of the customer's.

**Access, Onboarding.** A request is a process: it takes the principal from the cache, or reads
the account (`PROFILE`), then the grants (`ROLES`), and sets the key (`SET`); the guard admits it
(`GUARD`), and what it then does is at `IN`, and at `CREATE`, `WRITE`, `SAVE` or `SUBMIT` once
it has checked what it checks before its transaction. A change of the grants is
`GrantsBecome`; its eviction is one of `due` and is made (`Evict`), does nothing because Redis is
away, or is lost with its process (`EvictionLost`). `missed` is a history variable: an eviction
that was to be made was not, or a grant ran out, which evicts nothing. A principal that is
`old` was read before a change that has committed since. An account's status changes without an
eviction, as in the code. There is no approval, since approving never commits (section 5).

**Reviews.** A request is an open transaction (`req`): what it will commit, what it has counted so
far (`saw`), and which of those counts nobody has overtaken (`fresh`). A trigger's count and its
write are two moments, with a wait for the row between them: `WriteReportCount` after
`ReportReview`, `CountForSeller` and `WriteSellerRating`, `CountForSummary`, `CountStars` and
`Commit`, where the last write coincides with the commit. A vote is `Vote` and `Commit`. Row locks
are guards over the other requests (`RowFree`, `KeyFree`). What was counted is kept as a set;
averages, the weighted score and the stars are functions of it. `behind` and `putBack` are history
variables.

## 3. What the runs check

Deadlock is not checked in any run: every model may come to a state in which all is done
(all calls made, all events settled, all stock moved). Where something must still happen, a
liveness property says so.

| run | instance | shows |
|---|---|---|
| `inventory_stock` | 1 article in 2 warehouses, 2 holds, 1 key, 2 concurrent calls, 1 unit per line, sweeper batch 1; 1 adjustment, 3 staff, 1 transfer | `TypeOK` (the CHECKs), `ReservedMatchesHolds`, `OneHoldPerRow`, `LedgerReplays`, `TransitMatchesTransfers`, and that the engine implements `StockPromise` |
| `worker_events` | 2 processes that dispatch and run the requeue job, 2 events (one malformed), 2 consumers, 2 attempts, 2 failures of dispatch, 1 of a job, 1 kill; fair | `EffectOnce`, `PublishedIsConsumed`, `OneRunAtATime`; `SettledUnlessLost` and `JobsGoOn`: events settle and jobs go on as long as no end of a run is lost |
| `checkout_orders` | 2 sessions of one customer, 2 requests, 2 units, 3 calls, 1 crash; fair | `UnitsConserved`, `OrderTakesItsHold`, `OrderIsFinal`, `SessionsClose`, `HoldsEnd` |
| `payments_order` | 2 items, 2 payments of 1 or 2, 2 requests, 1 crash | `CapturedOnce`, `PaidIsCaptured`, `RefundIsOwed`, `DeadKeepsNoStock`, `OrderMovesOn` |
| `idempotency_once` | 4 callers, 2 keys, 2 bodies, 1 fault, 1 pruned row; fair | `ResponseIsOutcome`, `CallsAreAnswered`, and that the endpoint implements `OneShot` |
| `fulfilment_parcels` | 2 items, 1 shipment, 5 reports of every kind, 2 codes; fair | `ParcelMatchesItems`, `ProvedWithLastCode`, `ParcelsArrive` |
| `aftersale_returns` | 1 item of 2 units, 2 requests, 1 worker, 1 failure, 1 adjustment, 2 staff, 2 periods | `RefundedOnce`, `ReturnedIsReversed`, `PendingAddsUp`, `SettledByItsPin` |
| `pricing_quotes` | carts of 1 to 3 lines of 2 sellers, 6 sets of promotions, 4 coupons, 2 offers, 8 sets of charges | `ChecksAccept`, `SharesAddUp`, `PromotionsAddUp` |
| `storefront_cart` | 2 sellers, 1 seller's request and 2 of a customer at a time, 5 things asked for | `SuspendedSellsNothing`, `KeptUnlessOverlapped` |
| `storefront_suspend` | the same, 2 things asked for | `SuspensionGoesThrough` fails |
| `onboarding_access` | 2 requests at a time, 2 sellers, nothing, all but one or all handed in at first, 3 things asked for by the owner, the staff or the network; fair | `ReviewIsComplete`, `CurrentUnlessOverlapped`, `AccessSettles` |
| `reviews_shown` | 2 reviews, one of a delivered item, 2 users, 2 requests at a time, 4 requests, reports count from 2 on | `ShownIsTrue` |

**Why these bounds.** The hazards are races of two: a request and its retry, a request and the
sweeper, a worker and its successor, a webhook and the client's verification, two approvers. So
two of each actor are the least that meets them, and one failure is enough to break a protocol
that relies on none; the worker service has four, two of dispatch, so that a retry or a timeout
fails again before the dead letter, one of a job and a kill. Onboarding has three things asked
for: two requests that overlap and a decision, a revocation or an outage between them. Idempotency
has four callers: two copies of a request, one of the same body under another key, one of another
body under the same key. A carrier needs five reports to say each kind of thing once, in any
order. Quantities of one or two units are enough to have a row that is empty, one that has just
enough and one that has some left; two holds and a batch of one give a sweeper with more to do
than a sweep takes. Three staff are who asks for an adjustment and two who approve it. Two
requests about a review that overlap, one before them and one after, show a count that is
overtaken and the refresh that repairs it; with `FlagAt` 2 they reach the threshold (3 in the
code). Pricing needs three lines so that a remainder of one or two paise goes to some and not to
others. `MaxOnHand`, `MaxCalls`, `MaxFaults`, `MaxFailures`, `MaxKills`, `MaxPrunes`, `MaxCodes`,
`MaxEvents`, `MaxAsks`, `MaxStock`, `MaxQty` and the start states `HandedIn` are named bounds of
the models; only `MaxAttempts`, `BatchSize`, `Ceiling`, `FlagAt` and `MaxOrder` are parameters of
the code itself. Where a property is proved (section 4), the bounds no longer matter for it.

Every property is also run against a version of the model with one mistake in it, of the
kind someone could make in that code, and TLC finds it. Examples: the replay check of
`reserve_stock` knows ACTIVE holds only (breaks `UnitsConserved`); `Finish` publishes when one
consumer succeeded (breaks `PublishedIsConsumed`); `recordSuccess` trusts the order status it
read before its transaction (breaks `OrderMovesOn`); a failed key is taken over without a look
at its fingerprint (breaks `ResponseIsOutcome`); a shipment takes along items that are still
being packed (breaks `ParcelMatchesItems`); a settlement that exists keeps its first totals (breaks
`PendingAddsUp`); the second half of a tax is what the first leaves (breaks `ChecksAccept`).

**Fairness.** Only what the code's scheduling gives:

- *Outbox*: each replica polls in a loop (weak fairness of a worker's next step); `available_at`
  and lock timeouts pass. No failure is obliged to happen, and the
  number of them is bounded: with endless failures no retry protocol ends. In `worker_events`
  the fairness is that of both halves, and that the requeue job runs is not assumed but follows.
- *JobScheduler*: an awaited query returns and a timer fires; of several replicas some one
  gets its row in; `statement_timeout` ends what the server was at.
- *Checkout*: time passes, the two jobs run, a request that began goes on (or dies, which
  is a fault). Callers are free to stop.
- *Payments*: a request that began goes on; the provider repeats a webhook that was not
  taken. As a delivery needs a free handler, which comes and goes, that is strong fairness.
- *Idempotency*: a caller without an answer sends again and a request that began goes on (weak
  fairness of a caller's next step); a minute passes.
- *Fulfilment*: a report that was read is handled; a report that is no setback is repeated
  until it is taken (strong fairness, as a tracker must be free). Setbacks need not happen.
- *Onboarding*: a request that began goes on or dies; an eviction that is due is made or lost; a
  key expires after its minute (`CACHE_PERMISSION_TTL_SECONDS`). Nobody need ask for anything.

## 4. What is proved

For every value of the constants that the modules' assumptions allow (each module's ASSUME:
counts, prices and rates are natural numbers, tables hold finitely many rows, carts have lines,
`None` and `Nil` are not ids), that is for any number of rows, holds, callers, workers, replicas,
sessions, cart lines, promotions, payments, reports, returns, reviews, periods, sellers and
failures. Components that have no state in common share three of the proof modules.

| theorem | property | argument |
|---|---|---|
| `Inventory_proofs!TypeCorrect` | `TypeOK` | inductive with the next two (`Bookkeeping`) |
| `Inventory_proofs!ReservedIsHeld` | `ReservedMatchesHolds` | every action moves `reserved` by as many units as it adds to or takes from the live holds; `UnitsWithout` and `CardinalityOfLine` count them |
| `Inventory_proofs!NoDrift` | `LedgerReplays` | `Move` applies the same deltas to both; for an adjustment the two expressions are shown equal (`AdjustmentDeltas`) |
| `Inventory_proofs!OneHoldOfAKey` | `OneHoldPerRow` | inductive with `TypeOK`: the unique index guards the one action that adds a keyed hold, and no status leads back among the keyed ones |
| `Inventory_proofs!TransitIsOnTheWay` | `TransitMatchesTransfers` | a dispatch adds the units of its parcel to those on the way and an arrival takes them off; what other transfers have there is not touched (`OthersOnTheWay`) |
| `Inventory_proofs!StockIsPromised` | `ImplementsPromises` | a refinement: an insertion is `Give`, a release or sweep `Withdraw`, a sale `Keep`, whatever leaves the holds alone `Restock`, a confirmation a stutter. A row is not oversold since its open promises are its live holds (`OpenIsLive`) and those are reserved (`NotOversold`) |
| `WorkerService_proofs!OutboxTypeCorrect` | `TypeOK` | inductive |
| `WorkerService_proofs!EffectsOnce` | `EffectOnce` | inductive: offset and effect commit together |
| `WorkerService_proofs!PublishedMeansConsumed` | `PublishedIsConsumed` | with `Progress`: a worker that saw no failure has an offset for each consumer it has been through. It needs no lock on the event, which is why a worker that lost its lock does no harm |
| `WorkerService_proofs!AttemptsAreAccounted` | — | with `Budget`: the attempts made, one more if the event is there to be claimed again, and the failures left never exceed limit and failures together; a requeue spends the failure that left the row PROCESSING |
| `WorkerService_proofs!OneRun` | `OneRunAtATime` | with `Owned`: a run owns the RUNNING row, a running exclusive job and an orphaned transaction own the lock |
| `WorkerService_proofs!ServiceDispatches`, `ServiceDelivers`, `ServiceSchedules` | `EffectOnce`, `PublishedIsConsumed`, `OneRunAtATime` of the composition, and the attempts | every step of the service is a step of the dispatcher and its job or leaves the outbox alone, and the same for the jobs, so all that is proved of the halves holds of the whole |
| `CheckoutAndPricing_proofs!CheckoutTypeCorrect` | `TypeOK` | with `Busy`: a request under way is about a session |
| `CheckoutAndPricing_proofs!CheckoutConservesUnits` | `UnitsConserved` | one lemma per way a unit moves: back, taken, kept (`UnitBack`, `UnitTaken`, `UnitKept`) |
| `CheckoutAndPricing_proofs!CheckoutOrderIsFinal`, `CheckoutOrderTakesItsHold` | action properties | with `Placing` (a placement holds the row lock of a session without an order that is as it was checked), `Opening` and `OpenExist` (until start inserts its session nobody else knows it) |
| `CheckoutAndPricing_proofs!CheckoutSettledStands`, `CheckoutPlacementSettles` | — | `Settled` is inductive: whoever would release a confirmed hold or reprice a closed session had it in hand before the order, since `start` and `update` take none that is closed or has an order, and `placeOrder` refuses it |
| `CheckoutAndPricing_proofs!SharesAddUpTo` | of `Money!Shares` | the shares of what is shared out add up to it, for any lines, weights and amount: what is left over once all parts are rounded down is less than the number of lines |
| `CheckoutAndPricing_proofs!SharesFit` | of `Money!Shares` | no share is negative or more than its weight, of an amount the weights can bear: a line that gets a paisa on top leaves a remainder (`ToppedLeftSome`), so it had a weight and is not full, whichever of those with equal remainders are chosen |
| `CheckoutAndPricing_proofs!SharesAddUpTheorem` | `SharesAddUp` | with `QuoteInv`: by the stage of the chain, what has been shared out adds up and what has not is nothing; no line is discounted below zero, so weights stay natural |
| `CheckoutAndPricing_proofs!PromotionsAddUpTheorem` | `PromotionsAddUp` | with `Stacked`: as long as nothing exclusive was taken, no promotion reads what another one took, so in every order each takes what it would alone |
| `CheckoutAndPricing_proofs!ChecksAcceptTheorem` | `ChecksAccept` | from `QuoteInv` at the end of the chain, under `Moderate`, see below: the tax contained in an amount, cut in two halves that are rounded apart, stays below the amount (`TaxAtMostHalf`, `TaxAtMostThird`, `TaxFits`) |
| `CheckoutAndPricing_proofs!PromotionsCoverTheorem`, `QuotesAcceptedTheorem` | — | with `Singly`: while promotions are `Apart`, a line that a promotion can still reach has given nothing yet; then `Covered` need not be assumed of a quote |
| `CheckoutAndPricing_proofs!ExclusiveSuppressesTheorem` | — | with `OnlyExclusive`: while an exclusive promotion is to come, only exclusive ones have taken, from lines they claimed |
| `Payments_proofs!PaymentsTypeCorrect` | `TypeOK` | with the rest of `PInv` |
| `Payments_proofs!PaymentsCaptureOnce` | `CapturedOnce` | the CHECK on the captured total leaves room for one capture (`OneSuccess`) |
| `Payments_proofs!PaymentsPaidIsCaptured` | `PaidIsCaptured` | with `Knows` (what a request was told is still so), `Recorded` and `PaidOnRecord` |
| `Payments_proofs!PaymentsRefundIsOwed`, `PaymentsDeadKeepsNoStock` | invariants | inductive together with `RefundAsked` and `Totals` |
| `Payments_proofs!PaymentsOrderMovesOn` | action property | `OrderSteps`: the five ways an order's status or payment changes |
| `Payments_proofs!PaymentsFailureIsToBlame` | — | with `Told` (who was told that a payment failed was told the truth, since ends are final) and `Ends` (an order fails by such a failure only, a cancelled one has no item left), so without one `recordFailure` takes no hold and `recordSuccess` finds the order as it was read, paid, or without items |
| `IdempotencyAndStorefront_proofs!IdempotencyOneShot` | `ImplementsOneShot` | a refinement: `Run` of a session without an order is `Perform`, `Replay` and a closing `Complete` are `Tell`, the rest stutter; with the same invariant |
| `IdempotencyAndStorefront_proofs!IdempotencyTypeCorrect` | `TypeOK` | with the same invariant |
| `IdempotencyAndStorefront_proofs!IdempotencyResponse` | `ResponseIsOutcome` | with `Owns` (whoever is past the select works on a row of its own body) and `GotIsPlaced` (what it brings back is its session's one order), it does not matter who writes the row last |
| `IdempotencyAndStorefront_proofs!SuspendedSellsNothingTheorem` | action property | with `QuoteOnSale`: whatever a step of Storefront quotes, it reads of the view in that step, and the view asks for the seller's status |
| `IdempotencyAndStorefront_proofs!KeptUnlessOverlappedTheorem` | action property | with `Standing` (what a request that overlapped no other has read of its cart and its lines still stands, so it takes away only what it has put elsewhere or ordered), `Undisturbed` and `OneActive` (the unique index on a customer's active cart) |
| `FulfilmentAndReviews_proofs!FulfilmentTypeCorrect` | `TypeOK` | inductive with the next two |
| `FulfilmentAndReviews_proofs!FulfilmentParcels` | `ParcelMatchesItems` | the items of a request under way are packed or further (`RequestPacked`), since neither seller nor customer may move a packed item back; a report raises a shipment only when the trigger lets its items follow |
| `FulfilmentAndReviews_proofs!FulfilmentProofs` | `ProvedWithLastCode` | with `OpenIsLast`: the one open code is the last one sent |
| `FulfilmentAndReviews_proofs!ShownIsTrueTheorem` | `ShownIsTrue` | with `Gathered` (what a request saw was there when it counted), `FreshIsRight` (a count nobody has overtaken is what there is) and `ThresholdMet` (reports that count reached the threshold unless a refresh put the review back) |
| `Aftersale_proofs!AftersaleTypeCorrect` | `TypeOK` | inductive with `ReturnsInv` and `FinanceInv` |
| `Aftersale_proofs!AftersaleRefundedOnce` | `RefundedOnce` | with `RequestOK`: a request that queued a refund has taken its item where no other inspection can be completed |
| `Aftersale_proofs!AftersaleReversed` | `ReturnedIsReversed` | with one worker nobody reads an item again that came back (`KeptApart`, `KeptStays`); earnings and reversals are different entries (`EntriesApart`) |
| `Aftersale_proofs!SettlementAddsUp`, `SettlementPins` | `PendingAddsUp`, `SettledByItsPin` | with: what is pinned is posted and selected by its settlement |
| `Onboarding_proofs!OnboardingReviewIsComplete` | `ReviewIsComplete` | with `SubmitReady`: who is about to submit has found everything, and nothing that was handed in is taken back (`Grown`) |
| `Onboarding_proofs!AccessIsCurrent` | `CurrentUnlessOverlapped` | with `FreshReads`: who is about to remember has the grants in force unless they changed since, and then it is marked |

Hardly any of the invariants is inductive as stated. The strengthening is always the same kind of
fact: *what a process in the middle of its steps knows, and why nobody can have made it untrue
meanwhile*. In Storefront that is what an undisturbed request has read, in Reviews a count that is
still fresh; in Outbox the offsets, which only grow; in Onboarding what was handed in; in
JobScheduler the ownership of row and lock; in Checkout the row lock; in Payments that the
provider's captures and ended refunds are final; in Idempotency that a session's order is. In
Pricing, where nothing is concurrent, it is how far the chain of stages has come. The strengthened
invariants were checked by TLC on the instances above before they were proved.

Each proof module has one lemma per action (or per family of actions that do the same to the
state), and a last theorem that combines initial state, step and temporal logic.

*Sums.* `Money!Total` is a fold, that is a CHOOSE of a recursive function over sets, and induction
theorems with an operator as parameter are not at hand. What is proved of totals starts from one
step of the recursion (`TotalStep`), and holds for all finite sets since a least set for which it
did not, by the strict subset order, which is well-founded, would have a smaller one
(`LeastMember`). `TotalUnique` is what the rest is drawn from: whatever is nothing over the empty
set and grows by `f[x]` with each member x is the total of f, so members may come in any order, and
totals of sums are sums of totals.

*Rates.* `ChecksAcceptTheorem` assumes `Moderate`: of a line's GST and cess rates one is below 100
and the other at most 33. That is more than the seeded products have (18 and none) and the run
(28 and 12), but less than the domain `percentage` (`20260823000200:20`) and the validation of a
rate (`packages/validation/src/index.ts:712`) admit, and where it fails the CHECKs do: at a GST of
100 the tax contained in a line of one paisa rounds to one paisa, each of its two halves rounds to
one again, and the taxable value that is left is below zero; at 34 for both rates the same happens
to a line of two paise. Of the other theorems about `Pricing` only `QuotesAcceptedTheorem` needs it.

*What does hold of what fails.* Some claims of section 5 fail in one situation only, and the
theorems above with a dash for their property prove that there is no other.
`Outbox!AttemptsBounded`: an event has at most `max_attempts` and one for each failure.
`Checkout!OrderKeepsStock`: an order loses its hold only to a request that was about its session,
or about to abandon it, when it was placed (`Untouched`). `Payments!PaidKeepsStock` and
`ItemsFollowOrder`: only when another payment of the order failed for good (`FailedForGood`).
`Pricing!PromotionsCover` and `ExclusiveSuppressesOthers`: only when promotions for one line stack
(not `Apart`), or an exclusive one comes after others (not `ExclusiveFirst`). These conditions are
on states, not on the constants, except that prices need `Moderate` as before; TLC checked each of
these first, on the configuration that section 5 names.

## 5. What comments and documents say and the code does not keep

One has a run that shows it:

**The staff cannot suspend a seller who has the buy box while a competitor sells**
(`SuspensionGoesThrough`, `storefront_suspend`). `recompute_buy_box`
(`2300_views_and_buybox.sql:205`) clears the winner flag of ACTIVE listings only. A listing that
has just been SUPPRESSED keeps its flag, so setting the competitor's violates the unique index
`seller_listings_winner_idx` (`0900_catalog.sql:1026`) and the suspension is rolled back, where
`admin-seller.service.ts:259` says "a competing seller takes the slot". The same index refuses a
deactivation of the winner, a competitor's activation and a competitor's receipt of stock
(which elects too) once a flag was left behind.

The following are stated in the modules, under a heading or comment that says so, and fail as
well. They have no run of their own; adding the definition to the named configuration shows it.

| definition | configuration | how it fails |
|---|---|---|
| `Inventory!AppliedOnce` | `MCInventory_stock` | `approveAdjustment` decides on a row it read before its transaction (`inventory.service.ts:202`) and writes by id (`:253`); two approvers both move the stock ("exactly once", `1100_inventory_functions.sql:472`). The ledger does not notice |
| `JobScheduler!JobsKeepRunning` | `MCWorkerService_events` | the RUNNING row of a killed replica stays (`scheduler.ts:67`), the unique index refuses every later insert and nothing clears it ("released even if the process is killed", `scheduler.ts:16`) |
| `Outbox!EventuallySettled` | `MCWorkerService_events` | the same row stops the requeue job, so what the killed worker had claimed stays PROCESSING ("This returns them to PENDING once the visibility timeout passes", `jobs/index.ts`) |
| `Outbox!PublishedInOrder` | `MCWorkerService_events` with `Malformed = {}` | two workers claim two events of one partition and the younger is published first; a backoff does the same (`0300_platform.sql:328`) |
| `Outbox!AttemptsBounded` | `MCWorkerService_events` | an event whose worker dies is requeued whatever its attempts (`0300_platform.sql:411`), so that one that kills its worker never reaches the dead letter (ADR 0005) |
| `Checkout!OrderKeepsStock` | `MCCheckout_orders` with 3 units, 4 calls, no crash | a second start or an address change of the same customer releases "the ACTIVE holds" it saw before placeOrder confirmed them (`checkout.service.ts:1820`); `release_reservation` takes a CONFIRMED one |
| `Checkout!CheckedOrderIsPlaced` | `MCCheckout_orders` with one session | placeOrder inserts `COD_PENDING` (`checkout.service.ts:492`) where the CHECK of `1400_commerce_orders.sql:49-51` knows `PENDING_COD`: no cash order is ever placed |
| `Checkout!ClosedStaysClosed` | `MCCheckout_orders` | rebuild writes by id a session that was closed since it read it (`checkout.service.ts:959`) |
| `Checkout!PlacedAsPriced` | `MCCheckout_orders` (one more address for the address part) | update commits the choice in one transaction and reprices in another; an order placed between them has the old price (`checkout.service.ts:204`) |
| `Checkout!HeldStockSuffices` | `MCCheckout_orders` with 1 unit | the session's own hold of the last unit makes the listing unavailable to its own repricing (`checkout.service.ts:808`) |
| `Checkout!CouponWithinLimit` | `MCCheckout_orders` with `CouponInput = {"give"}` and `MaxCalls = 6` | the limit is read at the quote; two quotes may carry the last use (`checkout.service.ts:1591`) |
| `Payments!CaptureSettles` | `MCPayments_order` under fairness | the claim of a webhook that failed stays, so the provider's retry counts as a duplicate (`payments.service.ts:287-302`); with two payments no failure is needed, their outcomes take the same attempt number |
| `Payments!PaidKeepsStock` | `MCPayments_order` | a final failure of another payment releases the holds of an order that is confirmed (`payments.service.ts:572`) |
| `Payments!ItemsFollowOrder` | `MCPayments_order` | recordSuccess confirms the items of an order that failed since it was read (`payments.service.ts:457`) |
| `Payments!CancelledIsRefunded` | `MCPayments_order` | a second createSession puts a captured intent back to PENDING, and cancel finds none to refund (`payments.service.ts:141`) |
| `Payments!RefundCountedOnce` | `MCPayments_order` | a refund that succeeded at once is added again by its webhook (`payments.service.ts:655`), and `refresh_intent_totals` sets the refunded total of an intent to nothing |
| `Fulfilment!DeliveredStays` | `MCFulfilment_parcels` | a late report regresses a delivered shipment (`fulfillment.service.ts:366`) where ADR 0012 (line 44) says it is recorded only |
| `Settlement!ApprovedAddsUp` | `MCAftersale_returns` | generating an approved period again overwrites its total ("Equals the sum of the included ledger entries", `1800_finance.sql:234`; `finance.service.ts:106`) |
| `Pricing!ExclusiveSuppressesOthers` | `MCPricing_quotes` | an exclusive promotion claims lines for the later ones only; what earlier ones took stays (`pricing.ts:187`) |
| `Pricing!PromotionsCover` | `MCPricing_quotes` | promotions that stack take a line below zero, and its order fails on a CHECK |
| `Storefront!Kept` | `MCStorefront_cart` | a move to the cart that overlaps a save for later leaves the item in neither (`cart.service.ts:388`) |
| `Storefront!CartWithinLimit` | `MCStorefront_cart` | overlapping adds overshoot `max_order_quantity` in the cart (`cart.service.ts:397`); checkout looks again |
| `Storefront!TakenDownStaysDown` | `MCStorefront_cart` | a seller activates a listing the staff blocked (`seller.service.ts:638`) |
| `Access!CurrentOnceEvicted` | `MCOnboarding_access` | a request that read the grants before a suspension committed caches them after its eviction, which "must happen after the status change is durably committed, otherwise a concurrent request could repopulate the cache" (`admin-seller.service.ts:280`) |
| `Access!StatusCurrent` | `MCOnboarding_access` | "called after any role or status change so revocation is immediate" (`auth.service.ts:149`), but `updateCustomerStatus` (`admin-operations.service.ts:137`) and `requestDeletion` (`identity.service.ts:306`) do not call it |
| `Onboarding!StepForward` | `MCOnboarding_access` | "moves onboarding forward, never backward" (`seller.service.ts:925`) reads the step and writes it without a lock |
| `Onboarding!DecisionStands` | `MCOnboarding_access` | a submission checks the status before its transaction and writes by id (`seller.service.ts:438`), over a suspension or rejection |
| `Onboarding!OneSellerPerOwner` | `MCOnboarding_access` | "one seller per owner keeps the model honest" (`seller.service.ts:76`), which two registrations at once both find to be so |
| `Reviews!PulledByReports` | `MCReviews_shown` | "Enough credible reports pull the review for human review automatically" (`2200_commerce_social.sql:211`), but reports that overlap count without each other, and none of them reaches the threshold |

Noticed while reading, without a definition:

- *Statements that can never commit.* Approving a seller updates a row of the append-only status
  history (`admin-seller.service.ts:166`, `0800_seller.sql:154`). Creating or editing a listing
  writes INACTIVE without the reason its CHECK demands (`seller.service.ts:537-566`,
  `0900_catalog.sql:1012`). `createPayout` writes PAID without `paid_at`
  (`payouts_paid_fields`). `recordAttempt` locks a table alias that is not there. The search
  indexer orders by a column its view lacks.
- *Code without a caller.* `consume_reservation` (`1100_inventory_functions.sql:300`): the hold of
  a shipped order stays CONFIRMED. CONFIRMED to ALLOCATED (`1400_commerce_orders.sql:200`):
  nothing allocates an item. Nothing sets OUT_OF_STOCK, so its branches in the receipt and in
  the cart are dead. `collectCod` has no cash order to collect.
- *Checkout.* "A line that cannot be satisfied is kept" (`checkout.service.ts:1010`), but
  `computePricing` throws when no line is left (`pricing.ts:154`). A cart line added after start
  is deleted at placement; two starts at once order one cart twice; a session's cart may be
  another than the one its lines were read from (`:118`, `:137`).
- *Pricing.* A coupon can push a cart below the free-shipping threshold and raise its total. A
  FREE_SHIPPING coupon is never counted at placeOrder. `loadPromotions` ignores excluded
  targets. The delivery promise shows a seller's shipping even when it is free.
- *Orders and shipments.* After a cancellation in part the order stays CANCELLATION_REQUESTED. A
  seller's cancellation releases no hold and refunds nothing. A failed delivery reported before
  the pickup strands the parcel (`fulfillment.service.ts:475`). A retry hands the parcel to the
  carrier again. The count of wrong codes is rolled back (`delivery.service.ts:158`). The
  adapters' webhooks return no updates.
- *Returns and finance.* RETURN_RECEIVED is also sent for a return that failed inspection, whose
  earnings are reversed though nothing is refunded; a return of some units reverses all. Tax on
  commission, gateway and fulfilment fees are never reversed. With two workers a reversal can be
  missed. A hold of seven days ends after a weekly period, so such periods settle nothing. A
  negative settlement can never be approved. Entries pinned to an approved settlement by a
  later generation are stranded. An automatically approved return must be decided again before
  it is received, and rejecting it strands its item. With two items a passed return may not be
  refunded (`returns.service.ts:378`, `payments.service.ts:225`).
- *Addresses.* "Promoting an address to default demotes the previous one, atomically"
  (`0600_identity.sql:447`), but the unique index `addresses_single_default_idx` refuses the second
  default before the AFTER trigger can demote the first.
- *Reviews and risk.* A review created while another is being published may write a summary
  without it. A customer's risk tier follows the last event and not the score that has added up
  (`risk.service.ts`).
- *Access.* A `CACHE_PERMISSION_TTL_SECONDS` of 0 caches for good, as `set` takes it for "no
  expiry" (`redis.service.ts:64-72`).
- *Listings.* Blocking a listing, a change of price and the last unit sold never recompute the
  buy box. An activation that overlaps a suspension leaves an ACTIVE listing of a suspended
  seller, which only the view hides.

## 6. What is only model-checked, and what is not modelled

Only model-checked: the liveness properties (`SettledUnlessLost`,
`JobsGoOn`, `SessionsClose`, `HoldsEnd`, `CallsAreAnswered`, `ParcelsArrive`, `AccessSettles`),
since the prover handles neither fairness nor ENABLED. Every other property of a passing run has a
theorem.

Left out of the modelled parts:

- *Inventory*: stock counts other than the adjustments they request, reorder points, the
  drift report. The width of quantities matters only at the ceiling of the CHECK, which is a
  parameter.
- *Outbox*: contents of events; `consumer_offsets` keeps nothing but the pair.
- *Checkout*: price arithmetic (in `Pricing`), serviceability, shipping options, several lines
  per session, the read-only quote. Requests refused before they change anything.
- *Payments*: reconciliation (it reports and does not repair), saved instruments, the mock
  provider, several refunds of one order, signature checks.
- *Idempotency*: a key pruned while a request works on it (pruning is a day away).
- *Fulfilment*: attempts (the statement cannot run), cash (no cash order exists), shifts.
- *Returns, Settlement*: evidence, return windows, replacements, payouts (never commit),
  invoices and reports.
- *Pricing*: gift wrap (shared out as the cash fee is), commission, the SQL twin of `allocate`,
  which nothing calls; rates are whole percentages, amounts stay below 2^53.
- *Onboarding, Access*: the approval (never commits), the decisions on a document and a bank
  account, other users of a seller, tokens and MFA, which permission a route asks for.
- *Reviews*: the insertion of a product's first summary row, media, the seller's response, erasure,
  the event of a publication.
- *Cart, Listing*: coupon code and pincode noted on the cart, displayed prices; how scores are
  made (any choice among the eligible), categories, attributes, media.

Not modelled, and why:

- *Notifications*: written by one consumer of `Outbox` and sent by one job of `JobScheduler`,
  which model their redelivery and overlap. Noticed: the key of a message lacks its locale, so
  with templates in two the row order decides which is sent; limits per day and quiet hours are
  never enforced; FAILED is never tried again.
- *Search indexer, analytics*: one transaction per event, which `Outbox` has as `RunConsumer`.
- *Catalogue reads, search, identity, questions, wishlists, support, risk, the rest of administration*:
  writes of single rows by one owner, kept apart by unique keys.
- *Tokens, row security*: a static table of who may call what, tested in `tests/rls`.
- *Rate limits, caches of reads*: best effort; no stored state depends on them.
- *Storage, assistant, health, provider adapters, shared packages, apps, seeds*: I/O, types,
  configuration and data.

## 7. What could come next

`Notifications` under `WorkerService`, where the consumer and the job that model their
redelivery already are. A composition `OrderStock`, where Checkout's placement, Payments'
outcomes and the stock engine meet on real holds, and `Inventory` under `JobScheduler`, where
that overdue holds end follows from what the job runner gives. Abstract
specifications: an order as a customer sees it (for Checkout with Payments), an at-least-once
queue with idempotent consumers (for Outbox).

Proofs: of the abstract specifications above, that the modules implement them.
