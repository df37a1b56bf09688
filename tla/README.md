# Verification of the Flashin backend

Flashin is a shop that lives in a Telegram mini app: a FastAPI backend on
PostgreSQL (`src/backend`), an APScheduler process that runs periodic jobs
(`src/backend/jobs`), YooKassa as the payment provider, MoySklad as the
warehouse, carriers that deliver, and front ends that call the API. This
directory holds TLA+ models of the backend's core logic, the TLC runs that check
them on small instances, and TLAPS proofs of what matters most for every value
of the parameters.

Nine parts are modelled: the cart and checkout of an order, its payment, the
stock its lines reserve and who else writes that stock, its refunds, its
fulfillment and shipment with the commands to carrier and warehouse, the goods
that come back, the queues of outgoing messages, the media store, and the pilot
that decides whether the shop is open at all. Paths below are relative to
`src/backend`.

## Inventory of the system

State is the database. Every request, webhook or job runs one or several
transactions; row locks (`SELECT ... FOR UPDATE`) serialise those on the same
rows. Provider calls are made *between* transactions, never under a lock, so an
actor often acts on something it read before: that is where the difficulty is.

| Component | State it keeps | Operations | What it meets |
|---|---|---|---|
| payment creation (`services/payment_creation.py`) | `PaymentCreationAttempt`: number, status, lease, provider id | begin, mark retry, mark review, complete from provider, finalize | called by the payments API, the webhook and the job, all under the order's lock |
| payments API and webhook (`api/payments.py`) | `Payment`, `PaymentEvent`, `Order.status` and `.payment_status` | `create_payment`, reconciliation of an existing payment, `yookassa_webhook` | provider calls between two transactions |
| payment reconciliation job (`jobs/payment_jobs.py`) | the same rows | candidate selection, fetch, apply, persist review | a scheduler, one run at a time |
| settlement and cancellation (`services/payment_settlement.py`, `services/order_cancellation.py`) | order statuses, inventory, loyalty, fulfillment | `settle_paid_order`, `cancel_order_before_settlement` | the webhook, the job, requests, customers and administrators |
| payment review (`services/payment_review.py`, `services/payment_reconciliation.py`) | `PaymentReconciliation` cases | open a case; an operator resolves it | whoever finds provider and order disagreeing |
| inventory (`services/inventory.py`) | `ProductVariant.stock_qty`, `.reserved_qty`, `InventoryMovement` | reserve, release, commit, adjust, restore | checkout, settlement, cancellation, administrators, MoySklad |
| checkout and cart (`api/orders.py`, `api/cart*.py`) | `CheckoutAttempt`, `Cart`, `Order`, promo use, loyalty hold | `checkout` with an idempotency key, cart edits | inventory, promo, loyalty, delivery quotes, pilot limits |
| refunds (`api/returns.py`, `api/admin_returns.py`, `api/refund_webhooks.py`, `jobs/refund_jobs.py`, `services/refund_*.py`) | `ReturnRequest`, refund statuses of the order | request, approve, webhook, job, review | provider calls between transactions; loyalty |
| reverse logistics (`services/reverse_logistics.py`) | `ReturnLogisticsCase`, items, events | authorize, in transit, receive, inspect, resolve quarantine | inventory |
| loyalty and referrals (`services/loyalty.py`) | profile, entries, redemption holds | hold, commit, release, earn, refund | checkout, settlement, refunds |
| fulfillment (`services/fulfillment.py`) | `FulfillmentOrder`, shipment | picking, packing, shipping, blocking | settlement, cancellation |
| business events (`services/event_dispatcher.py`) | `BusinessEvent` with attempts | dispatch with `SKIP LOCKED`, requeue | several dispatchers |
| webhook outbox and notifications (`jobs/outbox_jobs.py`, `services/notification_delivery.py`) | rows with a lease token and attempts | claim, renew, send, finish | several workers, slow receivers |
| provider commands (`services/provider_commands.py`) | commands to delivery providers and MoySklad | claim, execute, reconcile | provider calls |
| MoySklad exchange (`services/moysklad*.py`) | links, export documents | stock synchronisation, exports of orders, demands, returns and moves | `adjust_stock`, inspections, provider commands |
| pilot runtime (`services/pilot_*.py`, `src/scripts/pilot_*.py`) | one runtime row, order slots, a signed control file on the host | arm, admit, record a scenario, trip, roll back | checkout, payment |
| media (`api/media.py`, `services/media_*.py`, `jobs/media_cleanup_jobs.py`) | `MediaAsset`, cleanup commands, objects in S3 | upload with an upload key, clean up, replay | a store that answers late or never |
| scheduler (`jobs/scheduler_lock.py`) | PostgreSQL advisory locks | run a job exclusively | every job |
| authentication, catalog, CRM, privacy, audit | their own rows | request-local reads and edits | little |

Correctness, component by component:

* **Payment of an order**: settled only on money the provider took; settled
  for good; never two payable links at once; money that arrives is noticed; a
  review always leaves a case; the stock follows the status.
* **Inventory**: reserved never exceeds stock; reservations equal what orders
  are owed; no deadlock; every transaction ends.
* **Checkout**: one order per cart and per key; promo and loyalty limits hold.
* **Refunds**: completed refunds never exceed the total; success is final;
  every approval ends or is retried; loyalty is returned once.
* **Reverse logistics**: goods come back to stock at most once per unit sold.
* **Loyalty**: the balance is the sum of entries and never negative; points
  held once are spent at most once.
* **Queues**: a finished or failed row stays so; a worker whose lease ran out
  changes nothing; attempts are bounded; what is due is tried.
* **Fulfillment and shipment**: only what was picked in full is handed over; a
  carrier is booked once; what left was booked.
* **MoySklad**: its books follow the warehouse; its stock never undoes a return
  it does not know of; money is divided without a remainder.
* **Media**: an asset's object is never deleted; an orphan is always known.
* **Pilot**: nothing is charged while it is stopped; one order at a time; the
  control file never goes back.

`PROJECT.json` lists every component with its status and every hazard with the
line where it bites.

## Modules

| Module | Models | EXTENDS |
|---|---|---|
| `Checkout` | carts, promo uses, points, quotes, the idempotent checkout, and what settlement, cancellation and refund do to them | |
| `CheckoutProofs` | its inductive invariant and theorems | `Checkout` |
| `PaymentFlow` | payment creation, the payments API and webhook, the reconciliation job, settlement, cancellation and review of one order, with the provider | |
| `PaymentFlowProofs` | its inductive invariants and theorems | `PaymentFlow` |
| `Inventory` | stock, reservations and the row locks of checkout, settlement, cancellation and adjustment | |
| `StockLedger` | abstract: what the stock promises, each transaction done at one instant | |
| `StockSync` | that stock with inspections and with MoySklad's synchronisation; implements `StockLedger` | `Inventory` |
| `InventoryProofs` | the inductive invariants, theorems and refinement of both | `StockSync` |
| `RefundLedger` | abstract: what the refunds of an order promise | |
| `Refunds` | return requests, approvals, the refund webhook and job of one paid order, with the provider; implements `RefundLedger` | |
| `Shipping` | task, picklist, shipment and refund of one order, and the provider worker that books its carrier and exports it | |
| `ShippingProofs` | its inductive invariant and theorems | `Shipping` |
| `OrderMoney` | pure: how an order's money is divided among lines, cases, dispositions and units | |
| `ReverseLogistics` | the physical return cases of one order, the stock they put back, their documents in MoySklad | `OrderMoney` |
| `ReturnsProofs` | the inductive invariants, theorems and refinement of what comes back, money and goods | `Refunds`, `ReverseLogistics` |
| `Deliveries` | the leased queues: event dispatcher, webhook outbox, notifications | |
| `DeliveriesProofs` | its inductive invariant and theorems | `Deliveries` |
| `Media` | uploads, cleanup commands and their worker | |
| `MediaProofs` | its inductive invariant and theorems | `Media` |
| `Pilot` | runtime row, slots, signed control file, stops, backup | |
| `PilotProofs` | its inductive invariant and theorems | `Pilot` |
| `MC...` | the instance of a run | the module of that name |

How they meet. The modules share rows of the database, not variables: each
keeps what its properties tell apart and treats the rest as something that may
happen. `PaymentFlow` decides *when* an order is settled or cancelled;
`Inventory` shows what that does to variants under their locks, `Checkout` to
points, promo uses and rewards, `Shipping` starts from the task and the export
that settlement creates. `Refunds` decides when money went back; `Checkout`
applies the loyalty effects, `Shipping` the effect on the order's statuses.
`ReverseLogistics` puts goods back in stock; `StockSync` composes just that step
with the stock of `Inventory` (by EXTENDS) and with the synchronisation that
might undo it. `Pilot` stands before checkout and before the call that creates a
payment.

### PaymentFlow

One order. `db` is a record of its committed rows; every transaction of the
code is one step, because each of them locks the order first (the exception,
the job's row order, is under *Not modelled*). `prov` is the provider. What an
actor observed at the provider waits in `req`, `hooks` or `job` until its next
transaction, and anything may happen in between.

The functions of the code that take a session and change rows are operators
from databases to databases (`Settle`, `Cancel`, `CompleteFromProvider`,
`MarkRetry`, `MarkReview`, `Finalized`, `ToReview`, ...). Errors are separate
predicates (`SettleRaises`, `CancelRaises`, `BeginRaises`, `FinalizeRaises`,
`NoticeRaises`), so a caller shows what it does about them: the webhook rolls
back, the job persists a review in another transaction, a request persists one
or gives up.

| Actor | Steps | Code |
|---|---|---|
| request | `BeginExisting`, `BeginClaim`, `FetchExisting`, `FallbackToStored`, `ReconcileExisting`, `Post`, `PostRetryable`, `PostUncertain`, `VerifyCreated`, `Finalize`, `PersistCreationReview`, `RequestStops` | `create_payment` and what it calls |
| webhook | `HookFetch`, `HookCommit`, `HookFails` | `yookassa_webhook` |
| job | `JobFetch`, `JobApply`, `JobPersist`, `JobStops` | `reconcile_pending_payments` |
| people | `ManualCancel`, and the customer who pays | `api/order_cancellation.py` |
| time | `LeaseExpires` | `lease_expires_at` |
| provider | `Authorise`, `Succeed`, `Expire` | external |

Three details are easy to miss and matter:

* The session is created with `autoflush=False` (`database.py:18`). A Payment
  row the webhook adds is therefore invisible to `ensure_payment_review_case`
  in the same transaction, and a review of a payment without a row raises:
  `NoticeRaises`, with the whole notification rolled back. For the same reason
  `PostUncertain` persists nothing: its review has no payment id.
* `complete_payment_creation_from_provider` closes the newest open attempt,
  whichever payment was observed (`NewestOpen`).
* Settlement may be refused although the order is in order, when the customer's
  loyalty balance has fallen below the points the order redeems
  (`services/loyalty.py`, `add_points`). `Refusals` says whether that happens.
  Requests and handlers roll back; the job persists a review in a second
  transaction, which does not look at the status it overwrites.

Assumed of the provider: at most one payment per idempotence key (the key is
order and attempt number, so payment *n* belongs to attempt *n*), a payment
moves from pending through an optional hold to succeeded or canceled and stays
there, only a customer who was given a link pays, and a notification is sent
for each move. It may arrive never, late, or many times: `sent` is never
consumed.

Abstractions: amounts and currencies (the paths that fail an amount check trip
the pilot circuit breaker and are left out); confirmation links (a stored active
payment is taken to have one); reservations of other orders of the same
variants (so the mismatch checks of release and commit do not fire; `Inventory`
shows `ReservedIsOwed`); payments that predate attempt rows (the "legacy payment
count" floor); refund statuses (`Refunds` starts where an order is paid); the
`IntegrityError` branches, which the order's lock makes unreachable.

### Inventory and StockSync

Stock and reserved quantities of the variants, the ledger chain of each order,
and the transaction each order is in. A transaction locks rows one at a time,
so waiting is visible: `LockCustomer`, then `LockRow` in the order of ids. A
checkout decides on availability when it locks the row, and commits later; the
commit steps check and write as the code does. `AdjustStock` is one step since
it locks one row. `Rollback` covers errors, and the process dying.

Each order has at most one transaction at a time, since the order's row is
locked first; a released order is not sold later, which holds here by
construction and is what `PaymentFlow` looks at as `NeverReleasedAndSold`.

`StockSync` adds the two other writers of `stock`. All steps of the shop wait
for the rows a synchronisation holds (`Shop`).

| Actor | Steps | Code |
|---|---|---|
| inspection | `Stamp` (the event, and its time, before the row's lock), `Restock` (lock, put back, commit), `CommandSent` | `inspect_item`, `restore_returned_stock`, the provider worker |
| synchronisation | `SyncStarts` with one snapshot; per variant `Evaluate` without a lock, then `Finish` under the row's lock, or the 409 that aborts it all; `SyncCommits` a page, `SyncEnds`, `SyncAborts` | `sync_assortment`, `evaluate_moysklad_stock_snapshot`, `adjust_stock` |

A snapshot may be anything: what MoySklad counts is its own business. The record
of a synchronisation says what it has decided and not yet written, and what its
page will do to which returns when it commits. `cleared`, `overlooked` and
`raced` are history: whether a catch-up looked at the return, could not see it,
or had it committed while it was between decision and lock.

### Refunds

One order that has been paid. `db` holds its two status columns, its return
requests (status, amount and what it consists of, whether the provider's refund
id is stored) and how often the loyalty effects of a full refund were applied; `prov` the provider's
refund of each return. As in `PaymentFlow` each transaction locks the order
first and is one step, and the answer an actor received waits in `appr`,
`hooks` or `job` until its next transaction.

| Actor | Steps | Code |
|---|---|---|
| customer | `CreateReturn` | `create_return` |
| administrator | `Approve`, `CallProvider`, then `FinalizeApproval`, `MarkRetryRequired` or `MarkReviewRequired`; `ApprovalStops` | `approve_return` |
| webhook | `HookFetch`, `HookApply`, `HookReview`, `HookFails` | `_process_refund_webhook` |
| job | `JobStart`, `JobFetch`, `JobSkips`, `JobApply`, `JobReview`, `JobStops` | `reconcile_pending_refunds` |
| provider | `ProviderConcludes` | external |

`Apply` is `apply_provider_refund_status`, with its refusals in `ApplyRaises`:
the approval rolls back, its storing of the refund id included; the webhook and
the job put the return in review in another transaction. `MarkRetry` and
`Review` move the two rows as `_mark_retry_required` and the reviews do. Which
statuses are final differs between the approval (`Final`) and the webhook's
and job's reviews (`JobFinal`, with `failed`), as in the code.

The order has one line, of `Quantity` units for `Total` cents, and free delivery.
A return consists of cents of the line, with or without units as evidence, or of
goodwill (`Compositions`, `_normalize_spec`); the first approval fixes that
(`Allocates`, `ensure_refund_allocation`), and it must fit what the other
reserving returns leave (`Fits`, `_validate_specs`): the total, the line's cents,
its units, and for units the sequential share of the cents (`OrderMoney!Share`,
`allocate_quantity_cents`). A success is validated once more before it is
recorded (`StillFits`), which can refuse what was allowed at the approval. The
remaining value of the line, which the code allocates by itself when nothing is
given, is one of the compositions. The idempotence key of a refund names payment,
order, return and amount, and the amount is fixed by the first approval, so the
provider holds one refund per return. `CallProvider` covers an answer that is
lost before or after the provider acted and one that fails the checks of id,
amount or currency.

`RefundLedger` has one variable, what each return has been paid back, and one
action, which pays a return that has not been paid an amount that fits.

### Checkout

Two customers, their carts, points and quotes; orders; the promo code. Every
operation is one transaction under the locks of customer, cart, promo code and
profile, so one action: cart edits (each with the reconciliation that follows
it), `PromoExpires`, quotes, `Checkout` itself with its key, and of an order its
settlement, cancellation and full refund. Only the cart's *items* can be stale:
`get_or_create_cart` reads them and commits before the lock, and
`SELECT ... FOR UPDATE` does not refresh what the session holds. A repeated key
answers with its order; `misled` records an answer with someone else's.

### Shipping

One paid order. Requests lock the order (`UpdateTask`, `CreateShipment`,
`TransitionShipment`, the steps of a refund) or the task (`EditPicklist`). The
provider worker claims a command under a lease and a token, calls out with no
transaction open, and records by token: `Claim`, `Book` or `Prepare` and `Post`,
`Record`, `Crash`, `LeaseExpires`; `Reconcile` is the operator's answer to a
command in review. The delivery provider's mode may change at any time within
the modes of a *setup*. `bookings` is what the carrier holds, `documents` what
MoySklad holds, at most one per `syncId`. A booking that times out, or whose
answer names no booking, goes to review; every other error is retried
(`except Exception`, `jobs/delivery_provider_jobs.py:124`), and the carrier may
have accepted the booking in either case, so `Book` lets `bookings` grow or not.
`unheard`, `reclaims` and `again` are history: accepted bookings whose error was
retried, leases that ran out under a worker, and whether the shipment was sent
again after a failed delivery.

### ReverseLogistics and OrderMoney

The cases of one order: `Authorize`, `MarkInTransit`, `Receive`, `Inspect`,
`ResolveQuarantine`, each under the order's lock; then the worker's
`ExportReturn` and `ExportMove`, one attempt each, with every outcome. What a
case is worth is fixed when its inspection ends, by `Allocation`, built from
`OrderMoney`: `NetLines` divides the order's money among lines, `Share` a line's
cents among quantities, `SplitCents` a quantity's among its dispositions,
`RenderedCents` what a document of whole-cent unit prices amounts to.

### Deliveries

Rows of the outbox or notifications, with the event that fills the outbox.
A worker claims what is due, and for each row renews its lease, checks (consent,
destination), renews again, sends with no transaction open and records by token;
each of these is an action. Leases run out, workers die, administrators retry,
mark, discard and requeue. `allowed` counts the decisions that permit one more
send, `received` what the receiver accepted.

### Media

Uploads (`Begin`, `Write`, `Reload`, `Commit`), what they do when something
fails (`PersistCleanup`, `PersistRaises`, `CrashRequest`), and the cleanup worker
(`Claim`, `Look` for an asset, `Delete`, `Record`), leases and `Replay`. A request
generates its storage key, so its name stands for its object; the retry of a
client is another request with the same upload key. Assumed, as the code does:
a write or a commit whose answer was given up has landed, or never will, by the
time the request goes on.

### Pilot

The runtime row with its slots, and the signed control file on the host. The
file is saved with the SHA-256 it was read under (`RecordReads`, `RecordSaves`)
or started anew (`InitAnew`); arming reads the file and later changes the row
(`ArmReads`, `ArmApplies`). Checkout holds the row's lock from `CheckoutStarts`
to `CheckoutCommits`, the payment guard from `PaymentStarts` over `PaymentPosts`
(the call to the provider) to `PaymentCommits`. `AutoStop`, `OperatorStops`,
`Trips` and `ReviewOpens` stop it; `BackUp` and `Rollback` are the deployment's;
`PutBack` is somebody copying an older version of the file into its place. An
`AutoStop` rolls back everything but the stop, except that the two checks a
checkout makes last (allowlist, number of slots) find the row on its new anchor
and commit that too. `sent` says for which orders a payment was asked of the
provider, not how often: `PaymentFlow` is about repeated requests.
Admission, releases, allowlist, liveness of workers and queue checks are one
outcome: such a check may fail at any time.

## Runs

| Run | Question | Instance |
|---|---|---|
| `checkout` | are promo uses, points, rewards, keys and quotes right however operations interleave? | 2 customers, one the other's referrer, 2 orders, 2 keys, a code for one use, one point: 1,350,000 states |
| `payment_safety` | are all safety properties of a payment kept by every interleaving? | 3 attempts, 2 requests, 1 webhook handler, job, cancellation, refused settlements: 1,034,235 states |
| `payment_recovery` | is money noticed when every notification is lost? | 3 attempts, 1 request, held payments and refused settlements: 990,266 states |
| `payment_sold_twice` | can stock be released and then sold? violated | as `payment_safety` |
| `stock_sync` | oversale, leaks, lost returns, termination | 3 orders of 2 customers over 2 variants, stock up to 1, a return, a synchronisation repeated with 2 snapshots: 181,043 states |
| `refunds` | do the refunds keep the money, the order's status and the ledger right? | 2 returns of an order of 4 units for 2 cents, 2 approvals, 1 handler, job: 2,794,621 states |
| `refunds_recovery` | does a refund end when webhooks and approvals fail? | 2 returns of an order of 2 units for 2 cents, 1 approval, 1 handler: 163,612 states |
| `shipping` | is what leaves picked and booked, is every booking accounted for, does a refund stay visible? | 2 lines, 2 setups, 2 workers, 2 attempts, 1 fault, 1 review: 2,271,709 states |
| `reverse_logistics` | do stock, money and MoySklad's books agree about what came back? | 2 cases of an order of 2 lines, 2 sales, 2 moves out of quarantine: 543,592 states |
| `deliveries` | is a message sent as often as somebody answers for, and does it end? | 2 rows of either queue, 2 workers, 2 attempts, 1 fault, 1 replay: 399,606 states |
| `media` | are assets kept, orphans known, and cleaned up? | an upload and its retry, 2 workers, 2 attempts, 2 faults, 1 replay: 685,345 states |
| `pilot` | does a stop hold, is there one order at a time, does the control file only advance? | 2 slots, the first critical, 1 operator, 3 versions: 3,866,267 states |

What they show:

* `PromoCounted`, `HeldIsCovered`, `RewardedOnce`: counters that several
  transactions change are what the rows say, with stale cart items, expired
  codes, cancellations and refunds in any order. Points that a refund took back
  after they were spent leave the balance below what is held, by exactly that
  much (`clawed`).
* `CheckoutIsIdempotent`: no key and no quote makes two orders, and no repeat is
  answered with another request's.
* `PaidIsBacked`, `SoldIsPaidOrReviewed`, `SettledUnlessOverwritten`: no stale
  answer settles an unpaid order or takes the settlement back, except one: the
  job's settlement is refused, it lets go of the locks, a webhook settles the
  order, and the job's review (`_persist_review`, `jobs/payment_jobs.py:91`)
  overwrites its status. The run has refused settlements (`Refusals = TRUE`), and
  the properties say exactly that: such an order was settled and its stock sold,
  and it waits in review with a case for a payment that succeeded. No other actor
  and no other step of the job does this.
* `ReservationMatchesStatus`: the ledger agrees with the status before payment,
  after cancellation and after settlement.
* `NoDoubleCharge`: a new payment is offered only when the earlier ones cannot
  take money any more, even across expired leases and late answers.
* `LatestMoneyIsNoticed`: the job finds the money of the payment whose row was
  inserted last. Of any payment it would not hold: the job looks at one row.
* `ReservedWithinStock`, `ReservedIsOwed`, `TransactionsEnd`: as their names
  say. `ImplementsLedger`: a transaction that commits does what it would have
  done alone. Lines, stock and customers are chosen so that two checkouts compete for
  the last unit, one customer has two orders, two orders lock the same two
  variants, and a synchronisation holds rows that both wait for.
* `ReturnsAreKept`: a row that a synchronisation is about to overwrite has only
  returns that its snapshot reaches or that an earlier catch-up has looked at.
  The two exemptions are real races and described below.
* `MoneyWithinTotal`: what the provider sent or may still send never exceeds the
  total. It holds although reservations may exceed it, since a canceled refund
  stays canceled at the provider.
* `UnitsPaidExactly`: however returns by quantity are approved, fail and come
  back, no unit is paid back twice and all of them together are the line's cents.
  It is about completed refunds: what is only reserved may exceed the units, when
  a late answer puts a failed return back in flight (see below).
* `OutcomeIsReal`, `ImplementsLedger`: no stale answer records a success or a
  failure that did not happen, takes one success back, or pays a return twice.
* `OrderMatchesRefunds`, `UnfinishedCanBeRetried`: the order's payment status
  follows its returns, several of which may be unfinished at once. In particular
  an order whose total was paid back says `refunded`, unless the provider
  canceled another refund of it: a late answer that reports the cancellation then
  rewrites the status for good (see below). No other answer does, however late.
* `BoundRefundEnds`: the job brings a refund whose id is stored to an outcome or
  to review. A return that waits for a retry without an id is not among its
  candidates (`jobs/refund_jobs.py:53`): only another approval moves it.
* `ShipmentIsPrepared`, `ShippedIsBooked`, `BookingsAnsweredFor`: across refunds
  that write the same statuses, lost carrier answers, overlapping workers, late
  outcomes and a change of the provider's mode. A carrier *is* booked twice: when
  a lease runs out under a live worker, and when the carrier had accepted a
  booking whose error the job retries. `BookingsAnsweredFor` counts both and shows
  that nothing else does it, neither a booking the job itself calls ambiguous nor
  an operator's answer.
* `RefundIsShown`: task and shipment write the order's status too, and neither
  hides a refund, except a second try after a failed delivery (`again`; see below).
* `RestockedIsSold`, `AllocationIsExact`, `BooksFollowWarehouse`: cases end in
  any order; the two sales leave cents over at every division; a receipt may be
  parked in review while its goods leave quarantine.
* `SentIsReal`, `ResentOnDecision`, `ConsentRespected`, `DeliveriesEnd`: a lease
  that runs out under a live worker is the only way to a second send that nobody
  decided on, and each such lease accounts for at most one.
* `AssetsAreStored`, `OrphansAreKnown`, `CleanupEnds`: also when the commit of an
  asset succeeds and its answer is lost, so that the cleanup of a live object is
  enqueued.
* `StopHoldsPayments`, `OneAtATime`, `AnchorAdvances`: action properties of the
  pilot. Whoever stops it waits for the call to the provider that is under way.

Bounds. In `PaymentFlow`, `MaxAttempts` caps attempts and hence payments: three
are the fewest with which a late row can displace a newer one and a third
payment meet an old observation. `Clients` caps concurrent requests: with two,
one may sleep through anything the other does. `MaxHooks` caps handlers in
flight, not notifications: a single handler can take the notifications in any
order, any number of times, and its commit comes arbitrarily late. `TwoStage`
lets the provider hold a payment; it is on in `payment_recovery` and off in
`payment_safety` for size (with two attempts, two requests and holds,
2.9 million states show no violation). In `Refunds`, `MaxReturns` caps the
return requests: two are enough for one to fail and come back while the other is
refunded; `Total` 2 lets refunds be partial, and `Quantity` 4 makes their cents
depend on what was paid back before (one unit and then three are a cent each,
three at first are two cents); two `Approvers` can approve the same return or
different ones. Three returns of an order of two units, with one approval and no
webhook, give 1,913,176 states and no violation. In `StockSync`, `Init` starts from every stock up
to `MaxStock`; two synchronisations at once with two orders (1,084,565 states)
and stock up to 2 (876,000 states) show no violation either, and the theorems
hold for any number. In `Checkout`, two customers who share a promo code with
one use, and one point, make every counter contended; two keys of one customer
repeat and collide. The queues (`Deliveries`, `Shipping`, `Media`) have two
workers because a token only matters when two overlap, two attempts because the
last one differs from the others, and bounds on faults (`MaxFaults`: crashes and
leases that outrun a live worker) and on decisions of administrators
(`MaxReplays`, `MaxReviews`), each of which could otherwise repeat for ever. In
`Pilot`, two slots instead of twenty have a first order, a next one that waits
for it, and a last one that completes the pilot; three versions of the control
file allow one to be replaced while another is being saved, and an older one to be
put back. One operator is enough: of two who read the same version only one can
save, and the other's read leaves no trace. The theorems need
none of these bounds.

`CHECK_DEADLOCK FALSE`: a settled order whose requests are done, with no
notification handled again, has really nothing left to do; so has a queue
whose rows are all sent, a shipment that is delivered, an order whose goods all
came back, an upload that is answered, a pilot that is completed. Two unfinished
returns that together reserve more than the total bar each other (see below).
`checkout` and `stock_sync` check deadlock.

Fairness. In `PaymentFlow` the scheduler starts the job again and again (weak
fairness of `JobFetch`). A run may be stopped anywhere (`JobStops`), but not
every run at the same place: strong fairness of `JobApply` and `JobPersist`.
Nothing else in `PaymentFlow` is fair: customers may leave, requests may stop,
notifications may be lost. In `StockSync` a started transaction goes on, and
PostgreSQL queues waiters of a row lock, so a lock that is free again and again
is granted: strong fairness of `Proceeds` per order. A synchronisation's
transaction goes on or fails, since the database ends one of those that wait for
each other in a circle: weak fairness of its finishing, committing or aborting.
`Rollback` is never required. In `Refunds` the scheduler starts the job again
and again and a run goes on (weak fairness of `JobStart` and `JobSkips`), it is
not stopped and the provider does not fail it every time at the same place
(strong fairness of `JobFetch`, `JobApply`, `JobReview`), and the provider
concludes a pending refund. Approvals and webhooks are not fair. In `Deliveries`
and `Media` the jobs are started again (`deploy` restarts them, the scheduler
runs them every minute), a step that can be taken is taken, and the clock runs
leases out: weak fairness of each worker's steps and of `LeaseExpires`. Nothing
an administrator does is fair. `Checkout`, `Shipping`, `ReverseLogistics` and
`Pilot` make no liveness claim and assume none.

Every run also lists its mutants in `PROJECT.json`: for each property one
plausible bug of the modelled code, written next to the definition it would
replace, that makes TLC report that property. The definitions marked *Variant*
are these and nothing uses them otherwise.

## Proofs

All proofs are for arbitrary constants: any number of attempts, any set of
requests, any number of handlers, orders, customers, lines, cases, workers, rows,
returns, synchronisations, and any stock and prices. The assumptions, each of
which TLC evaluates on the runs of its module:

* the types of the constants, and that a name for "nobody" or "nothing" is not
  the name of somebody;
* that what is summed over or counted is finite: workers (`WorkersAssumption`),
  orders (`OrdersAssumption`, `RowsAssumption` of `Checkout`), cases, lines and
  moves; tables are;
* in `ReverseLogistics`, what `allocate_order_money` itself demands before it
  divides anything (`order_money_allocation.py:60-136`): there is a line with
  money, and the merchandise was sold for no less than nothing and no more than
  its gross value. (`SalesAssumption` lets an order have fewer lines than
  `Lines`: the missing ones have neither units nor money.)

The inductive invariants, and why the checked properties need them:

* `PaymentFlowProofs!Invariance` proves `Inv`. The checked properties are not
  inductive: that a late review keeps an order settled depends on the two
  status columns moving together (`StatusPair`), that settlement happens only
  on real money depends on every *observation* being sound once final (the
  actors' parts of `Inv`) and on rows being sound (`RowSound`), and that the
  ledger is right depends on `Ledger` covering the review statuses too.
  `AttemptOrder` has the attempts numbered without gaps with none but the
  newest open. Each domain function has a lemma that it preserves `DInv`; each
  action's lemma cites those. From it follow `TypeOK`, `PaidIsBacked`,
  `ReservationMatchesStatus`, and two that no run checks apart from it:
  `ReviewHasCase` (nobody parks an order in review without a case) and
  `AttemptRows` (the partial unique index on open attempts and the check
  constraints of `payment_creation_attempts` never stop a transaction). So do
  `SoldIsPaidOrReviewed` and the action property `SettledUnlessOverwritten`,
  whether settlements are refused or not: while the job waits to persist its
  review, what it observed is a success (`Inv`'s part about the job), so the
  review it writes over a settled order is one of money that was taken.
* `PaymentFlowProofs!LinksInvariance` adds `Links`: a payment that is known (it
  has a row, or a customer has its link) and can take money belongs to the
  newest attempt, which was closed under its own id. A request claims a new
  attempt only when the payment of the newest one is final and canceled in its
  row, and rows are sound. `NoDoubleCharge` follows. It is remarkable that this
  survives `NewestOpen`: an attempt closed under another payment's id keeps
  its own payment from being known until it is canceled.
* `InventoryProofs!Invariance` proves `IInv` of `Inventory`: locks are exclusive
  and of the order's own lines, and what a checkout found available when it
  locked a row still is (`ChecksHold`). `SyncInvariance` adds what holds beside a
  synchronisation: the rows it holds are nobody else's, what it will write fits
  what is reserved, and what it decided about a return still holds when it
  writes. `TypeCorrect` (no quantity below zero), `ReservedWithinStock` and
  `ReturnsAreKept` follow. `OwedInvariance` adds that an order's transaction fits
  its chain (`OperationFits`): a commit moves exactly the order's own line into
  the sum of what is owed, or out of it, which is `ReservedIsOwed`. With both,
  `LedgerImplemented` shows that the transactions, which lock row by row and
  check each row when they lock it, implement the atomic `StockLedger`: a commit
  is the ledger's `Reserve`, `Sell` or `Release`, whatever others did since the
  first lock. `NoCircleOfOrders`, which no run checks apart from `TransactionsEnd`,
  rests on locks being taken in ascending order (`Ascending`): of the rows that
  somebody waits for and somebody has, whoever has the highest waits for none.
* `ReturnsProofs!Invariance` proves `IInv`. That an outcome is real depends on
  what every actor carries: an answer that says succeeded or canceled is the
  refund's outcome (`ApprovalsAreReal`, `HooksAreReal`, `JobIsReal`), since the
  provider never takes one back; and on `BoundIsKnown`, that a return with a
  refund id has a refund of a fixed amount. Each domain function has a lemma on
  what it moves (`SucceededMoves`, ...); `MovedIsBacked` and `BackedStep` turn
  that into the invariant's parts, whoever acts. `TypeOK`, `OutcomeIsReal` and
  `UnderWayHasReturn` (an order under refund has a return under way) follow.
  `LedgerImplemented` shows the refinement: a step either leaves
  `Amounts(db, Final)` as it is (`KeepsAmounts`) or is the ledger's `Complete`
  (`Completes`).
* `ReturnsProofs!MoneyInvariance` adds the money (`MInv`). `MoneyWithinTotal` is
  not inductive: between an approval and the provider's answer only the rows know
  the amount, and a refund may exist that no row calls refunded. `Claims` has the
  amount of every return whose refund the provider has not canceled, and
  `ClaimsWithinTotal` keeps their sum within the total: only an approval adds a
  claim, and what it validates covers the claims of the others, since their
  returns reserve. `UnitsPaidExactly`, `OrderMatchesRefunds` and
  `UnfinishedCanBeRetried` are inductive together with it: a return that completes
  takes the cents its units were assigned against all that is reserved and paid
  back (`UnitsStep`), the order's status is what the completed amounts say after
  every outcome (`OrderStep`), and an unfinished return reserves, so the others
  cannot have paid back everything (`RetryStep`).
* `ReturnsProofs!GoodsInvariance` proves `GoodsInv`: the counts of a case fit each
  other and its status (`CasesFit`); all cases together are authorized for what was
  sold and the stock got back what they found resalable (`RestockFits`); a command
  exists for what an inspected case found, a document for a command
  (`CommandsFit`); what quarantine holds and what was moved out of it is what was
  received (`QuarantineFits`). `RestockedIsSold` and `BooksFollowWarehouse` follow.
* `ReturnsProofs!GoodsMoneyInvariance` adds `MoneyInv`, about the money of the
  commands: cases are completed one after the other, each once (`CompletedFit`),
  and each was given what it took from its lines in that order (`PayloadFits`).
  `AllocationIsExact` follows from lemmas about the operators, for any prices:
  `NetLinesFit` (no line gets a negative share or more than its gross value, and
  the shares add up: the checks at `order_money_allocation.py:106-113` never
  fail), `LeftsFit` (what cases take of a line leaves neither units nor cents
  below zero, and the last unit takes the last cent), `ShareFits`, `SplitIsExact`
  and `RenderingIsExact`.
* `CheckoutProofs!Invariance` proves `IInv`: the checked properties with
  `QuotesTaken` (the quote an order was placed with is not there for another),
  `HoldsFit` (until it is paid or cancelled, an order holds the points it redeems)
  and `RewardsArePaid` (a rewarded order was paid). `PromoCounted`, `HeldIsCovered` and
  `RewardedOnce` are about counters that sum over orders and customers; each step
  moves one order (`MovesOn`, `Placed`) and with it one term of the sum.
* `DeliveriesProofs!Invariance` and `ShippingProofs!Invariance` rest on *credit*:
  what was received or booked, plus the workers that could still send (`Senders`,
  `Bookers`), plus one while the row could come to a worker without a new decision
  (`Owed`), never exceeds what decisions and expired leases allow. A claim turns the row's
  credit into the worker's, a send turns the worker's into the message, and a
  lease that runs out under a holder pays for the next. An error that the job retries
  after the carrier accepted pays for its own booking (`unheard`).
  `ResentOnDecision` and `BookingsAnsweredFor` follow by dropping terms.
  `RefundIsShown` is inductive by itself, given the types. For the shipment, `Prepared` says
  that a ready task never goes back, and `ReportsAreReal` that a booking reported
  as made was made.
* `MediaProofs!Invariance`: a command exists only for an upload that can no
  longer commit (`UploadSound`), so a worker that found no asset may delete as
  late as it likes (`WorkerSound`). `AssetsAreStored` and `OrphansAreKnown` follow.
* `PilotProofs!Invariance`: whoever holds the row's lock over several steps
  checked row, slots and control file when it took it, and none of that changes
  before it lets go (`LockHolds`); a backup is a state the pilot has been in
  (`BackupFits`). The three action properties follow, for control files of any
  length, whatever is copied back into their place.

Two forms of induction recur. Sums: a fold takes the elements of a finite set in
an order that is its own, so `SumRemove`, that any element may be taken first, is
proved by taking the smallest of the subsets for which it would fail
(`SmallestSet`); what a sum gains, loses or bounds follows from it. Each proof
module that sums has these lemmas, since their proofs depend on nothing but the
library. Recursive functions (`NetLines`, `LineLeft`): that the function exists
(`NetLeftExists`, `LeftsExist`) and what it computes are proved by the least index
at which it would fail (`LeastNumber`); the library's induction theorems take an
operator and cannot be used.

Every inductive invariant was checked by TLC on the instances above, or smaller ones,
before it was proved. `TypeOK` is proved and not among the properties of the
`checkout`, `payment_safety`, `stock_sync`, `refunds`, `shipping`, `deliveries`, `media` and
`pilot` runs for that reason.

Only model-checked: the liveness properties `LatestMoneyIsNoticed`,
`TransactionsEnd`, `BoundRefundEnds`, `DeliveriesEnd` and `CleanupEnds`, which
the proof system does not reach, and the violation of `NeverReleasedAndSold`.
Every invariant, action property and refinement of the other runs is proved.

## Where code and documentation disagree

Shown by a run:

* `payment_sold_twice`: `services/inventory_movement_contract.py:19-21` gives
  each order one chain, released or sold. The run finds both on one order. A
  request applies an old answer about payment 1 and completes attempt 2 with
  payment 1's id (`services/payment_creation.py:282`), so payment 3 is offered
  while payment 2 is still being created. The notice of payment 2's expiry
  inserts a row newer than payment 3's; the notice of payment 1's expiry is then
  not stale any more and cancels the order; a late review takes the order out
  of `cancelled`; payment 3 succeeds and its stock is sold.

Seen while exploring the models, each as a counterexample of the property the
text states; no run keeps them:

* The job promises to "Recover unresolved YooKassa payments when an HTTP
  callback is missed" (`jobs/payment_jobs.py:108`), but it looks at one row of an
  order only. It says that the provider's answer "is revalidated after the local
  rows are locked again"; its review of a refused settlement locks them again and
  overwrites whatever it finds, a settlement by the webhook included: without
  `Overwritten`, TLC reports `SettledUnlessOverwritten` violated in 11 states.
* The movement contract says "payment review/cancellation releases it without a
  sale"; no way into payment review touches the stock.
* "Terminal local success is monotonic: stale review evidence must not demote
  the return/order" (`api/returns.py:124`), and "Once local success is finalized,
  no later response may demote it" (`services/refund_state.py:99`). The code looks
  only at the return's own success. Two approvals of return 1 are in flight; the
  first learns that the provider canceled it; return 2 is requested and refunds
  the order in full; the second approval's late answer rewrites the order's
  status to `partially_refunded`, and no later step of the model sets it right. Without its exception
  for a canceled refund, TLC reports `OrderMatchesRefunds` violated in 12 states.
* "A booking outcome must be reconciled by an operator, not retried blindly" and
  "Never blind-retry that state and risk a duplicate booking"
  (`jobs/delivery_provider_jobs.py:24`, `:54`). That is done for a timeout and for
  an answer without an identifier. Any other exception of the adapter is retried
  (`:124`), a connection that broke after the carrier accepted included: without
  `unheard`, TLC reports `BookingsAnsweredFor` violated.
* A failed refund "releases the capacity for a later request"
  (`docs/refunds/FINANCIAL_ITEM_ALLOCATION.md:62`), but a late answer puts it back
  in flight without asking whether a later request has taken that capacity. Both
  then fail `_validate_specs`: neither can be approved again, and a success of
  either is put in review instead of being recorded.
* "A provider retry may reuse the same evidence" (the same, line 65). The cents of
  a return by quantity depend on what was reserved when it was approved. An order
  of four units for two cents: return 1, of one unit for a cent, failed and is
  being tried again when return 2, of the other three, is approved for a cent.
  Return 1 fails again, and the provider pays return 2: three units alone would
  be two cents, so `_validate_specs` refuses to record it and every further
  approval. It stays in review until return 1 is tried once more. TLC reaches
  this state in 12 steps.
* "While resalable physical-return evidence is not fully reconciled, *no*
  differing absolute MoySklad snapshot may overwrite the local variant"
  (`services/moysklad_stock_authority.py`). The decision is made without a lock
  and `adjust_stock` locks later, so a return inspected in between is overwritten
  (`raced` in `ReturnsAreKept`); and an event stamped before a catch-up but
  committed after it counts as reconciled at once (`overlooked`).
* A delivery that failed can be sent again after the order was refunded in full:
  only a shipment that is still `created` looks at the order
  (`services/delivery_providers.py:235`, against
  `docs/PRODUCTION_READINESS_MASTER_PLAN.md:180`).

Read in the code:

* The payment job locks Payment before Order (`jobs/payment_jobs.py:156-167`), and
  a synchronisation keeps variant rows locked in the listing's order until its
  page commits, against "Deterministic multi-row locking rule" of
  `docs/DATABASE_LOCK_ORDER.md`. `StockSync` has the second: its circles are ended
  by the database (`SyncAborts`). Started by an administrator (`api/moysklad.py:40`)
  the synchronisation does not take the scheduler's advisory lock.
* MoySklad's `stock` of the sellable store still contains goods that were sold
  and not yet shipped (their demand does not exist), so a synchronisation offers
  them again, against "no oversell or negative inventory"
  (`docs/PRODUCTION_READINESS_MASTER_PLAN.md:175`). In the model this is a snapshot
  like any other. A catch-up's floor is not lowered by later sales, which then
  block the variant's synchronisation until it is restocked.
* `_provider_returns_exported` looks at the case's latest command whichever
  disposition it is for.
* The generic fulfillment gateway cannot work: `start_admin_fulfillment_via_generic_patch`
  (`api/order_cancellation.py:144`) passes `(db, task, "picking")` to
  `update_fulfillment_status(db, order, task, status, comment)`.
* A partial refund after the order was ready or shipped leaves its status where
  no later shipment step accepts it. The export of a demand is parked in review
  if the delivery fails before the worker ran, that of a customer order while a
  refund is processed.
* `refund_retry_required` is in one of two lists of settled statuses
  (`order_statuses.py`, `services/payment_creation.py:30-39`).
* Pilot: an operator's STOP of a completed pilot changes nothing
  (`docs/pilot/pilot_runtime_guard.md`); the refund and payment jobs open a review
  without stopping the pilot (`docs/pilot/pilot_payment_circuit_breaker.md:43-50`,
  `ReviewOpensQuietly`); a check that fails persists a stop
  (`docs/pilot/operational_queue_safety.md:66`).
* Media: a request that dies between its write and its enqueue leaves an object
  nobody knows of (`lost` in `OrphansAreKnown`); the documents speak of database
  outages only. A replay does not reset a command's attempts.

## Plan

What is left, in the order of what it would add:

1. Refunds of orders of several lines and with paid delivery, and the comparison
   of what was refunded with what came back (`reconcile_refund_allocations`): a
   composition of `Refunds` and `ReverseLogistics`, whose shares round alike only
   if units come back in the portions in which they were refunded.
2. `LockOrder`: the row locks of all transactions, against the documented order,
   with the job that locks Payment first.
3. The identity of MoySklad's rows (`_resolve_assortment_identity`): a
   synchronisation that renames, merges and deactivates products.
4. An abstract specification of an order's payments that `PaymentFlow`
   is shown to implement.

## Not modelled

Inside what is modelled: row locks within the payment transactions (see
`LockOrder`); amounts of payments, and the answers that fail an amount check,
which trip the pilot (`Trips`); refunds of several lines or of paid delivery
(each line has the limits of the one that is modelled); the limit of 50 candidates per run of the refund job;
prices, delivery zones and tariffs; the texts, signatures and backoff of
messages and which notification an event queues; image processing; which row of
MoySklad is which product; the legacy financial sales return; a newer provider
command about the same return, which blocks the synchronisation again until it
is sent. Each narrows what may happen or says nothing about the properties.

Whole components:

* Authentication, sessions and roles: they have row locks of their own, but
  nothing modelled depends on them, and they are rather the subject of a security
  review.
* Catalog, search, recommendations, CRM, campaigns, analytics: single-row edits
  and derived data.
* Manual payment reconciliation: compares provider and order and opens or closes
  case rows; it changes no order and no payment, so an order in review leaves it
  by a webhook or the job only. That a mismatch stops the pilot is `ReviewOpens`.
* Order life cycle audit, operational reports and diagnostics: read-only.
* Privacy export and erasure: one transaction per request; consent is in
  `Deliveries`.
* Front ends and the bot, but for its notification worker: transport and user
  interface.
* Scripts (some 32,700 lines, near half of the repository): build, backup,
  release evidence, smoke tests and governance checks, which decide on files and
  keep no state of the shop; what they do to the pilot's control file and to its
  rows is in `Pilot`. They, the catalog, schemas and migrations are why the map
  covers about 15 % of the repository's lines.

## Running

    tlc -workers 2 -config checkout.cfg MCCheckout
    tlc -workers 2 -config payment_safety.cfg MCPaymentFlow
    tlc -workers 2 -config payment_recovery.cfg MCPaymentFlow
    tlc -workers 2 -config payment_sold_twice.cfg MCPaymentFlow
    tlc -workers 2 -config stock_sync.cfg MCStockSync
    tlc -workers 2 -config refunds.cfg MCRefunds
    tlc -workers 2 -config refunds_recovery.cfg MCRefunds
    tlc -workers 2 -config shipping.cfg MCShipping
    tlc -workers 2 -config reverse_logistics.cfg MCReverseLogistics
    tlc -workers 2 -config deliveries.cfg MCDeliveries
    tlc -workers 2 -config media.cfg MCMedia
    tlc -workers 2 -config pilot.cfg MCPilot

    tlapm CheckoutProofs.tla
    tlapm PaymentFlowProofs.tla
    tlapm InventoryProofs.tla
    tlapm ReturnsProofs.tla
    tlapm DeliveriesProofs.tla
    tlapm ShippingProofs.tla
    tlapm MediaProofs.tla
    tlapm PilotProofs.tla

`payment_sold_twice` ends with a counterexample, every other run without error
and within about two minutes.
