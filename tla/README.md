# Verification of the Africa Meals API

TLA+ models of the parts of this NestJS API where several requests, processes,
crons and restarts meet on the same documents; TLC configurations that check
them on small instances; TLAPS proofs of what matters most for any instance.

## 1. Inventory

The API is about 250 000 lines of TypeScript: some ninety NestJS modules over
MongoDB (Mongoose), Redis (cache, BullMQ), Stripe and a WebSocket companion.
PM2 runs several identical processes (`ecosystem.config.cjs:40`). There are no
transactions: every `await` of a handler is a point where another request, a
cron or another process may run, and handlers coordinate through conditional
updates (`updateOne({_id, status: ...})`), unique indexes, and too often
through read-then-`save()`.

| Component | State | Operations | Hard behaviour | What makes it correct |
|---|---|---|---|---|
| `delivery-order-offer` | `delivery_order_offers` rows, `order.activeDeliveryOfferId`, in-memory queue per order and process | start cascade, hard assignment, offer to next, accept, reject, expire (cron), settle after a claim | unlocked handlers, queue lost by a restart, one queue per process, acceptance in three writes | one pending offer, final answers, exclusivity, the cascade ends |
| `delivery-agent` | `order.assignedDeliveryUser`, status, courier's availability | claim (`assignSelfToOrder`), abandon, hand-off | check-then-act claim, blind save on abandon | one courier, never displaced |
| `orders` | order document | mark ready, reject, hand-off, pickup codes | read-then-save | status moves forward only |
| `dashboard` | same order document | manual assign, reassign, release | read-then-save against conditional claims | an order reopened or displaced is not paid again |
| `refunds` | `order.refundRequestLog`, settings | request, pause, resume, cancel, process, cron pass | Stripe calls between saves, no idempotency key | refunded at most once, never stuck |
| `billing/stripe`, capture | payment intents | deferred capture, cancel | capture against cancel | captured or released |
| `billing/stripe`, grouped checkout | `stripe_processed_checkouts`, in-flight map, orders | webhooks, confirmation by the client, one task per store | redeliveries, restarts between insert and payment, a key per event, gifts the recovery cannot see | one paid order per store of a basket |
| `billing/stripe`, transfers | Stripe transfers, `order.stripeDeliveryTransferId` | payout of the courier, settling pass, administrator's payment | list-then-create, restart before the record | the share paid once, and paid |
| `store`, `drinks`, `product-bundles`: stocks | quantities of drinks, bundles, daily menu | conditional decrement, restore, rollback, edit | several stocks taken one after the other, no transaction | nothing oversold, nothing lost |
| `domain-events` | idempotency keys (Redis, memory), two BullMQ queues, cached settings | publish, dispatch, handle | Redis or broker outage, lost replies, connections given up, key claimed before dispatch | handled once, not lost |
| `pending-delivery` | the proof of an order | submit, confirm, dispute, review, close by hand or cron | cron against a user's answer, completion against release | old proofs never hide an order |
| `ws-notify` | dispatch queue | notify by gRPC, HTTP, MQTT, queue, direct | fallbacks after partial success | delivered at least once |
| `gift-codes`, `coupons`, `loyalty` | balances and counters | reserve, redeem, release | concurrent redemption | never below zero |
| `auth` | refresh-token and link-token stores | issue, rotate, consume | double use, store fallback | single use |
| `cron-monitor` | run log | execute | no lock, every process runs every cron | passes tolerate overlap |

`PROJECT.json` lists every component, also those left out (CRUD, notification
and map I/O, search, recommendation, settings), with the reason.

Interaction around a delivery: `orders.markOrderReady` saves the order
*approved* and, without waiting, calls the offer service, then the marketplace
fan-out; the offer service reads and writes the order's pointer and calls
`assignSelfToOrder` of the courier service on an acceptance or a hard
assignment; that service calls back `assertClaimAllowedDuringOffer` before, and
`markAcceptedAfterDirectClaim` (detached) after its conditional update.

Interaction around a payment: a webhook (or the handler of the domain event it
was turned into) and the client's confirmation call the grouped checkout; each
store's task calls `StoreService.createOrderFromCart`, which reserves the stocks
and calls `OrdersService.createFromCart`, then `markOrderPaidWithShipping`. A
delivered order starts the courier's payout, detached.

## 2. Modules

| Module | What it is |
|---|---|
| `CourierAssignment` | Abstract: one courier holds an offer, one courier has the order, each is given back before it passes on, no offer is held for ever |
| `OfferCascade` | The assignment of one ready-to-ship order as the code does it |
| `MCOfferCascade` | Symmetry for TLC |
| `MCOfferCascadeParts` | Two questions about the cascade in one run, each in its part of the state space |
| `OfferCascadeProofs` | Typing, one pending offer, kept courier, refinement of `CourierAssignment`, for any constants |
| `OfferAnswersProofs` | Final answers, honoured offers, for any constants; nobody asked twice, for one process and one mark-ready |
| `RefundRequest` | Abstract: the life cycle of a refund request; completed only when the customer has been made whole |
| `RefundProcessing` | The refund of one cancelled order, with the capture or release of its payment |
| `MCRefundProcessing` | Symmetry for TLC; one `.cfg` per question |
| `RefundProcessingProofs` | Typing, one open request, recorded capture status, for any constants |
| `RefundHistoryProofs` | Kept history, refinement of `RefundRequest`, money only on approval, one refund |
| `PaidOrders` | Abstract: each store of a paid basket gets one order, unless its promise has lapsed; receipts name one that carries the payment or nothing |
| `CheckoutFulfillment` | From the success of a grouped payment to its paid orders |
| `CheckoutFulfillmentProofs` | One order per store, true receipts, refinement of `PaidOrders` |
| `StockReservation` | The stocks an order takes, and gives back when it fails |
| `StockReservationProofs` | Sums over checkouts; typing, stock lost bounded by the failures that lose it, daily menu never oversold, for any constants |
| `DomainEvents` | The publication of one event: claim, handler, bus, the two queues |
| `DomainEventsProofs` | Typing; executions of the handler accounted for by claims, expiries and jobs taken over |
| `DeliveryCompletion` | From the claim of an order to its hand-off, proofs of absence, and the courier's pay |
| `DeliveryCompletionProofs` | Typing; no courier paid twice, a share transferred not transferred again, truly recorded; stale proofs purged |
| `MCCheckoutFulfillment`, `MCStockReservation`, `MCDomainEvents`, `MCDeliveryCompletion` | Symmetry for TLC |

The detailed modules each stand alone: what one of them writes and another
reads is a status the first only leaves once. `OfferCascade` and
`DeliveryCompletion` both contain the claim, the first with the reads that
precede it, the second as the conditional update it ends in, which is all that
the handlers around a delivery can tell. `CheckoutFulfillment` sees of the
stocks only that the creation of an order may fail.

### `OfferCascade`: state and steps

*Documents* - `order` (status, courier, `activeOffer` =
`activeDeliveryOfferId`), `offers` (the rows; status `free` when a row does not
exist yet; `due` when `expiresAt` has passed), `available` (the courier's
application as `isAgentStillEligible` sees it). *Memory* - `cascade` (per
process, `cascadeByOrderId`) and `queues`: a call keeps the queue object it got
from the map, so an entry may be replaced while an older call still takes
candidates from the old object; that is why queues have identities (`Handles`).
*Control* - `job[t]` is the call thread `t` is executing: couriers (one request
at a time), the vendor's calls, the expiry cron of each process. `settle[a]` is
the detached `markAcceptedAfterDirectClaim`. *History* - `won`, `orphans`, and
`job[t].seen`, only read by properties.

Every database operation is one step, named after the code: `NextRead`,
`NextRebuild`, `NextTake`, `NextCreate`, `NextPublish` are the awaits of
`offerToNext`; `AcceptClaim`, `AcceptClear`, `ClaimCheck`, `ClaimReadActive`,
`ClaimReadOffer`, `ClaimWrite`, `AcceptUndo` those of an acceptance, and so on.
Synchronous code up to the next await belongs to the step before it. A restart
(`Crash`) forgets the calls and queues of one process and keeps documents.

Abstracted: costs (the ranking is any order of the available couriers), the
content of notifications (kept: whether staff or marketplace were told), the
read of the store (its mode and policy are constants), the checks only the
claim makes on the courier (`Payable`), Stripe and accounting effects of
mark-ready and reject. Two adjacent reads with nothing written between them are
one step: availability, capacity and the order in `ClaimCheck`; the ranking and
the rows already offered in `NextRebuild`; an ineligible courier's check and
the row `skipped` in `NextTake`; and the failed update of a claim with the
re-read that explains it in `ClaimWrite`. A refusal found by an earlier read is
raised when that read is made, before the exclusivity reads. `Exhaust` deletes
the queue and unsets the pointer in one step, and `ClaimWrite` starts the
detached settlement also when the code, reading the order again, finds another
courier and leaves it: the first joins a write of memory nobody reads meanwhile
for that order, the second allows more than the code does.

### `RefundProcessing`: state and steps

*Documents* - `order`: status, who cancelled it (`source`), recorded capture
status (`stripeCaptureStatus`), and `log` (`refundRequestLog`: status, author,
imposed fee, and whether the entry carries a split of amounts); `paused`, the
global switch of the settings. *Stripe* - `pi`, the status of the payment
intent, and `refunded`, how many refunds of the order's amount were made.
*Control* - `job[t]` is the request thread `t` executes, with the log it
loaded: vendor calls (`Rejects`, `Readies`), customer calls (`Cancels`), the
cron of each process, administrators. After a rejection the same thread may go
on as the handler of `order.cancelled` (`EventsOn`).

Every read, save and Stripe call is one step. `processRefundForOrder` is
`ProcessLoad`/`AdminProcess`, `Approve`, then `Release`, `ReleaseCancel`,
`ReleaseMark`, `ReleaseDone` when an authorization was still open, or `Refund`
and `Complete`/`Failed`. `rejectOrder` is `RejectLoad`, the same release steps,
`RejectSave` or `RejectRefund`. `markOrderReady` is `ReadyLoad`, `ReadySave`,
then `CaptureRead` to `CaptureMark`. A decision of an administrator is `Decide`
(load and check) and `DecideSave`.

*Saving.* What makes these read-then-save handlers work, or fail, is Mongoose.
`save()` writes the paths that changed. All writers of the log replace the
array, and a replaced array makes Mongoose put the loaded `__v` into the filter
and increment it; when the document moved, the save throws a `VersionError`.
`Refused` and `Save` say this, with the version reduced to what is ever asked of
it: did somebody write the log since this document was loaded (`job[t].stale`).
Three things follow from the code and are in the model. A save that leaves the
log as it was (mark-ready, an approval that changes nothing) is unconditional.
The other fields of a save are not protected unless the log changes with them.
And `submitRefundRequest` loads the order with an inclusive `select` without
`__v`: Mongoose then has no version to compare, the log is written blindly and
the version of the others does not move (`ClientSave`). This is a fact about the
library, modelled from how the code uses it.

Abstracted: amounts (one fee stands for the whole split), notifications and
e-mails, the ledger, the reversal of courier and vendor transfers (idempotent
and without effect on the request), the delay before a request is processed
automatically, the expiry of an authorization at Stripe. The read of the
settings and the query of the cron pass are one step; so are a load and the
checks on what it loaded.

### `CheckoutFulfillment`: state and steps

*Documents* - `cart[s]` (whether the customer's cart of a store holds items),
`orders` (status *created*, *paid*, or *moved* on by the vendor; the payment
they carry, `stripeParentPaymentId`; whether they are younger than fifteen
minutes), `doc[key]`, the row of `stripe_processed_checkouts` of a key: an event
of the checkout session is keyed *cs*, one of the payment intent and the
client's confirmation *pi*. *Control* - `call[c]` and `slot[c][s]`, a call and
its task for each store (they run in `Promise.all`). The in-flight map of a
process is the set of calls working in it (`InFlight`).

`fulfillOrdersAfterStripePayment` is `Start` (join a call in flight or run),
`Load`, `Check` or `Create`, the stores' tasks, `Save`. A task is `Prior` (the
row of an earlier run), `FindPaid` and `FindCreated` (the two queries of
`findRecoverableOrderIdForStorePayment`), `Cart`, `Insert`, `Clear` (the
creation of an order), `Mark`, `Verify`. `StoreFails` is an exception inside a
task, `CallFails` one of the call, `Crash` a restart of the process.

Both queries of the recovery ask for orders whose user is the payer, whereas the
order of a gift belongs to its recipient: `basket.gift` is chosen at the start
(`Gifts`), and for a gift `Carrying` and `Unpaid` are empty. `basket.refilled`
is history, the stores whose cart was filled again; `Kept(s)` says that this did
not happen to the cart of a gift. In `PaidOrders` the promise of a single order
may lapse for such a store (`Lapse`).
Abstracted: amounts, coupons, gift codes, mails, transfers to vendors. Not
modelled: the pre-order named in the metadata and the third query of the
recovery, which only pre-orders can match, and baskets paid partly in cash.

### `StockReservation`: state and steps

`stock[r]` for each row in the order the code takes them: drinks, bundles,
dishes and bundles of the daily menu; `cart[u]`; `call[c]`, the checkout with
what it wants and has taken. `Start` reads the cart and inspects those stocks
that the kind of order inspects (`Inspected`); `Take` is one conditional
decrement; `TakeFails` is an exception of it, before or after the decrement: the
status of a drink or bundle is updated after it, and the row is listed as taken
only then, so that the catch block does not know it. A missing drink or bundle
rolls back before it throws (`Missing`);
`ReadAgain`, `Insert`, `Clear` create the order; `Undone`, `Restore`,
`RestoreEnds` are the catch block, run a second time when the first rollback was
the inner one. `supply` and `booked` are history: what was put on sale, what was
taken for orders that exist. Rows without limit never refuse and are left out;
so are edits of a cart during its checkout, the alerts that follow a stock
change, and dishes listed in several lines of a cart.

### `DomainEvents`: state and steps

One event, published any number of times by any process. `claimed` is its key in
Redis, `memory[p]` the fallback map of a process, `pub[d]` a call of
`publishEnvelope`, `task[d]` the detached `scheduleInProcessHandler`, `hjob` and
`bjob` the jobs of the two queues (the job id is the event's, so a queue holds
at most one), `cache[p]` the settings a process last read, `settings` those in
the database. `open[p]` are the BullMQ connections of a process that ioredis has
not given up: the one both queues share, those of its two workers; *later*
before a process started without Redis has made any (`Connect`).

*Faults.* A claim falls back on the memory of its process on any error of `SET`
and without a client, whether Redis is down or not (`ClaimInMemory`); a `SET`
that was done may have its reply lost and be sent again, or decided in memory
(`ClaimReplyLost`). The key expires (`Expire`), finished jobs are removed and
may be queued anew (`Removal`). A command of BullMQ waits while its connection
is retried (`maxRetriesPerRequest: null`); an add that is rejected may have been
done all the same (`ScheduleRefused`, `DispatchRefused`). After thirty attempts
(`redisRetryStrategy`), or when `InfraRecoveryService` finds the connection not
ready and quits it, the connection is gone (`GiveUp`): `ensureBullQueues`
replaces neither a queue nor a worker that exists, so that publications of that
process then run in process (`ScheduleNoQueue`, `DispatchNoQueue`) and its
workers take nothing until a restart. A worker whose lock expires loses its job
to another while it is still at it (`Overrun`). BullMQ itself is external:
`Added` keeps an existing job, `Stalled` gives a job back once.
`strays` counts the claims decided in memory, `repeats` the executions handed to
a second actor. Not modelled: the gRPC variant of the bus, the content of events.

### `DeliveryCompletion`: state and steps

`order` (status from *approved* to *completed*, `courier`, whether a proof is
linked to it, the transfer it names), `proof` (its status and courier),
`transfers` (what exists at Stripe: destination, amount, kind of idempotency
key), `call[h]`, a handler between its read and its save, with what it read.
`ReleaseRead`/`Release` are the abandon and the dashboard's release;
`AssignRead`/`Assign` and `ReassignRead`/`Reassign` the dashboard's assignments,
each followed by `Unlink`; `SelfAssignRead` the vendor who delivers himself, whose
save is one of these two; `HandoffRead`, `VendorHandoffRead`, `Handoff` the
customer's code; `SubmitLoad` to `SubmitLink` the proof of absence,
`AnswerRead`/`Answer` the customer's and the administrator's verdicts,
`CloseRead`, `Finalize`, `Complete`, `CompleteSave`, `Close` its closing by hand,
review or the daily pass. `Pay*` is `transferDeliveryShareForCompletedOrder`:
read the order, ask what is left on the charge, list the transfers, create,
reconcile after a refused key, record. `PaySkip` is any of its skips (charge not
resolved, nothing left of the share, account not ready). The amount it computes
also depends on the other transfers of the charge, on settings and on a fee
cached per process: `PayRemaining` lets it differ from the first one whenever a
transfer of the share exists, and otherwise counts the difference with the
troubles of Stripe. `SettlePass` is the settling cron; it takes any unsettled
order, at any time or never: the thirty latest of two weeks that the code takes
depend on other orders.
Mongoose saves only changed paths: a save that finds the courier it wants
already there leaves the field alone, which `Assign` and `Release` say; `SubmitLink` sets
the link even when the order loaded had it already, which allows more.
Abstracted: tours, capacity, mails, tips, the badge payout that follows, days
(any proof may be due, any order within the cron's window).

### Bounds

`OfferCascade`: `MaxOffers` rows (a step that needs one more waits), `Handles` live queue
objects (freed as soon as nothing refers to them), `MaxCrashes` restarts, one
use of each vendor call. `Claimers`, `Quitters`, `Rejecters` and `Fickle` say
who may claim, abandon, reject or change availability: they keep each run to
its question, together the runs cover all of them. Two couriers are enough for
every race of the list below (exclusivity, displacement, handing an offer on);
three rows let an offer be made after an abandon. In `claims` two rows bound how
often an offer is made; in `restart`, with one process, each courier is asked
once, so rows never run out. `claims` asks two questions, each in a part of the
state space: the constraint `InPart` of `MCOfferCascadeParts` keeps a state where
there is at most one mark-ready, in two processes, or where at most two vendor
calls (a rejection among them) overlap in one process, three actors under way at
a time; there couriers claim only what they were offered. A part only restricts
which requests are made, never a step of a request under way.
Deadlock checking is off everywhere: once nothing is under way nothing more has
to happen, and nobody is obliged to send a request.

`RefundProcessing`: one use of each vendor and customer call, `MaxDecisions`
requests of administrators, `MaxFailures` refunds that Stripe fails for no
lasting reason (it always fails those it must), `MaxKills` requests that die
half way, `Capacity` refunds of this amount the payment can bear (two when a
payment covers several orders: only then does Stripe let a second refund
through). Two processors meet in every order; a third adds an order of
writes already met, as only one of them holds a document that is not stale.
In `refund_vendor` one decision, one failure and one death keep two rejections,
mark-ready, the handler, the cron and an administrator within reach.
One fee different from none tells an override from none.

`CheckoutFulfillment`: two deliveries, two stores, four orders (more are never
made), one vendor's move, one failure, one restart; a third delivery in the
process only joins or repeats what the second does. `StockReservation`: two
checkouts, one row of each kind, quantities and stocks up to one, an edit, two
failures: enough for both to want the last unit, for an edit between, and for a
failure of the rollback of another one. `DomainEvents`: two publications, two
processes, two attempts, two faults of any kinds (an outage, a command without
a reply, an expiry, a connection given up, a restart...), which is what it takes
to lose one worker and then stall the other's job. `DeliveryCompletion`: two handlers at a time, five requests, one failure
or skip and one trouble of Stripe or moved amount: enough for claim, completion, reassignment and two
payouts in one behaviour; `share_twice` needs four requests and no fault.

### Fairness

`FairSpec` assumes weak fairness of the continuation of each call, of the
detached settlement, of the cron (`@Cron('*/15 * * * * *')`) and of time. Node
runs every continuation it has queued, MongoDB answers or throws. Requests of
couriers and vendors, changes of availability and restarts are never fair.
For refunds, `Fairness` is weak fairness of the continuation of each request
and of the cron (`refund-processing.cron.ts`, every fifteen minutes).
Decisions, cancellations, failures and deaths are not fair.

`CheckoutFulfillment`: the continuation of each call and task, and the delivery
of Stripe's events, which are sent again until they are answered; not the
client. (With domain events switched on, the webhook answers before the
fulfilment runs and a failed handler is not run again: then only the client's
confirmation repeats it.) `DomainEvents`: weak fairness of what a publication has
begun and of the workers of a process that have their connection. Nothing is
assumed of Redis, of the broker or of a connection that was given up: the
properties name what they need, that Redis comes back for good and that some
worker of the queue keeps its connection (`Served`). No fairness of faults,
recovery or publications. `DeliveryCompletion`: weak fairness of each handler's
continuation only. That the settling pass goes on selecting the order
(`Selected`) is an antecedent of `CourierIsPaid`, since the cron does not
guarantee it: see below.

## 3. Runs

Each name is a run of `PROJECT.json`; its `.cfg` is `<module>_<run>.cfg` with the
MC module named there (`MCRefundProcessing_<vendor, once, ends>.cfg` for
refunds).

| Run | Question | Result |
|---|---|---|
| `claims` | two processes and crons, two couriers that answer and claim; or two overlapping mark-readies and a rejection: one pending offer, exclusivity, displacement, final answers, no stranded acceptance | holds |
| `restart` | a restart at any step, changing availability, a direct claim, an abandon: nobody asked twice, no stranded acceptance but the killed one, the cascade ends, `CourierAssignment` implemented with its liveness | holds |
| `refund_vendor` | two rejections with the event handler, mark-ready, a cron, an administrator, a death: one open request, true capture status, `RefundRequest` implemented, history kept | holds |
| `refund_once` | single processor, single rejection: refunded once, money only on approval | holds |
| `refund_ends` | the request of a customer's cancellation is processed in spite of failures and pauses, along `RefundRequest`, history kept | holds |
| `paid` | webhook and client, a failure, a restart, a late redelivery, a cart filled again, a gift or not: one paid order per store (of a gift, as long as its cart is not filled again), true receipt, `PaidOrders` implemented, the basket served | holds |
| `events` | an event published twice through outages, refused or unanswered commands, expiries, connections given up, restarts, switches: handled once but for memory claims, expiries and jobs taken over; each execution claimed; handled and delivered in the end if one worker keeps its connection | holds |
| `delivery` | claims, dashboard, the vendor's own delivery, hand-off, proofs and payouts in any order: old proofs purged, no courier paid twice, a share transferred not transferred again, truly recorded, and recorded in the end | holds |
| `stock` | two checkouts, two errors or restarts, an edit: no stock lost but one cart's quantity per failure that loses it, the daily menu not oversold | holds |
| `twice` | a payment pays one order per store when its two webhooks come at once | **violated** |
| `share_twice` | the delivery share is transferred once | **violated** |
| `stock_twice` | giving back undoes what was taken, once | **violated** |

`HonoursLiveOffer` is what the code does ensure of exclusivity: an offer that
was live for someone else when the claim read the order blocks the claim as
long as it stays live.

`twice`: the session is created with the same metadata on its payment intent, so
Stripe sends `checkout.session.completed` and `payment_intent.succeeded` for one
payment, keyed differently; when both are served at once, each inserts an order
from the cart before the other clears it. `share_twice`: two payouts
both list no transfer; a reassignment between their reads, or what the first
left on the charge, gives them different idempotency keys. `stock_twice`: the
rollback before the exception and the one in the catch block both give back the
first drink.

What the code does not promise, and the properties therefore do not state:

* That a quiet order has no pointer to a closed offer: `NextCreate` and
  `NextPublish` are two writes, and when the offer is answered or the order
  claimed between them, the late publication leaves the pointer. After an
  abandon the marketplace is then never told of the order.
* That an offer of the AUTO fallback cascade can be accepted: under a policy that
  requires the store's own fleet the claim refuses in AUTO what that mode's
  fallback has offered.
* No claim at all while another courier has a pending offer, as the comment of
  `assertClaimAllowedDuringOffer` has it: an offer created after that function
  read the order is not seen by the claim that follows.
* `AskedOnce` with two processes: each has its own queue and two of them do ask
  a courier twice.
* That the cascade ends after a restart: a restart between the expiry of an offer
  and the next one leaves nothing that would resume; `CascadeEnds` names it as
  one of the ends, as it does an acceptance whose claim fails.
* That a candidate whose insert failed is asked later, or that a courier's
  capacity holds over claims of two orders at once.
* That the log of a refund survives a customer's cancellation that overlaps a
  rejection: that save is not versioned and overwrites what was written, or
  refunded, since it read the order.
* That a paused refund is left alone: the pass queries pending requests and
  processes them one after the other; `processRefundForOrder` reads the order
  again but accepts *paused*. The global pause is read by the pass only, not by
  the handler of `order.cancelled`.
* That nobody asks for a refund of a released authorization: two rejections both
  pass the status check; the second finds nothing to release and asks for a
  refund of money never taken, which Stripe refuses every fifteen minutes.
* With several processors (a cron in each process unless
  `DISABLE_REFUND_PROCESSING_CRON` says otherwise, the handler, an
  administrator) a request already *approved* by one is processed again by the
  next; the Stripe call has no idempotency key. Only the balance of the payment
  prevents a second refund, and it does not when the payment covers several
  orders. `refund_once` has one processor. Likewise a mark-ready that saves over
  a cancellation reopens the order to a second rejection and a second request,
  hence the single rejection.
* A process that stops between the refund at Stripe and the save of *completed*,
  or a release that throws because the payment was captured meanwhile, leaves
  *approved*, which the pass never selects. `RequestEnds` is checked without
  deaths and without a concurrent capture.
* A mark-ready saved over a cancellation leaves an open request on an order that
  is not cancelled: no processor takes it.
* A fee override saved while the refund is under way makes the save of
  *completed* fail after the money has moved.

* One paid order per store with several processes: the in-flight map is a
  process's own, and two of them race like the two keys of `twice`.
* One paid order per store for a gift. The recovery asks for orders of the payer
  (`orders.service.ts:1550`, `1563`), the order of a gift has the recipient for
  user (`1372`), so a redelivery after a restart, or once the receipt could not
  be verified, finds nothing and creates an order from what the cart then holds.
  While the cart stays empty the basket is not served again; when the customer
  has filled it since, a second order is made and paid with the same payment
  (checking `OnePaidOrder` without `Kept` shows it: paid, cart cleared, restart,
  cart filled, redelivery). `OnePaidOrder` and `PaidOrders` except a gift whose
  cart was filled again, `BasketFulfilled` a gift cut short by a restart.
* That a basket is served when a redelivery comes more than fifteen minutes after
  an order was inserted and not paid, or when an exception inside a store's task
  was swallowed: the webhook is answered all the same. `BasketFulfilled`
  excludes both.
* That an order the vendor moved on keeps its status when its payment is
  confirmed again: completeness asks for status *paied*, and the update that
  follows has no condition.
* That stocks survive a restart in the middle of a checkout, a failed
  restoration, or an exception between the decrement of a drink or bundle and its
  entry in the list of what was taken (the status update of
  `drinks.service.ts:1262`, `product-bundles.service.ts:682`): `NothingLost`
  bounds what each costs, one cart's quantity of an article. That stock is not given back for an order that exists, when an
  error follows its insertion; that the order holds what was reserved, when the
  cart is edited during its checkout.
* That an event whose publisher died between claim and scheduling, or whose `SET`
  was done but not answered, is handled: its repetition is answered *duplicate*.
  That a failed handler is run again: its exception is logged and its job
  completed. That a publication returns while the connection of its queue is
  retried.
* That an event is handled once: a claim decided in memory (any error of `SET`)
  does not see those of other processes or of Redis, the key expires after
  twenty-four hours, a job queued though its add was rejected runs beside the
  fallback in the process, and an overrun lock gives a job to a second worker.
  `HandledOnce` and `RunsAreClaimed` count exactly these.
* That a queued event is handled or delivered at all once the workers of every
  process have lost their connections: an outage of about two minutes exhausts
  the thirty attempts, and nothing but a restart makes a worker connect again.
* That a courier is not displaced by the vendor's hand-off read before his claim,
  or that a delivered order is not reopened. A release, an assignment or a
  reassignment read before the delivery and saved after it does so; outside the
  module, so do `markOrderPaidWithShipping` on a redelivered payment
  (`orders.service.ts:2433`), and a mark-ready (`3365`) or a rejection read
  before. `NeverPaidAgain` says what this cannot do: have a share that was
  transferred transferred again.
* That the settling pass reaches every order: it takes the thirty most recently
  updated of two weeks (`delivery-agent-payout-settle.service.ts:45-75`), and
  orders it skips for good stay among them. Hence `Selected` in `CourierIsPaid`.
* That the customer's dispute survives a closing, or a resubmission of the proof,
  read before it. That the old proof of an order is purged when its submission
  outlives the assignment, or when a restart comes between the two writes of a
  reassignment.
* One transfer when a listing at Stripe fails (it counts as empty) or two
  requests collide (a key in use is taken for a mismatch, and the request made
  again with a new key), or when the amount moves between two payouts that both
  list nothing: the key contains it, and the same courier is paid twice. Nor that the pay follows a courier changed after an
  administrator paid.

Every property has a mutant of the code (an operator next to the action it
changes) under which TLC finds it violated.

## 4. Proofs

### The cascade (`OfferCascadeProofs`, `OfferAnswersProofs`)

The proofs use only `ConstantsAssumption` (finitely many couriers; couriers,
calls and processes are distinct; `None` is none of them), the last of them also
`OneCascade`.

* `TypeCorrect`: `Spec => []TypeOK`. Not inductive alone: taking from a queue
  needs to know that the call holds one, a claim that it has a courier. The
  invariant `TypeInv` adds `JobOK`, what a call holds at each of its steps; one
  lemma per group of actions, one step per action.
* `OneOffer`: `Spec => []OnePending`. `StatusesMove` shows that a step only
  takes rows out of *pending*, except the insert, which the partial unique
  index only lets through when no row is pending.
* `CourierKept`: `Spec => NeverDisplaced`. `QuitterHolds` says what an abandon
  still knows of the order when it saves blindly.
* `Implements`: `Spec => Assignment!SafeSpec`, the refinement of
  `CourierAssignment` without its liveness. `HolderInv` makes the courier of
  *the* pending offer well defined; a step closes it, opens one when there was
  none, or moves the courier of the order, never two of these at once.
* `AcceptedStands` and `FinalAnswers`: `AcceptedWonOrKilled`, `AnswersAreFinal`.
  `RowsMove` shows that only three steps accept an offer or take an answer back;
  `AnswerOK` says what the call that answers holds: its courier's own offer,
  accepted as soon as it has written, so that the undo, which writes without a
  condition, only ever hits that row.
* `LiveOfferHonoured`: `HonoursLiveOffer`. `Watch` follows the offer a claim saw
  through its two reads; it rests on `PublishOK`, each offer is published once and
  before anyone can have seen it, since otherwise the order could name the offer
  again after the claim had found it gone.
* `AskedAtMostOnce`: `AskedOnce`, assuming `OneCascade`: one API process, whose
  queue is the only one, and one call that marks the order ready. (With two
  processes the property is false: each asks from a queue of its own.) The
  invariant is `AskInv`: the right to ask the next courier is one token, a
  pending offer or one thread past the answer to the last one (`OneAsks`); that
  thread works on the process's own queue or finds it cleared (`OneQueue`); and
  nobody in a queue, nor about to be asked, was asked before or is there twice
  (`NoRepeat`), a queue rebuilt after a restart included. It needs that a
  decline and an expiry each hold a row of their own, `JobOK`, since two
  settlements of one row would be two tokens.

### Refunds (`RefundProcessingProofs`, `RefundHistoryProofs`)

The proofs use only `RefundConstants` (the numeric bounds are naturals, the
capacity is positive, `None` is none of the strings it is compared with); any
number of actors, fees, administrators' operations.

* `RefundTypes` and `OneRequest`, for every constant. The invariant `RefundInv`
  adds that a log is `Ordered` (only its last entry may be open), in the
  document and in every copy a request holds, and `Stage`: whoever is about to
  patch holds an open last entry, whoever is about to append holds no open one.
  `OneRequest` needs no version check: even a blind or refused save writes an
  ordered log.
* `CaptureRecorded`. `LifeInv` adds `Progress`, what a request knows of Stripe
  when it is about to record it: the intent is *canceled* from then on for
  `ReleaseMark`, *succeeded* for `CaptureMark`, since Stripe takes nothing back.
* `HistoryKept` and `RequestLifeCycle` (`Spec => Request!Spec`), assuming
  `OneOrigin`: the customer does not cancel, or cancels once an order that the
  vendor does not reject, since that save checks no version and breaks the first
  when it overlaps a rejection. The invariant is `Fresh`: who may write the log
  and holds a document that is not stale holds the log as it is. So a save that
  goes through changes the log from the one it checked. `FirstAsks` says that
  the customer's is the first request: until it is written nobody holds one, so
  that the unchecked save overwrites nothing. `LawfulStep` says every step leaves
  the log alone, appends a request when none is open, or patches an open one
  along the life cycle.
* `MoneyOnApproval`, assuming `OneProcessor` and `OneOrigin`: `Undisturbed`
  says that from the save of the approval to the call of Stripe the order stands
  approved, because nobody but a processor makes or ends an approval.
* `RefundedAtMostOnce`: `RefundedOnce`, assuming `OneProcessor`, `OneOrigin` and
  `OneRejection`, which cover the run `refund_once`. `PaidFor` says that once
  Stripe has paid the last request stands approved or completed, so that the
  pass, which looks for pending ones, does not take it again; `AskedLast` says
  that a request exists only when the rejection has returned, so that there is
  no second one to pay for. Neither an idempotency key nor the balance at Stripe
  is used.

### The fulfilment of a payment (`CheckoutFulfillmentProofs`)

Under `OneProcess` (one process, `SessionEvents = {}`: the two cases the runs
and the list above show to fail), for any number of stores, deliveries, orders,
failures and restarts, gifts included: `FulfilmentTypes`, `OnePayment`,
`Receipts`, `Fulfils`. The invariant says that at most one call works at a time
(`Alone`, which is what the in-flight map gives), what each task holds at each
step (`SlotsOK`: a task past its queries knows that no order carries the payment;
for a gift the queries tell nothing, and `GiftOK` says instead that a cart that is
full and was never filled again has paid for no order yet), that orders carry the payment at most once per store where `Kept`
(`Unique`), and that what a call read of the document names true orders
(`CallOK`, `ReceiptOK`).

### Events (`DomainEventsProofs`)

`EventTypes`, `ClaimedRuns` and `HandlesOnce` for any constants. `Balance` is
the counting argument: executions, publications and tasks that still owe one,
and a waiting job never exceed the claims granted and the executions handed to a
second actor. `OneGrant` bounds the claims: the key is worth one, each expiry
one more, and a claim decided in memory counts as itself.

### Deliveries (`DeliveryCompletionProofs`)

`CompletionTypes`, `NamedTransferExists`, `SharePaidOnce`, `ShareNotPaidAgain`,
`ProofPurged` for any constants. `PayoutOK` says what a payout knows of the
transfers at each step: one that creates has found none, so it was not told that
part of the charge is gone.
`ShareOK` follows: without trouble at Stripe, a moved amount among it, every
transfer is of the whole share and made with the base key, so that a second one
to the same courier is the same transfer. `ShareNotPaidAgain` needs none of these
conditions: where transfers exist, a payout gets to a creation only through a
listing (`StillSettled`, one case per action), and a listing that succeeds finds
them. `Purged` is behind `ProofPurged`: a review under way has a proof to
review, a submission that nobody outlived is that of the order's courier, and a
handler that changed the courier still owes its purge or has made it.

### Stocks (`StockReservationProofs`)

`StockTypes`, `NoStockLost` and `MenuCovered` for any articles, customers,
checkouts, edits and bounds on faults. `NothingLost` is stated with `Losses`, the failures that lose stock, each
worth `MaxQty`. The last two relate the stock of a row to
a sum over the checkouts under way (`Held`, a fold of the community modules).
The first part proves what that takes: such a sum exists over a finite set, is
the only one, and a change of one summand changes it by the difference
(`TotalChanged`); the induction is over a smallest counterexample, since the
library's induction theorems cannot be instantiated here. `HeldIsTotal` links the
fold to that sum.

Neither property is inductive alone. `StockInv` adds `Sound` for each checkout:
rows are taken in the order of `Rows` (`InOrder`), a checkout that rolls back
twice what it took failed at a drink or a bundle and so had taken nothing of the
daily menu, and one that gives back after its order was made could not clear its
cart. `CallStep` then reduces every action to its own checkout: what it takes
from the stock it holds, what it gives back it held.

### Only model-checked

* Liveness (`CascadeEnds`, `RequestEnds`, `BasketFulfilled`, `ClaimedIsHandled`,
  `BusDelivers`, `CourierIsPaid`, the closing of offers in
  `ImplementsAssignment`): fairness and `ENABLED` are out of the prover's reach.

Every invariant, action property and refinement (its safety part) of a passing
run is stated by a theorem, for all constants or under the named conditions
(`OneCascade`, `OneOrigin`, `OneProcessor`, `OneRejection`, `OneProcess`), which
the constants of the run that checks it satisfy; section 3 says what goes wrong
without them.

## 5. Plan

Done: the modules above, each with its runs, and the theorems of section 4. Next,
in this order:

1. Gift codes, coupons and loyalty (reserve, redeem, release: never below zero),
   as they meet the creation and the payment of an order. To look at first: the
   redemption of a coupon is counted after a read of `maxUses`
   (`coupons.service.ts:404`), and the credit of loyalty points looks for a reason
   it does not write (`loyalty.service.ts:408`).
2. The vendor's share: transfer, reversal after a refund, tips, badge payouts;
   the abstract account of a charge (what leaves it never exceeds it).
3. Several orders: the capacity of a courier, tours, the marketplace fan-out.
4. `WsNotifyDispatch` (fallbacks after partial success), the token stores of
   `auth` (single use).
5. Pure algorithms: refund split (parts add up to the amount), tip allocation,
   candidate ranking; as functions, checked against a reference over bounded
   amounts.
6. Proofs: the theorems of the modules above; `OneOrigin` weakened to what a
   customer's cancellation after a rejection has ended still allows.

## 6. Not modelled

CRUD modules, map engines, search and recommendation, storage and backup,
advertisement selection - no state that several actors coordinate on, or values
that are heuristics without a specification. They are the larger part of the
code by lines, so that the share of the code the map covers stays small
whatever is done about the rest; `PROJECT.json` gives the reason for each.
