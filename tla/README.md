# NaijaDeals: a verification project

NaijaDeals is a marketplace, service, booking and wallet application that runs
as Cloudflare Workers (Hono) over one D1 (SQLite) database. This directory holds
TLA+ specifications of the parts of it that move money, stock and capacity, the
TLC runs that check them on small instances, and TLAPS proofs for instances of
any size. All paths below are relative to the repository's copy in `src/`.

## How the system executes, and how that is modelled

* Each HTTP request is handled by a Worker of its own. Nothing is kept in memory
  between requests: all state is rows in D1.
* One SQL statement is atomic, and so is one `db.batch([...])`. **One statement
  or batch is one action here.** Whatever lies between two `await`s of a handler
  interleaves with every other request: that is the program counter `pc`.
* The code's concurrency control is the compare-and-swap `UPDATE ... WHERE
  <guard>` followed by a look at `rows_written`. It is an action with two
  disjuncts: the guard holds and the row changes, or it does not and the handler
  takes its "lost the race" exit.
* A Worker may die between two statements (`Crash`, bounded by `MaxCrashes`), and
  a statement may fail. What matters most is a failure *after* money has moved:
  `debitWallet` and `creditWallet` read the balance back after their batch has
  committed, and if that read throws, the caller believes the money did not move.
* There is no cron: what expires does so lazily, by comparing with the clock.
* Paystack is external. It collects money, and then repeats a webhook until it
  gets a 200 while the customer's browser calls a verify route.

## Inventory

| Part | Source (`src/src/lib` unless said) | State | Operations | What is hard | What makes it correct |
|---|---|---|---|---|---|
| Wallet | `wallet.ts` | `wallet_ledger`, `wallet_accounts` | credit, debit | concurrent debits; a read-back that fails after the commit | cached balance = ledger; never below zero |
| Order payment | `orders.ts`, `routes/api-orders.ts` | `orders`, stock, `payment_transactions` | claim, debit, roll back, confirm, side effects, cancel | claim and debit are two statements; Paystack and the wallet race | charged once; escrow has its money; effects run once |
| Top-up, verify, webhook | `routes/api-wallet.ts`, `routes/api-webhooks.ts` | `payment_transactions` | claim a transaction, then credit the wallet or confirm an order | repeated and racing deliveries; routes that do not ask what a transaction was for | its money is used at most once, and lost only if its Worker dies or no order is left to pay |
| Refunds | `refunds.ts` | `refunds`, `order_disputes` | claim a refund under a cap, credit, complete or reject; disputes | racing refunds; a failure after the credit | refunds within what was captured; rows agree with the wallet |
| Variable-weight settlement | `order-settlement.ts` | `order_items.settlement_status`, `order_additional_charges` | claim, refund or charge the difference, pay the charge | retries, rollback, paying while settling | settled once; a paid charge closes the item |
| Booking holds, capacity | `booking-holds.ts`, `booking-availability.ts`, `bookings.ts` | `booking_holds`, `booking_resource_allocations`, blocks | hold, release, lapse, convert, allocate | one logical step in four statements; time | never more bookings than capacity; one booking per hold |
| Booking lifecycle | `booking-lifecycle.ts`, `routes/api-bookings.ts` | `bookings.status` | transitions per role | stale reads | only legal moves; capacity freed |
| Booking payment and cancellation | `booking-payments.ts`, `booking-cancellation.ts` | `bookings.payment_status`, ledger | pay a deposit, confirm, quote, cancel, refund | a payment and a cancellation race | charged once; money out within money in; a cancellation refunds |
| Order items, inventory | `order-lifecycle.ts`, `inventory.ts` | `order_items`, `orders.status`, `product_listings.stock` | item transitions, derived order status, adjust stock | status and stock written on an earlier read, without a guard | no stage skipped; stock negative by backorders only; order and items agree when nobody overtakes |
| Coupons, cart, order creation | `coupons.ts`, `cart.ts`, `orders.ts` | `coupons.usage_count`, `cart_items`, `guest_cart_items`, `orders` | add, change, save, merge a guest's cart, validate, claim a use, create, empty | the limit under concurrency; look-up and write are two statements; an order paid elsewhere | every use belongs to an order; the bill is the goods; the cart loses nothing |
| Notification outbox | `notifications.ts` | `notification_outbox`, `notification_deliveries`, preferences | enqueue, claim, fan out, dispatch, reopen, retry | a send and its record are two statements; stale retry lists; half a fan-out repeated | shown once, sent once; mandatory notices leave no channel out; 'delivered' is true |
| Service requests, orders | `service-requests.ts`, `service-orders.ts` | requests, quotes, service orders | quote, requote, expire, accept, create the order, move it, pay out | an acceptance and its order are separate calls; unguarded status writes | one order per accepted quote; paid out for work done |
| Logistics | `logistics-*.ts` | shipments, jobs, attempts, drivers | dispatch, assign, accept, attempt, complete, reassign | two dispatchers for one job; attempts numbered from a read; two state machines in step | one driver; delivered after a recorded success |
| Affiliate program | `affiliate.ts` | `affiliate_attributions`, `affiliate_commissions`, `affiliate_ledger`, `affiliate_accounts`, `affiliate_payouts` | join, click, attach a customer, confirm an order's commissions, request a payout | a balance written back from an earlier read; a payout inserted before its debit; a commission before its credit | earned once per order; ledger, balance and payouts agree when nobody overtakes |
| Everything else | see `PROJECT.json` | | CRUD, queries, pages | | see "Not modelled" |

The parts interact through rows, not messages: every money movement is a call of
`wallet.ts` inside a handler of another part; an order's payment decrements stock
and creates a shipment; an item's fulfilment sets the price the settlement and
the refund cap use; a booking's cancellation releases the allocation that holds
are counted against. Every part tells its customers through the outbox, after its
own statements have committed and in a `try` that lets nothing out.

## Modules

| Module | Models | EXTENDS |
|---|---|---|
| `Workers`, `HttpCalls` | where each Worker stands in its handler (`pc`, `Step`); requests that may be repeated once they have returned (`Calls`) | |
| `Sums`, `LedgerRows` | `SUM(column)` over the rows a WHERE keeps; the rows of `wallet_ledger` and what is read from them (no state) | |
| `Wallet` | ledger and balance; `CreditWallet`, `DebitWallet` as one step each, conjoined to the callers' actions | `LedgerRows` |
| `OrderPayment` | `payOrderFromWallet`, `confirmOrderPayment`, the webhook and verify routes, `cancelOrder` | `Wallet` |
| `AtomicPayment` | the abstract specification: an order is paid once, in one step; money may be taken in vain before; a card charge is spent once, on its order or on the wallet | |
| `AtomicBooking` | the abstract specification: a booking is charged, refunded and moved in one step each, and only when it may be | |
| `Refunds` | `createAndExecuteRefund`, `settleVariableWeightItem`, `confirmAdditionalChargePayment` | `Wallet`, `Sums` |
| `BookingLifecycle` | the transition table and what routes may ask for (no state) | |
| `BookingHolds` | `createHold`, `releaseHold`, expiry, `createBookingFromHold`, the allocation side of `transitionBooking` | `BookingLifecycle`, `Sums`, `Workers` |
| `BookingPayment` | `payForBooking`, `cancelBookingWithPolicy`, the status side of `transitionBooking` | `Wallet`, `BookingLifecycle`, `Sums` |
| `Outbox` | `enqueueAndProcessNow`, `processOutboxEvent`, `processOutboxBatch`, `retryFailedDeliveries`, the channels of a recipient | |
| `OrderItems` | what the rows of `orders` and `order_items` say once and for all: whose items are an order's (no state) | |
| `ItemLifecycle` | `transitionOrderItemStatus`, `recomputeOrderAggregateStatus`, `adjustStock`, and what payment and `cancelOrder` do to the same rows | `OrderItems`, `Sums` |
| `Checkout` | the cart, the merge of a guest's, `validateCoupon`, `claimCouponUsage`, `createPendingOrder`, the two routes that empty the cart | `HttpCalls`, `Sums` |
| `ServiceQuotes` | matching, quotes and their versions, expiry, `acceptQuote`, `createServiceOrder`, both sides' transitions, the additional charge | `HttpCalls` |
| `Shipments` | `requestDispatch`, assignment, acceptance, attempts, completion, reassignment, `transitionShipmentStatus` | `HttpCalls` |
| `Affiliate` | joining, clicks and attribution, `confirmCommissionsForOrder`, the affiliate's ledger, `requestAffiliatePayout` | `OrderItems`, `Sums` |
| `MC*` | the instances TLC checks | the module each is named for |
| `CommonLemmas` | lemmas on sums and on the ledger | `LedgerRows`, `Sums`, `TLAPS` |
| `OrderPaymentProofs`, `RefundsProofs`, `BookingPaymentProofs`, `OutboxProofs` | theorems about one module each | the module each is named for, `CommonLemmas` or `TLAPS` |
| `OutdatedReadsProofs` | theorems about what holds though writes rest on outdated reads | `ItemLifecycle`, `Affiliate`, `CommonLemmas` |
| `LimitsProofs` | theorems about what there is only so much of | `BookingHolds`, `Checkout`, `CommonLemmas` |
| `FulfilmentProofs` | theorems about services and parcels | `ServiceQuotes`, `Shipments`, `TLAPS` |

Two components that are proved about in one module do not share a name: `Shipments`,
`Checkout` and `Affiliate` write `ShipmentNext`, `CheckoutNext`, `AffiliateCrash` and so on
for what other modules call `Next` and `Crash`. Such a pair has at most the variable `pc`
and the constants of `OrderItems` in common; no theorem speaks of both specifications.

Variables bear the names of the columns they stand for (`payment_status`,
`settlement_status`, `cached_balance`); the rest (`pc`, `target`, `quote`, ...)
are the local variables of a request. Rows a request inserts are named by the
request, since it inserts at most one of a kind. Where a call may be followed by
another (`Checkout`, `ServiceQuotes`, `Shipments`, `Affiliate`), rows are numbered and a call that
has returned may begin again. `visited`, `disturbed`, `restocks`, `wanted`,
`was_accepted`, `overtaken`, `contested` are history variables: they record what happened and are read by
properties only. Operators headed "a deliberate
fault" change one definition the way a plausible bug would; they are used only to
show that each property notices.

### Abstractions worth knowing

* Ids, references and texts are model values; amounts are small integers; a time
  window is the set of moments it contains; time is the step by which something
  lapses.
* Reads that cannot change their answer (ownership, an item's order) are part of
  the statement that follows them. Reads that can, are steps.
* In `BookingHolds` the lazy sweep and the guarded INSERT are one action: the sweep
  changes only rows the INSERT does not count.
* In `BookingPayment` the two sums of `getActualPaidAmount` are one step: a refund
  can come between them only from a call whose transition makes this one's fail.
* Commission, shipment and notification after an order's payment each run in a
  `try` of their own and write rows of other parts; `RunSideEffects` has the stock
  decrement and counts its runs.
* In `Outbox` a recipient's preferences are, at every read, any rows
  `setNotificationPreference` may have stored; what a provider answers is any of its
  outcomes, with 'not_configured' recorded as 'unavailable' is; a pass takes what it
  listed in any order and lists everything (the code: oldest first, 25 at a time);
  `notification_outbox.attempts`, which nothing reads, is left out. 'skipped' and the
  outbox's 'failed' need a call and a deletion that no code makes.
* In `Affiliate` an order's payment is confirmed once (`OrderPayment`'s
  `EffectsApplyOnce`), a profile is active, as no code makes it otherwise, the check for an
  earlier commission is one step with the INSERT, as only one call writes an order's
  commissions, and the account's INSERT OR IGNORE is one step with the balance read after
  it. `overtaken` and `contested` mark whose balance was written on an outdated read and
  which attribution two calls were converting.
* `ItemLifecycle` assumes what `createPendingOrder` checks ('Cart is empty', `orders.ts:64`):
  an order has an item. `Checkout` and `Affiliate` take an item, a listing or a cart row for
  something that is not NULL, and finitely many of them.
* In `ItemLifecycle` the reads of an item and of its order are one step, an order's
  items are read in one statement as they are, and the two functions of `orders.ts`
  keep only what they write to these rows; the money is `OrderPayment`'s. `disturbed`
  marks an order on which some request wrote after what it had read was overtaken, on
  which a Worker died or a restock failed half way, or whose failed wallet payment was
  taken back (`RollBackPayment`) after it had been cancelled, moved on or restocked.
  Whether a debit succeeds is left open. So is `allow_backorder`, at each read, for the
  listings in `Backordered`: their sellers set and clear it.
* In `Checkout` an order's payment succeeds or does not; how is `OrderPayment`'s. There
  is one customer and one coupon; variants are part of the listing.
* In `ServiceQuotes` a quote and the order made of it share an id (`UNIQUE(quote_id)`);
  in `Shipments` a job is its shipment and its type (`UNIQUE(shipment_id)` in each
  table), and a delivery's code, its photo and its signature are not looked at.
* `transitionBooking`'s `admin` rows are left out: the function throws for that
  role. For the same reason 'draft' and 'refunded' are not in `BookingStatuses`.

## Runs

`FairSpec` (in the modules of calls that may repeat, `Spec` itself, by `Handler`) gives
each request weak fairness on the step it has begun (`CheckoutHandler`, `JobHandler`): a Worker that
has not died is run by its event loop until its handler returns. Nothing is
assumed of customers, of Paystack or of starting a request. `BookingHolds` also has
weak fairness on `Lapse`: time passes. `CHECK_DEADLOCK FALSE` everywhere, because
a bounded number of requests comes to an end.

| Run | Instance | Distinct states | Result |
|---|---|---|---|
| `order_payment` | 2 orders the wallet cannot both pay, a card payment and a top-up, 3 requests, 1 crash, 1 failed balance read per order | 459 234 | holds |
| `refunds` | 1 order with 1 weighed item (lighter, equal, heavier, too heavy for the wallet), 3 requests, 1 crash, 1 late failure | 356 803 | holds |
| `booking_holds` | 1 unit, 2 overlapping windows, 2 holds, 3 requests, 1 crash | 193 440 | holds |
| `booking_payment` | an instant and a request booking the wallet cannot both pay, 3 requests, 1 crash or failure | 160 328 | holds |
| `outbox` | a security and a marketing event, 3 kinds of preferences, 2 attempts, 3 requests, 1 crash or failure | 282 394 | holds |
| `item_lifecycle` | 1 order of 2 items from 2 vendors, one of whom takes backorders, 3 requests, 1 fault | 365 262 | holds |
| `checkout` | 2 listings, a coupon with 1 use, 2 cart rows, 2 orders, 2 calls at a time, 5 in all, 1 crash | 3 325 838 | holds |
| `service_quotes` | 1 request, 2 providers, 2 quotes, 2 calls at a time, 6 in all, 1 crash | 2 132 903 | holds |
| `shipments` | 1 shipment, 2 drivers, 2 calls at a time, 2 attempts, 1 unplanned event | 2 257 960 | holds |
| `affiliate` | 2 affiliates, 2 orders of a customer with 3 items, 2 clicks, 2 payouts, 2 calls at a time, 1 that breaks off | 658 421 | holds |
| `refunds_overpaid` | as `refunds` | | violated by the code |
| `services_reopened` | as `service_quotes` | | violated by the code |

Why these bounds are enough to be interesting: every race in this code is between
two requests on one row, and a third is enough to retry after, pay during, or
cancel around such a race. Two orders (bookings) share one wallet so that one of
them is refused for want of money; two windows overlap in one of their two slots.
In `Outbox` two attempts give a first try and a last one. Two items of two vendors are
what an order's derived status and per-seller fee need; two providers give a quote of
somebody else's; a coupon with one use left is the limit under a race; two drivers and
a reassignment are a job that changes hands while its first driver is still at work.
Calls, drivers, items and providers are symmetric, and no liveness property is checked
under symmetry.
A second crash only stops one more request, which is the same as its not going on.

### What the passing runs show

* **order_payment.** An order is charged at most once, whichever of the wallet, the
  webhook and the verify page gets there first (`ChargedAtMostOnce`). The one exception
  is counted out by the history `unread`: a debit whose balance read threw is one
  `payOrderFromWallet` takes for failed, so that it gives the order back and a retry
  debits it again. Money otherwise taken means the order is paid, escrow means money was
  taken or a payment is half way, and the cached balance is the ledger's
  (`MoneyAndOrderAgree`). The side effects run once, and the money of a Paystack
  transaction is used once, for the wallet or for its own order (`EffectsApplyOnce`,
  with `TransactionSpentOnce`); only the webhook asks which of the two it was for, and
  one that was claimed where no order was left to pay is in the history `unapplied`.
  Whatever else was claimed is used, and orders that are paid are processed, unless a
  Worker dies (`PaymentTakesEffect`). The whole is
  `AtomicPayment` with the claim, debit and rollback hidden (`ImplementsAtomicPayment`):
  an order counts as paid by the wallet from its debit, not from its claim, and its
  money is taken in vain only before anybody has paid it.
* **refunds.** Racing refunds of one scope stay under the cap
  (`RefundsWithinCaptured`); the `refunds` table says what the wallet did
  (`RefundRowsTellTheTruth`); an item is settled once, its status says so, and a charge
  is debited once (`SettlementIsSound`); a surviving Worker never leaves an item
  'settling', and a paid charge closes its item even if paid before the settlement's
  last statement (`SettlementCompletes`). Requests with a failure after a money
  statement are excepted, by name (`failed`), where the code has no defence against it.
* **booking_holds.** A hold makes at most one booking and is spent for good
  (`HoldSpentOnce`); no new hold takes a slot over capacity (`HoldsNeverOversell`); a
  live booking keeps its allocation (`LiveBookingKeepsItsPlace`); holds stop counting by
  themselves and ended bookings give their place back (`CapacityComesBack`).
* **booking_payment.** One charge per booking, never more out than in, at most one
  refund, `payment_status` agrees with the ledger and an instant booking confirms itself
  only by being paid (`MoneyMovesOnceAndShows`); statuses move only along the table
  despite stale reads (`OnlyLegalMoves`); a cancellation that saw a payment refunds it
  (`CancellationPaysOut`). The whole is `AtomicBooking` (`ImplementsAtomicBooking`): a
  charge counts from the debit of a payment that did not fail, and while one counts none
  is made. A debit whose balance cannot be read back is a charge in vain; if the claim it
  was made for is then not undone, because the rollback failed or a cancellation has
  marked the booking 'refunded', it counts after all (`KeepCharge`).
* **outbox.** An event is shown in the application at most once, however often it is
  enqueued, reopened and fanned out again (`InAppOnce`); a message a provider has
  accepted is sent again only after a statement failed, no two requests serve one event
  or one delivery and no delivery stays 'queued' with nobody at work on it
  and 'delivered' and what was sent agree (`SentOnceAndTold`); a processed mandatory event has a delivery on each
  default channel whatever the preferences (`MandatoryReachesEveryChannel`); a claimed
  event moves on (`ClaimedEventMovesOn`). Three of these have an exception by name
  (`failed`, `crashed`) where the code has no defence: a Worker that dies after the
  claim leaves the event 'processing', which no pass lists; a failure between the
  send and its record marks the delivery 'failed' though it was sent. Nor does the
  model contradict this: a retry pass with an old list tries once more a delivery
  another pass has meanwhile given up on, since its compare-and-swap asks only for
  'failed'.

* **item_lifecycle.** The item's UPDATE asks for no status, so two requests may write
  over each other, and a status may go back. Even so no stage is skipped: what was
  delivered or disputed had been shipped, what was completed had been delivered, and
  only a cancelled item was put back on sale (`NoStageSkipped`). The stock of a listing
  stays at or above zero unless its seller takes backorders (`TypeOK`). An order nobody
  wrote on an outdated read, and whose payment was not taken back after it had moved on,
  is consistent: its status is its items', a cancelled item stays cancelled and gives its
  units back once at most, an unpaid order gives none back
  (`UndisturbedOrderIsConsistent`).
* **checkout.** Racing checkouts never redeem a coupon beyond its limit, and every use
  counted belongs to one order or to one call about to make it
  (`EveryUseIsAccountedFor`); every order bills what it holds, with the fee of each of
  its sellers and a discount never above the goods (in `CheckoutTypeOK`); a customer who waits
  for each answer loses nothing, pays for nothing twice and finds nothing left behind,
  through a guest's cart, duplicate rows, units saved for later, "Buy Now" and refused
  payments (`UndisturbedCartLosesNothing`).
* **service_quotes.** Both sides' moves may overtake each other; money is released only
  for work that was scheduled, travelled to, begun, completed and confirmed, and the
  bill is the quote, the fee and the confirmed charge (`PaidOutForWorkDone`). Every
  accepted quote has one order, made by the call that accepted it, which no repetition
  starts over, unless a Worker died in between (`AcceptanceMakesOneOrder`).
* **affiliate.** What an order earned is credited to the affiliate of one link, and not
  twice, a payout is debited at most once, with what it asks for, and an attribution earns
  on one order; calls that break off, orders paid at the same time and overtaken balances
  are excepted by name, since the code does not defend itself there. The balance of an
  affiliate nobody overtook is its ledger's sum (`UndisturbedAffiliateAddsUp`). Even
  overtaken, a balance is never negative and is that of its last ledger row
  (`AffiliateTypeOK`).
* **shipments.** A parcel is delivered only after pickup and travel, each with its
  successful attempt in the ledger (`DeliveredIsProven`); a job changes hands only by way
  of being unassigned, and the two jobs come together (`DispatchedOnce`); the attempts of
  a job are numbered 1, 2, ... without gap or repetition (in `ShipmentTypeOK`).

### Where the code and its documentation disagree

1. `refunds_overpaid`: item-level and order-level refunds do not see each other's sum,
   so together they exceed what was paid; `refunds.ts:14-17` says they cannot.
2. `services_reopened`: looking at the matches of a request puts it back to 'matching',
   whatever it was; an accepted one can then have a second quote accepted, though
   `service-requests.ts:346-348` says it cannot.

### Other behaviour the models have, without a run of its own

Each is named by a definition of the module, where there is one, that states what the
code or its comments promise and that TLC refutes if it is given as an invariant.

* `OrderPayment`: a Worker that dies between the claim and the debit leaves the order in
  escrow with nothing debited (`NoClaimedButUnpaidLimbo`). A failed balance read after
  the debit rolls the claim back and a retry charges again (two rows in `OrderDebits`).
  Two concurrent cancellations both put the units back (`RestockMatchesSale`). Only the
  webhook looks at what a transaction was for (`PaysForItsPurpose`): a top-up verified at
  `/orders/verify-payment` is claimed, 'Order not found' is thrown and its money is never
  credited; an order's payment verified at `/wallet/topup/verify` credits the wallet and
  leaves the order unpaid.
* `Refunds`: an item that comes out below half of its price cannot be settled: the refund
  of the difference exceeds the cap, which is the new price (`LighterItemIsRefunded`).
* `BookingHolds`: the conversion of a hold is three statements, not the one transaction
  `booking-holds.ts:183-187` describes, and a second customer fits into the gap
  (`NeverOverbooked`). A cancellation between a booking's row and its allocation's releases
  nothing, and the allocation inserted afterwards stays active.
* `BookingPayment`: a cancellation that quotes before a racing payment's debit keeps the
  customer's money (`CancelledIsRefunded`).
* `ItemLifecycle`: a move that was read before a cancellation takes the item out of
  'cancelled' again (`CancelledNeverMovesAgain`), and a cancellation read before a
  shipment cancels what was shipped (`ShippedIsNotCancelled`). The rollback of a wallet
  payment whose debit failed puts an order that was cancelled and restocked meanwhile
  back to 'pending_payment', over cancelled items whose units were never sold. A sale's
  MAX(0, ...) lifts a stock that backorders have left below zero back up to it; and once
  backorders are no longer allowed, a stock far enough below zero refuses the units of a
  cancelled item.
* `Shipments`: `completeJob` completes a job in any status, so a finished delivery may
  leave its shipment where it was (`CompletedDeliveryShows`); a job whose attempt failed
  is never tried again, since nothing takes it out of 'failed' but a reassignment;
  reassigning frees a driver who has taken another job meanwhile, or leaves one marked
  'assigned' who was given the job since it read it (`MarkedDriverHasAJob`); a Worker that dies
  between the two INSERTs of a dispatch leaves a pickup no second dispatch completes.
* `Checkout`: verifying a payment after its webhook never empties the cart; two
  `addToCart` at a time make two rows or lose a quantity; a guest cart that fails to be
  deleted is merged again; an order whose item rows fail to be inserted stays, with its
  coupon's use.
* `Affiliate`: the ledger, which says it mirrors `wallet.ts`, writes back a balance it
  has read, so of two credits at a time one is lost (`BalanceIsTheLedger`); the slower of
  two payout requests leaves a 'requested' payout nothing debits (`EveryPayoutIsDebited`);
  a Worker that dies between the two INSERTs of joining leaves an affiliate for whom no
  repetition makes a referral code.
* `Outbox`: an event 'processing' when its Worker dies stays so; a retry pass with an old
  list tries once more what another has given up on.

## Proofs

Every invariant of every run that passes is proved for constants of any size, and so are
the action property `OnlyLegalMoves` and the refinements `ImplementsAtomicPayment` and
`ImplementsAtomicBooking`. None of them is inductive alone; what follows is what had to be
added, which is also the reason why the code is right. TLC checked each inductive
invariant on the module's instance before it was proved. The assumptions are the named
ones of the modules (`WalletAssumption`, `CheckoutAssumption`, ...): ids are distinct from
NULL and from each other, amounts are natural or positive, tables are finite.

**Sums.** A refund's cap, a schedule's capacity, the units of a cart and the bill of an
order are sums over the rows a WHERE clause keeps. What the proofs need of `SumOver` is in
`CommonLemmas`: it exists and is unique, a term more or less changes it by that term, it
depends on its terms only, it grows with its set. Ordinary induction over the set needs
the library's theorems with an operator for the hypothesis, which no prover here can
instantiate; the lemmas go by least counterexample instead. The strict subsets of a
finite set are well-founded, so a set of bad subsets has a least member
(`MinimalBadSubset`), and that is stated with sets alone.

**Order payment** (`OrderPaymentProofs`: any orders, listings, transactions, requests,
amounts, crashes and failed balance reads). `TypeOK`, `ChargedAtMostOnce`
(`NeverChargedTwice`), `MoneyAndOrderAgree` (`MoneyAndOrderAlwaysAgree`),
`EffectsApplyOnce` (`EffectsAlwaysApplyOnce`), `LedgerChained` (`LedgerStaysChained`) and
`ImplementsAtomicPayment` (`PaymentIsAtomic`). What "charged once" rests on is who holds
the claim: a request between its claim and its debit is the one whose name is in
`payment_reference`, the order is in escrow and has no charge yet, so that no two requests
are there at once; and an order with a charge is in escrow by a request that has left
'debit' for good, so that no rollback still owns it. A charge is a debit that is not in
`unread`. A debit whose balance is not read back (`DebitUntold`) adds the same row to both
sides, so that it leaves the charges alone, and its request is where a refused debit
would have left it; `UnreadInv` keeps the two sides together. The same argument holds of
the claim of a transaction and of the side effects. Between the claim of a transaction
and the use of its money one request holds it, at 'confirm' or at 'credit'; there it is
neither credited nor the reference of an order nor unapplied, and its next statement
makes it one of the three. That the wallet may be credited with an order's transaction
does no harm to this: whoever would confirm the order by it has lost the claim. The
refinement needs no more: with the order counted as paid from its charge, the debit maps
to `PayByWallet` or to `PayInVain`, the confirmation of a card payment to `PayByCharge`, the
credit, of a top-up or of an order's transaction, to `CreditCharge`, and every other
action, the claim and the loss of a top-up included, to a stutter.

**Refunds** (`RefundsProofs`: any orders, items, requests, prices, crashes, late failures).
`TypeOK`, `RefundRowsTellTheTruth`, `SettlementIsSound`, `RefundsWithinCaptured`. A settlement
holds its item from its claim to its last statement; one holder at a time, and none after
one that took effect (`HoldInv`): this is what "settled once" rests on, since
'additional_payment_paid' may be written while the settlement is still under way. A charge
has one payer at a time between its claim and its end, and its debits are counted against
the payers that failed late (`ChargeInv`). The cap is not inductive as it is stated, of all
the refunds of a scope: a refund that is rejected takes its captured amount away.
`CapInv` says it of every nonempty set of them: one of its members read a captured amount
that covers them all. The guarded INSERT preserves this, for of the sets the new refund
is in it is itself that member, and a rejection only leaves fewer sets.

**Booking payment and cancellation** (`BookingPaymentProofs`: any users, bookings, modes,
prices, policies, requests, faults). `TypeOK`, `MoneyMovesOnceAndShows`, `OnlyLegalMoves`. The
amounts are sums over rows of a ledger, so a step that writes a row is first reduced to
what it adds to which sum (`RowAppended`). `MoneyInv` then says who holds a booking's claim
and how far that request went (`HolderInv`, `WorkerInv`); that a cancellation past its
compare-and-swap is alone with its booking, which is cancelled for good, and what it
quoted was captured (`CancelInv`); and keeps an account of the debits, in which one that
is not kept is charged to a request that failed (`CountInv`). That a quote is never
negative, which `TypeOK` needs, is a consequence. `OnlyLegalMoves` holds despite stale reads
because every write of a status asks for the one that was read.

`BookingIsAtomic` is the refinement `ImplementsAtomicBooking`. It needs two facts more
(`BookingInv`): a claim shows in `payment_status`, and what was captured is a deposit for
each charge. The debit maps to a charge, the credit to the refund and the
compare-and-swap to the move; all other steps are quiet (`QuietStep`): they move no money
and no status and cannot end the counting of a charge, so that at most a failure, or a
charge that counts after all, is seen of them (`QuietStepSeen`).

**Limits** (`LimitsProofs`). *Bookings* (any windows, units, capacity, holds, requests,
crashes): `TypeOK`, `HoldSpentOnce`, `LiveBookingKeepsItsPlace`, `HoldsNeverOversell`. A hold is
spent from its claim, which may never become a booking if the Worker dies, so the
invariant speaks of claims: a claimed hold is spent and claimed by one request
(`ClaimInv`); a confirmation about to write 'expired' has seen its hold lapsed, so what it
overwrites stays spent (`ConfirmInv`); a transition leaves only statuses that keep the
slot, and whoever is about to release an allocation has ended its booking
(`TransitionInv`). That a new hold does not oversell compares two sums: what the INSERT's
WHERE counts over a window is at least what is sold in any slot of it.

*The checkout* (any listings, prices, vendors, calls, deaths of Workers): `CheckoutTypeOK`
with `BilledAsBought`, `EveryUseIsAccountedFor`, `UndisturbedCartLosesNothing`. The uses of a
coupon are the orders that carry it and the claims without an order yet, each moved from
the second to the first by one INSERT (`UsesInv`). A discount is at most the subtotal by its
last cap, so the total's `Math.max(0, ...)` never bites and an order whose items are written
is billed them (`IsBillOf`, while the call that made it has them in its hands). For the
cart `AccountInv` has one equation for every place a call can stand at: between the calls
what was wanted is what is held, by the customer and the guest; within one it is off by
exactly what the call has still to add, to merge, or to remove.

**Outbox** (`OutboxProofs`: any events, preferences, requests, failures). `TypeOK`, `InAppOnce`,
`MandatoryReachesEveryChannel`, `SentOnceAndTold`. Two locks stand between an event and a second
showing: the claim, by which one request fans out an event that is 'processing'
(`ClaimInv`), and the delivery row, which is inserted before the showing and never removed
(`InAppInv`). The third, that a retry pass never works on the application's own channel, is
no check in the code: it holds because only a failure with a class gets a
`next_retry_at`, and that channel has none (`WorkInv`, `InAppInv`). For the mandatory channels,
`ReachInv` says of an event in work that each default channel is served, or is still to
come, or is in the hands of the catch that inserts its row. That a message is sent once is
an account (`SentInv`): what a provider has accepted, and what it may still be given, is
allowed by the delivery's INSERT or by a request that threw, each of which is spent once
(`OnceInv`), whatever lists the retry passes hold.

**Items, services, parcels** (`OutdatedReadsProofs`, `FulfilmentProofs`) are about writes without
a guard, where the present status proves nothing: what it was when read may be gone, and
it may go back. The invariants speak of the past. A move starts from a status the item
(order, shipment) once had, and the tables' moves into a status start from statuses that
have the earlier ones in their own past; so every stage reached has those before it in its
past, whoever overtook whom. From this follow

* `NoStageSkipped` (`StagesAreNeverSkipped`), for any orders, items, listings and requests;
* `TypeOK`, `PaidOutForWorkDone` (`WorkPrecedesRelease`) and `AcceptanceMakesOneOrder`
  (`AcceptanceAlwaysMakesOneOrder`), for any requests, providers, quotes, calls and
  crashes. `acceptQuote` writes its batch without a guard, so several
  calls may accept one quote; the last rests on what each of them goes on to do. It looks
  the quote's order up and inserts one if there is none (`CallInv`), the UNIQUE index lets
  one INSERT succeed, and a look-up that finds an order leaves it as it is, so that only
  the death of a Worker leaves an accepted quote without its order;
* `ShipmentTypeOK`, `DeliveredIsProven` (`DeliveriesAreProven`) and `DispatchedOnce`
  (`JobsAreDispatchedOnce`), for any shipments, drivers, calls and attempts. The UNIQUE
  index over attempts makes one of two overlapping completions fail before it writes
  anything; that and the numbering (`AttemptsAreNumbered`) put the row of a success in the
  ledger before 'picked_up' or 'delivered' is asked for.

Of items there is more. `TypeOK` has the stock of the listings without backorders: a sale
clamps it at zero, a restock adds to it, and an adjustment writes the sum it has found not
to be negative, however outdated. `UndisturbedOrderIsConsistent` holds because the status of
an order nobody overtook agrees with its items or a request has still to derive it, and is
*never ahead* of them: a request that derives none leaves it where it may stay
(`StatusInv`); and one request at most puts a cancelled item's units back (`UnitsInv`). A
rollback leaves this alone as long as it finds the order 'processing' with nothing
restocked, for 'pending_payment' asks of the items what 'processing' does
(`RollBackPaymentKeepsOrders`).

**Affiliate program** (`OutdatedReadsProofs`: any affiliates, customers, orders, items,
rates, thresholds, calls, crashes). `AffiliateTypeOK` (`AffiliateTypeCorrectness`), with
which a balance is never negative, and `UndisturbedAffiliateAddsUp`
(`UndisturbedAffiliatesAddUp`), from one invariant, `AffiliateInv`. No guard of the code keeps
two calls from one balance, so the invariant cannot say that balances are right; it says
who owes what.

* What a call holds it has read or written: the order it confirms was confirmed by it, the
  payout it debits it inserted (`HoldsInv`), and no other call is at the same order or
  payout (`SoleInv`).
* What an affiliate is credited for an order is the sum of the commissions the order
  earned, less the commission whose call has inserted it and not yet its ledger row
  (`CreditInv`). So an order of which no call died is credited in full and no more.
* A payout has no debit while its call holds it, alive or dead, and at most one afterwards,
  of what it asks for; it has none then only if the call found the balance spent by
  another, which marks the affiliate as overtaken (`PayoutInv`).
* An attribution that is not contested is converted by one call while it is pending, and
  what earned on it are the items of that call's order (`AttributionInv`).
* The balance is the sum of the ledger until somebody writes it from an outdated read
  (`BalanceInv`).

A step that writes a row is again reduced to what it adds to which sum, by the lemmas of
`CommonLemmas` on `SumOver`.

**Only model-checked.** Liveness (`PaymentTakesEffect`, `SettlementCompletes`,
`CapacityComesBack`, `CancellationPaysOut`, `ClaimedEventMovesOn`): fairness needs ENABLED,
which the prover does not reason about.

## Plan

Done, in the order of what the system stands or falls by: money (`Wallet`, `OrderPayment`
with `AtomicPayment`, `Refunds`), capacity (`BookingHolds`, `BookingPayment` with
`AtomicBooking`), messages (`Outbox`), then goods, carts, services and parcels
(`ItemLifecycle`, `Checkout`, `ServiceQuotes`, `Shipments`) and the affiliate program
(`Affiliate`). All have their invariants proved.

Left, in this order:

1. Abstract specifications still worth stating: a capacity ledger that books in one step,
   which `BookingHolds` implements only as long as no conversion is under way; a
   settlement that takes effect exactly once, which `Refunds` implements.
2. Return shipments and delivery codes in `Shipments`; the creation of shipments by an
   order's payment, which composes `OrderPayment` with `Shipments`.
3. Organizations: `removeMember` counts the owners in a read before its UPDATE, so two
   owners may remove each other; an invitation may be accepted while it is revoked.

## Not modelled, and why

The models follow the code in which one step depends on another. Most of the repository's
lines are not of that kind, so the share of its lines the models stand for is small:

* Pages, rendering, client scripts, translations, type declarations: most of the lines of
  the repository, and no state.
* Catalog, search, merchandising, personalization, addresses, wishlists, the control
  center's dashboards, search and audit screens: queries and single-statement writes.
* Identity, sessions, throttling, password reset and role checks decide who may start a
  request, not what it does once started; the models let any role the routes accept
  start it.
* Disputes: one INSERT, and one compare-and-swap in front of a refund `Refunds` has.
* Delivery codes, return shipments, prices and quotes of logistics, location pings.
* Aura AI, uploads and mail: calls of external services, whose answer is stored or shown.
