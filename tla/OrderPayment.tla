---------------------------- MODULE OrderPayment ----------------------------
(***************************************************************************)
(* Paying for a marketplace order: payOrderFromWallet, confirmOrderPayment *)
(* and cancelOrder (src/src/lib/orders.ts), called by the Paystack webhook *)
(* (api-webhooks.ts), the two verify routes (api-orders.ts, api-wallet.ts) *)
(* and the order routes.                                                   *)
(*                                                                         *)
(* A request is one HTTP request in a Worker.  Its program counter stands  *)
(* between two awaits; one SQL statement, or one db.batch(), is one        *)
(* action, and everything else interleaves.  A Worker may die between two  *)
(* statements, and a read may fail after the write before it committed.    *)
(*                                                                         *)
(* An order is placed with its items and its total fixed (createPending-   *)
(* Order); a Paystack transaction is recorded as 'initiated' before the    *)
(* customer leaves for Paystack.  Both exist when the behaviour starts.    *)
(***************************************************************************)
EXTENDS Wallet, FiniteSets

CONSTANTS
    Orders,           \* orders.id
    Listings,         \* product_listings.id
    TxRefs,           \* payment_transactions.provider_reference
    Requests,         \* HTTP requests, each used once
    owner,            \* order -> its user
    total,            \* order -> total_kobo
    quantity,         \* order -> listing -> units bought
    initialStock,     \* listing -> stock when the orders were placed
    tx_order,         \* tx -> order_id, NULL for a wallet top-up
    tx_user,          \* tx -> user_id
    tx_amount,        \* tx -> amount_kobo
    MaxCrashes,       \* bound: Workers that die mid-request
    MaxUnread         \* bound: debits of an order whose balance is not read back

ASSUME OrderPaymentAssumption ==
    /\ owner \in [Orders -> Users]
    /\ total \in [Orders -> Nat \ {0}]
    /\ quantity \in [Orders -> [Listings -> Nat]]
    /\ initialStock \in [Listings -> Nat]
    /\ tx_order \in [TxRefs -> Orders \union {NULL}]
    /\ tx_user \in [TxRefs -> Users]
    /\ tx_amount \in [TxRefs -> Nat \ {0}]
    /\ MaxCrashes \in Nat
    /\ MaxUnread \in Nat
    /\ Orders \union TxRefs \subseteq ReferenceIds
    /\ NULL \notin Orders \union Requests \union TxRefs
    /\ Requests \intersect TxRefs = {}
    /\ IsFiniteSet(Requests)

VARIABLES
    unread,             \* history: debits of an order whose balance was not read back
    order_status,       \* orders.status
    payment_status,     \* orders.payment_status
    payment_reference,  \* orders.payment_reference: a wallet request's or a tx's
    stock,              \* product_listings.stock
    restocks,           \* inventory_adjustments rows 'order_cancelled', by order
    tx_status,          \* payment_transactions.status
    charge,             \* what Paystack collected: nothing, the amount, another
    unapplied,          \* history: claimed transactions that paid for nothing
    pc,                 \* where each request stands
    target,             \* the order the request works on
    tx,                 \* the Paystack transaction the request works on
    was_paid,           \* cancelOrder's wasPaid, read before its batch
    crashed,            \* requests whose Worker died
    side_effect_runs    \* history: runs of runOrderPaymentSideEffects, by order

ledgerVars == <<walletVars, unread>>
orderVars == <<order_status, payment_status, payment_reference>>
stockVars == <<stock, restocks, side_effect_runs>>
txVars == <<tx_status, charge, unapplied>>
localVars == <<target, tx, was_paid>>
vars == <<ledgerVars, orderVars, stockVars, txVars, localVars, pc, crashed>>

(* The order statuses these functions write; the later ones (shipped, ...) *)
(* belong to the item lifecycle.                                           *)
OrderStatuses == {"pending_payment", "processing", "cancelled"}

(* A request that has found a transaction to claim stands in its route. *)
ClaimLocations == {"webhook", "verify_order", "verify_topup"}

Locations == {"idle", "debit", "rollback", "effects", "confirm", "credit",
              "cancel", "done"} \union ClaimLocations

Init ==
    /\ WalletInit
    /\ unread = [o \in Orders |-> {}]
    /\ order_status = [o \in Orders |-> "pending_payment"]
    /\ payment_status = [o \in Orders |-> "unpaid"]
    /\ payment_reference = [o \in Orders |-> NULL]
    /\ stock = initialStock
    /\ restocks = [o \in Orders |-> 0]
    /\ side_effect_runs = [o \in Orders |-> 0]
    /\ tx_status = [t \in TxRefs |-> "initiated"]
    /\ charge = [t \in TxRefs |-> "none"]
    /\ unapplied = {}
    /\ pc = [r \in Requests |-> "idle"]
    /\ target = [r \in Requests |-> NULL]
    /\ tx = [r \in Requests |-> NULL]
    /\ was_paid = [r \in Requests |-> FALSE]
    /\ crashed = {}

-----------------------------------------------------------------------------
(* Control of one request. *)
At(r, location) == pc[r] = location /\ r \notin crashed
Goto(r, location) == pc' = [pc EXCEPT ![r] = location]

(* A deliberate fault, for the mutation runs. *)
CanClaimOrderUnchecked(o) == TRUE

(* claimOrderForPayment: the CAS on payment_status.  It does not look at   *)
(* orders.status.                                                          *)
CanClaimOrder(o) == payment_status[o] = "unpaid"

ClaimOrderForPayment(o, reference) ==
    /\ CanClaimOrder(o)
    /\ order_status' = [order_status EXCEPT ![o] = "processing"]
    /\ payment_status' = [payment_status EXCEPT ![o] = "escrow_held"]
    /\ payment_reference' = [payment_reference EXCEPT ![o] = reference]

-----------------------------------------------------------------------------
(* payOrderFromWallet: claim, then debit, then the side effects. *)

(* The ownership read cannot change its answer, so it is part of the       *)
(* claim.  A lost claim throws OrderPaymentError.                          *)
WalletClaim(r, o) ==
    /\ At(r, "idle")
    /\ target' = [target EXCEPT ![r] = o]
    /\ \/ /\ ClaimOrderForPayment(o, r)
          /\ Goto(r, "debit")
       \/ /\ ~CanClaimOrder(o)
          /\ Goto(r, "done")
          /\ UNCHANGED orderVars
    /\ UNCHANGED <<ledgerVars, stockVars, txVars, tx, was_paid, crashed>>

(* debitWallet returns the new balance from a SELECT after the batch: if   *)
(* that read throws, the caller's catch runs although the debit committed. *)
WalletDebit(r) ==
    LET o == target[r] IN
    /\ At(r, "debit")
    /\ DebitWallet(owner[o], total[o], "order_payment", o)
    /\ \/ /\ Goto(r, "effects")
          /\ UNCHANGED unread
       \/ /\ Cardinality(unread[o]) < MaxUnread
          /\ unread' = [unread EXCEPT ![o] = @ \union {Len(wallet_ledger[owner[o]]) + 1}]
          /\ Goto(r, "rollback")
    /\ UNCHANGED <<orderVars, stockVars, txVars, localVars, crashed>>

WalletDebitRefused(r) ==
    /\ At(r, "debit")
    /\ ~CanDebit(owner[target[r]], total[target[r]])
    /\ Goto(r, "rollback")
    /\ UNCHANGED <<ledgerVars, orderVars, stockVars, txVars, localVars, crashed>>

(* The catch block undoes its own claim only: escrow_held AND the          *)
(* payment_reference this call wrote.                                      *)
OwnsClaim(r, o) ==
    /\ payment_status[o] = "escrow_held"
    /\ payment_reference[o] = r

(* A deliberate fault, for the mutation runs. *)
WalletRollbackForgets(r) ==
    /\ At(r, "rollback")
    /\ Goto(r, "done")
    /\ UNCHANGED <<ledgerVars, orderVars, stockVars, txVars, localVars, crashed>>

WalletRollback(r) ==
    LET o == target[r] IN
    /\ At(r, "rollback")
    /\ \/ /\ OwnsClaim(r, o)
          /\ order_status' = [order_status EXCEPT ![o] = "pending_payment"]
          /\ payment_status' = [payment_status EXCEPT ![o] = "unpaid"]
          /\ payment_reference' = [payment_reference EXCEPT ![o] = NULL]
       \/ /\ ~OwnsClaim(r, o)
          /\ UNCHANGED orderVars
    /\ Goto(r, "done")
    /\ UNCHANGED <<ledgerVars, stockVars, txVars, localVars, crashed>>

(* A deliberate fault, for the mutation runs. *)
ShelveUnclamped(units) == units

(* runOrderPaymentSideEffects: one batch takes every item's units off the  *)
(* shelf, clamped at 0.  Commission, shipment and notification follow,     *)
(* each in its own try: they belong to other modules.                      *)
Shelve(units) == IF units < 0 THEN 0 ELSE units

RunSideEffects(r) ==
    LET o == target[r] IN
    /\ At(r, "effects")
    /\ stock' = [l \in Listings |-> Shelve(stock[l] - quantity[o][l])]
    /\ side_effect_runs' = [side_effect_runs EXCEPT ![o] = @ + 1]
    /\ Goto(r, "done")
    /\ UNCHANGED <<ledgerVars, orderVars, restocks, txVars, localVars, crashed>>

-----------------------------------------------------------------------------
(* Paystack.  It collects the money (external), and then tells us by a     *)
(* webhook it repeats until it gets a 200, or answers when we ask.         *)

PaystackCharge(t) ==
    /\ charge[t] = "none"
    /\ \E outcome \in {"exact", "other"} : charge' = [charge EXCEPT ![t] = outcome]
    /\ UNCHANGED <<ledgerVars, orderVars, stockVars, tx_status, unapplied,
                   localVars, pc, crashed>>

(* The three routes read the transaction by its reference; one that is     *)
(* processed already, or not accepted, is answered with nothing done.      *)
PickUpTx(r, t, route, accepted) ==
    /\ At(r, "idle")
    /\ IF tx_status[t] = "initiated" /\ accepted
       THEN /\ tx' = [tx EXCEPT ![r] = t]
            /\ Goto(r, route)
       ELSE /\ Goto(r, "done")
            /\ UNCHANGED tx
    /\ UNCHANGED <<ledgerVars, orderVars, stockVars, txVars, target, was_paid, crashed>>

(* POST /webhooks/paystack accepts the recorded amount and currency only.  *)
Webhook(r, t) ==
    /\ charge[t] # "none"
    /\ PickUpTx(r, t, "webhook", charge[t] = "exact")

(* The verify routes are called by the page the customer comes back to and *)
(* ask Paystack whether the charge succeeded, not of how much.  Neither    *)
(* looks at what the transaction is for; POST /orders/verify-payment does  *)
(* not look at whose it is either, POST /wallet/topup/verify finds the     *)
(* caller's own.                                                           *)
VerifyOrderPayment(r, t) == PickUpTx(r, t, "verify_order", charge[t] # "none")

VerifyTopUp(r, t) == PickUpTx(r, t, "verify_topup", charge[t] # "none")

(* A deliberate fault, for the mutation runs. *)
CanClaimTxUnchecked(t) == TRUE

(* The CAS on payment_transactions.status, the same in all three routes. *)
CanClaimTx(t) == tx_status[t] = "initiated"

ClaimTx(r, route, next) ==
    LET t == tx[r] IN
    /\ At(r, route)
    /\ \/ /\ CanClaimTx(t)
          /\ tx_status' = [tx_status EXCEPT ![t] = "success"]
          /\ target' = [target EXCEPT ![r] = tx_order[t]]
          /\ Goto(r, next)
       \/ /\ ~CanClaimTx(t)
          /\ Goto(r, "done")
          /\ UNCHANGED <<tx_status, target>>
    /\ UNCHANGED <<ledgerVars, orderVars, stockVars, charge, unapplied, tx,
                   was_paid, crashed>>

(* A deliberate fault, for the mutation runs. *)
WebhookForgetsTopUp(r) ==
    ClaimTx(r, "webhook", IF tx_order[tx[r]] = NULL THEN "done" ELSE "confirm")

(* The webhook goes on to the order or, for a top-up, to the wallet.  The  *)
(* verify routes go on to what they are named after, whatever the          *)
(* transaction was for.                                                    *)
ClaimInWebhook(r) ==
    ClaimTx(r, "webhook", IF tx_order[tx[r]] = NULL THEN "credit" ELSE "confirm")

ClaimInVerifyOrder(r) == ClaimTx(r, "verify_order", "confirm")

ClaimInVerifyTopUp(r) == ClaimTx(r, "verify_topup", "credit")

(* confirmOrderPayment: claim the order; only the winner runs the effects. *)
ConfirmOrderPayment(r) ==
    LET o == target[r] IN
    /\ At(r, "confirm")
    /\ o # NULL
    /\ \/ /\ ClaimOrderForPayment(o, tx[r])
          /\ Goto(r, "effects")
          /\ UNCHANGED unapplied
       \/ /\ ~CanClaimOrder(o)
          /\ unapplied' = unapplied \union {tx[r]}
          /\ Goto(r, "done")
          /\ UNCHANGED orderVars
    /\ UNCHANGED <<ledgerVars, stockVars, tx_status, charge, localVars, crashed>>

(* A top-up has no order to confirm: "Order not found" is thrown, with the *)
(* transaction claimed.                                                    *)
OrderNotFound(r) ==
    /\ At(r, "confirm")
    /\ target[r] = NULL
    /\ unapplied' = unapplied \union {tx[r]}
    /\ Goto(r, "done")
    /\ UNCHANGED <<ledgerVars, orderVars, stockVars, tx_status, charge, localVars, crashed>>

(* The wallet is credited with the amount recorded when the transaction    *)
(* was initiated.                                                          *)
CreditTopUp(r) ==
    LET t == tx[r] IN
    /\ At(r, "credit")
    /\ CreditWallet(tx_user[t], tx_amount[t], "topup", t)
    /\ Goto(r, "done")
    /\ UNCHANGED <<unread, orderVars, stockVars, txVars, localVars, crashed>>

-----------------------------------------------------------------------------
(* cancelOrder: a read of the order decides, a batch writes later. *)

Cancellable == {"pending_payment", "processing"}

CancelRead(r, o) ==
    /\ At(r, "idle")
    /\ target' = [target EXCEPT ![r] = o]
    /\ was_paid' = [was_paid EXCEPT ![r] = payment_status[o] # "unpaid"]
    /\ Goto(r, IF order_status[o] \in Cancellable THEN "cancel" ELSE "done")
    /\ UNCHANGED <<ledgerVars, orderVars, stockVars, txVars, tx, crashed>>

(* The UPDATE has no guard but the id; the restock depends on the payment  *)
(* status as it was read.                                                  *)
CancelWrite(r) ==
    LET o == target[r] IN
    /\ At(r, "cancel")
    /\ order_status' = [order_status EXCEPT ![o] = "cancelled"]
    /\ \/ /\ was_paid[r]
          /\ stock' = [l \in Listings |-> stock[l] + quantity[o][l]]
          /\ restocks' = [restocks EXCEPT ![o] = @ + 1]
       \/ /\ ~was_paid[r]
          /\ UNCHANGED <<stock, restocks>>
    /\ Goto(r, "done")
    /\ UNCHANGED <<ledgerVars, payment_status, payment_reference,
                   side_effect_runs, txVars, localVars, crashed>>

-----------------------------------------------------------------------------
(* The Worker dies between two statements of the request. *)
Crash(r) ==
    /\ Cardinality(crashed) < MaxCrashes
    /\ pc[r] \notin {"idle", "done"}
    /\ r \notin crashed
    /\ crashed' = crashed \union {r}
    /\ UNCHANGED <<ledgerVars, orderVars, stockVars, txVars, localVars, pc>>

(* The rest of a request once it has begun. *)
Continue(r) ==
    \/ WalletDebit(r)
    \/ WalletDebitRefused(r)
    \/ WalletRollback(r)
    \/ RunSideEffects(r)
    \/ ClaimInWebhook(r)
    \/ ClaimInVerifyOrder(r)
    \/ ClaimInVerifyTopUp(r)
    \/ ConfirmOrderPayment(r)
    \/ OrderNotFound(r)
    \/ CreditTopUp(r)
    \/ CancelWrite(r)

Next ==
    \/ \E r \in Requests, o \in Orders : WalletClaim(r, o) \/ CancelRead(r, o)
    \/ \E r \in Requests, t \in TxRefs :
         Webhook(r, t) \/ VerifyOrderPayment(r, t) \/ VerifyTopUp(r, t)
    \/ \E t \in TxRefs : PaystackCharge(t)
    \/ \E r \in Requests : Continue(r) \/ Crash(r)

Spec == Init /\ [][Next]_vars

(* A Worker runs the request it has accepted to its end. *)
FairSpec == Spec /\ \A r \in Requests : WF_vars(Continue(r))
-----------------------------------------------------------------------------
(* Every variable keeps to the values the tables and the code allow. *)
TypeOK ==
    /\ WalletTypeOK
    /\ unread \in [Orders -> SUBSET Nat]
    /\ order_status \in [Orders -> OrderStatuses]
    /\ payment_status \in [Orders -> {"unpaid", "escrow_held"}]
    /\ payment_reference \in [Orders -> Requests \union TxRefs \union {NULL}]
    /\ stock \in [Listings -> Nat]
    /\ restocks \in [Orders -> Nat]
    /\ tx_status \in [TxRefs -> {"initiated", "success"}]
    /\ charge \in [TxRefs -> {"none", "exact", "other"}]
    /\ unapplied \in SUBSET TxRefs
    /\ pc \in [Requests -> Locations]
    /\ target \in [Requests -> Orders \union {NULL}]
    /\ tx \in [Requests -> TxRefs \union {NULL}]
    /\ was_paid \in [Requests -> BOOLEAN]
    /\ crashed \in SUBSET Requests
    /\ side_effect_runs \in [Orders -> Nat]

-----------------------------------------------------------------------------
(* Properties. *)

(* The debits of an order, and those its caller was told of: a debit whose *)
(* balance was not read back is one the customer is told has failed.       *)
OrderDebits(o) == EntriesFor(owner[o], "order_payment", o)
Charges(o) == OrderDebits(o) \ unread[o]
Debited(o) == Charges(o) # {}

(* What a transaction's money was used for: the wallet, or an order. *)
TopUpCredits(t) == EntriesFor(tx_user[t], "topup", t)
Credited(t) == TopUpCredits(t) # {}
PaysAnOrder(t) == \E o \in Orders : payment_reference[o] = t
Spent(t) == Credited(t) \/ PaysAnOrder(t)

(* However many calls of payOrderFromWallet and confirmOrderPayment race   *)
(* for an order, and whichever of them die, its total leaves the wallet at *)
(* most once, not counting a debit whose own balance read threw: such a    *)
(* one, and no other, may be followed by another debit.                    *)
ChargedAtMostOnce ==
    \A o \in Orders : \A i, j \in Charges(o) : i = j

(* An order charged by a call that knows of its debit is paid: no          *)
(* rollback, of this call or of another one, may put it back to 'unpaid'   *)
(* (the rollback's "AND payment_reference = ?" is what this rests on).     *)
MoneyTakenMeansPaid ==
    \A o \in Orders :
        Debited(o) => /\ payment_status[o] = "escrow_held"
                      /\ payment_reference[o] \in Requests

(* Goods are never promised on a payment that did not happen: an order in  *)
(* escrow has been charged, or was confirmed by a transaction Paystack     *)
(* collected, or the call that claimed it is still to debit or roll back.  *)
EscrowBacked ==
    \A o \in Orders : payment_status[o] = "escrow_held" =>
        LET ref == payment_reference[o] IN
        \/ Debited(o)
        \/ /\ ref \in TxRefs
           /\ tx_order[ref] = o
           /\ tx_status[ref] = "success"
           /\ charge[ref] # "none"
        \/ /\ ref \in Requests
           /\ target[ref] = o
           /\ pc[ref] \in {"debit", "rollback"}

(* The order and the wallet tell one story, in both directions, and so do  *)
(* the wallet's balance and its ledger.                                    *)
MoneyAndOrderAgree == MoneyTakenMeansPaid /\ EscrowBacked /\ LedgerChained

(* orders.ts:195-201: the side effects are "structurally guaranteed to run *)
(* at most once per order", and run only for an order that is paid.        *)
SideEffectsAtMostOnce ==
    \A o \in Orders :
        /\ side_effect_runs[o] <= 1
        /\ side_effect_runs[o] = 1 => payment_status[o] = "escrow_held"

(* However many webhooks and verify calls race for a Paystack transaction, *)
(* by whichever route, its money is used once: it is credited to the       *)
(* wallet once or pays its order, never both, and only when it was         *)
(* collected.  A claimed transaction that is not used is one whose claimer *)
(* is still to do it, or has found no order that was left to pay.          *)
TransactionSpentOnce ==
    \A t \in TxRefs :
        /\ \A i, j \in TopUpCredits(t) : i = j
        /\ ~(Credited(t) /\ PaysAnOrder(t))
        /\ ~(Spent(t) /\ t \in unapplied)
        /\ Spent(t) \/ t \in unapplied =>
              tx_status[t] = "success" /\ charge[t] # "none"
        /\ tx_status[t] = "success" =>
              \/ Spent(t)
              \/ t \in unapplied
              \/ \E r \in Requests : pc[r] \in {"confirm", "credit"} /\ tx[r] = t

(* What a payment sets off happens once: the order's side effects, and the *)
(* use of a transaction's money, over racing requests, repeated webhooks   *)
(* and routes that do not look at what the transaction was for.            *)
EffectsApplyOnce == SideEffectsAtMostOnce /\ TransactionSpentOnce

(* orders.ts:340-343: "the order is never stuck in a claimed-but-unpaid    *)
(* limbo": the claim of a call that died is backed by its debit.           *)
NoClaimedButUnpaidLimbo ==
    \A o \in Orders : payment_reference[o] \in crashed => Debited(o)

(* A transaction pays for what it was initiated for: "No order_id means    *)
(* this was a wallet top-up" (api-webhooks.ts:120), and so for its routes. *)
PaysForItsPurpose ==
    \A t \in TxRefs : /\ Credited(t) => tx_order[t] = NULL
                      /\ t \in unapplied => tx_order[t] # NULL

(* cancelOrder gives back what a sale took: an order's units return to the *)
(* shelf at most as often as they left it, once no call is in flight.      *)
RestockMatchesSale ==
    (\A r \in Requests : pc[r] \in {"idle", "done"}) =>
        \A o \in Orders : restocks[o] <= side_effect_runs[o]

(* A collected transaction that a call has picked up is used, unless the   *)
(* call that claimed it found no order left to pay: the order was taken,   *)
(* or a top-up was verified at the orders' route.                          *)
CollectedMoneyIsUsed ==
    \A t \in TxRefs :
        \/ tx_status[t] = "initiated"
              /\ \A r \in Requests : pc[r] \in ClaimLocations => tx[r] # t
        \/ Spent(t)
        \/ t \in unapplied

(* What was sold comes off the shelf: money taken for an order, or a       *)
(* collected charge that confirmed it, has had its side effects.           *)
PaidOrdersAreProcessed ==
    \A o \in Orders :
        Debited(o) \/ payment_reference[o] \in TxRefs => side_effect_runs[o] = 1

(* Money that was collected takes effect: whatever is under way, a state   *)
(* comes in which every transaction picked up so far is used and every     *)
(* order paid so far is processed, if no Worker dies on the way.           *)
PaymentTakesEffect ==
    []<>((CollectedMoneyIsUsed /\ PaidOrdersAreProcessed) \/ crashed # {})

-----------------------------------------------------------------------------
(* The implemented promise: an order is paid in the step that moves its    *)
(* money (the debit, or the claim of a confirmed Paystack charge).         *)
PaidBy(o) ==
    CASE Debited(o) -> "wallet"
      [] payment_reference[o] \in TxRefs -> "paystack"
      [] OTHER -> "nobody"

Atomic == INSTANCE AtomicPayment WITH
    CardCharges <- TxRefs,
    chargeUser <- tx_user,
    chargeAmount <- tx_amount,
    chargeOrder <- tx_order,
    paid_by <- [o \in Orders |-> PaidBy(o)],
    balance <- cached_balance,
    in_vain <- [o \in Orders |-> Cardinality(unread[o])],
    spent <- {t \in TxRefs : Spent(t)}

(* Every behaviour of the handlers is, seen through the ledger and the     *)
(* payment references, one of AtomicPayment.                               *)
ImplementsAtomicPayment == Atomic!Spec
=============================================================================
