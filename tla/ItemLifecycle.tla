---------------------------- MODULE ItemLifecycle ----------------------------
(***************************************************************************)
(* The items of a marketplace order after checkout: their status machine   *)
(* (transitionOrderItemStatus), the status of the order derived from them  *)
(* (recomputeOrderAggregateStatus), the stock a cancellation gives back    *)
(* (adjustStock), and the functions of orders.ts that write the same rows: *)
(* the claim of a payment with its side effects or its rollback, and       *)
(* cancelOrder.                                                            *)
(*                                                                         *)
(* A request is one HTTP request; one SQL statement or db.batch() is one   *)
(* action and everything else interleaves.  The item's UPDATE asks for no  *)
(* status: what the request decided on is what it read before.             *)
(***************************************************************************)
EXTENDS Integers, Sums, OrderItems

CONSTANTS
    Listings,      \* product_listings.id
    Requests,      \* HTTP requests, each used once
    listing_of,    \* item -> its listing
    quantity,      \* item -> units
    initialStock,  \* listing -> stock before any payment
    Backordered,   \* listings whose seller sets allow_backorder, now or then
    Deltas,        \* what a seller may adjust a stock by
    MaxFaults      \* bound: dying Workers and failing restocks

ItemStatuses == {"processing", "ready_for_fulfillment", "shipped", "delivered",
                 "completed", "cancelled", "disputed"}

OrderStatuses == {"pending_payment", "processing", "partially_cancelled",
                  "cancelled", "disputed", "completed", "delivered", "shipped"}

(* createPendingOrder refuses a cart with nothing in it. *)
ASSUME ItemLifecycleAssumption ==
    /\ IsFiniteSet(Items)
    /\ order_of \in [Items -> Orders]
    /\ \A o \in Orders : \E i \in Items : order_of[i] = o
    /\ listing_of \in [Items -> Listings]
    /\ quantity \in [Items -> Nat \ {0}]
    /\ initialStock \in [Listings -> Nat]
    /\ Backordered \subseteq Listings
    /\ Deltas \subseteq Int \ {0}
    /\ MaxFaults \in Nat
    /\ NULL \notin Items \union Orders \union OrderStatuses

VARIABLES
    item_status,     \* order_items.item_status
    order_status,    \* orders.status
    payment_status,  \* orders.payment_status
    stock,           \* product_listings.stock
    pc,              \* where each request stands
    order,           \* the order a request works on
    item,            \* the item a request moves
    to,              \* the status it moves the item to
    listing,         \* the listing whose stock it adjusts
    delta,           \* by how much
    from,            \* the status its last read returned
    seen,            \* the stock its last read returned
    faults,          \* faults so far
    visited,         \* history: the statuses an item ever had
    restocks,        \* history: 'order_cancelled' adjustments, by item
    disturbed        \* history: orders written on an outdated read, or half,
                     \*          and those whose payment was taken back too late

rowVars == <<item_status, order_status, payment_status, stock>>
localVars == <<order, item, to, from, listing, delta, seen>>
historyVars == <<visited, restocks, disturbed>>
vars == <<rowVars, localVars, historyVars, pc, faults>>

Roles == {"seller", "customer"}

Locations == {"idle", "write", "payment", "stock", "restock", "items",
              "status", "sweep", "debit", "rollback", "deduct", "done"}

(* The units of a listing that an order holds. *)
UnitsOf(o, l) == SumOver(quantity, {i \in ItemsOf(o) : listing_of[i] = l})

(* The rows an order can have when the behaviour starts: just placed, or   *)
(* paid, its stock deducted, and some items on their way.                  *)
Init ==
    \E paid \in SUBSET Orders :
        /\ payment_status = [o \in Orders |->
                                IF o \in paid THEN "escrow_held" ELSE "unpaid"]
        /\ \E shipped \in SUBSET {i \in Items : order_of[i] \in paid} :
              /\ item_status = [i \in Items |->
                                   IF i \in shipped THEN "shipped" ELSE "processing"]
              /\ visited = [i \in Items |-> {"processing", item_status[i]}]
              /\ order_status = [o \in Orders |->
                    IF o \notin paid THEN "pending_payment"
                    ELSE IF ItemsOf(o) \intersect shipped # {} THEN "shipped"
                    ELSE "processing"]
        /\ stock = initialStock
        /\ pc = [r \in Requests |-> "idle"]
        /\ order = [r \in Requests |-> NULL]
        /\ item = [r \in Requests |-> NULL]
        /\ to = [r \in Requests |-> NULL]
        /\ listing = [r \in Requests |-> NULL]
        /\ delta = [r \in Requests |-> 0]
        /\ from = [r \in Requests |-> NULL]
        /\ seen = [r \in Requests |-> 0]
        /\ faults = 0
        /\ restocks = [i \in Items |-> 0]
        /\ disturbed = {}

-----------------------------------------------------------------------------
Transition(r, here, location) ==
    /\ pc[r] = here
    /\ pc' = [pc EXCEPT ![r] = location]

Disturb(o, outdated) == disturbed' = IF outdated THEN disturbed \union {o} ELSE disturbed

(* TRANSITIONS, for the two roles transitionOrderItemStatus accepts.  It   *)
(* throws for 'admin' and 'system'.                                        *)
TargetsOf(role, old) ==
    CASE old \in {"processing", "ready_for_fulfillment"} ->
            IF role = "customer" THEN {"cancelled"}
            ELSE {"shipped", "cancelled"} \union
                 (IF old = "processing" THEN {"ready_for_fulfillment"} ELSE {})
      [] old = "shipped" ->
            {"delivered"} \union (IF role = "customer" THEN {"disputed"} ELSE {})
      [] old = "delivered" ->
            {"completed"} \union (IF role = "customer" THEN {"disputed"} ELSE {})
      [] old = "completed" -> IF role = "customer" THEN {"disputed"} ELSE {}
      [] OTHER -> {}

(* A deliberate fault, for the mutation runs. *)
LegalMoveByEitherRoute(old, target) ==
    target \in {"shipped", "cancelled", "delivered", "completed", "disputed"} \ {old}

LegalMove(old, target) == \E role \in Roles : target \in TargetsOf(role, old)

(* transitionOrderItemStatus: the read of the item and the check of the    *)
(* move.  A refused request changes nothing.                               *)
ReadItem(r) ==
    \E i \in Items, target \in ItemStatuses :
        /\ LegalMove(item_status[i], target)
        /\ Transition(r, "idle", "write")
        /\ order' = [order EXCEPT ![r] = order_of[i]]
        /\ item' = [item EXCEPT ![r] = i]
        /\ to' = [to EXCEPT ![r] = target]
        /\ from' = [from EXCEPT ![r] = item_status[i]]
        /\ UNCHANGED <<rowVars, listing, delta, seen, historyVars, faults>>

AfterWrite(target) == IF target = "cancelled" THEN "payment" ELSE "items"

(* UPDATE order_items SET item_status = ? WHERE id = ?. *)
WriteItem(r) ==
    LET i == item[r] IN
    /\ Transition(r, "write", AfterWrite(to[r]))
    /\ item_status' = [item_status EXCEPT ![i] = to[r]]
    /\ visited' = [visited EXCEPT ![i] = @ \union {to[r]}]
    /\ Disturb(order[r], item_status[i] # from[r])
    /\ UNCHANGED <<order_status, payment_status, stock, localVars, restocks, faults>>

IsRestocked(o) == payment_status[o] # "unpaid"

(* A cancelled item goes back on sale when its order was paid. *)
ReadPaymentStatus(r) ==
    /\ Transition(r, "payment", IF IsRestocked(order[r]) THEN "stock" ELSE "items")
    /\ listing' = [listing EXCEPT ![r] = listing_of[item[r]]]
    /\ delta' = [delta EXCEPT ![r] = quantity[item[r]]]
    /\ UNCHANGED <<rowVars, order, item, to, from, seen, historyVars, faults>>

-----------------------------------------------------------------------------
(* adjustStock, for a cancelled item or a seller's manual adjustment: a    *)
(* read, and the write of a value computed from it.                        *)
ReadStock(r, l, location) ==
    /\ Transition(r, location, "restock")
    /\ seen' = [seen EXCEPT ![r] = stock[l]]

(* A deliberate fault, for the mutation runs. *)
CanAdjustUnchecked(l, d) == TRUE

(* Below zero adjustStock throws InsufficientStockError, on the value read, *)
(* unless the same read finds allow_backorder set.  A seller who sets it   *)
(* may clear it again: what a read finds is left open for such a listing.  *)
CanAdjust(l, d) == stock[l] + d >= 0 \/ l \in Backordered

MayRefuse(l, d) == stock[l] + d < 0

ReadStockOfItem(r) ==
    /\ ReadStock(r, listing[r], "stock")
    /\ CanAdjust(listing[r], delta[r])
    /\ UNCHANGED <<rowVars, order, item, to, from, listing, delta, historyVars, faults>>

(* A shelf that backorders have left far below zero refuses even a restock, *)
(* once they are no longer allowed; the cancellation goes on without it.   *)
RestockRefused(r) ==
    /\ Transition(r, "stock", "items")
    /\ MayRefuse(listing[r], delta[r])
    /\ UNCHANGED <<rowVars, localVars, historyVars, faults>>

ManualAdjustment(r) ==
    \E l \in Listings, d \in Deltas :
        /\ CanAdjust(l, d)
        /\ ReadStock(r, l, "idle")
        /\ listing' = [listing EXCEPT ![r] = l]
        /\ delta' = [delta EXCEPT ![r] = d]
        /\ UNCHANGED <<rowVars, order, item, to, from, historyVars, faults>>

WriteStock(r) ==
    LET i == item[r] IN
    /\ Transition(r, "restock", IF i = NULL THEN "done" ELSE "items")
    /\ stock' = [stock EXCEPT ![listing[r]] = seen[r] + delta[r]]
    /\ IF i = NULL
       THEN UNCHANGED <<restocks, disturbed>>
       ELSE /\ restocks' = [restocks EXCEPT ![i] = @ + 1]
            /\ Disturb(order[r], payment_status[order[r]] = "unpaid")
    /\ UNCHANGED <<item_status, order_status, payment_status, localVars, visited, faults>>

(* The restock of a cancelled item is in a try: the cancellation stands    *)
(* and the units are not given back.                                       *)
RestockFails(r) ==
    /\ faults < MaxFaults
    /\ item[r] # NULL
    /\ pc[r] \in {"stock", "restock"}
    /\ Transition(r, pc[r], "items")
    /\ faults' = faults + 1
    /\ disturbed' = disturbed \union {order[r]}
    /\ UNCHANGED <<rowVars, localVars, visited, restocks>>

-----------------------------------------------------------------------------
(* A deliberate fault, for the mutation runs. *)
AggregateSomeDelivered(statuses) ==
    IF statuses \intersect {"delivered", "completed"} # {} THEN "delivered" ELSE NULL

(* recomputeOrderAggregateStatus's rule over the items' statuses; NULL     *)
(* leaves orders.status alone.                                             *)
Aggregate(statuses) ==
    IF statuses = {"cancelled"} THEN "cancelled"
    ELSE IF "disputed" \in statuses THEN "disputed"
    ELSE IF statuses = {"completed"} THEN "completed"
    ELSE IF statuses \subseteq {"delivered", "completed"} THEN "delivered"
    ELSE IF statuses \intersect {"shipped", "delivered", "completed"} # {} THEN "shipped"
    ELSE IF "cancelled" \in statuses THEN "partially_cancelled"
    ELSE NULL

Derived(o) == Aggregate({item_status[i] : i \in ItemsOf(o)})

ReadItems(r) ==
    LET derived == Derived(order[r]) IN
    /\ Transition(r, "items", IF derived = NULL THEN "done" ELSE "status")
    /\ from' = [from EXCEPT ![r] = derived]
    /\ UNCHANGED <<rowVars, order, item, to, listing, delta, seen, historyVars, faults>>

WriteStatus(r) ==
    LET o == order[r] IN
    /\ Transition(r, "status", "done")
    /\ order_status' = [order_status EXCEPT ![o] = from[r]]
    /\ Disturb(o, Derived(o) # from[r])
    /\ UNCHANGED <<item_status, payment_status, stock, localVars, visited, restocks,
                   faults>>

-----------------------------------------------------------------------------
(* orders.ts: the payment and the cancellation of a whole order. *)

(* claimOrderForPayment looks at payment_status alone, so it also takes an *)
(* order whose items have moved on back to 'processing'.  A wallet payment *)
(* goes on to its debit, a Paystack confirmation to the side effects.      *)
PayOrder(r) ==
    \E o \in Orders, next \in {"debit", "deduct"} :
        /\ payment_status[o] = "unpaid"
        /\ Transition(r, "idle", next)
        /\ order' = [order EXCEPT ![r] = o]
        /\ payment_status' = [payment_status EXCEPT ![o] = "escrow_held"]
        /\ order_status' = [order_status EXCEPT ![o] = "processing"]
        /\ Disturb(o, order_status[o] # "pending_payment")
        /\ UNCHANGED <<item_status, stock, item, to, from, listing, delta, seen, visited,
                       restocks, faults>>

(* debitWallet, whose rows are OrderPayment's, succeeds or throws. *)
Debit(r) ==
    /\ \E next \in {"deduct", "rollback"} : Transition(r, "debit", next)
    /\ UNCHANGED <<rowVars, localVars, historyVars, faults>>

(* The catch block of payOrderFromWallet puts the order back as it was     *)
(* placed, whatever its items have become since the claim.  It asks for    *)
(* escrow_held and its own reference, which nothing here takes from it.    *)
RollBackPayment(r) ==
    LET o == order[r] IN
    /\ Transition(r, "rollback", "done")
    /\ order_status' = [order_status EXCEPT ![o] = "pending_payment"]
    /\ payment_status' = [payment_status EXCEPT ![o] = "unpaid"]
    /\ Disturb(o, \/ order_status[o] # "processing"
                  \/ \E i \in ItemsOf(o) : restocks[i] > 0)
    /\ UNCHANGED <<item_status, stock, localVars, visited, restocks, faults>>

(* runOrderPaymentSideEffects: stock = MAX(0, stock - quantity), for every *)
(* item there is, cancelled or not: one statement per item, in one batch,  *)
(* which takes the units of all and stops at zero: a stock that backorders *)
(* have left below zero comes back up to it.                               *)
DeductStock(r) ==
    LET left(l) == stock[l] - UnitsOf(order[r], l) IN
    /\ Transition(r, "deduct", "done")
    /\ stock' = [l \in Listings |-> IF left(l) < 0 THEN 0 ELSE left(l)]
    /\ UNCHANGED <<item_status, order_status, payment_status, localVars, historyVars,
                   faults>>

(* cancelOrder: the read of the order, then one batch over all its items.  *)
ReadOrder(r) ==
    \E o \in Orders :
        /\ order_status[o] \in {"pending_payment", "processing"}
        /\ Transition(r, "idle", "sweep")
        /\ order' = [order EXCEPT ![r] = o]
        /\ from' = [from EXCEPT ![r] = payment_status[o]]
        /\ UNCHANGED <<rowVars, item, to, listing, delta, seen, historyVars, faults>>

CancelOrder(r) ==
    LET o == order[r]
        was_paid == from[r] # "unpaid"
    IN
    /\ Transition(r, "sweep", "done")
    /\ order_status' = [order_status EXCEPT ![o] = "cancelled"]
    /\ item_status' = [i \in Items |->
                          IF order_of[i] = o THEN "cancelled" ELSE item_status[i]]
    /\ visited' = [i \in Items |->
                      visited[i] \union (IF order_of[i] = o THEN {"cancelled"} ELSE {})]
    /\ stock' = IF was_paid THEN [l \in Listings |-> stock[l] + UnitsOf(o, l)] ELSE stock
    /\ restocks' = IF was_paid
                   THEN [i \in Items |-> restocks[i] + (IF order_of[i] = o THEN 1 ELSE 0)]
                   ELSE restocks
    /\ Disturb(o, \/ order_status[o] \notin {"pending_payment", "processing"}
                  \/ payment_status[o] # from[r]
                  \/ \E i \in ItemsOf(o) :
                        item_status[i] \notin {"processing", "ready_for_fulfillment"})
    /\ UNCHANGED <<payment_status, localVars, faults>>

(* A Worker dies between two statements. *)
Crash(r) ==
    /\ faults < MaxFaults
    /\ pc[r] \notin {"idle", "done"}
    /\ Transition(r, pc[r], "done")
    /\ faults' = faults + 1
    /\ disturbed' = disturbed \union (IF order[r] = NULL THEN {} ELSE {order[r]})
    /\ UNCHANGED <<rowVars, localVars, visited, restocks>>

Handler(r) ==
    \/ WriteItem(r)
    \/ ReadPaymentStatus(r)
    \/ ReadStockOfItem(r)
    \/ RestockRefused(r)
    \/ WriteStock(r)
    \/ ReadItems(r)
    \/ WriteStatus(r)
    \/ Debit(r)
    \/ RollBackPayment(r)
    \/ DeductStock(r)
    \/ CancelOrder(r)

Next ==
    \E r \in Requests :
        \/ ReadItem(r)
        \/ ManualAdjustment(r)
        \/ PayOrder(r)
        \/ ReadOrder(r)
        \/ Handler(r)
        \/ RestockFails(r)
        \/ Crash(r)

(* A Worker that is not killed runs its handler to the end. *)
Fairness == \A r \in Requests : WF_vars(Handler(r))

Spec == Init /\ [][Next]_vars /\ Fairness

-----------------------------------------------------------------------------
(* Properties. *)

(* Types.  Stock is never negative where no backorder is allowed: the sale *)
(* clamps it, adjustStock checks the value it read, and no restock takes   *)
(* away, however outdated that value is when it is written.                *)
TypeOK ==
    /\ item_status \in [Items -> ItemStatuses]
    /\ order_status \in [Orders -> OrderStatuses]
    /\ payment_status \in [Orders -> {"unpaid", "escrow_held"}]
    /\ stock \in [Listings -> Int]
    /\ \A l \in Listings \ Backordered : stock[l] >= 0
    /\ pc \in [Requests -> Locations]
    /\ order \in [Requests -> Orders \union {NULL}]
    /\ item \in [Requests -> Items \union {NULL}]
    /\ to \in [Requests -> ItemStatuses \union {NULL}]
    /\ listing \in [Requests -> Listings \union {NULL}]
    /\ delta \in [Requests -> Int]
    /\ seen \in [Requests -> Int]
    /\ faults \in 0 .. MaxFaults
    /\ visited \in [Items -> SUBSET ItemStatuses]
    /\ restocks \in [Items -> Nat]
    /\ disturbed \subseteq Orders

(* No stage of an item's life is skipped, whatever requests overlap: what  *)
(* is delivered or disputed was shipped, what is completed was delivered,  *)
(* and only a cancelled item was ever put back on sale.                    *)
NoStageSkipped ==
    \A i \in Items :
        /\ visited[i] \intersect {"delivered", "disputed"} # {} => "shipped" \in visited[i]
        /\ "completed" \in visited[i] => "delivered" \in visited[i]
        /\ restocks[i] > 0 => "cancelled" \in visited[i]

(* A request is at the order's items or status.  A payment is not: what it *)
(* writes there agrees with the items at once.                             *)
Busy(o) == \E r \in Requests :
    order[r] = o /\ pc[r] \notin {"idle", "debit", "rollback", "deduct", "done"}

(* The order says nothing its items do not: it is delivered, completed or  *)
(* cancelled only with all of them, disputed with any, and no longer       *)
(* waiting once one has been shipped.                                      *)
StatusAgrees(o) ==
    LET statuses == {item_status[i] : i \in ItemsOf(o)} IN
    /\ order_status[o] = "cancelled" <=> statuses = {"cancelled"}
    /\ order_status[o] = "disputed" <=> "disputed" \in statuses
    /\ order_status[o] = "completed" <=> statuses = {"completed"}
    /\ order_status[o] = "delivered" => statuses \subseteq {"delivered", "completed"}
    /\ order_status[o] \in {"pending_payment", "processing", "partially_cancelled"} =>
            statuses \intersect {"shipped", "delivered", "completed"} = {}

(* A cancelled item stays so, and gives its units back once, if paid for.  *)
CancelledForGood(i) ==
    "cancelled" \in visited[i] =>
        /\ item_status[i] = "cancelled"
        /\ restocks[i] <= 1

(* What orders.ts and order-lifecycle.ts promise about an order, as long   *)
(* as no request writes on a read another one has overtaken, none stops    *)
(* half way, and no payment is taken back after the order moved on: its    *)
(* status is its items', a cancelled item never moves nor is restocked     *)
(* twice, and an unpaid order, never claimed or put back after a failed    *)
(* debit, gives no units back.                                             *)
UndisturbedOrderIsConsistent ==
    \A o \in Orders \ disturbed :
        /\ ~Busy(o) => StatusAgrees(o)
        /\ \A i \in ItemsOf(o) : CancelledForGood(i)
        /\ payment_status[o] = "unpaid" => \A i \in ItemsOf(o) : restocks[i] = 0

(* "Terminal for every actor - a cancelled item never moves again", and    *)
(* the rest of the table (order-lifecycle.ts:75-112).                      *)
CancelledNeverMovesAgain ==
    \A i \in Items : "cancelled" \in visited[i] => item_status[i] = "cancelled"

(* cancelOrder is refused once a seller has shipped (orders.ts:388-398).   *)
ShippedIsNotCancelled ==
    \A i \in Items : item_status[i] = "cancelled" => "shipped" \notin visited[i]
=============================================================================
