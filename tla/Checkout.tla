------------------------------ MODULE Checkout ------------------------------
(***************************************************************************)
(* The cart, the coupon and the creation of an order                       *)
(* (src/src/lib/cart.ts, coupons.ts, createPendingOrder of orders.ts, from *)
(* api-cart.ts and api-orders.ts), for one customer's cart and one coupon. *)
(*                                                                         *)
(* A call is an HTTP request being served; when it ends the next one may   *)
(* begin.  One SQL statement or batch is one action.  How an order is paid *)
(* is the module OrderPayment's; here the payment succeeds or it does not. *)
(***************************************************************************)
EXTENDS Integers, FiniteSets, Sums, HttpCalls

CONSTANTS
    Listings,      \* product_listings.id
    price,         \* listing -> price_kobo
    vendor,        \* listing -> vendor_id
    sellerFee,     \* DELIVERY_FEE_PER_SELLER_KOBO of the method
    percent,       \* coupons.discount_value of a percent coupon
    maxDiscount,   \* coupons.max_discount_kobo
    minOrder,      \* coupons.min_order_kobo
    usageLimit,    \* coupons.usage_limit
    MaxRows,       \* bound: rows of cart_items at a time
    Quantities,    \* units the customer asks for at a time
    MaxQuantity,   \* bound: units of one row of the cart
    MaxOrders,     \* bound: orders created
    MaxCalls,      \* bound: calls that begin
    MaxDeaths      \* bound: Workers that die

Rows == 1 .. MaxRows
OrderIds == 1 .. MaxOrders

CartRows == [listing : Listings, quantity : Nat \ {0}, saved : BOOLEAN]
OrderRows == [coupon : BOOLEAN, discount : Nat, total : Nat,
              items : [Listings -> Nat], status : {"unpaid", "paid"}]

ASSUME CheckoutAssumption ==
    /\ IsFiniteSet(Listings)
    /\ price \in [Listings -> Nat]
    /\ {sellerFee, percent, maxDiscount, minOrder, usageLimit, MaxRows,
        MaxQuantity, MaxOrders, MaxCalls, MaxDeaths} \subseteq Nat
    /\ Quantities \subseteq 1 .. MaxQuantity
    /\ percent <= 100
    /\ NULL \notin Rows \union OrderIds \union Listings
    /\ NULL \notin CartRows \union OrderRows

VARIABLES
    cart_items,     \* row -> listing, quantity and is_saved_for_later, or NULL
    guest_items,    \* listing -> units in the cart filled before logging in
    is_active,      \* the coupon is active and not expired
    usage_count,    \* coupons.usage_count
    orders,         \* order -> its row and its items, or NULL
    listing,        \* the listing a call adds
    quantity,       \* the quantity it writes
    row,            \* the row it found
    items,          \* listing -> units the checkout, or the merge, read
    from_cart,      \* the checkout reads the cart (not "Buy Now")
    claimed,        \* the checkout holds a use of the coupon
    order,          \* the order it created
    begun,          \* calls begun so far
    crashes,        \* Workers that died so far
    wanted,         \* history: units the customer put into the cart and has
                    \* neither taken out himself nor bought by wallet
    disturbed       \* history: calls overlapped, died, or paid by card

cartVars == <<cart_items, guest_items>>
couponVars == <<is_active, usage_count>>
checkoutLocals == <<listing, quantity, row, items, from_cart, claimed, order>>
historyVars == <<wanted, disturbed>>
checkoutVars == <<cartVars, couponVars, orders, pc, checkoutLocals, begun, crashes,
                  historyVars>>

None == [l \in Listings |-> 0]

CheckoutLocations == {"idle", "insert", "update", "merge", "coupon", "claim", "order",
                      "order_items", "pay", "remove", "dead"}

(* The customer may have filled a cart as a guest. *)
CheckoutInit ==
    /\ cart_items = [r \in Rows |-> NULL]
    /\ guest_items \in {None} \union
          {[None EXCEPT ![l] = q] : l \in Listings, q \in Quantities}
    /\ is_active = TRUE
    /\ usage_count = 0
    /\ orders = [o \in OrderIds |-> NULL]
    /\ pc = [c \in Calls |-> "idle"]
    /\ listing = [c \in Calls |-> NULL]
    /\ quantity = [c \in Calls |-> 0]
    /\ row = [c \in Calls |-> NULL]
    /\ items = [c \in Calls |-> None]
    /\ from_cart = [c \in Calls |-> FALSE]
    /\ claimed = [c \in Calls |-> FALSE]
    /\ order = [c \in Calls |-> NULL]
    /\ begun = 0
    /\ crashes = 0
    /\ wanted = guest_items
    /\ disturbed = FALSE

-----------------------------------------------------------------------------
Begun ==
    /\ begun < MaxCalls
    /\ begun' = begun + 1
    /\ disturbed' = (disturbed \/ \E c \in Calls : pc[c] # "idle")

Begin(c, there) == Begun /\ Step(c, "idle", there)

(* The call ends and forgets. *)
Forget(c) ==
    /\ listing' = [listing EXCEPT ![c] = NULL]
    /\ quantity' = [quantity EXCEPT ![c] = 0]
    /\ row' = [row EXCEPT ![c] = NULL]
    /\ items' = [items EXCEPT ![c] = None]
    /\ from_cart' = [from_cart EXCEPT ![c] = FALSE]
    /\ claimed' = [claimed EXCEPT ![c] = FALSE]
    /\ order' = [order EXCEPT ![c] = NULL]

Return(c, here) == Step(c, here, "idle") /\ Forget(c)

InCart(r) == cart_items[r] # NULL /\ ~cart_items[r].saved

RowsOf(l) == {r \in Rows : InCart(r) /\ cart_items[r].listing = l}

(* The units in some rows of the cart. *)
UnitsIn(rows) == SumOver([r \in rows |-> cart_items[r].quantity], rows)

(* What getCartItems returns, its rows of one listing added up. *)
CartUnits(l) == UnitsIn(RowsOf(l))

-----------------------------------------------------------------------------
(* The cart. *)

(* addToCart: the existing row is looked up first, because UNIQUE does not *)
(* see two rows without variant as equal.                                  *)
LookUp(c, here, l, q) ==
    /\ \/ /\ RowsOf(l) = {}
          /\ Step(c, here, "insert")
          /\ quantity' = [quantity EXCEPT ![c] = q]
          /\ UNCHANGED row
       \/ \E r \in RowsOf(l) :
          /\ cart_items[r].quantity + q <= MaxQuantity
          /\ Step(c, here, "update")
          /\ quantity' = [quantity EXCEPT ![c] = cart_items[r].quantity + q]
          /\ row' = [row EXCEPT ![c] = r]
    /\ listing' = [listing EXCEPT ![c] = l]

AddToCart(c) ==
    \E l \in Listings, q \in Quantities :
        /\ Begun
        /\ LookUp(c, "idle", l, q)
        /\ wanted' = [wanted EXCEPT ![l] = @ + q]
        /\ UNCHANGED <<cartVars, couponVars, orders, items, from_cart, claimed, order,
                       crashes>>

(* The call ends here, or goes on with the merge it works for. *)
Added(c, here) ==
    \/ items[c] = None /\ Return(c, here)
    \/ /\ items[c] # None
       /\ Step(c, here, "merge")
       /\ items' = [items EXCEPT ![c][listing[c]] = 0]
       /\ UNCHANGED <<listing, quantity, row, from_cart, claimed, order>>

InsertCartItem(c) ==
    \E r \in Rows :
        /\ cart_items[r] = NULL
        /\ Added(c, "insert")
        /\ cart_items' = [cart_items EXCEPT ![r] =
                [listing |-> listing[c], quantity |-> quantity[c], saved |-> FALSE]]
        /\ UNCHANGED <<guest_items, couponVars, orders, begun, crashes, historyVars>>

(* The row may be gone by now: the UPDATE then changes nothing. *)
WriteCartItem(c) ==
    /\ Added(c, "update")
    /\ cart_items' = IF cart_items[row[c]] = NULL THEN cart_items
                     ELSE [cart_items EXCEPT ![row[c]].quantity = quantity[c]]
    /\ UNCHANGED <<guest_items, couponVars, orders, begun, crashes, historyVars>>

(* mergeGuestCartIntoUser, at login: each item the guest had goes through  *)
(* addToCart, and then the guest's cart is deleted.                        *)
MergeGuestCart(c) ==
    /\ guest_items # None
    /\ Begin(c, "merge")
    /\ items' = [items EXCEPT ![c] = guest_items]
    /\ UNCHANGED <<cartVars, couponVars, orders, listing, quantity, row, from_cart,
                   claimed, order, crashes, wanted>>

MergeItem(c) ==
    \E l \in Listings :
        /\ items[c][l] > 0
        /\ LookUp(c, "merge", l, items[c][l])
        /\ UNCHANGED <<cartVars, couponVars, orders, items, from_cart, claimed, order,
                       begun, crashes, historyVars>>

DeleteGuestCart(c) ==
    /\ items[c] = None
    /\ Return(c, "merge")
    /\ guest_items' = None
    /\ UNCHANGED <<cart_items, couponVars, orders, begun, crashes, historyVars>>

(* updateCartItemQuantity; a quantity of 0 deletes, as removeFromCart does.*)
UpdateCartItemQuantity(c) ==
    \E r \in Rows, q \in Quantities \union {0} :
        /\ cart_items[r] # NULL
        /\ Begin(c, "idle")
        /\ cart_items' = IF q = 0 THEN [cart_items EXCEPT ![r] = NULL]
                         ELSE [cart_items EXCEPT ![r].quantity = q]
        /\ wanted' = [wanted EXCEPT
                        ![cart_items[r].listing] = @ - cart_items[r].quantity + q]
        /\ UNCHANGED <<guest_items, couponVars, orders, checkoutLocals, crashes>>

SetSavedForLater(c) ==
    \E r \in Rows, saved \in BOOLEAN :
        /\ cart_items[r] # NULL
        /\ Begin(c, "idle")
        /\ cart_items' = [cart_items EXCEPT ![r].saved = saved]
        /\ UNCHANGED <<guest_items, couponVars, orders, checkoutLocals, crashes, wanted>>

-----------------------------------------------------------------------------
(* The prices. *)

Subtotal(units) == SumOver([l \in Listings |-> price[l] * units[l]], Listings)

Bought(units) == {l \in Listings : units[l] > 0}

DeliveryFee(units) == sellerFee * Cardinality({vendor[l] : l \in Bought(units)})

(* Math.round of the percentage, then the two caps. *)
Discount(subtotal) ==
    LET rounded == (subtotal * percent + 50) \div 100
    IN  Min({rounded, maxDiscount, subtotal})

(* A deliberate fault, for the mutation runs. *)
TotalUndiscounted(units, discount) == Subtotal(units) + DeliveryFee(units)

Total(units, discount) == Max({0, Subtotal(units) + DeliveryFee(units) - discount})

-----------------------------------------------------------------------------
(* The checkout reads the cart, or the one listing of "Buy Now".  A listing*)
(* without enough stock refuses it, and nothing happened.                  *)
Checkout(c) ==
    \E cart \in BOOLEAN, coupon \in BOOLEAN :
        \E units \in IF cart THEN {[l \in Listings |-> CartUnits(l)]}
                     ELSE {[None EXCEPT ![l] = 1] : l \in Listings} :
            /\ Bought(units) # {}
            /\ Begin(c, IF coupon THEN "coupon" ELSE "order")
            /\ items' = [items EXCEPT ![c] = units]
            /\ from_cart' = [from_cart EXCEPT ![c] = cart]
            /\ UNCHANGED <<cartVars, couponVars, orders, listing, quantity,
                           row, claimed, order, crashes, wanted>>

(* validateCoupon. *)
IsValid(subtotal) == is_active /\ usage_count < usageLimit /\ subtotal >= minOrder

ValidateCoupon(c) ==
    /\ Step(c, "coupon", IF IsValid(Subtotal(items[c])) THEN "claim" ELSE "order")
    /\ UNCHANGED <<cartVars, couponVars, orders, checkoutLocals, begun, crashes,
                   historyVars>>

(* A deliberate fault, for the mutation runs: the claim trusts the check.  *)
CanClaimUnchecked == is_active

(* claimCouponUsage: the guard is evaluated at the write. *)
CanClaim == is_active /\ usage_count < usageLimit

ClaimCouponUsage(c) ==
    /\ Step(c, "claim", "order")
    /\ claimed' = [claimed EXCEPT ![c] = CanClaim]
    /\ usage_count' = IF CanClaim THEN usage_count + 1 ELSE usage_count
    /\ UNCHANGED <<cart_items, guest_items, is_active, orders, listing, quantity, row,
                   items, from_cart, order, begun, crashes, historyVars>>

InsertOrder(c) ==
    \E o \in OrderIds :
        LET discount == IF claimed[c] THEN Discount(Subtotal(items[c])) ELSE 0 IN
        /\ orders[o] = NULL
        /\ \A earlier \in 1 .. o - 1 : orders[earlier] # NULL
        /\ Step(c, "order", "order_items")
        /\ orders' = [orders EXCEPT ![o] =
                [coupon |-> claimed[c], discount |-> discount,
                 total |-> Total(items[c], discount), items |-> None,
                 status |-> "unpaid"]]
        /\ order' = [order EXCEPT ![c] = o]
        /\ claimed' = [claimed EXCEPT ![c] = FALSE]
        /\ UNCHANGED <<cartVars, couponVars, listing, quantity, row, items,
                       from_cart, begun, crashes, historyVars>>

InsertOrderItems(c) ==
    /\ Step(c, "order_items", "pay")
    /\ orders' = [orders EXCEPT ![order[c]].items = items[c]]
    /\ UNCHANGED <<cartVars, couponVars, checkoutLocals, begun, crashes,
                   historyVars>>

(* From the wallet; or the payment is refused, or left to the card.        *)
PayFromWallet(c) ==
    /\ Step(c, "pay", IF from_cart[c] THEN "remove" ELSE "idle")
    /\ IF from_cart[c] THEN UNCHANGED checkoutLocals ELSE Forget(c)
    /\ orders' = [orders EXCEPT ![order[c]].status = "paid"]
    /\ wanted' = IF from_cart[c] THEN [l \in Listings |-> wanted[l] - items[c][l]]
                 ELSE wanted
    /\ UNCHANGED <<cartVars, couponVars, begun, crashes, disturbed>>

LeaveUnpaid(c) ==
    /\ Return(c, "pay")
    /\ UNCHANGED <<cartVars, couponVars, orders, begun, crashes,
                   historyVars>>

(* A deliberate fault, for the mutation runs. *)
IsPaidForEverywhere(r, l) == cart_items[r] # NULL /\ cart_items[r].listing = l

IsPaidFor(r, l) == InCart(r) /\ cart_items[r].listing = l

(* removeCartItemsByListingIds. *)
WithoutListings(bought) ==
    [r \in Rows |-> IF \E l \in bought : IsPaidFor(r, l) THEN NULL ELSE cart_items[r]]

RemoveCartItems(c) ==
    /\ Return(c, "remove")
    /\ cart_items' = WithoutListings(Bought(items[c]))
    /\ UNCHANGED <<guest_items, couponVars, orders, begun, crashes, historyVars>>

(* /verify-payment, after Paystack took the card: the order is confirmed,  *)
(* and whatever the cart holds of its listings by then is removed.  When   *)
(* the webhook came first, verify-payment returns early and removes none.  *)
Confirmed(o) ==
    /\ orders[o] # NULL
    /\ orders[o].status = "unpaid"
    /\ \A c \in Calls : order[c] # o
    /\ orders' = [orders EXCEPT ![o].status = "paid"]

VerifyPayment(c) ==
    \E o \in OrderIds :
        /\ Confirmed(o)
        /\ begun < MaxCalls
        /\ begun' = begun + 1
        /\ Step(c, "idle", "remove")
        /\ items' = [items EXCEPT ![c] = orders[o].items]
        /\ disturbed' = TRUE
        /\ UNCHANGED <<cartVars, couponVars, listing, quantity, row,
                       from_cart, claimed, order, crashes, wanted>>

Webhook ==
    \E o \in OrderIds :
        /\ Confirmed(o)
        /\ disturbed' = TRUE
        /\ UNCHANGED <<cartVars, couponVars, pc, checkoutLocals, begun, crashes,
                       wanted>>

-----------------------------------------------------------------------------
(* Staff deactivates the coupon, or it expires. *)
CouponEnds ==
    /\ is_active
    /\ is_active' = FALSE
    /\ UNCHANGED <<cartVars, usage_count, orders, pc, checkoutLocals, begun, crashes,
                   historyVars>>

(* Of a call that died nothing remains but the use of the coupon it had    *)
(* claimed and the order it had inserted.                                  *)
CheckoutCrash(c) ==
    /\ crashes < MaxDeaths
    /\ pc[c] \notin {"idle", "dead"}
    /\ pc' = [pc EXCEPT ![c] = "dead"]
    /\ crashes' = crashes + 1
    /\ disturbed' = TRUE
    /\ listing' = [listing EXCEPT ![c] = NULL]
    /\ quantity' = [quantity EXCEPT ![c] = 0]
    /\ row' = [row EXCEPT ![c] = NULL]
    /\ items' = [items EXCEPT ![c] = None]
    /\ from_cart' = [from_cart EXCEPT ![c] = FALSE]
    /\ UNCHANGED <<cartVars, couponVars, orders, claimed, order, begun, wanted>>

CheckoutHandler(c) ==
    \/ InsertCartItem(c)
    \/ WriteCartItem(c)
    \/ MergeItem(c)
    \/ DeleteGuestCart(c)
    \/ ValidateCoupon(c)
    \/ ClaimCouponUsage(c)
    \/ InsertOrder(c)
    \/ InsertOrderItems(c)
    \/ PayFromWallet(c)
    \/ LeaveUnpaid(c)
    \/ RemoveCartItems(c)

CheckoutNext ==
    \/ \E c \in Calls :
          \/ AddToCart(c)
          \/ MergeGuestCart(c)
          \/ UpdateCartItemQuantity(c)
          \/ SetSavedForLater(c)
          \/ Checkout(c)
          \/ VerifyPayment(c)
          \/ CheckoutHandler(c)
          \/ CheckoutCrash(c)
    \/ Webhook
    \/ CouponEnds

(* A Worker that is not killed runs its handler to the end. *)
CheckoutFairness == \A c \in Calls : WF_checkoutVars(CheckoutHandler(c))

CheckoutSpec == CheckoutInit /\ [][CheckoutNext]_checkoutVars /\ CheckoutFairness

-----------------------------------------------------------------------------
(* Properties. *)

(* What is billed is what is delivered, at the prices listed and with the  *)
(* delivery fee of every seller, less a discount never above the goods.    *)
BilledAsBought ==
    \A o \in OrderIds :
        orders[o] # NULL /\ Bought(orders[o].items) # {} =>
            LET units == orders[o].items IN
            /\ orders[o].total = Subtotal(units) + DeliveryFee(units) - orders[o].discount
            /\ orders[o].discount <= Subtotal(units)
            /\ orders[o].discount > 0 => orders[o].coupon

CheckoutTypes ==
    /\ cart_items \in [Rows -> CartRows \union {NULL}]
    /\ guest_items \in [Listings -> Nat]
    /\ is_active \in BOOLEAN
    /\ usage_count \in Nat
    /\ orders \in [OrderIds -> OrderRows \union {NULL}]
    /\ pc \in [Calls -> CheckoutLocations]
    /\ listing \in [Calls -> Listings \union {NULL}]
    /\ quantity \in [Calls -> Nat]
    /\ row \in [Calls -> Rows \union {NULL}]
    /\ items \in [Calls -> [Listings -> Nat]]
    /\ from_cart \in [Calls -> BOOLEAN]
    /\ claimed \in [Calls -> BOOLEAN]
    /\ order \in [Calls -> OrderIds \union {NULL}]
    /\ begun \in 0 .. MaxCalls
    /\ crashes \in 0 .. MaxDeaths
    /\ wanted \in [Listings -> Int]
    /\ disturbed \in BOOLEAN

(* Types, and the bill of every order. *)
CheckoutTypeOK == CheckoutTypes /\ BilledAsBought

(* "usage_limit is a limit on REDEMPTIONS" (coupons.ts:126): however many  *)
(* checkouts race for the coupon, every use counted belongs to one order,  *)
(* or to one call that is about to create it (a Worker that died there     *)
(* wastes the one use it claimed), and there are never more than allowed.  *)
EveryUseIsAccountedFor ==
    /\ usage_count <= usageLimit
    /\ usage_count = Cardinality({o \in OrderIds : orders[o] # NULL /\ orders[o].coupon})
                     + Cardinality({c \in Calls : claimed[c]})

HeldRows(l) == {r \in Rows : cart_items[r] # NULL /\ cart_items[r].listing = l}

(* A customer who waits for each answer and pays from the wallet never     *)
(* loses a unit, pays it twice or finds it left behind, through logging in *)
(* with a guest's cart, duplicate rows, units saved for later, "Buy Now"   *)
(* and refused payments: what was put into the cart is in it, was taken    *)
(* out, or was bought.                                                     *)
UndisturbedCartLosesNothing ==
    ~disturbed /\ (\A c \in Calls : pc[c] = "idle") =>
        \A l \in Listings : wanted[l] = UnitsIn(HeldRows(l)) + guest_items[l]
=============================================================================
