------------------------- MODULE OutdatedReadsProofs -------------------------
(***************************************************************************)
(* What holds although a write rests on a read that others may have        *)
(* overtaken: of order items and of the affiliate program, for any rows    *)
(* and requests.                                                           *)
(*                                                                         *)
(* Order items.  The item's UPDATE asks for no status, so an item's status *)
(* may go back; but each move was legal from a status the item once had    *)
(* (PathInv), and that is enough for its past.  An undisturbed order       *)
(* agrees with its items, or a request has still to derive its status; and *)
(* its status is never ahead of its items, so that a request that derives  *)
(* none may leave it alone (StatusInv).  One request at most puts a        *)
(* cancelled item back on sale (UnitsInv).                                 *)
(*                                                                         *)
(* The affiliate program.  A payout's or a commission's row is written by  *)
(* a call that wrote its payout or commission before; what such a call     *)
(* still owes is part of the invariant (CreditInv, PayoutInv), and that no *)
(* other call is at the same order or payout (SoleInv) makes its row the   *)
(* only one.  The balance written is right when the balance read still     *)
(* stands, which is what "overtaken" is the history of (BalanceInv).       *)
(***************************************************************************)
EXTENDS ItemLifecycle, Affiliate, CommonLemmas

(***************************************************************************)
(* Order items and inventory.                                              *)
(***************************************************************************)

Types ==
    /\ item_status \in [Items -> ItemStatuses]
    /\ pc \in [Requests -> Locations]
    /\ item \in [Requests -> Items \union {NULL}]
    /\ to \in [Requests -> ItemStatuses \union {NULL}]
    /\ DOMAIN from = Requests
    /\ visited \in [Items -> SUBSET ItemStatuses]
    /\ restocks \in [Items -> Nat]

(* What an item went through. *)
PastOK(i) ==
    /\ item_status[i] \in visited[i]
    /\ visited[i] \intersect {"delivered", "disputed"} # {} => "shipped" \in visited[i]
    /\ "completed" \in visited[i] => "delivered" \in visited[i]
    /\ restocks[i] > 0 => "cancelled" \in visited[i]

PastInv == \A i \in Items : PastOK(i)

(* A request moves an item from a status it had, as the table lets it, and *)
(* restocks what was cancelled.                                            *)
PathInv ==
    \A r \in Requests :
        /\ pc[r] = "idle" => item[r] = NULL
        /\ pc[r] = "write" =>
              /\ item[r] \in Items
              /\ from[r] \in visited[item[r]]
              /\ LegalMove(from[r], to[r])
        /\ pc[r] \in {"payment", "stock", "restock"} /\ item[r] \in Items =>
              "cancelled" \in visited[item[r]]

Inv == Types /\ PastInv /\ PathInv

Others(r) ==
    \A s \in Requests : s # r =>
        /\ pc'[s] = pc[s]
        /\ item'[s] = item[s]
        /\ to'[s] = to[s]
        /\ from'[s] = from[s]

Grows == \A i \in Items : visited[i] \subseteq visited'[i]

-----------------------------------------------------------------------------
(* What TRANSITIONS lets an item become, whoever asks. *)
LEMMA LegalMoves ==
    ASSUME NEW old, NEW target, LegalMove(old, target)
    PROVE  /\ target \in ItemStatuses
           /\ target \in {"delivered", "disputed"} =>
                 old \in {"shipped", "delivered", "completed"}
           /\ target = "completed" => old = "delivered"
BY DEF LegalMove, TargetsOf, Roles, ItemStatuses

(* What is known of the other requests still holds after a step of one. *)
LEMMA OtherRequests ==
    ASSUME Inv, NEW r \in Requests, Others(r), Grows, Types', pc'[r] # "idle",
           pc'[r] = "write" =>
              /\ item'[r] \in Items
              /\ from'[r] \in visited'[item'[r]]
              /\ LegalMove(from'[r], to'[r]),
           pc'[r] \in {"payment", "stock", "restock"} /\ item'[r] \in Items =>
              "cancelled" \in visited'[item'[r]]
    PROVE  PathInv'
<1> SUFFICES ASSUME NEW s \in Requests, s # r
             PROVE  /\ pc'[s] = "idle" => item'[s] = NULL
                    /\ pc'[s] = "write" =>
                          /\ item'[s] \in Items
                          /\ from'[s] \in visited'[item'[s]]
                          /\ LegalMove(from'[s], to'[s])
                    /\ pc'[s] \in {"payment", "stock", "restock"} /\ item'[s] \in Items =>
                          "cancelled" \in visited'[item'[s]]
    BY DEF PathInv, LegalMove
<1>1. pc'[s] = pc[s] /\ item'[s] = item[s] /\ to'[s] = to[s] /\ from'[s] = from[s]
    BY DEF Others
<1>. QED
    BY <1>1 DEF Inv, PathInv, Grows

(* Nothing an item went through changes unless it is written. *)
LEMMA UnchangedItems ==
    ASSUME Inv, UNCHANGED <<item_status, visited, restocks>>
    PROVE  PastInv' /\ Grows
BY DEF Inv, PastInv, PastOK, Grows

(* Reads, and writes of other rows. *)
LEMMA ElsewhereKeeps ==
    ASSUME Inv, NEW r \in Requests,
           \/ ManualAdjustment(r) \/ ReadPaymentStatus(r) \/ ReadStockOfItem(r)
           \/ RestockRefused(r) \/ ReadItems(r) \/ WriteStatus(r) \/ PayOrder(r)
           \/ Debit(r) \/ RollBackPayment(r) \/ DeductStock(r)
           \/ ReadOrder(r) \/ RestockFails(r) \/ Crash(r)
    PROVE  Inv'
<1>1. /\ UNCHANGED <<item_status, visited, restocks, item, to>>
      /\ \A s \in Requests : s # r => pc'[s] = pc[s] /\ from'[s] = from[s]
      /\ pc' \in [Requests -> Locations]
      /\ DOMAIN from' = Requests
      /\ pc'[r] \notin {"idle", "write"}
      /\ pc'[r] \in {"payment", "stock", "restock"} =>
            pc[r] \in {"payment", "stock", "restock"} \/ item[r] = NULL
    <2> USE DEF Inv, Types, Transition, Locations, rowVars, localVars, historyVars
    <2>1. CASE ManualAdjustment(r)
        BY <2>1 DEF PathInv, ManualAdjustment, ReadStock
    <2>2. CASE ReadPaymentStatus(r)
        BY <2>2 DEF ReadPaymentStatus
    <2>3. CASE ReadStockOfItem(r)
        BY <2>3 DEF ReadStockOfItem, ReadStock
    <2>4. CASE ReadItems(r)
        BY <2>4 DEF ReadItems
    <2>5. CASE WriteStatus(r)
        BY <2>5 DEF WriteStatus
    <2>6. CASE PayOrder(r)
        BY <2>6 DEF PayOrder
    <2>7. CASE DeductStock(r)
        BY <2>7 DEF DeductStock
    <2>8. CASE ReadOrder(r)
        BY <2>8 DEF ReadOrder
    <2>9. CASE RestockFails(r)
        BY <2>9 DEF RestockFails
    <2>10. CASE Crash(r)
        BY <2>10 DEF Crash
    <2>11. CASE RestockRefused(r)
        BY <2>11 DEF RestockRefused
    <2>12. CASE Debit(r)
        BY <2>12 DEF Debit
    <2>13. CASE RollBackPayment(r)
        BY <2>13 DEF RollBackPayment
    <2>. QED
        BY <2>1, <2>2, <2>3, <2>4, <2>5, <2>6, <2>7, <2>8, <2>9, <2>10, <2>11, <2>12, <2>13
<1>2. Types'
    BY <1>1 DEF Inv, Types
<1>3. PastInv' /\ Grows
    BY <1>1, UnchangedItems
<1>4. pc'[r] \in {"payment", "stock", "restock"} /\ item'[r] \in Items =>
         "cancelled" \in visited'[item'[r]]
    BY <1>1, ItemLifecycleAssumption DEF Inv, PathInv
<1>5. Others(r)
    BY <1>1 DEF Others
<1>. QED
    BY <1>1, <1>2, <1>3, <1>4, <1>5, OtherRequests DEF Inv

(* transitionOrderItemStatus decides on what it reads. *)
LEMMA ReadItemKeeps ==
    ASSUME Inv, NEW r \in Requests, ReadItem(r)
    PROVE  Inv'
<1>1. PICK i \in Items, target \in ItemStatuses :
         /\ LegalMove(item_status[i], target)
         /\ Transition(r, "idle", "write")
         /\ item' = [item EXCEPT ![r] = i]
         /\ to' = [to EXCEPT ![r] = target]
         /\ from' = [from EXCEPT ![r] = item_status[i]]
         /\ UNCHANGED <<rowVars, historyVars>>
    BY DEF ReadItem
<1>2. Types' /\ Others(r)
    BY <1>1 DEF Inv, Types, Others, Transition, Locations, rowVars, historyVars
<1>3. PastInv' /\ Grows
    BY <1>1, UnchangedItems DEF rowVars, historyVars
<1>4. /\ pc'[r] = "write"
      /\ item'[r] = i
      /\ to'[r] = target
      /\ from'[r] = item_status[i]
      /\ item_status[i] \in visited'[i]
    BY <1>1 DEF Inv, Types, PastInv, PastOK, Transition, historyVars
<1>. QED
    BY <1>1, <1>2, <1>3, <1>4, OtherRequests DEF Inv

(* The write of the move decided on. *)
LEMMA WriteItemKeeps ==
    ASSUME Inv, NEW r \in Requests, WriteItem(r)
    PROVE  Inv'
<1> DEFINE i == item[r]
<1>1. /\ pc[r] = "write"
      /\ i \in Items
      /\ from[r] \in visited[i]
      /\ LegalMove(from[r], to[r])
    BY DEF Inv, PathInv, WriteItem, Transition
<1>2. /\ pc' = [pc EXCEPT ![r] = AfterWrite(to[r])]
      /\ item_status' = [item_status EXCEPT ![i] = to[r]]
      /\ visited' = [visited EXCEPT ![i] = visited[i] \union {to[r]}]
      /\ UNCHANGED <<item, to, from, restocks>>
    BY DEF WriteItem, Transition, localVars
<1> HIDE DEF i
<1>3. /\ to[r] \in ItemStatuses
      /\ to[r] \in {"delivered", "disputed"} =>
            from[r] \in {"shipped", "delivered", "completed"}
      /\ to[r] = "completed" => from[r] = "delivered"
    BY <1>1, LegalMoves
<1>4. Types' /\ Others(r)
    BY <1>1, <1>2, <1>3 DEF Inv, Types, Others, AfterWrite, Locations
<1>5. \A x \in Items :
         /\ x # i => item_status'[x] = item_status[x] /\ visited'[x] = visited[x]
         /\ x = i => /\ item_status'[x] = to[r]
                     /\ visited'[x] = visited[x] \union {to[r]}
    BY <1>1, <1>2 DEF Inv, Types
<1>6. PastInv' /\ Grows
    <2>1. ASSUME NEW x \in Items PROVE PastOK(x)'
        <3>1. PastOK(x)
            BY DEF Inv, PastInv
        <3>2. CASE x # i
            BY <1>2, <1>5, <3>1, <3>2 DEF PastOK
        <3>3. CASE x = i
            BY <1>1, <1>2, <1>3, <1>5, <3>1, <3>3 DEF PastOK
        <3>. QED
            BY <3>2, <3>3
    <2>. QED
        BY <1>5, <2>1 DEF PastInv, Grows
<1>7. /\ pc'[r] \notin {"idle", "write", "stock", "restock"}
      /\ pc'[r] = "payment" => "cancelled" \in visited'[item'[r]]
    BY <1>1, <1>2, <1>5 DEF Inv, Types, AfterWrite, i
<1>. QED
    BY <1>4, <1>6, <1>7, OtherRequests DEF Inv

(* The write of a stock computed, for a cancelled item or a seller. *)
LEMMA WriteStockKeeps ==
    ASSUME Inv, NEW r \in Requests, WriteStock(r)
    PROVE  Inv'
<1>1. /\ pc[r] = "restock"
      /\ pc' = [pc EXCEPT ![r] = IF item[r] = NULL THEN "done" ELSE "items"]
      /\ restocks' = IF item[r] = NULL THEN restocks
                     ELSE [restocks EXCEPT ![item[r]] = restocks[item[r]] + 1]
      /\ UNCHANGED <<item_status, visited, item, to, from>>
    BY DEF WriteStock, Transition, localVars
<1>2. Types' /\ Others(r)
    BY <1>1 DEF Inv, Types, Others, Locations
<1>3. PastInv' /\ Grows
    <2>1. item[r] \in Items => "cancelled" \in visited[item[r]]
        BY <1>1 DEF Inv, PathInv
    <2>2. \A x \in Items : restocks'[x] # restocks[x] => x = item[r]
        BY <1>1 DEF Inv, Types
    <2>. QED
        BY <1>1, <2>1, <2>2 DEF Inv, PastInv, PastOK, Grows
<1>4. pc'[r] \in {"done", "items"}
    BY <1>1 DEF Inv, Types
<1>. QED
    BY <1>2, <1>3, <1>4, OtherRequests DEF Inv

(* The cancellation of a whole order. *)
LEMMA CancelOrderKeeps ==
    ASSUME Inv, NEW r \in Requests, CancelOrder(r)
    PROVE  Inv'
<1> DEFINE o == order[r]
<1>1. /\ pc' = [pc EXCEPT ![r] = "done"]
      /\ item_status' = [i \in Items |->
                            IF order_of[i] = o THEN "cancelled" ELSE item_status[i]]
      /\ visited' = [i \in Items |->
                        visited[i] \union (IF order_of[i] = o THEN {"cancelled"} ELSE {})]
      /\ \/ UNCHANGED restocks
         \/ restocks' = [i \in Items |-> restocks[i] + (IF order_of[i] = o THEN 1 ELSE 0)]
      /\ UNCHANGED <<item, to, from>>
    BY DEF CancelOrder, Transition, localVars
<1> HIDE DEF o
<1>2. /\ restocks' \in [Items -> Nat]
      /\ \A i \in Items : order_of[i] # o => restocks'[i] = restocks[i]
    <2>1. CASE UNCHANGED restocks
        BY <2>1 DEF Inv, Types
    <2>2. CASE restocks' = [i \in Items |-> restocks[i] + (IF order_of[i] = o THEN 1 ELSE 0)]
        BY <2>2 DEF Inv, Types
    <2>. QED
        BY <1>1, <2>1, <2>2
<1>3. Types' /\ Others(r)
    BY <1>1, <1>2 DEF Inv, Types, Others, Locations, ItemStatuses
<1>4. PastInv' /\ Grows
    BY <1>1, <1>2 DEF Inv, Types, PastInv, PastOK, Grows
<1>5. pc'[r] = "done"
    BY <1>1 DEF Inv, Types
<1>. QED
    BY <1>3, <1>4, <1>5, OtherRequests DEF Inv

-----------------------------------------------------------------------------
(* The rows of orders placed or paid satisfy the invariant. *)
LEMMA InitInv == Init => Inv
<1> SUFFICES ASSUME Init PROVE Inv
    OBVIOUS
<1>1. PICK shipped \in SUBSET Items :
         /\ item_status = [i \in Items |-> IF i \in shipped THEN "shipped" ELSE "processing"]
         /\ visited = [i \in Items |-> {"processing", item_status[i]}]
    BY DEF Init
<1>2. /\ pc = [r \in Requests |-> "idle"]
      /\ item = [r \in Requests |-> NULL]
      /\ to = [r \in Requests |-> NULL]
      /\ from = [r \in Requests |-> NULL]
      /\ restocks = [i \in Items |-> 0]
    BY DEF Init
<1>. QED
    BY <1>1, <1>2 DEF Inv, Types, PastInv, PastOK, PathInv, ItemStatuses, Locations

(* Every step of a request, and every fault, keeps what items went         *)
(* through.                                                                *)
LEMMA NextInv ==
    ASSUME Inv, [Next]_vars
    PROVE  Inv'
<1>1. CASE UNCHANGED vars
    BY <1>1 DEF Inv, Types, PastInv, PastOK, PathInv, LegalMove, vars, rowVars,
       localVars, historyVars
<1>2. CASE Next
    BY <1>2, ReadItemKeeps, WriteItemKeeps, WriteStockKeeps, CancelOrderKeeps,
       ElsewhereKeeps DEF Next, Handler
<1>. QED
    BY <1>1, <1>2

(* No stage of an item's life is skipped, whatever requests overlap.       *)
THEOREM StagesAreNeverSkipped == Spec => []NoStageSkipped
<1>1. Inv /\ [Next]_vars => Inv'
    BY NextInv
<1>2. Inv => NoStageSkipped
    BY DEF Inv, PastInv, PastOK, NoStageSkipped
<1>. QED
    BY <1>1, <1>2, InitInv, PTL DEF Spec

-----------------------------------------------------------------------------
(* Orders and their stock.                                                 *)

(* What a request works on, and what it has read. *)
RequestAt(r) ==
    /\ pc[r] = "idle" => order[r] = NULL /\ item[r] = NULL
    /\ item[r] # NULL => order[r] = order_of[item[r]]
    /\ pc[r] \in {"write", "payment", "stock", "items", "status"} => item[r] \in Items
    /\ pc[r] = "restock" /\ item[r] = NULL => order[r] = NULL
    /\ pc[r] \in {"sweep", "debit", "rollback", "deduct"} => order[r] \in Orders
    /\ pc[r] = "stock" => listing[r] \in Listings /\ delta[r] \in Nat
    /\ pc[r] = "restock" =>
          /\ listing[r] \in Listings
          /\ seen[r] + delta[r] >= 0 \/ listing[r] \in Backordered
    /\ pc[r] = "status" => from[r] \in OrderStatuses

RequestInv == \A r \in Requests : RequestAt(r)

(* The status s agrees with the items' statuses f, item by item. *)
AgreesWith(s, f, o) ==
    /\ s = "cancelled" <=> \A i \in ItemsOf(o) : f[i] = "cancelled"
    /\ s = "disputed" <=> \E i \in ItemsOf(o) : f[i] = "disputed"
    /\ s = "completed" <=> \A i \in ItemsOf(o) : f[i] = "completed"
    /\ s = "delivered" => \A i \in ItemsOf(o) : f[i] \in {"delivered", "completed"}
    /\ s \in {"pending_payment", "processing", "partially_cancelled"} =>
            \A i \in ItemsOf(o) : f[i] \notin {"shipped", "delivered", "completed"}

(* ... or the items have moved on since. *)
NeverAhead(s, f, o) ==
    /\ s = "disputed" => \E i \in ItemsOf(o) : f[i] = "disputed"
    /\ \A i \in ItemsOf(o) :
          /\ s = "cancelled" => f[i] = "cancelled"
          /\ s = "completed" => f[i] \in {"completed", "disputed"}
          /\ s = "delivered" => f[i] \in {"delivered", "completed", "disputed"}

Pending(r, o) ==
    order[r] = o /\ pc[r] \in {"payment", "stock", "restock", "items", "status"}

Restocking(r, i) == item[r] = i /\ pc[r] \in {"payment", "stock", "restock"}

(* The status of an order agrees with its items, or a request has still to *)
(* derive it.                                                              *)
StatusInv(o) ==
    /\ NeverAhead(order_status[o], item_status, o)
    /\ \/ AgreesWith(order_status[o], item_status, o)
       \/ \E r \in Requests : Pending(r, o)

(* A cancelled item stays so, and one request at most puts it on sale.     *)
UnitsInv(o) ==
    /\ payment_status[o] = "unpaid" => \A i \in ItemsOf(o) : restocks[i] = 0
    /\ \A i \in ItemsOf(o) :
          /\ CancelledForGood(i)
          /\ \A r \in Requests : Restocking(r, i) =>
                /\ restocks[i] = 0
                /\ \A q \in Requests : Restocking(q, i) => q = r

OrderInv == \A o \in Orders \ disturbed : StatusInv(o) /\ UnitsInv(o)

IInv == Inv /\ TypeOK /\ RequestInv /\ OrderInv

(* A step of a request leaves the others and their decisions alone, and no *)
(* order gets undisturbed.                                                 *)
Apart(r) ==
    /\ \A q \in Requests : q # r =>
          /\ pc'[q] = pc[q] /\ order'[q] = order[q] /\ item'[q] = item[q]
          /\ to'[q] = to[q] /\ from'[q] = from[q] /\ delta'[q] = delta[q]
          /\ seen'[q] = seen[q] /\ listing'[q] = listing[q]
    /\ disturbed \subseteq disturbed'

(* A step that touches no row of an order but to pay for it, nor its       *)
(* requests' concern.                                                      *)
Elsewhere(r, o) ==
    /\ payment_status'[o] = "unpaid" => payment_status[o] = "unpaid"
    /\ order_status'[o] = order_status[o]
    /\ \A i \in ItemsOf(o) :
          /\ item_status'[i] = item_status[i]
          /\ visited'[i] = visited[i]
          /\ restocks'[i] = restocks[i]
          /\ Restocking(r, i)' => Restocking(r, i)
    /\ Pending(r, o) => Pending(r, o)'

-----------------------------------------------------------------------------
(* What an order and its items have of each other, and requests of them. *)
LEMMA OrderFacts ==
    ASSUME NEW o \in Orders
    PROVE  /\ ItemsOf(o) # {} /\ ItemsOf(o) \subseteq Items
           /\ \A i \in ItemsOf(o) : order_of[i] = o
BY ItemLifecycleAssumption DEF ItemsOf

(* An order holds a number of units of a listing. *)
LEMMA UnitsAreNumbers ==
    ASSUME NEW o, NEW l
    PROVE  UnitsOf(o, l) \in Nat
<1> DEFINE S == {i \in ItemsOf(o) : listing_of[i] = l}
<1>1. S \in SUBSET Items /\ IsFiniteSet(S)
    BY ItemLifecycleAssumption, FS_Subset DEF ItemsOf
<1>2. \A i \in S : quantity[i] \in Nat
    BY <1>1, ItemLifecycleAssumption
<1> HIDE DEF S
<1>3. SumOver(quantity, S) \in Int
    BY <1>1, <1>2, SumOverInt
<1>4. SumOver(quantity, {}) <= SumOver(quantity, S)
    BY <1>1, <1>2, SumOverMonotone
<1>5. SumOver(quantity, S) \in Nat
    BY <1>3, <1>4, SumOverEmpty
<1>. QED
    BY <1>5 DEF UnitsOf, S

(* StatusAgrees, item by item. *)
LEMMA AgreesItemwise ==
    ASSUME NEW f, NEW s, NEW o \in Orders
    PROVE  LET statuses == {f[i] : i \in ItemsOf(o)} IN
           (/\ s = "cancelled" <=> statuses = {"cancelled"}
            /\ s = "disputed" <=> "disputed" \in statuses
            /\ s = "completed" <=> statuses = {"completed"}
            /\ s = "delivered" => statuses \subseteq {"delivered", "completed"}
            /\ s \in {"pending_payment", "processing", "partially_cancelled"} =>
                  statuses \intersect {"shipped", "delivered", "completed"} = {})
           <=> AgreesWith(s, f, o)
<1> DEFINE statuses == {f[i] : i \in ItemsOf(o)}
<1>1. statuses = {"cancelled"} <=> \A i \in ItemsOf(o) : f[i] = "cancelled"
    BY OrderFacts
<1>2. statuses = {"completed"} <=> \A i \in ItemsOf(o) : f[i] = "completed"
    BY OrderFacts
<1>3. "disputed" \in statuses <=> \E i \in ItemsOf(o) : f[i] = "disputed"
    OBVIOUS
<1>4. statuses \subseteq {"delivered", "completed"} <=>
         \A i \in ItemsOf(o) : f[i] \in {"delivered", "completed"}
    OBVIOUS
<1>5. statuses \intersect {"shipped", "delivered", "completed"} = {} <=>
         \A i \in ItemsOf(o) : f[i] \notin {"shipped", "delivered", "completed"}
    OBVIOUS
<1> HIDE DEF statuses
<1>6. (/\ s = "cancelled" <=> statuses = {"cancelled"}
       /\ s = "disputed" <=> "disputed" \in statuses
       /\ s = "completed" <=> statuses = {"completed"}
       /\ s = "delivered" => statuses \subseteq {"delivered", "completed"}
       /\ s \in {"pending_payment", "processing", "partially_cancelled"} =>
             statuses \intersect {"shipped", "delivered", "completed"} = {})
      <=> AgreesWith(s, f, o)
    BY <1>1, <1>2, <1>3, <1>4, <1>5 DEF AgreesWith
<1>. QED
    BY <1>6 DEF statuses

(* What the recomputed status says; none is derived while nothing moved.   *)
LEMMA DerivedAgrees ==
    ASSUME TypeOK, NEW o \in Orders
    PROVE  /\ Derived(o) # NULL =>
                 Derived(o) \in OrderStatuses /\ AgreesWith(Derived(o), item_status, o)
           /\ Derived(o) = NULL =>
                 \A i \in ItemsOf(o) : item_status[i] \in {"processing", "ready_for_fulfillment"}
<1> DEFINE statuses == {item_status[i] : i \in ItemsOf(o)}
           d == Aggregate(statuses)
<1>1. /\ statuses = {"cancelled"} <=> \A i \in ItemsOf(o) : item_status[i] = "cancelled"
      /\ statuses = {"completed"} <=> \A i \in ItemsOf(o) : item_status[i] = "completed"
      /\ "disputed" \in statuses <=> \E i \in ItemsOf(o) : item_status[i] = "disputed"
      /\ "cancelled" \in statuses <=> \E i \in ItemsOf(o) : item_status[i] = "cancelled"
    BY SMTT(30), OrderFacts
<1>2. /\ statuses \subseteq {"delivered", "completed"} <=>
            \A i \in ItemsOf(o) : item_status[i] \in {"delivered", "completed"}
      /\ statuses \intersect {"shipped", "delivered", "completed"} # {} <=>
            \E i \in ItemsOf(o) : item_status[i] \in {"shipped", "delivered", "completed"}
    OBVIOUS
<1>3. \A i \in ItemsOf(o) : item_status[i] \in ItemStatuses
    BY OrderFacts DEF TypeOK
<1>4. PICK j \in ItemsOf(o) : TRUE
    BY OrderFacts
<1> HIDE DEF statuses
<1>5. CASE d = NULL
    <2>1. /\ statuses # {"cancelled"} /\ "disputed" \notin statuses
          /\ statuses \intersect {"shipped", "delivered", "completed"} = {}
          /\ "cancelled" \notin statuses
        BY <1>5, ItemLifecycleAssumption DEF Aggregate, OrderStatuses
    <2>. QED
        BY <1>1, <1>2, <1>3, <1>5, <2>1 DEF ItemStatuses, Derived, statuses
<1>6. CASE d # NULL
    <2>1. d \in OrderStatuses
        BY <1>6 DEF Aggregate, OrderStatuses
    <2>2. /\ d = "cancelled" <=> statuses = {"cancelled"}
          /\ d = "disputed" <=> statuses # {"cancelled"} /\ "disputed" \in statuses
          /\ d = "completed" <=> statuses = {"completed"}
          /\ d = "delivered" => statuses \subseteq {"delivered", "completed"}
          /\ d \in {"pending_payment", "processing", "partially_cancelled"} =>
                statuses \intersect {"shipped", "delivered", "completed"} = {}
        BY <1>6 DEF Aggregate
    <2>3. AgreesWith(d, item_status, o)
        BY <1>1, <1>2, <1>4, <2>2 DEF AgreesWith
    <2>. QED
        BY <1>6, <2>1, <2>3 DEF Derived, statuses
<1>. QED
    BY <1>5, <1>6

(* A step leaves the other requests' concerns as they were. *)
LEMMA OtherRequestsStay ==
    ASSUME Types, TypeOK, RequestInv, NEW r \in Requests, Apart(r), RequestAt(r)'
    PROVE  RequestInv'
<1> SUFFICES ASSUME NEW q \in Requests, q # r PROVE RequestAt(q)'
    BY DEF RequestInv
<1>1. RequestAt(q)
    BY DEF RequestInv
<1>. QED
    BY <1>1 DEF Apart, RequestAt

(* An order a step does not concern stays consistent. *)
LEMMA ElsewhereStays ==
    ASSUME NEW r \in Requests, NEW o \in Orders, Apart(r), Elsewhere(r, o),
           StatusInv(o), UnitsInv(o), TypeOK, TypeOK'
    PROVE  StatusInv(o)' /\ UnitsInv(o)'
<1>1. \A q \in Requests : Pending(q, o) => Pending(q, o)'
    BY DEF Apart, Elsewhere, Pending
<1>2. ASSUME NEW i \in ItemsOf(o), NEW q \in Requests, Restocking(q, i)' PROVE Restocking(q, i)
    BY <1>2 DEF Apart, Elsewhere, Restocking
<1>3. StatusInv(o)'
    BY <1>1 DEF Elsewhere, StatusInv, NeverAhead, AgreesWith
<1>4. UnitsInv(o)'
    BY <1>2 DEF Elsewhere, UnitsInv, CancelledForGood
<1>. QED
    BY <1>3, <1>4

(* Every step is one request's. *)
LEMMA StepsAreApart ==
    ASSUME TypeOK, NEW r \in Requests,
           \/ ReadItem(r) \/ ManualAdjustment(r) \/ PayOrder(r) \/ ReadOrder(r)
           \/ Handler(r) \/ RestockFails(r) \/ Crash(r)
    PROVE  Apart(r)
<1> USE DEF Apart, TypeOK, Types, Inv, Transition, rowVars, localVars, historyVars
<1>1. ASSUME ReadItem(r) PROVE Apart(r)
    BY <1>1 DEF ReadItem
<1>2. ASSUME ManualAdjustment(r) PROVE Apart(r)
    BY <1>2 DEF ReadStock, CanAdjust, ManualAdjustment
<1>3. ASSUME PayOrder(r) PROVE Apart(r)
    BY <1>3 DEF Disturb, PayOrder
<1>4. ASSUME ReadOrder(r) PROVE Apart(r)
    BY <1>4 DEF ReadOrder
<1>5. ASSUME WriteItem(r) PROVE Apart(r)
    BY <1>5 DEF Disturb, AfterWrite, WriteItem
<1>6. ASSUME ReadPaymentStatus(r) PROVE Apart(r)
    BY <1>6 DEF IsRestocked, ReadPaymentStatus
<1>7. ASSUME ReadStockOfItem(r) PROVE Apart(r)
    BY <1>7 DEF ReadStock, ReadStockOfItem
<1>8. ASSUME WriteStock(r) PROVE Apart(r)
    BY <1>8 DEF WriteStock, Disturb
<1>9. ASSUME ReadItems(r) PROVE Apart(r)
    BY <1>9 DEF ReadItems
<1>10. ASSUME WriteStatus(r) PROVE Apart(r)
    BY <1>10 DEF Disturb, WriteStatus
<1>11. ASSUME DeductStock(r) PROVE Apart(r)
    BY <1>11 DEF DeductStock
<1>12. ASSUME CancelOrder(r) PROVE Apart(r)
    BY <1>12 DEF Disturb, CancelOrder
<1>13. ASSUME RestockFails(r) PROVE Apart(r)
    BY <1>13 DEF RestockFails
<1>14. ASSUME Crash(r) PROVE Apart(r)
    BY <1>14 DEF Crash
<1>15. ASSUME RestockRefused(r) PROVE Apart(r)
    BY <1>15 DEF RestockRefused
<1>16. ASSUME Debit(r) PROVE Apart(r)
    BY <1>16 DEF Debit
<1>17. ASSUME RollBackPayment(r) PROVE Apart(r)
    BY <1>17 DEF RollBackPayment, Disturb
<1>. QED
    BY <1>1, <1>2, <1>3, <1>4, <1>5, <1>6, <1>7, <1>8, <1>9, <1>10, <1>11, <1>12, <1>13, <1>14,
       <1>15, <1>16, <1>17 DEF Handler

(* What the request itself works on and has read. *)
LEMMA StepsKeepRequest ==
    ASSUME IInv, NEW r \in Requests,
           \/ ReadItem(r) \/ ManualAdjustment(r) \/ PayOrder(r) \/ ReadOrder(r)
           \/ Handler(r) \/ RestockFails(r) \/ Crash(r)
    PROVE  RequestAt(r)'
<1> USE ItemLifecycleAssumption DEF IInv, RequestInv, RequestAt, TypeOK, Types, Inv,
        Transition, rowVars, localVars, historyVars
<1>1. ASSUME ReadItem(r) PROVE RequestAt(r)'
    BY <1>1 DEF ReadItem
<1>2. ASSUME ManualAdjustment(r) PROVE RequestAt(r)'
    <2>1. PICK l \in Listings, d \in Deltas :
             /\ stock[l] + d >= 0 \/ l \in Backordered
             /\ pc[r] = "idle" /\ pc' = [pc EXCEPT ![r] = "restock"]
             /\ seen' = [seen EXCEPT ![r] = stock[l]]
             /\ listing' = [listing EXCEPT ![r] = l]
             /\ delta' = [delta EXCEPT ![r] = d]
             /\ UNCHANGED <<order, item>>
        BY <1>2 DEF ReadStock, CanAdjust, ManualAdjustment
    <2>2. listing'[r] = l /\ (seen'[r] + delta'[r] >= 0 \/ listing'[r] \in Backordered)
        BY <2>1
    <2>3. pc'[r] = "restock" /\ order'[r] = NULL /\ item'[r] = NULL
        BY <2>1
    <2>. QED
        BY <2>2, <2>3
<1>3. ASSUME PayOrder(r) PROVE RequestAt(r)'
    BY <1>3 DEF Disturb, PayOrder
<1>4. ASSUME ReadOrder(r) PROVE RequestAt(r)'
    BY <1>4 DEF ReadOrder
<1>5. ASSUME WriteItem(r) PROVE RequestAt(r)'
    BY <1>5 DEF Disturb, AfterWrite, WriteItem
<1>6. ASSUME ReadPaymentStatus(r) PROVE RequestAt(r)'
    BY <1>6 DEF IsRestocked, ReadPaymentStatus
<1>7. ASSUME ReadStockOfItem(r) PROVE RequestAt(r)'
    BY <1>7 DEF ReadStock, CanAdjust, ReadStockOfItem
<1>8. ASSUME WriteStock(r) PROVE RequestAt(r)'
    BY <1>8 DEF WriteStock
<1>9. ASSUME ReadItems(r) PROVE RequestAt(r)'
    <2>1. item[r] \in Items /\ order[r] = order_of[item[r]] /\ order[r] \in Orders
        BY <1>9 DEF ReadItems
    <2>2. Derived(order[r]) # NULL => Derived(order[r]) \in OrderStatuses
        BY <2>1, DerivedAgrees
    <2>. QED
        BY <1>9, <2>1, <2>2 DEF ReadItems
<1>10. ASSUME WriteStatus(r) PROVE RequestAt(r)'
    BY <1>10 DEF Disturb, WriteStatus
<1>11. ASSUME DeductStock(r) PROVE RequestAt(r)'
    BY <1>11 DEF DeductStock
<1>12. ASSUME CancelOrder(r) PROVE RequestAt(r)'
    BY <1>12 DEF Disturb, CancelOrder
<1>13. ASSUME RestockFails(r) PROVE RequestAt(r)'
    BY <1>13 DEF RestockFails
<1>14. ASSUME Crash(r) PROVE RequestAt(r)'
    BY <1>14 DEF Crash
<1>15. ASSUME RestockRefused(r) PROVE RequestAt(r)'
    BY <1>15 DEF RestockRefused
<1>16. ASSUME Debit(r) PROVE RequestAt(r)'
    BY <1>16 DEF Debit
<1>17. ASSUME RollBackPayment(r) PROVE RequestAt(r)'
    BY <1>17 DEF RollBackPayment, Disturb
<1>. QED
    BY <1>1, <1>2, <1>3, <1>4, <1>5, <1>6, <1>7, <1>8, <1>9, <1>10, <1>11, <1>12, <1>13, <1>14,
       <1>15, <1>16, <1>17 DEF Handler

(* A request about to write an item's status has found the move legal. *)
LEMMA WritesAreLegal ==
    ASSUME IInv, NEW r \in Requests, pc[r] = "write"
    PROVE  /\ item[r] \in Items
           /\ order[r] = order_of[item[r]]
           /\ LegalMove(from[r], to[r])
<1>1. RequestAt(r) /\ PathInv
    BY DEF IInv, RequestInv, Inv
<1>2. item[r] \in Items
    BY <1>1 DEF RequestAt
<1>3. item[r] # NULL
    BY <1>2, ItemLifecycleAssumption
<1>. QED
    BY <1>1, <1>2, <1>3 DEF RequestAt, PathInv

(* The types of every row and local, and that no stock is negative but by  *)
(* backorders.                                                             *)
LEMMA StepsKeepTypes ==
    ASSUME IInv, NEW r \in Requests,
           \/ ReadItem(r) \/ ManualAdjustment(r) \/ PayOrder(r) \/ ReadOrder(r)
           \/ Handler(r) \/ RestockFails(r) \/ Crash(r)
    PROVE  TypeOK'
<1> USE ItemLifecycleAssumption DEF IInv, RequestInv, RequestAt, TypeOK, Types, Inv, Locations,
        ItemStatuses, OrderStatuses,
        Transition, rowVars, localVars, historyVars
<1>1. ASSUME ReadItem(r) PROVE TypeOK'
    BY <1>1, UnitsAreNumbers DEF ReadItem
<1>2. ASSUME ManualAdjustment(r) PROVE TypeOK'
    BY <1>2, UnitsAreNumbers DEF ReadStock, CanAdjust, ManualAdjustment
<1>3. ASSUME PayOrder(r) PROVE TypeOK'
    BY <1>3, UnitsAreNumbers DEF Disturb, PayOrder
<1>4. ASSUME ReadOrder(r) PROVE TypeOK'
    BY <1>4, UnitsAreNumbers DEF ReadOrder
<1>5. ASSUME WriteItem(r) PROVE TypeOK'
    <2>0. pc[r] = "write"
        BY <1>5 DEF WriteItem
    <2>1. item[r] \in Items /\ order[r] \in Orders /\ LegalMove(from[r], to[r])
        BY <2>0, WritesAreLegal
    <2>2. to[r] \in ItemStatuses
        BY <2>1, LegalMoves
    <2>3. /\ item_status' = [item_status EXCEPT ![item[r]] = to[r]]
          /\ visited' = [visited EXCEPT ![item[r]] = visited[item[r]] \union {to[r]}]
        BY <1>5 DEF WriteItem
    <2>4. item_status' \in [Items -> ItemStatuses] /\ visited' \in [Items -> SUBSET ItemStatuses]
        BY <2>1, <2>2, <2>3
    <2>5. disturbed' \subseteq Orders /\ pc' \in [Requests -> Locations]
        BY <1>5, <2>1 DEF WriteItem, Disturb, AfterWrite
    <2>. QED
        BY <1>5, <2>4, <2>5 DEF WriteItem
<1>6. ASSUME ReadPaymentStatus(r) PROVE TypeOK'
    BY <1>6, UnitsAreNumbers DEF IsRestocked, ReadPaymentStatus
<1>7. ASSUME ReadStockOfItem(r) PROVE TypeOK'
    BY <1>7 DEF ReadStock, ReadStockOfItem
<1>8. ASSUME WriteStock(r) PROVE TypeOK'
    <2>1. /\ listing[r] \in Listings
          /\ seen[r] + delta[r] \in Int
          /\ seen[r] + delta[r] >= 0 \/ listing[r] \in Backordered
        BY <1>8 DEF WriteStock
    <2>2. stock' = [stock EXCEPT ![listing[r]] = seen[r] + delta[r]]
        BY <1>8 DEF WriteStock
    <2>3. /\ stock' \in [Listings -> Int]
          /\ \A l \in Listings \ Backordered : stock'[l] >= 0
        BY <2>1, <2>2
    <2>4. restocks' \in [Items -> Nat] /\ pc' \in [Requests -> Locations]
        BY <1>8 DEF WriteStock
    <2>5. disturbed' \subseteq Orders
        BY <1>8 DEF WriteStock, Disturb
    <2>. QED
        BY <1>8, <2>3, <2>4, <2>5 DEF WriteStock
<1>9. ASSUME ReadItems(r) PROVE TypeOK'
    BY <1>9, UnitsAreNumbers DEF ReadItems
<1>10. ASSUME WriteStatus(r) PROVE TypeOK'
    BY <1>10, UnitsAreNumbers DEF Disturb, WriteStatus
<1>11. ASSUME DeductStock(r) PROVE TypeOK'
    BY <1>11, UnitsAreNumbers DEF DeductStock
<1>12. ASSUME CancelOrder(r) PROVE TypeOK'
    BY <1>12, UnitsAreNumbers DEF Disturb, CancelOrder
<1>13. ASSUME RestockFails(r) PROVE TypeOK'
    BY <1>13, UnitsAreNumbers DEF RestockFails
<1>14. ASSUME Crash(r) PROVE TypeOK'
    BY <1>14, UnitsAreNumbers DEF Crash
<1>15. ASSUME RestockRefused(r) PROVE TypeOK'
    BY <1>15 DEF RestockRefused
<1>16. ASSUME Debit(r) PROVE TypeOK'
    BY <1>16 DEF Debit
<1>17. ASSUME RollBackPayment(r) PROVE TypeOK'
    BY <1>17 DEF RollBackPayment, Disturb
<1>. QED
    BY <1>1, <1>2, <1>3, <1>4, <1>5, <1>6, <1>7, <1>8, <1>9, <1>10, <1>11, <1>12, <1>13, <1>14,
       <1>15, <1>16, <1>17 DEF Handler

(* A step that concerns no row of an order keeps it consistent. *)
LEMMA ElsewhereKeepsOrder ==
    ASSUME IInv, TypeOK', NEW r \in Requests, Apart(r),
           NEW o \in Orders \ disturbed', Elsewhere(r, o)
    PROVE  StatusInv(o)' /\ UnitsInv(o)'
<1>1. o \notin disturbed
    BY DEF Apart
<1>. QED
    BY <1>1, ElsewhereStays DEF IInv, OrderInv

(* The reads, the sale, and what marks its order as disturbed. *)
LEMMA ReadsKeepOrders ==
    ASSUME IInv, TypeOK', NEW r \in Requests, Apart(r),
           \/ ReadItem(r) \/ ManualAdjustment(r) \/ ReadPaymentStatus(r) \/ ReadStockOfItem(r)
           \/ RestockRefused(r) \/ ReadOrder(r) \/ Debit(r) \/ DeductStock(r)
           \/ RestockFails(r) \/ Crash(r),
           NEW o \in Orders \ disturbed'
    PROVE  StatusInv(o)' /\ UnitsInv(o)'
<1> SUFFICES Elsewhere(r, o)
    BY ElsewhereKeepsOrder
<1> USE ItemLifecycleAssumption DEF IInv, RequestInv, RequestAt, TypeOK, ItemsOf, Elsewhere,
        Pending, Restocking, Transition, rowVars, localVars, historyVars
<1>1. CASE ReadItem(r)
    BY <1>1 DEF ReadItem
<1>2. CASE ManualAdjustment(r)
    BY <1>2 DEF ManualAdjustment, ReadStock
<1>3. CASE ReadPaymentStatus(r)
    BY <1>3 DEF ReadPaymentStatus
<1>4. CASE ReadStockOfItem(r)
    BY <1>4 DEF ReadStockOfItem, ReadStock
<1>5. CASE ReadOrder(r)
    BY <1>5 DEF ReadOrder
<1>6. CASE DeductStock(r)
    BY <1>6 DEF DeductStock
<1>7. CASE RestockFails(r)
    BY <1>7 DEF RestockFails
<1>8. CASE Crash(r)
    BY <1>8 DEF Crash
<1>9. CASE RestockRefused(r)
    BY <1>9 DEF RestockRefused
<1>10. CASE Debit(r)
    BY <1>10 DEF Debit
<1>. QED
    BY <1>1, <1>2, <1>3, <1>4, <1>5, <1>6, <1>7, <1>8, <1>9, <1>10

(* An item moves as the table lets it, from the status it has. *)
LEMMA WriteItemKeepsOrders ==
    ASSUME IInv, TypeOK', NEW r \in Requests, Apart(r), WriteItem(r), NEW o \in Orders \ disturbed'
    PROVE  StatusInv(o)' /\ UnitsInv(o)'
<1> DEFINE i == item[r]
           t == to[r]
<1>1. /\ i \in Items /\ order[r] = order_of[i] /\ order[r] \in Orders
      /\ pc[r] = "write" /\ pc' = [pc EXCEPT ![r] = AfterWrite(t)]
      /\ item_status' = [item_status EXCEPT ![i] = t]
      /\ visited' = [visited EXCEPT ![i] = visited[i] \union {t}]
      /\ Disturb(order[r], item_status[i] # from[r])
      /\ LegalMove(from[r], t)
      /\ UNCHANGED <<order_status, payment_status, restocks, order, item>>
    BY ItemLifecycleAssumption DEF WriteItem, Transition, localVars, IInv, Inv, PathInv,
       RequestInv, RequestAt
<1>2. pc'[r] \in {"payment", "items"} /\ (pc'[r] = "payment" <=> t = "cancelled")
    BY <1>1 DEF IInv, TypeOK, AfterWrite
<1>3. CASE order[r] # o
    <2>1. i \notin ItemsOf(o)
        BY <1>1, <1>3 DEF ItemsOf
    <2>2. Elsewhere(r, o)
        BY <1>1, <1>2, <1>3, <2>1 DEF Elsewhere, Pending, Restocking, IInv, TypeOK, ItemsOf
    <2>. QED
        BY <2>2, ElsewhereKeepsOrder
<1>4. CASE order[r] = o
    <2>1. o \notin disturbed /\ item_status[i] = from[r] /\ i \in ItemsOf(o)
        BY <1>1, <1>4 DEF Disturb, ItemsOf
    <2>2. StatusInv(o) /\ UnitsInv(o)
        BY <2>1 DEF IInv, OrderInv
    <2>3. /\ from[r] \notin {"cancelled", "disputed"}
          /\ from[r] = "completed" => t = "disputed"
          /\ from[r] = "delivered" => t \in {"completed", "disputed"}
          /\ t # from[r] /\ t \in ItemStatuses
        BY <1>1 DEF LegalMove, TargetsOf, Roles, ItemStatuses
    <2>4. /\ \A j \in ItemsOf(o) : j # i => item_status'[j] = item_status[j] /\ visited'[j] = visited[j]
          /\ item_status'[i] = t /\ visited'[i] = visited[i] \union {t}
        BY <1>1 DEF IInv, TypeOK, ItemsOf
    <2>5. Pending(r, o)'
        BY <1>1, <1>2, <1>4 DEF Pending
    <2>6. NeverAhead(order_status[o], item_status, o)'
        BY <1>1, <2>1, <2>2, <2>3, <2>4 DEF StatusInv, NeverAhead
    <2>7. "cancelled" \notin visited[i] /\ restocks[i] = 0
        BY <2>1, <2>2, <2>3, <1>1 DEF UnitsInv, CancelledForGood, IInv, Inv, PastInv, PastOK, Types
    <2>8. \A q \in Requests : ~Restocking(q, i)
        BY <1>1, <2>7 DEF Restocking, IInv, Inv, PathInv
    <2>9. ASSUME NEW j \in ItemsOf(o), NEW q \in Requests, Restocking(q, j)'
          PROVE  Restocking(q, j) \/ (q = r /\ j = i)
        BY <1>1, <1>2, <2>9 DEF Apart, Restocking
    <2>10. payment_status'[o] = "unpaid" => \A j \in ItemsOf(o) : restocks'[j] = 0
        BY <1>1, <2>2 DEF UnitsInv
    <2>11. ASSUME NEW j \in ItemsOf(o)
           PROVE  /\ CancelledForGood(j)'
                  /\ \A q \in Requests : Restocking(q, j)' =>
                        /\ restocks'[j] = 0
                        /\ \A p \in Requests : Restocking(p, j)' => p = q
        <3>1. CASE j = i
            BY <1>1, <2>4, <2>7, <2>8, <2>9, <3>1 DEF CancelledForGood
        <3>2. CASE j # i
            BY <1>1, <2>2, <2>4, <2>9, <3>2 DEF UnitsInv, CancelledForGood
        <3>. QED
            BY <3>1, <3>2
    <2>. QED
        BY <2>5, <2>6, <2>10, <2>11 DEF StatusInv, UnitsInv
<1>. QED
    BY <1>3, <1>4

(* The units of a cancelled item go back. *)
LEMMA WriteStockKeepsOrders ==
    ASSUME IInv, TypeOK', NEW r \in Requests, Apart(r), WriteStock(r), NEW o \in Orders \ disturbed'
    PROVE  StatusInv(o)' /\ UnitsInv(o)'
<1> DEFINE i == item[r]
<1>1. /\ pc[r] = "restock"
      /\ pc' = [pc EXCEPT ![r] = IF i = NULL THEN "done" ELSE "items"]
      /\ restocks' = IF i = NULL THEN restocks ELSE [restocks EXCEPT ![i] = restocks[i] + 1]
      /\ i # NULL => Disturb(order[r], payment_status[order[r]] = "unpaid")
      /\ UNCHANGED <<item_status, order_status, payment_status, order, item, visited>>
      /\ RequestAt(r) /\ i \in Items \union {NULL}
    BY DEF WriteStock, Transition, localVars, IInv, RequestInv, TypeOK
<1>2. pc'[r] \in {"items", "done"} /\ (i # NULL => pc'[r] = "items")
    BY <1>1 DEF IInv, TypeOK
<1>3. CASE i = NULL \/ order[r] # o
    <2>1. i \notin ItemsOf(o) /\ (i = NULL => order[r] # o)
        BY <1>1, <1>3, ItemLifecycleAssumption DEF ItemsOf, RequestAt
    <2>2. Elsewhere(r, o)
        BY <1>1, <1>2, <2>1 DEF Elsewhere, Pending, Restocking, ItemsOf, IInv, TypeOK
    <2>. QED
        BY <2>2, ElsewhereKeepsOrder
<1>4. CASE i # NULL /\ order[r] = o
    <2>1. i \in ItemsOf(o) /\ o \notin disturbed /\ payment_status[o] # "unpaid"
        BY <1>1, <1>4 DEF ItemsOf, RequestAt, Disturb
    <2>2. StatusInv(o) /\ UnitsInv(o)
        BY <2>1 DEF IInv, OrderInv
    <2>3. Restocking(r, i) /\ restocks[i] = 0
        BY <1>1, <2>1, <2>2 DEF Restocking, UnitsInv
    <2>4. \A j \in ItemsOf(o) : restocks'[j] = IF j = i THEN 1 ELSE restocks[j]
        BY <1>1, <1>4, <2>3 DEF IInv, TypeOK, ItemsOf
    <2>5. ASSUME NEW j \in ItemsOf(o), NEW q \in Requests, Restocking(q, j)'
          PROVE  Restocking(q, j) /\ j # i
        <3>1. q # r /\ Restocking(q, j)
            BY <1>2, <2>5 DEF Restocking, Apart
        <3>. QED
            BY <2>1, <2>2, <2>3, <3>1 DEF UnitsInv
    <2>6. Pending(r, o)'
        BY <1>1, <1>2, <1>4 DEF Pending
    <2>7. StatusInv(o)'
        BY <1>1, <2>2, <2>6 DEF StatusInv, NeverAhead
    <2>8. UnitsInv(o)'
        BY <1>1, <2>1, <2>2, <2>4, <2>5 DEF UnitsInv, CancelledForGood
    <2>. QED
        BY <2>7, <2>8
<1>. QED
    BY <1>3, <1>4

(* The status is derived, if any is. *)
LEMMA ReadItemsKeepsOrders ==
    ASSUME IInv, TypeOK', NEW r \in Requests, Apart(r), ReadItems(r), NEW o \in Orders \ disturbed'
    PROVE  StatusInv(o)' /\ UnitsInv(o)'
<1>1. /\ pc[r] = "items"
      /\ pc' = [pc EXCEPT ![r] = IF Derived(order[r]) = NULL THEN "done" ELSE "status"]
      /\ UNCHANGED <<rowVars, order, item, historyVars>>
    BY DEF ReadItems, Transition
<1>2. pc'[r] = IF Derived(order[r]) = NULL THEN "done" ELSE "status"
    BY <1>1 DEF IInv, TypeOK
<1>3. \A j : ~Restocking(r, j)'
    BY <1>2 DEF Restocking
<1>4. CASE order[r] # o \/ Derived(o) # NULL
    <2>1. Elsewhere(r, o)
        BY <1>1, <1>2, <1>3, <1>4 DEF Elsewhere, Pending, rowVars, historyVars
    <2>. QED
        BY <2>1, ElsewhereKeepsOrder
<1>5. CASE order[r] = o /\ Derived(o) = NULL
    <2>1. StatusInv(o) /\ UnitsInv(o)
        BY <1>1 DEF IInv, OrderInv, historyVars
    <2>2. \A j \in ItemsOf(o) : item_status[j] \in {"processing", "ready_for_fulfillment"}
        BY <1>5, DerivedAgrees DEF IInv
    <2>3. AgreesWith(order_status[o], item_status, o)
        BY <2>1, <2>2, OrderFacts DEF StatusInv, NeverAhead, AgreesWith
    <2>4. StatusInv(o)'
        BY <1>1, <2>1, <2>3 DEF StatusInv, NeverAhead, AgreesWith, rowVars
    <2>5. \A j \in ItemsOf(o), q \in Requests : Restocking(q, j)' => Restocking(q, j)
        BY <1>3 DEF Apart, Restocking
    <2>6. UnitsInv(o)'
        BY <1>1, <2>1, <2>5 DEF UnitsInv, CancelledForGood, rowVars, historyVars
    <2>. QED
        BY <2>4, <2>6
<1>. QED
    BY <1>4, <1>5

(* ... and written, while it is still what the items say. *)
LEMMA WriteStatusKeepsOrders ==
    ASSUME IInv, TypeOK', NEW r \in Requests, Apart(r), WriteStatus(r), NEW o \in Orders \ disturbed'
    PROVE  StatusInv(o)' /\ UnitsInv(o)'
<1>1. /\ pc[r] = "status" /\ pc' = [pc EXCEPT ![r] = "done"]
      /\ order_status' = [order_status EXCEPT ![order[r]] = from[r]]
      /\ Disturb(order[r], Derived(order[r]) # from[r])
      /\ UNCHANGED <<item_status, payment_status, visited, restocks, order, item>>
      /\ from[r] \in OrderStatuses
    BY DEF WriteStatus, Transition, localVars, IInv, RequestInv, RequestAt
<1>2. pc'[r] = "done" /\ \A j : ~Restocking(r, j)'
    BY <1>1 DEF IInv, TypeOK, Restocking
<1>3. CASE order[r] # o
    <2>1. Elsewhere(r, o)
        BY <1>1, <1>2, <1>3 DEF Elsewhere, Pending, IInv, TypeOK
    <2>. QED
        BY <2>1, ElsewhereKeepsOrder
<1>4. CASE order[r] = o
    <2>1. o \notin disturbed /\ Derived(o) = from[r]
        BY <1>1, <1>4 DEF Disturb
    <2>2. StatusInv(o) /\ UnitsInv(o)
        BY <2>1 DEF IInv, OrderInv
    <2>3. order_status'[o] = from[r] /\ AgreesWith(from[r], item_status, o)
        BY <1>1, <1>4, <2>1, DerivedAgrees, ItemLifecycleAssumption DEF IInv, TypeOK
    <2>4. AgreesWith(order_status'[o], item_status', o)
        BY <1>1, <2>3
    <2>5. NeverAhead(order_status'[o], item_status', o)
        BY <2>4 DEF AgreesWith, NeverAhead
    <2>6. StatusInv(o)'
        BY <2>4, <2>5 DEF StatusInv, AgreesWith, NeverAhead
    <2>7. \A j \in ItemsOf(o), q \in Requests : Restocking(q, j)' => Restocking(q, j)
        BY <1>2 DEF Apart, Restocking
    <2>8. UnitsInv(o)'
        BY <1>1, <2>2, <2>7 DEF UnitsInv, CancelledForGood
    <2>. QED
        BY <2>6, <2>8
<1>. QED
    BY <1>3, <1>4

(* A payment takes an order that waited for it. *)
LEMMA PayOrderKeepsOrders ==
    ASSUME IInv, TypeOK', NEW r \in Requests, Apart(r), PayOrder(r), NEW o \in Orders \ disturbed'
    PROVE  StatusInv(o)' /\ UnitsInv(o)'
<1>1. PICK p \in Orders, next \in {"debit", "deduct"} :
         /\ payment_status[p] = "unpaid"
         /\ pc[r] = "idle" /\ pc' = [pc EXCEPT ![r] = next]
         /\ payment_status' = [payment_status EXCEPT ![p] = "escrow_held"]
         /\ order_status' = [order_status EXCEPT ![p] = "processing"]
         /\ Disturb(p, order_status[p] # "pending_payment")
         /\ UNCHANGED <<item_status, item, visited, restocks>>
    BY DEF PayOrder, Transition
<1>2. pc'[r] \in {"debit", "deduct"} /\ (\A j : ~Restocking(r, j)') /\ ~Pending(r, o)
    BY <1>1 DEF IInv, TypeOK, Restocking, Pending
<1>3. CASE p # o
    <2>1. Elsewhere(r, o)
        BY <1>1, <1>2, <1>3 DEF Elsewhere, IInv, TypeOK
    <2>. QED
        BY <2>1, ElsewhereKeepsOrder
<1>4. CASE p = o
    <2>1. o \notin disturbed /\ order_status[o] = "pending_payment"
        BY <1>1, <1>4 DEF Disturb
    <2>2. StatusInv(o) /\ UnitsInv(o)
        BY <2>1 DEF IInv, OrderInv
    <2>3. order_status'[o] = "processing" /\ payment_status'[o] = "escrow_held"
        BY <1>1, <1>4 DEF IInv, TypeOK
    <2>4. \A q \in Requests : Pending(q, o) => Pending(q, o)'
        BY <1>2 DEF Apart, Pending
    <2>5. NeverAhead(order_status[o], item_status, o)'
        BY <2>3 DEF NeverAhead
    <2>6. AgreesWith(order_status[o], item_status, o) => AgreesWith(order_status[o], item_status, o)'
        BY <1>1, <2>1, <2>3 DEF AgreesWith
    <2>7. StatusInv(o)'
        BY <2>2, <2>4, <2>5, <2>6 DEF StatusInv
    <2>8. \A j \in ItemsOf(o), q \in Requests : Restocking(q, j)' => Restocking(q, j)
        BY <1>2 DEF Apart, Restocking
    <2>9. UnitsInv(o)'
        BY <1>1, <2>2, <2>3, <2>8 DEF UnitsInv, CancelledForGood
    <2>. QED
        BY <2>7, <2>9
<1>. QED
    BY <1>3, <1>4

(* A payment taken back leaves an order as it was placed, if it found it   *)
(* as it was paid.                                                         *)
LEMMA RollBackPaymentKeepsOrders ==
    ASSUME IInv, TypeOK', NEW r \in Requests, Apart(r), RollBackPayment(r),
           NEW o \in Orders \ disturbed'
    PROVE  StatusInv(o)' /\ UnitsInv(o)'
<1> DEFINE p == order[r]
<1>1. /\ pc[r] = "rollback" /\ pc' = [pc EXCEPT ![r] = "done"] /\ p \in Orders
      /\ order_status' = [order_status EXCEPT ![p] = "pending_payment"]
      /\ payment_status' = [payment_status EXCEPT ![p] = "unpaid"]
      /\ Disturb(p, \/ order_status[p] # "processing"
                    \/ \E i \in ItemsOf(p) : restocks[i] > 0)
      /\ UNCHANGED <<item_status, item, order, visited, restocks>>
    BY DEF RollBackPayment, Transition, localVars, IInv, RequestInv, RequestAt
<1>2. pc'[r] = "done" /\ (\A j : ~Restocking(r, j)') /\ ~Pending(r, o)
    BY <1>1 DEF IInv, TypeOK, Restocking, Pending
<1> HIDE DEF p
<1>3. CASE p # o
    <2>1. Elsewhere(r, o)
        BY <1>1, <1>2, <1>3 DEF Elsewhere, IInv, TypeOK
    <2>. QED
        BY <2>1, ElsewhereKeepsOrder
<1>4. CASE p = o
    <2>1. /\ o \notin disturbed /\ order_status[o] = "processing"
          /\ \A j \in ItemsOf(o) : ~(restocks[j] > 0)
        BY <1>1, <1>4 DEF Disturb
    <2>2. StatusInv(o) /\ UnitsInv(o)
        BY <2>1 DEF IInv, OrderInv
    <2>3. order_status'[o] = "pending_payment"
        BY <1>1, <1>4 DEF IInv, TypeOK
    <2>4. \A q \in Requests : Pending(q, o) => Pending(q, o)'
        BY <1>2 DEF Apart, Pending
    <2>5. NeverAhead(order_status[o], item_status, o)'
        BY <2>3 DEF NeverAhead
    <2>6. AgreesWith(order_status[o], item_status, o) => AgreesWith(order_status[o], item_status, o)'
        BY <1>1, <2>1, <2>3 DEF AgreesWith
    <2>7. StatusInv(o)'
        BY <2>2, <2>4, <2>5, <2>6 DEF StatusInv
    <2>8. \A j \in ItemsOf(o), q \in Requests : Restocking(q, j)' => Restocking(q, j)
        BY <1>2 DEF Apart, Restocking
    <2>9. \A j \in ItemsOf(o) : restocks'[j] = 0
        BY <1>1, <2>1, OrderFacts DEF IInv, TypeOK
    <2>10. UnitsInv(o)'
        BY <1>1, <2>2, <2>8, <2>9 DEF UnitsInv, CancelledForGood
    <2>. QED
        BY <2>7, <2>10
<1>. QED
    BY <1>3, <1>4

(* A whole order is cancelled, none of its items under way. *)
LEMMA CancelOrderKeepsOrders ==
    ASSUME IInv, TypeOK', NEW r \in Requests, Apart(r), CancelOrder(r), NEW o \in Orders \ disturbed'
    PROVE  StatusInv(o)' /\ UnitsInv(o)'
<1> DEFINE p == order[r]
<1>1. /\ pc[r] = "sweep" /\ pc' = [pc EXCEPT ![r] = "done"] /\ p \in Orders
      /\ order_status' = [order_status EXCEPT ![p] = "cancelled"]
      /\ item_status' = [i \in Items |->
                            IF order_of[i] = p THEN "cancelled" ELSE item_status[i]]
      /\ visited' = [i \in Items |->
                        visited[i] \union (IF order_of[i] = p THEN {"cancelled"} ELSE {})]
      /\ restocks' = IF from[r] # "unpaid"
                     THEN [i \in Items |-> restocks[i] + (IF order_of[i] = p THEN 1 ELSE 0)]
                     ELSE restocks
      /\ Disturb(p, \/ order_status[p] \notin {"pending_payment", "processing"}
                    \/ payment_status[p] # from[r]
                    \/ \E i \in ItemsOf(p) :
                          item_status[i] \notin {"processing", "ready_for_fulfillment"})
      /\ UNCHANGED <<payment_status, order, item>>
    BY DEF CancelOrder, Transition, localVars, IInv, RequestInv, RequestAt
<1>2. pc'[r] = "done" /\ (\A j : ~Restocking(r, j)') /\ ~Pending(r, o)
    BY <1>1 DEF IInv, TypeOK, Restocking, Pending
<1> HIDE DEF p
<1>3. CASE p # o
    <2>1. \A j \in ItemsOf(o) : j \in Items /\ order_of[j] # p
        BY <1>3 DEF ItemsOf
    <2>2. \A j \in ItemsOf(o) : restocks'[j] = restocks[j]
        BY <1>1, <2>1 DEF IInv, TypeOK
    <2>3. Elsewhere(r, o)
        BY <1>1, <1>2, <1>3, <2>1, <2>2 DEF Elsewhere, IInv, TypeOK
    <2>. QED
        BY <2>3, ElsewhereKeepsOrder
<1>4. CASE p = o
    <2>1. /\ o \notin disturbed /\ payment_status[o] = from[r]
          /\ \A j \in ItemsOf(o) : item_status[j] \in {"processing", "ready_for_fulfillment"}
        BY <1>1, <1>4 DEF Disturb
    <2>2. StatusInv(o) /\ UnitsInv(o)
        BY <2>1 DEF IInv, OrderInv
    <2>3. \A j \in ItemsOf(o) : j \in Items /\ order_of[j] = p /\ item_status'[j] = "cancelled"
        BY <1>1, <1>4 DEF ItemsOf
    <2>4. \A j \in ItemsOf(o) : "cancelled" \notin visited[j] /\ restocks[j] = 0
        BY <2>1, <2>2, <2>3 DEF UnitsInv, CancelledForGood, IInv, Inv, PastInv, PastOK, Types
    <2>5. \A j \in ItemsOf(o), q \in Requests : ~Restocking(q, j)'
        <3> SUFFICES ASSUME NEW j \in ItemsOf(o), NEW q \in Requests, Restocking(q, j)'
                     PROVE  FALSE
            OBVIOUS
        <3>1. Restocking(q, j)
            BY <1>2 DEF Apart, Restocking
        <3>. QED
            BY <2>3, <2>4, <3>1 DEF Restocking, IInv, Inv, PathInv
    <2>6. \A j \in ItemsOf(o) : restocks'[j] = IF from[r] # "unpaid" THEN 1 ELSE 0
        BY <1>1, <2>3, <2>4
    <2>7. order_status'[o] = "cancelled"
        BY <1>1, <1>4 DEF IInv, TypeOK
    <2>8. AgreesWith(order_status'[o], item_status', o) /\ NeverAhead(order_status'[o], item_status', o)
        BY <2>3, <2>7, OrderFacts DEF AgreesWith, NeverAhead
    <2>9. StatusInv(o)'
        BY <2>8 DEF StatusInv, AgreesWith, NeverAhead
    <2>10. UnitsInv(o)'
        <3>1. payment_status'[o] = "unpaid" => \A j \in ItemsOf(o) : restocks'[j] = 0
            BY <1>1, <2>1, <2>6
        <3>2. \A j \in ItemsOf(o) : CancelledForGood(j)'
            BY <2>3, <2>6 DEF CancelledForGood
        <3>. QED
            BY <2>5, <3>1, <3>2 DEF UnitsInv
    <2>. QED
        BY <2>9, <2>10
<1>. QED
    BY <1>3, <1>4

-----------------------------------------------------------------------------
(* The invariant of the orders holds at first. *)
LEMMA OrdersInit == Init => IInv
<1> SUFFICES ASSUME Init PROVE IInv
    OBVIOUS
<1>1. PICK paid \in SUBSET Orders, shipped \in SUBSET Items :
         /\ \A i \in shipped : order_of[i] \in paid
         /\ payment_status = [o \in Orders |-> IF o \in paid THEN "escrow_held" ELSE "unpaid"]
         /\ item_status = [i \in Items |-> IF i \in shipped THEN "shipped" ELSE "processing"]
         /\ visited = [i \in Items |-> {"processing", item_status[i]}]
         /\ order_status = [o \in Orders |->
               IF o \notin paid THEN "pending_payment"
               ELSE IF ItemsOf(o) \intersect shipped # {} THEN "shipped"
               ELSE "processing"]
    <2>1. PICK paid \in SUBSET Orders :
             /\ payment_status = [o \in Orders |-> IF o \in paid THEN "escrow_held" ELSE "unpaid"]
             /\ \E shipped \in SUBSET {i \in Items : order_of[i] \in paid} :
                   /\ item_status = [i \in Items |-> IF i \in shipped THEN "shipped" ELSE "processing"]
                   /\ visited = [i \in Items |-> {"processing", item_status[i]}]
                   /\ order_status = [o \in Orders |->
                         IF o \notin paid THEN "pending_payment"
                         ELSE IF ItemsOf(o) \intersect shipped # {} THEN "shipped"
                         ELSE "processing"]
        BY DEF Init
    <2>. QED
        BY <2>1
<1>2. /\ pc = [r \in Requests |-> "idle"]
      /\ order = [r \in Requests |-> NULL]
      /\ item = [r \in Requests |-> NULL]
      /\ restocks = [i \in Items |-> 0]
    BY DEF Init
<1>3. TypeOK
    BY <1>1, ItemLifecycleAssumption DEF Init, TypeOK, ItemStatuses, OrderStatuses, Locations
<1>4. RequestInv
    BY <1>2 DEF RequestInv, RequestAt
<1>5. ASSUME NEW o \in Orders PROVE StatusInv(o) /\ UnitsInv(o)
    <2>1. \A i \in ItemsOf(o) : i \in Items /\ (i \in shipped => o \in paid)
        BY <1>1 DEF ItemsOf
    <2>2. order_status[o] = IF o \notin paid THEN "pending_payment"
                            ELSE IF ItemsOf(o) \intersect shipped # {} THEN "shipped"
                            ELSE "processing"
        BY <1>1
    <2>3. \A i \in ItemsOf(o) : item_status[i] = IF i \in shipped THEN "shipped" ELSE "processing"
        BY <1>1, <2>1
    <2>4. StatusInv(o)
        BY <2>1, <2>2, <2>3, OrderFacts DEF StatusInv, NeverAhead, AgreesWith
    <2>5. UnitsInv(o)
        BY <1>1, <1>2, <2>1, <2>3 DEF UnitsInv, CancelledForGood, Restocking
    <2>. QED
        BY <2>4, <2>5
<1>. QED
    BY <1>3, <1>4, <1>5, InitInv DEF IInv, OrderInv

(* Every step keeps it. *)
LEMMA OrdersNext == IInv /\ [Next]_vars => IInv'
<1> SUFFICES ASSUME IInv, [Next]_vars PROVE IInv'
    OBVIOUS
<1>1. CASE UNCHANGED vars
    <2> USE <1>1 DEF vars, rowVars, localVars, historyVars
    <2>1. Inv' /\ TypeOK'
        BY NextInv DEF IInv, TypeOK
    <2>2. RequestInv'
        BY DEF IInv, RequestInv, RequestAt
    <2>3. OrderInv'
        BY DEF IInv, OrderInv, StatusInv, UnitsInv, NeverAhead, AgreesWith, CancelledForGood,
           Pending, Restocking
    <2>. QED
        BY <2>1, <2>2, <2>3 DEF IInv
<1>2. CASE Next
    <2>1. PICK r \in Requests :
             \/ ReadItem(r) \/ ManualAdjustment(r) \/ PayOrder(r) \/ ReadOrder(r)
             \/ Handler(r) \/ RestockFails(r) \/ Crash(r)
        BY <1>2 DEF Next
    <2>2. Inv' /\ Apart(r) /\ RequestAt(r)' /\ TypeOK'
        BY <2>1, NextInv, StepsAreApart, StepsKeepRequest, StepsKeepTypes DEF IInv
    <2>3. RequestInv'
        BY <2>2, OtherRequestsStay DEF IInv, Inv
    <2>4. ASSUME NEW o \in Orders \ disturbed' PROVE StatusInv(o)' /\ UnitsInv(o)'
        BY <2>1, <2>2, <2>4, ReadsKeepOrders, WriteItemKeepsOrders, WriteStockKeepsOrders,
           ReadItemsKeepsOrders, WriteStatusKeepsOrders, PayOrderKeepsOrders,
           RollBackPaymentKeepsOrders, CancelOrderKeepsOrders DEF Handler
    <2>. QED
        BY <2>2, <2>3, <2>4 DEF IInv, OrderInv
<1>. QED
    BY <1>1, <1>2

(* The invariant of the items, the requests and the orders they belong to  *)
(* holds throughout (transitionOrderItemStatus, cancelOrder and the payment *)
(* of src/src/lib/order-lifecycle.ts and orders.ts).                        *)
THEOREM OrdersInvariance == Spec => []IInv
BY OrdersInit, OrdersNext, PTL DEF Spec

(* Every variable keeps to the values the tables and the code allow, and no *)
(* stock is negative but of a listing that takes backorders (adjustStock,  *)
(* src/src/lib/inventory.ts).                                              *)
THEOREM TypeCorrectness == Spec => []TypeOK
<1>1. IInv => TypeOK
    BY DEF IInv
<1>. QED
    BY <1>1, OrdersInvariance, PTL

(* An order whose requests did not overtake one another, and ended, and    *)
(* whose payment was not taken back after it moved on, has the status of   *)
(* its items; no item of it was sold back twice, or while it was unpaid    *)
(* (cancelOrder, payOrderFromWallet, transitionOrderItemStatus).           *)
THEOREM UndisturbedOrdersStayConsistent == Spec => []UndisturbedOrderIsConsistent
<1>1. IInv => UndisturbedOrderIsConsistent
    <2> SUFFICES ASSUME IInv, NEW o \in Orders \ disturbed
                 PROVE  /\ ~Busy(o) => StatusAgrees(o)
                        /\ \A i \in ItemsOf(o) : CancelledForGood(i)
                        /\ payment_status[o] = "unpaid" => \A i \in ItemsOf(o) : restocks[i] = 0
        BY DEF UndisturbedOrderIsConsistent
    <2>1. StatusInv(o) /\ UnitsInv(o)
        BY DEF IInv, OrderInv
    <2>2. ~Busy(o) => AgreesWith(order_status[o], item_status, o)
        BY <2>1 DEF StatusInv, Busy, Pending
    <2>3. AgreesWith(order_status[o], item_status, o) => StatusAgrees(o)
        BY AgreesItemwise DEF StatusAgrees
    <2>. QED
        BY <2>1, <2>2, <2>3 DEF UnitsInv
<1>. QED
    BY <1>1, OrdersInvariance, PTL

(***************************************************************************)
(* The affiliate program.                                                  *)
(***************************************************************************)

(* What a call holds at each place it can stand.  Only a call that         *)
(* confirms an order has both an attribution and an affiliate, the one     *)
(* whose link it was; a payout it debits is the one it requested.          *)
HoldsOK(c) ==
    LET s == call[c] IN
    /\ s.pc = "idle" => s = Idle
    /\ s.pc \in {"code", "commission", "payout", "balance", "write"} => s.affiliate # NULL
    /\ s.pc \in {"attach", "attribution"} => s.affiliate = NULL
    /\ s.pc \in {"attach", "attribution", "commission"} => s.attribution # NULL
    /\ s.pc \in {"attribution", "commission"} => s.order # NULL
    /\ s.pc \in {"code", "attach", "payout"} => s.order = NULL
    /\ s.pc \in {"payout", "balance", "write"} => s.amount > 0
    /\ s.pc \in {"balance", "write"} => s.payout # NULL \/ s.order # NULL
    /\ s.pc = "write" /\ s.payout # NULL => s.current >= s.amount
    /\ s.attribution # NULL => s.attribution \in DOMAIN attributions
    /\ s.attribution # NULL /\ s.affiliate # NULL =>
          /\ s.order # NULL
          /\ s.affiliate = attributions[s.attribution].affiliate
    /\ s.order # NULL => s.order \in confirmed /\ s.attribution # NULL /\ s.payout = NULL
    /\ s.todo \subseteq ItemsOf(s.order)
    /\ s.payout # NULL =>
          /\ s.pc \in {"balance", "write", "dead"}
          /\ s.payout \in DOMAIN affiliate_payouts
          /\ affiliate_payouts[s.payout] = [affiliate |-> s.affiliate, amount |-> s.amount]

HoldsInv == \A c \in Calls : HoldsOK(c)

(* Clicks and payouts stay within their bounds. *)
RoomInv ==
    /\ Len(attributions) <= MaxClicks
    /\ IsFiniteSet(Requesting)
    /\ Requested <= MaxPayouts

(* An order is confirmed, and a payout requested, by one call. *)
SoleInv ==
    \A c, d \in Calls :
        \/ call[c].order # NULL /\ call[c].order = call[d].order
        \/ call[c].payout # NULL /\ call[c].payout = call[d].payout
        => c = d

Converts(c, a) == call[c].attribution = a /\ call[c].affiliate # NULL

EarnedOn(a) == {i \in Items : commissions[i] = a}

(* One call at most converts an attribution that is not contested, while   *)
(* it is pending, and what earned on it are items of one order.            *)
AttributionOK(a) ==
    /\ \A c, d \in Calls : Converts(c, a) /\ Converts(d, a) => c = d
    /\ \A c \in Calls : Converts(c, a) => attributions[a].status = "pending"
    /\ \A i \in EarnedOn(a) :
          /\ attributions[a].status = "converted" \/ Converting(a)
          /\ \A c \in Calls : Converts(c, a) => order_of[i] = call[c].order
          /\ \A j \in EarnedOn(a) : order_of[i] = order_of[j]

AttributionInv == \A a \in DOMAIN attributions \ contested : AttributionOK(a)

Credited(f, o) == Total(f, RowsFor(f, "credit", o))

(* What an order earned is credited but for the commission its call is at. *)
CreditOK(f, o) ==
    /\ (\A c \in Calls : call[c].order # o) => Credited(f, o) = Earned(f, o)
    /\ \A c \in Calls : call[c].order = o =>
          /\ call[c].pc \in {"attribution", "commission"} => Credited(f, o) = Earned(f, o)
          /\ call[c].pc \in {"balance", "write"} =>
                Earned(f, o) = Credited(f, o) +
                               (IF call[c].affiliate = f THEN call[c].amount ELSE 0)
          /\ Credited(f, o) <= Earned(f, o)

CreditInv == \A f \in Affiliates, o \in Orders : CreditOK(f, o)

(* A payout is debited once, by the call that requested it, which then     *)
(* ends.                                                                   *)
PayoutOK(p) ==
    LET f == affiliate_payouts[p].affiliate
        rows == RowsFor(f, "debit", p) IN
    /\ \A m, n \in rows : m = n
    /\ \A n \in rows : affiliate_ledger[f][n].amount = affiliate_payouts[p].amount
    /\ \A c \in Calls : call[c].payout = p => rows = {}
    /\ rows = {} => f \in overtaken \/ \E c \in Calls : call[c].payout = p

PayoutInv ==
    /\ \A p \in DOMAIN affiliate_payouts : PayoutOK(p)
    /\ \A f \in Affiliates : \A n \in RowsOf(f, "debit") :
          affiliate_ledger[f][n].reference \in DOMAIN affiliate_payouts

BalanceOK(f) ==
    Balance(f) = Total(f, RowsOf(f, "credit")) - Total(f, RowsOf(f, "debit"))

BalanceInv == \A f \in Affiliates \ overtaken : BalanceOK(f)

AffiliateInv ==
    /\ AffiliateTypeOK
    /\ HoldsInv
    /\ RoomInv
    /\ SoleInv
    /\ AttributionInv
    /\ CreditInv
    /\ PayoutInv
    /\ BalanceInv

-----------------------------------------------------------------------------
(* The sums. *)

(* What an item earns is a number. *)
LEMMA CommissionsAreNumbers ==
    /\ CommissionOf \in [Items -> Nat]
    /\ \A f, o : IsFiniteSet(EarningItems(f, o)) /\ EarningItems(f, o) \subseteq Items
<1>1. ASSUME NEW gross \in Nat PROVE CalculateCommission(gross) \in Nat
    <2>1. rate_bps \in Nat
        BY AffiliateAssumption
    <2>2. gross * rate_bps \in Nat
        BY <2>1
    <2>. QED
        BY <2>2 DEF CalculateCommission
<1>2. \A i \in Items : line_total[i] \in Nat
    BY AffiliateAssumption
<1>3. CommissionOf \in [Items -> Nat]
    BY <1>1, <1>2 DEF CommissionOf
<1>4. \A f, o : EarningItems(f, o) \subseteq Items
    BY DEF EarningItems, ItemsOf
<1>. QED
    BY <1>3, <1>4, AffiliateAssumption, FS_Subset

AmountsIn(rows) == [n \in DOMAIN rows |-> rows[n].amount]

(* The old rows sum to what they did, and the new one counts for itself. *)
LEMMA SumAfterAppend ==
    ASSUME NEW rows \in Seq(AffiliateLedgerRows), NEW row \in AffiliateLedgerRows,
           NEW S \in SUBSET DOMAIN rows
    PROVE  /\ SumOver(AmountsIn(Append(rows, row)), S) = SumOver(AmountsIn(rows), S)
           /\ SumOver(AmountsIn(Append(rows, row)), S \union {Len(rows) + 1}) =
                 SumOver(AmountsIn(rows), S) + row.amount
           /\ SumOver(AmountsIn(rows), S) \in Int
<1> DEFINE longer == Append(rows, row)
           n == Len(rows) + 1
           old == AmountsIn(rows)
           new == AmountsIn(longer)
<1>1. /\ Len(rows) \in Nat
      /\ DOMAIN rows = 1 .. Len(rows)
      /\ DOMAIN longer = 1 .. n
      /\ longer[n] = row
      /\ \A m \in DOMAIN rows : longer[m] = rows[m] /\ rows[m] \in AffiliateLedgerRows
    OBVIOUS
<1> HIDE DEF longer
<1>2. /\ \A m \in S : old[m] \in Int /\ new[m] = old[m]
      /\ new[n] = row.amount
      /\ row.amount \in Int
      /\ n \notin S
    BY <1>1 DEF AffiliateLedgerRows, AmountsIn
<1>3. IsFiniteSet(S)
    <2>1. IsFiniteSet(1 .. Len(rows)) /\ S \subseteq 1 .. Len(rows)
        BY <1>1, FS_Interval
    <2>. QED
        BY <2>1, FS_Subset
<1> HIDE DEF old, new, n
<1>4. SumOver(new, S) = SumOver(old, S) /\ SumOver(old, S) \in Int
    BY <1>2, <1>3, SumOverAgree, SumOverInt
<1>5. SumOver(new, S \union {n}) = SumOver(new, S) + new[n]
    <2>1. \A m \in S \union {n} : new[m] \in Int
        BY <1>2
    <2>. QED
        BY <1>2, <1>3, <2>1, SumOverAdd
<1>. QED
    BY <1>2, <1>4, <1>5 DEF old, new, n, longer

(* A row is written to an affiliate's ledger. *)
Writes(f, row) == affiliate_ledger' = [affiliate_ledger EXCEPT ![f] = Append(@, row)]

(* A row that is written is of one type, and counts among no other. *)
LEMMA RowsAfterWrite ==
    ASSUME AffiliateTypeOK, NEW f \in Affiliates, NEW row \in AffiliateLedgerRows,
           Writes(f, row), NEW type
    PROVE  LET n == Len(affiliate_ledger[f]) + 1 IN
           /\ RowsOf(f, type)' = IF row.entry_type = type THEN RowsOf(f, type) \union {n}
                                                          ELSE RowsOf(f, type)
           /\ \A m \in DOMAIN affiliate_ledger[f] :
                 affiliate_ledger'[f][m] = affiliate_ledger[f][m]
           /\ affiliate_ledger'[f][n] = row
           /\ n \notin DOMAIN affiliate_ledger[f]
<1> DEFINE rows == affiliate_ledger[f]
           new == Append(rows, row)
<1>1. rows \in Seq(AffiliateLedgerRows) /\ affiliate_ledger'[f] = new
    BY DEF AffiliateTypeOK, Writes
<1>2. /\ DOMAIN new = (DOMAIN rows) \union {Len(rows) + 1}
      /\ new[Len(rows) + 1] = row
      /\ \A n \in DOMAIN rows : new[n] = rows[n]
      /\ Len(rows) + 1 \notin DOMAIN rows
    BY <1>1
<1> HIDE DEF new, rows
<1>3. /\ RowsOf(f, type)' = {n \in DOMAIN new : new[n].entry_type = type}
      /\ RowsOf(f, type) = {n \in DOMAIN rows : rows[n].entry_type = type}
    BY <1>1 DEF RowsOf, rows
<1>4. RowsOf(f, type)' = IF row.entry_type = type THEN RowsOf(f, type) \union {Len(rows) + 1}
                                                 ELSE RowsOf(f, type)
    BY <1>2, <1>3
<1>. QED
    BY <1>1, <1>2, <1>4 DEF rows

(* ... and which of them refer to an order or a payout. *)
LEMMA ReferencesAfterWrite ==
    ASSUME AffiliateTypeOK, NEW f \in Affiliates, NEW row \in AffiliateLedgerRows,
           Writes(f, row), NEW type, NEW ref
    PROVE  RowsFor(f, type, ref)' =
              IF row.entry_type = type /\ row.reference = ref
              THEN RowsFor(f, type, ref) \union {Len(affiliate_ledger[f]) + 1}
              ELSE RowsFor(f, type, ref)
<1> DEFINE rows == affiliate_ledger[f]
           new == affiliate_ledger'[f]
           n == Len(rows) + 1
<1>1. /\ RowsOf(f, type)' = IF row.entry_type = type THEN RowsOf(f, type) \union {n}
                                                     ELSE RowsOf(f, type)
      /\ \A m \in DOMAIN rows : new[m] = rows[m]
      /\ new[n] = row
    BY RowsAfterWrite
<1>2. /\ RowsFor(f, type, ref)' = {m \in RowsOf(f, type)' : new[m].reference = ref}
      /\ RowsFor(f, type, ref) = {m \in RowsOf(f, type) : rows[m].reference = ref}
      /\ \A m \in RowsOf(f, type) : m \in DOMAIN rows
    BY DEF RowsFor, RowsOf
<1> HIDE DEF rows, new, n
<1>3. RowsFor(f, type, ref)' = IF row.entry_type = type /\ row.reference = ref
                               THEN RowsFor(f, type, ref) \union {n}
                               ELSE RowsFor(f, type, ref)
    BY <1>1, <1>2
<1>. QED
    BY <1>3 DEF n, rows

(* The totals of an affiliate grow by the row that is written. *)
LEMMA TotalsAfterWrite ==
    ASSUME AffiliateTypeOK, NEW f \in Affiliates, NEW row \in AffiliateLedgerRows,
           Writes(f, row), NEW type, NEW ref
    PROVE  /\ Total(f, RowsOf(f, type))' = Total(f, RowsOf(f, type)) +
                 (IF row.entry_type = type THEN row.amount ELSE 0)
           /\ Total(f, RowsFor(f, type, ref))' = Total(f, RowsFor(f, type, ref)) +
                 (IF row.entry_type = type /\ row.reference = ref THEN row.amount ELSE 0)
<1> DEFINE rows == affiliate_ledger[f]
<1>1. /\ rows \in Seq(AffiliateLedgerRows)
      /\ affiliate_ledger'[f] = Append(rows, row)
    BY DEF AffiliateTypeOK, Writes
<1>2. Amounts(f) = AmountsIn(rows) /\ Amounts(f)' = AmountsIn(Append(rows, row))
    BY <1>1 DEF Amounts, AmountsIn
<1>3. Total(f, RowsOf(f, type))' = Total(f, RowsOf(f, type)) +
                 (IF row.entry_type = type THEN row.amount ELSE 0)
    <2> DEFINE S == RowsOf(f, type)
    <2>1. S \in SUBSET DOMAIN rows
        BY DEF RowsOf, RowsFor
    <2>2. S' = IF row.entry_type = type THEN S \union {Len(rows) + 1} ELSE S
        BY RowsAfterWrite, ReferencesAfterWrite
    <2> HIDE DEF S, rows
    <2>3. /\ SumOver(Amounts(f)', S) = SumOver(Amounts(f), S)
          /\ SumOver(Amounts(f)', S \union {Len(rows) + 1}) = SumOver(Amounts(f), S) + row.amount
          /\ SumOver(Amounts(f), S) \in Int
        BY <1>1, <1>2, <2>1, SumAfterAppend
    <2>4. SumOver(Amounts(f)', S') =
             SumOver(Amounts(f), S) + (IF row.entry_type = type THEN row.amount ELSE 0)
        BY <2>2, <2>3
    <2>. QED
        BY <2>4 DEF Total, S
<1>4. Total(f, RowsFor(f, type, ref))' = Total(f, RowsFor(f, type, ref)) +
                 (IF row.entry_type = type /\ row.reference = ref THEN row.amount ELSE 0)
    <2> DEFINE S == RowsFor(f, type, ref)
    <2>1. S \in SUBSET DOMAIN rows
        BY DEF RowsOf, RowsFor
    <2>2. S' = IF row.entry_type = type /\ row.reference = ref
               THEN S \union {Len(rows) + 1} ELSE S
        BY RowsAfterWrite, ReferencesAfterWrite
    <2> HIDE DEF S, rows
    <2>3. /\ SumOver(Amounts(f)', S) = SumOver(Amounts(f), S)
          /\ SumOver(Amounts(f)', S \union {Len(rows) + 1}) = SumOver(Amounts(f), S) + row.amount
          /\ SumOver(Amounts(f), S) \in Int
        BY <1>1, <1>2, <2>1, SumAfterAppend
    <2>4. SumOver(Amounts(f)', S') = SumOver(Amounts(f), S) +
             (IF row.entry_type = type /\ row.reference = ref THEN row.amount ELSE 0)
        BY <2>2, <2>3
    <2>. QED
        BY <2>4 DEF Total, S
<1>. QED
    BY <1>3, <1>4

(* A ledger nobody writes to. *)
LEMMA TotalsUnwritten ==
    ASSUME NEW f, affiliate_ledger'[f] = affiliate_ledger[f], NEW type, NEW ref
    PROVE  /\ RowsOf(f, type)' = RowsOf(f, type)
           /\ RowsFor(f, type, ref)' = RowsFor(f, type, ref)
           /\ Total(f, RowsOf(f, type))' = Total(f, RowsOf(f, type))
           /\ Total(f, RowsFor(f, type, ref))' = Total(f, RowsFor(f, type, ref))
<1>1. /\ RowsOf(f, type)' = RowsOf(f, type)
      /\ RowsFor(f, type, ref)' = RowsFor(f, type, ref)
      /\ Amounts(f)' = Amounts(f)
    BY DEF RowsOf, RowsFor, Amounts
<1>. QED
    BY <1>1 DEF Total

-----------------------------------------------------------------------------
(* Types. *)

(* What a call may hold. *)
LEMMA CallTypes ==
    ASSUME AffiliateTypeOK, NEW c \in Calls
    PROVE  /\ call[c].pc \in AffiliateLocations
           /\ call[c].affiliate \in Affiliates \union {NULL}
           /\ call[c].attribution \in AttributionIds \union {NULL}
           /\ call[c].customer \in Customers \union {NULL}
           /\ call[c].order \in Orders \union {NULL}
           /\ call[c].todo \in SUBSET Items
           /\ call[c].amount \in Nat
           /\ call[c].payout \in (1 .. MaxPayouts) \union {NULL}
           /\ call[c].current \in Nat
           /\ NULL \notin Affiliates \union Customers \union Orders \union Nat
BY AffiliateAssumption DEF AffiliateTypeOK, CallStates

(* The balance that is read is a number. *)
LEMMA BalanceIsNumber ==
    ASSUME AffiliateTypeOK, NEW f \in Affiliates
    PROVE  Balance(f) \in Nat
BY DEF AffiliateTypeOK, Balance

(* The latest of some attributions is one of them. *)
LEMMA LatestIsFound ==
    ASSUME NEW n \in Nat, NEW found \in SUBSET (1 .. n), found # {}
    PROVE  Max(found) \in found
<1> DEFINE Bad == {S \in SUBSET found : S # {} /\ ~ \E m \in S : \A k \in S : m >= k}
<1>1. IsFiniteSet(found)
    <2>1. IsFiniteSet(1 .. n)
        BY FS_Interval
    <2>. QED
        BY <2>1, FS_Subset
<1>2. ASSUME Bad # {} PROVE FALSE
    <2>1. PICK S \in Bad : \A x \in S : S \ {x} \notin Bad
        <3>1. Bad \in SUBSET SUBSET found
            OBVIOUS
        <3> HIDE DEF Bad
        <3>. QED
            BY <1>1, <1>2, <3>1, MinimalBadSubset
    <2>2. PICK x : x \in S
        BY <2>1
    <2>3. S \ {x} = {} \/ \E m \in S \ {x} : \A k \in S \ {x} : m >= k
        BY <2>1, <2>2
    <2>4. \A m \in S : m \in Int
        BY <2>1
    <2>5. \E m \in S : \A k \in S : m >= k
        <3>1. CASE S \ {x} = {}
            BY <2>2, <2>4, <3>1
        <3>2. CASE \E m \in S \ {x} : \A k \in S \ {x} : m >= k
            BY <2>2, <2>4, <3>2
        <3>. QED
            BY <2>3, <3>1, <3>2
    <2>. QED
        BY <2>1, <2>5
<1>3. \E m \in found : \A k \in found : m >= k
    BY <1>2
<1>. QED
    BY <1>3 DEF Max

(* The attribution an order finds exists. *)
LEMMA FoundAttribution ==
    ASSUME AffiliateTypeOK, NEW u, ActiveFor(u) # {}
    PROVE  Max(ActiveFor(u)) \in DOMAIN attributions
<1>1. DOMAIN attributions = 1 .. Len(attributions) /\ Len(attributions) \in Nat
    BY DEF AffiliateTypeOK
<1>2. ActiveFor(u) \in SUBSET (1 .. Len(attributions))
    BY <1>1 DEF ActiveFor
<1>3. Max(ActiveFor(u)) \in ActiveFor(u)
    BY <1>1, <1>2, LatestIsFound
<1>. QED
    BY <1>1, <1>2, <1>3

(* The rows of attributions stay within their bound. *)
LEMMA AttributionRooms ==
    ASSUME AffiliateInv
    PROVE  /\ Len(attributions) \in Nat
           /\ Len(attributions) <= MaxClicks
           /\ DOMAIN attributions = 1 .. Len(attributions)
           /\ \A a \in DOMAIN attributions :
                 a \in AttributionIds /\ attributions[a] \in AttributionRows
<1>1. attributions \in Seq(AttributionRows) /\ Len(attributions) <= MaxClicks /\ MaxClicks \in Nat
    BY AffiliateAssumption DEF AffiliateInv, AffiliateTypeOK, RoomInv
<1>. QED
    BY <1>1 DEF AttributionIds

(* There is room for the payout of a call that requests one. *)
LEMMA PayoutRooms ==
    ASSUME AffiliateInv, NEW c \in Calls, At(c, "payout")
    PROVE  Len(affiliate_payouts) + 1 \in 1 .. MaxPayouts
<1>1. /\ Len(affiliate_payouts) \in Nat
      /\ MaxPayouts \in Nat
      /\ IsFiniteSet(Requesting)
      /\ Len(affiliate_payouts) + Cardinality(Requesting) <= MaxPayouts
    BY AffiliateAssumption DEF AffiliateInv, AffiliateTypeOK, RoomInv, Requested
<1>2. Cardinality(Requesting) \in Nat /\ Cardinality(Requesting) # 0
    <2>1. c \in Requesting
        BY DEF Requesting
    <2>. QED
        BY <1>1, <2>1, FS_CardinalityType, FS_EmptySet
<1>. QED
    BY <1>1, <1>2

(* A call moves on, and the others stay. *)
LEMMA CallMoves ==
    ASSUME AffiliateTypeOK, NEW c \in Calls, NEW state, Becomes(c, state)
    PROVE  /\ call'[c] = state
           /\ \A d \in Calls : d # c => call'[d] = call[d]
           /\ state \in CallStates => call' \in [Calls -> CallStates]
BY DEF AffiliateTypeOK, Becomes

(* Every call keeps to its types. *)
LEMMA CallsAreTyped ==
    ASSUME AffiliateInv, NEW c \in Calls, Request(c)
    PROVE  call' \in [Calls -> CallStates]
<1>1. call \in [Calls -> CallStates] /\ AffiliateTypeOK
    BY DEF AffiliateInv, AffiliateTypeOK
<1>2. ASSUME NEW state \in CallStates, Becomes(c, state) PROVE call' \in [Calls -> CallStates]
    BY <1>1, <1>2, CallMoves
<1>3. ASSUME Return(c) PROVE call' \in [Calls -> CallStates]
    <2>1. Idle \in CallStates
        BY AffiliateAssumption DEF Idle, CallStates, AffiliateLocations
    <2>. QED
        BY <1>2, <1>3, <2>1 DEF Return
<1>4. CASE \E f \in Affiliates : EnrollAffiliate(c, f)
    <2>1. PICK f \in Affiliates : EnrollAffiliate(c, f)
        BY <1>4
    <2>2. [call[c] EXCEPT !.pc = "code", !.affiliate = f] \in CallStates
        BY ZenonT(60), <1>1 DEF CallStates, AffiliateLocations
    <2>. QED
        BY <1>2, <2>1, <2>2 DEF EnrollAffiliate
<1>5. CASE \E f \in Affiliates : RequestPayout(c, f)
    <2>1. PICK f \in Affiliates : RequestPayout(c, f)
        BY <1>5
    <2>2. [call[c] EXCEPT !.pc = "payout", !.affiliate = f, !.amount = Balance(f)] \in CallStates
        BY ZenonT(60), <1>1, BalanceIsNumber DEF CallStates, AffiliateLocations
    <2>. QED
        BY <1>2, <2>1, <2>2 DEF RequestPayout
<1>6. CASE \E f \in Affiliates, u \in Customers \union {NULL} : RecordClick(c, f, u)
    <2>1. PICK f \in Affiliates, u \in Customers \union {NULL} : RecordClick(c, f, u)
        BY <1>6
    <2>2. Len(attributions') \in AttributionIds
        BY <2>1, AttributionRooms, AffiliateAssumption DEF RecordClick, AttributionIds
    <2>3. [call[c] EXCEPT !.pc = "attach", !.customer = u, !.attribution = Len(attributions')]
              \in CallStates
        BY ZenonT(60), <1>1, <2>2 DEF CallStates, AffiliateLocations
    <2>. QED
        BY <1>1, <1>2, <2>1, <2>3 DEF RecordClick
<1>7. CASE \E a \in DOMAIN attributions, u \in Customers : FindClick(c, a, u)
    <2>1. PICK a \in DOMAIN attributions, u \in Customers : FindClick(c, a, u)
        BY <1>7
    <2>2. [call[c] EXCEPT !.pc = "attach", !.customer = u, !.attribution = a] \in CallStates
        BY ZenonT(60), <1>1, AttributionRooms DEF CallStates, AffiliateLocations
    <2>. QED
        BY <1>2, <2>1, <2>2 DEF FindClick
<1>8. CASE \E o \in Orders : ConfirmOrder(c, o)
    <2>1. PICK o \in Orders : ConfirmOrder(c, o)
        BY <1>8
    <2> DEFINE a == Max(ActiveFor(owner[o]))
    <2>2. CASE ActiveFor(owner[o]) = {}
        BY <1>1, <2>1, <2>2 DEF ConfirmOrder
    <2>3. CASE ActiveFor(owner[o]) # {}
        <3>1. a \in AttributionIds
            BY <1>1, <2>3, FoundAttribution, AttributionRooms
        <3>2. Becomes(c, [call[c] EXCEPT !.pc = "attribution", !.order = o, !.attribution = a])
            BY <2>1, <2>3 DEF ConfirmOrder
        <3> HIDE DEF a
        <3>3. [call[c] EXCEPT !.pc = "attribution", !.order = o, !.attribution = a] \in CallStates
            BY ZenonT(60), <1>1, <3>1 DEF CallStates, AffiliateLocations
        <3>. QED
            BY <1>2, <3>2, <3>3
    <2>. QED
        BY <2>2, <2>3
<1>9. CASE \E i \in Items : InsertCommission(c, i)
    <2>1. PICK i \in Items : InsertCommission(c, i)
        BY <1>9
    <2>2. CalculateCommission(line_total[i]) \in Nat
        BY CommissionsAreNumbers DEF CommissionOf
    <2>3. /\ [call[c] EXCEPT !.pc = "balance", !.todo = @ \ {i},
                             !.amount = CalculateCommission(line_total[i])] \in CallStates
          /\ [call[c] EXCEPT !.todo = @ \ {i}] \in CallStates
        BY ZenonT(60), <1>1, <2>2 DEF CallStates, AffiliateLocations
    <2>. QED
        BY <1>2, <2>1, <2>3 DEF InsertCommission
<1>10. CASE InsertReferralCode(c)
    BY <1>3, <1>10 DEF InsertReferralCode
<1>11. CASE AttachCustomer(c)
    BY <1>3, <1>11 DEF AttachCustomer
<1>12. CASE ReadAttribution(c)
    <2> DEFINE a == call[c].attribution
               state == [call[c] EXCEPT !.pc = "commission",
                                        !.affiliate = attributions[a].affiliate,
                                        !.todo = ItemsOf(call[c].order)]
    <2>1. a \in DOMAIN attributions
        BY <1>12 DEF ReadAttribution, At, AffiliateInv, HoldsInv, HoldsOK
    <2>2. attributions[a].affiliate \in Affiliates /\ ItemsOf(call[c].order) \in SUBSET Items
        BY <2>1, AttributionRooms DEF AttributionRows, ItemsOf
    <2>3. state \in CallStates
        BY ZenonT(60), <1>1, <2>2 DEF CallStates, AffiliateLocations
    <2>. QED
        BY <1>2, <1>3, <1>12, <2>3 DEF ReadAttribution
<1>13. CASE MarkConverted(c)
    BY <1>3, <1>13 DEF MarkConverted
<1>14. CASE InsertPayout(c)
    <2>1. Len(affiliate_payouts') \in 1 .. MaxPayouts
        BY <1>1, <1>14, PayoutRooms DEF InsertPayout, AffiliateTypeOK
    <2>2. [call[c] EXCEPT !.pc = "balance", !.payout = Len(affiliate_payouts')] \in CallStates
        BY ZenonT(60), <1>1, <2>1 DEF CallStates, AffiliateLocations
    <2>. QED
        BY <1>2, <1>14, <2>2 DEF InsertPayout
<1>15. CASE ReadBalance(c)
    <2> DEFINE f == call[c].affiliate
    <2>1. f \in Affiliates
        BY <1>1, <1>15, CallTypes DEF ReadBalance, At, AffiliateInv, HoldsInv, HoldsOK
    <2>2. [call[c] EXCEPT !.pc = "write", !.current = Balance(f)] \in CallStates
        BY ZenonT(60), <1>1, <2>1, BalanceIsNumber DEF CallStates, AffiliateLocations
    <2>. QED
        BY <1>2, <1>3, <1>15, <2>2 DEF ReadBalance
<1>16. CASE WriteLedger(c)
    <2>1. [call[c] EXCEPT !.pc = "commission"] \in CallStates
        BY <1>1 DEF CallStates, AffiliateLocations
    <2>. QED
        BY <1>2, <1>3, <1>16, <2>1 DEF WriteLedger
<1>17. CASE AffiliateCrash(c)
    <2>1. [call[c] EXCEPT !.pc = "dead"] \in CallStates
        BY <1>1 DEF CallStates, AffiliateLocations
    <2>. QED
        BY <1>2, <1>17, <2>1 DEF AffiliateCrash
<1>. QED
    BY <1>4, <1>5, <1>6, <1>7, <1>8, <1>9, <1>10, <1>11, <1>12, <1>13, <1>14, <1>15, <1>16,
       <1>17 DEF Request

(* A call that is to write to a ledger has what it takes. *)
LEMMA WriterIsReady ==
    ASSUME AffiliateInv, NEW c \in Calls, At(c, "write")
    PROVE  /\ call[c].affiliate \in Affiliates
           /\ call[c].amount \in Nat \ {0}
           /\ IsDebit(c) => call[c].payout \in 1 .. MaxPayouts
           /\ ~IsDebit(c) => call[c].order \in Orders
           /\ NewBalance(c) \in Nat
           /\ NewRow(c) \in AffiliateLedgerRows
<1>1. /\ call[c].affiliate \in Affiliates
      /\ call[c].amount \in Nat \ {0}
      /\ call[c].current \in Nat
      /\ IsDebit(c) => call[c].payout \in 1 .. MaxPayouts /\ call[c].current >= call[c].amount
      /\ ~IsDebit(c) => call[c].order \in Orders
    <2>1. HoldsOK(c) /\ AffiliateTypeOK
        BY DEF AffiliateInv, HoldsInv
    <2>. QED
        BY <2>1, CallTypes DEF At, HoldsOK, IsDebit
<1>2. NewBalance(c) \in Nat
    BY <1>1 DEF NewBalance
<1>. QED
    BY <1>1, <1>2 DEF NewRow, AffiliateLedgerRows

BalanceIsShown(f) ==
    LET rows == affiliate_ledger[f] IN
    IF rows = <<>> THEN Balance(f) = 0 ELSE Balance(f) = rows[Len(rows)].balance_after

(* What the tables show of a balance. *)
LEMMA BalancesAreShown ==
    ASSUME AffiliateInv, NEW c \in Calls, Request(c), NEW f \in Affiliates
    PROVE  BalanceIsShown(f)'
<1>1. BalanceIsShown(f) /\ AffiliateTypeOK
    BY DEF AffiliateInv, AffiliateTypeOK, BalanceIsShown
<1>2. CASE UNCHANGED <<affiliate_ledger, cached_available>>
    BY <1>1, <1>2 DEF BalanceIsShown, Balance
<1>3. CASE ReadBalance(c)
    <2>1. affiliate_ledger' = affiliate_ledger /\ Balance(f)' = Balance(f)
        BY <1>1, <1>3, BalanceIsNumber, CallTypes
           DEF ReadBalance, Balance, AffiliateTypeOK
    <2>. QED
        BY <1>1, <2>1 DEF BalanceIsShown
<1>4. CASE WriteLedger(c)
    <2> DEFINE g == call[c].affiliate
    <2>1. g \in Affiliates /\ NewBalance(c) \in Nat /\ NewRow(c) \in AffiliateLedgerRows
        BY <1>4, WriterIsReady DEF WriteLedger
    <2>2. CASE f = g
        <3>1. /\ affiliate_ledger'[f] = Append(affiliate_ledger[f], NewRow(c))
              /\ cached_available'[f] = NewBalance(c)
            BY <1>1, <1>4, <2>1, <2>2 DEF WriteLedger, AffiliateTypeOK
        <3>2. affiliate_ledger[f] \in Seq(AffiliateLedgerRows)
            BY <1>1 DEF AffiliateTypeOK
        <3>3. /\ affiliate_ledger'[f] # <<>>
              /\ affiliate_ledger'[f][Len(affiliate_ledger'[f])] = NewRow(c)
            BY <2>1, <3>1, <3>2
        <3>4. NewBalance(c) # NULL /\ NewRow(c).balance_after = NewBalance(c)
            BY <2>1, AffiliateAssumption DEF NewRow
        <3>. QED
            BY <3>1, <3>3, <3>4 DEF BalanceIsShown, Balance
    <2>3. CASE f # g
        BY <1>1, <1>4, <2>1, <2>3 DEF WriteLedger, AffiliateTypeOK, BalanceIsShown, Balance
    <2>. QED
        BY <2>2, <2>3
<1>. QED
    BY <1>2, <1>3, <1>4
       DEF Request, EnrollAffiliate, RequestPayout, RecordClick, FindClick, ConfirmOrder,
           InsertCommission, InsertReferralCode, AttachCustomer, ReadAttribution,
           MarkConverted, InsertPayout, AffiliateCrash, ledgerVars

TablesAreOK ==
    /\ referral_code \in [Affiliates -> {"none", "missing", "active"}]
    /\ attributions \in Seq(AttributionRows)
    /\ expired \in 0 .. Len(attributions)
    /\ commissions \in [Items -> (DOMAIN attributions) \union {NULL}]
    /\ affiliate_ledger \in [Affiliates -> Seq(AffiliateLedgerRows)]
    /\ cached_available \in [Affiliates -> Nat \union {NULL}]
    /\ affiliate_payouts \in Seq(PayoutRows)
    /\ confirmed \subseteq Orders
    /\ crashes \in 0 .. MaxCrashes
    /\ overtaken \subseteq Affiliates
    /\ contested \subseteq DOMAIN attributions

(* Every table keeps to its types. *)
LEMMA TablesAreTyped ==
    ASSUME AffiliateInv, NEW c \in Calls, Request(c)
    PROVE  TablesAreOK'
<1>1. /\ TablesAreOK /\ AffiliateTypeOK /\ HoldsOK(c)
      /\ call[c].affiliate \in Affiliates \union {NULL}
    BY CallTypes DEF AffiliateInv, AffiliateTypeOK, TablesAreOK, HoldsInv
<1>2. /\ DOMAIN attributions = 1 .. Len(attributions)
      /\ Len(attributions) \in Nat
      /\ \A a \in DOMAIN attributions : attributions[a] \in AttributionRows
    BY AttributionRooms
<1> USE DEF clickVars, earningVars, ledgerVars
<1>3. CASE \E f \in Affiliates : EnrollAffiliate(c, f)
    BY <1>1, <1>3 DEF EnrollAffiliate, TablesAreOK
<1>4. CASE \E f \in Affiliates : RequestPayout(c, f)
    BY <1>1, <1>4 DEF RequestPayout, TablesAreOK
<1>5. CASE \E f \in Affiliates, u \in Customers \union {NULL} : RecordClick(c, f, u)
    <2>1. PICK f \in Affiliates, u \in Customers \union {NULL} : RecordClick(c, f, u)
        BY <1>5
    <2> DEFINE row == [affiliate |-> f, customer |-> NULL, status |-> "pending"]
    <2>2. row \in AttributionRows
        BY DEF AttributionRows
    <2>3. attributions' = Append(attributions, row)
        BY <2>1 DEF RecordClick
    <2> HIDE DEF row
    <2>4. /\ attributions' \in Seq(AttributionRows)
          /\ Len(attributions') = Len(attributions) + 1
          /\ DOMAIN attributions \subseteq DOMAIN attributions'
        BY <1>1, <1>2, <2>2, <2>3 DEF TablesAreOK
    <2>. QED
        BY <1>1, <1>2, <2>1, <2>4 DEF RecordClick, TablesAreOK
<1>6. CASE \E a \in DOMAIN attributions, u \in Customers : FindClick(c, a, u)
    BY <1>1, <1>6 DEF FindClick, TablesAreOK
<1>7. CASE \E o \in Orders : ConfirmOrder(c, o)
    BY <1>1, <1>7 DEF ConfirmOrder, TablesAreOK
<1>8. CASE \E i \in Items : InsertCommission(c, i)
    <2>1. call[c].attribution \in DOMAIN attributions
        BY <1>1, <1>8 DEF InsertCommission, At, HoldsOK
    <2>. QED
        BY <1>1, <1>8, <2>1 DEF InsertCommission, TablesAreOK
<1>9. CASE InsertReferralCode(c)
    BY <1>1, <1>9 DEF InsertReferralCode, TablesAreOK
<1>10. CASE AttachCustomer(c) \/ MarkConverted(c)
    <2> DEFINE a == call[c].attribution
    <2>1. PICK row \in AttributionRows : attributions' = [attributions EXCEPT ![a] = row]
        <3>1. a \in DOMAIN attributions /\ attributions[a] \in AttributionRows
            BY <1>1, <1>2, <1>10, AttributionRooms DEF AttachCustomer, MarkConverted, At, HoldsOK
        <3>2. CASE AttachCustomer(c)
            <4>1. [attributions[a] EXCEPT !.customer = call[c].customer] \in AttributionRows
                BY <1>1, <3>1, CallTypes DEF AttributionRows
            <4>. QED
                BY <3>2, <4>1 DEF AttachCustomer
        <3>3. CASE MarkConverted(c)
            <4>1. [attributions[a] EXCEPT !.status = "converted"] \in AttributionRows
                BY <3>1 DEF AttributionRows
            <4>. QED
                BY <3>3, <4>1 DEF MarkConverted, Convert
        <3>. QED
            BY <1>10, <3>2, <3>3
    <2>2. /\ attributions' \in Seq(AttributionRows)
          /\ Len(attributions') = Len(attributions)
          /\ DOMAIN attributions' = DOMAIN attributions
        <3> HIDE DEF a
        <3>1. attributions \in [1 .. Len(attributions) -> AttributionRows]
            BY <1>1 DEF TablesAreOK
        <3>2. attributions' \in [1 .. Len(attributions) -> AttributionRows]
            BY <2>1, <3>1
        <3>. QED
            BY <1>2, <3>2
    <2>3. UNCHANGED <<referral_code, expired, earningVars, ledgerVars, affiliate_payouts, crashes>>
        BY <1>10 DEF AttachCustomer, MarkConverted
    <2>. QED
        BY <1>1, <2>2, <2>3 DEF TablesAreOK
<1>11. CASE ReadAttribution(c)
    <2>1. call[c].attribution \in DOMAIN attributions
        BY <1>1, <1>11 DEF ReadAttribution, At, HoldsOK
    <2>. QED
        BY <1>1, <1>11, <2>1 DEF ReadAttribution, TablesAreOK
<1>12. CASE InsertPayout(c)
    <2> DEFINE row == [affiliate |-> call[c].affiliate, amount |-> call[c].amount]
    <2>1. row \in PayoutRows
        BY <1>1, <1>12, CallTypes DEF InsertPayout, At, HoldsOK, PayoutRows
    <2>2. affiliate_payouts' = Append(affiliate_payouts, row)
        BY <1>12 DEF InsertPayout
    <2> HIDE DEF row
    <2>3. affiliate_payouts' \in Seq(PayoutRows)
        BY <1>1, <2>1, <2>2 DEF TablesAreOK
    <2>. QED
        BY <1>1, <1>12, <2>3 DEF InsertPayout, TablesAreOK
<1>13. CASE ReadBalance(c)
    <2>1. call[c].affiliate \in Affiliates
        BY <1>1, <1>13 DEF ReadBalance, At, HoldsOK
    <2>2. Balance(call[c].affiliate) \in Nat
        BY <1>1, <2>1, BalanceIsNumber
    <2>. QED
        BY <1>1, <1>13, <2>1, <2>2 DEF ReadBalance, TablesAreOK
<1>14. CASE WriteLedger(c)
    <2> DEFINE f == call[c].affiliate
    <2>1. /\ f \in Affiliates
          /\ NewBalance(c) \in Nat
          /\ NewRow(c) \in AffiliateLedgerRows
          /\ affiliate_ledger[f] \in Seq(AffiliateLedgerRows)
        BY <1>1, <1>14, WriterIsReady DEF WriteLedger, TablesAreOK
    <2>2. Append(affiliate_ledger[f], NewRow(c)) \in Seq(AffiliateLedgerRows)
        BY <2>1
    <2>. QED
        BY <1>1, <1>14, <2>1, <2>2 DEF WriteLedger, TablesAreOK
<1>15. CASE AffiliateCrash(c)
    BY <1>1, <1>15, AffiliateAssumption DEF AffiliateCrash, TablesAreOK
<1>. QED
    BY <1>3, <1>4, <1>5, <1>6, <1>7, <1>8, <1>9, <1>10, <1>11, <1>12, <1>13, <1>14, <1>15
       DEF Request

(* A request keeps to the types, whatever it overtakes. *)
LEMMA RequestsKeepTypes ==
    ASSUME AffiliateInv, NEW c \in Calls, Request(c)
    PROVE  AffiliateTypeOK'
<1>1. call' \in [Calls -> CallStates]
    BY CallsAreTyped
<1>2. \A f \in Affiliates : BalanceIsShown(f)'
    BY BalancesAreShown
<1>3. TablesAreOK'
    BY TablesAreTyped
<1>. QED
    BY <1>1, <1>2, <1>3 DEF AffiliateTypeOK, TablesAreOK, BalanceIsShown

-----------------------------------------------------------------------------
(* What the calls hold. *)

(* Rows are added; what others refer to in them stays. *)
RowsStay ==
    /\ \A a \in DOMAIN attributions :
          /\ a \in DOMAIN attributions'
          /\ attributions'[a].affiliate = attributions[a].affiliate
    /\ \A p \in DOMAIN affiliate_payouts :
          /\ p \in DOMAIN affiliate_payouts'
          /\ affiliate_payouts'[p] = affiliate_payouts[p]
    /\ confirmed \subseteq confirmed'
    /\ contested \subseteq contested'
    /\ overtaken \subseteq overtaken'

(* A request takes away nothing that another call refers to. *)
LEMMA RequestsKeepRows ==
    ASSUME AffiliateInv, NEW c \in Calls, Request(c)
    PROVE  RowsStay
<1>1. AffiliateTypeOK /\ HoldsOK(c)
    BY DEF AffiliateInv, HoldsInv
<1>2. CASE UNCHANGED <<attributions, affiliate_payouts>>
    <2>1. /\ confirmed \subseteq confirmed'
          /\ contested \subseteq contested'
          /\ overtaken \subseteq overtaken'
        BY DEF Request, EnrollAffiliate, RequestPayout, RecordClick, FindClick, ConfirmOrder,
               InsertCommission, InsertReferralCode, AttachCustomer, ReadAttribution,
               MarkConverted, InsertPayout, ReadBalance, WriteLedger, AffiliateCrash,
               clickVars, ledgerVars, earningVars
    <2>. QED
        BY <1>2, <2>1 DEF RowsStay
<1>3. CASE /\ UNCHANGED <<affiliate_payouts, confirmed, contested, overtaken>>
           /\ \E f \in Affiliates, u \in Customers \union {NULL} : RecordClick(c, f, u)
    BY <1>1, <1>3 DEF RecordClick, AffiliateTypeOK, RowsStay
<1>4. CASE /\ UNCHANGED <<affiliate_payouts, confirmed, contested, overtaken>>
           /\ AttachCustomer(c) \/ MarkConverted(c)
    <2> DEFINE a == call[c].attribution
    <2>1. \/ attributions' =
                [attributions EXCEPT ![a] = [attributions[a] EXCEPT !.status = "converted"]]
          \/ attributions' = [attributions EXCEPT ![a] =
                                [attributions[a] EXCEPT !.customer = call[c].customer]]
        BY <1>4 DEF AttachCustomer, MarkConverted, Convert
    <2>2. \A b \in DOMAIN attributions : attributions[b] \in AttributionRows
        BY AttributionRooms
    <2>3. /\ DOMAIN attributions' = DOMAIN attributions
          /\ \A b \in DOMAIN attributions : attributions'[b].affiliate = attributions[b].affiliate
        BY <2>1, <2>2 DEF AttributionRows
    <2>. QED
        BY <1>4, <2>3 DEF RowsStay
<1>5. CASE InsertPayout(c)
    BY <1>1, <1>5 DEF InsertPayout, AffiliateTypeOK, RowsStay, clickVars, ledgerVars, earningVars
<1>. QED
    BY <1>2, <1>3, <1>4, <1>5
       DEF Request, EnrollAffiliate, RequestPayout, RecordClick, FindClick, ConfirmOrder,
           InsertCommission, InsertReferralCode, AttachCustomer, ReadAttribution,
           MarkConverted, ReadBalance, WriteLedger, AffiliateCrash, clickVars,
           ledgerVars, earningVars

(* A call that does not move still holds what it did. *)
LEMMA StillHolds ==
    ASSUME RowsStay, NEW d \in Calls, HoldsOK(d), call'[d] = call[d]
    PROVE  HoldsOK(d)'
BY DEF RowsStay, HoldsOK

(* One that begins again holds nothing. *)
LEMMA IdleHolds ==
    ASSUME NEW c \in Calls, call'[c] = Idle
    PROVE  HoldsOK(c)'
BY DEF Idle, HoldsOK

(* The call that moves holds what it should where it comes to. *)
LEMMA MoverHolds ==
    ASSUME AffiliateInv, NEW c \in Calls, Request(c)
    PROVE  HoldsOK(c)'
<1>1. AffiliateTypeOK /\ HoldsOK(c) /\ RowsStay
    BY RequestsKeepRows DEF AffiliateInv, HoldsInv
<1>2. call[c] \in CallStates
    BY <1>1 DEF AffiliateTypeOK
<1>3. ASSUME Return(c) PROVE HoldsOK(c)'
    BY <1>1, <1>3, CallMoves, IdleHolds DEF Return
<1>4. ASSUME UNCHANGED call PROVE HoldsOK(c)'
    BY <1>1, <1>4, StillHolds
<1>5. CASE \E f \in Affiliates : EnrollAffiliate(c, f)
    <2>1. PICK f \in Affiliates : EnrollAffiliate(c, f)
        BY <1>5
    <2>2. call'[c] = [Idle EXCEPT !.pc = "code", !.affiliate = f]
        BY <1>1, <2>1, CallMoves DEF EnrollAffiliate, At, HoldsOK
    <2>. QED
        BY <2>2, AffiliateAssumption DEF Idle, HoldsOK
<1>6. CASE \E f \in Affiliates : RequestPayout(c, f)
    <2>1. PICK f \in Affiliates : RequestPayout(c, f)
        BY <1>6
    <2>2. call'[c] = [Idle EXCEPT !.pc = "payout", !.affiliate = f, !.amount = Balance(f)]
        BY <1>1, <2>1, CallMoves DEF RequestPayout, At, HoldsOK
    <2>3. Balance(f) > 0
        BY <2>1 DEF RequestPayout
    <2>. QED
        BY <2>2, <2>3, AffiliateAssumption DEF Idle, HoldsOK
<1>7. CASE \E f \in Affiliates, u \in Customers \union {NULL} : RecordClick(c, f, u)
    <2>1. PICK f \in Affiliates, u \in Customers \union {NULL} : RecordClick(c, f, u)
        BY <1>7
    <2> DEFINE a == Len(attributions')
    <2>2. a \in DOMAIN attributions' /\ a # NULL
        BY <1>1, <2>1, AffiliateAssumption DEF RecordClick, AffiliateTypeOK
    <2>3. CASE u # NULL
        <3>1. call'[c] = [Idle EXCEPT !.pc = "attach", !.customer = u, !.attribution = a]
            BY <1>1, <2>1, <2>3, CallMoves DEF RecordClick, At, HoldsOK
        <3> HIDE DEF a
        <3>. QED
            BY <2>2, <3>1 DEF Idle, HoldsOK
    <2>. QED
        BY <1>4, <2>1, <2>3 DEF RecordClick
<1>8. CASE \E a \in DOMAIN attributions, u \in Customers : FindClick(c, a, u)
    <2>1. PICK a \in DOMAIN attributions, u \in Customers : FindClick(c, a, u)
        BY <1>8
    <2>2. a \in DOMAIN attributions' /\ a # NULL
        BY <1>1, AttributionRooms, AffiliateAssumption DEF RowsStay
    <2>3. call'[c] = [Idle EXCEPT !.pc = "attach", !.customer = u, !.attribution = a]
        BY <1>1, <2>1, CallMoves DEF FindClick, At, HoldsOK
    <2>. QED
        BY <2>2, <2>3 DEF Idle, HoldsOK
<1>9. CASE \E o \in Orders : ConfirmOrder(c, o)
    <2>1. PICK o \in Orders : ConfirmOrder(c, o)
        BY <1>9
    <2> DEFINE a == Max(ActiveFor(owner[o]))
    <2>2. CASE ActiveFor(owner[o]) # {}
        <3>1. a \in DOMAIN attributions' /\ a # NULL
            BY <1>1, <2>2, FoundAttribution, AttributionRooms, AffiliateAssumption DEF RowsStay
        <3>2. call'[c] = [Idle EXCEPT !.pc = "attribution", !.order = o, !.attribution = a]
            BY <1>1, <2>1, <2>2, CallMoves DEF ConfirmOrder, At, HoldsOK
        <3>3. o \in confirmed' /\ o # NULL
            BY <2>1, AffiliateAssumption DEF ConfirmOrder
        <3> HIDE DEF a
        <3>. QED
            BY <3>1, <3>2, <3>3 DEF Idle, HoldsOK
    <2>. QED
        BY <1>4, <2>1, <2>2 DEF ConfirmOrder
<1>10. CASE \E i \in Items : InsertCommission(c, i)
    <2>1. PICK i \in Items : InsertCommission(c, i)
        BY <1>10
    <2>2. \/ /\ CalculateCommission(line_total[i]) > 0
             /\ call'[c] = [call[c] EXCEPT !.pc = "balance", !.todo = @ \ {i},
                                           !.amount = CalculateCommission(line_total[i])]
          \/ call'[c] = [call[c] EXCEPT !.todo = @ \ {i}]
        BY <1>1, <2>1, CallMoves DEF InsertCommission, IsEarned
    <2>3. /\ call'[c].affiliate = call[c].affiliate
          /\ call'[c].attribution = call[c].attribution
          /\ call'[c].order = call[c].order
          /\ call'[c].payout = call[c].payout
          /\ call'[c].todo \subseteq call[c].todo
          /\ \/ call'[c].pc = "balance" /\ call'[c].amount > 0
             \/ call'[c].pc = "commission"
        BY <1>2, <2>1, <2>2 DEF CallStates, InsertCommission, At
    <2>4. /\ call[c].affiliate # NULL /\ call[c].order # NULL /\ call[c].attribution # NULL
          /\ call[c].payout = NULL
        BY <1>1, <2>1 DEF InsertCommission, At, HoldsOK
    <2>. QED
        BY <1>1, <2>3, <2>4 DEF HoldsOK, RowsStay
<1>11. CASE InsertReferralCode(c)
    BY <1>3, <1>11 DEF InsertReferralCode
<1>12. CASE AttachCustomer(c)
    BY <1>3, <1>12 DEF AttachCustomer
<1>13. CASE ReadAttribution(c)
    <2> DEFINE a == call[c].attribution
               f == attributions[a].affiliate
    <2>1. a \in DOMAIN attributions /\ f \in Affiliates /\ f # NULL
        BY <1>1, <1>13, AttributionRooms, AffiliateAssumption
           DEF ReadAttribution, At, HoldsOK, AttributionRows
    <2>2. CASE attributions[a].status = "pending"
        <3>1. call'[c] = [call[c] EXCEPT !.pc = "commission", !.affiliate = f,
                                         !.todo = ItemsOf(call[c].order)]
            BY <1>1, <1>13, <2>2, CallMoves DEF ReadAttribution
        <3>2. attributions'[a].affiliate = f /\ a \in DOMAIN attributions'
            BY <1>1, <2>1 DEF RowsStay
        <3> HIDE DEF a, f
        <3>. QED
            BY <1>1, <1>2, <1>13, <2>1, <3>1, <3>2
               DEF ReadAttribution, At, HoldsOK, RowsStay, CallStates, a
    <2>. QED
        BY <1>3, <1>13, <2>2 DEF ReadAttribution
<1>14. CASE MarkConverted(c)
    BY <1>3, <1>14 DEF MarkConverted
<1>15. CASE InsertPayout(c)
    <2> DEFINE p == Len(affiliate_payouts')
    <2>1. call'[c] = [call[c] EXCEPT !.pc = "balance", !.payout = p]
        BY <1>1, <1>15, CallMoves DEF InsertPayout
    <2>2. /\ p \in DOMAIN affiliate_payouts'
          /\ p # NULL
          /\ affiliate_payouts'[p] = [affiliate |-> call[c].affiliate, amount |-> call[c].amount]
        BY <1>1, <1>15, AffiliateAssumption DEF InsertPayout, AffiliateTypeOK
    <2> HIDE DEF p
    <2>. QED
        BY <1>1, <1>2, <1>15, <2>1, <2>2 DEF InsertPayout, At, HoldsOK, RowsStay, CallStates
<1>16. CASE ReadBalance(c)
    <2> DEFINE f == call[c].affiliate
    <2>1. Return(c) \/ /\ call'[c] = [call[c] EXCEPT !.pc = "write", !.current = Balance(f)]
                       /\ call[c].payout # NULL => Balance(f) >= call[c].amount
        BY <1>1, <1>16, CallMoves DEF ReadBalance, CanDebit, IsDebit
    <2>2. UNCHANGED <<attributions, affiliate_payouts, confirmed>>
        BY <1>16 DEF ReadBalance, clickVars, earningVars
    <2>3. CASE /\ call'[c] = [call[c] EXCEPT !.pc = "write", !.current = Balance(f)]
               /\ call[c].payout # NULL => Balance(f) >= call[c].amount
        <3>1. /\ call'[c].pc = "write"
              /\ call'[c].current = Balance(f)
              /\ call'[c].affiliate = call[c].affiliate
              /\ call'[c].attribution = call[c].attribution
              /\ call'[c].order = call[c].order
              /\ call'[c].payout = call[c].payout
              /\ call'[c].amount = call[c].amount
              /\ call'[c].todo = call[c].todo
            BY <1>2, <2>3 DEF CallStates
        <3>2. call[c].pc = "balance"
            BY <1>16 DEF ReadBalance, At
        <3> HIDE DEF f
        <3>. QED
            BY <1>1, <2>2, <2>3, <3>1, <3>2 DEF HoldsOK
    <2>. QED
        BY <1>3, <2>1, <2>3
<1>17. CASE WriteLedger(c)
    <2>1. Return(c) \/ /\ call'[c] = [call[c] EXCEPT !.pc = "commission"]
                       /\ call[c].payout = NULL
        BY <1>1, <1>17, CallMoves DEF WriteLedger, IsDebit
    <2>2. CASE call'[c] = [call[c] EXCEPT !.pc = "commission"] /\ call[c].payout = NULL
        <3>1. /\ call'[c].pc = "commission"
              /\ call'[c].affiliate = call[c].affiliate
              /\ call'[c].attribution = call[c].attribution
              /\ call'[c].order = call[c].order
              /\ call'[c].payout = NULL
              /\ call'[c].todo = call[c].todo
            BY <1>2, <2>2 DEF CallStates
        <3>2. call[c].affiliate # NULL /\ call[c].order # NULL
            BY <1>1, <1>17, <2>2 DEF WriteLedger, At, HoldsOK
        <3>. QED
            BY <1>1, <3>1, <3>2 DEF HoldsOK, RowsStay
    <2>. QED
        BY <1>3, <2>1, <2>2
<1>18. CASE AffiliateCrash(c)
    <2>1. call'[c] = [call[c] EXCEPT !.pc = "dead"]
        BY <1>1, <1>18, CallMoves DEF AffiliateCrash
    <2>2. /\ call'[c].pc = "dead"
          /\ call'[c].affiliate = call[c].affiliate
          /\ call'[c].attribution = call[c].attribution
          /\ call'[c].order = call[c].order
          /\ call'[c].payout = call[c].payout
          /\ call'[c].amount = call[c].amount
          /\ call'[c].todo = call[c].todo
        BY <1>2, <2>1 DEF CallStates
    <2>3. UNCHANGED <<attributions, affiliate_payouts, confirmed>>
        BY <1>18 DEF AffiliateCrash, clickVars, earningVars
    <2>. QED
        BY <1>1, <2>2, <2>3 DEF HoldsOK
<1>. QED
    BY <1>5, <1>6, <1>7, <1>8, <1>9, <1>10, <1>11, <1>12, <1>13, <1>14, <1>15, <1>16, <1>17,
       <1>18 DEF Request

(* Every call holds what it should where it stands, and one call moves. *)
LEMMA RequestsKeepHolds ==
    ASSUME AffiliateInv, NEW c \in Calls, Request(c)
    PROVE  /\ HoldsInv'
           /\ \A d \in Calls : d # c => call'[d] = call[d]
<1>1. \A d \in Calls : d # c => call'[d] = call[d]
    <2>1. UNCHANGED call \/ \E state : Becomes(c, state)
        BY DEF Request, EnrollAffiliate, RequestPayout, RecordClick, FindClick, ConfirmOrder,
               InsertCommission, InsertReferralCode, AttachCustomer, ReadAttribution,
               MarkConverted, InsertPayout, ReadBalance, WriteLedger, AffiliateCrash, Return
    <2>. QED
        BY <2>1, CallMoves DEF AffiliateInv
<1>2. \A d \in Calls : d # c => HoldsOK(d)'
    BY <1>1, RequestsKeepRows, StillHolds DEF AffiliateInv, HoldsInv
<1>. QED
    BY <1>1, <1>2, MoverHolds DEF HoldsInv

-----------------------------------------------------------------------------
(* What moves. *)

(* A call begins with no order and no payout, *)
Begins(c) ==
    /\ call[c] = Idle
    /\ call'[c].order = NULL
    /\ call'[c].payout = NULL
    /\ call'[c].affiliate = NULL \/ call'[c].attribution = NULL

(* goes on with what it has, *)
GoesOn(c) ==
    /\ call'[c].affiliate = call[c].affiliate
    /\ call'[c].attribution = call[c].attribution
    /\ call'[c].order = call[c].order
    /\ call'[c].payout = call[c].payout

(* or ends without having worked for an order. *)
Ends(c) == call[c].order = NULL /\ call'[c] = Idle

(* It takes an order that nobody confirmed before. *)
TakesOrder(c) ==
    /\ call[c] = Idle
    /\ call'[c].pc = "attribution"
    /\ call'[c].order \notin confirmed
    /\ call'[c].payout = NULL
    /\ call'[c].affiliate = NULL

(* Every request does one of these, or converts an attribution, or inserts *)
(* its payout.                                                             *)
LEMMA MoveKinds ==
    ASSUME AffiliateInv, NEW c \in Calls, Request(c)
    PROVE  \/ Begins(c) \/ GoesOn(c) \/ Ends(c) \/ TakesOrder(c)
           \/ ReadAttribution(c) \/ MarkConverted(c) \/ InsertPayout(c)
<1>1. AffiliateTypeOK /\ HoldsOK(c)
    BY DEF AffiliateInv, HoldsInv
<1>2. call[c] \in CallStates
    BY <1>1 DEF AffiliateTypeOK
<1>3. ASSUME UNCHANGED call PROVE GoesOn(c)
    BY <1>3 DEF GoesOn
<1>4. CASE \E f \in Affiliates : EnrollAffiliate(c, f) \/ RequestPayout(c, f)
    <2>1. PICK f \in Affiliates : EnrollAffiliate(c, f) \/ RequestPayout(c, f)
        BY <1>4
    <2>2. call[c] = Idle
        BY <1>1, <2>1 DEF EnrollAffiliate, RequestPayout, At, HoldsOK
    <2>3. \/ call'[c] = [Idle EXCEPT !.pc = "code", !.affiliate = f]
          \/ call'[c] = [Idle EXCEPT !.pc = "payout", !.affiliate = f, !.amount = Balance(f)]
        BY <1>1, <2>1, <2>2, CallMoves DEF EnrollAffiliate, RequestPayout
    <2>. QED
        BY <2>2, <2>3 DEF Begins, Idle
<1>5. CASE \E f \in Affiliates, u \in Customers \union {NULL} : RecordClick(c, f, u)
    <2>1. PICK f \in Affiliates, u \in Customers \union {NULL} : RecordClick(c, f, u)
        BY <1>5
    <2>2. call[c] = Idle
        BY <1>1, <2>1 DEF RecordClick, At, HoldsOK
    <2>3. \/ UNCHANGED call
          \/ call'[c] = [Idle EXCEPT !.pc = "attach", !.customer = u,
                                     !.attribution = Len(attributions')]
        BY <1>1, <2>1, <2>2, CallMoves DEF RecordClick
    <2>. QED
        BY <1>3, <2>2, <2>3 DEF Begins, Idle
<1>6. CASE \E a \in DOMAIN attributions, u \in Customers : FindClick(c, a, u)
    <2>1. PICK a \in DOMAIN attributions, u \in Customers : FindClick(c, a, u)
        BY <1>6
    <2>2. call[c] = Idle
        BY <1>1, <2>1 DEF FindClick, At, HoldsOK
    <2>3. call'[c] = [Idle EXCEPT !.pc = "attach", !.customer = u, !.attribution = a]
        BY <1>1, <2>1, <2>2, CallMoves DEF FindClick
    <2>. QED
        BY <2>2, <2>3 DEF Begins, Idle
<1>7. CASE \E o \in Orders : ConfirmOrder(c, o)
    <2>1. PICK o \in Orders : ConfirmOrder(c, o)
        BY <1>7
    <2> DEFINE a == Max(ActiveFor(owner[o]))
    <2>2. call[c] = Idle
        BY <1>1, <2>1 DEF ConfirmOrder, At, HoldsOK
    <2>3. \/ UNCHANGED call
          \/ call'[c] = [Idle EXCEPT !.pc = "attribution", !.order = o, !.attribution = a]
        BY <1>1, <2>1, <2>2, CallMoves DEF ConfirmOrder
    <2> HIDE DEF a
    <2>4. o \notin confirmed
        BY <2>1 DEF ConfirmOrder
    <2>. QED
        BY <1>3, <2>2, <2>3, <2>4 DEF TakesOrder, Idle
<1>8. CASE \E i \in Items : InsertCommission(c, i)
    <2>1. PICK i \in Items : InsertCommission(c, i)
        BY <1>8
    <2>2. \/ call'[c] = [call[c] EXCEPT !.pc = "balance", !.todo = @ \ {i},
                                       !.amount = CalculateCommission(line_total[i])]
          \/ call'[c] = [call[c] EXCEPT !.todo = @ \ {i}]
        BY <1>1, <2>1, CallMoves DEF InsertCommission
    <2>. QED
        BY <1>2, <2>2 DEF CallStates, GoesOn
<1>9. CASE InsertReferralCode(c) \/ AttachCustomer(c)
    BY <1>1, <1>9, CallMoves DEF InsertReferralCode, AttachCustomer, Return, At, HoldsOK, Ends
<1>10. CASE ReadBalance(c)
    <2>1. \/ Return(c) /\ IsDebit(c)
          \/ call'[c] = [call[c] EXCEPT !.pc = "write", !.current = Balance(call[c].affiliate)]
        BY <1>1, <1>10, CallMoves DEF ReadBalance, CanDebit
    <2>2. IsDebit(c) => call[c].order = NULL
        BY <1>1 DEF HoldsOK, IsDebit
    <2>3. CASE Return(c) /\ IsDebit(c)
        BY <1>1, <2>2, <2>3, CallMoves DEF Ends, Return
    <2>4. CASE call'[c] = [call[c] EXCEPT !.pc = "write", !.current = Balance(call[c].affiliate)]
        BY <1>2, <2>4 DEF CallStates, GoesOn
    <2>. QED
        BY <2>1, <2>3, <2>4
<1>11. CASE WriteLedger(c)
    <2>1. \/ Return(c) /\ IsDebit(c)
          \/ call'[c] = [call[c] EXCEPT !.pc = "commission"]
        BY <1>1, <1>11, CallMoves DEF WriteLedger
    <2>2. IsDebit(c) => call[c].order = NULL
        BY <1>1 DEF HoldsOK, IsDebit
    <2>3. CASE Return(c) /\ IsDebit(c)
        BY <1>1, <2>2, <2>3, CallMoves DEF Ends, Return
    <2>4. CASE call'[c] = [call[c] EXCEPT !.pc = "commission"]
        BY <1>2, <2>4 DEF CallStates, GoesOn
    <2>. QED
        BY <2>1, <2>3, <2>4
<1>12. CASE AffiliateCrash(c)
    <2>1. call'[c] = [call[c] EXCEPT !.pc = "dead"]
        BY <1>1, <1>12, CallMoves DEF AffiliateCrash
    <2>. QED
        BY <1>2, <2>1 DEF CallStates, GoesOn
<1>. QED
    BY <1>4, <1>5, <1>6, <1>7, <1>8, <1>9, <1>10, <1>11, <1>12 DEF Request

(* An order or a payout that a call has and did not have is nobody's. *)
LEMMA MoverTakesNew ==
    ASSUME AffiliateInv, NEW c \in Calls, Request(c)
    PROVE  /\ call'[c].order \in {call[c].order, NULL} \/ call'[c].order \notin confirmed
           /\ \/ call'[c].payout \in {call[c].payout, NULL}
              \/ call'[c].payout \notin DOMAIN affiliate_payouts
<1>1. AffiliateTypeOK
    BY DEF AffiliateInv
<1>2. call[c] \in CallStates
    BY <1>1 DEF AffiliateTypeOK
<1>3. CASE Begins(c) \/ GoesOn(c) \/ Ends(c) \/ TakesOrder(c)
    BY <1>3 DEF Begins, GoesOn, Ends, TakesOrder, Idle
<1>4. CASE ReadAttribution(c)
    <2> DEFINE f == attributions[call[c].attribution].affiliate
               s == ItemsOf(call[c].order)
    <2>1. \/ call'[c] = [call[c] EXCEPT !.pc = "commission", !.affiliate = f, !.todo = s]
          \/ call'[c] = Idle
        BY <1>1, <1>4, CallMoves DEF ReadAttribution, Return
    <2> HIDE DEF f, s
    <2>2. CASE call'[c] = [call[c] EXCEPT !.pc = "commission", !.affiliate = f, !.todo = s]
        <3>1. call'[c].order = call[c].order /\ call'[c].payout = call[c].payout
            BY <1>2, <2>2 DEF CallStates
        <3>. QED
            BY <3>1
    <2>3. CASE call'[c] = Idle
        BY <2>3 DEF Idle
    <2>. QED
        BY <2>1, <2>2, <2>3
<1>5. CASE MarkConverted(c)
    BY <1>1, <1>5, CallMoves DEF MarkConverted, Return, Idle
<1>6. CASE InsertPayout(c)
    <2> DEFINE p == Len(affiliate_payouts')
    <2>1. call'[c] = [call[c] EXCEPT !.pc = "balance", !.payout = p]
        BY <1>1, <1>6, CallMoves DEF InsertPayout
    <2>2. p \notin DOMAIN affiliate_payouts
        BY <1>1, <1>6 DEF InsertPayout, AffiliateTypeOK
    <2> HIDE DEF p
    <2>3. call'[c].order = call[c].order /\ call'[c].payout = p
        BY <1>2, <2>1 DEF CallStates
    <2>. QED
        BY <2>2, <2>3
<1>. QED
    BY <1>3, <1>4, <1>5, <1>6, MoveKinds

(* Orders are confirmed, and payouts requested, by one call. *)
LEMMA SoleStays ==
    ASSUME AffiliateInv, NEW c \in Calls, Request(c)
    PROVE  SoleInv'
<1>1. \A d \in Calls : d # c => call'[d] = call[d]
    BY RequestsKeepHolds
<1>2. /\ \A d \in Calls : call[d].order # NULL => call[d].order \in confirmed
      /\ \A d \in Calls : call[d].payout # NULL => call[d].payout \in DOMAIN affiliate_payouts
    BY DEF AffiliateInv, HoldsInv, HoldsOK
<1>3. /\ call'[c].order \in {call[c].order, NULL} \/ call'[c].order \notin confirmed
      /\ \/ call'[c].payout \in {call[c].payout, NULL}
         \/ call'[c].payout \notin DOMAIN affiliate_payouts
    BY MoverTakesNew
<1>4. SoleInv
    BY DEF AffiliateInv
<1>5. \A d, e \in Calls :
         \/ call'[d].order # NULL /\ call'[d].order = call'[e].order
         \/ call'[d].payout # NULL /\ call'[d].payout = call'[e].payout
         => d = e
    BY <1>1, <1>2, <1>3, <1>4 DEF SoleInv
<1>. QED
    BY <1>5 DEF SoleInv

(* Clicks and payouts stay within their bounds. *)
LEMMA RoomStays ==
    ASSUME AffiliateInv, NEW c \in Calls, Request(c)
    PROVE  RoomInv'
<1>1. /\ RoomInv
      /\ AffiliateTypeOK
      /\ MaxPayouts \in Nat
      /\ Len(affiliate_payouts) \in Nat
      /\ Cardinality(Requesting) \in Nat
      /\ \A d \in Calls : d # c => call'[d] = call[d]
      /\ \A d \in Calls : call[d] \in CallStates
    BY AffiliateAssumption, RequestsKeepHolds, FS_CardinalityType
       DEF AffiliateInv, AffiliateTypeOK, RoomInv
<1>2. Len(attributions)' <= MaxClicks
    <2>1. CASE UNCHANGED attributions
        BY <1>1, <2>1 DEF RoomInv
    <2>2. CASE \E f \in Affiliates, u \in Customers \union {NULL} : RecordClick(c, f, u)
        BY <1>1, <2>2, AffiliateAssumption DEF RecordClick, AffiliateTypeOK
    <2>3. CASE AttachCustomer(c) \/ MarkConverted(c)
        BY <1>1, <2>3 DEF AttachCustomer, MarkConverted, Convert, RoomInv, AffiliateTypeOK
    <2>. QED
        BY <2>1, <2>2, <2>3
           DEF Request, EnrollAffiliate, RequestPayout, FindClick, ConfirmOrder,
               InsertCommission, InsertReferralCode, ReadAttribution, InsertPayout,
               ReadBalance, WriteLedger, AffiliateCrash, clickVars
<1>3. CASE \E f \in Affiliates : RequestPayout(c, f)
    <2>1. PICK f \in Affiliates : RequestPayout(c, f)
        BY <1>3
    <2>2. /\ call[c].pc # "payout"
          /\ affiliate_payouts' = affiliate_payouts
          /\ call'[c].pc = "payout"
        <3>1. call'[c] = [call[c] EXCEPT !.pc = "payout", !.affiliate = f, !.amount = Balance(f)]
            BY <1>1, <2>1, CallMoves DEF RequestPayout
        <3>. QED
            BY <1>1, <2>1, <3>1 DEF RequestPayout, At, CallStates
    <2>3. Requesting' = Requesting \union {c} /\ c \notin Requesting
        BY <1>1, <2>2 DEF Requesting, At
    <2>4. IsFiniteSet(Requesting') /\ Cardinality(Requesting') = Cardinality(Requesting) + 1
        BY <1>1, <2>3, FS_AddElement DEF RoomInv
    <2>5. Requested < MaxPayouts
        BY <2>1 DEF RequestPayout
    <2>. QED
        BY <1>1, <1>2, <2>2, <2>4, <2>5 DEF RoomInv, Requested
<1>4. CASE InsertPayout(c)
    <2>1. /\ call'[c].pc # "payout"
          /\ call[c].pc = "payout"
          /\ Len(affiliate_payouts') = Len(affiliate_payouts) + 1
        <3>1. call'[c] = [call[c] EXCEPT !.pc = "balance", !.payout = Len(affiliate_payouts')]
            BY <1>1, <1>4, CallMoves DEF InsertPayout
        <3>2. call'[c].pc = "balance"
            BY <1>1, <3>1 DEF CallStates
        <3>. QED
            BY <1>1, <1>4, <3>2 DEF InsertPayout, At, AffiliateTypeOK
    <2>2. Requesting' = Requesting \ {c} /\ c \in Requesting
        BY <1>1, <2>1 DEF Requesting, At
    <2>3. IsFiniteSet(Requesting') /\ Cardinality(Requesting') = Cardinality(Requesting) - 1
        BY <1>1, <2>2, FS_RemoveElement DEF RoomInv
    <2>. QED
        BY <1>1, <1>2, <2>1, <2>3 DEF RoomInv, Requested
<1>5. CASE /\ affiliate_payouts' = affiliate_payouts
           /\ call'[c].pc # "payout" \/ call'[c] = call[c]
    <2>1. Requesting' \subseteq Requesting
        BY <1>1, <1>5 DEF Requesting, At
    <2>2. IsFiniteSet(Requesting') /\ Cardinality(Requesting') <= Cardinality(Requesting)
        BY <1>1, <2>1, FS_Subset DEF RoomInv
    <2>3. Cardinality(Requesting') \in Nat
        BY <2>2, FS_CardinalityType
    <2>. QED
        BY <1>1, <1>2, <1>5, <2>2, <2>3 DEF RoomInv, Requested
<1>6. \/ \E f \in Affiliates : RequestPayout(c, f)
      \/ InsertPayout(c)
      \/ /\ affiliate_payouts' = affiliate_payouts
         /\ call'[c].pc # "payout" \/ call'[c] = call[c]
    <2>1. call[c] \in CallStates
        BY <1>1
    <2>2. \A state : Becomes(c, state) => call'[c] = state
        BY <1>1, CallMoves
    <2>3. Return(c) => call'[c].pc # "payout"
        BY <2>2 DEF Return, Idle
    <2>4. \A f \in Affiliates : EnrollAffiliate(c, f) => call'[c].pc # "payout"
        BY <2>1, <2>2 DEF EnrollAffiliate, CallStates
    <2>5. \A f, u : RecordClick(c, f, u) => call'[c].pc # "payout" \/ call'[c] = call[c]
        BY <2>1, <2>2 DEF RecordClick, CallStates
    <2>6. \A a, u : FindClick(c, a, u) => call'[c].pc # "payout"
        BY <2>1, <2>2 DEF FindClick, CallStates
    <2>7. \A o : ConfirmOrder(c, o) => call'[c].pc # "payout" \/ call'[c] = call[c]
        <3>1. \A o, a : Becomes(c, [call[c] EXCEPT !.pc = "attribution", !.order = o,
                                                   !.attribution = a])
                         => call'[c].pc # "payout"
            BY <2>1, <2>2 DEF CallStates
        <3>. QED
            BY <3>1 DEF ConfirmOrder
    <2>8. \A i : InsertCommission(c, i) => call'[c].pc # "payout"
        <3>1. \A s, m : Becomes(c, [call[c] EXCEPT !.pc = "balance", !.todo = s, !.amount = m])
                         => call'[c].pc # "payout"
            BY <2>1, <2>2 DEF CallStates
        <3>2. \A s : Becomes(c, [call[c] EXCEPT !.todo = s]) => call'[c].pc = call[c].pc
            BY <2>1, <2>2 DEF CallStates
        <3>. QED
            BY <3>1, <3>2 DEF InsertCommission, At
    <2>9. ReadAttribution(c) => call'[c].pc # "payout"
        <3>1. \A f, s : Becomes(c, [call[c] EXCEPT !.pc = "commission", !.affiliate = f, !.todo = s])
                         => call'[c].pc # "payout"
            BY <2>1, <2>2 DEF CallStates
        <3>. QED
            BY <2>3, <3>1 DEF ReadAttribution
    <2>10. ReadBalance(c) => call'[c].pc # "payout"
        <3>1. \A n : Becomes(c, [call[c] EXCEPT !.pc = "write", !.current = n])
                      => call'[c].pc # "payout"
            BY <2>1, <2>2 DEF CallStates
        <3>. QED
            BY <2>3, <3>1 DEF ReadBalance
    <2>11. WriteLedger(c) \/ AffiliateCrash(c) => call'[c].pc # "payout"
        BY <2>1, <2>2, <2>3 DEF WriteLedger, AffiliateCrash, CallStates
    <2>12. InsertReferralCode(c) \/ AttachCustomer(c) \/ MarkConverted(c) => call'[c].pc # "payout"
        BY <2>3 DEF InsertReferralCode, AttachCustomer, MarkConverted
    <2>13. \/ affiliate_payouts' = affiliate_payouts
           \/ InsertPayout(c)
        BY DEF Request, EnrollAffiliate, RequestPayout, RecordClick, FindClick, ConfirmOrder,
               InsertCommission, InsertReferralCode, AttachCustomer, ReadAttribution,
               MarkConverted, ReadBalance, WriteLedger, AffiliateCrash
    <2>. QED
        BY <2>4, <2>5, <2>6, <2>7, <2>8, <2>9, <2>10, <2>11, <2>12, <2>13 DEF Request
<1>. QED
    BY <1>3, <1>4, <1>5, <1>6

-----------------------------------------------------------------------------
(* Attributions. *)

(* Whoever converts an attribution goes on, unless a call begins to, or has *)
(* done with it.                                                           *)
LEMMA ConvertersStay ==
    ASSUME AffiliateInv, NEW c \in Calls, Request(c),
           ~ReadAttribution(c), ~MarkConverted(c),
           NEW a, a # NULL
    PROVE  \A d \in Calls : /\ Converts(d, a)' <=> Converts(d, a)
                            /\ Converts(d, a) => call'[d].order = call[d].order
<1>1. \A d \in Calls : d # c => call'[d] = call[d]
    BY RequestsKeepHolds
<1>2. AffiliateTypeOK /\ HoldsOK(c)
    BY DEF AffiliateInv, HoldsInv
<1>3. CASE InsertPayout(c)
    <2> DEFINE p == Len(affiliate_payouts')
    <2>1. call'[c] = [call[c] EXCEPT !.pc = "balance", !.payout = p]
        BY <1>2, <1>3, CallMoves DEF InsertPayout
    <2>2. call[c] \in CallStates
        BY <1>2 DEF AffiliateTypeOK
    <2> HIDE DEF p
    <2>3. GoesOn(c) \/ /\ call'[c].attribution = call[c].attribution
                       /\ call'[c].affiliate = call[c].affiliate
                       /\ call'[c].order = call[c].order
        BY <2>1, <2>2 DEF CallStates
    <2>. QED
        BY <1>1, <2>3 DEF Converts, GoesOn
<1>4. CASE Begins(c) \/ GoesOn(c) \/ TakesOrder(c)
    BY <1>1, <1>4 DEF Begins, GoesOn, TakesOrder, Converts, Idle
<1>5. CASE Ends(c)
    <2>1. ~Converts(c, a)
        BY <1>2, <1>5 DEF Ends, HoldsOK, Converts
    <2>. QED
        BY <1>1, <1>5, <2>1 DEF Ends, Converts, Idle
<1>. QED
    BY <1>3, <1>4, <1>5, MoveKinds

(* An attribution that stays as it was, with what earned on it. *)
LEMMA AttributionUnmoved ==
    ASSUME NEW a, AttributionOK(a),
           attributions'[a].status = attributions[a].status,
           \A i \in Items : commissions'[i] = a <=> commissions[i] = a,
           \A d \in Calls : /\ Converts(d, a)' <=> Converts(d, a)
                            /\ Converts(d, a) => call'[d].order = call[d].order
    PROVE  AttributionOK(a)'
<1>1. EarnedOn(a)' = EarnedOn(a)
    BY DEF EarnedOn
<1>2. Converting(a)' <=> Converting(a)
    BY DEF Converting, Converts
<1>. QED
    BY <1>1, <1>2 DEF AttributionOK

(* An attribution nobody contests serves one order. *)
LEMMA AttributionsStay ==
    ASSUME AffiliateInv, NEW c \in Calls, Request(c)
    PROVE  AttributionInv'
<1> SUFFICES ASSUME NEW a \in (DOMAIN attributions \ contested)'
             PROVE  AttributionOK(a)'
    BY DEF AttributionInv
<1> USE DEF clickVars, earningVars
<1>1. /\ AffiliateTypeOK
      /\ HoldsInv
      /\ RowsStay
      /\ contested \subseteq DOMAIN attributions
      /\ \A d \in Calls : d # c => call'[d] = call[d]
      /\ \A d \in Calls : call[d] \in CallStates
    BY RequestsKeepRows, RequestsKeepHolds DEF AffiliateInv, AffiliateTypeOK
<1>2. a # NULL
    <2>1. AffiliateTypeOK'
        BY RequestsKeepTypes
    <2>. QED
        BY <2>1, AffiliateAssumption DEF AffiliateTypeOK
<1>3. CASE a \notin DOMAIN attributions
    <2>1. \E f \in Affiliates, u \in Customers \union {NULL} : RecordClick(c, f, u)
        BY <1>1, <1>3
           DEF Request, EnrollAffiliate, RequestPayout, FindClick, ConfirmOrder,
               InsertCommission, InsertReferralCode, AttachCustomer, ReadAttribution,
               MarkConverted, Convert, InsertPayout, ReadBalance, WriteLedger, AffiliateCrash,
               AffiliateTypeOK
    <2>2. \A i \in Items : commissions'[i] # a
        BY <1>1, <1>2, <1>3, <2>1 DEF RecordClick, AffiliateTypeOK
    <2>3. \A d \in Calls : ~Converts(d, a)
        BY <1>1, <1>2, <1>3 DEF HoldsInv, HoldsOK, Converts
    <2>4. ~ReadAttribution(c) /\ ~MarkConverted(c)
        BY <2>1 DEF RecordClick, ReadAttribution, MarkConverted, At
    <2>5. \A d \in Calls : ~Converts(d, a)'
        BY <1>2, <2>3, <2>4, ConvertersStay
    <2>. QED
        BY <2>2, <2>5 DEF AttributionOK, EarnedOn
<1>4. CASE a \in DOMAIN attributions
    <2>1. a \notin contested /\ AttributionOK(a)
        BY <1>1, <1>4 DEF RowsStay, AffiliateInv, AttributionInv
    <2>2. CASE ReadAttribution(c)
        <3> DEFINE b == call[c].attribution
                   f == attributions[b].affiliate
        <3>1. /\ UNCHANGED <<attributions, commissions>>
              /\ call[c].affiliate = NULL
              /\ call[c].attribution # NULL
              /\ b \in DOMAIN attributions
            BY <1>1, <2>2 DEF ReadAttribution, HoldsInv, HoldsOK, At
        <3>0. f # NULL
            BY <3>1, AttributionRooms, AffiliateAssumption DEF AttributionRows
        <3>2. CASE attributions[b].status = "pending"
            <4>1. call'[c] = [call[c] EXCEPT !.pc = "commission", !.affiliate = f,
                                             !.todo = ItemsOf(call[c].order)]
                BY <1>1, <2>2, <3>2, CallMoves DEF ReadAttribution
            <4>2. Converting(b) => b \in contested'
                BY <2>2, <3>2 DEF ReadAttribution
            <4> HIDE DEF f
            <4>3. /\ call'[c].affiliate = f
                  /\ call'[c].attribution = b
                  /\ call'[c].order = call[c].order
                BY <1>1, <4>1 DEF CallStates
            <4>4. CASE a = b
                <5>1. ~Converting(a) /\ attributions[a].status = "pending"
                    BY <3>2, <4>2, <4>4
                <5>2. \A d \in Calls : ~Converts(d, a)
                    BY <5>1 DEF Converting, Converts
                <5>3. \A d \in Calls : Converts(d, a)' => d = c
                    BY <1>1, <5>2 DEF Converts
                <5>4. EarnedOn(a) = {}
                    BY <2>1, <5>1 DEF AttributionOK
                <5>5. EarnedOn(a)' = {} /\ attributions'[a].status = "pending"
                    BY <3>1, <5>1, <5>4 DEF EarnedOn
                <5>. QED
                    BY <5>3, <5>5 DEF AttributionOK
            <4>5. CASE a # b
                <5>1. \A d \in Calls : /\ Converts(d, a)' <=> Converts(d, a)
                                       /\ Converts(d, a) => call'[d].order = call[d].order
                    BY <1>1, <4>3, <4>5 DEF Converts
                <5>. QED
                    BY <2>1, <3>1, <5>1, AttributionUnmoved
            <4>. QED
                BY <4>4, <4>5
        <3>3. CASE attributions[b].status # "pending"
            <4>1. call'[c] = Idle
                BY <1>1, <2>2, <3>3, CallMoves DEF ReadAttribution, Return
            <4>2. \A d \in Calls : /\ Converts(d, a)' <=> Converts(d, a)
                                   /\ Converts(d, a) => call'[d].order = call[d].order
                BY <1>1, <3>1, <4>1 DEF Converts, Idle
            <4>. QED
                BY <2>1, <3>1, <4>2, AttributionUnmoved
        <3>. QED
            BY <3>2, <3>3
    <2>3. CASE MarkConverted(c)
        <3> DEFINE b == call[c].attribution
        <3>1. /\ UNCHANGED commissions
              /\ call'[c] = Idle
              /\ Converts(c, b)
              /\ b \in DOMAIN attributions
              /\ attributions' = [attributions EXCEPT ![b].status = "converted"]
            BY <1>1, <2>3, CallMoves
               DEF MarkConverted, Convert, Return, HoldsInv, HoldsOK, At, Converts
        <3>2. ~Converts(c, a)'
            BY <1>2, <3>1 DEF Converts, Idle
        <3>3. CASE a = b
            <4>1. \A d \in Calls : ~Converts(d, a)'
                BY <1>1, <2>1, <3>1, <3>2, <3>3 DEF AttributionOK, Converts
            <4>2. attributions'[a].status = "converted"
                BY <1>4, <3>1, <3>3, AttributionRooms DEF AttributionRows
            <4>. QED
                BY <2>1, <3>1, <4>1, <4>2 DEF AttributionOK, EarnedOn
        <3>4. CASE a # b
            <4>1. attributions'[a] = attributions[a]
                BY <1>4, <3>1, <3>4
            <4>2. \A d \in Calls : /\ Converts(d, a)' <=> Converts(d, a)
                                   /\ Converts(d, a) => call'[d].order = call[d].order
                BY <1>1, <3>2, <3>4 DEF Converts
            <4>. QED
                BY <2>1, <3>1, <4>1, <4>2, AttributionUnmoved
        <3>. QED
            BY <3>3, <3>4
    <2>4. CASE ~ReadAttribution(c) /\ ~MarkConverted(c)
        <3>1. \A d \in Calls : /\ Converts(d, a)' <=> Converts(d, a)
                               /\ Converts(d, a) => call'[d].order = call[d].order
            BY <1>2, <2>4, ConvertersStay
        <3>2. attributions'[a].status = attributions[a].status
            <4>1. CASE UNCHANGED attributions
                BY <4>1
            <4>2. CASE \E f \in Affiliates, u \in Customers \union {NULL} : RecordClick(c, f, u)
                BY <1>1, <1>4, <4>2 DEF RecordClick, AffiliateTypeOK
            <4>3. CASE AttachCustomer(c)
                <5>1. attributions' = [attributions EXCEPT ![call[c].attribution] =
                         [attributions[call[c].attribution] EXCEPT !.customer = call[c].customer]]
                    BY <4>3 DEF AttachCustomer
                <5>. QED
                    BY <1>4, <5>1, AttributionRooms DEF AttributionRows
            <4>. QED
                BY <2>4, <4>1, <4>2, <4>3
                   DEF Request, EnrollAffiliate, RequestPayout, FindClick, ConfirmOrder,
                       InsertCommission, InsertReferralCode, InsertPayout,
                       ReadBalance, WriteLedger, AffiliateCrash
        <3>3. CASE UNCHANGED commissions
            BY <2>1, <3>1, <3>2, <3>3, AttributionUnmoved
        <3>4. CASE \E i \in Items : InsertCommission(c, i)
            <4>1. PICK i \in Items : InsertCommission(c, i)
                BY <3>4
            <4>2. CASE commissions' = commissions
                BY <2>1, <3>1, <3>2, <4>2, AttributionUnmoved
            <4>3. CASE /\ commissions[i] = NULL
                       /\ commissions' = [commissions EXCEPT ![i] = call[c].attribution]
                <5> DEFINE b == call[c].attribution
                <5>1. \A j \in Items : commissions'[j] = IF j = i THEN b ELSE commissions[j]
                    BY <1>1, <4>3 DEF AffiliateTypeOK
                <5>2. CASE a # b
                    <6>1. \A j \in Items : commissions'[j] = a <=> commissions[j] = a
                        BY <1>2, <4>3, <5>1, <5>2
                    <6>. QED
                        BY <2>1, <3>1, <3>2, <6>1, AttributionUnmoved
                <5>3. CASE a = b
                    <6>1. Converts(c, a) /\ i \in call[c].todo
                        BY <1>1, <4>1, <5>3 DEF InsertCommission, At, HoldsInv, HoldsOK, Converts
                    <6>2. order_of[i] = call[c].order
                        BY <1>1, <6>1 DEF HoldsInv, HoldsOK, ItemsOf
                    <6>3. EarnedOn(a)' = EarnedOn(a) \union {i}
                        BY <5>1, <5>3 DEF EarnedOn
                    <6>4. Converting(a) /\ Converting(a)'
                        BY <3>1, <6>1 DEF Converting, Converts
                    <6>5. /\ \A d, e \in Calls : Converts(d, a) /\ Converts(e, a) => d = e
                          /\ \A d \in Calls : Converts(d, a) => attributions[a].status = "pending"
                          /\ \A j \in EarnedOn(a) : order_of[j] = call[c].order
                        BY <2>1, <6>1 DEF AttributionOK
                    <6>6. \A j \in EarnedOn(a)' : order_of[j] = call[c].order
                        BY <6>2, <6>3, <6>5
                    <6>. QED
                        BY <3>1, <3>2, <6>1, <6>4, <6>5, <6>6 DEF AttributionOK
                <5>. QED
                    BY <5>2, <5>3
            <4>. QED
                BY <4>1, <4>2, <4>3 DEF InsertCommission, IsEarned
        <3>. QED
            BY <2>4, <3>3, <3>4
               DEF Request, EnrollAffiliate, RequestPayout, RecordClick, FindClick, ConfirmOrder,
                   InsertReferralCode, AttachCustomer, InsertPayout,
                   ReadBalance, WriteLedger, AffiliateCrash
    <2>. QED
        BY <2>2, <2>3, <2>4
<1>. QED
    BY <1>3, <1>4

-----------------------------------------------------------------------------
(* Earnings. *)

(* Without a new commission nobody earns more. *)
LEMMA EarnedUnmoved ==
    ASSUME AffiliateInv, RowsStay, UNCHANGED commissions, NEW f, NEW o
    PROVE  Earned(f, o)' = Earned(f, o)
<1>1. \A i \in Items : commissions[i] # NULL => commissions[i] \in DOMAIN attributions
    BY DEF AffiliateInv, AffiliateTypeOK
<1>2. \A i \in ItemsOf(o) : i \in Items
    BY DEF ItemsOf
<1>3. EarningItems(f, o)' = EarningItems(f, o)
    BY <1>1, <1>2 DEF EarningItems, RowsStay
<1>. QED
    BY <1>3 DEF Earned

(* A commission is earned by the affiliate whose link it was, on the order *)
(* of its item.                                                            *)
LEMMA CommissionCounts ==
    ASSUME AffiliateInv, NEW c \in Calls, NEW i \in Items, InsertCommission(c, i), IsEarned(i),
           NEW f, NEW o
    PROVE  Earned(f, o)' = Earned(f, o) +
              (IF order_of[i] = o /\ call[c].affiliate = f
               THEN CalculateCommission(line_total[i]) ELSE 0)
<1> DEFINE a == call[c].attribution
<1>1. /\ a # NULL /\ attributions[a].affiliate = call[c].affiliate
      /\ commissions[i] = NULL
      /\ commissions' = [commissions EXCEPT ![i] = a]
      /\ UNCHANGED attributions
      /\ commissions \in [Items -> (DOMAIN attributions) \union {NULL}]
    BY DEF InsertCommission, IsEarned, At, AffiliateInv, HoldsInv, HoldsOK, AffiliateTypeOK,
           clickVars
<1> HIDE DEF a
<1>2. /\ i \notin EarningItems(f, o)
      /\ EarningItems(f, o)' = IF order_of[i] = o /\ call[c].affiliate = f
                               THEN EarningItems(f, o) \union {i} ELSE EarningItems(f, o)
    <2>1. \A j \in Items : commissions'[j] = IF j = i THEN a ELSE commissions[j]
        BY <1>1
    <2>2. \A j : j \in EarningItems(f, o)' <=>
              /\ j \in Items /\ order_of[j] = o
              /\ commissions'[j] # NULL
              /\ attributions[commissions'[j]].affiliate = f
        BY <1>1 DEF EarningItems, ItemsOf
    <2>3. \A j : j \in EarningItems(f, o) <=>
              /\ j \in Items /\ order_of[j] = o
              /\ commissions[j] # NULL
              /\ attributions[commissions[j]].affiliate = f
        BY DEF EarningItems, ItemsOf
    <2> HIDE DEF EarningItems
    <2>. QED
        BY <1>1, <2>1, <2>2, <2>3
<1>3. /\ IsFiniteSet(EarningItems(f, o))
      /\ \A j \in EarningItems(f, o) \union {i} : CommissionOf[j] \in Int
      /\ CommissionOf[i] = CalculateCommission(line_total[i])
    BY CommissionsAreNumbers DEF CommissionOf
<1>4. /\ SumOver(CommissionOf, EarningItems(f, o) \union {i}) =
            SumOver(CommissionOf, EarningItems(f, o)) + CommissionOf[i]
      /\ SumOver(CommissionOf, EarningItems(f, o)) \in Int
    <2> HIDE DEF CommissionOf, EarningItems
    <2>. QED
        BY <1>2, <1>3, SumOverAdd, SumOverInt
<1>. QED
    BY <1>2, <1>3, <1>4 DEF Earned

(* What is credited to an affiliate on an order is a number, ... *)
LEMMA CreditedIsNumber ==
    ASSUME AffiliateInv, NEW f \in Affiliates, NEW type, NEW ref
    PROVE  Total(f, RowsFor(f, type, ref)) \in Int /\ Total(f, RowsOf(f, type)) \in Int
<1>1. affiliate_ledger[f] \in Seq(AffiliateLedgerRows)
    BY DEF AffiliateInv, AffiliateTypeOK
<1>2. ASSUME NEW S \in SUBSET DOMAIN affiliate_ledger[f] PROVE Total(f, S) \in Int
    <2>1. IsFiniteSet(S)
        <3>1. /\ DOMAIN affiliate_ledger[f] = 1 .. Len(affiliate_ledger[f])
              /\ IsFiniteSet(1 .. Len(affiliate_ledger[f]))
            BY <1>1, FS_Interval
        <3>. QED
            BY <1>2, <3>1, FS_Subset
    <2>2. \A n \in S : Amounts(f)[n] \in Int
        <3>1. \A n \in S : affiliate_ledger[f][n] \in AffiliateLedgerRows
            BY <1>1, <1>2
        <3>2. \A n \in S : affiliate_ledger[f][n].amount \in Int
            BY <3>1 DEF AffiliateLedgerRows
        <3>. QED
            BY <1>2, <3>2 DEF Amounts
    <2>. QED
        BY <2>1, <2>2, SumOverInt DEF Total
<1>3. /\ RowsFor(f, type, ref) \in SUBSET DOMAIN affiliate_ledger[f]
      /\ RowsOf(f, type) \in SUBSET DOMAIN affiliate_ledger[f]
    BY DEF RowsFor, RowsOf
<1>. QED
    BY <1>2, <1>3

(* ... and what is earned on it. *)
LEMMA EarnedIsNumber ==
    ASSUME NEW f, NEW o
    PROVE  Earned(f, o) \in Int
<1>1. /\ IsFiniteSet(EarningItems(f, o))
      /\ \A i \in EarningItems(f, o) : CommissionOf[i] \in Int
    BY CommissionsAreNumbers
<1>. QED
    BY <1>1, SumOverInt DEF Earned

(* One action writes to a ledger. *)
LEMMA OnlyWriter ==
    ASSUME NEW c \in Calls, Request(c)
    PROVE  UNCHANGED affiliate_ledger \/ WriteLedger(c)
BY DEF Request, EnrollAffiliate, RequestPayout, RecordClick, FindClick, ConfirmOrder,
       InsertCommission, InsertReferralCode, AttachCustomer, ReadAttribution,
       MarkConverted, InsertPayout, ReadBalance, WriteLedger, AffiliateCrash, ledgerVars

(* A write counts for the affiliate and the order or payout of its call.   *)
LEMMA WriteCounts ==
    ASSUME AffiliateInv, NEW c \in Calls, WriteLedger(c), NEW f \in Affiliates, NEW type, NEW ref
    PROVE  /\ Total(f, RowsOf(f, type))' = Total(f, RowsOf(f, type)) +
                 (IF f = call[c].affiliate /\ type = NewRow(c).entry_type
                  THEN call[c].amount ELSE 0)
           /\ Total(f, RowsFor(f, type, ref))' = Total(f, RowsFor(f, type, ref)) +
                 (IF /\ f = call[c].affiliate /\ type = NewRow(c).entry_type
                     /\ ref = NewRow(c).reference
                  THEN call[c].amount ELSE 0)
<1> DEFINE g == call[c].affiliate
<1>1. /\ g \in Affiliates
      /\ NewRow(c) \in AffiliateLedgerRows
      /\ NewRow(c).amount = call[c].amount
      /\ Writes(g, NewRow(c))
      /\ AffiliateTypeOK
    BY WriterIsReady DEF WriteLedger, Writes, NewRow, AffiliateInv
<1>2. CASE f = g
    BY <1>1, <1>2, TotalsAfterWrite
<1>3. CASE f # g
    <2>1. affiliate_ledger'[f] = affiliate_ledger[f]
        BY <1>1, <1>3 DEF Writes, AffiliateTypeOK
    <2>2. /\ Total(f, RowsOf(f, type)) \in Int
          /\ Total(f, RowsFor(f, type, ref)) \in Int
        BY CreditedIsNumber
    <2>3. /\ Total(f, RowsOf(f, type))' = Total(f, RowsOf(f, type))
          /\ Total(f, RowsFor(f, type, ref))' = Total(f, RowsFor(f, type, ref))
        BY <2>1, TotalsUnwritten
    <2>. QED
        BY <1>3, <2>2, <2>3
<1>. QED
    BY <1>2, <1>3

(* An order no call moved for. *)
LEMMA CreditElsewhere ==
    ASSUME NEW f, NEW o, CreditOK(f, o),
           Credited(f, o)' = Credited(f, o), Earned(f, o)' = Earned(f, o),
           \A d \in Calls : call[d].order = o \/ call'[d].order = o => call'[d] = call[d]
    PROVE  CreditOK(f, o)'
<1>1. \A d \in Calls : call[d].order = o <=> call'[d].order = o
    OBVIOUS
<1>. QED
    BY <1>1 DEF CreditOK

(* An order only the call that moved is at, if any. *)
LEMMA CreditAlone ==
    ASSUME NEW f, NEW o, NEW c \in Calls,
           \A d \in Calls : d # c => call'[d].order # o,
           LET s == call'[c]
               credited == Credited(f, o)'
               earned == Earned(f, o)' IN
           /\ s.order # o \/ s.pc \in {"attribution", "commission"} => credited = earned
           /\ s.order = o =>
                 /\ s.pc \in {"balance", "write"} =>
                       earned = credited + (IF s.affiliate = f THEN s.amount ELSE 0)
                 /\ credited <= earned
    PROVE  CreditOK(f, o)'
BY DEF CreditOK

(* What an order earned is credited but for what its call still owes. *)
LEMMA CreditsStay ==
    ASSUME AffiliateInv, NEW c \in Calls, Request(c)
    PROVE  CreditInv'
<1> SUFFICES ASSUME NEW f \in Affiliates, NEW o \in Orders
             PROVE  CreditOK(f, o)'
    BY DEF CreditInv
<1> DEFINE credited == Credited(f, o)
           earned == Earned(f, o)
<1>1. /\ AffiliateTypeOK
      /\ HoldsInv /\ HoldsOK(c)
      /\ RowsStay
      /\ \A d \in Calls : d # c => call'[d] = call[d]
      /\ \A d \in Calls : call[d] \in CallStates
      /\ o # NULL
      /\ CreditOK(f, o)
      /\ SoleInv
    BY RequestsKeepRows, RequestsKeepHolds, AffiliateAssumption
       DEF AffiliateInv, AffiliateTypeOK, HoldsInv, CreditInv
<1>2. credited \in Int /\ earned \in Int /\ call[c].amount \in Nat
    BY <1>1, CreditedIsNumber, EarnedIsNumber, CallTypes DEF Credited
<1>3. UNCHANGED affiliate_ledger => Credited(f, o)' = credited
    BY TotalsUnwritten DEF Credited
<1>4. UNCHANGED commissions => Earned(f, o)' = earned
    BY <1>1, EarnedUnmoved
<1>5. WriteLedger(c) => Credited(f, o)' = credited +
          (IF f = call[c].affiliate /\ ~IsDebit(c) /\ o = call[c].order THEN call[c].amount ELSE 0)
    BY WriteCounts DEF Credited, NewRow
<1>6. \A i \in Items : InsertCommission(c, i) /\ IsEarned(i) =>
          Earned(f, o)' = earned + (IF o = call[c].order /\ call[c].affiliate = f
                                    THEN CalculateCommission(line_total[i]) ELSE 0)
    <2>1. \A i \in Items : InsertCommission(c, i) => order_of[i] = call[c].order
        BY <1>1 DEF InsertCommission, HoldsOK, ItemsOf
    <2>. QED
        BY <2>1, CommissionCounts
<1>7. /\ UNCHANGED affiliate_ledger \/ WriteLedger(c)
      /\ UNCHANGED commissions \/ \E i \in Items : InsertCommission(c, i) /\ IsEarned(i)
    BY DEF Request, EnrollAffiliate, RequestPayout, RecordClick, FindClick, ConfirmOrder,
           InsertCommission, InsertReferralCode, AttachCustomer, ReadAttribution,
           MarkConverted, InsertPayout, ReadBalance, WriteLedger, AffiliateCrash,
           ledgerVars, earningVars
<1>8. CASE call[c].order # o
    <2>1. WriteLedger(c) /\ ~IsDebit(c) => call[c].order # NULL
        BY <1>1 DEF WriteLedger, At, HoldsOK, IsDebit
    <2>2. Credited(f, o)' = credited /\ Earned(f, o)' = earned
        BY <1>2, <1>3, <1>4, <1>5, <1>6, <1>7, <1>8
    <2>3. CASE call'[c].order # o
        BY <1>1, <1>8, <2>2, <2>3, CreditElsewhere
    <2>4. CASE call'[c].order = o
        <3>1. TakesOrder(c)
            <4>1. CASE ReadAttribution(c)
                <5> DEFINE g == attributions[call[c].attribution].affiliate
                           s == ItemsOf(call[c].order)
                <5>1. \/ call'[c] = [call[c] EXCEPT !.pc = "commission", !.affiliate = g, !.todo = s]
                      \/ call'[c] = Idle
                    BY <1>1, <4>1, CallMoves DEF ReadAttribution, Return
                <5> HIDE DEF g, s
                <5>2. CASE call'[c] = [call[c] EXCEPT !.pc = "commission", !.affiliate = g, !.todo = s]
                    <6>1. call'[c].order = call[c].order
                        BY <1>1, <5>2 DEF CallStates
                    <6>. QED
                        BY <1>8, <2>4, <6>1
                <5>3. CASE call'[c] = Idle
                    BY <1>1, <2>4, <5>3 DEF Idle
                <5>. QED
                    BY <5>1, <5>2, <5>3
            <4>2. CASE MarkConverted(c)
                BY <1>1, <2>4, <4>2, CallMoves DEF MarkConverted, Return, Idle
            <4>3. CASE InsertPayout(c)
                <5> DEFINE p == Len(affiliate_payouts')
                <5>1. call'[c] = [call[c] EXCEPT !.pc = "balance", !.payout = p]
                    BY <1>1, <4>3, CallMoves DEF InsertPayout
                <5> HIDE DEF p
                <5>2. call'[c].order = call[c].order
                    BY <1>1, <5>1 DEF CallStates
                <5>. QED
                    BY <1>8, <2>4, <5>2
            <4>. QED
                BY <1>1, <1>8, <2>4, <4>1, <4>2, <4>3, MoveKinds DEF Begins, GoesOn, Ends, Idle
        <3>2. \A d \in Calls : call[d].order # o
            BY <1>1, <2>4, <3>1 DEF TakesOrder, HoldsInv, HoldsOK
        <3>3. Credited(f, o)' = Earned(f, o)'
            BY <1>1, <2>2, <3>2 DEF CreditOK
        <3>4. \A d \in Calls : d # c => call'[d].order # o
            BY <1>1, <3>2
        <3>5. Credited(f, o)' <= Earned(f, o)'
            BY <1>2, <2>2, <3>3
        <3>. QED
            BY <2>4, <3>1, <3>3, <3>4, <3>5, CreditAlone DEF TakesOrder
    <2>. QED
        BY <2>3, <2>4
<1>9. CASE call[c].order = o
    <2>1. \A d \in Calls : d # c => call'[d].order # o
        BY <1>1, <1>9 DEF SoleInv
    <2>2. /\ call[c].pc \in {"attribution", "commission"} => credited = earned
          /\ call[c].pc \in {"balance", "write"} =>
                earned = credited + (IF call[c].affiliate = f THEN call[c].amount ELSE 0)
          /\ credited <= earned
        BY <1>1, <1>9 DEF CreditOK
    <2>3. call[c].pc \in {"attribution", "commission", "balance", "write", "dead"}
          /\ call[c].payout = NULL
        BY <1>1, <1>9, CallTypes DEF HoldsOK, AffiliateLocations, Idle
    <2>4. CASE ReadAttribution(c)
        <3> DEFINE g == attributions[call[c].attribution].affiliate
                   s == ItemsOf(call[c].order)
        <3>1. \/ call'[c] = [call[c] EXCEPT !.pc = "commission", !.affiliate = g, !.todo = s]
              \/ call'[c] = Idle
            BY <1>1, <2>4, CallMoves DEF ReadAttribution, Return
        <3>2. Credited(f, o)' = Earned(f, o)'
            BY <1>3, <1>4, <2>2, <2>4
               DEF ReadAttribution, At, ledgerVars
        <3> HIDE DEF g, s
        <3>3. call'[c].order # o \/ call'[c].pc = "commission"
            <4>1. CASE call'[c] = [call[c] EXCEPT !.pc = "commission", !.affiliate = g, !.todo = s]
                BY <1>1, <4>1 DEF CallStates
            <4>2. CASE call'[c] = Idle
                BY <1>1, <4>2 DEF Idle
            <4>. QED
                BY <3>1, <4>1, <4>2
        <3>4. Credited(f, o)' <= Earned(f, o)'
            BY <1>2, <1>3, <2>4, <3>2 DEF ReadAttribution, ledgerVars
        <3>. QED
            BY <2>1, <3>2, <3>3, <3>4, CreditAlone
    <2>5. CASE MarkConverted(c)
        <3>1. call'[c] = Idle
            BY <1>1, <2>5, CallMoves DEF MarkConverted, Return
        <3>2. Credited(f, o)' = Earned(f, o)'
            BY <1>3, <1>4, <2>2, <2>5 DEF MarkConverted, At, ledgerVars, earningVars
        <3>3. call'[c].order # o
            BY <1>1, <3>1 DEF Idle
        <3>. QED
            BY <2>1, <3>2, <3>3, CreditAlone
    <2>6. CASE \E i \in Items : InsertCommission(c, i)
        <3>1. PICK i \in Items : InsertCommission(c, i)
            BY <2>6
        <3> DEFINE m == CalculateCommission(line_total[i])
        <3>2. /\ call[c].pc = "commission"
              /\ Credited(f, o)' = credited
              /\ credited = earned
            BY <1>3, <2>2, <3>1 DEF InsertCommission, At, ledgerVars
        <3>3. CASE IsEarned(i)
            <4>1. call'[c] = [call[c] EXCEPT !.pc = "balance", !.todo = @ \ {i}, !.amount = m]
                BY <1>1, <3>1, <3>3, CallMoves DEF InsertCommission
            <4>2. m \in Nat
                BY CommissionsAreNumbers DEF CommissionOf
            <4>3. Earned(f, o)' = earned + (IF call[c].affiliate = f THEN m ELSE 0)
                BY <1>6, <1>9, <3>1, <3>3
            <4> HIDE DEF m
            <4>4. /\ call'[c].pc = "balance"
                  /\ call'[c].amount = m
                  /\ call'[c].affiliate = call[c].affiliate
                  /\ call'[c].order = o
                BY <1>1, <1>9, <4>1 DEF CallStates
            <4>5. /\ Earned(f, o)' = Credited(f, o)' +
                        (IF call'[c].affiliate = f THEN call'[c].amount ELSE 0)
                  /\ Credited(f, o)' <= Earned(f, o)'
                BY <1>2, <3>2, <4>2, <4>3, <4>4
            <4>. QED
                BY <2>1, <4>4, <4>5, CreditAlone
        <3>4. CASE ~IsEarned(i)
            <4>1. call'[c] = [call[c] EXCEPT !.todo = @ \ {i}]
                BY <1>1, <3>1, <3>4, CallMoves DEF InsertCommission
            <4>2. call'[c].pc = "commission" /\ call'[c].order = o
                BY <1>1, <1>9, <3>2, <4>1 DEF CallStates
            <4>3. Earned(f, o)' = earned
                BY <1>4, <3>1, <3>4 DEF InsertCommission
            <4>4. Credited(f, o)' = Earned(f, o)' /\ Credited(f, o)' <= Earned(f, o)'
                BY <1>2, <3>2, <4>3
            <4>. QED
                BY <2>1, <4>2, <4>4, CreditAlone
        <3>. QED
            BY <3>3, <3>4
    <2>7. CASE ReadBalance(c)
        <3> DEFINE n == Balance(call[c].affiliate)
        <3>1. call'[c] = [call[c] EXCEPT !.pc = "write", !.current = n]
            BY <1>1, <2>3, <2>7, CallMoves DEF ReadBalance, CanDebit, IsDebit
        <3> HIDE DEF n
        <3>2. /\ call'[c].pc = "write"
              /\ call'[c].amount = call[c].amount
              /\ call'[c].affiliate = call[c].affiliate
              /\ call'[c].order = o
              /\ call[c].pc = "balance"
            BY <1>1, <1>9, <2>7, <3>1 DEF CallStates, ReadBalance, At
        <3>3. Credited(f, o)' = credited /\ Earned(f, o)' = earned
            BY <1>3, <1>4, <2>7 DEF ReadBalance, earningVars
        <3>4. /\ Earned(f, o)' = Credited(f, o)' +
                    (IF call'[c].affiliate = f THEN call'[c].amount ELSE 0)
              /\ Credited(f, o)' <= Earned(f, o)'
            BY <2>2, <3>2, <3>3
        <3>. QED
            BY <2>1, <3>2, <3>4, CreditAlone
    <2>8. CASE WriteLedger(c)
        <3>1. ~IsDebit(c) /\ call[c].pc = "write"
            BY <2>3, <2>8 DEF IsDebit, WriteLedger, At
        <3>2. call'[c] = [call[c] EXCEPT !.pc = "commission"]
            BY <1>1, <2>8, <3>1, CallMoves DEF WriteLedger
        <3>3. call'[c].pc = "commission" /\ call'[c].order = o
            BY <1>1, <1>9, <3>2 DEF CallStates
        <3>4. Credited(f, o)' = credited + (IF f = call[c].affiliate THEN call[c].amount ELSE 0)
            BY <1>5, <1>9, <2>8, <3>1
        <3>5. Earned(f, o)' = earned
            BY <1>4, <2>8 DEF WriteLedger, earningVars
        <3>6. Credited(f, o)' = Earned(f, o)' /\ Credited(f, o)' <= Earned(f, o)'
            BY <1>2, <2>2, <3>1, <3>4, <3>5
        <3>. QED
            BY <2>1, <3>3, <3>6, CreditAlone
    <2>9. CASE AffiliateCrash(c)
        <3>1. call'[c] = [call[c] EXCEPT !.pc = "dead"]
            BY <1>1, <2>9, CallMoves DEF AffiliateCrash
        <3>2. call'[c].pc = "dead" /\ call'[c].order = o
            BY <1>1, <1>9, <3>1 DEF CallStates
        <3>3. Credited(f, o)' = credited /\ Earned(f, o)' = earned
            BY <1>3, <1>4, <2>9 DEF AffiliateCrash, earningVars, ledgerVars
        <3>. QED
            BY <2>1, <2>2, <3>2, <3>3, CreditAlone
    <2>. QED
        BY <2>3, <2>4, <2>5, <2>6, <2>7, <2>8, <2>9
           DEF Request, EnrollAffiliate, RequestPayout, RecordClick, FindClick, ConfirmOrder,
               InsertReferralCode, AttachCustomer, InsertPayout, At
<1>. QED
    BY <1>8, <1>9

-----------------------------------------------------------------------------
(* Payouts. *)

(* The debits of a payout nobody debits now. *)
LEMMA DebitsUnmoved ==
    ASSUME AffiliateInv, NEW c \in Calls, Request(c), NEW f \in Affiliates,
           NEW p, p # NULL, ~(WriteLedger(c) /\ call[c].payout = p)
    PROVE  /\ RowsFor(f, "debit", p)' = RowsFor(f, "debit", p)
           /\ \A n \in RowsFor(f, "debit", p) : affiliate_ledger'[f][n] = affiliate_ledger[f][n]
<1>1. CASE affiliate_ledger'[f] = affiliate_ledger[f]
    BY <1>1, TotalsUnwritten
<1>2. CASE WriteLedger(c) /\ f = call[c].affiliate
    <2>1. /\ AffiliateTypeOK
          /\ At(c, "write")
          /\ NewRow(c) \in AffiliateLedgerRows
          /\ Writes(f, NewRow(c))
        BY <1>2, WriterIsReady DEF AffiliateInv, WriteLedger, Writes
    <2>2. ~(NewRow(c).entry_type = "debit" /\ NewRow(c).reference = p)
        BY <1>2 DEF NewRow, IsDebit
    <2>3. RowsFor(f, "debit", p) \subseteq DOMAIN affiliate_ledger[f]
        BY DEF RowsFor, RowsOf
    <2>. QED
        BY <2>1, <2>2, <2>3, RowsAfterWrite, ReferencesAfterWrite
<1>3. AffiliateTypeOK
    BY DEF AffiliateInv
<1>4. UNCHANGED affiliate_ledger \/ WriteLedger(c)
    BY OnlyWriter
<1>5. CASE WriteLedger(c) /\ f # call[c].affiliate
    <2>1. affiliate_ledger'[f] = affiliate_ledger[f]
        BY <1>3, <1>5 DEF WriteLedger, AffiliateTypeOK
    <2>. QED
        BY <1>1, <2>1
<1>. QED
    BY <1>1, <1>2, <1>4, <1>5

(* A call lets go of its payout when it has debited it, or when it found   *)
(* the balance spent.                                                      *)
LEMMA PayoutsAreKept ==
    ASSUME AffiliateInv, NEW c \in Calls, Request(c), ~WriteLedger(c), call[c].payout # NULL
    PROVE  call'[c].payout = call[c].payout \/ call[c].affiliate \in overtaken'
<1>1. /\ AffiliateTypeOK
      /\ call[c] \in CallStates
      /\ call[c].pc \in {"balance", "write", "dead"}
    BY DEF AffiliateInv, AffiliateTypeOK, HoldsInv, HoldsOK
<1>2. CASE ReadBalance(c)
    <2> DEFINE n == Balance(call[c].affiliate)
    <2>1. CASE CanDebit(c)
        <3>1. call'[c] = [call[c] EXCEPT !.pc = "write", !.current = n]
            BY <1>1, <1>2, <2>1, CallMoves DEF ReadBalance
        <3> HIDE DEF n
        <3>. QED
            BY <1>1, <3>1 DEF CallStates
    <2>2. CASE ~CanDebit(c)
        BY <1>2, <2>2 DEF ReadBalance
    <2>. QED
        BY <2>1, <2>2
<1>3. CASE AffiliateCrash(c)
    <2>1. call'[c] = [call[c] EXCEPT !.pc = "dead"]
        BY <1>1, <1>3, CallMoves DEF AffiliateCrash
    <2>. QED
        BY <1>1, <2>1 DEF CallStates
<1>. QED
    BY <1>1, <1>2, <1>3
       DEF Request, EnrollAffiliate, RequestPayout, RecordClick, FindClick, ConfirmOrder,
           InsertCommission, MarkConverted, ReadAttribution,
           InsertReferralCode, AttachCustomer, InsertPayout, At

(* A payout that was requested before. *)
LEMMA OldPayoutStays ==
    ASSUME AffiliateInv, NEW c \in Calls, Request(c), NEW p \in DOMAIN affiliate_payouts
    PROVE  PayoutOK(p)'
<1> DEFINE f == affiliate_payouts[p].affiliate
           rows == RowsFor(f, "debit", p)
<1>1. /\ AffiliateTypeOK
      /\ HoldsOK(c)
      /\ RowsStay
      /\ \A d \in Calls : d # c => call'[d] = call[d]
      /\ SoleInv
      /\ PayoutOK(p)
      /\ p \in Nat /\ p # NULL
      /\ f \in Affiliates
    <2>1. AffiliateTypeOK /\ HoldsOK(c) /\ SoleInv /\ PayoutOK(p)
        BY DEF AffiliateInv, HoldsInv, PayoutInv
    <2>2. RowsStay /\ \A d \in Calls : d # c => call'[d] = call[d]
        BY RequestsKeepRows, RequestsKeepHolds
    <2>3. p \in Nat /\ affiliate_payouts[p] \in PayoutRows
        BY <2>1 DEF AffiliateTypeOK
    <2>4. NULL \notin Nat
        BY AffiliateAssumption
    <2>. QED
        BY <2>1, <2>2, <2>3, <2>4 DEF PayoutRows
<1>2. affiliate_payouts'[p] = affiliate_payouts[p]
    BY <1>1 DEF RowsStay
<1>3. \A d \in Calls : call'[d].payout = p => call[d].payout = p
    BY <1>1, MoverTakesNew
<1>4. CASE WriteLedger(c) /\ call[c].payout = p
    <2>1. /\ affiliate_payouts[p] = [affiliate |-> call[c].affiliate, amount |-> call[c].amount]
          /\ IsDebit(c)
          /\ At(c, "write")
        BY <1>1, <1>4 DEF HoldsOK, IsDebit, WriteLedger
    <2>2. f = call[c].affiliate /\ affiliate_payouts[p].amount = call[c].amount
        BY <2>1
    <2>3. /\ NewRow(c) \in AffiliateLedgerRows
          /\ NewRow(c).entry_type = "debit"
          /\ NewRow(c).reference = p
          /\ NewRow(c).amount = call[c].amount
          /\ Writes(f, NewRow(c))
        BY <1>4, <2>1, <2>2, WriterIsReady DEF NewRow, Writes, WriteLedger
    <2>4. rows = {}
        BY <1>1, <1>4 DEF PayoutOK
    <2>5. PICK g \in Affiliates : g = f
        BY <1>1
    <2>6. PICK n : n = Len(affiliate_ledger[g]) + 1
        OBVIOUS
    <2>7. RowsFor(g, "debit", p)' = {n} /\ affiliate_ledger'[g][n] = NewRow(c)
        <3>1. RowsFor(g, "debit", p)' = RowsFor(g, "debit", p) \union {n}
            BY <1>1, <2>3, <2>5, <2>6, ReferencesAfterWrite
        <3>2. affiliate_ledger'[g][n] = NewRow(c)
            BY <1>1, <2>3, <2>5, <2>6, RowsAfterWrite
        <3>. QED
            BY <2>4, <2>5, <3>1, <3>2
    <2>8. call'[c] = Idle
        BY <1>1, <1>4, <2>1, CallMoves DEF WriteLedger, Return
    <2>9. \A d \in Calls : call'[d].payout # p
        BY <1>1, <1>3, <1>4, <2>8 DEF SoleInv, Idle
    <2> HIDE DEF f
    <2>. QED
        BY <1>2, <2>2, <2>3, <2>5, <2>7, <2>9 DEF PayoutOK, f
<1>5. CASE ~(WriteLedger(c) /\ call[c].payout = p)
    <2>1. rows' = rows /\ \A n \in rows : affiliate_ledger'[f][n] = affiliate_ledger[f][n]
        BY <1>1, <1>2, <1>5, DebitsUnmoved
    <2>2. ASSUME rows = {}, f \notin overtaken'
          PROVE  \E d \in Calls : call'[d].payout = p
        <3>1. PICK d \in Calls : call[d].payout = p
            BY <1>1, <2>2 DEF PayoutOK, RowsStay
        <3>2. CASE d = c
            <4>1. call[c].affiliate = f
                BY <1>1, <3>1, <3>2 DEF HoldsOK
            <4>. QED
                BY <1>1, <1>5, <2>2, <3>1, <3>2, <4>1, PayoutsAreKept
        <3>. QED
            BY <1>1, <3>1, <3>2
    <2> HIDE DEF f
    <2>3. /\ \A m, n \in rows' : m = n
          /\ \A n \in rows' : affiliate_ledger'[f][n].amount = affiliate_payouts'[p].amount
          /\ \A d \in Calls : call'[d].payout = p => rows' = {}
          /\ rows' = {} => f \in overtaken' \/ \E d \in Calls : call'[d].payout = p
        BY <1>1, <1>2, <1>3, <2>1, <2>2 DEF PayoutOK, f
    <2>. QED
        BY <1>2, <2>3 DEF PayoutOK, f
<1>. QED
    BY <1>4, <1>5

(* The debits of an affiliate are of payouts that were requested. *)
LEMMA DebitsAreRequested ==
    ASSUME AffiliateInv, NEW c \in Calls, Request(c), NEW f \in Affiliates,
           NEW n \in RowsOf(f, "debit")'
    PROVE  affiliate_ledger'[f][n].reference \in DOMAIN affiliate_payouts'
<1>1. /\ AffiliateTypeOK
      /\ HoldsOK(c)
      /\ DOMAIN affiliate_payouts \subseteq DOMAIN affiliate_payouts'
      /\ \A m \in RowsOf(f, "debit") :
            affiliate_ledger[f][m].reference \in DOMAIN affiliate_payouts
    BY RequestsKeepRows DEF AffiliateInv, HoldsInv, PayoutInv, RowsStay
<1>2. CASE affiliate_ledger'[f] = affiliate_ledger[f]
    BY <1>1, <1>2, TotalsUnwritten
<1>3. CASE WriteLedger(c) /\ f = call[c].affiliate
    <2> DEFINE k == Len(affiliate_ledger[f]) + 1
    <2>1. /\ At(c, "write")
          /\ NewRow(c) \in AffiliateLedgerRows
          /\ Writes(f, NewRow(c))
        BY <1>3, WriterIsReady DEF AffiliateInv, WriteLedger, Writes
    <2>2. /\ n \in RowsOf(f, "debit") \/ (n = k /\ NewRow(c).entry_type = "debit")
          /\ affiliate_ledger'[f][k] = NewRow(c)
          /\ \A m \in DOMAIN affiliate_ledger[f] :
                affiliate_ledger'[f][m] = affiliate_ledger[f][m]
        <3>1. /\ RowsOf(f, "debit")' = IF NewRow(c).entry_type = "debit"
                                       THEN RowsOf(f, "debit") \union {k}
                                       ELSE RowsOf(f, "debit")
              /\ affiliate_ledger'[f][k] = NewRow(c)
              /\ \A m \in DOMAIN affiliate_ledger[f] :
                    affiliate_ledger'[f][m] = affiliate_ledger[f][m]
            BY <1>1, <2>1, RowsAfterWrite
        <3> HIDE DEF k
        <3>. QED
            BY <3>1
    <2>3. NewRow(c).entry_type = "debit" => NewRow(c).reference \in DOMAIN affiliate_payouts
        BY <1>1 DEF NewRow, IsDebit, HoldsOK
    <2>4. RowsOf(f, "debit") \subseteq DOMAIN affiliate_ledger[f]
        BY DEF RowsOf
    <2> HIDE DEF k
    <2>. QED
        BY <1>1, <2>2, <2>3, <2>4
<1>4. CASE WriteLedger(c) /\ f # call[c].affiliate
    <2>1. affiliate_ledger'[f] = affiliate_ledger[f]
        BY <1>1, <1>4 DEF WriteLedger, AffiliateTypeOK
    <2>. QED
        BY <1>2, <2>1
<1>5. UNCHANGED affiliate_ledger \/ WriteLedger(c)
    BY OnlyWriter
<1>. QED
    BY <1>2, <1>3, <1>4, <1>5

(* A payout is debited once, by the call that requested it. *)
LEMMA PayoutsStay ==
    ASSUME AffiliateInv, NEW c \in Calls, Request(c)
    PROVE  PayoutInv'
<1>1. ASSUME NEW p \in DOMAIN affiliate_payouts', p \notin DOMAIN affiliate_payouts
      PROVE  PayoutOK(p)'
    <2>1. AffiliateTypeOK /\ AffiliateTypeOK'
        BY RequestsKeepTypes DEF AffiliateInv
    <2>2. InsertPayout(c)
        BY <1>1 DEF Request, EnrollAffiliate, RequestPayout, RecordClick, FindClick, ConfirmOrder,
           InsertCommission, InsertReferralCode, AttachCustomer, ReadAttribution,
           MarkConverted, ReadBalance, WriteLedger, AffiliateCrash
    <2>3. /\ affiliate_payouts'[p].affiliate \in Affiliates
          /\ p = Len(affiliate_payouts')
        BY <1>1, <2>1, <2>2 DEF AffiliateTypeOK, InsertPayout, PayoutRows
    <2>4. call'[c].payout = p
        <3> DEFINE k == Len(affiliate_payouts')
        <3>1. call'[c] = [call[c] EXCEPT !.pc = "balance", !.payout = k]
            BY <2>1, <2>2, CallMoves DEF InsertPayout
        <3>2. call[c] \in CallStates /\ k = p
            BY <2>1, <2>3 DEF AffiliateTypeOK
        <3> HIDE DEF k
        <3>. QED
            BY <3>1, <3>2 DEF CallStates
    <2>5. UNCHANGED affiliate_ledger
        BY <2>2 DEF InsertPayout, ledgerVars
    <2>6. PICK f \in Affiliates : f = affiliate_payouts'[p].affiliate
        BY <2>3
    <2>7. RowsFor(f, "debit", p) = {}
        BY <1>1, <2>6 DEF RowsFor, AffiliateInv, PayoutInv
    <2>8. RowsFor(f, "debit", p)' = RowsFor(f, "debit", p)
        BY <2>5 DEF RowsFor, RowsOf
    <2>. QED
        BY <2>4, <2>6, <2>7, <2>8 DEF PayoutOK
<1>. QED
    BY <1>1, OldPayoutStays, DebitsAreRequested DEF PayoutInv

-----------------------------------------------------------------------------
(* Balances. *)

(* A balance nobody overtook adds up. *)
LEMMA BalancesStay ==
    ASSUME AffiliateInv, NEW c \in Calls, Request(c)
    PROVE  BalanceInv'
<1> SUFFICES ASSUME NEW f \in Affiliates, f \notin overtaken'
             PROVE  BalanceOK(f)'
    BY DEF BalanceInv
<1>1. /\ AffiliateTypeOK
      /\ f \notin overtaken
      /\ BalanceOK(f)
      /\ Balance(f) \in Nat
      /\ cached_available \in [Affiliates -> Nat \union {NULL}]
      /\ NULL \notin Nat
    BY RequestsKeepRows, BalanceIsNumber, AffiliateAssumption
       DEF AffiliateInv, RowsStay, BalanceInv, AffiliateTypeOK
<1>2. CASE WriteLedger(c) /\ f = call[c].affiliate
    <2>1. /\ NewBalance(c) \in Nat
          /\ call[c].amount \in Nat
          /\ Balance(f) = call[c].current
        BY <1>1, <1>2, WriterIsReady DEF WriteLedger
    <2>2. Balance(f)' = NewBalance(c)
        BY <1>1, <1>2, <2>1 DEF WriteLedger, Balance
    <2>3. /\ Total(f, RowsOf(f, "credit"))' = Total(f, RowsOf(f, "credit")) +
                 (IF IsDebit(c) THEN 0 ELSE call[c].amount)
          /\ Total(f, RowsOf(f, "debit"))' = Total(f, RowsOf(f, "debit")) +
                 (IF IsDebit(c) THEN call[c].amount ELSE 0)
        BY <1>2, WriteCounts DEF NewRow
    <2>4. /\ Total(f, RowsOf(f, "credit")) \in Int
          /\ Total(f, RowsOf(f, "debit")) \in Int
        BY CreditedIsNumber
    <2>. QED
        BY <1>1, <2>1, <2>2, <2>3, <2>4 DEF BalanceOK, NewBalance
<1>3. CASE ~(WriteLedger(c) /\ f = call[c].affiliate)
    <2>1. affiliate_ledger'[f] = affiliate_ledger[f]
        BY <1>1, <1>3, OnlyWriter DEF WriteLedger, AffiliateTypeOK
    <2>2. Balance(f)' = Balance(f)
        <3>1. CASE WriteLedger(c)
            BY <1>1, <1>3, <3>1 DEF WriteLedger, Balance
        <3>2. CASE ReadBalance(c)
            BY <1>1, <3>2 DEF ReadBalance, Balance
        <3>3. CASE UNCHANGED cached_available
            BY <3>3 DEF Balance
        <3>. QED
            BY <3>1, <3>2, <3>3
               DEF Request, EnrollAffiliate, RequestPayout, RecordClick, FindClick, ConfirmOrder,
                   InsertCommission, InsertReferralCode, AttachCustomer, ReadAttribution,
                   MarkConverted, InsertPayout, AffiliateCrash, ledgerVars
    <2>3. /\ Total(f, RowsOf(f, "credit"))' = Total(f, RowsOf(f, "credit"))
          /\ Total(f, RowsOf(f, "debit"))' = Total(f, RowsOf(f, "debit"))
        BY <2>1, TotalsUnwritten
    <2>. QED
        BY <1>1, <2>2, <2>3 DEF BalanceOK
<1>. QED
    BY <1>2, <1>3

-----------------------------------------------------------------------------
(* The invariant, and what follows from it. *)

(* What nobody touches stays as it is, whatever expires. *)
LEMMA UntouchedStays ==
    ASSUME AffiliateInv,
           UNCHANGED <<attributions, earningVars, ledgerVars, affiliate_payouts, call>>
    PROVE  HoldsInv' /\ RoomInv' /\ SoleInv' /\ AttributionInv' /\ CreditInv' /\ PayoutInv'
           /\ BalanceInv'
<1> USE DEF AffiliateInv, earningVars, ledgerVars
<1>1. HoldsInv' /\ SoleInv'
    BY DEF HoldsInv, HoldsOK, SoleInv
<1>2. RoomInv'
    BY DEF RoomInv, Requested, Requesting, At
<1>3. AttributionInv'
    BY DEF AttributionInv, AttributionOK, Converting, Converts, EarnedOn
<1>4. \A f : RowsOf(f, "debit")' = RowsOf(f, "debit") /\ RowsOf(f, "credit")' = RowsOf(f, "credit")
    BY DEF RowsOf
<1>5. \A f, ref : /\ RowsFor(f, "debit", ref)' = RowsFor(f, "debit", ref)
                  /\ RowsFor(f, "credit", ref)' = RowsFor(f, "credit", ref)
    BY <1>4 DEF RowsFor
<1>6. \A f, rows : Total(f, rows)' = Total(f, rows')
    BY DEF Total, Amounts
<1>7. CreditInv'
    <2>1. \A f, o : Credited(f, o)' = Credited(f, o)
        BY <1>5 DEF Credited, Total, Amounts
    <2>2. \A f, o : Earned(f, o)' = Earned(f, o)
        BY DEF Earned, EarningItems
    <2>. QED
        BY <2>1, <2>2 DEF CreditInv, CreditOK
<1>8. PayoutInv'
    <2>1. \A p : PayoutOK(p)' <=> PayoutOK(p)
        BY <1>5 DEF PayoutOK
    <2>2. /\ \A p \in DOMAIN affiliate_payouts : PayoutOK(p)
          /\ \A f \in Affiliates : \A n \in RowsOf(f, "debit") :
                affiliate_ledger[f][n].reference \in DOMAIN affiliate_payouts
        BY DEF PayoutInv
    <2>3. /\ \A p \in DOMAIN affiliate_payouts' : PayoutOK(p)'
          /\ \A f \in Affiliates : \A n \in RowsOf(f, "debit")' :
                affiliate_ledger'[f][n].reference \in DOMAIN affiliate_payouts'
        BY <1>4, <2>1, <2>2
    <2>. QED
        BY <2>3 DEF PayoutInv
<1>9. BalanceInv'
    <2>1. \A f : Balance(f)' = Balance(f)
        BY DEF Balance
    <2>2. \A f : /\ Total(f, RowsOf(f, "credit"))' = Total(f, RowsOf(f, "credit"))
                 /\ Total(f, RowsOf(f, "debit"))' = Total(f, RowsOf(f, "debit"))
        BY <1>4 DEF Total, Amounts
    <2>. QED
        BY <2>1, <2>2 DEF BalanceInv, BalanceOK
<1>. QED
    BY <1>1, <1>2, <1>3, <1>7, <1>8, <1>9

(* Nothing has happened yet. *)
LEMMA AffiliateInvAtFirst ==
    ASSUME AffiliateInit
    PROVE  AffiliateInv
<1> USE DEF AffiliateInit
<1>1. /\ \A c \in Calls : call[c] = Idle
      /\ \A f \in Affiliates : affiliate_ledger[f] = <<>> /\ Balance(f) = 0
      /\ \A i \in Items : commissions[i] = NULL
      /\ DOMAIN attributions = {} /\ DOMAIN affiliate_payouts = {}
      /\ Len(attributions) = 0 /\ Len(affiliate_payouts) = 0
      /\ NULL \notin Orders
    BY AffiliateAssumption DEF Balance
<1>2. AffiliateTypeOK
    <2>1. Idle \in CallStates
        BY DEF Idle, CallStates, AffiliateLocations
    <2>2. {rate_bps, payout_threshold, MaxClicks, MaxPayouts, MaxCrashes} \subseteq Nat
        BY AffiliateAssumption
    <2>. QED
        BY <1>1, <2>1, <2>2 DEF AffiliateTypeOK
<1>3. HoldsInv
    BY <1>1 DEF HoldsInv, HoldsOK, Idle
<1>4. RoomInv
    <2>1. Requesting = {}
        BY <1>1 DEF Requesting, At, Idle
    <2>2. MaxClicks \in Nat /\ MaxPayouts \in Nat
        BY AffiliateAssumption
    <2>. QED
        BY <1>1, <2>1, <2>2, FS_EmptySet DEF RoomInv, Requested
<1>5. SoleInv
    BY <1>1 DEF SoleInv, Idle
<1>6. AttributionInv
    BY <1>1 DEF AttributionInv
<1>7. \A f \in Affiliates : \A type, ref :
          /\ RowsOf(f, type) = {} /\ RowsFor(f, type, ref) = {}
          /\ Total(f, RowsOf(f, type)) = 0 /\ Total(f, RowsFor(f, type, ref)) = 0
    <2>1. \A f \in Affiliates : \A type, ref : RowsOf(f, type) = {} /\ RowsFor(f, type, ref) = {}
        BY <1>1 DEF RowsOf, RowsFor
    <2>. QED
        BY <2>1, SumOverEmpty DEF Total
<1>8. CreditInv
    <2>1. \A f, o : EarningItems(f, o) = {}
        BY <1>1 DEF EarningItems, ItemsOf
    <2>2. \A f, o : Earned(f, o) = 0
        BY <2>1, SumOverEmpty DEF Earned
    <2>3. \A f \in Affiliates, o \in Orders : Credited(f, o) = 0
        BY <1>7 DEF Credited
    <2>. QED
        BY <1>1, <2>2, <2>3 DEF CreditInv, CreditOK, Idle
<1>9. PayoutInv
    BY <1>1, <1>7 DEF PayoutInv
<1>10. BalanceInv
    <2>1. \A f \in Affiliates :
              Total(f, RowsOf(f, "credit")) = 0 /\ Total(f, RowsOf(f, "debit")) = 0
        BY <1>7
    <2>. QED
        BY <1>1, <2>1 DEF BalanceInv, BalanceOK
<1>. QED
    BY <1>2, <1>3, <1>4, <1>5, <1>6, <1>8, <1>9, <1>10 DEF AffiliateInv

(* Every step of the affiliate program keeps its invariant. *)
LEMMA AffiliateInvStays ==
    ASSUME AffiliateInv, [AffiliateNext]_affiliateVars
    PROVE  AffiliateInv'
<1>1. ASSUME NEW c \in Calls, Request(c)
      PROVE  AffiliateInv'
    BY <1>1, RequestsKeepTypes, RequestsKeepHolds, RoomStays, SoleStays, AttributionsStay,
       CreditsStay, PayoutsStay, BalancesStay DEF AffiliateInv
<1>2. CASE Expire \/ UNCHANGED affiliateVars
    <2>1. UNCHANGED <<attributions, earningVars, ledgerVars, affiliate_payouts, call>>
        BY <1>2 DEF Expire, affiliateVars, clickVars
    <2>2. AffiliateTypeOK'
        BY <1>2 DEF Expire, affiliateVars, clickVars, earningVars, ledgerVars, AffiliateInv,
                    AffiliateTypeOK, Balance
    <2>. QED
        BY <2>1, <2>2, UntouchedStays DEF AffiliateInv
<1>. QED
    BY <1>1, <1>2 DEF AffiliateNext

(* The inductive invariant of the affiliate program. *)
THEOREM AffiliateInvariance == AffiliateSpec => []AffiliateInv
<1>1. AffiliateInit => AffiliateInv
    BY AffiliateInvAtFirst
<1>2. AffiliateInv /\ [AffiliateNext]_affiliateVars => AffiliateInv'
    BY AffiliateInvStays
<1>. QED
    BY <1>1, <1>2, PTL DEF AffiliateSpec

(* A balance is never below zero and is the balance_after of the last row  *)
(* of its ledger, whoever wrote on an outdated read (affiliate.ts).        *)
THEOREM AffiliateTypeCorrectness == AffiliateSpec => []AffiliateTypeOK
<1>1. AffiliateInv => AffiliateTypeOK
    BY DEF AffiliateInv
<1>. QED
    BY <1>1, AffiliateInvariance, PTL

(* Rows that are all the same are one at most. *)
LEMMA OneRowAtMost ==
    ASSUME NEW rows, \A m, n \in rows : m = n
    PROVE  Cardinality(rows) <= 1
<1>1. CASE rows = {}
    BY <1>1, FS_EmptySet
<1>2. CASE rows # {}
    <2>1. PICK m : m \in rows
        BY <1>2
    <2>2. rows = {m}
        BY <2>1
    <2>3. Cardinality({m}) = 1
        BY FS_Singleton
    <2>. QED
        BY <2>2, <2>3
<1>. QED
    BY <1>1, <1>2

(* What an attribution earned, an order's commissions and payouts come to  *)
(* in the ledger, and what the balance of an affiliate nobody overtook is: *)
(* for any number of affiliates, clicks, orders, payouts and calls at a    *)
(* time (affiliate.ts).                                                    *)
THEOREM UndisturbedAffiliatesAddUp == AffiliateSpec => []UndisturbedAffiliateAddsUp
<1>1. AffiliateInv => UndisturbedAffiliateAddsUp
    <2> SUFFICES ASSUME AffiliateInv
                 PROVE  UndisturbedAffiliateAddsUp
        OBVIOUS
    <2> USE DEF AffiliateInv
    <2>1. AttributionServesOneOrder
        <3>1. \A i \in Items : commissions[i] # NULL => commissions[i] \in DOMAIN attributions
            BY DEF AffiliateTypeOK
        <3>. QED
            BY <3>1 DEF AttributionServesOneOrder, AttributionInv, AttributionOK, EarnedOn
    <2>2. EarningsAreCredited
        <3>1. ASSUME NEW f \in Affiliates, NEW o \in Orders
              PROVE  Credited(f, o) \in Int /\ Earned(f, o) \in Int
            BY CreditedIsNumber, EarnedIsNumber DEF Credited
        <3>2. ASSUME NEW f \in Affiliates, NEW o \in Orders
              PROVE  Credited(f, o) <= Earned(f, o)
            BY <3>1 DEF CreditInv, CreditOK
        <3>. QED
            BY <3>2 DEF EarningsAreCredited, CreditInv, CreditOK, Credited
    <2>3. PayoutsAreDebited
        BY OneRowAtMost DEF PayoutsAreDebited, PayoutInv, PayoutOK
    <2>4. \A f \in Affiliates \ overtaken : BalanceOK(f)
        BY DEF BalanceInv
    <2>. QED
        BY <2>1, <2>2, <2>3, <2>4 DEF UndisturbedAffiliateAddsUp, BalanceOK
<1>. QED
    BY <1>1, AffiliateInvariance, PTL
==============================================================================
