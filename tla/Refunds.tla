------------------------------ MODULE Refunds -------------------------------
(***************************************************************************)
(* Money that moves after an order is paid: createAndExecuteRefund         *)
(* (src/src/lib/refunds.ts), settleVariableWeightItem and confirm-         *)
(* AdditionalChargePayment (src/src/lib/order-settlement.ts).              *)
(*                                                                         *)
(* A refund is against an item or against a whole order: its scope.  A row *)
(* of refunds or of order_additional_charges is named by the request that  *)
(* inserts it, since a request inserts at most one of each.                *)
(*                                                                         *)
(* One SQL statement, or one db.batch(), is one action.  Any statement may *)
(* fail and make the code throw; a Worker may die between two of them.     *)
(***************************************************************************)
EXTENDS Wallet, FiniteSets, Sums

CONSTANTS
    Orders,        \* orders.id, all of them paid
    Items,         \* order_items.id
    Requests,      \* HTTP requests, each used once
    order_of,      \* item -> its order
    owner,         \* order -> its user
    total,         \* order -> total_kobo
    line_total,    \* item -> line_total_kobo
    RefundAmounts, \* bound: amounts an admin asks for
    FinalPrices,   \* bound: prices an actual quantity may lead to
    MaxFulfilments,\* bound: times a seller records a quantity, per item
    MaxCrashes,    \* bound: Workers that die mid-request
    MaxLateFailures\* bound: requests one of whose statements fails late

ASSUME RefundsAssumption ==
    /\ order_of \in [Items -> Orders]
    /\ owner \in [Orders -> Users]
    /\ total \in [Orders -> Nat \ {0}]
    /\ line_total \in [Items -> Nat \ {0}]
    /\ RefundAmounts \subseteq Nat \ {0}
    /\ FinalPrices \subseteq Nat
    /\ {MaxFulfilments, MaxCrashes, MaxLateFailures} \subseteq Nat
    /\ Requests \union Orders \subseteq ReferenceIds
    /\ Orders \intersect Items = {}
    /\ NULL \notin Orders \union Items \union Requests \union FinalPrices
    /\ IsFiniteSet(Requests)

VARIABLES
    final_price,       \* order_items.final_price_kobo, NULL until fulfilled
    settlement_status, \* order_items.settlement_status
    fulfilments,       \* times a quantity was recorded, by item
    refund_status,     \* refunds.status, "none" without a row
    charge_status,     \* order_additional_charges.status, "none" without one
    pc,                \* where each request stands
    kind,              \* which of the three functions it runs
    scope,             \* the order or item it works on
    amount,            \* the money its row is for
    captured,          \* the captured amount as its refund read it
    outcome,           \* what its settlement is about to record
    charge,            \* the charge a payment is for
    crashed,           \* requests whose Worker died
    failed             \* requests one of whose statements failed after a
                       \* statement that moved money or inserted a charge

itemVars == <<final_price, settlement_status, fulfilments>>
rowVars == <<refund_status, charge_status>>
localVars == <<kind, scope, amount, captured, outcome, charge>>
faultVars == <<crashed, failed>>
vars == <<walletVars, itemVars, rowVars, localVars, faultVars, pc>>

Scopes == Orders \union Items
OrderOf(s) == IF s \in Items THEN order_of[s] ELSE s
Customer(s) == owner[OrderOf(s)]

SettlementStatuses == {"none", "settling", "settled", "refund_issued",
                       "additional_payment_pending", "additional_payment_paid"}
RefundStatuses == {"none", "pending", "completed", "rejected"}
ChargeStatuses == {"none", "pending_payment", "paid"}

Locations == {"idle", "settle_claim", "refund_read", "refund_claim",
              "refund_credit", "refund_complete", "refund_reject",
              "charge_insert", "settle_mark", "settle_rollback",
              "charge_debit", "charge_link", "charge_rollback", "done"}

Init ==
    /\ WalletInit
    /\ final_price = [i \in Items |-> NULL]
    /\ settlement_status = [i \in Items |-> "none"]
    /\ fulfilments = [i \in Items |-> 0]
    /\ refund_status = [r \in Requests |-> "none"]
    /\ charge_status = [r \in Requests |-> "none"]
    /\ pc = [r \in Requests |-> "idle"]
    /\ kind = [r \in Requests |-> "none"]
    /\ scope = [r \in Requests |-> NULL]
    /\ amount = [r \in Requests |-> 0]
    /\ captured = [r \in Requests |-> 0]
    /\ outcome = [r \in Requests |-> "none"]
    /\ charge = [r \in Requests |-> NULL]
    /\ crashed = {}
    /\ failed = {}

-----------------------------------------------------------------------------
(* Control of one request. *)
At(r, location) == pc[r] = location /\ r \notin crashed
Goto(r, location) == pc' = [pc EXCEPT ![r] = location]

(* Where a thrown RefundError lands: settleVariableWeightItem's catch, or  *)
(* the route's 400.                                                        *)
AfterRefundError(r) == IF kind[r] = "settle" THEN "settle_rollback" ELSE "done"

-----------------------------------------------------------------------------
(* transitionOrderItemStatus with a fulfilledQuantity: the seller records  *)
(* what was really packed.  settlement_status is left as it is.            *)
Fulfil(i) ==
    /\ fulfilments[i] < MaxFulfilments
    /\ fulfilments' = [fulfilments EXCEPT ![i] = @ + 1]
    /\ \E price \in FinalPrices : final_price' = [final_price EXCEPT ![i] = price]
    /\ UNCHANGED <<walletVars, settlement_status, rowVars, localVars, faultVars, pc>>

-----------------------------------------------------------------------------
(* createAndExecuteRefund. *)

CapturedAmount(s) ==
    IF s \in Orders THEN total[s]
    ELSE IF final_price[s] = NULL THEN line_total[s] ELSE final_price[s]

(* POST /orders/:id/refund of an admin. *)
RefundRequest(r, s) ==
    /\ At(r, "idle")
    /\ kind' = [kind EXCEPT ![r] = "refund"]
    /\ scope' = [scope EXCEPT ![r] = s]
    /\ \E a \in RefundAmounts : amount' = [amount EXCEPT ![r] = a]
    /\ captured' = [captured EXCEPT ![r] = CapturedAmount(s)]
    /\ Goto(r, "refund_claim")
    /\ UNCHANGED <<walletVars, itemVars, rowVars, outcome, charge, faultVars>>

(* The same reads, when a settlement calls it. *)
RefundRead(r) ==
    /\ At(r, "refund_read")
    /\ captured' = [captured EXCEPT ![r] = CapturedAmount(scope[r])]
    /\ Goto(r, "refund_claim")
    /\ UNCHANGED <<walletVars, itemVars, rowVars, kind, scope, amount, outcome,
                   charge, faultVars>>

(* A deliberate fault, for the mutation runs. *)
CountedCompletedOnly == {"completed"}

(* claimRefundSlot: the guarded INSERT.  An order's sum counts the rows    *)
(* whose order_item_id is NULL, an item's the rows of that item.           *)
Counted == {"pending", "completed"}

CountedRefunds(s) ==
    {r \in Requests : scope[r] = s /\ refund_status[r] \in Counted}

SumOfAmounts(requests) == SumOver(amount, requests)

RefundClaim(r) ==
    /\ At(r, "refund_claim")
    /\ IF amount[r] <= captured[r] - SumOfAmounts(CountedRefunds(scope[r]))
       THEN /\ refund_status' = [refund_status EXCEPT ![r] = "pending"]
            /\ Goto(r, "refund_credit")
       ELSE /\ Goto(r, AfterRefundError(r))
            /\ UNCHANGED refund_status
    /\ UNCHANGED <<walletVars, itemVars, charge_status, localVars, faultVars>>

RefundCredit(r) ==
    /\ At(r, "refund_credit")
    /\ CreditWallet(Customer(scope[r]), amount[r], "order_refund", r)
    /\ Goto(r, "refund_complete")
    /\ UNCHANGED <<itemVars, rowVars, localVars, faultVars>>

RefundComplete(r) ==
    /\ At(r, "refund_complete")
    /\ refund_status' = [refund_status EXCEPT ![r] = "completed"]
    /\ Goto(r, IF kind[r] = "settle" THEN "settle_mark" ELSE "done")
    /\ UNCHANGED <<walletVars, itemVars, charge_status, localVars, faultVars>>

(* A deliberate fault, for the mutation runs. *)
RefundRejectSettled(r) ==
    /\ At(r, "refund_reject")
    /\ refund_status' = [refund_status EXCEPT ![r] = "completed"]
    /\ Goto(r, AfterRefundError(r))
    /\ UNCHANGED <<walletVars, itemVars, charge_status, localVars, faultVars>>

(* The catch: the row is rejected if it is still pending, and the error    *)
(* goes on to the caller.                                                  *)
RefundReject(r) ==
    /\ At(r, "refund_reject")
    /\ refund_status' = [refund_status EXCEPT ![r] =
                           IF @ = "pending" THEN "rejected" ELSE @]
    /\ Goto(r, AfterRefundError(r))
    /\ UNCHANGED <<walletVars, itemVars, charge_status, localVars, faultVars>>

-----------------------------------------------------------------------------
(* settleVariableWeightItem. *)

(* A deliberate fault, for the mutation runs. *)
DistanceSigned(a, b) == a - b

Distance(a, b) == IF a > b THEN a - b ELSE b - a

(* The item is read once; the difference comes from this read.  An item    *)
(* that is not fulfilled throws.                                           *)
SettleRead(r, i) ==
    LET price == final_price[i] IN
    /\ At(r, "idle")
    /\ kind' = [kind EXCEPT ![r] = "settle"]
    /\ scope' = [scope EXCEPT ![r] = i]
    /\ \/ /\ price = NULL
          /\ Goto(r, "done")
          /\ UNCHANGED <<amount, outcome>>
       \/ /\ price # NULL
          /\ amount' = [amount EXCEPT ![r] = Distance(price, line_total[i])]
          /\ outcome' = [outcome EXCEPT ![r] =
               CASE price = line_total[i] -> "settled"
                 [] price < line_total[i] -> "refund_issued"
                 [] price > line_total[i] -> "additional_payment_pending"]
          /\ Goto(r, "settle_claim")
    /\ UNCHANGED <<walletVars, itemVars, rowVars, captured, charge, faultVars>>

(* A deliberate fault, for the mutation runs. *)
CanSettleAgain(i) == settlement_status[i] \in {"none", "settling"}

(* claimSettlementSlot, and the branch on the sign of the difference. *)
CanSettle(i) == settlement_status[i] = "none"

SettleClaim(r) ==
    LET i == scope[r] IN
    /\ At(r, "settle_claim")
    /\ \/ /\ CanSettle(i)
          /\ settlement_status' = [settlement_status EXCEPT ![i] = "settling"]
          /\ Goto(r, CASE outcome[r] = "settled" -> "settle_mark"
                       [] outcome[r] = "refund_issued" -> "refund_read"
                       [] outcome[r] = "additional_payment_pending" -> "charge_insert")
       \/ /\ ~CanSettle(i)
          /\ Goto(r, "done")
          /\ UNCHANGED settlement_status
    /\ UNCHANGED <<walletVars, final_price, fulfilments, rowVars, localVars, faultVars>>

ChargeInsert(r) ==
    /\ At(r, "charge_insert")
    /\ charge_status' = [charge_status EXCEPT ![r] = "pending_payment"]
    /\ Goto(r, "settle_mark")
    /\ UNCHANGED <<walletVars, itemVars, refund_status, localVars, faultVars>>

(* UPDATE order_items SET settlement_status WHERE it is still 'settling'. *)
WhileSettling(i, status) ==
    settlement_status' = [settlement_status EXCEPT ![i] =
                            IF @ = "settling" THEN status ELSE @]

SettleMark(r) ==
    /\ At(r, "settle_mark")
    /\ WhileSettling(scope[r], outcome[r])
    /\ Goto(r, "done")
    /\ UNCHANGED <<walletVars, final_price, fulfilments, rowVars, localVars, faultVars>>

(* A deliberate fault, for the mutation runs. *)
SettleRollbackForgets(r) ==
    /\ At(r, "settle_rollback")
    /\ Goto(r, "done")
    /\ UNCHANGED <<walletVars, itemVars, rowVars, localVars, faultVars>>

SettleRollback(r) ==
    /\ At(r, "settle_rollback")
    /\ WhileSettling(scope[r], "none")
    /\ Goto(r, "done")
    /\ UNCHANGED <<walletVars, final_price, fulfilments, rowVars, localVars, faultVars>>

-----------------------------------------------------------------------------
(* confirmAdditionalChargePayment: claim, debit, link. *)

CanPayCharge(c) == charge_status[c] = "pending_payment"

(* A charge that does not exist, or is paid, throws. *)
ChargeClaim(r, c) ==
    /\ At(r, "idle")
    /\ charge_status[c] # "none"
    /\ kind' = [kind EXCEPT ![r] = "pay"]
    /\ scope' = [scope EXCEPT ![r] = scope[c]]
    /\ amount' = [amount EXCEPT ![r] = amount[c]]
    /\ charge' = [charge EXCEPT ![r] = c]
    /\ \/ /\ CanPayCharge(c)
          /\ charge_status' = [charge_status EXCEPT ![c] = "paid"]
          /\ Goto(r, "charge_debit")
       \/ /\ ~CanPayCharge(c)
          /\ Goto(r, "done")
          /\ UNCHANGED charge_status
    /\ UNCHANGED <<walletVars, itemVars, refund_status, captured, outcome, faultVars>>

ChargeDebit(r) ==
    /\ At(r, "charge_debit")
    /\ \/ /\ DebitWallet(Customer(scope[r]), amount[r],
                         "order_additional_charge", charge[r])
          /\ Goto(r, "charge_link")
       \/ /\ ~CanDebit(Customer(scope[r]), amount[r])
          /\ Goto(r, "charge_rollback")
          /\ UNCHANGED walletVars
    /\ UNCHANGED <<itemVars, rowVars, localVars, faultVars>>

ChargeRollback(r) ==
    /\ At(r, "charge_rollback")
    /\ charge_status' = [charge_status EXCEPT ![charge[r]] = "pending_payment"]
    /\ Goto(r, "done")
    /\ UNCHANGED <<walletVars, itemVars, refund_status, localVars, faultVars>>

(* The last batch writes the item's status whatever it is. *)
ChargeLink(r) ==
    /\ At(r, "charge_link")
    /\ settlement_status' =
         [settlement_status EXCEPT ![scope[r]] = "additional_payment_paid"]
    /\ Goto(r, "done")
    /\ UNCHANGED <<walletVars, final_price, fulfilments, rowVars, localVars, faultVars>>

-----------------------------------------------------------------------------
(* A statement throws before it has had an effect: the catch around it     *)
(* undoes the claim.  Outside a try the route answers 500.                 *)
FailsEarly(r) ==
    /\ r \notin crashed
    /\ \/ /\ pc[r] \in {"refund_read", "refund_claim"}
          /\ Goto(r, AfterRefundError(r))
       \/ /\ pc[r] = "refund_credit"
          /\ Goto(r, "refund_reject")
       \/ /\ pc[r] = "charge_insert"
          /\ Goto(r, "settle_rollback")
       \/ /\ pc[r] = "charge_debit"
          /\ Goto(r, "charge_rollback")
    /\ UNCHANGED <<walletVars, itemVars, rowVars, localVars, faultVars>>

(* A statement throws after an earlier one moved money or inserted the     *)
(* charge: the same catch undoes the claim although the money has moved.   *)
(* At refund_complete and charge_link this is also the read of the new     *)
(* balance inside creditWallet or debitWallet; the statements at charge_-  *)
(* link itself are outside the try and end the request.                    *)
FailsLate(r) ==
    /\ Cardinality(failed) < MaxLateFailures
    /\ r \notin crashed
    /\ \/ /\ pc[r] = "refund_complete"
          /\ Goto(r, "refund_reject")
       \/ /\ pc[r] = "settle_mark"
          /\ Goto(r, "settle_rollback")
       \/ /\ pc[r] = "charge_link"
          /\ \E location \in {"charge_rollback", "done"} : Goto(r, location)
    /\ failed' = failed \union {r}
    /\ UNCHANGED <<walletVars, itemVars, rowVars, localVars, crashed>>

(* The Worker dies, or the rollback itself throws. *)
Crash(r) ==
    /\ Cardinality(crashed) < MaxCrashes
    /\ pc[r] \notin {"idle", "done"}
    /\ r \notin crashed
    /\ crashed' = crashed \union {r}
    /\ UNCHANGED <<walletVars, itemVars, rowVars, localVars, failed, pc>>

-----------------------------------------------------------------------------
(* The rest of a request once it has begun. *)
Continue(r) ==
    /\ pc[r] \notin {"idle", "done"}
    /\ \/ RefundRead(r) \/ RefundClaim(r) \/ RefundCredit(r)
       \/ RefundComplete(r) \/ RefundReject(r)
       \/ SettleClaim(r) \/ ChargeInsert(r) \/ SettleMark(r) \/ SettleRollback(r)
       \/ ChargeDebit(r) \/ ChargeRollback(r) \/ ChargeLink(r)

Next ==
    \/ \E i \in Items : Fulfil(i)
    \/ \E r \in Requests, s \in Scopes : RefundRequest(r, s)
    \/ \E r \in Requests, i \in Items : SettleRead(r, i)
    \/ \E r, c \in Requests : ChargeClaim(r, c)
    \/ \E r \in Requests :
         Continue(r) \/ FailsEarly(r) \/ FailsLate(r) \/ Crash(r)

Spec == Init /\ [][Next]_vars

(* A Worker runs the request it has accepted to its end. *)
FairSpec == Spec /\ \A r \in Requests : WF_vars(Continue(r))

-----------------------------------------------------------------------------
(* Every variable keeps to the values the tables and the code allow. *)
TypeOK ==
    /\ WalletTypeOK
    /\ final_price \in [Items -> Nat \union {NULL}]
    /\ settlement_status \in [Items -> SettlementStatuses]
    /\ fulfilments \in [Items -> 0..MaxFulfilments]
    /\ refund_status \in [Requests -> RefundStatuses]
    /\ charge_status \in [Requests -> ChargeStatuses]
    /\ pc \in [Requests -> Locations]
    /\ kind \in [Requests -> {"none", "refund", "settle", "pay"}]
    /\ scope \in [Requests -> Scopes \union {NULL}]
    /\ amount \in [Requests -> Nat]
    /\ captured \in [Requests -> Nat]
    /\ outcome \in [Requests -> SettlementStatuses]
    /\ charge \in [Requests -> Requests \union {NULL}]
    /\ crashed \in SUBSET Requests
    /\ failed \in SUBSET Requests

-----------------------------------------------------------------------------
(* Properties. *)

(* The ledger rows of a request's refund, and of its charge's payment. *)
RowsOf(r, type) ==
    IF scope[r] = NULL THEN {} ELSE EntriesFor(Customer(scope[r]), type, r)

RefundCredits(r) == RowsOf(r, "order_refund")
Refunded(r) == RefundCredits(r) # {}
ChargeDebits(c) == RowsOf(c, "order_additional_charge")

Settlers(i) == {r \in Requests : kind[r] = "settle" /\ scope[r] = i}

(* However many refunds of one scope race, the money they paid out stays   *)
(* within the captured amount one of them read: the sum inside the guarded *)
(* INSERT counts what is promised and what is paid.  (A refund whose       *)
(* statement failed after its credit is rejected and no longer counted.)   *)
RefundsWithinCaptured ==
    \A s \in Scopes :
        LET paid == {r \in Requests : scope[r] = s /\ Refunded(r)} \ failed IN
        paid # {} => \E r \in CountedRefunds(s) : SumOfAmounts(paid) <= captured[r]

(* The refunds table tells what the wallet did: a completed refund was     *)
(* credited, once, its amount; a rejected one was not, unless a statement  *)
(* after its credit failed; a pending one belongs to a call that is still  *)
(* running or has died.                                                    *)
RefundRowsTellTheTruth ==
    \A r \in Requests :
        /\ \A n, m \in RefundCredits(r) : n = m
        /\ refund_status[r] = "completed" => Refunded(r)
        /\ refund_status[r] = "rejected" /\ r \notin failed => ~Refunded(r)
        /\ refund_status[r] = "pending" =>
              pc[r] \in {"refund_credit", "refund_complete", "refund_reject"}

(* An item is settled once: of all the calls for it, at most one that was  *)
(* not undone by a late failure refunds the difference or charges it.      *)
SettledAtMostOnce ==
    \A i \in Items : \A r, q \in Settlers(i) \ failed :
        (Refunded(r) \/ charge_status[r] # "none")
        /\ (Refunded(q) \/ charge_status[q] # "none") => r = q

(* What settlement_status says was done was done by one of the calls;      *)
(* 'none' says nothing was done; and once a charge is paid the item says   *)
(* so, whichever of the payment and the settlement writes it last.         *)
SettlementTellsTheTruth ==
    \A i \in Items :
        /\ settlement_status[i] = "refund_issued" =>
              \E r \in Settlers(i) : refund_status[r] = "completed"
        /\ settlement_status[i] = "additional_payment_pending" =>
              \E r \in Settlers(i) : charge_status[r] # "none"
        /\ settlement_status[i] = "additional_payment_paid" =>
              \E r \in Settlers(i) : ChargeDebits(r) # {}
        /\ settlement_status[i] = "none" =>
              \A r \in Settlers(i) \ failed : ~Refunded(r) /\ charge_status[r] = "none"
        /\ \A c \in Settlers(i) \ failed : ChargeDebits(c) # {} =>
              \/ settlement_status[i] = "additional_payment_paid"
              \/ \E r \in Requests :
                   charge[r] = c /\ (pc[r] = "charge_link" \/ r \in failed)

(* A charge is debited at most once, apart from payments whose balance     *)
(* read failed after the debit; and it is 'paid' only with a debit, or     *)
(* while the call that claimed it has still to debit or to roll back.      *)
ChargePaidOnce ==
    \A c \in Requests : charge_status[c] # "none" =>
        LET payers == {r \in Requests : charge[r] = c} IN
        /\ Cardinality(ChargeDebits(c)) <= 1 + Cardinality(payers \intersect failed)
        /\ charge_status[c] = "paid" =>
              \/ ChargeDebits(c) # {}
              \/ \E r \in payers : pc[r] \in {"charge_debit", "charge_rollback"}

(* An item is settled once, the row says what was done, and a charge is    *)
(* paid once.                                                              *)
SettlementIsSound == SettledAtMostOnce /\ SettlementTellsTheTruth /\ ChargePaidOnce

(* order-settlement.ts:210-212: an item "is never left stuck 'settling'",  *)
(* if the Worker of its settlement survives.                               *)
SettlingEnds ==
    \A i \in Items :
        settlement_status[i] = "settling" ~> settlement_status[i] # "settling" \/ crashed # {}

(* Money taken for an additional charge closes the item's settlement, even *)
(* when the customer pays between the INSERT of the charge and the UPDATE  *)
(* of the item.                                                            *)
Paying(i) == {r \in Requests : kind[r] = "pay" /\ scope[r] = i}

PaidChargeClosesItem ==
    \A i \in Items :
        (\E r \in Paying(i) : At(r, "charge_link"))
          ~> (settlement_status[i] = "additional_payment_paid"
              \/ Paying(i) \intersect (crashed \union failed) # {})

(* A settlement that began ends, and a charge that was paid closes it.     *)
SettlementCompletes == SettlingEnds /\ PaidChargeClosesItem

(* refunds.ts:13-17: a refund "can never exceed the item's/order's         *)
(* captured amount ... minus whatever has already been refunded/claimed    *)
(* against it", which prevents "refund more than was paid".                *)
RefundedWithinPaid ==
    \A o \in Orders :
        SumOfAmounts({r \in Requests : Refunded(r) /\ OrderOf(scope[r]) = o})
            <= total[o] + SumOfAmounts({c \in Requests :
                             /\ charge_status[c] # "none"
                             /\ OrderOf(scope[c]) = o
                             /\ ChargeDebits(c) # {}})

(* order-settlement.ts:14-18: a final price below the captured one is      *)
(* settled by a refund.  If the item has no other refund, the difference   *)
(* must fit under the cap its own settlement meets.                        *)
LighterItemIsRefunded ==
    \A r \in Requests :
        /\ kind[r] = "settle"
        /\ pc[r] = "refund_claim"
        /\ CountedRefunds(scope[r]) = {}
        => amount[r] <= captured[r]
=============================================================================
