---------------------------- MODULE RefundsProofs ----------------------------
(***************************************************************************)
(* Safety of refunds and of the settlement of weighed items, for any       *)
(* orders, items, requests and failures.                                   *)
(*                                                                         *)
(* An item has one settlement at a time, which holds it from its claim to  *)
(* its last statement, and one that took effect is never followed by       *)
(* another (HoldInv); a charge has one payment at a time, and one that was *)
(* debited leaves it paid unless its own statement failed (ChargeInv).     *)
(* That racing refunds of a scope stay below its captured amount is a      *)
(* second invariant on top (CapInv), about every set of refunds that       *)
(* count: the one of them that claimed last saw all the others in its sum. *)
(***************************************************************************)
EXTENDS Refunds, CommonLemmas

RefundingAt == {"refund_claim", "refund_credit", "refund_complete", "refund_reject"}

(* Where a settlement stands while it holds its item. *)
HoldingAt == RefundingAt \union {"refund_read", "charge_insert", "settle_mark",
                                 "settle_rollback"}

PayingAt == {"charge_debit", "charge_rollback", "charge_link"}

Outcomes == {"settled", "refund_issued", "additional_payment_pending"}

Holds(r, i) == kind[r] = "settle" /\ scope[r] = i /\ pc[r] \in HoldingAt

(* A settlement has refunded the difference or charged it. *)
TookEffect(r) == Refunded(r) \/ charge_status[r] # "none"

Payers(c) == {r \in Requests : charge[r] = c}

(* A ledger row that names a request is its customer's. *)
LedgerInv ==
    \A u \in Users, r \in Requests :
        /\ EntriesFor(u, "order_refund", r) # {} =>
              scope[r] \in Scopes /\ u = Customer(scope[r])
        /\ EntriesFor(u, "order_additional_charge", r) # {} =>
              charge_status[r] # "none" /\ u = Customer(scope[r])

(* What a request works on, where it stands. *)
PlaceOK(r) ==
    /\ pc[r] = "idle" =>
          /\ kind[r] = "none" /\ scope[r] = NULL /\ charge[r] = NULL
          /\ r \notin failed
    /\ pc[r] # "idle" => scope[r] \in Scopes
    /\ kind[r] = "settle" => scope[r] \in Items
    /\ pc[r] \in RefundingAt => kind[r] \in {"refund", "settle"}
    /\ pc[r] \in {"settle_claim", "refund_read", "charge_insert", "settle_mark",
                  "settle_rollback"} => kind[r] = "settle"
    /\ kind[r] = "settle" /\ pc[r] \in HoldingAt \union {"settle_claim"} =>
          outcome[r] \in Outcomes
    /\ kind[r] = "settle" /\ pc[r] \in RefundingAt \union {"refund_read"} =>
          outcome[r] = "refund_issued"
    /\ pc[r] = "charge_insert" => outcome[r] = "additional_payment_pending"
    /\ pc[r] \in PayingAt => kind[r] = "pay"
    /\ kind[r] = "pay" =>
          /\ charge[r] \in Requests
          /\ charge_status[charge[r]] # "none"
          /\ scope[r] = scope[charge[r]]
          /\ r \in failed => pc[r] \in {"charge_rollback", "done"}
    /\ kind[r] # "pay" => charge[r] = NULL

(* What a request has done to its rows and the wallet, where it stands. *)
MoneyOK(r) ==
    /\ \A n, m \in RefundCredits(r) : n = m
    /\ Refunded(r) => pc[r] \in {"refund_complete", "refund_reject", "settle_mark",
                                 "settle_rollback", "done"}
    /\ refund_status[r] = "pending" =>
          pc[r] \in {"refund_credit", "refund_complete", "refund_reject"}
    /\ refund_status[r] = "completed" => Refunded(r)
    /\ refund_status[r] = "rejected" /\ r \notin failed => ~Refunded(r)
    /\ refund_status[r] # "none" => pc[r] \notin {"idle", "settle_claim", "refund_read",
                                                  "refund_claim"}
    /\ pc[r] \in {"refund_credit", "refund_complete"} => refund_status[r] = "pending"
    /\ pc[r] = "refund_complete" => Refunded(r)
    /\ pc[r] \in {"refund_reject", "settle_rollback"} /\ r \notin failed =>
          ~Refunded(r) /\ charge_status[r] = "none"
    /\ pc[r] = "settle_mark" /\ outcome[r] = "refund_issued" =>
          refund_status[r] = "completed"
    /\ pc[r] = "settle_mark" /\ outcome[r] = "additional_payment_pending" =>
          charge_status[r] # "none"
    /\ charge_status[r] # "none" =>
          kind[r] = "settle" /\ pc[r] \in {"settle_mark", "settle_rollback", "done"}

RequestInv == \A r \in Requests : PlaceOK(r) /\ MoneyOK(r)

(* One settlement holds an item, which is then not open for another; nor   *)
(* is it after one took effect.                                            *)
HoldOK(i) ==
    /\ \A r, q \in Requests : Holds(r, i) /\ Holds(q, i) => r = q
    /\ \A r \in Requests : Holds(r, i) =>
          settlement_status[i] \in {"settling", "additional_payment_paid"}
    /\ \A r \in Settlers(i) \ failed : TookEffect(r) /\ ~Holds(r, i) =>
          settlement_status[i] # "none" /\ \A q \in Requests : ~Holds(q, i)

HoldInv == \A i \in Items : HoldOK(i)

(* One payment of a charge is under way at a time, and beyond the debits   *)
(* of payments that failed there is at most one, after which no payment    *)
(* begins.                                                                 *)
ChargeOK(c) ==
    LET debits == Cardinality(ChargeDebits(c))
        failures == Cardinality(Payers(c) \intersect failed)
    IN
    /\ \A r, q \in Payers(c) : pc[r] \in PayingAt /\ pc[q] \in PayingAt => r = q
    /\ \A r \in Payers(c) :
          /\ pc[r] \in PayingAt => charge_status[c] = "paid"
          /\ pc[r] = "charge_link" => ChargeDebits(c) # {}
          /\ pc[r] \in {"charge_debit", "charge_rollback"} => debits <= failures
    /\ debits <= 1 + failures
    /\ charge_status[c] = "pending_payment" => debits <= failures
    /\ charge_status[c] = "paid" =>
          \/ ChargeDebits(c) # {}
          \/ \E r \in Payers(c) : pc[r] \in {"charge_debit", "charge_rollback"}

ChargeInv == \A c \in Requests : charge_status[c] # "none" => ChargeOK(c)

Inv ==
    /\ TypeOK
    /\ LedgerChained
    /\ LedgerInv
    /\ RequestInv
    /\ HoldInv
    /\ SettledAtMostOnce
    /\ SettlementTellsTheTruth
    /\ ChargeInv

-----------------------------------------------------------------------------
(* The wallet. *)

(* A credit keeps the ledger chained and shows up as one more row under    *)
(* its reference.                                                          *)
LEMMA CreditWalletLemma ==
    ASSUME WalletTypeOK, LedgerChained, NEW u \in Users, NEW amt \in Nat,
           NEW type \in ReferenceTypes, NEW id \in ReferenceIds,
           CreditWallet(u, amt, type, id)
    PROVE  /\ WalletTypeOK'
           /\ LedgerChained'
           /\ \A v \in Users, t \in ReferenceTypes, i \in ReferenceIds :
                EntriesFor(v, t, i)' =
                  IF v = u /\ type = t /\ id = i
                  THEN EntriesFor(v, t, i) \union {Len(wallet_ledger[u]) + 1}
                  ELSE EntriesFor(v, t, i)
<1> DEFINE row == LedgerEntry("credit", amt, cached_balance[u] + amt, type, id)
<1>1. /\ row \in LedgerRowOf(ReferenceIds)
      /\ row.balance_after = cached_balance[u] + SignedAmount(row)
      /\ row.balance_after \in Nat
      /\ row.reference_type = type /\ row.reference_id = id
    BY DEF CreditWallet, WalletTypeOK, LedgerEntry, LedgerRowOf, EntryTypes, SignedAmount
<1>2. /\ wallet_ledger' = [wallet_ledger EXCEPT ![u] = Append(@, row)]
      /\ cached_balance' = [cached_balance EXCEPT ![u] = row.balance_after]
    BY DEF CreditWallet, LedgerEntry
<1>3. /\ wallet_ledger[u] \in Seq(LedgerRowOf(ReferenceIds))
      /\ cached_balance[u] \in Nat
      /\ Chained(cached_balance[u], wallet_ledger[u])
    BY DEF WalletTypeOK, LedgerRow, LedgerChained
<1> HIDE DEF row
<1>4. WalletTypeOK'
    BY <1>1, <1>2 DEF WalletTypeOK, LedgerRow
<1>5. \A v \in Users :
        /\ wallet_ledger'[v] = (IF v = u THEN Append(wallet_ledger[u], row)
                                         ELSE wallet_ledger[v])
        /\ cached_balance'[v] = (IF v = u THEN row.balance_after ELSE cached_balance[v])
    BY <1>2 DEF WalletTypeOK
<1>6. Chained(row.balance_after, Append(wallet_ledger[u], row))
    BY <1>1, <1>3, ChainedAfterAppend
<1>7. LedgerChained'
    BY <1>5, <1>6 DEF LedgerChained
<1>8. ASSUME NEW t, NEW i
      PROVE  RowsWith(Append(wallet_ledger[u], row), t, i) =
               IF row.reference_type = t /\ row.reference_id = i
               THEN RowsWith(wallet_ledger[u], t, i) \union {Len(wallet_ledger[u]) + 1}
               ELSE RowsWith(wallet_ledger[u], t, i)
    <2> DEFINE rows == wallet_ledger[u]
    <2>1. rows \in Seq(LedgerRowOf(ReferenceIds)) /\ row \in LedgerRowOf(ReferenceIds)
        BY <1>1, <1>3
    <2> HIDE DEF rows
    <2>2. RowsWith(Append(rows, row), t, i) =
            IF row.reference_type = t /\ row.reference_id = i
            THEN RowsWith(rows, t, i) \union {Len(rows) + 1}
            ELSE RowsWith(rows, t, i)
        BY <2>1, RowsAfterAppend
    <2>. QED
        BY <2>2 DEF rows
<1>. QED
    BY <1>1, <1>4, <1>5, <1>7, <1>8 DEF EntriesFor

(* A debit, which only happens when the balance covers it, likewise.       *)
LEMMA DebitWalletLemma ==
    ASSUME WalletTypeOK, LedgerChained, NEW u \in Users, NEW amt \in Nat,
           NEW type \in ReferenceTypes, NEW id \in ReferenceIds,
           DebitWallet(u, amt, type, id)
    PROVE  /\ WalletTypeOK'
           /\ LedgerChained'
           /\ \A v \in Users, t \in ReferenceTypes, i \in ReferenceIds :
                EntriesFor(v, t, i)' =
                  IF v = u /\ type = t /\ id = i
                  THEN EntriesFor(v, t, i) \union {Len(wallet_ledger[u]) + 1}
                  ELSE EntriesFor(v, t, i)
<1> DEFINE row == LedgerEntry("debit", amt, cached_balance[u] - amt, type, id)
<1>1. /\ row \in LedgerRowOf(ReferenceIds)
      /\ row.balance_after = cached_balance[u] + SignedAmount(row)
      /\ row.balance_after \in Nat
      /\ row.reference_type = type /\ row.reference_id = id
    BY DEF DebitWallet, CanDebit, WalletTypeOK, LedgerEntry, LedgerRowOf, EntryTypes,
       SignedAmount
<1>2. /\ wallet_ledger' = [wallet_ledger EXCEPT ![u] = Append(@, row)]
      /\ cached_balance' = [cached_balance EXCEPT ![u] = row.balance_after]
    BY DEF DebitWallet, LedgerEntry
<1>3. /\ wallet_ledger[u] \in Seq(LedgerRowOf(ReferenceIds))
      /\ cached_balance[u] \in Nat
      /\ Chained(cached_balance[u], wallet_ledger[u])
    BY DEF WalletTypeOK, LedgerRow, LedgerChained
<1> HIDE DEF row
<1>4. WalletTypeOK'
    BY <1>1, <1>2 DEF WalletTypeOK, LedgerRow
<1>5. \A v \in Users :
        /\ wallet_ledger'[v] = (IF v = u THEN Append(wallet_ledger[u], row)
                                         ELSE wallet_ledger[v])
        /\ cached_balance'[v] = (IF v = u THEN row.balance_after ELSE cached_balance[v])
    BY <1>2 DEF WalletTypeOK
<1>6. Chained(row.balance_after, Append(wallet_ledger[u], row))
    BY <1>1, <1>3, ChainedAfterAppend
<1>7. LedgerChained'
    BY <1>5, <1>6 DEF LedgerChained
<1>8. ASSUME NEW t, NEW i
      PROVE  RowsWith(Append(wallet_ledger[u], row), t, i) =
               IF row.reference_type = t /\ row.reference_id = i
               THEN RowsWith(wallet_ledger[u], t, i) \union {Len(wallet_ledger[u]) + 1}
               ELSE RowsWith(wallet_ledger[u], t, i)
    <2> DEFINE rows == wallet_ledger[u]
    <2>1. rows \in Seq(LedgerRowOf(ReferenceIds)) /\ row \in LedgerRowOf(ReferenceIds)
        BY <1>1, <1>3
    <2> HIDE DEF rows
    <2>2. RowsWith(Append(rows, row), t, i) =
            IF row.reference_type = t /\ row.reference_id = i
            THEN RowsWith(rows, t, i) \union {Len(rows) + 1}
            ELSE RowsWith(rows, t, i)
        BY <2>1, RowsAfterAppend
    <2>. QED
        BY <2>2 DEF rows
<1>. QED
    BY <1>1, <1>4, <1>5, <1>7, <1>8 DEF EntriesFor

(* The row a credit or a debit adds is not one of the rows there before.   *)
LEMMA NewRowIsNew ==
    ASSUME WalletTypeOK, NEW u \in Users
    PROVE  \A type \in ReferenceTypes, id \in ReferenceIds :
             Len(wallet_ledger[u]) + 1 \notin EntriesFor(u, type, id)
<1>1. Len(wallet_ledger[u]) \in Nat
    BY DEF WalletTypeOK
<1>. QED
    BY <1>1 DEF EntriesFor, RowsWith

(* The wallet starts typed and chained, with no row of a modelled caller.  *)
LEMMA WalletInitLemma ==
    ASSUME WalletInit
    PROVE  /\ WalletTypeOK
           /\ LedgerChained
           /\ \A u \in Users, type \in ReferenceTypes \ {"opening"}, id \in ReferenceIds :
                EntriesFor(u, type, id) = {}
<1>1. \A u \in Users : /\ wallet_ledger[u] = OpeningRows(OpeningBalance[u], NULL)
                       /\ cached_balance[u] = OpeningBalance[u]
                       /\ OpeningBalance[u] \in Nat
    BY WalletAssumption DEF WalletInit
<1>2. \A u \in Users :
        /\ OpeningRows(OpeningBalance[u], NULL) \in Seq(LedgerRow)
        /\ Chained(OpeningBalance[u], OpeningRows(OpeningBalance[u], NULL))
        /\ \A type \in ReferenceTypes \ {"opening"} : \A id :
             RowsWith(OpeningRows(OpeningBalance[u], NULL), type, id) = {}
    BY <1>1, WalletAssumption, OpeningRowsLemma DEF LedgerRow
<1>3. WalletTypeOK
    BY <1>2, WalletAssumption DEF WalletInit, WalletTypeOK
<1>. QED
    BY <1>1, <1>2, <1>3 DEF LedgerChained, EntriesFor

-----------------------------------------------------------------------------
(* A step is one request's: the others stand where they stood, a charge is *)
(* never removed, and a request never leaves what it works on.             *)
Others(r) ==
    \A q \in Requests : q # r =>
        /\ pc'[q] = pc[q]
        /\ kind'[q] = kind[q]
        /\ scope'[q] = scope[q]
        /\ outcome'[q] = outcome[q]
        /\ charge'[q] = charge[q]
        /\ refund_status'[q] = refund_status[q]
        /\ q \in failed' <=> q \in failed

Grows ==
    \A q \in Requests :
        /\ charge_status[q] # "none" => charge_status'[q] # "none"
        /\ pc[q] # "idle" => scope'[q] = scope[q]
        /\ scope'[q] \in Scopes \union {NULL}

SameMoney(q) ==
    RefundCredits(q)' = RefundCredits(q) /\ ChargeDebits(q)' = ChargeDebits(q)

(* TypeOK, apart from the wallet. *)
Typed ==
    /\ final_price \in [Items -> Nat \union {NULL}]
    /\ settlement_status \in [Items -> SettlementStatuses]
    /\ fulfilments \in [Items -> 0..MaxFulfilments]
    /\ refund_status \in [Requests -> RefundStatuses]
    /\ charge_status \in [Requests -> ChargeStatuses]
    /\ pc \in [Requests -> Locations]
    /\ kind \in [Requests -> {"none", "refund", "settle", "pay"}]
    /\ scope \in [Requests -> Scopes \union {NULL}]
    /\ amount \in [Requests -> Nat]
    /\ captured \in [Requests -> Nat]
    /\ outcome \in [Requests -> SettlementStatuses]
    /\ charge \in [Requests -> Requests \union {NULL}]
    /\ crashed \in SUBSET Requests
    /\ failed \in SUBSET Requests

LEMMA TypeOKIsTyped == TypeOK <=> WalletTypeOK /\ Typed
BY DEF TypeOK, Typed

LEMMA CustomerIsUser ==
    ASSUME NEW s \in Scopes
    PROVE  Customer(s) \in Users
BY RefundsAssumption DEF Scopes, Customer, OrderOf

(* The rows of a request are those that name it, in its customer's ledger. *)
LEMMA RowsOfRequest ==
    ASSUME Inv, NEW r \in Requests
    PROVE  /\ pc[r] = "idle" =>
                 /\ RefundCredits(r) = {} /\ ChargeDebits(r) = {}
                 /\ charge_status[r] = "none"
                 /\ \A u \in Users : /\ EntriesFor(u, "order_refund", r) = {}
                                     /\ EntriesFor(u, "order_additional_charge", r) = {}
           /\ pc[r] # "idle" =>
                 /\ RefundCredits(r) = EntriesFor(Customer(scope[r]), "order_refund", r)
                 /\ ChargeDebits(r) =
                      EntriesFor(Customer(scope[r]), "order_additional_charge", r)
                 /\ scope[r] \in Scopes
<1>1. NULL \notin Scopes
    BY RefundsAssumption DEF Scopes
<1>2. PlaceOK(r) /\ MoneyOK(r)
    BY DEF Inv, RequestInv
<1>3. CASE pc[r] = "idle"
    <2>1. scope[r] = NULL /\ charge_status[r] = "none"
        BY <1>2, <1>3 DEF PlaceOK, MoneyOK
    <2>. QED
        BY <1>1, <1>3, <2>1 DEF Inv, LedgerInv, RefundCredits, ChargeDebits, RowsOf
<1>4. CASE pc[r] # "idle"
    BY <1>1, <1>2, <1>4 DEF PlaceOK, RefundCredits, ChargeDebits, RowsOf
<1>. QED
    BY <1>3, <1>4

(* A step that leaves the wallet alone changes nobody's money, not even    *)
(* that of a request that arrives.                                         *)
LEMMA LedgerFrame ==
    ASSUME Inv, Grows, UNCHANGED walletVars
    PROVE  /\ WalletTypeOK'
           /\ LedgerChained'
           /\ LedgerInv'
           /\ \A q \in Requests : SameMoney(q)
<1> USE DEF Inv
<1>1. cached_balance' = cached_balance /\ wallet_ledger' = wallet_ledger
    BY DEF walletVars
<1>2. WalletTypeOK' /\ LedgerChained'
    BY <1>1 DEF TypeOK, WalletTypeOK, LedgerChained
<1>3. \A u, type, id : EntriesFor(u, type, id)' = EntriesFor(u, type, id)
    BY <1>1 DEF EntriesFor
<1>4. \A q \in Requests : pc[q] # "idle" => Customer(scope[q])' = Customer(scope[q])
    BY DEF Grows, Customer, OrderOf
<1>5. LedgerInv'
    <2> SUFFICES ASSUME NEW u \in Users, NEW q \in Requests
                 PROVE  /\ EntriesFor(u, "order_refund", q)' # {} =>
                              (scope[q] \in Scopes /\ u = Customer(scope[q]))'
                        /\ EntriesFor(u, "order_additional_charge", q)' # {} =>
                              (charge_status[q] # "none" /\ u = Customer(scope[q]))'
        BY DEF LedgerInv
    <2>1. CASE pc[q] = "idle"
        BY <1>3, <2>1, RowsOfRequest
    <2>2. CASE pc[q] # "idle"
        BY <1>3, <1>4, <2>2 DEF LedgerInv, Grows
    <2>. QED
        BY <2>1, <2>2
<1>6. ASSUME NEW q \in Requests PROVE SameMoney(q)
    <2>1. CASE pc[q] = "idle"
        <3>1. scope'[q] = NULL \/ Customer(scope[q])' \in Users
            BY CustomerIsUser DEF Grows, Customer, OrderOf
        <3>. QED
            BY <1>3, <2>1, <3>1, RowsOfRequest DEF SameMoney, RefundCredits, ChargeDebits, RowsOf
    <2>2. CASE pc[q] # "idle"
        <3>1. scope'[q] = scope[q] /\ scope[q] # NULL
            BY <2>2, RowsOfRequest, RefundsAssumption DEF Grows, Scopes
        <3>. QED
            BY <1>3, <1>4, <2>2, <3>1 DEF SameMoney, RefundCredits, ChargeDebits, RowsOf
    <2>. QED
        BY <2>1, <2>2
<1>. QED
    BY <1>2, <1>5, <1>6

(* What is known of the other requests still holds after a step of one.    *)
LEMMA OtherRequests ==
    ASSUME Inv, NEW r \in Requests, Others(r), Grows,
           \A q \in Requests : q # r => RefundCredits(q)' = RefundCredits(q),
           \A q \in Requests : q # r /\ charge_status[q] = "none" =>
              charge_status'[q] = "none",
           PlaceOK(r)', MoneyOK(r)'
    PROVE  RequestInv'
<1> SUFFICES ASSUME NEW q \in Requests, q # r
             PROVE  PlaceOK(q)' /\ MoneyOK(q)'
    BY DEF RequestInv
<1>1. PlaceOK(q) /\ MoneyOK(q) /\ \A c \in Requests : MoneyOK(c)
    BY DEF Inv, RequestInv
<1>2. /\ pc'[q] = pc[q]
      /\ kind'[q] = kind[q]
      /\ scope'[q] = scope[q]
      /\ outcome'[q] = outcome[q]
      /\ charge'[q] = charge[q]
      /\ refund_status'[q] = refund_status[q]
      /\ q \in failed' <=> q \in failed
    BY DEF Others
<1>3. charge_status'[q] = "none" <=> charge_status[q] = "none"
    BY DEF Grows
<1>4. \A c \in Requests : charge_status[c] # "none" =>
         charge_status'[c] # "none" /\ scope'[c] = scope[c]
    BY <1>1 DEF Grows, MoneyOK
<1>5. PlaceOK(q)'
    BY <1>1, <1>2, <1>4 DEF PlaceOK
<1>6. RefundCredits(q)' = RefundCredits(q) /\ Refunded(q)' = Refunded(q)
    BY DEF Refunded
<1>7. MoneyOK(q)'
    BY <1>1, <1>2, <1>3, <1>6 DEF MoneyOK
<1>. QED
    BY <1>5, <1>7

(* Nobody claims or lets go of an item, and a settlement takes effect only *)
(* while it holds its item.                                                *)
LEMMA HoldKept ==
    ASSUME Inv, UNCHANGED settlement_status, failed \subseteq failed',
           \A q \in Requests, i \in Items : Holds(q, i)' <=> Holds(q, i),
           \A q \in Requests, i \in Items :
              q \in Settlers(i)' /\ TookEffect(q)' =>
                 q \in Settlers(i) /\ (TookEffect(q) \/ Holds(q, i))
    PROVE  HoldInv' /\ SettledAtMostOnce'
<1>1. ASSUME NEW i \in Items PROVE HoldOK(i)'
    <2>1. HoldOK(i)
        BY DEF Inv, HoldInv
    <2>2. Settlers(i)' \subseteq Requests /\ Settlers(i) \subseteq Requests
        BY DEF Settlers
    <2>. QED
        BY <2>1, <2>2 DEF HoldOK
<1>2. ASSUME NEW i \in Items, NEW r \in (Settlers(i) \ failed)', NEW q \in (Settlers(i) \ failed)',
             TookEffect(r)', TookEffect(q)'
      PROVE  r = q
    <2>1. r \in Requests /\ q \in Requests
        BY DEF Settlers
    <2>2. /\ r \in Settlers(i) \ failed /\ (TookEffect(r) \/ Holds(r, i))
          /\ q \in Settlers(i) \ failed /\ (TookEffect(q) \/ Holds(q, i))
        BY <1>2, <2>1
    <2>3. HoldOK(i)
        BY DEF Inv, HoldInv
    <2>4. CASE TookEffect(r) /\ TookEffect(q)
        BY <2>2, <2>4 DEF Inv, SettledAtMostOnce, TookEffect
    <2>5. CASE ~TookEffect(r) \/ ~TookEffect(q)
        BY <2>1, <2>2, <2>3, <2>5 DEF HoldOK
    <2>. QED
        BY <2>4, <2>5
<1>. QED
    BY <1>1, <1>2 DEF HoldInv, SettledAtMostOnce, TookEffect

(* What the item's status says is still true when nothing it speaks of is  *)
(* undone.                                                                 *)
LEMMA StatusKept ==
    ASSUME Inv, HoldInv', Grows, UNCHANGED settlement_status, failed \subseteq failed',
           \A i \in Items : Settlers(i) \subseteq Settlers(i)',
           \A q \in Requests :
              /\ refund_status[q] = "completed" => refund_status'[q] = "completed"
              /\ ChargeDebits(q) # {} => ChargeDebits(q)' # {}
              /\ charge[q] # NULL => charge'[q] = charge[q]
              /\ pc[q] = "charge_link" => pc'[q] = "charge_link" \/ q \in failed'
              /\ ChargeDebits(q)' # {} =>
                    /\ ChargeDebits(q) # {}
                       \/ \E r \in Requests : charge'[r] = q /\ pc'[r] = "charge_link"
                    /\ \A i \in Items : q \in Settlers(i)' => q \in Settlers(i)
    PROVE  SettlementTellsTheTruth'
<1> SUFFICES ASSUME NEW i \in Items
             PROVE  /\ settlement_status[i] = "refund_issued" =>
                          \E r \in Settlers(i)' : refund_status'[r] = "completed"
                    /\ settlement_status[i] = "additional_payment_pending" =>
                          \E r \in Settlers(i)' : charge_status'[r] # "none"
                    /\ settlement_status[i] = "additional_payment_paid" =>
                          \E r \in Settlers(i)' : ChargeDebits(r)' # {}
                    /\ settlement_status[i] = "none" =>
                          \A r \in (Settlers(i) \ failed)' :
                             ~Refunded(r)' /\ charge_status'[r] = "none"
                    /\ \A c \in (Settlers(i) \ failed)' : ChargeDebits(c)' # {} =>
                          \/ settlement_status[i] = "additional_payment_paid"
                          \/ \E r \in Requests :
                               charge'[r] = c /\ (pc'[r] = "charge_link" \/ r \in failed')
    BY DEF SettlementTellsTheTruth
<1>1. Settlers(i) \subseteq Requests /\ Settlers(i)' \subseteq Requests
    BY DEF Settlers
<1>2. HoldOK(i)'
    BY DEF HoldInv
<1>3. \A r \in (Settlers(i) \ failed)' : TookEffect(r)' => settlement_status[i] # "none"
    BY <1>1, <1>2 DEF HoldOK
<1>4. ASSUME NEW c \in (Settlers(i) \ failed)', ChargeDebits(c)' # {}
      PROVE  \/ settlement_status[i] = "additional_payment_paid"
             \/ \E r \in Requests :
                  charge'[r] = c /\ (pc'[r] = "charge_link" \/ r \in failed')
    <2>1. c \in Settlers(i) \ failed
        BY <1>1, <1>4
    <2>2. CASE ChargeDebits(c) # {}
        <3>1. \/ settlement_status[i] = "additional_payment_paid"
              \/ \E r \in Requests :
                   charge[r] = c /\ (pc[r] = "charge_link" \/ r \in failed)
            BY <2>1, <2>2 DEF Inv, SettlementTellsTheTruth
        <3>. QED
            BY <1>1, <2>1, <3>1, RefundsAssumption
    <2>. QED
        BY <1>1, <1>4, <2>2
<1>5. \A r \in (Settlers(i) \ failed)' : settlement_status[i] = "none" =>
         ~Refunded(r)' /\ charge_status'[r] = "none"
    BY <1>3 DEF TookEffect
<1>6. /\ settlement_status[i] = "refund_issued" =>
            \E r \in Settlers(i)' : refund_status'[r] = "completed"
      /\ settlement_status[i] = "additional_payment_pending" =>
            \E r \in Settlers(i)' : charge_status'[r] # "none"
      /\ settlement_status[i] = "additional_payment_paid" =>
            \E r \in Settlers(i)' : ChargeDebits(r)' # {}
    BY <1>1 DEF Inv, SettlementTellsTheTruth, Grows
<1>. QED
    BY <1>4, <1>5, <1>6

(* No payment of a charge moves. *)
LEMMA ChargeKept ==
    ASSUME Inv, UNCHANGED charge_status,
           \A q \in Requests :
              /\ charge'[q] = charge[q]
              /\ charge[q] # NULL => pc'[q] = pc[q] /\ (q \in failed' <=> q \in failed)
              /\ ChargeDebits(q)' = ChargeDebits(q)
    PROVE  ChargeInv'
<1> SUFFICES ASSUME NEW c \in Requests, charge_status[c] # "none"
             PROVE  ChargeOK(c)'
    BY DEF ChargeInv
<1>1. ChargeOK(c)
    BY DEF Inv, ChargeInv
<1>2. Payers(c)' = Payers(c)
    BY DEF Payers
<1>3. \A r \in Payers(c) : r \in Requests /\ pc'[r] = pc[r] /\ (r \in failed' <=> r \in failed)
    BY RefundsAssumption DEF Payers
<1>4. (Payers(c) \intersect failed)' = Payers(c) \intersect failed
    BY <1>2, <1>3
<1>5. ChargeDebits(c)' = ChargeDebits(c)
    OBVIOUS
<1>. QED
    BY <1>1, <1>2, <1>3, <1>4, <1>5 DEF ChargeOK

-----------------------------------------------------------------------------
(* A step that moves no money, no charge and no item's status, and claims  *)
(* or lets go of nothing.                                                  *)
LEMMA QuietKeeps ==
    ASSUME Inv, NEW r \in Requests, Others(r), Grows, Typed',
           UNCHANGED <<walletVars, settlement_status, charge_status, charge>>,
           failed \subseteq failed',
           pc[r] \in PayingAt => pc'[r] = pc[r] /\ (r \in failed' <=> r \in failed),
           charge[r] # NULL => pc'[r] = pc[r] /\ (r \in failed' <=> r \in failed),
           refund_status[r] = "completed" => refund_status'[r] = "completed",
           pc[r] # "idle" => kind'[r] = kind[r],
           \A i \in Items : Holds(r, i)' <=> Holds(r, i),
           PlaceOK(r)', MoneyOK(r)'
    PROVE  Inv'
<1>1. /\ WalletTypeOK' /\ LedgerChained' /\ LedgerInv'
      /\ \A q \in Requests : SameMoney(q)
    BY LedgerFrame
<1>2. \A q \in Requests : TookEffect(q)' <=> TookEffect(q)
    BY <1>1 DEF TookEffect, Refunded, SameMoney
<1>3. RequestInv'
    BY <1>1, OtherRequests DEF SameMoney
<1>4. \A q \in Requests, i \in Items : Holds(q, i)' <=> Holds(q, i)
    BY DEF Holds, Others
<1>5. \A q \in Requests, i \in Items : pc[q] # "idle" =>
         (q \in Settlers(i)' <=> q \in Settlers(i))
    BY DEF Settlers, Others, Grows
<1>6. \A q \in Requests : pc[q] = "idle" =>
         /\ ~TookEffect(q)
         /\ ChargeDebits(q) = {}
         /\ \A i \in Items : q \notin Settlers(i)
    BY RowsOfRequest DEF Inv, RequestInv, PlaceOK, TookEffect, Refunded, Settlers
<1>7. HoldInv' /\ SettledAtMostOnce'
    BY <1>2, <1>4, <1>5, <1>6, HoldKept
<1>8. SettlementTellsTheTruth'
    <2>1. \A i \in Items : Settlers(i) \subseteq Settlers(i)'
        BY <1>5, <1>6 DEF Settlers
    <2>2. ASSUME NEW q \in Requests
          PROVE  /\ refund_status[q] = "completed" => refund_status'[q] = "completed"
                 /\ pc[q] = "charge_link" => pc'[q] = "charge_link"
                 /\ ChargeDebits(q)' = ChargeDebits(q)
        BY <1>1 DEF Others, SameMoney, PayingAt
    <2>. QED
        BY <1>5, <1>6, <1>7, <2>1, <2>2, StatusKept
<1>9. ChargeInv'
    <2>1. \A q \in Requests :
             charge[q] # NULL => pc'[q] = pc[q] /\ (q \in failed' <=> q \in failed)
        BY DEF Others
    <2>. QED
        BY <1>1, <2>1, ChargeKept DEF SameMoney
<1>10. TypeOK'
    BY <1>1 DEF TypeOK, Typed
<1>. QED
    BY <1>1, <1>3, <1>7, <1>8, <1>9, <1>10 DEF Inv

(* An admin asks for a refund.                                             *)
LEMMA RefundRequestKeeps ==
    ASSUME Inv, NEW r \in Requests, NEW s \in Scopes, RefundRequest(r, s)
    PROVE  Inv'
<1> USE RefundsAssumption
<1> USE DEF RefundRequest, At, Goto, AfterRefundError, itemVars, rowVars, localVars,
   faultVars
<1>1. Typed /\ PlaceOK(r) /\ MoneyOK(r)
    BY TypeOKIsTyped DEF Inv, RequestInv
<1>2. UNCHANGED <<walletVars, settlement_status, charge_status, charge>>
    OBVIOUS
<1>3. Others(r) /\ Grows
    BY <1>1 DEF Typed, Others, Grows, Scopes
<1>4. Typed'
    BY <1>1 DEF Typed, Locations, PlaceOK, RefundStatuses, SettlementStatuses,
       CapturedAmount, Scopes
<1>5. RefundCredits(r)' = RefundCredits(r) /\ Refunded(r)' = Refunded(r)
    BY <1>2, <1>3, LedgerFrame DEF SameMoney, Refunded
<1>6. PlaceOK(r)'
    BY <1>1, <1>3 DEF Typed, PlaceOK, Grows, RefundingAt, HoldingAt, PayingAt, Outcomes, Scopes
<1>7. MoneyOK(r)'
    BY <1>1, <1>5 DEF Typed, PlaceOK, MoneyOK, RefundingAt
<1>8. \A j \in Items : Holds(r, j)' <=> Holds(r, j)
    BY <1>1 DEF Typed, Holds, HoldingAt, RefundingAt, PlaceOK
<1>9. /\ pc[r] \in PayingAt => pc'[r] = pc[r] /\ (r \in failed' <=> r \in failed)
      /\ charge[r] # NULL => pc'[r] = pc[r] /\ (r \in failed' <=> r \in failed)
      /\ refund_status[r] = "completed" => refund_status'[r] = "completed"
      /\ pc[r] # "idle" => kind'[r] = kind[r]
    BY <1>1 DEF Typed, PlaceOK, MoneyOK, PayingAt, RefundingAt
<1>. QED
    BY <1>2, <1>3, <1>4, <1>6, <1>7, <1>8, <1>9, QuietKeeps

(* A settlement reads what its item was paid.                              *)
LEMMA RefundReadKeeps ==
    ASSUME Inv, NEW r \in Requests, RefundRead(r)
    PROVE  Inv'
<1> USE RefundsAssumption
<1> USE DEF RefundRead, At, Goto, AfterRefundError, itemVars, rowVars, localVars,
   faultVars
<1>1. Typed /\ PlaceOK(r) /\ MoneyOK(r)
    BY TypeOKIsTyped DEF Inv, RequestInv
<1>2. UNCHANGED <<walletVars, settlement_status, charge_status, charge>>
    OBVIOUS
<1>3. Others(r) /\ Grows
    BY <1>1 DEF Typed, Others, Grows, Scopes
<1>4. Typed'
    BY <1>1 DEF Typed, Locations, PlaceOK, RefundStatuses, SettlementStatuses,
       CapturedAmount, Scopes
<1>5. RefundCredits(r)' = RefundCredits(r) /\ Refunded(r)' = Refunded(r)
    BY <1>2, <1>3, LedgerFrame DEF SameMoney, Refunded
<1>6. PlaceOK(r)'
    BY <1>1, <1>3 DEF Typed, PlaceOK, Grows, RefundingAt, HoldingAt, PayingAt, Outcomes, Scopes
<1>7. MoneyOK(r)'
    BY <1>1, <1>5 DEF Typed, PlaceOK, MoneyOK, RefundingAt
<1>8. \A j \in Items : Holds(r, j)' <=> Holds(r, j)
    BY <1>1 DEF Typed, Holds, HoldingAt, RefundingAt, PlaceOK
<1>9. /\ pc[r] \in PayingAt => pc'[r] = pc[r] /\ (r \in failed' <=> r \in failed)
      /\ charge[r] # NULL => pc'[r] = pc[r] /\ (r \in failed' <=> r \in failed)
      /\ refund_status[r] = "completed" => refund_status'[r] = "completed"
      /\ pc[r] # "idle" => kind'[r] = kind[r]
    BY <1>1 DEF Typed, PlaceOK, MoneyOK, PayingAt, RefundingAt
<1>. QED
    BY <1>2, <1>3, <1>4, <1>6, <1>7, <1>8, <1>9, QuietKeeps

(* The guarded INSERT of a refund.                                         *)
LEMMA RefundClaimKeeps ==
    ASSUME Inv, NEW r \in Requests, RefundClaim(r)
    PROVE  Inv'
<1> USE RefundsAssumption
<1> USE DEF RefundClaim, At, Goto, AfterRefundError, itemVars, rowVars, localVars,
   faultVars
<1>1. Typed /\ PlaceOK(r) /\ MoneyOK(r)
    BY TypeOKIsTyped DEF Inv, RequestInv
<1>2. UNCHANGED <<walletVars, settlement_status, charge_status, charge>>
    OBVIOUS
<1>3. Others(r) /\ Grows
    BY <1>1 DEF Typed, Others, Grows, Scopes
<1>4. Typed'
    BY <1>1 DEF Typed, Locations, PlaceOK, RefundStatuses, SettlementStatuses, Scopes
<1>5. RefundCredits(r)' = RefundCredits(r) /\ Refunded(r)' = Refunded(r)
    BY <1>2, <1>3, LedgerFrame DEF SameMoney, Refunded
<1>6. PlaceOK(r)'
    BY <1>1, <1>3 DEF Typed, PlaceOK, Grows, RefundingAt, HoldingAt, PayingAt, Outcomes, Scopes
<1>7. MoneyOK(r)'
    BY <1>1, <1>5 DEF Typed, PlaceOK, MoneyOK, RefundingAt
<1>8. \A j \in Items : Holds(r, j)' <=> Holds(r, j)
    BY <1>1 DEF Typed, Holds, HoldingAt, RefundingAt, PlaceOK
<1>9. /\ pc[r] \in PayingAt => pc'[r] = pc[r] /\ (r \in failed' <=> r \in failed)
      /\ charge[r] # NULL => pc'[r] = pc[r] /\ (r \in failed' <=> r \in failed)
      /\ refund_status[r] = "completed" => refund_status'[r] = "completed"
      /\ pc[r] # "idle" => kind'[r] = kind[r]
    BY <1>1 DEF Typed, PlaceOK, MoneyOK, PayingAt, RefundingAt
<1>. QED
    BY <1>2, <1>3, <1>4, <1>6, <1>7, <1>8, <1>9, QuietKeeps

(* A refund is marked completed.                                           *)
LEMMA RefundCompleteKeeps ==
    ASSUME Inv, NEW r \in Requests, RefundComplete(r)
    PROVE  Inv'
<1> USE RefundsAssumption
<1> USE DEF RefundComplete, At, Goto, AfterRefundError, itemVars, rowVars, localVars,
   faultVars
<1>1. Typed /\ PlaceOK(r) /\ MoneyOK(r)
    BY TypeOKIsTyped DEF Inv, RequestInv
<1>2. UNCHANGED <<walletVars, settlement_status, charge_status, charge>>
    OBVIOUS
<1>3. Others(r) /\ Grows
    BY <1>1 DEF Typed, Others, Grows, Scopes
<1>4. Typed'
    BY <1>1 DEF Typed, Locations, PlaceOK, RefundStatuses, SettlementStatuses, Scopes
<1>5. RefundCredits(r)' = RefundCredits(r) /\ Refunded(r)' = Refunded(r)
    BY <1>2, <1>3, LedgerFrame DEF SameMoney, Refunded
<1>6. PlaceOK(r)'
    BY <1>1, <1>3 DEF Typed, PlaceOK, Grows, RefundingAt, HoldingAt, PayingAt, Outcomes, Scopes
<1>7. MoneyOK(r)'
    BY <1>1, <1>5 DEF Typed, PlaceOK, MoneyOK, RefundingAt
<1>8. \A j \in Items : Holds(r, j)' <=> Holds(r, j)
    BY <1>1 DEF Typed, Holds, HoldingAt, RefundingAt, PlaceOK
<1>9. /\ pc[r] \in PayingAt => pc'[r] = pc[r] /\ (r \in failed' <=> r \in failed)
      /\ charge[r] # NULL => pc'[r] = pc[r] /\ (r \in failed' <=> r \in failed)
      /\ refund_status[r] = "completed" => refund_status'[r] = "completed"
      /\ pc[r] # "idle" => kind'[r] = kind[r]
    BY <1>1 DEF Typed, PlaceOK, MoneyOK, PayingAt, RefundingAt
<1>. QED
    BY <1>2, <1>3, <1>4, <1>6, <1>7, <1>8, <1>9, QuietKeeps

(* A refund is rejected.                                                   *)
LEMMA RefundRejectKeeps ==
    ASSUME Inv, NEW r \in Requests, RefundReject(r)
    PROVE  Inv'
<1> USE RefundsAssumption
<1> USE DEF RefundReject, At, Goto, AfterRefundError, itemVars, rowVars, localVars,
   faultVars
<1>1. Typed /\ PlaceOK(r) /\ MoneyOK(r)
    BY TypeOKIsTyped DEF Inv, RequestInv
<1>2. UNCHANGED <<walletVars, settlement_status, charge_status, charge>>
    OBVIOUS
<1>3. Others(r) /\ Grows
    BY <1>1 DEF Typed, Others, Grows, Scopes
<1>4. Typed'
    BY <1>1 DEF Typed, Locations, PlaceOK, RefundStatuses, SettlementStatuses, Scopes
<1>5. RefundCredits(r)' = RefundCredits(r) /\ Refunded(r)' = Refunded(r)
    BY <1>2, <1>3, LedgerFrame DEF SameMoney, Refunded
<1>6. PlaceOK(r)'
    BY <1>1, <1>3 DEF Typed, PlaceOK, Grows, RefundingAt, HoldingAt, PayingAt, Outcomes, Scopes
<1>7. MoneyOK(r)'
    BY <1>1, <1>5 DEF Typed, PlaceOK, MoneyOK, RefundingAt
<1>8. \A j \in Items : Holds(r, j)' <=> Holds(r, j)
    BY <1>1 DEF Typed, Holds, HoldingAt, RefundingAt, PlaceOK
<1>9. /\ pc[r] \in PayingAt => pc'[r] = pc[r] /\ (r \in failed' <=> r \in failed)
      /\ charge[r] # NULL => pc'[r] = pc[r] /\ (r \in failed' <=> r \in failed)
      /\ refund_status[r] = "completed" => refund_status'[r] = "completed"
      /\ pc[r] # "idle" => kind'[r] = kind[r]
    BY <1>1 DEF Typed, PlaceOK, MoneyOK, PayingAt, RefundingAt
<1>. QED
    BY <1>2, <1>3, <1>4, <1>6, <1>7, <1>8, <1>9, QuietKeeps

(* A settlement reads its item.                                            *)
LEMMA SettleReadKeeps ==
    ASSUME Inv, NEW r \in Requests, NEW i \in Items, SettleRead(r, i)
    PROVE  Inv'
<1> USE RefundsAssumption
<1> USE DEF SettleRead, At, Goto, AfterRefundError, itemVars, rowVars, localVars,
   faultVars
<1>1. Typed /\ PlaceOK(r) /\ MoneyOK(r)
    BY TypeOKIsTyped DEF Inv, RequestInv
<1>2. UNCHANGED <<walletVars, settlement_status, charge_status, charge>>
    OBVIOUS
<1>3. Others(r) /\ Grows
    BY <1>1 DEF Typed, Others, Grows, Scopes
<1>4. Typed'
    <2>1. final_price[i] # NULL => Distance(final_price[i], line_total[i]) \in Nat
        <3> SUFFICES ASSUME final_price[i] # NULL
                     PROVE  Distance(final_price[i], line_total[i]) \in Nat
            OBVIOUS
        <3>1. final_price[i] \in Nat /\ line_total[i] \in Nat
            BY <1>1 DEF Typed
        <3>. QED
            BY <3>1 DEF Distance
    <2>2. amount' \in [Requests -> Nat]
        BY <1>1, <2>1 DEF Typed
    <2>3. outcome' \in [Requests -> SettlementStatuses]
        <3>1. outcome \in [Requests -> SettlementStatuses]
            BY <1>1 DEF Typed
        <3>2. CASE final_price[i] = NULL
            BY <3>1, <3>2
        <3>3. CASE final_price[i] # NULL
            <4>1. final_price[i] \in Nat /\ line_total[i] \in Nat
                BY <1>1, <3>3 DEF Typed
            <4>2. outcome' = [outcome EXCEPT ![r] =
                     CASE final_price[i] = line_total[i] -> "settled"
                       [] final_price[i] < line_total[i] -> "refund_issued"
                       [] final_price[i] > line_total[i] -> "additional_payment_pending"]
                BY <3>3
            <4>. HIDE DEF SettleRead
            <4>. QED
                BY <3>1, <4>1, <4>2 DEF SettlementStatuses
        <3>. QED
            BY <3>2, <3>3
    <2>4. pc' \in [Requests -> Locations]
        BY <1>1 DEF Typed, Locations
    <2>5. scope' \in [Requests -> Scopes \union {NULL}]
        BY <1>1 DEF Typed, Scopes
    <2>6. kind' \in [Requests -> {"none", "refund", "settle", "pay"}]
        BY <1>1 DEF Typed
    <2>. QED
        BY <1>1, <2>2, <2>3, <2>4, <2>5, <2>6 DEF Typed
<1>5. RefundCredits(r)' = RefundCredits(r) /\ Refunded(r)' = Refunded(r)
    BY <1>2, <1>3, LedgerFrame DEF SameMoney, Refunded
<1>6. PlaceOK(r)'
    BY <1>1, <1>3 DEF Typed, PlaceOK, Grows, RefundingAt, HoldingAt, PayingAt, Outcomes, Scopes
<1>7. MoneyOK(r)'
    BY <1>1, <1>5 DEF Typed, PlaceOK, MoneyOK, RefundingAt
<1>8. \A j \in Items : Holds(r, j)' <=> Holds(r, j)
    BY <1>1 DEF Typed, Holds, HoldingAt, RefundingAt, PlaceOK
<1>9. /\ pc[r] \in PayingAt => pc'[r] = pc[r] /\ (r \in failed' <=> r \in failed)
      /\ charge[r] # NULL => pc'[r] = pc[r] /\ (r \in failed' <=> r \in failed)
      /\ refund_status[r] = "completed" => refund_status'[r] = "completed"
      /\ pc[r] # "idle" => kind'[r] = kind[r]
    BY <1>1 DEF Typed, PlaceOK, MoneyOK, PayingAt, RefundingAt
<1>. QED
    BY <1>2, <1>3, <1>4, <1>6, <1>7, <1>8, <1>9, QuietKeeps

(* A Worker dies.                                                          *)
LEMMA CrashKeeps ==
    ASSUME Inv, NEW r \in Requests, Crash(r)
    PROVE  Inv'
<1> USE RefundsAssumption
<1> USE DEF Crash, At, Goto, AfterRefundError, itemVars, rowVars, localVars, faultVars
<1>1. Typed /\ PlaceOK(r) /\ MoneyOK(r)
    BY TypeOKIsTyped DEF Inv, RequestInv
<1>2. UNCHANGED <<walletVars, settlement_status, charge_status, charge>>
    OBVIOUS
<1>3. Others(r) /\ Grows
    BY <1>1 DEF Typed, Others, Grows, Scopes
<1>4. Typed'
    BY <1>1 DEF Typed, Locations, PlaceOK, RefundStatuses, SettlementStatuses, Scopes
<1>5. RefundCredits(r)' = RefundCredits(r) /\ Refunded(r)' = Refunded(r)
    BY <1>2, <1>3, LedgerFrame DEF SameMoney, Refunded
<1>6. PlaceOK(r)'
    BY <1>1, <1>3 DEF Typed, PlaceOK, Grows, RefundingAt, HoldingAt, PayingAt, Outcomes, Scopes
<1>7. MoneyOK(r)'
    BY <1>1, <1>5 DEF Typed, PlaceOK, MoneyOK, RefundingAt
<1>8. \A j \in Items : Holds(r, j)' <=> Holds(r, j)
    BY <1>1 DEF Typed, Holds, HoldingAt, RefundingAt, PlaceOK
<1>9. /\ pc[r] \in PayingAt => pc'[r] = pc[r] /\ (r \in failed' <=> r \in failed)
      /\ charge[r] # NULL => pc'[r] = pc[r] /\ (r \in failed' <=> r \in failed)
      /\ refund_status[r] = "completed" => refund_status'[r] = "completed"
      /\ pc[r] # "idle" => kind'[r] = kind[r]
    BY <1>1 DEF Typed, PlaceOK, MoneyOK, PayingAt, RefundingAt
<1>. QED
    BY <1>2, <1>3, <1>4, <1>6, <1>7, <1>8, <1>9, QuietKeeps

-----------------------------------------------------------------------------
(* The money of a refund: the row that names the request is the only one,  *)
(* and nobody else's rows change.                                          *)
LEMMA CreditedRefund ==
    ASSUME Inv, NEW r \in Requests, RefundCredit(r)
    PROVE  /\ WalletTypeOK' /\ LedgerChained' /\ LedgerInv'
           /\ Refunded(r)' /\ \A n, m \in RefundCredits(r)' : n = m
           /\ \A q \in Requests :
                 /\ q # r => RefundCredits(q)' = RefundCredits(q)
                 /\ ChargeDebits(q)' = ChargeDebits(q)
<1> USE RefundsAssumption DEF Inv
<1> DEFINE u == Customer(scope[r])
           new == Len(wallet_ledger[u]) + 1
<1>1. /\ pc[r] = "refund_credit" /\ scope[r] \in Scopes /\ RefundCredits(r) = {}
      /\ CreditWallet(u, amount[r], "order_refund", r)
      /\ scope' = scope /\ charge_status' = charge_status
    BY DEF RefundCredit, At, RequestInv, PlaceOK, MoneyOK, Refunded, localVars, rowVars
<1>2. u \in Users /\ amount[r] \in Nat /\ r \in ReferenceIds /\ Requests \subseteq ReferenceIds
    BY <1>1, CustomerIsUser DEF TypeOK
<1>3. /\ WalletTypeOK' /\ LedgerChained'
      /\ \A v \in Users, t \in ReferenceTypes, i \in ReferenceIds :
            EntriesFor(v, t, i)' =
              IF v = u /\ "order_refund" = t /\ r = i
              THEN EntriesFor(v, t, i) \union {new}
              ELSE EntriesFor(v, t, i)
    BY <1>1, <1>2, CreditWalletLemma DEF TypeOK, ReferenceTypes
<1>4. \A v \in Users, q \in Requests :
         /\ EntriesFor(v, "order_additional_charge", q)'
              = EntriesFor(v, "order_additional_charge", q)
         /\ q # r \/ v # u => EntriesFor(v, "order_refund", q)' = EntriesFor(v, "order_refund", q)
    BY <1>2, <1>3 DEF ReferenceTypes
<1>5. EntriesFor(u, "order_refund", r)' = {new}
    BY <1>1, <1>2, <1>3, RowsOfRequest DEF ReferenceTypes
<1>6. \A q \in Requests : Customer(scope[q])' = Customer(scope[q])
    BY <1>1 DEF Customer, OrderOf
<1>7. LedgerInv'
    BY <1>1, <1>2, <1>4, <1>6 DEF LedgerInv
<1>8. scope[r] # NULL /\ \A q \in Requests : scope[q] # NULL => Customer(scope[q]) \in Users
    BY <1>1, CustomerIsUser DEF TypeOK, Scopes
<1>9. RefundCredits(r)' = {new}
    BY <1>1, <1>5, <1>6, <1>8 DEF RefundCredits, RowsOf
<1>10. ASSUME NEW q \in Requests
       PROVE  /\ q # r => RefundCredits(q)' = RefundCredits(q)
              /\ ChargeDebits(q)' = ChargeDebits(q)
    BY <1>1, <1>4, <1>6, <1>8 DEF RefundCredits, ChargeDebits, RowsOf
<1>. QED
    BY <1>3, <1>7, <1>9, <1>10 DEF Refunded

(* The money of a charge: one more row names it, and nobody else's rows    *)
(* change.                                                                 *)
LEMMA DebitedCharge ==
    ASSUME Inv, NEW r \in Requests, pc[r] = "charge_debit",
           DebitWallet(Customer(scope[r]), amount[r], "order_additional_charge", charge[r]),
           UNCHANGED <<scope, charge, charge_status>>
    PROVE  /\ WalletTypeOK' /\ LedgerChained' /\ LedgerInv'
           /\ \E new : /\ new \notin ChargeDebits(charge[r])
                       /\ ChargeDebits(charge[r])' = ChargeDebits(charge[r]) \union {new}
           /\ \A q \in Requests :
                 /\ RefundCredits(q)' = RefundCredits(q)
                 /\ q # charge[r] => ChargeDebits(q)' = ChargeDebits(q)
<1> USE RefundsAssumption DEF Inv
<1> DEFINE u == Customer(scope[r])
           c == charge[r]
           new == Len(wallet_ledger[u]) + 1
<1>1. /\ scope[r] \in Scopes /\ c \in Requests /\ scope[c] = scope[r]
      /\ charge_status[c] # "none"
    BY DEF RequestInv, PlaceOK, PayingAt
<1>2. u \in Users /\ amount[r] \in Nat /\ c \in ReferenceIds /\ Requests \subseteq ReferenceIds
    BY <1>1, CustomerIsUser DEF TypeOK
<1>3. /\ WalletTypeOK' /\ LedgerChained'
      /\ \A v \in Users, t \in ReferenceTypes, i \in ReferenceIds :
            EntriesFor(v, t, i)' =
              IF v = u /\ "order_additional_charge" = t /\ c = i
              THEN EntriesFor(v, t, i) \union {new}
              ELSE EntriesFor(v, t, i)
    BY <1>1, <1>2, DebitWalletLemma DEF TypeOK, ReferenceTypes
<1>4. \A v \in Users, q \in Requests :
         /\ EntriesFor(v, "order_refund", q)' = EntriesFor(v, "order_refund", q)
         /\ q # c \/ v # u => EntriesFor(v, "order_additional_charge", q)'
                                = EntriesFor(v, "order_additional_charge", q)
    BY <1>2, <1>3 DEF ReferenceTypes
<1>5. /\ EntriesFor(u, "order_additional_charge", c)'
           = EntriesFor(u, "order_additional_charge", c) \union {new}
      /\ new \notin EntriesFor(u, "order_additional_charge", c)
    BY <1>1, <1>2, <1>3, NewRowIsNew DEF ReferenceTypes, TypeOK
<1>6. \A q \in Requests : Customer(scope[q])' = Customer(scope[q])
    BY DEF Customer, OrderOf
<1>7. LedgerInv'
    BY <1>1, <1>2, <1>4, <1>6 DEF LedgerInv
<1>8. scope[c] # NULL /\ \A q \in Requests : scope[q] # NULL => Customer(scope[q]) \in Users
    BY <1>1, CustomerIsUser DEF TypeOK, Scopes
<1>9. ChargeDebits(c)' = ChargeDebits(c) \union {new} /\ new \notin ChargeDebits(c)
    BY <1>1, <1>5, <1>6, <1>8 DEF ChargeDebits, RowsOf
<1>10. ASSUME NEW q \in Requests
       PROVE  /\ RefundCredits(q)' = RefundCredits(q)
              /\ q # c => ChargeDebits(q)' = ChargeDebits(q)
    BY <1>4, <1>6, <1>8 DEF RefundCredits, ChargeDebits, RowsOf
<1>. QED
    BY <1>3, <1>7, <1>9, <1>10

(* What is counted can be counted. *)
LEMMA Countable ==
    ASSUME Inv, NEW c \in Requests
    PROVE  /\ IsFiniteSet(ChargeDebits(c)) /\ Cardinality(ChargeDebits(c)) \in Nat
           /\ IsFiniteSet(Payers(c) \intersect failed)
           /\ Cardinality(Payers(c) \intersect failed) \in Nat
<1>1. IsFiniteSet(ChargeDebits(c))
    <2>1. CASE pc[c] = "idle"
        BY <2>1, RowsOfRequest, FS_EmptySet
    <2>2. CASE pc[c] # "idle"
        <3>1. Customer(scope[c]) \in Users
            BY <2>2, RowsOfRequest, CustomerIsUser
        <3>2. Len(wallet_ledger[Customer(scope[c])]) \in Nat
            BY <3>1 DEF Inv, TypeOK, WalletTypeOK
        <3>3. IsFiniteSet(1..Len(wallet_ledger[Customer(scope[c])]))
            BY <3>2, FS_Interval
        <3>4. ChargeDebits(c) \subseteq 1..Len(wallet_ledger[Customer(scope[c])])
            BY <2>2, RowsOfRequest DEF EntriesFor, RowsWith
        <3>. QED
            BY <3>3, <3>4, FS_Subset
    <2>. QED
        BY <2>1, <2>2
<1>2. IsFiniteSet(Payers(c) \intersect failed)
    BY RefundsAssumption, FS_Subset DEF Payers
<1>. QED
    BY <1>1, <1>2, FS_CardinalityType

-----------------------------------------------------------------------------
(* The steps of a settlement that change whether it holds its item, or     *)
(* whether it took effect.                                                 *)

(* A settlement claims its item, or finds it claimed.                      *)
LEMMA SettleClaimKeeps ==
    ASSUME Inv, NEW r \in Requests, SettleClaim(r)
    PROVE  Inv'
<1> USE RefundsAssumption
<1>1. Typed /\ PlaceOK(r) /\ MoneyOK(r)
    BY TypeOKIsTyped DEF Inv, RequestInv
<1>i. PICK i \in Items : i = scope[r]
    BY <1>1 DEF SettleClaim, At, PlaceOK
<1>2. /\ pc[r] = "settle_claim" /\ kind[r] = "settle" /\ i = scope[r] /\ outcome[r] \in Outcomes
      /\ UNCHANGED <<walletVars, final_price, fulfilments, rowVars, localVars, faultVars>>
    BY <1>i, <1>1 DEF SettleClaim, At, PlaceOK
<1>3. /\ pc' = [pc EXCEPT ![r] = pc'[r]]
      /\ pc'[r] \in {"settle_mark", "refund_read", "charge_insert", "done"}
      /\ pc'[r] = "refund_read" => outcome[r] = "refund_issued"
      /\ pc'[r] = "charge_insert" => outcome[r] = "additional_payment_pending"
      /\ pc'[r] = "settle_mark" => outcome[r] = "settled"
    BY <1>1, <1>2 DEF SettleClaim, Goto, Typed, Outcomes
<1>4. Others(r) /\ Grows
    BY <1>1, <1>2, <1>3 DEF Typed, Others, Grows, localVars, rowVars, faultVars
<1>5. Typed'
    <2>1. settlement_status' \in [Items -> SettlementStatuses]
        BY <1>1 DEF SettleClaim, Typed, SettlementStatuses
    <2>2. pc' \in [Requests -> Locations]
        BY <1>1, <1>3 DEF Typed, Locations
    <2>. QED
        BY <1>1, <1>2, <2>1, <2>2 DEF Typed, localVars, rowVars, faultVars
<1>6. /\ WalletTypeOK' /\ LedgerChained' /\ LedgerInv'
      /\ \A q \in Requests : SameMoney(q)
    BY <1>2, <1>4, LedgerFrame
<1>7. RequestInv'
    <2>1. PlaceOK(r)'
        BY <1>1, <1>2, <1>3 DEF PlaceOK, RefundingAt, HoldingAt, PayingAt, localVars, rowVars,
           faultVars
    <2>2. MoneyOK(r)'
        BY <1>1, <1>2, <1>3, <1>6 DEF MoneyOK, SameMoney, Refunded, localVars, rowVars, faultVars
    <2>. QED
        BY <1>2, <1>4, <1>6, <2>1, <2>2, OtherRequests DEF SameMoney, rowVars
<1>8. /\ \A q \in Requests : TookEffect(q)' <=> TookEffect(q)
      /\ \A q \in Requests, j \in Items : Holds(q, j)' <=>
            Holds(q, j) \/ (q = r /\ j = i /\ pc'[r] # "done")
      /\ \A j \in Items : Settlers(j)' = Settlers(j)
      /\ ~TookEffect(r) /\ failed' = failed
    BY <1>1, <1>2, <1>3, <1>4, <1>6
       DEF TookEffect, Refunded, SameMoney, Holds, Others, Settlers, HoldingAt, RefundingAt,
           MoneyOK, localVars, rowVars, faultVars
<1>9. HoldInv' /\ SettledAtMostOnce'
    <2>1. \/ UNCHANGED settlement_status /\ pc'[r] = "done"
          \/ /\ settlement_status[i] = "none"
             /\ settlement_status' = [settlement_status EXCEPT ![i] = "settling"]
        BY <1>1, <1>2 DEF SettleClaim, CanSettle, Goto, Typed
    <2>2. CASE UNCHANGED settlement_status /\ pc'[r] = "done"
        BY <1>8, <2>2, HoldKept
    <2>3. CASE /\ settlement_status[i] = "none"
               /\ settlement_status' = [settlement_status EXCEPT ![i] = "settling"]
        <3>1. HoldOK(i) /\ \A q \in Settlers(i) : q \in Requests
            BY <1>2 DEF Inv, HoldInv, Settlers
        <3>2. /\ \A q \in Requests : ~Holds(q, i)
              /\ \A q \in Settlers(i) \ failed : ~TookEffect(q)
            BY <2>3, <3>1 DEF HoldOK
        <3>3. settlement_status'[i] = "settling"
            BY <1>1, <1>2, <2>3 DEF Typed
        <3>4. HoldOK(i)'
            BY <1>8, <3>1, <3>2, <3>3 DEF HoldOK
        <3>5. ASSUME NEW j \in Items, j # i PROVE HoldOK(j)'
            <4>1. HoldOK(j) /\ settlement_status'[j] = settlement_status[j]
                BY <1>1, <2>3, <3>5 DEF Inv, HoldInv, Typed
            <4>. QED
                BY <1>8, <3>5, <4>1 DEF HoldOK, Settlers
        <3>6. SettledAtMostOnce'
            BY <1>8 DEF Inv, SettledAtMostOnce, TookEffect, Settlers
        <3>. QED
            BY <3>4, <3>5, <3>6 DEF HoldInv
    <2>. QED
        BY <2>1, <2>2, <2>3
<1>10. SettlementTellsTheTruth'
    <2> SUFFICES ASSUME NEW j \in Items
                 PROVE  /\ settlement_status'[j] = "refund_issued" =>
                              \E q \in Settlers(j) : refund_status[q] = "completed"
                        /\ settlement_status'[j] = "additional_payment_pending" =>
                              \E q \in Settlers(j) : charge_status[q] # "none"
                        /\ settlement_status'[j] = "additional_payment_paid" =>
                              \E q \in Settlers(j) : ChargeDebits(q) # {}
                        /\ settlement_status'[j] = "none" =>
                              \A q \in Settlers(j) \ failed :
                                 ~Refunded(q) /\ charge_status[q] = "none"
                        /\ \A c \in Settlers(j) \ failed : ChargeDebits(c) # {} =>
                              \/ settlement_status'[j] = "additional_payment_paid"
                              \/ \E q \in Requests :
                                   charge[q] = c /\ (pc'[q] = "charge_link" \/ q \in failed)
        BY <1>2, <1>6, <1>8
           DEF SettlementTellsTheTruth, SameMoney, Refunded, Settlers, localVars, rowVars, faultVars
    <2>1. \/ settlement_status'[j] = settlement_status[j]
          \/ settlement_status'[j] = "settling" /\ settlement_status[j] = "none"
        BY <1>1, <1>2 DEF SettleClaim, CanSettle, Typed
    <2>2. \A q \in Requests : pc[q] = "charge_link" => pc'[q] = "charge_link"
        BY <1>2, <1>4 DEF Others
    <2>. QED
        BY <2>1, <2>2 DEF Inv, SettlementTellsTheTruth
<1>11. ChargeInv'
    <2>1. \A q \in Requests : charge[q] # NULL => pc'[q] = pc[q]
        BY <1>1, <1>2, <1>4 DEF Others, PlaceOK
    <2>. QED
        BY <1>2, <1>6, <2>1, ChargeKept DEF SameMoney, localVars, rowVars, faultVars
<1>12. TypeOK'
    BY <1>5, <1>6 DEF TypeOK, Typed
<1>. QED
    BY <1>6, <1>7, <1>9, <1>10, <1>11, <1>12 DEF Inv

(* The refund reaches the wallet.                                          *)
LEMMA RefundCreditKeeps ==
    ASSUME Inv, NEW r \in Requests, RefundCredit(r)
    PROVE  Inv'
<1> USE RefundsAssumption
<1>1. Typed /\ PlaceOK(r) /\ MoneyOK(r)
    BY TypeOKIsTyped DEF Inv, RequestInv
<1>2. /\ pc[r] = "refund_credit" /\ pc' = [pc EXCEPT ![r] = "refund_complete"]
      /\ UNCHANGED <<itemVars, rowVars, localVars, faultVars>>
    BY DEF RefundCredit, At, Goto
<1>3. Others(r) /\ Grows
    BY <1>1, <1>2 DEF Typed, Others, Grows, localVars, rowVars, faultVars
<1>4. Typed'
    BY <1>1, <1>2 DEF Typed, Locations, itemVars, localVars, rowVars, faultVars
<1>5. /\ WalletTypeOK' /\ LedgerChained' /\ LedgerInv'
      /\ Refunded(r)' /\ \A n, m \in RefundCredits(r)' : n = m
      /\ \A q \in Requests :
            /\ q # r => RefundCredits(q)' = RefundCredits(q)
            /\ ChargeDebits(q)' = ChargeDebits(q)
    BY CreditedRefund
<1>6. RequestInv'
    <2>1. PlaceOK(r)'
        BY <1>1, <1>2 DEF Typed, PlaceOK, RefundingAt, HoldingAt, PayingAt, localVars, rowVars,
           faultVars
    <2>2. MoneyOK(r)'
        BY <1>1, <1>2, <1>5 DEF Typed, MoneyOK, localVars, rowVars, faultVars
    <2>. QED
        BY <1>2, <1>3, <1>5, <2>1, <2>2, OtherRequests DEF rowVars
<1>7. /\ \A q \in Requests, j \in Items : Holds(q, j)' <=> Holds(q, j)
      /\ \A j \in Items : Settlers(j)' = Settlers(j)
      /\ \A j \in Items : r \in Settlers(j) => Holds(r, j)
      /\ \A q \in Requests : q # r => (TookEffect(q)' <=> TookEffect(q))
    BY <1>1, <1>2, <1>3, <1>5
       DEF Typed, Holds, Others, Settlers, TookEffect, Refunded, HoldingAt, RefundingAt,
           localVars, rowVars
<1>8. HoldInv' /\ SettledAtMostOnce'
    <2>1. settlement_status' = settlement_status /\ failed \subseteq failed'
        BY <1>2 DEF itemVars, faultVars
    <2>2. \A q \in Requests, j \in Items : q \in Settlers(j)' /\ TookEffect(q)' =>
             q \in Settlers(j) /\ (TookEffect(q) \/ Holds(q, j))
        BY <1>7
    <2>. QED
        BY <1>7, <2>1, <2>2, HoldKept
<1>9. SettlementTellsTheTruth'
    <2>1. settlement_status' = settlement_status /\ failed \subseteq failed'
        BY <1>2 DEF itemVars, faultVars
    <2>2. ASSUME NEW q \in Requests
          PROVE  /\ refund_status[q] = "completed" => refund_status'[q] = "completed"
                 /\ charge[q] # NULL => charge'[q] = charge[q]
                 /\ pc[q] = "charge_link" => pc'[q] = "charge_link"
        BY <1>2, <1>3 DEF Others, rowVars, localVars
    <2>. QED
        BY <1>3, <1>5, <1>7, <1>8, <2>1, <2>2, StatusKept
<1>10. ChargeInv'
    <2>1. \A q \in Requests : charge[q] # NULL => pc'[q] = pc[q]
        BY <1>1, <1>2, <1>3 DEF Others, PlaceOK, RefundingAt
    <2>. QED
        BY <1>2, <1>5, <2>1, ChargeKept DEF localVars, rowVars, faultVars
<1>11. TypeOK'
    BY <1>4, <1>5 DEF TypeOK, Typed
<1>. QED
    BY <1>5, <1>6, <1>8, <1>9, <1>10, <1>11 DEF Inv

(* The difference is charged.                                              *)
LEMMA ChargeInsertKeeps ==
    ASSUME Inv, NEW r \in Requests, ChargeInsert(r)
    PROVE  Inv'
<1> USE RefundsAssumption
<1>1. Typed /\ PlaceOK(r) /\ MoneyOK(r)
    BY TypeOKIsTyped DEF Inv, RequestInv
<1>2. /\ pc[r] = "charge_insert" /\ pc' = [pc EXCEPT ![r] = "settle_mark"]
      /\ charge_status' = [charge_status EXCEPT ![r] = "pending_payment"]
      /\ UNCHANGED <<walletVars, itemVars, refund_status, localVars, faultVars>>
    BY DEF ChargeInsert, At, Goto
<1>3. Others(r) /\ Grows /\ charge_status[r] = "none" /\ charge_status'[r] = "pending_payment"
    BY <1>1, <1>2 DEF Typed, Others, Grows, MoneyOK, localVars, faultVars
<1>4. Typed'
    BY <1>1, <1>2 DEF Typed, Locations, ChargeStatuses, itemVars, localVars, faultVars
<1>5. /\ WalletTypeOK' /\ LedgerChained' /\ LedgerInv'
      /\ \A q \in Requests : SameMoney(q)
    BY <1>2, <1>3, LedgerFrame
<1>6. RequestInv'
    <2>1. PlaceOK(r)'
        BY <1>1, <1>2 DEF Typed, PlaceOK, RefundingAt, HoldingAt, PayingAt, Outcomes, localVars,
           faultVars
    <2>2. MoneyOK(r)'
        BY <1>1, <1>2, <1>5 DEF Typed, PlaceOK, MoneyOK, SameMoney, Refunded, localVars, faultVars
    <2>. QED
        BY <1>1, <1>2, <1>3, <1>5, <2>1, <2>2, OtherRequests DEF SameMoney, Typed
<1>7. /\ \A q \in Requests, j \in Items : Holds(q, j)' <=> Holds(q, j)
      /\ \A j \in Items : Settlers(j)' = Settlers(j)
      /\ \A j \in Items : r \in Settlers(j) => Holds(r, j)
      /\ \A q \in Requests : q # r => (TookEffect(q)' <=> TookEffect(q))
    BY <1>1, <1>2, <1>3, <1>5
       DEF Typed, Holds, Others, Settlers, TookEffect, Refunded, SameMoney, HoldingAt,
           RefundingAt, localVars
<1>8. HoldInv' /\ SettledAtMostOnce'
    <2>1. settlement_status' = settlement_status /\ failed \subseteq failed'
        BY <1>2 DEF itemVars, faultVars
    <2>2. \A q \in Requests, j \in Items : q \in Settlers(j)' /\ TookEffect(q)' =>
             q \in Settlers(j) /\ (TookEffect(q) \/ Holds(q, j))
        BY <1>7
    <2>. QED
        BY <1>7, <2>1, <2>2, HoldKept
<1>9. SettlementTellsTheTruth'
    <2>1. settlement_status' = settlement_status /\ failed \subseteq failed'
        BY <1>2 DEF itemVars, faultVars
    <2>2. ASSUME NEW q \in Requests
          PROVE  /\ refund_status[q] = "completed" => refund_status'[q] = "completed"
                 /\ charge[q] # NULL => charge'[q] = charge[q]
                 /\ pc[q] = "charge_link" => pc'[q] = "charge_link"
                 /\ ChargeDebits(q)' = ChargeDebits(q)
        BY <1>2, <1>3, <1>5 DEF Others, SameMoney, localVars
    <2>. QED
        BY <1>3, <1>7, <1>8, <2>1, <2>2, StatusKept
<1>10. ChargeInv'
    <2> SUFFICES ASSUME NEW c \in Requests, charge_status'[c] # "none"
                 PROVE  ChargeOK(c)'
        BY DEF ChargeInv
    <2>1. Payers(c)' = Payers(c) /\ failed' = failed /\ ChargeDebits(c)' = ChargeDebits(c)
        BY <1>2, <1>5 DEF Payers, SameMoney, localVars, faultVars
    <2>2. \A q \in Payers(c) : q \in Requests /\ pc'[q] = pc[q]
        BY <1>1, <1>2, <1>3 DEF Payers, Others, PlaceOK
    <2>3. CASE c = r
        <3>1. Payers(r) = {}
            BY <1>3 DEF Inv, RequestInv, PlaceOK, Payers
        <3>2. ChargeDebits(r) = {}
            BY <1>2, <1>3, CustomerIsUser, RowsOfRequest DEF Inv, LedgerInv
        <3>. QED
            BY <1>3, <2>1, <2>3, <3>1, <3>2, FS_EmptySet DEF ChargeOK
    <2>4. CASE c # r
        <3>1. ChargeOK(c) /\ charge_status'[c] = charge_status[c]
            BY <1>1, <1>2, <2>4 DEF Inv, ChargeInv, Typed
        <3>. QED
            BY <2>1, <2>2, <3>1 DEF ChargeOK
    <2>. QED
        BY <2>3, <2>4
<1>11. TypeOK'
    BY <1>4, <1>5 DEF TypeOK, Typed
<1>. QED
    BY <1>5, <1>6, <1>8, <1>9, <1>10, <1>11 DEF Inv

(* A settlement ends: what it did is marked, or it lets go of its item.    *)
LEMMA SettlementEnds ==
    ASSUME Inv, NEW r \in Requests, SettleMark(r) \/ SettleRollback(r)
    PROVE  Inv'
<1> USE RefundsAssumption
<1>1. Typed /\ PlaceOK(r) /\ MoneyOK(r)
    BY TypeOKIsTyped DEF Inv, RequestInv
<1>i. PICK i \in Items : i = scope[r]
    BY <1>1 DEF SettleMark, SettleRollback, At, PlaceOK
<1>2. /\ pc[r] \in {"settle_mark", "settle_rollback"} /\ pc' = [pc EXCEPT ![r] = "done"]
      /\ UNCHANGED <<walletVars, final_price, fulfilments, rowVars, localVars, faultVars>>
      /\ Holds(r, i) /\ outcome[r] \in Outcomes
    BY <1>1, <1>i DEF SettleMark, SettleRollback, At, Goto, Holds, HoldingAt, PlaceOK
<1>s. PICK status \in Outcomes \union {"none"} :
         /\ settlement_status' =
              [settlement_status EXCEPT ![i] = IF @ = "settling" THEN status ELSE @]
         /\ pc[r] = "settle_mark" => status = outcome[r]
         /\ pc[r] = "settle_rollback" => status = "none"
    BY <1>2, <1>i DEF SettleMark, SettleRollback, WhileSettling, At
<1>3. Others(r) /\ Grows
    BY <1>1, <1>2 DEF Typed, Others, Grows, localVars, rowVars, faultVars
<1>4. Typed'
    <2>1. settlement_status' \in [Items -> SettlementStatuses]
        BY <1>1, <1>s DEF Typed, SettlementStatuses, Outcomes
    <2>. QED
        BY <1>1, <1>2, <2>1 DEF Typed, Locations, localVars, rowVars, faultVars
<1>5. /\ WalletTypeOK' /\ LedgerChained' /\ LedgerInv'
      /\ \A q \in Requests : SameMoney(q)
    BY <1>2, <1>3, LedgerFrame
<1>6. RequestInv'
    <2>1. PlaceOK(r)'
        BY <1>1, <1>2 DEF Typed, PlaceOK, RefundingAt, HoldingAt, PayingAt, localVars, rowVars,
           faultVars
    <2>2. MoneyOK(r)'
        BY <1>1, <1>2, <1>5 DEF Typed, MoneyOK, SameMoney, Refunded, localVars, rowVars, faultVars
    <2>. QED
        BY <1>2, <1>3, <1>5, <2>1, <2>2, OtherRequests DEF SameMoney, rowVars
<1>7. /\ \A q \in Requests, j \in Items : Holds(q, j)' <=> Holds(q, j) /\ q # r
      /\ \A j \in Items : Settlers(j)' = Settlers(j)
      /\ \A q \in Requests : TookEffect(q)' <=> TookEffect(q)
      /\ \A j \in Items : j # i => ~Holds(r, j)
      /\ failed' = failed
    BY <1>1, <1>2, <1>3, <1>5, <1>i
       DEF Typed, Holds, Others, Settlers, TookEffect, Refunded, SameMoney, HoldingAt,
           RefundingAt, localVars, rowVars, faultVars
<1>8. /\ \A j \in Items : j # i => settlement_status'[j] = settlement_status[j]
      /\ settlement_status'[i] =
            IF settlement_status[i] = "settling" THEN status ELSE settlement_status[i]
      /\ settlement_status[i] \in {"settling", "additional_payment_paid"}
    BY <1>1, <1>2, <1>s DEF Typed, Inv, HoldInv, HoldOK
<1>9. \A q \in Settlers(i) \ failed : TookEffect(q) =>
         q = r /\ settlement_status'[i] # "none"
    <2>1. \A q \in Settlers(i) \ failed : TookEffect(q) => q \in Requests /\ q = r
        BY <1>2 DEF Inv, HoldInv, HoldOK, Settlers
    <2>2. r \notin failed /\ TookEffect(r) => pc[r] # "settle_rollback"
        BY <1>1 DEF MoneyOK, TookEffect
    <2>3. status \in Outcomes \/ pc[r] = "settle_rollback"
        BY <1>2, <1>s
    <2>. QED
        BY <1>8, <2>1, <2>2, <2>3 DEF Outcomes
<1>10. HoldInv' /\ SettledAtMostOnce'
    <2>1. HoldOK(i)'
        <3>1. \A q \in Requests : ~Holds(q, i)'
            BY <1>2, <1>7 DEF Inv, HoldInv, HoldOK
        <3>2. \A q \in Settlers(i) : q \in Requests
            BY DEF Settlers
        <3>. QED
            BY <1>7, <1>9, <3>1, <3>2 DEF HoldOK
    <2>2. ASSUME NEW j \in Items, j # i PROVE HoldOK(j)'
        <3>1. HoldOK(j) /\ \A q \in Settlers(j) : q \in Requests
            BY DEF Inv, HoldInv, Settlers
        <3>2. \A q \in Requests : Holds(q, j)' <=> Holds(q, j)
            BY <1>7, <2>2
        <3>3. settlement_status'[j] = settlement_status[j] /\ Settlers(j)' = Settlers(j)
            BY <1>7, <1>8, <2>2
        <3>4. failed' = failed /\ \A q \in Requests : TookEffect(q)' <=> TookEffect(q)
            BY <1>7
        <3>. QED
            BY <3>1, <3>2, <3>3, <3>4 DEF HoldOK
    <2>3. SettledAtMostOnce'
        <3>1. \A j \in Items : \A q \in Settlers(j) : q \in Requests
            BY DEF Settlers
        <3>. QED
            BY <1>7, <3>1 DEF Inv, SettledAtMostOnce, TookEffect
    <2>. QED
        BY <2>1, <2>2, <2>3 DEF HoldInv
<1>11. SettlementTellsTheTruth'
    <2> SUFFICES ASSUME NEW j \in Items
                 PROVE  /\ settlement_status'[j] = "refund_issued" =>
                              \E q \in Settlers(j) : refund_status[q] = "completed"
                        /\ settlement_status'[j] = "additional_payment_pending" =>
                              \E q \in Settlers(j) : charge_status[q] # "none"
                        /\ settlement_status'[j] = "additional_payment_paid" =>
                              \E q \in Settlers(j) : ChargeDebits(q) # {}
                        /\ settlement_status'[j] = "none" =>
                              \A q \in Settlers(j) \ failed : ~TookEffect(q)
                        /\ \A c \in Settlers(j) \ failed : ChargeDebits(c) # {} =>
                              \/ settlement_status'[j] = "additional_payment_paid"
                              \/ \E q \in Requests :
                                   charge[q] = c /\ (pc'[q] = "charge_link" \/ q \in failed)
        <3>1. \A q \in Requests : Refunded(q)' = Refunded(q) /\ ChargeDebits(q)' = ChargeDebits(q)
            BY <1>5 DEF SameMoney, Refunded
        <3>2. /\ refund_status' = refund_status /\ charge_status' = charge_status
              /\ charge' = charge /\ failed' = failed
            BY <1>2 DEF localVars, rowVars, faultVars
        <3>3. \A j \in Items : Settlers(j)' = Settlers(j) /\ Settlers(j) \subseteq Requests
            BY <1>7 DEF Settlers
        <3>. QED
            BY <3>1, <3>2, <3>3 DEF SettlementTellsTheTruth, TookEffect
    <2>1. \A q \in Requests : pc[q] = "charge_link" => pc'[q] = "charge_link"
        BY <1>2, <1>3 DEF Others
    <2>2. CASE settlement_status'[j] = settlement_status[j]
        BY <2>1, <2>2 DEF Inv, SettlementTellsTheTruth, TookEffect
    <2>3. CASE settlement_status'[j] # settlement_status[j]
        <3>1. j = i /\ settlement_status[i] = "settling" /\ settlement_status'[i] = status
            BY <1>8, <2>3
        <3>2. r \in Settlers(i)
            BY <1>2 DEF Holds, Settlers
        <3>3. status = "refund_issued" => refund_status[r] = "completed"
            BY <1>1, <1>2, <1>s DEF MoneyOK
        <3>4. status = "additional_payment_pending" => charge_status[r] # "none"
            BY <1>1, <1>2, <1>s DEF MoneyOK
        <3>5. status = "none" => \A q \in Settlers(i) \ failed : ~TookEffect(q)
            BY <1>9, <3>1
        <3>6. \A c \in Settlers(i) \ failed : ChargeDebits(c) # {} =>
                 \E q \in Requests : charge[q] = c /\ (pc'[q] = "charge_link" \/ q \in failed)
            BY <2>1, <3>1 DEF Inv, SettlementTellsTheTruth
        <3>. QED
            BY <3>1, <3>2, <3>3, <3>4, <3>5, <3>6 DEF Outcomes
    <2>. QED
        BY <2>2, <2>3
<1>12. ChargeInv'
    <2>1. \A q \in Requests : charge[q] # NULL => pc'[q] = pc[q]
        BY <1>1, <1>2, <1>3 DEF Others, PlaceOK
    <2>. QED
        BY <1>2, <1>5, <2>1, ChargeKept DEF SameMoney, localVars, rowVars, faultVars
<1>13. TypeOK'
    BY <1>4, <1>5 DEF TypeOK, Typed
<1>. QED
    BY <1>5, <1>6, <1>10, <1>11, <1>12, <1>13 DEF Inv

-----------------------------------------------------------------------------
(* The steps of a payment.                                                 *)

(* A payment of c moves: the payments of other charges are as they were.   *)
LEMMA OtherCharges ==
    ASSUME Inv, NEW r \in Requests, NEW c \in Requests, Others(r),
           charge'[r] = c, charge[r] \in {c, NULL}, charge_status[c] # "none",
           \A d \in Requests : d # c =>
              charge_status'[d] = charge_status[d] /\ ChargeDebits(d)' = ChargeDebits(d),
           ChargeOK(c)'
    PROVE  ChargeInv'
<1> SUFFICES ASSUME NEW d \in Requests, d # c, charge_status[d] # "none"
             PROVE  ChargeOK(d)'
    BY DEF ChargeInv
<1>1. ChargeOK(d)
    BY DEF Inv, ChargeInv
<1>2. Payers(d)' = Payers(d)
    BY RefundsAssumption DEF Payers, Others
<1>3. \A q \in Payers(d) : /\ q \in Requests
                           /\ pc'[q] = pc[q]
                           /\ q \in failed' <=> q \in failed
    BY RefundsAssumption DEF Payers, Others
<1>4. (Payers(d) \intersect failed)' = Payers(d) \intersect failed
    BY <1>2, <1>3
<1>. QED
    BY <1>1, <1>2, <1>3, <1>4 DEF ChargeOK

(* A payment touches neither items nor refunds.                            *)
LEMMA PaymentKeeps ==
    ASSUME Inv, NEW r \in Requests, Others(r), Grows, Typed',
           UNCHANGED <<settlement_status, refund_status>>,
           kind[r] \in {"none", "pay"}, kind'[r] = "pay",
           pc[r] # "idle" => charge'[r] = charge[r],
           \A q \in Requests : charge_status[q] = "none" => charge_status'[q] = "none",
           WalletTypeOK', LedgerChained', LedgerInv',
           \A q \in Requests :
              /\ RefundCredits(q)' = RefundCredits(q)
              /\ ChargeDebits(q) # {} => ChargeDebits(q)' # {}
              /\ ChargeDebits(q)' # {} =>
                    ChargeDebits(q) # {} \/ (charge'[r] = q /\ pc'[r] = "charge_link"),
           pc[r] = "charge_link" => r \in failed',
           failed \subseteq failed',
           PlaceOK(r)', MoneyOK(r)', ChargeInv'
    PROVE  Inv'
<1>1. RequestInv'
    BY OtherRequests
<1>2. /\ \A q \in Requests, j \in Items : Holds(q, j)' <=> Holds(q, j)
      /\ \A j \in Items : Settlers(j)' = Settlers(j)
      /\ \A q \in Requests : TookEffect(q)' <=> TookEffect(q)
    BY DEF Holds, Settlers, TookEffect, Refunded, Others, Grows
<1>3. HoldInv' /\ SettledAtMostOnce'
    BY <1>2, HoldKept
<1>4. SettlementTellsTheTruth'
    <2>1. ASSUME NEW q \in Requests
          PROVE  /\ charge[q] # NULL => charge'[q] = charge[q]
                 /\ pc[q] = "charge_link" => pc'[q] = "charge_link" \/ q \in failed'
                 /\ ChargeDebits(q)' # {} => ChargeDebits(q) # {}
                       \/ \E p \in Requests : charge'[p] = q /\ pc'[p] = "charge_link"
        BY DEF Others, Inv, RequestInv, PlaceOK
    <2>. QED
        BY <1>2, <1>3, <2>1, StatusKept
<1>5. TypeOK'
    BY DEF TypeOK, Typed
<1>. QED
    BY <1>1, <1>3, <1>4, <1>5 DEF Inv

(* A customer's payment claims a charge, or finds it claimed.              *)
LEMMA ChargeClaimKeeps ==
    ASSUME Inv, NEW r \in Requests, NEW c \in Requests, ChargeClaim(r, c)
    PROVE  Inv'
<1> USE RefundsAssumption
<1>1. Typed /\ PlaceOK(r) /\ MoneyOK(r) /\ PlaceOK(c) /\ MoneyOK(c) /\ charge_status[r] = "none"
    BY TypeOKIsTyped, RowsOfRequest DEF Inv, RequestInv, ChargeClaim, At
<1>2. /\ pc[r] = "idle" /\ charge_status[c] # "none" /\ r # c
      /\ kind' = [kind EXCEPT ![r] = "pay"]
      /\ scope' = [scope EXCEPT ![r] = scope[c]]
      /\ amount' = [amount EXCEPT ![r] = amount[c]]
      /\ charge' = [charge EXCEPT ![r] = c]
      /\ UNCHANGED <<walletVars, itemVars, refund_status, captured, outcome, faultVars>>
    BY <1>1 DEF ChargeClaim, At
<1>3. \/ /\ charge_status[c] = "pending_payment"
         /\ charge_status' = [charge_status EXCEPT ![c] = "paid"]
         /\ pc' = [pc EXCEPT ![r] = "charge_debit"]
      \/ /\ charge_status' = charge_status
         /\ pc' = [pc EXCEPT ![r] = "done"]
    BY DEF ChargeClaim, CanPayCharge, Goto
<1>4. kind[c] = "settle" /\ scope[c] \in Items /\ scope[c] \in Scopes
    BY <1>1, <1>2 DEF MoneyOK, PlaceOK, Scopes
<1>5. Others(r) /\ Grows
    BY <1>1, <1>2, <1>3, <1>4 DEF Typed, Others, Grows, faultVars
<1>6. Typed'
    BY <1>1, <1>2, <1>3, <1>4 DEF Typed, Locations, ChargeStatuses, itemVars, faultVars
<1>7. /\ WalletTypeOK' /\ LedgerChained' /\ LedgerInv'
      /\ \A q \in Requests : SameMoney(q)
    BY <1>2, <1>5, LedgerFrame
<1>8. PlaceOK(r)' /\ MoneyOK(r)'
    <2>1. PlaceOK(r)'
        BY <1>1, <1>2, <1>3, <1>4, <1>5
           DEF Typed, PlaceOK, Grows, RefundingAt, HoldingAt, PayingAt, faultVars
    <2>2. MoneyOK(r)'
        BY <1>1, <1>2, <1>3, <1>7 DEF Typed, MoneyOK, SameMoney, Refunded, faultVars
    <2>. QED
        BY <2>1, <2>2
<1>9. ChargeOK(c)'
    <2>1. ChargeOK(c) /\ r \notin failed /\ charge[r] = NULL
        BY <1>1, <1>2 DEF Inv, ChargeInv, PlaceOK
    <2>2. Payers(c)' = Payers(c) \union {r} /\ r \notin Payers(c)
        BY <1>1, <1>2, <2>1 DEF Payers, Typed
    <2>3. (Payers(c) \intersect failed)' = Payers(c) \intersect failed
        BY <1>2, <2>1, <2>2 DEF faultVars
    <2>4. \A q \in Payers(c) : pc'[q] = pc[q]
        BY <1>5, <2>2 DEF Others, Payers
    <2>5. ChargeDebits(c)' = ChargeDebits(c)
        BY <1>7 DEF SameMoney
    <2>6. pc'[r] = "charge_debit" \/ pc'[r] = "done"
        BY <1>1, <1>3 DEF Typed
    <2>7. CASE /\ charge_status[c] = "pending_payment"
               /\ charge_status' = [charge_status EXCEPT ![c] = "paid"]
               /\ pc' = [pc EXCEPT ![r] = "charge_debit"]
        <3>1. charge_status'[c] = "paid" /\ pc'[r] = "charge_debit"
            BY <1>1, <2>7 DEF Typed
        <3>2. \A q \in Payers(c) : pc[q] \notin PayingAt
            BY <2>1, <2>7 DEF ChargeOK
        <3>. QED
            BY <2>1, <2>2, <2>3, <2>4, <2>5, <2>7, <3>1, <3>2 DEF ChargeOK, PayingAt
    <2>8. CASE charge_status' = charge_status /\ pc' = [pc EXCEPT ![r] = "done"]
        <3>1. pc'[r] = "done"
            BY <1>1, <2>8 DEF Typed
        <3>. QED
            BY <2>1, <2>2, <2>3, <2>4, <2>5, <2>8, <3>1 DEF ChargeOK, PayingAt
    <2>. QED
        BY <1>3, <2>7, <2>8
<1>10. ChargeInv'
    <2>1. charge'[r] = c /\ charge[r] = NULL
        BY <1>1, <1>2 DEF Typed, PlaceOK
    <2>2. \A d \in Requests : d # c =>
             charge_status'[d] = charge_status[d] /\ ChargeDebits(d)' = ChargeDebits(d)
        BY <1>1, <1>3, <1>7 DEF Typed, SameMoney
    <2>. QED
        BY <1>2, <1>5, <1>9, <2>1, <2>2, OtherCharges
<1>11. /\ kind[r] = "none" /\ kind'[r] = "pay"
       /\ \A q \in Requests : charge_status[q] = "none" => charge_status'[q] = "none"
       /\ UNCHANGED settlement_status /\ failed' = failed
    BY <1>1, <1>2, <1>3 DEF Typed, PlaceOK, itemVars, faultVars
<1>. QED
    BY <1>2, <1>5, <1>6, <1>7, <1>8, <1>10, <1>11, PaymentKeeps DEF SameMoney

(* The charge is debited, or the balance does not allow it.                *)
LEMMA ChargeDebitKeeps ==
    ASSUME Inv, NEW r \in Requests, ChargeDebit(r)
    PROVE  Inv'
<1> USE RefundsAssumption
<1>1. Typed /\ PlaceOK(r) /\ MoneyOK(r)
    BY TypeOKIsTyped DEF Inv, RequestInv
<1>c. PICK c \in Requests : c = charge[r]
    BY <1>1 DEF ChargeDebit, At, PlaceOK, PayingAt
<1>2. /\ pc[r] = "charge_debit" /\ kind[r] = "pay" /\ charge_status[c] # "none"
      /\ r \notin failed
      /\ UNCHANGED <<itemVars, rowVars, localVars, faultVars>>
    BY <1>1, <1>c DEF ChargeDebit, At, PlaceOK, PayingAt
<1>3. /\ pc' = [pc EXCEPT ![r] = pc'[r]]
      /\ pc'[r] \in {"charge_link", "charge_rollback"}
    BY <1>1 DEF ChargeDebit, Goto, Typed
<1>4. Others(r) /\ Grows
    BY <1>1, <1>2, <1>3 DEF Typed, Others, Grows, localVars, rowVars, faultVars
<1>5. Typed'
    BY <1>1, <1>2, <1>3 DEF Typed, Locations, itemVars, localVars, rowVars, faultVars
<1>6. /\ WalletTypeOK' /\ LedgerChained' /\ LedgerInv'
      /\ \A q \in Requests :
            /\ RefundCredits(q)' = RefundCredits(q)
            /\ q # c => ChargeDebits(q)' = ChargeDebits(q)
      /\ \/ /\ pc'[r] = "charge_link"
            /\ \E new : /\ new \notin ChargeDebits(c)
                        /\ ChargeDebits(c)' = ChargeDebits(c) \union {new}
         \/ pc'[r] = "charge_rollback" /\ ChargeDebits(c)' = ChargeDebits(c)
    <2>1. CASE /\ DebitWallet(Customer(scope[r]), amount[r], "order_additional_charge", charge[r])
               /\ Goto(r, "charge_link")
        <3>1. pc'[r] = "charge_link" /\ UNCHANGED <<scope, charge, charge_status>>
            BY <1>1, <1>2, <2>1 DEF Goto, Typed, localVars, rowVars
        <3>2. ChargeDebits(charge[r])' = ChargeDebits(c)'
            BY <1>c, <3>1 DEF ChargeDebits, RowsOf, EntriesFor, RowsWith
        <3>. QED
            BY <1>2, <1>c, <2>1, <3>1, <3>2, DebitedCharge
    <2>2. CASE Goto(r, "charge_rollback") /\ UNCHANGED walletVars
        <3>1. pc'[r] = "charge_rollback"
            BY <1>1, <2>2 DEF Goto, Typed
        <3>. QED
            BY <1>4, <2>2, <3>1, LedgerFrame DEF SameMoney
    <2>. QED
        BY <2>1, <2>2 DEF ChargeDebit
<1>7. PlaceOK(r)' /\ MoneyOK(r)'
    <2>1. PlaceOK(r)'
        BY <1>1, <1>2, <1>3 DEF PlaceOK, RefundingAt, HoldingAt, PayingAt, localVars, rowVars,
           faultVars
    <2>2. MoneyOK(r)'
        BY <1>1, <1>2, <1>3, <1>6 DEF MoneyOK, Refunded, localVars, rowVars, faultVars
    <2>. QED
        BY <2>1, <2>2
<1>8. ChargeOK(c)'
    <2>1. ChargeOK(c) /\ r \in Payers(c)
        BY <1>2, <1>c DEF Inv, ChargeInv, Payers
    <2>2. Payers(c)' = Payers(c) /\ failed' = failed /\ charge_status' = charge_status
        BY <1>2 DEF Payers, localVars, rowVars, faultVars
    <2>3. \A q \in Payers(c) : q # r => pc'[q] = pc[q] /\ pc[q] \notin PayingAt
        BY <1>2, <1>4, <2>1 DEF ChargeOK, Others, Payers, PayingAt
    <2>4. /\ charge_status[c] = "paid"
          /\ Cardinality(ChargeDebits(c)) <= Cardinality(Payers(c) \intersect failed)
        BY <1>2, <2>1 DEF ChargeOK, PayingAt
    <2>5. CASE pc'[r] = "charge_rollback" /\ ChargeDebits(c)' = ChargeDebits(c)
        BY <2>1, <2>2, <2>3, <2>4, <2>5 DEF ChargeOK, PayingAt
    <2>6. ASSUME pc'[r] = "charge_link",
                 NEW new, new \notin ChargeDebits(c),
                 ChargeDebits(c)' = ChargeDebits(c) \union {new}
          PROVE  ChargeOK(c)'
        <3>1. /\ Cardinality(ChargeDebits(c) \union {new}) = Cardinality(ChargeDebits(c)) + 1
              /\ Cardinality(ChargeDebits(c)) \in Nat
              /\ Cardinality(Payers(c) \intersect failed) \in Nat
            BY <2>6, Countable, FS_AddElement
        <3>2. Cardinality(ChargeDebits(c))' <= 1 + Cardinality(Payers(c) \intersect failed)
            BY <2>4, <2>6, <3>1
        <3>3. ChargeDebits(c)' # {}
            BY <2>6
        <3>. QED
            BY <2>1, <2>2, <2>3, <2>4, <2>6, <3>2, <3>3 DEF ChargeOK, PayingAt
    <2>. QED
        BY <1>6, <2>5, <2>6
<1>9. ChargeInv'
    <2>1. charge' = charge /\ charge_status' = charge_status
        BY <1>2 DEF localVars, rowVars
    <2>. QED
        BY <1>2, <1>c, <1>4, <1>6, <1>8, <2>1, OtherCharges
<1>10. /\ UNCHANGED <<settlement_status, refund_status, charge_status, charge, kind>>
       /\ failed' = failed
       /\ \A q \in Requests :
             /\ ChargeDebits(q) # {} => ChargeDebits(q)' # {}
             /\ ChargeDebits(q)' # {} =>
                   ChargeDebits(q) # {} \/ (charge'[r] = q /\ pc'[r] = "charge_link")
    BY <1>2, <1>c, <1>6 DEF itemVars, rowVars, localVars, faultVars
<1>. QED
    BY <1>2, <1>4, <1>5, <1>6, <1>7, <1>9, <1>10, PaymentKeeps

(* A step of a payment that leaves the wallet alone: the charge it is for  *)
(* keeps its debits, and the payment stays or gives the charge up.         *)
LEMMA PaymentMoves ==
    ASSUME Inv, NEW r \in Requests, NEW c \in Requests, c = charge[r],
           pc[r] \in PayingAt, pc'[r] \in {"charge_rollback", "done"},
           UNCHANGED <<walletVars, itemVars, refund_status, localVars, crashed>>,
           pc' = [pc EXCEPT ![r] = pc'[r]],
           failed' \in {failed, failed \union {r}},
           pc[r] = "charge_link" => r \in failed',
           r \in failed' \/ pc[r] # "charge_link",
           charge_status'[c] # "none",
           \A q \in Requests : q # c => charge_status'[q] = charge_status[q],
           charge_status' \in [Requests -> ChargeStatuses],
           ChargeOK(c)'
    PROVE  Inv'
<1> USE RefundsAssumption
<1>1. Typed /\ PlaceOK(r) /\ MoneyOK(r)
    BY TypeOKIsTyped DEF Inv, RequestInv
<1>2. kind[r] = "pay" /\ charge_status[c] # "none"
    BY <1>1 DEF PlaceOK
<1>3. Others(r) /\ Grows
    BY <1>1 DEF Typed, Others, Grows, localVars, PayingAt
<1>4. Typed'
    BY <1>1 DEF Typed, Locations, itemVars, localVars
<1>5. /\ WalletTypeOK' /\ LedgerChained' /\ LedgerInv'
      /\ \A q \in Requests : SameMoney(q)
    BY <1>3, LedgerFrame
<1>6. charge_status'[r] = "none" <=> charge_status[r] = "none"
    BY <1>2
<1>7. PlaceOK(r)'
    BY <1>1, <1>2 DEF PlaceOK, RefundingAt, HoldingAt, PayingAt, localVars
<1>8. MoneyOK(r)'
    BY <1>1, <1>2, <1>5, <1>6 DEF MoneyOK, SameMoney, Refunded, PayingAt, localVars
<1>9. charge' = charge /\ kind' = kind /\ settlement_status' = settlement_status
    BY DEF localVars, itemVars
<1>10. ChargeInv'
    BY <1>2, <1>3, <1>5, <1>9, OtherCharges DEF SameMoney
<1>11. /\ failed \subseteq failed'
       /\ \A q \in Requests : charge_status[q] = "none" => charge_status'[q] = "none"
       /\ \A q \in Requests : /\ RefundCredits(q)' = RefundCredits(q)
                              /\ ChargeDebits(q)' = ChargeDebits(q)
    BY <1>2, <1>5 DEF SameMoney
<1>. QED
    BY <1>2, <1>3, <1>4, <1>5, <1>7, <1>8, <1>9, <1>10, <1>11, PaymentKeeps

(* The claim of a charge is given back.                                    *)
LEMMA ChargeRollbackKeeps ==
    ASSUME Inv, NEW r \in Requests, ChargeRollback(r)
    PROVE  Inv'
<1> USE RefundsAssumption
<1>1. Typed /\ PlaceOK(r)
    BY TypeOKIsTyped DEF Inv, RequestInv
<1>c. PICK c \in Requests : c = charge[r]
    BY <1>1 DEF ChargeRollback, At, PlaceOK, PayingAt
<1>2. /\ pc[r] = "charge_rollback" /\ charge_status[c] # "none"
      /\ charge_status' = [charge_status EXCEPT ![c] = "pending_payment"]
      /\ pc' = [pc EXCEPT ![r] = "done"]
      /\ UNCHANGED <<walletVars, itemVars, refund_status, localVars, faultVars>>
    BY <1>1, <1>c DEF ChargeRollback, At, Goto, PlaceOK, PayingAt
<1>3. pc'[r] = "done" /\ charge_status'[c] = "pending_payment"
    BY <1>1, <1>2 DEF Typed
<1>4. Others(r) /\ Grows
    BY <1>1, <1>2 DEF Typed, Others, Grows, localVars, faultVars
<1>5. ChargeOK(c)'
    <2>1. ChargeOK(c) /\ r \in Payers(c)
        BY <1>2, <1>c DEF Inv, ChargeInv, Payers
    <2>2. Payers(c)' = Payers(c) /\ failed' = failed /\ ChargeDebits(c)' = ChargeDebits(c)
        BY <1>2, <1>4, LedgerFrame DEF Payers, SameMoney, localVars, faultVars
    <2>3. \A q \in Payers(c) : q # r => pc'[q] = pc[q] /\ pc[q] \notin PayingAt
        BY <1>2, <1>4, <2>1 DEF ChargeOK, Others, Payers, PayingAt
    <2>4. Cardinality(ChargeDebits(c)) <= Cardinality(Payers(c) \intersect failed)
        BY <1>2, <2>1 DEF ChargeOK
    <2>. QED
        BY <1>3, <2>1, <2>2, <2>3, <2>4 DEF ChargeOK, PayingAt
<1>6. /\ charge_status' \in [Requests -> ChargeStatuses]
      /\ \A q \in Requests : q # c => charge_status'[q] = charge_status[q]
    BY <1>1, <1>2 DEF Typed, ChargeStatuses
<1>. QED
    BY <1>2, <1>3, <1>5, <1>6, <1>c, PaymentMoves DEF PayingAt, faultVars

(* A payment whose statement throws gives the charge up; after the debit   *)
(* it is one of those that failed.                                         *)
LEMMA PaymentFails ==
    ASSUME Inv, NEW r \in Requests, pc[r] \in {"charge_debit", "charge_link"},
           pc' = [pc EXCEPT ![r] = pc'[r]],
           \/ pc[r] = "charge_debit" /\ pc'[r] = "charge_rollback" /\ failed' = failed
           \/ /\ pc[r] = "charge_link" /\ pc'[r] \in {"charge_rollback", "done"}
              /\ failed' = failed \union {r},
           UNCHANGED <<walletVars, itemVars, rowVars, localVars, crashed>>
    PROVE  Inv'
<1> USE RefundsAssumption
<1>1. Typed /\ PlaceOK(r)
    BY TypeOKIsTyped DEF Inv, RequestInv
<1>c. PICK c \in Requests : c = charge[r]
    BY <1>1 DEF PlaceOK, PayingAt
<1>2. charge_status[c] # "none" /\ r \notin failed /\ charge_status' = charge_status
    BY <1>1, <1>c DEF PlaceOK, PayingAt, rowVars
<1>3. Others(r) /\ Grows
    BY <1>1 DEF Typed, Others, Grows, localVars, rowVars
<1>4. ChargeOK(c)'
    <2>1. ChargeOK(c) /\ r \in Payers(c) /\ charge_status[c] = "paid"
        <3>1. ChargeOK(c)
            BY <1>2 DEF Inv, ChargeInv
        <3>2. r \in Payers(c) /\ pc[r] \in PayingAt
            BY <1>c DEF Payers, PayingAt
        <3>. QED
            BY <3>1, <3>2 DEF ChargeOK
    <2>2. Payers(c)' = Payers(c) /\ ChargeDebits(c)' = ChargeDebits(c)
        BY <1>3, LedgerFrame DEF Payers, SameMoney, localVars
    <2>3. \A q \in Payers(c) : q # r => pc'[q] = pc[q] /\ pc[q] \notin PayingAt
        BY <1>3, <2>1 DEF ChargeOK, Others, Payers, PayingAt
    <2>4. CASE pc[r] = "charge_debit" /\ pc'[r] = "charge_rollback" /\ failed' = failed
        BY <1>2, <2>1, <2>2, <2>3, <2>4 DEF ChargeOK, PayingAt
    <2>5. CASE /\ pc[r] = "charge_link" /\ pc'[r] \in {"charge_rollback", "done"}
               /\ failed' = failed \union {r}
        <3>1. (Payers(c) \intersect failed)' = (Payers(c) \intersect failed) \union {r}
            BY <2>1, <2>2, <2>5
        <3>2. /\ Cardinality(Payers(c) \intersect failed)'
                   = Cardinality(Payers(c) \intersect failed) + 1
              /\ Cardinality(ChargeDebits(c)) \in Nat
              /\ Cardinality(Payers(c) \intersect failed) \in Nat
            BY <1>2, <3>1, Countable, FS_AddElement
        <3>3. /\ Cardinality(ChargeDebits(c)) <= 1 + Cardinality(Payers(c) \intersect failed)
              /\ ChargeDebits(c) # {}
            BY <2>1, <2>5 DEF ChargeOK
        <3>4. Cardinality(ChargeDebits(c))' <= Cardinality(Payers(c) \intersect failed)'
            BY <2>2, <3>2, <3>3
        <3>5. Cardinality(ChargeDebits(c))' <= 1 + Cardinality(Payers(c) \intersect failed)'
            BY <2>2, <3>2, <3>3
        <3>. QED
            BY <1>2, <2>1, <2>2, <2>3, <2>5, <3>3, <3>4, <3>5 DEF ChargeOK, PayingAt
    <2>. QED
        BY <2>4, <2>5
<1>5. charge_status' \in [Requests -> ChargeStatuses] /\ refund_status' = refund_status
    BY <1>1, <1>2 DEF Typed, rowVars
<1>6. /\ pc[r] \in PayingAt /\ pc'[r] \in {"charge_rollback", "done"}
      /\ failed' \in {failed, failed \union {r}}
      /\ pc[r] = "charge_link" => r \in failed'
    BY DEF PayingAt
<1>. QED
    BY <1>2, <1>4, <1>5, <1>6, <1>c, PaymentMoves

(* The payment closes its item's settlement.                               *)
LEMMA ChargeLinkKeeps ==
    ASSUME Inv, NEW r \in Requests, ChargeLink(r)
    PROVE  Inv'
<1> USE RefundsAssumption
<1>1. Typed /\ PlaceOK(r) /\ MoneyOK(r)
    BY TypeOKIsTyped DEF Inv, RequestInv
<1>c. PICK c \in Requests : c = charge[r]
    BY <1>1 DEF ChargeLink, At, PlaceOK, PayingAt
<1>2. /\ pc[r] = "charge_link" /\ charge_status[c] # "none" /\ kind[r] = "pay"
      /\ pc' = [pc EXCEPT ![r] = "done"]
      /\ UNCHANGED <<walletVars, final_price, fulfilments, rowVars, localVars, faultVars>>
      /\ scope[r] = scope[c] /\ r \notin failed
    BY <1>1, <1>c DEF ChargeLink, At, Goto, PlaceOK, PayingAt
<1>i. PICK i \in Items : i = scope[c] /\ kind[c] = "settle"
    BY <1>2 DEF Inv, RequestInv, PlaceOK, MoneyOK
<1>3. settlement_status' = [settlement_status EXCEPT ![i] = "additional_payment_paid"]
    BY <1>2, <1>i DEF ChargeLink
<1>4. Others(r) /\ Grows
    BY <1>1, <1>2 DEF Typed, Others, Grows, localVars, rowVars, faultVars
<1>5. Typed'
    <2>1. settlement_status' \in [Items -> SettlementStatuses]
        BY <1>1, <1>3 DEF Typed, SettlementStatuses
    <2>. QED
        BY <1>1, <1>2, <2>1 DEF Typed, Locations, localVars, rowVars, faultVars
<1>6. /\ WalletTypeOK' /\ LedgerChained' /\ LedgerInv'
      /\ \A q \in Requests : SameMoney(q)
    BY <1>2, <1>4, LedgerFrame
<1>7. RequestInv'
    <2>1. PlaceOK(r)'
        BY <1>1, <1>2 DEF Typed, PlaceOK, RefundingAt, HoldingAt, PayingAt, localVars, rowVars,
           faultVars
    <2>2. MoneyOK(r)'
        BY <1>1, <1>2, <1>6 DEF Typed, MoneyOK, SameMoney, Refunded, localVars, rowVars, faultVars
    <2>. QED
        BY <1>2, <1>4, <1>6, <2>1, <2>2, OtherRequests DEF SameMoney, rowVars
<1>8. /\ \A q \in Requests, j \in Items : Holds(q, j)' <=> Holds(q, j)
      /\ \A j \in Items : Settlers(j)' = Settlers(j) /\ Settlers(j) \subseteq Requests
      /\ \A q \in Requests : TookEffect(q)' <=> TookEffect(q)
      /\ failed' = failed
    BY <1>1, <1>2, <1>4, <1>6
       DEF Holds, Others, Settlers, TookEffect, Refunded, SameMoney, localVars, rowVars, faultVars
<1>9. /\ settlement_status'[i] = "additional_payment_paid"
      /\ \A j \in Items : j # i => settlement_status'[j] = settlement_status[j]
    BY <1>1, <1>3 DEF Typed
<1>10. HoldInv' /\ SettledAtMostOnce'
    <2>1. ASSUME NEW j \in Items PROVE HoldOK(j)'
        <3>1. HoldOK(j)
            BY DEF Inv, HoldInv
        <3>2. settlement_status'[j] \in {settlement_status[j], "additional_payment_paid"}
            BY <1>9
        <3>. QED
            BY <1>8, <3>1, <3>2 DEF HoldOK
    <2>2. SettledAtMostOnce'
        BY <1>8 DEF Inv, SettledAtMostOnce, TookEffect
    <2>. QED
        BY <2>1, <2>2 DEF HoldInv
<1>11. ChargeOK(c) /\ r \in Payers(c) /\ ChargeDebits(c) # {}
    <2>1. ChargeOK(c) /\ r \in Payers(c)
        BY <1>2, <1>c DEF Inv, ChargeInv, Payers
    <2>. QED
        BY <1>2, <2>1 DEF ChargeOK
<1>12. SettlementTellsTheTruth'
    <2> SUFFICES ASSUME NEW j \in Items
                 PROVE  /\ settlement_status'[j] = "refund_issued" =>
                              \E q \in Settlers(j) : refund_status[q] = "completed"
                        /\ settlement_status'[j] = "additional_payment_pending" =>
                              \E q \in Settlers(j) : charge_status[q] # "none"
                        /\ settlement_status'[j] = "additional_payment_paid" =>
                              \E q \in Settlers(j) : ChargeDebits(q) # {}
                        /\ settlement_status'[j] = "none" =>
                              \A q \in Settlers(j) \ failed : ~TookEffect(q)
                        /\ \A d \in Settlers(j) \ failed : ChargeDebits(d) # {} =>
                              \/ settlement_status'[j] = "additional_payment_paid"
                              \/ \E q \in Requests :
                                   charge[q] = d /\ (pc'[q] = "charge_link" \/ q \in failed)
        <3>1. \A q \in Requests : Refunded(q)' = Refunded(q) /\ ChargeDebits(q)' = ChargeDebits(q)
            BY <1>6 DEF SameMoney, Refunded
        <3>2. /\ refund_status' = refund_status /\ charge_status' = charge_status
              /\ charge' = charge /\ failed' = failed
            BY <1>2 DEF localVars, rowVars, faultVars
        <3>3. \A j \in Items : Settlers(j)' = Settlers(j) /\ Settlers(j) \subseteq Requests
            BY <1>8
        <3>. QED
            BY <3>1, <3>2, <3>3 DEF SettlementTellsTheTruth, TookEffect
    <2>1. CASE j = i
        <3>1. c \in Settlers(i)
            BY <1>i DEF Settlers
        <3>. QED
            BY <1>9, <1>11, <2>1, <3>1
    <2>2. CASE j # i
        <3>1. c \notin Settlers(j)
            BY <1>i, <2>2 DEF Settlers
        <3>2. \A q \in Requests : q # r => pc'[q] = pc[q]
            BY <1>4 DEF Others
        <3>3. \A d \in Settlers(j) \ failed : ChargeDebits(d) # {} =>
                 \/ settlement_status[j] = "additional_payment_paid"
                 \/ \E q \in Requests :
                      charge[q] = d /\ (pc'[q] = "charge_link" \/ q \in failed)
            BY <1>2, <1>c, <3>1, <3>2 DEF Inv, SettlementTellsTheTruth
        <3>. QED
            BY <1>9, <2>2, <3>3 DEF Inv, SettlementTellsTheTruth, TookEffect
    <2>. QED
        BY <2>1, <2>2
<1>13. ChargeOK(c)'
    <2>1. Payers(c)' = Payers(c) /\ failed' = failed /\ charge_status' = charge_status
          /\ ChargeDebits(c)' = ChargeDebits(c)
        BY <1>2, <1>6 DEF Payers, SameMoney, localVars, rowVars, faultVars
    <2>2. \A q \in Payers(c) : q # r => pc'[q] = pc[q] /\ pc[q] \notin PayingAt
        BY <1>2, <1>4, <1>11 DEF ChargeOK, Others, Payers, PayingAt
    <2>3. pc'[r] = "done" /\ charge_status[c] = "paid"
        BY <1>1, <1>2, <1>11 DEF Typed, ChargeOK, PayingAt
    <2>. QED
        BY <1>11, <2>1, <2>2, <2>3 DEF ChargeOK, PayingAt
<1>14. ChargeInv'
    <2>1. charge' = charge /\ charge_status' = charge_status
        BY <1>2 DEF localVars, rowVars
    <2>. QED
        BY <1>2, <1>c, <1>4, <1>6, <1>13, <2>1, OtherCharges DEF SameMoney
<1>15. TypeOK'
    BY <1>5, <1>6 DEF TypeOK, Typed
<1>. QED
    BY <1>6, <1>7, <1>10, <1>12, <1>14, <1>15 DEF Inv

-----------------------------------------------------------------------------
(* A step that moves neither money, nor a row, nor a request.              *)
LEMMA FulfilKeeps ==
    ASSUME Inv, TypeOK',
           UNCHANGED <<walletVars, settlement_status, rowVars, localVars, faultVars, pc>>
    PROVE  Inv'
<1>1. Grows
    BY TypeOKIsTyped DEF Inv, Typed, Grows, localVars, rowVars
<1>2. /\ WalletTypeOK' /\ LedgerChained' /\ LedgerInv'
      /\ \A q \in Requests : SameMoney(q)
    BY <1>1, LedgerFrame
<1>3. /\ pc' = pc /\ kind' = kind /\ scope' = scope /\ outcome' = outcome /\ charge' = charge
      /\ refund_status' = refund_status /\ charge_status' = charge_status /\ failed' = failed
    BY DEF localVars, rowVars, faultVars
<1>4. RequestInv'
    <2> SUFFICES ASSUME NEW q \in Requests
                 PROVE  PlaceOK(q)' /\ MoneyOK(q)'
        BY DEF RequestInv
    <2>1. PlaceOK(q) /\ MoneyOK(q)
        BY DEF Inv, RequestInv
    <2>2. RefundCredits(q)' = RefundCredits(q) /\ Refunded(q)' = Refunded(q)
        BY <1>2 DEF SameMoney, Refunded
    <2>. QED
        BY <1>3, <2>1, <2>2 DEF PlaceOK, MoneyOK
<1>5. /\ \A q \in Requests, i \in Items : Holds(q, i)' <=> Holds(q, i)
      /\ \A i \in Items : Settlers(i)' = Settlers(i) /\ Settlers(i) \subseteq Requests
      /\ \A q \in Requests : TookEffect(q)' <=> TookEffect(q)
    BY <1>2, <1>3 DEF Holds, Settlers, TookEffect, Refunded, SameMoney
<1>6. HoldInv' /\ SettledAtMostOnce'
    BY <1>3, <1>5, HoldKept
<1>7. SettlementTellsTheTruth'
    BY <1>1, <1>2, <1>3, <1>5, <1>6, StatusKept DEF SameMoney
<1>8. ChargeInv'
    BY <1>2, <1>3, ChargeKept DEF SameMoney
<1>. QED
    BY <1>2, <1>4, <1>6, <1>7, <1>8 DEF Inv

(* A statement of a refund or of a settlement throws: the catch is next.   *)
LEMMA RefundStepFails ==
    ASSUME Inv, NEW r \in Requests,
           UNCHANGED <<walletVars, itemVars, rowVars, localVars, crashed>>,
           pc' = [pc EXCEPT ![r] = pc'[r]],
           \/ /\ pc[r] \in {"refund_read", "refund_claim"}
              /\ pc'[r] = IF kind[r] = "settle" THEN "settle_rollback" ELSE "done"
              /\ failed' = failed
           \/ /\ pc[r] = "refund_credit" /\ pc'[r] = "refund_reject"
              /\ failed' = failed
           \/ /\ pc[r] = "charge_insert" /\ pc'[r] = "settle_rollback"
              /\ failed' = failed
           \/ /\ pc[r] = "refund_complete" /\ pc'[r] = "refund_reject"
              /\ failed' = failed \union {r}
           \/ /\ pc[r] = "settle_mark" /\ pc'[r] = "settle_rollback"
              /\ failed' = failed \union {r}
    PROVE  Inv'
<1> USE RefundsAssumption
<1> USE DEF itemVars, rowVars, localVars
<1>1. Typed /\ PlaceOK(r) /\ MoneyOK(r)
    BY TypeOKIsTyped DEF Inv, RequestInv
<1>2. /\ pc[r] \in RefundingAt \union {"refund_read", "charge_insert", "settle_mark"}
      /\ pc'[r] \in {"settle_rollback", "refund_reject", "done"}
      /\ pc'[r] = "done" => kind[r] # "settle"
      /\ failed \subseteq failed' /\ failed' \in SUBSET Requests
    BY <1>1 DEF RefundingAt, Typed
<1>3. Others(r) /\ Grows
    BY <1>1 DEF Typed, Others, Grows
<1>4. Typed'
    BY <1>1, <1>2 DEF Typed, Locations
<1>5. RefundCredits(r)' = RefundCredits(r) /\ Refunded(r)' = Refunded(r)
    BY <1>3, LedgerFrame DEF SameMoney, Refunded
<1>6. PlaceOK(r)'
    BY <1>1, <1>2 DEF Typed, PlaceOK, RefundingAt, HoldingAt, PayingAt
<1>7. MoneyOK(r)'
    BY <1>1, <1>2, <1>5 DEF Typed, PlaceOK, MoneyOK, RefundingAt
<1>8. \A j \in Items : Holds(r, j)' <=> Holds(r, j)
    BY <1>1, <1>2 DEF Typed, Holds, HoldingAt, RefundingAt, PlaceOK
<1>9. /\ pc[r] \notin PayingAt /\ charge[r] = NULL
    BY <1>1, <1>2 DEF PlaceOK, PayingAt, RefundingAt
<1>. QED
    BY <1>2, <1>3, <1>4, <1>6, <1>7, <1>8, <1>9, QuietKeeps

(* A statement throws before it has had an effect.                         *)
LEMMA FailsEarlyKeeps ==
    ASSUME Inv, NEW r \in Requests, FailsEarly(r)
    PROVE  Inv'
<1> USE RefundsAssumption
<1>1. Typed /\ PlaceOK(r) /\ MoneyOK(r)
    BY TypeOKIsTyped DEF Inv, RequestInv
<1>2. UNCHANGED <<walletVars, itemVars, rowVars, localVars, faultVars>>
    BY DEF FailsEarly
<1>3. CASE pc[r] = "charge_debit"
    <2>1. pc' = [pc EXCEPT ![r] = "charge_rollback"] /\ pc'[r] = "charge_rollback"
        BY <1>1, <1>3 DEF FailsEarly, Goto, Typed
    <2>. QED
        BY <1>2, <1>3, <2>1, PaymentFails DEF faultVars
<1>4. CASE pc[r] # "charge_debit"
    <2>1. /\ pc' = [pc EXCEPT ![r] = pc'[r]]
          /\ \/ /\ pc[r] \in {"refund_read", "refund_claim"}
                /\ pc'[r] = IF kind[r] = "settle" THEN "settle_rollback" ELSE "done"
             \/ pc[r] = "refund_credit" /\ pc'[r] = "refund_reject"
             \/ pc[r] = "charge_insert" /\ pc'[r] = "settle_rollback"
        BY <1>1, <1>4 DEF FailsEarly, Goto, AfterRefundError, Typed
    <2>. QED
        BY <1>2, <2>1, RefundStepFails DEF faultVars
<1>. QED
    BY <1>3, <1>4

(* A statement throws after one that had an effect.                        *)
LEMMA FailsLateKeeps ==
    ASSUME Inv, NEW r \in Requests, FailsLate(r)
    PROVE  Inv'
<1> USE RefundsAssumption
<1>1. Typed /\ PlaceOK(r) /\ MoneyOK(r)
    BY TypeOKIsTyped DEF Inv, RequestInv
<1>2. /\ UNCHANGED <<walletVars, itemVars, rowVars, localVars, crashed>>
      /\ failed' = failed \union {r}
    BY DEF FailsLate
<1>3. CASE pc[r] = "charge_link"
    <2>1. pc' = [pc EXCEPT ![r] = pc'[r]] /\ pc'[r] \in {"charge_rollback", "done"}
        BY <1>1, <1>3 DEF FailsLate, Goto, Typed
    <2>. QED
        BY <1>2, <1>3, <2>1, PaymentFails
<1>4. CASE pc[r] # "charge_link"
    <2>1. /\ pc' = [pc EXCEPT ![r] = pc'[r]]
          /\ \/ pc[r] = "refund_complete" /\ pc'[r] = "refund_reject"
             \/ pc[r] = "settle_mark" /\ pc'[r] = "settle_rollback"
        BY <1>1, <1>4 DEF FailsLate, Goto, Typed
    <2>. QED
        BY <1>2, <2>1, RefundStepFails
<1>. QED
    BY <1>3, <1>4

-----------------------------------------------------------------------------
LEMMA InitInv == Init => Inv
<1> SUFFICES ASSUME Init PROVE Inv
    OBVIOUS
<1> USE RefundsAssumption DEF Init
<1>1. TypeOK /\ LedgerChained
    <2>1. WalletTypeOK /\ LedgerChained
        BY WalletInitLemma
    <2>. QED
        BY <2>1 DEF TypeOK, SettlementStatuses, RefundStatuses, ChargeStatuses, Locations
<1>2. \A r \in Requests : RefundCredits(r) = {} /\ ChargeDebits(r) = {}
    BY DEF RefundCredits, ChargeDebits, RowsOf
<1>3. LedgerInv
    BY WalletInitLemma DEF LedgerInv, ReferenceTypes
<1>4. RequestInv
    BY <1>2 DEF RequestInv, PlaceOK, MoneyOK, Refunded, RefundingAt, HoldingAt, PayingAt
<1>5. HoldInv /\ SettledAtMostOnce /\ SettlementTellsTheTruth
    BY DEF HoldInv, HoldOK, Holds, Settlers, SettledAtMostOnce, SettlementTellsTheTruth
<1>6. ChargeInv
    BY DEF ChargeInv
<1>. QED
    BY <1>1, <1>3, <1>4, <1>5, <1>6 DEF Inv

LEMMA NextInv == Inv /\ [Next]_vars => Inv'
<1> SUFFICES ASSUME Inv, [Next]_vars PROVE Inv'
    OBVIOUS
<1>1. ASSUME NEW i \in Items, Fulfil(i) PROVE Inv'
    <2>1. TypeOK'
        <3>1. Typed /\ WalletTypeOK
            BY TypeOKIsTyped DEF Inv
        <3>2. WalletTypeOK'
            BY <1>1, <3>1 DEF Fulfil, walletVars, WalletTypeOK
        <3>3. Typed'
            BY <1>1, <3>1, RefundsAssumption
               DEF Fulfil, Typed, localVars, rowVars, faultVars
        <3>. QED
            BY <3>2, <3>3 DEF TypeOK, Typed
    <2>. QED
        BY <1>1, <2>1, FulfilKeeps DEF Fulfil
<1>2. ASSUME NEW r \in Requests, Continue(r) PROVE Inv'
    BY <1>2, RefundReadKeeps, RefundClaimKeeps, RefundCreditKeeps, RefundCompleteKeeps,
       RefundRejectKeeps, SettleClaimKeeps, ChargeInsertKeeps, SettlementEnds,
       ChargeDebitKeeps, ChargeRollbackKeeps, ChargeLinkKeeps DEF Continue
<1>3. ASSUME NEW r \in Requests, FailsEarly(r) \/ FailsLate(r) \/ Crash(r) PROVE Inv'
    BY <1>3, FailsEarlyKeeps, FailsLateKeeps, CrashKeeps
<1>4. CASE UNCHANGED vars
    <2>1. TypeOK'
        BY <1>4 DEF Inv, TypeOK, WalletTypeOK, vars, walletVars, itemVars, rowVars, localVars,
           faultVars
    <2>. QED
        BY <1>4, <2>1, FulfilKeeps DEF vars, itemVars
<1>. QED
    BY <1>1, <1>2, <1>3, <1>4, RefundRequestKeeps, SettleReadKeeps, ChargeClaimKeeps DEF Next

LEMMA Invariance == Spec => []Inv
BY InitInv, NextInv, PTL DEF Spec

(* Every variable keeps to the values the tables and the code allow,       *)
(* however refunds, settlements, payments and failures interleave.         *)
THEOREM TypeCorrectness == Spec => []TypeOK
<1>1. Inv => TypeOK
    BY DEF Inv
<1>. QED
    BY <1>1, Invariance, PTL

(* A completed refund was credited, once; a rejected one was not, unless a *)
(* statement after its credit failed; a pending one belongs to a call that *)
(* is still in createAndExecuteRefund or has died there.                   *)
THEOREM RefundRowsAlwaysTellTheTruth == Spec => []RefundRowsTellTheTruth
<1>1. Inv => RefundRowsTellTheTruth
    BY DEF Inv, RequestInv, MoneyOK, RefundRowsTellTheTruth
<1>. QED
    BY <1>1, Invariance, PTL

(* An item is settled once by the calls of settleVariableWeightItem, its   *)
(* settlement_status says what was done, and a charge is debited once by   *)
(* the calls of confirmAdditionalChargePayment, apart from those undone by *)
(* a failure that came after the money had moved.                          *)
THEOREM SettlementIsAlwaysSound == Spec => []SettlementIsSound
<1>1. Inv => SettlementIsSound
    <2> SUFFICES ASSUME Inv PROVE SettlementIsSound
        OBVIOUS
    <2>1. ChargePaidOnce
        BY DEF Inv, ChargeInv, ChargeOK, Payers, ChargePaidOnce
    <2>. QED
        BY <2>1 DEF Inv, SettlementIsSound
<1>. QED
    BY <1>1, Invariance, PTL

-----------------------------------------------------------------------------
(* The cap.                                                                *)

(* Money that was refunded has its row. *)
PaidIsClaimed == \A r \in Requests : Refunded(r) => refund_status[r] # "none"

(* Of any refunds of a scope that count, one read a captured amount that   *)
(* covers them all.  (Of the whole set alone this is not inductive: a      *)
(* refund that is rejected takes its captured amount away.)                *)
CapInv ==
    \A s \in Scopes : \A T \in SUBSET CountedRefunds(s) :
        T # {} => \E r \in T : SumOfAmounts(T) <= captured[r]

(* What a request works on is fixed once it has been read.                 *)
LEMMA WorkIsFixed ==
    ASSUME Inv, [Next]_vars, NEW q \in Requests, pc[q] \notin {"idle", "refund_read"}
    PROVE  scope'[q] = scope[q] /\ amount'[q] = amount[q] /\ captured'[q] = captured[q]
<1>1. Typed
    BY TypeOKIsTyped DEF Inv
<1>2. CASE \E r \in Requests, s \in Scopes : RefundRequest(r, s)
    BY <1>1, <1>2 DEF Typed, RefundRequest, At
<1>3. CASE \E r \in Requests, i \in Items : SettleRead(r, i)
    BY <1>1, <1>3 DEF Typed, SettleRead, At
<1>4. CASE \E r, c \in Requests : ChargeClaim(r, c)
    BY <1>1, <1>4 DEF Typed, ChargeClaim, At
<1>5. CASE \E r \in Requests : RefundRead(r)
    BY <1>1, <1>5 DEF Typed, RefundRead, At
<1>6. CASE UNCHANGED localVars
    BY <1>6 DEF localVars
<1>7. \/ \E r \in Requests, s \in Scopes : RefundRequest(r, s)
      \/ \E r \in Requests, i \in Items : SettleRead(r, i)
      \/ \E r, c \in Requests : ChargeClaim(r, c)
      \/ \E r \in Requests : RefundRead(r)
      \/ UNCHANGED localVars
    BY DEF Next, Continue, Fulfil, RefundClaim, RefundCredit, RefundComplete, RefundReject,
       SettleClaim, ChargeInsert, SettleMark, SettleRollback, ChargeDebit, ChargeRollback,
       ChargeLink, FailsEarly, FailsLate, Crash, vars
<1>. QED
    BY <1>2, <1>3, <1>4, <1>5, <1>6, <1>7

(* A refund row is inserted by a claim and never removed; from then on it  *)
(* counts until it is rejected.                                            *)
LEMMA RefundStatusMoves ==
    ASSUME Inv, [Next]_vars, NEW q \in Requests
    PROVE  \/ refund_status'[q] = refund_status[q]
           \/ RefundClaim(q) /\ refund_status[q] = "none" /\ refund_status'[q] = "pending"
           \/ refund_status[q] = "pending" /\ refund_status'[q] \in {"completed", "rejected"}
<1>1. Typed /\ \A r \in Requests : MoneyOK(r)
    BY TypeOKIsTyped DEF Inv, RequestInv
<1>2. CASE \E r \in Requests : RefundClaim(r)
    <2> PICK r \in Requests : RefundClaim(r)
        BY <1>2
    <2>1. refund_status[r] = "none"
        BY <1>1 DEF RefundClaim, At, MoneyOK
    <2>. QED
        BY <1>1, <2>1 DEF Typed, RefundClaim
<1>3. CASE \E r \in Requests : RefundComplete(r)
    BY <1>1, <1>3 DEF Typed, RefundComplete, At, MoneyOK
<1>4. CASE \E r \in Requests : RefundReject(r)
    BY <1>1, <1>4 DEF Typed, RefundReject
<1>5. CASE UNCHANGED refund_status
    BY <1>5
<1>6. \/ \E r \in Requests : RefundClaim(r) \/ RefundComplete(r) \/ RefundReject(r)
      \/ UNCHANGED refund_status
    BY DEF Next, Continue, Fulfil, RefundRequest, SettleRead, ChargeClaim, RefundRead,
       RefundCredit, SettleClaim, ChargeInsert, SettleMark, SettleRollback, ChargeDebit,
       ChargeRollback, ChargeLink, FailsEarly, FailsLate, Crash, vars, rowVars
<1>. QED
    BY <1>2, <1>3, <1>4, <1>5, <1>6

(* No step takes a charge away or moves a request to another scope.        *)
LEMMA StepGrows ==
    ASSUME Inv, [Next]_vars
    PROVE  Grows
<1>1. Typed /\ Typed'
    <2>1. Inv'
        BY NextInv
    <2>. QED
        BY <2>1 DEF Inv, TypeOK, Typed
<1>2. \A q \in Requests : scope'[q] \in Scopes \union {NULL}
    BY <1>1 DEF Typed
<1>3. ASSUME NEW q \in Requests, pc[q] # "idle"
      PROVE  scope'[q] = scope[q]
    <2>1. \/ UNCHANGED scope
          \/ \E r \in Requests : pc[r] = "idle" /\ scope' = [scope EXCEPT ![r] = scope'[r]]
        BY <1>1 DEF Next, Continue, Fulfil, RefundRequest, SettleRead, ChargeClaim,
           RefundRead, RefundClaim, RefundCredit, RefundComplete, RefundReject,
           SettleClaim, ChargeInsert, SettleMark, SettleRollback, ChargeDebit,
           ChargeRollback, ChargeLink, FailsEarly, FailsLate, Crash, vars, localVars, At,
           Typed
    <2>. QED
        BY <1>1, <1>3, <2>1 DEF Typed
<1>4. ASSUME NEW q \in Requests, charge_status[q] # "none"
      PROVE  charge_status'[q] # "none"
    BY <1>1, <1>4 DEF Next, Continue, Fulfil, RefundRequest, SettleRead, ChargeClaim,
       RefundRead, RefundClaim, RefundCredit, RefundComplete, RefundReject,
       SettleClaim, ChargeInsert, SettleMark, SettleRollback, ChargeDebit,
       ChargeRollback, ChargeLink, FailsEarly, FailsLate, Crash, vars, rowVars, Typed
<1>. QED
    BY <1>2, <1>3, <1>4 DEF Grows

(* Money is refunded by the request whose row is pending.                  *)
LEMMA RefundedByPending ==
    ASSUME Inv, [Next]_vars, NEW q \in Requests, Refunded(q)'
    PROVE  Refunded(q) \/ refund_status[q] = "pending"
<1>1. CASE \E r \in Requests : RefundCredit(r)
    <2> PICK r \in Requests : RefundCredit(r)
        BY <1>1
    <2>1. refund_status[r] = "pending"
        BY DEF Inv, RequestInv, MoneyOK, RefundCredit, At
    <2>2. q # r => RefundCredits(q)' = RefundCredits(q)
        BY CreditedRefund
    <2>. QED
        BY <2>1, <2>2 DEF Refunded
<1>2. CASE \E r \in Requests : /\ pc[r] = "charge_debit"
                               /\ DebitWallet(Customer(scope[r]), amount[r],
                                              "order_additional_charge", charge[r])
                               /\ UNCHANGED <<scope, charge, charge_status>>
    BY <1>2, DebitedCharge DEF Refunded
<1>3. CASE UNCHANGED walletVars
    BY <1>3, StepGrows, LedgerFrame DEF SameMoney, Refunded
<1>4. \/ \E r \in Requests : RefundCredit(r) \/ ChargeDebit(r)
      \/ UNCHANGED walletVars
    BY DEF Next, Continue, Fulfil, RefundRequest, SettleRead, ChargeClaim, RefundRead,
       RefundClaim, RefundComplete, RefundReject, SettleClaim, ChargeInsert, SettleMark,
       SettleRollback, ChargeRollback, ChargeLink, FailsEarly, FailsLate, Crash, vars
<1>. QED
    BY <1>1, <1>2, <1>3, <1>4 DEF ChargeDebit, At, localVars, rowVars

LEMMA PaidIsClaimedKept ==
    ASSUME Inv, PaidIsClaimed, [Next]_vars
    PROVE  PaidIsClaimed'
<1> SUFFICES ASSUME NEW q \in Requests, Refunded(q)'
             PROVE  refund_status'[q] # "none"
    BY DEF PaidIsClaimed
<1>1. refund_status[q] # "none"
    BY RefundedByPending DEF PaidIsClaimed
<1>. QED
    BY <1>1, RefundStatusMoves

(* The claim of a refund adds it to a sum that its captured amount covers; *)
(* every other step only takes refunds out of those that count.            *)
LEMMA CapKept ==
    ASSUME Inv, CapInv, [Next]_vars
    PROVE  CapInv'
<1> SUFFICES ASSUME NEW s \in Scopes, NEW T \in SUBSET CountedRefunds(s)', T # {}
             PROVE  \E r \in T : SumOfAmounts(T)' <= captured'[r]
    BY DEF CapInv, Scopes
<1> DEFINE old == CountedRefunds(s)
<1>1. Typed /\ \A r \in Requests : MoneyOK(r)
    BY TypeOKIsTyped DEF Inv, RequestInv
<1>2. \A q \in Requests : refund_status[q] # "none" =>
        scope'[q] = scope[q] /\ amount'[q] = amount[q] /\ captured'[q] = captured[q]
    BY <1>1, WorkIsFixed DEF MoneyOK
<1>3. /\ IsFiniteSet(old) /\ old \subseteq Requests
      /\ T \subseteq Requests /\ IsFiniteSet(T)
      /\ \A q \in Requests : amount[q] \in Nat /\ captured[q] \in Nat
      /\ \A q \in old : refund_status[q] \in Counted /\ refund_status[q] # "none"
    BY <1>1, RefundsAssumption, FS_Subset DEF CountedRefunds, Counted, Typed
<1>4. \A q \in T : q \in old \/ (RefundClaim(q) /\ scope'[q] = s)
    <2> SUFFICES ASSUME NEW q \in T, ~RefundClaim(q)
                 PROVE  q \in old
        BY DEF CountedRefunds
    <2>1. q \in Requests /\ scope'[q] = s /\ refund_status'[q] \in {"pending", "completed"}
        BY DEF CountedRefunds, Counted
    <2>2. refund_status[q] \in Counted /\ refund_status[q] # "none"
        BY <2>1, RefundStatusMoves DEF Counted
    <2>. QED
        BY <1>2, <2>1, <2>2 DEF CountedRefunds
<1>5. CASE T \subseteq old
    <2>1. PICK r \in T : SumOfAmounts(T) <= captured[r]
        BY <1>5 DEF CapInv
    <2>2. \A q \in T : amount'[q] = amount[q] /\ captured'[q] = captured[q]
        BY <1>2, <1>3, <1>5
    <2>3. SumOver(amount', T) = SumOver(amount, T)
        BY <1>3, <2>2, SumOverAgree
    <2>. QED
        BY <2>1, <2>2, <2>3 DEF SumOfAmounts
<1>6. CASE ~(T \subseteq old)
    <2>1. PICK r \in T : r \notin old /\ RefundClaim(r) /\ scope'[r] = s
        BY <1>4, <1>6
    <2>2. /\ UNCHANGED <<amount, captured, scope>>
          /\ refund_status' = [refund_status EXCEPT ![r] = refund_status'[r]]
        BY <1>1, <2>1 DEF RefundClaim, localVars, Typed
    <2>3. refund_status[r] = "none" /\ refund_status'[r] # "none"
        BY <1>1, <1>3, <2>1 DEF RefundClaim, At, MoneyOK, CountedRefunds, Counted
    <2>4. amount[r] <= captured[r] - SumOver(amount, old)
        BY <2>1, <2>2, <2>3 DEF RefundClaim, SumOfAmounts
    <2>5. T \in SUBSET (old \union {r})
        BY <1>1, <2>2 DEF CountedRefunds, Typed
    <2>6. /\ SumOver(amount, T) <= SumOver(amount, old) + amount[r]
          /\ SumOver(amount, T) \in Int /\ SumOver(amount, old) \in Int
        BY <1>3, <2>1, <2>5, SumOverGrows
    <2>7. SumOver(amount, T) <= captured[r]
        BY <1>3, <2>4, <2>6
    <2>. QED
        BY <2>2, <2>7 DEF SumOfAmounts
<1>. QED
    BY <1>5, <1>6

(* However many refunds of an item or order race with settlements of it    *)
(* and with failures, the money createAndExecuteRefund paid out for it     *)
(* stays within a captured amount one of them read.                        *)
THEOREM RefundsStayWithinCaptured == Spec => []RefundsWithinCaptured
<1>1. Init => PaidIsClaimed /\ CapInv
    BY RefundsAssumption DEF Init, PaidIsClaimed, CapInv, CountedRefunds, Counted, Refunded,
       RefundCredits, RowsOf
<1>2. Inv /\ PaidIsClaimed /\ CapInv /\ [Next]_vars => (PaidIsClaimed /\ CapInv)'
    BY PaidIsClaimedKept, CapKept
<1>3. ASSUME Inv, PaidIsClaimed, CapInv
      PROVE  RefundsWithinCaptured
    <2> SUFFICES ASSUME NEW s \in Scopes,
                        NEW paid, paid = {r \in Requests : scope[r] = s /\ Refunded(r)} \ failed,
                        paid # {}
                 PROVE  \E r \in CountedRefunds(s) : SumOfAmounts(paid) <= captured[r]
        BY DEF RefundsWithinCaptured
    <2>1. \A r \in Requests : Refunded(r) /\ r \notin failed => refund_status[r] \in Counted
        BY <1>3 DEF Inv, TypeOK, RequestInv, MoneyOK, PaidIsClaimed, RefundStatuses, Counted
    <2>2. paid \in SUBSET CountedRefunds(s)
        BY <2>1 DEF CountedRefunds
    <2>. QED
        BY <1>3, <2>2 DEF CapInv
<1>. QED
    BY <1>1, <1>2, <1>3, Invariance, PTL DEF Spec
=============================================================================
