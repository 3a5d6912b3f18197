------------------------ MODULE BookingPaymentProofs ------------------------
(***************************************************************************)
(* Safety of payment and cancellation for any users, bookings, modes,      *)
(* prices, policies, requests and number of faults.                        *)
(*                                                                         *)
(* What the runs check of the money is not inductive: it says nothing of a *)
(* request that has claimed a booking and not yet debited it, or has       *)
(* cancelled it and not yet refunded it.  MoneyInv adds who holds a claim  *)
(* and how far it went (HolderInv, WorkerInv), that a cancellation past    *)
(* its compare-and-swap is alone with its booking and refunds no more than *)
(* it saw captured (CancelInv, RefundInv), and an account of the debits:   *)
(* one that is not kept is charged to a request that failed (CountInv).    *)
(* The amounts are sums over rows of the ledger, so each step that writes  *)
(* a row is first reduced to what it adds to which sum (RowAppended).      *)
(***************************************************************************)
EXTENDS BookingPayment, CommonLemmas

Paying(b) == \E r \in For(b) : pc[r] \in {"pay_debit", "pay_rollback"}

(* The payment that a booking still shows, once it is past its debit.      *)
Kept(b) == payment_status[b] # "unpaid" /\ ~Paying(b)

PaidRows(b) == Cardinality(Payments(b))
Failures(b) == Cardinality(For(b) \intersect failed)

(* A debit that is not kept was undone by a request that failed.           *)
CountInv ==
    \A b \in Bookings :
        /\ PaidRows(b) <= Failures(b) + 1
        /\ ~Kept(b) => PaidRows(b) <= Failures(b)

(* Who holds the claim on a booking: a payment that has not rolled back,   *)
(* and which has debited it if it went on to the confirmation.             *)
HolderInv ==
    \A b \in Bookings : payment_reference[b] # NULL =>
        LET r == payment_reference[b] IN
        /\ target[r] = b
        /\ pc[r] \notin {"idle", "pay_claim", "cancel_quote", "cancel_read"}
        /\ pc[r] \in {"pay_confirm", "transition"} => Payments(b) # {}

(* What each request knows of the booking it works on.                     *)
WorkerInv ==
    \A r \in Requests :
        /\ pc[r] = "idle" => target[r] = NULL /\ quote[r] = 0
        /\ pc[r] # "idle" => target[r] \in Bookings
        /\ r \in failed => pc[r] \in {"pay_rollback", "done"}
        /\ pc[r] \in {"pay_debit", "pay_rollback"} =>
              /\ payment_reference[target[r]] = r
              /\ payment_status[target[r]] # "unpaid"
        /\ pc[r] = "transition" =>
              \E role \in Roles : <<from_status[r], to_status[r]>> \in Transitions[role]

Cancelling == {"cancel_stamp", "cancel_credit", "cancel_mark"}

(* A cancellation past its transition is alone with its booking, which is  *)
(* cancelled for good; it has not refunded it before its credit, and what  *)
(* it quoted was captured.                                                 *)
CancelInv ==
    \A r \in Requests :
        /\ pc[r] \in Cancelling => booking_status[target[r]] = "cancelled"
        /\ pc[r] = "cancel_mark" => RefundsOf(target[r]) # {}
        /\ pc[r] \in {"cancel_stamp", "cancel_credit"} => RefundsOf(target[r]) = {}
        /\ pc[r] # "idle" => quote[r] <= CapturedAmount(target[r])
        /\ \A q \in Requests :
              pc[r] \in Cancelling /\ pc[q] \in Cancelling /\ target[r] = target[q] => r = q

(* The refund rows of a booking.                                           *)
RefundInv ==
    \A b \in Bookings :
        /\ RefundsOf(b) # {} => booking_status[b] = "cancelled"
        /\ RefundsOf(b) = {} => PreviouslyRefunded(b) = 0
        /\ Cardinality(RefundsOf(b)) <= 1
        /\ PreviouslyRefunded(b) <= CapturedAmount(b)

MoneyInv ==
    /\ TypeOK
    /\ CountInv
    /\ HolderInv
    /\ WorkerInv
    /\ CancelInv
    /\ RefundInv
    /\ PaymentStatusTellsTheTruth
    /\ SelfConfirmedIsPaid

-----------------------------------------------------------------------------
(* Constants. *)

(* A claim that is not NULL names a request, and a target a booking. *)
LEMMA NullIsNoRequest == NULL \notin Requests /\ NULL \notin Bookings
BY BookingPaymentAssumption DEF BookingPaymentAssumption, Requests

(* No move of the table starts from 'cancelled'. *)
LEMMA CancelledIsFinal ==
    ASSUME NEW role \in Roles, NEW from, NEW to, <<from, to>> \in Transitions[role]
    PROVE  /\ from # "cancelled"
           /\ from \in BookingStatuses
           /\ to \in BookingStatuses
BY DEF Roles, Transitions, BookingStatuses

(* What a share of an amount rounds to. *)
LEMMA PercentOfTyped ==
    ASSUME NEW n \in Nat, NEW share \in Nat
    PROVE  PercentOf(n, share) \in Nat
<1> DEFINE k == 2 * n * share + 100
<1>1. n * share \in Nat
    OBVIOUS
<1>2. k = 2 * (n * share) + 100
    OBVIOUS
<1>3. k \in Nat
    BY <1>1, <1>2
<1> HIDE DEF k
<1>4. k \div 200 \in Nat
    BY <1>3
<1>. QED
    BY <1>4 DEF PercentOf, k

(* Math.min of two amounts is one of them. *)
LEMMA MinOfPair ==
    ASSUME NEW m \in Int, NEW n \in Int
    PROVE  /\ Min({m, n}) \in {m, n}
           /\ Min({m, n}) <= m
           /\ Min({m, n}) <= n
<1> DEFINE P(x) == x \in {m, n} /\ \A y \in {m, n} : x <= y
<1>1. \E x : P(x)
    OBVIOUS
<1>2. Min({m, n}) = CHOOSE x : P(x)
    BY DEF Min
<1>3. P(Min({m, n}))
    BY <1>1, <1>2
<1>. QED
    BY <1>3

(* Math.max of two amounts is one of them. *)
LEMMA MaxOfPair ==
    ASSUME NEW m \in Int, NEW n \in Int
    PROVE  /\ Max({m, n}) \in {m, n}
           /\ Max({m, n}) >= m
           /\ Max({m, n}) >= n
<1> DEFINE P(x) == x \in {m, n} /\ \A y \in {m, n} : x >= y
<1>1. \E x : P(x)
    OBVIOUS
<1>2. Max({m, n}) = CHOOSE x : P(x)
    BY DEF Max
<1>3. P(Max({m, n}))
    BY <1>1, <1>2
<1>. QED
    BY <1>3

(* Math.min of three amounts is at most each. *)
LEMMA MinOfThree ==
    ASSUME NEW l \in Int, NEW m \in Int, NEW n \in Int
    PROVE  /\ Min({l, m, n}) \in Int
           /\ Min({l, m, n}) <= l /\ Min({l, m, n}) <= m /\ Min({l, m, n}) <= n
<1> DEFINE P(x) == x \in {l, m, n} /\ \A y \in {l, m, n} : x <= y
<1>1. \E x : P(x)
    OBVIOUS
<1>2. Min({l, m, n}) = CHOOSE x : P(x)
    BY DEF Min
<1>3. P(Min({l, m, n}))
    BY <1>1, <1>2
<1>. QED
    BY <1>3

(* A deposit is an amount of kobo. *)
LEMMA DepositTyped == \A b \in Bookings : Deposit(b) \in Nat
<1> SUFFICES ASSUME NEW b \in Bookings PROVE Deposit(b) \in Nat
    OBVIOUS
<1>1. total_price[b] \in Nat /\ deposit_percentage[b] \in Int
    BY BookingPaymentAssumption DEF BookingPaymentAssumption
<1>2. Max({1, deposit_percentage[b]}) \in Int /\ Max({1, deposit_percentage[b]}) >= 1
    BY <1>1, MaxOfPair
<1>3. Min({100, Max({1, deposit_percentage[b]})}) \in Nat
    <2> DEFINE m == Max({1, deposit_percentage[b]})
    <2>1. m \in Int /\ m >= 1
        BY <1>2
    <2> HIDE DEF m
    <2>2. Min({100, m}) \in Nat
        BY <2>1, MinOfPair
    <2>. QED
        BY <2>2 DEF m
<1>. QED
    BY <1>1, <1>3, PercentOfTyped DEF Deposit

(* A quote is an amount of kobo, and no more than was captured. *)
LEMMA RefundOfTyped ==
    ASSUME NEW captured \in Nat, NEW refunded \in Int, NEW share \in Percentages
    PROVE  /\ RefundOf(captured, refunded, share) \in Nat
           /\ RefundOf(captured, refunded, share) <= captured
<1> DEFINE gross == PercentOf(captured, share)
           net == gross - Min({flat_fee, gross})
           least == Min({net, captured - refunded, captured})
<1>1. share \in Nat /\ flat_fee \in Nat
    BY BookingPaymentAssumption DEF BookingPaymentAssumption
<1>2. gross \in Nat
    BY <1>1, PercentOfTyped
<1>3. net \in Int
    <2> HIDE DEF gross
    <2>1. flat_fee \in Int /\ gross \in Int
        BY <1>1, <1>2
    <2>2. Min({flat_fee, gross}) \in {flat_fee, gross}
        BY <2>1, MinOfPair
    <2>. QED
        BY <2>1, <2>2
<1>4. least \in Int /\ least <= captured
    <2> HIDE DEF net
    <2>1. captured - refunded \in Int /\ captured \in Int
        OBVIOUS
    <2>2. /\ Min({net, captured - refunded, captured}) \in Int
          /\ Min({net, captured - refunded, captured}) <= captured
        BY <1>3, <2>1, MinOfThree
    <2>. QED
        BY <2>2
<1>5. RefundOf(captured, refunded, share) = Max({0, least})
    BY DEF RefundOf
<1> HIDE DEF least
<1>6. Max({0, least}) \in {0, least} /\ Max({0, least}) >= 0
    BY <1>4, MaxOfPair
<1>. QED
    BY <1>4, <1>5, <1>6

-----------------------------------------------------------------------------
(* The ledger. *)

(* The money of the rows under a reference that are of one type. *)
OfType(rows, entryType, refType, id) ==
    {i \in RowsWith(rows, refType, id) : rows[i].entry_type = entryType}

MoneyIn(rows, entryType, refType, id) ==
    SumOver([i \in 1..Len(rows) |-> rows[i].amount], OfType(rows, entryType, refType, id))

(* The rows under a reference are finitely many, and their money is an     *)
(* amount of kobo.                                                         *)
LEMMA MoneyInTyped ==
    ASSUME NEW ids, NEW rows \in Seq(LedgerRowOf(ids)), NEW entryType, NEW refType,
           NEW id
    PROVE  /\ IsFiniteSet(RowsWith(rows, refType, id))
           /\ IsFiniteSet(OfType(rows, entryType, refType, id))
           /\ MoneyIn(rows, entryType, refType, id) \in Nat
           /\ RowsWith(rows, refType, id) = {} => MoneyIn(rows, entryType, refType, id) = 0
<1> DEFINE S == 1..Len(rows)
           T == OfType(rows, entryType, refType, id)
           f == [i \in S |-> rows[i].amount]
<1>1. Len(rows) \in Nat /\ \A i \in S : rows[i].amount \in Nat
    <2>1. \A i \in S : rows[i] \in LedgerRowOf(ids)
        OBVIOUS
    <2>2. \A e \in LedgerRowOf(ids) : e.amount \in Nat
        BY DEF LedgerRowOf
    <2>. QED
        BY <2>1, <2>2
<1>2. IsFiniteSet(S)
    BY <1>1, FS_Interval
<1>3. RowsWith(rows, refType, id) \in SUBSET S /\ T \in SUBSET S
    BY DEF RowsWith, OfType
<1>4. IsFiniteSet(RowsWith(rows, refType, id)) /\ IsFiniteSet(T)
    BY <1>2, <1>3, FS_Subset
<1>5. \A i \in T : f[i] \in Nat
    BY <1>1, <1>3
<1>6. {} \in SUBSET T
    OBVIOUS
<1>7. RowsWith(rows, refType, id) = {} => T = {}
    BY DEF OfType
<1>8. MoneyIn(rows, entryType, refType, id) = SumOver(f, T)
    BY DEF MoneyIn
<1> HIDE DEF T, f
<1>9. SumOver(f, {}) = 0 /\ SumOver(f, {}) <= SumOver(f, T) /\ SumOver(f, T) \in Int
    BY <1>4, <1>5, <1>6, SumOverEmpty, SumOverMonotone, SumOverInt
<1>. QED
    <2>1. SumOver(f, T) \in Nat
        BY <1>9
    <2>2. T = {} => SumOver(f, T) = 0
        BY <1>9
    <2>. QED
        BY <1>4, <1>7, <1>8, <2>1, <2>2 DEF T

(* A row more moves the sum of its own reference by its amount, and no     *)
(* other.                                                                  *)
LEMMA MoneyAfterAppend ==
    ASSUME NEW ids, NEW rows \in Seq(LedgerRowOf(ids)), NEW row \in LedgerRowOf(ids),
           NEW entryType, NEW refType, NEW id
    PROVE  MoneyIn(Append(rows, row), entryType, refType, id) =
             IF /\ row.entry_type = entryType
                /\ row.reference_type = refType
                /\ row.reference_id = id
             THEN MoneyIn(rows, entryType, refType, id) + row.amount
             ELSE MoneyIn(rows, entryType, refType, id)
<1> DEFINE new == Append(rows, row)
           last == Len(rows) + 1
           T == OfType(rows, entryType, refType, id)
           f == [i \in 1..Len(rows) |-> rows[i].amount]
           g == [i \in 1..Len(new) |-> new[i].amount]
<1>1. /\ Len(new) = last /\ Len(rows) \in Nat
      /\ new[last] = row
      /\ \A i \in 1..Len(rows) : new[i] = rows[i]
    OBVIOUS
<1>2. /\ \A i \in 1..Len(rows) : rows[i].amount \in Nat
      /\ row.amount \in Nat
    <2>1. \A i \in 1..Len(rows) : rows[i] \in LedgerRowOf(ids)
        OBVIOUS
    <2>2. \A e \in LedgerRowOf(ids) : e.amount \in Nat
        BY DEF LedgerRowOf
    <2>. QED
        BY <2>1, <2>2
<1>3. T \subseteq 1..Len(rows) /\ last \notin T
    BY <1>1 DEF OfType, RowsWith
<1>4. IsFiniteSet(T)
    BY MoneyInTyped
<1>5. /\ \A i \in T : g[i] = f[i] /\ f[i] \in Int
      /\ g[last] = row.amount
    <2>1. DOMAIN new = 1..last
        BY <1>1
    <2> HIDE DEF new, T
    <2>. QED
        BY <1>1, <1>2, <1>3
<1>6. /\ MoneyIn(new, entryType, refType, id) = SumOver(g, OfType(new, entryType, refType, id))
      /\ MoneyIn(rows, entryType, refType, id) = SumOver(f, T)
    BY DEF MoneyIn
<1>7. RowsWith(new, refType, id) =
        IF row.reference_type = refType /\ row.reference_id = id
        THEN RowsWith(rows, refType, id) \union {last} ELSE RowsWith(rows, refType, id)
    BY RowsAfterAppend
<1>8. OfType(new, entryType, refType, id) =
        IF /\ row.entry_type = entryType
           /\ row.reference_type = refType
           /\ row.reference_id = id
        THEN T \union {last} ELSE T
    <2>1. RowsWith(rows, refType, id) \subseteq 1..Len(rows)
        BY DEF RowsWith
    <2> HIDE DEF new
    <2>. QED
        BY <1>1, <1>7, <2>1 DEF OfType
<1> HIDE DEF new, last, T, f, g
<1>9. SumOver(f, T) = SumOver(g, T)
    BY <1>4, <1>5, SumOverAgree
<1>10. SumOver(g, T \union {last}) = SumOver(g, T) + g[last]
    <2>1. \A i \in T \union {last} : g[i] \in Int
        BY <1>2, <1>5
    <2>. QED
        BY <1>3, <1>4, <2>1, SumOverAdd
<1>11. MoneyIn(new, entryType, refType, id) =
         IF /\ row.entry_type = entryType
            /\ row.reference_type = refType
            /\ row.reference_id = id
         THEN MoneyIn(rows, entryType, refType, id) + row.amount
         ELSE MoneyIn(rows, entryType, refType, id)
    BY <1>5, <1>6, <1>8, <1>9, <1>10
<1>. QED
    BY <1>11 DEF new

(* What the module reads in the ledger, as sets and sums of rows. *)
LEMMA Readings ==
    ASSUME NEW b \in Bookings
    PROVE  /\ Payments(b) = RowsWith(wallet_ledger[customer[b]], "booking_payment", b)
           /\ RefundsOf(b) = RowsWith(wallet_ledger[customer[b]], "booking_refund", b)
           /\ CapturedAmount(b) = MoneyIn(wallet_ledger[customer[b]], "debit", "booking_payment", b)
           /\ PreviouslyRefunded(b) = MoneyIn(wallet_ledger[customer[b]], "credit", "booking_refund", b)
BY DEF Payments, RefundsOf, EntriesFor, CapturedAmount, PreviouslyRefunded, MoneyOf,
   MoneyIn, OfType

(* The readings of a well-typed ledger are finite sets and amounts. *)
LEMMA ReadingsTyped ==
    ASSUME TypeOK, NEW b \in Bookings
    PROVE  /\ wallet_ledger[customer[b]] \in Seq(LedgerRowOf(ReferenceIds))
           /\ customer[b] \in Users
           /\ IsFiniteSet(Payments(b)) /\ IsFiniteSet(RefundsOf(b))
           /\ PaidRows(b) \in Nat /\ Cardinality(RefundsOf(b)) \in Nat
           /\ PaidRows(b) = 0 <=> Payments(b) = {}
           /\ CapturedAmount(b) \in Nat /\ PreviouslyRefunded(b) \in Nat
           /\ RefundsOf(b) = {} => PreviouslyRefunded(b) = 0
<1>1. customer[b] \in Users
    BY BookingPaymentAssumption DEF BookingPaymentAssumption
<1>2. wallet_ledger[customer[b]] \in Seq(LedgerRowOf(ReferenceIds))
    BY <1>1 DEF TypeOK, WalletTypeOK, LedgerRow
<1> DEFINE rows == wallet_ledger[customer[b]]
<1>3. /\ IsFiniteSet(RowsWith(rows, "booking_payment", b))
      /\ IsFiniteSet(RowsWith(rows, "booking_refund", b))
      /\ MoneyIn(rows, "debit", "booking_payment", b) \in Nat
      /\ MoneyIn(rows, "credit", "booking_refund", b) \in Nat
      /\ RowsWith(rows, "booking_refund", b) = {} => MoneyIn(rows, "credit", "booking_refund", b) = 0
    <2> HIDE DEF rows
    <2>1. rows \in Seq(LedgerRowOf(ReferenceIds))
        BY <1>2 DEF rows
    <2>. QED
        BY <2>1, MoneyInTyped
<1>4. IsFiniteSet(Payments(b)) /\ IsFiniteSet(RefundsOf(b))
    BY <1>3, Readings
<1>5. PaidRows(b) \in Nat /\ Cardinality(RefundsOf(b)) \in Nat
    BY <1>4, FS_CardinalityType DEF PaidRows
<1>6. PaidRows(b) = 0 <=> Payments(b) = {}
    BY <1>4, FS_EmptySet DEF PaidRows
<1>. QED
    BY <1>1, <1>2, <1>3, <1>4, <1>5, <1>6, Readings

(* One row is appended to the ledger of a booking's customer: what is read *)
(* there of this booking, and of any other, before and after.              *)
LEMMA RowAppended ==
    ASSUME TypeOK, NEW c \in Bookings, NEW row \in LedgerRowOf(ReferenceIds),
           row.reference_id = c,
           wallet_ledger' = [wallet_ledger EXCEPT ![customer[c]] = Append(@, row)],
           NEW b \in Bookings
    PROVE  /\ row.reference_type = "booking_payment" =>
                /\ PaidRows(b)' = PaidRows(b) + (IF b = c THEN 1 ELSE 0)
                /\ b = c => Payments(b)' # {}
                /\ b # c => Payments(b)' = Payments(b)
                /\ RefundsOf(b)' = RefundsOf(b)
                /\ CapturedAmount(b)' \in Nat /\ CapturedAmount(b)' >= CapturedAmount(b)
                /\ PreviouslyRefunded(b)' = PreviouslyRefunded(b)
           /\ row.reference_type = "booking_refund" /\ row.entry_type = "credit" =>
                /\ Payments(b)' = Payments(b)
                /\ CapturedAmount(b)' = CapturedAmount(b)
                /\ b = c => /\ RefundsOf(b)' # {}
                            /\ Cardinality(RefundsOf(b))' = Cardinality(RefundsOf(b)) + 1
                            /\ PreviouslyRefunded(b)' = PreviouslyRefunded(b) + row.amount
                /\ b # c => /\ RefundsOf(b)' = RefundsOf(b)
                            /\ PreviouslyRefunded(b)' = PreviouslyRefunded(b)
<1> DEFINE rows == wallet_ledger[customer[b]]
           new == wallet_ledger'[customer[b]]
<1>1. /\ customer[b] \in Users /\ customer[c] \in Users
      /\ rows \in Seq(LedgerRowOf(ReferenceIds))
      /\ wallet_ledger \in [Users -> Seq(LedgerRow)]
    BY ReadingsTyped DEF TypeOK, WalletTypeOK
<1>2. new = IF customer[b] = customer[c] THEN Append(rows, row) ELSE rows
    BY <1>1
<1>3. b = c => customer[b] = customer[c]
    OBVIOUS
<1>4. row.amount \in Nat
    BY DEF LedgerRowOf
<1>5. /\ Payments(b)' = RowsWith(new, "booking_payment", b)
      /\ RefundsOf(b)' = RowsWith(new, "booking_refund", b)
      /\ CapturedAmount(b)' = MoneyIn(new, "debit", "booking_payment", b)
      /\ PreviouslyRefunded(b)' = MoneyIn(new, "credit", "booking_refund", b)
    BY DEF Payments, RefundsOf, EntriesFor, CapturedAmount, PreviouslyRefunded, MoneyOf,
       MoneyIn, OfType
<1>6. /\ Payments(b) = RowsWith(rows, "booking_payment", b)
      /\ RefundsOf(b) = RowsWith(rows, "booking_refund", b)
      /\ CapturedAmount(b) = MoneyIn(rows, "debit", "booking_payment", b)
      /\ PreviouslyRefunded(b) = MoneyIn(rows, "credit", "booking_refund", b)
    BY Readings
<1>7. /\ PaidRows(b)' = Cardinality(Payments(b)')
      /\ Cardinality(RefundsOf(b))' = Cardinality(RefundsOf(b)')
      /\ PaidRows(b) = Cardinality(Payments(b))
    BY DEF PaidRows
<1>8. /\ IsFiniteSet(Payments(b)) /\ IsFiniteSet(RefundsOf(b))
      /\ CapturedAmount(b) \in Nat /\ PreviouslyRefunded(b) \in Nat
      /\ PaidRows(b) \in Nat
    BY ReadingsTyped
<1> HIDE DEF rows, new
<1>9. ASSUME NEW t, row.reference_type # t \/ b # c
      PROVE  RowsWith(new, t, b) = RowsWith(rows, t, b)
    BY <1>1, <1>2, <1>9, RowsAfterAppend
<1>10. ASSUME NEW t, row.reference_type = t, b = c
       PROVE  /\ RowsWith(new, t, b) = RowsWith(rows, t, b) \union {Len(rows) + 1}
              /\ Len(rows) + 1 \notin RowsWith(rows, t, b)
    BY <1>1, <1>2, <1>3, <1>10, RowsAfterAppend
<1>11. ASSUME NEW e, NEW t, row.reference_type # t \/ b # c
       PROVE  MoneyIn(new, e, t, b) = MoneyIn(rows, e, t, b)
    BY <1>1, <1>2, <1>11, MoneyAfterAppend
<1>12. ASSUME NEW e, NEW t
       PROVE  MoneyIn(new, e, t, b) \in
                {MoneyIn(rows, e, t, b), MoneyIn(rows, e, t, b) + row.amount}
    BY <1>1, <1>2, MoneyAfterAppend
<1>13. ASSUME NEW e, NEW t, row.reference_type = t, row.entry_type = e, b = c
       PROVE  MoneyIn(new, e, t, b) = MoneyIn(rows, e, t, b) + row.amount
    BY <1>1, <1>2, <1>3, <1>13, MoneyAfterAppend
<1>14. CASE row.reference_type = "booking_payment"
    <2>1. RefundsOf(b)' = RefundsOf(b) /\ PreviouslyRefunded(b)' = PreviouslyRefunded(b)
        BY <1>5, <1>6, <1>9, <1>11, <1>14
    <2>2. CapturedAmount(b)' \in Nat /\ CapturedAmount(b)' >= CapturedAmount(b)
        BY <1>4, <1>5, <1>6, <1>8, <1>12
    <2>3. CASE b = c
        <3>1. Payments(b)' = Payments(b) \union {Len(rows) + 1}
            BY <1>5, <1>6, <1>10, <1>14, <2>3
        <3>2. Len(rows) + 1 \notin Payments(b)
            BY <1>6, <1>10, <1>14, <2>3
        <3>3. PaidRows(b)' = PaidRows(b) + 1
            BY ZenonT(60), <1>7, <1>8, <3>1, <3>2, FS_AddElement
        <3>. QED
            BY <1>14, <2>1, <2>2, <2>3, <3>1, <3>3
    <2>4. CASE b # c
        <3>1. Payments(b)' = Payments(b)
            BY <1>5, <1>6, <1>9, <2>4
        <3>. QED
            BY <1>7, <1>8, <1>14, <2>1, <2>2, <2>4, <3>1
    <2>. QED
        BY <2>3, <2>4
<1>15. CASE row.reference_type = "booking_refund" /\ row.entry_type = "credit"
    <2>1. Payments(b)' = Payments(b) /\ CapturedAmount(b)' = CapturedAmount(b)
        BY <1>5, <1>6, <1>9, <1>11, <1>15
    <2>2. CASE b = c
        <3>1. RefundsOf(b)' = RefundsOf(b) \union {Len(rows) + 1}
            BY <1>5, <1>6, <1>10, <1>15, <2>2
        <3>2. Len(rows) + 1 \notin RefundsOf(b)
            BY <1>6, <1>10, <1>15, <2>2
        <3>3. Cardinality(RefundsOf(b))' = Cardinality(RefundsOf(b)) + 1
            BY ZenonT(60), <1>7, <1>8, <3>1, <3>2, FS_AddElement
        <3>4. PreviouslyRefunded(b)' = PreviouslyRefunded(b) + row.amount
            BY <1>5, <1>6, <1>13, <1>15, <2>2
        <3>. QED
            BY <1>15, <2>1, <2>2, <3>1, <3>3, <3>4
    <2>3. CASE b # c
        <3>1. RefundsOf(b)' = RefundsOf(b) /\ PreviouslyRefunded(b)' = PreviouslyRefunded(b)
            BY <1>5, <1>6, <1>9, <1>11, <2>3
        <3>. QED
            BY <1>15, <2>1, <2>3, <3>1
    <2>. QED
        BY <2>2, <2>3
<1>. QED
    BY <1>14, <1>15

(* A payment's debit. *)
LEMMA PaymentRow ==
    ASSUME TypeOK, NEW c \in Bookings,
           DebitWallet(customer[c], Deposit(c), "booking_payment", c)
    PROVE  /\ WalletTypeOK'
           /\ \A b \in Bookings :
                /\ PaidRows(b)' = PaidRows(b) + (IF b = c THEN 1 ELSE 0)
                /\ b = c => Payments(b)' # {}
                /\ b # c => Payments(b)' = Payments(b)
                /\ RefundsOf(b)' = RefundsOf(b)
                /\ CapturedAmount(b)' \in Nat /\ CapturedAmount(b)' >= CapturedAmount(b)
                /\ PreviouslyRefunded(b)' = PreviouslyRefunded(b)
<1> DEFINE u == customer[c]
           row == LedgerEntry("debit", Deposit(c), cached_balance[u] - Deposit(c), "booking_payment", c)
<1>1. /\ u \in Users /\ Deposit(c) \in Nat /\ Deposit(c) > 0
      /\ cached_balance[u] \in Nat /\ cached_balance[u] >= Deposit(c)
      /\ c \in ReferenceIds
    BY DepositTyped, BookingPaymentAssumption
    DEF BookingPaymentAssumption, DebitWallet, CanDebit, TypeOK, WalletTypeOK
<1>2. /\ wallet_ledger' = [wallet_ledger EXCEPT ![u] = Append(@, row)]
      /\ cached_balance' = [cached_balance EXCEPT ![u] = @ - Deposit(c)]
    BY DEF DebitWallet
<1>3. /\ row \in LedgerRowOf(ReferenceIds)
      /\ row.reference_id = c /\ row.reference_type = "booking_payment"
    BY <1>1 DEF LedgerEntry, LedgerRowOf, EntryTypes, ReferenceTypes
<1>4. WalletTypeOK'
    <2> HIDE DEF row, u
    <2>1. wallet_ledger[u] \in Seq(LedgerRowOf(ReferenceIds))
        BY <1>1 DEF TypeOK, WalletTypeOK, LedgerRow
    <2>2. Append(wallet_ledger[u], row) \in Seq(LedgerRowOf(ReferenceIds))
        BY <1>3, <2>1
    <2>. QED
        BY <1>1, <1>2, <2>2 DEF TypeOK, WalletTypeOK, LedgerRow
<1> HIDE DEF row
<1>. QED
    BY <1>2, <1>3, <1>4, RowAppended DEF u

(* A cancellation's refund. *)
LEMMA RefundRow ==
    ASSUME TypeOK, NEW c \in Bookings, NEW amt \in Nat,
           CreditWallet(customer[c], amt, "booking_refund", c)
    PROVE  /\ WalletTypeOK'
           /\ \A b \in Bookings :
                /\ Payments(b)' = Payments(b)
                /\ CapturedAmount(b)' = CapturedAmount(b)
                /\ b = c => /\ RefundsOf(b)' # {}
                            /\ Cardinality(RefundsOf(b))' = Cardinality(RefundsOf(b)) + 1
                            /\ PreviouslyRefunded(b)' = PreviouslyRefunded(b) + amt
                /\ b # c => /\ RefundsOf(b)' = RefundsOf(b)
                            /\ PreviouslyRefunded(b)' = PreviouslyRefunded(b)
<1> DEFINE u == customer[c]
           row == LedgerEntry("credit", amt, cached_balance[u] + amt, "booking_refund", c)
<1>1. /\ u \in Users /\ amt > 0
      /\ cached_balance[u] \in Nat
      /\ c \in ReferenceIds
    BY BookingPaymentAssumption
    DEF BookingPaymentAssumption, CreditWallet, TypeOK, WalletTypeOK
<1>2. /\ wallet_ledger' = [wallet_ledger EXCEPT ![u] = Append(@, row)]
      /\ cached_balance' = [cached_balance EXCEPT ![u] = @ + amt]
    BY DEF CreditWallet
<1>3. /\ row \in LedgerRowOf(ReferenceIds)
      /\ row.reference_id = c /\ row.reference_type = "booking_refund"
      /\ row.entry_type = "credit" /\ row.amount = amt
    BY <1>1 DEF LedgerEntry, LedgerRowOf, EntryTypes, ReferenceTypes
<1>4. WalletTypeOK'
    <2> HIDE DEF row, u
    <2>1. wallet_ledger[u] \in Seq(LedgerRowOf(ReferenceIds))
        BY <1>1 DEF TypeOK, WalletTypeOK, LedgerRow
    <2>2. Append(wallet_ledger[u], row) \in Seq(LedgerRowOf(ReferenceIds))
        BY <1>3, <2>1
    <2>. QED
        BY <1>1, <1>2, <2>2 DEF TypeOK, WalletTypeOK, LedgerRow
<1> HIDE DEF row
<1>. QED
    BY <1>2, <1>3, <1>4, RowAppended DEF u

(* A step that leaves the ledger alone. *)
LEMMA LedgerFrame ==
    ASSUME UNCHANGED walletVars
    PROVE  /\ WalletTypeOK => WalletTypeOK'
           /\ \A b \in Bookings :
                /\ PaidRows(b)' = PaidRows(b)
                /\ Payments(b)' = Payments(b)
                /\ RefundsOf(b)' = RefundsOf(b)
                /\ Cardinality(RefundsOf(b))' = Cardinality(RefundsOf(b))
                /\ CapturedAmount(b)' = CapturedAmount(b)
                /\ PreviouslyRefunded(b)' = PreviouslyRefunded(b)
<1>1. cached_balance' = cached_balance /\ wallet_ledger' = wallet_ledger
    BY DEF walletVars
<1>. QED
    BY <1>1 DEF WalletTypeOK, PaidRows, Payments, RefundsOf, EntriesFor, CapturedAmount,
       PreviouslyRefunded, MoneyOf

-----------------------------------------------------------------------------
(* Steps that move no money and write no column of a booking. *)

(* Failed requests stay with their booking, and only become more. *)
FaultsStep ==
    /\ failed \subseteq failed'
    /\ failed' \subseteq Requests
    /\ \A q \in failed : target'[q] = target[q]

(* The failures of a booking can be counted. *)
LEMMA FailuresType ==
    ASSUME TypeOK, NEW b \in Bookings
    PROVE  Failures(b) \in Nat
<1>1. MaxRequests \in Int
    BY BookingPaymentAssumption DEF BookingPaymentAssumption
<1>2. IsFiniteSet(Requests)
    BY <1>1, FS_Interval DEF Requests
<1>3. For(b) \intersect failed \in SUBSET Requests
    BY DEF For
<1>4. IsFiniteSet(For(b) \intersect failed)
    BY <1>2, <1>3, FS_Subset
<1>. QED
    BY <1>4, FS_CardinalityType DEF Failures

(* Requests that failed stay failed, and keep their booking. *)
LEMMA FailuresGrow ==
    ASSUME TypeOK, FaultsStep, NEW b \in Bookings
    PROVE  /\ Failures(b) \in Nat /\ Failures(b)' \in Nat
           /\ Failures(b) <= Failures(b)'
<1> DEFINE S == For(b) \intersect failed
           T == For(b)' \intersect failed'
<1>1. IsFiniteSet(Requests)
    <2>1. MaxRequests \in Int
        BY BookingPaymentAssumption DEF BookingPaymentAssumption
    <2>. QED
        BY <2>1, FS_Interval DEF Requests
<1>2. S \in SUBSET Requests /\ T \in SUBSET Requests /\ S \in SUBSET T
    BY DEF For, FaultsStep, TypeOK
<1>3. Failures(b) = Cardinality(S) /\ Failures(b)' = Cardinality(T)
    BY DEF Failures
<1> HIDE DEF S, T
<1>4. IsFiniteSet(S) /\ IsFiniteSet(T)
    BY <1>1, <1>2, FS_Subset
<1>5. Cardinality(S) \in Nat /\ Cardinality(T) \in Nat
    BY <1>4, FS_CardinalityType
<1>6. Cardinality(S) <= Cardinality(T)
    BY <1>2, <1>4, FS_Subset
<1>. QED
    BY <1>3, <1>5, <1>6

(* A request that fails counts once against its booking. *)
LEMMA FailureAdded ==
    ASSUME TypeOK, NEW r \in Requests \ failed, failed' = failed \union {r},
           UNCHANGED target, NEW b \in Bookings, target[r] = b
    PROVE  Failures(b)' = Failures(b) + 1
<1> DEFINE S == For(b) \intersect failed
           T == For(b)' \intersect failed'
<1>1. IsFiniteSet(Requests)
    <2>1. MaxRequests \in Int
        BY BookingPaymentAssumption DEF BookingPaymentAssumption
    <2>. QED
        BY <2>1, FS_Interval DEF Requests
<1>2. S \in SUBSET Requests /\ T = S \union {r} /\ r \notin S
    BY DEF For, TypeOK
<1>3. Failures(b) = Cardinality(S) /\ Failures(b)' = Cardinality(T)
    BY DEF Failures
<1> HIDE DEF S, T
<1>4. IsFiniteSet(S)
    BY <1>1, <1>2, FS_Subset
<1>5. Cardinality(T) = Cardinality(S) + 1
    BY <1>2, <1>4, FS_AddElement
<1>. QED
    BY <1>3, <1>5

(* Where a request has not yet claimed, and where it holds no claim. *)
Unclaimed == {"idle", "pay_claim", "cancel_quote", "cancel_read"}

OthersStay(r) ==
    \A q \in Requests \ {r} :
        /\ pc'[q] = pc[q]
        /\ target'[q] = target[q]
        /\ from_status'[q] = from_status[q]
        /\ to_status'[q] = to_status[q]
        /\ quote'[q] = quote[q]

(* Only request r moves on; it keeps to its booking, does not drop a claim *)
(* of its own unless it fails, and begins neither a payment nor a refund.  *)
LocalStep(r) ==
    /\ UNCHANGED <<walletVars, bookingVars, payment_status, payment_reference>>
    /\ OthersStay(r)
    /\ failed \subseteq failed' /\ failed' \subseteq failed \union {r}
    /\ pc'[r] # "idle" /\ target'[r] \in Bookings
    /\ target[r] # NULL => target'[r] = target[r]
    /\ r \in failed' => pc'[r] \in {"pay_rollback", "done"}
    /\ pc'[r] \in {"pay_debit", "pay_rollback"} => pc[r] \in {"pay_debit", "pay_rollback"}
    /\ pc[r] \in {"pay_debit", "pay_rollback"} =>
          pc'[r] \in {"pay_debit", "pay_rollback"} \/ r \in failed'
    /\ pc'[r] \in Unclaimed => pc[r] \in Unclaimed
    /\ pc'[r] = "pay_confirm" => pc[r] = "pay_confirm"
    /\ pc'[r] = "transition" =>
          /\ pc[r] \in Unclaimed \union {"pay_confirm", "transition"}
          /\ \E role \in Roles : <<from_status'[r], to_status'[r]>> \in Transitions[role]
    /\ pc'[r] \in {"cancel_stamp", "cancel_credit"} => pc[r] \in {"cancel_stamp", "cancel_credit"}
    /\ pc'[r] = "cancel_mark" => pc[r] = "cancel_mark"
    /\ quote'[r] <= CapturedAmount(target'[r])

(* What one request does to its own variables only, without losing what it *)
(* must know, keeps the invariant.                                         *)
LEMMA LocalStepKeeps ==
    ASSUME MoneyInv, TypeOK', NEW r \in Requests, LocalStep(r)
    PROVE  MoneyInv'
<1>1. /\ TypeOK /\ WorkerInv /\ HolderInv /\ CancelInv /\ CountInv /\ RefundInv
      /\ PaymentStatusTellsTheTruth /\ SelfConfirmedIsPaid
    BY DEF MoneyInv
<1>2. /\ UNCHANGED <<booking_status, confirmed_by, payment_status, payment_reference>>
      /\ UNCHANGED walletVars
    BY DEF LocalStep, bookingVars
<1>3. \A b \in Bookings :
        /\ PaidRows(b)' = PaidRows(b)
        /\ Payments(b)' = Payments(b)
        /\ RefundsOf(b)' = RefundsOf(b)
        /\ Cardinality(RefundsOf(b))' = Cardinality(RefundsOf(b))
        /\ CapturedAmount(b)' = CapturedAmount(b)
        /\ PreviouslyRefunded(b)' = PreviouslyRefunded(b)
        /\ PaidRows(b) \in Nat
    BY <1>1, <1>2, LedgerFrame, ReadingsTyped
<1>4. \A q \in Requests : pc[q] # "idle" => target[q] \in Bookings /\ target'[q] = target[q]
    <2>1. \A q \in Requests : pc[q] # "idle" => target[q] \in Bookings /\ target[q] # NULL
        BY <1>1, NullIsNoRequest DEF WorkerInv
    <2>2. /\ \A q \in Requests \ {r} : target'[q] = target[q]
          /\ target[r] # NULL => target'[r] = target[r]
        BY DEF LocalStep, OthersStay
    <2>. QED
        BY <2>1, <2>2
<1>5. FaultsStep
    <2>1. failed \subseteq Requests /\ \A q \in failed : pc[q] # "idle"
        BY <1>1 DEF TypeOK, WorkerInv
    <2>2. failed \subseteq failed' /\ failed' \subseteq Requests
        BY <2>1 DEF LocalStep
    <2>. QED
        BY <1>4, <2>1, <2>2 DEF FaultsStep
<1>6. WorkerInv'
    <2> SUFFICES ASSUME NEW q \in Requests
                 PROVE  /\ pc'[q] = "idle" => target'[q] = NULL /\ quote'[q] = 0
                        /\ pc'[q] # "idle" => target'[q] \in Bookings
                        /\ q \in failed' => pc'[q] \in {"pay_rollback", "done"}
                        /\ pc'[q] \in {"pay_debit", "pay_rollback"} =>
                              /\ payment_reference'[target'[q]] = q
                              /\ payment_status'[target'[q]] # "unpaid"
                        /\ pc'[q] = "transition" =>
                              \E role \in Roles : <<from_status'[q], to_status'[q]>> \in Transitions[role]
        BY DEF WorkerInv
    <2>1. CASE q = r
        BY ZenonT(60), <1>1, <1>2, <2>1, NullIsNoRequest DEF LocalStep, WorkerInv
    <2>2. CASE q # r
        BY <1>1, <1>2, <2>2 DEF LocalStep, OthersStay, WorkerInv
    <2>. QED
        BY <2>1, <2>2
<1>7. HolderInv'
    <2> SUFFICES ASSUME NEW b \in Bookings, payment_reference[b] # NULL
                 PROVE  LET q == payment_reference[b] IN
                        /\ target'[q] = b
                        /\ pc'[q] \notin Unclaimed
                        /\ pc'[q] \in {"pay_confirm", "transition"} => Payments(b) # {}
        BY <1>2, <1>3 DEF HolderInv, Unclaimed
    <2> DEFINE q == payment_reference[b]
    <2>1. q \in Requests
        BY <1>1 DEF TypeOK
    <2>2. /\ target[q] = b /\ pc[q] \notin Unclaimed
          /\ pc[q] \in {"pay_confirm", "transition"} => Payments(b) # {}
        BY <1>1 DEF HolderInv, Unclaimed
    <2> HIDE DEF q
    <2>3. CASE q = r
        <3>1. /\ pc'[r] \in Unclaimed => pc[r] \in Unclaimed
              /\ pc'[r] = "pay_confirm" => pc[r] = "pay_confirm"
              /\ pc'[r] = "transition" => pc[r] \in Unclaimed \union {"pay_confirm", "transition"}
            BY DEF LocalStep
        <3>2. target'[r] = target[r]
            BY <1>4, <2>2, <2>3 DEF Unclaimed
        <3>. QED
            BY <2>2, <2>3, <3>1, <3>2 DEF q
    <2>4. CASE q # r
        <3>1. pc'[q] = pc[q] /\ target'[q] = target[q]
            BY <2>1, <2>4 DEF LocalStep, OthersStay
        <3>. QED
            BY <2>2, <3>1 DEF q
    <2>. QED
        BY <2>3, <2>4
<1>8. CountInv'
    <2> SUFFICES ASSUME NEW b \in Bookings
                 PROVE  /\ PaidRows(b)' <= Failures(b)' + 1
                        /\ ~Kept(b)' => PaidRows(b)' <= Failures(b)'
        BY DEF CountInv
    <2>1. Kept(b) => Kept(b)'
        <3>1. \A q \in Requests : pc'[q] \in {"pay_debit", "pay_rollback"} =>
                pc[q] \in {"pay_debit", "pay_rollback"}
            BY DEF LocalStep, OthersStay
        <3>2. Paying(b)' => Paying(b)
            BY <1>4, <3>1 DEF Paying, For
        <3>. QED
            BY <1>2, <3>2 DEF Kept
    <2>2. /\ Failures(b) \in Nat /\ Failures(b)' \in Nat
          /\ Failures(b) <= Failures(b)'
        BY <1>1, <1>5, FailuresGrow
    <2>. QED
        BY <1>1, <1>3, <2>1, <2>2 DEF CountInv
<1>9. CancelInv'
    <2>1. \A q \in Requests : pc'[q] \in Cancelling => pc[q] \in Cancelling /\ target'[q] = target[q]
        BY ZenonT(60), <1>1, NullIsNoRequest DEF LocalStep, OthersStay, Cancelling, WorkerInv
    <2>2. ASSUME NEW q \in Requests
          PROVE  /\ pc'[q] \in Cancelling => booking_status'[target'[q]] = "cancelled"
                 /\ pc'[q] = "cancel_mark" => RefundsOf(target[q])' # {}
                 /\ pc'[q] \in {"cancel_stamp", "cancel_credit"} => RefundsOf(target[q])' = {}
        <3>1. pc'[q] \in Cancelling => target[q] \in Bookings /\ target'[q] = target[q]
            BY <1>1, <2>1 DEF WorkerInv, Cancelling
        <3>2. /\ pc'[q] = "cancel_mark" => pc[q] = "cancel_mark"
              /\ pc'[q] \in {"cancel_stamp", "cancel_credit"} => pc[q] \in {"cancel_stamp", "cancel_credit"}
            BY DEF LocalStep, OthersStay
        <3>3. pc'[q] \in Cancelling => RefundsOf(target[q])' = RefundsOf(target[q])
            BY <1>3, <3>1
        <3>. QED
            BY <1>1, <1>2, <3>1, <3>2, <3>3 DEF CancelInv, Cancelling
    <2>3. ASSUME NEW q \in Requests, pc'[q] # "idle"
          PROVE  quote'[q] <= CapturedAmount(target[q])'
        <3>1. quote'[q] <= CapturedAmount(target'[q]) /\ target'[q] \in Bookings
            <4>1. CASE q = r
                BY <4>1 DEF LocalStep
            <4>2. CASE q # r
                <5>1. pc'[q] = pc[q] /\ target'[q] = target[q] /\ quote'[q] = quote[q]
                    BY <4>2 DEF LocalStep, OthersStay
                <5>2. quote[q] <= CapturedAmount(target[q]) /\ target[q] \in Bookings
                    BY <1>1, <2>3, <5>1 DEF CancelInv, WorkerInv
                <5>. QED
                    BY <5>1, <5>2
            <4>. QED
                BY <4>1, <4>2
        <3>. QED
            BY <1>3, <3>1
    <2>4. ASSUME NEW p \in Requests, NEW q \in Requests,
                 pc'[p] \in Cancelling, pc'[q] \in Cancelling, target'[p] = target'[q]
          PROVE  p = q
        BY <1>1, <2>1, <2>4 DEF CancelInv
    <2>. QED
        BY <2>2, <2>3, <2>4 DEF CancelInv
<1>10. RefundInv'
    BY <1>1, <1>2, <1>3 DEF RefundInv
<1>11. PaymentStatusTellsTheTruth'
    <2> SUFFICES ASSUME NEW b \in Bookings
                 PROVE  /\ Payments(b)' # {} =>
                              payment_status'[b] # "unpaid" \/ For(b)' \intersect failed' # {}
                        /\ payment_status'[b] = "escrow_held" =>
                              \/ Payments(b)' # {}
                              \/ \E q \in For(b)' : pc'[q] \in {"pay_debit", "pay_rollback"} \/ q \in failed'
                        /\ payment_status'[b] = "refunded" =>
                              RefundsOf(b)' # {} /\ booking_status'[b] = "cancelled"
        BY DEF PaymentStatusTellsTheTruth
    <2>1. For(b) \intersect failed \subseteq For(b)' \intersect failed'
        BY <1>5 DEF FaultsStep, For
    <2>2. ASSUME NEW q \in For(b), pc[q] \in {"pay_debit", "pay_rollback"}
          PROVE  q \in For(b)' /\ (pc'[q] \in {"pay_debit", "pay_rollback"} \/ q \in failed')
        BY <1>1, <2>2, NullIsNoRequest DEF For, LocalStep, OthersStay, WorkerInv
    <2>. QED
        BY <1>1, <1>2, <1>3, <2>1, <2>2 DEF PaymentStatusTellsTheTruth
<1>12. SelfConfirmedIsPaid'
    BY <1>1, <1>2, <1>3 DEF SelfConfirmedIsPaid
<1>. QED
    BY <1>6, <1>7, <1>8, <1>9, <1>10, <1>11, <1>12 DEF MoneyInv

(* The columns and variables a local step may type anew. *)
LocalsTyped ==
    /\ pc \in [Requests -> Locations]
    /\ target \in [Requests -> Bookings \union {NULL}]
    /\ from_status \in [Requests -> BookingStatuses \union {"none"}]
    /\ to_status \in [Requests -> BookingStatuses \union {"none"}]
    /\ was_paid \in [Requests -> BOOLEAN]
    /\ quote \in [Requests -> Nat]
    /\ crashed \in SUBSET Requests
    /\ failed \in SUBSET Requests

(* Such a step is well typed when the request's own variables are. *)
LEMMA LocalTypes ==
    ASSUME TypeOK, UNCHANGED <<walletVars, bookingVars, paymentVars>>, LocalsTyped'
    PROVE  TypeOK'
<1>1. WalletTypeOK'
    BY LedgerFrame DEF TypeOK
<1>. QED
    BY <1>1 DEF TypeOK, LocalsTyped, bookingVars, paymentVars

(* What a request has in hand is accounted for. *)
LEMMA QuoteCovered ==
    ASSUME MoneyInv, NEW r \in Requests
    PROVE  /\ quote[r] \in Nat
           /\ pc[r] = "idle" => \A b \in Bookings : quote[r] <= CapturedAmount(b)
           /\ pc[r] # "idle" => /\ target[r] \in Bookings
                                /\ quote[r] <= CapturedAmount(target[r])
<1>1. quote[r] \in Nat /\ (pc[r] = "idle" => quote[r] = 0)
    BY DEF MoneyInv, TypeOK, WorkerInv
<1>2. \A b \in Bookings : CapturedAmount(b) \in Nat
    BY ReadingsTyped DEF MoneyInv
<1>3. pc[r] # "idle" => target[r] \in Bookings /\ quote[r] <= CapturedAmount(target[r])
    BY DEF MoneyInv, CancelInv, WorkerInv
<1>. QED
    BY <1>1, <1>2, <1>3

(* The first reads of the three routes. *)
LEMMA PayReadKeeps ==
    ASSUME MoneyInv, NEW r \in Requests, NEW b \in Bookings, PayRead(r, b)
    PROVE  MoneyInv'
<1>1. TypeOK /\ WorkerInv
    BY DEF MoneyInv
<1>2. /\ pc[r] = "idle" /\ target[r] = NULL /\ r \notin failed
      /\ pc' \in {[pc EXCEPT ![r] = "pay_claim"], [pc EXCEPT ![r] = "done"]}
      /\ target' = [target EXCEPT ![r] = b]
      /\ from_status' \in {from_status, [from_status EXCEPT ![r] = booking_status[b]]}
      /\ UNCHANGED <<walletVars, bookingVars, paymentVars, to_status, was_paid, quote, crashed, failed>>
    BY <1>1 DEF PayRead, Arrives, At, Goto, WorkerInv, faultVars
<1>3. TypeOK'
    <2>1. LocalsTyped'
        BY <1>1, <1>2 DEF LocalsTyped, TypeOK, Locations
    <2>. QED
        BY <1>1, <1>2, <2>1, LocalTypes
<1>4. LocalStep(r)
    BY <1>1, <1>2, QuoteCovered, NullIsNoRequest
    DEF LocalStep, OthersStay, Unclaimed, TypeOK, paymentVars
<1>. QED
    BY <1>3, <1>4, LocalStepKeeps

(* A move is read from the table before it is written. *)
LEMMA MoveReadKeeps ==
    ASSUME MoneyInv, NEW r \in Requests, NEW b \in Bookings, MoveRead(r, b)
    PROVE  MoneyInv'
<1>1. TypeOK /\ WorkerInv
    BY DEF MoneyInv
<1>2. PICK role \in Roles, to \in BookingStatuses :
           /\ <<booking_status[b], to>> \in Transitions[role]
           /\ to_status' = [to_status EXCEPT ![r] = to]
    <2>1. PICK role \in DOMAIN RequestedTransitions :
            \E to \in RequestedTransitions[role] :
               /\ <<booking_status[b], to>> \in Transitions[role]
               /\ to_status' = [to_status EXCEPT ![r] = to]
        BY DEF MoveRead
    <2>2. role \in Roles
        BY DEF Roles, RequestedTransitions
    <2>. QED
        BY <2>1, <2>2, CancelledIsFinal
<1>3. /\ pc[r] = "idle" /\ target[r] = NULL /\ r \notin failed
      /\ pc' = [pc EXCEPT ![r] = "transition"]
      /\ target' = [target EXCEPT ![r] = b]
      /\ from_status' = [from_status EXCEPT ![r] = booking_status[b]]
      /\ UNCHANGED <<walletVars, bookingVars, paymentVars, was_paid, quote, crashed, failed>>
    BY <1>1 DEF MoveRead, Arrives, At, Goto, WorkerInv, faultVars
<1>4. to \in BookingStatuses /\ booking_status[b] \in BookingStatuses
    BY <1>2, CancelledIsFinal
<1>5. TypeOK'
    <2>1. LocalsTyped'
        BY <1>1, <1>2, <1>3, <1>4 DEF LocalsTyped, TypeOK, Locations
    <2>. QED
        BY <1>1, <1>3, <2>1, LocalTypes
<1>6. LocalStep(r)
    BY <1>1, <1>2, <1>3, QuoteCovered, NullIsNoRequest
    DEF LocalStep, OthersStay, Unclaimed, TypeOK, paymentVars
<1>. QED
    BY <1>5, <1>6, LocalStepKeeps

(* A cancellation begins by reading the booking. *)
LEMMA CancelReadKeeps ==
    ASSUME MoneyInv, NEW r \in Requests, NEW b \in Bookings, CancelRead(r, b)
    PROVE  MoneyInv'
<1>1. TypeOK /\ WorkerInv
    BY DEF MoneyInv
<1>2. /\ pc[r] = "idle" /\ target[r] = NULL /\ r \notin failed
      /\ pc' = [pc EXCEPT ![r] = "cancel_quote"]
      /\ target' = [target EXCEPT ![r] = b]
      /\ was_paid' = [was_paid EXCEPT ![r] = payment_status[b] = "escrow_held"]
      /\ UNCHANGED <<walletVars, bookingVars, paymentVars, from_status, to_status, quote, crashed, failed>>
    BY <1>1 DEF CancelRead, Arrives, At, Goto, WorkerInv, faultVars
<1>3. TypeOK'
    <2>1. LocalsTyped'
        BY <1>1, <1>2 DEF LocalsTyped, TypeOK, Locations
    <2>. QED
        BY <1>1, <1>2, <2>1, LocalTypes
<1>4. LocalStep(r)
    BY <1>1, <1>2, QuoteCovered, NullIsNoRequest
    DEF LocalStep, OthersStay, Unclaimed, TypeOK, paymentVars
<1>. QED
    BY <1>3, <1>4, LocalStepKeeps

(* payForBooking: the debit is refused.                                    *)
LEMMA PayDebitRefusedKeeps ==
    ASSUME MoneyInv, NEW r \in Requests, PayDebitRefused(r)
    PROVE  MoneyInv'
<1>1. TypeOK /\ WorkerInv
    BY DEF MoneyInv
<1>2. /\ pc[r] = "pay_debit" /\ r \notin failed
      /\ pc' = [pc EXCEPT ![r] = "pay_rollback"]
      /\ UNCHANGED <<walletVars, bookingVars, paymentVars, target, from_status, to_status,
                     was_paid, quote, crashed, failed>>
    BY <1>1 DEF PayDebitRefused, AfterRefusal, At, Goto, WorkerInv, localVars, faultVars
<1>3. TypeOK'
    <2>1. LocalsTyped'
        BY <1>1, <1>2 DEF LocalsTyped, TypeOK, Locations
    <2>. QED
        BY <1>1, <1>2, <2>1, LocalTypes
<1>4. LocalStep(r)
    BY <1>1, <1>2, QuoteCovered, NullIsNoRequest
    DEF LocalStep, OthersStay, Unclaimed, TypeOK, paymentVars
<1>. QED
    BY <1>3, <1>4, LocalStepKeeps

(* The read of a transition, and where it leads a request that has come    *)
(* from its payment or from its quote.                                     *)
LEMMA TransitionReadKeeps ==
    ASSUME MoneyInv, NEW r \in Requests, pc[r] \in {"pay_confirm", "cancel_read"},
           NEW roles \in SUBSET Roles, NEW to, TransitionRead(r, roles, to),
           UNCHANGED <<walletVars, bookingVars, paymentVars, target, was_paid, quote, faultVars>>
    PROVE  MoneyInv'
<1>1. TypeOK /\ WorkerInv /\ r \notin failed
    BY DEF MoneyInv, WorkerInv
<1>2. UNCHANGED <<crashed, failed>>
    BY DEF faultVars
<1>3. CASE /\ pc' = [pc EXCEPT ![r] = "done"]
           /\ UNCHANGED <<from_status, to_status>>
    <2>1. LocalsTyped'
        BY <1>1, <1>2, <1>3 DEF LocalsTyped, TypeOK, Locations
    <2>2. TypeOK'
        BY <1>1, <2>1, LocalTypes
    <2>3. LocalStep(r)
        BY <1>1, <1>2, <1>3, QuoteCovered, NullIsNoRequest
        DEF LocalStep, OthersStay, Unclaimed, TypeOK, paymentVars
    <2>. QED
        BY <2>2, <2>3, LocalStepKeeps
<1>4. ASSUME NEW role \in roles,
             <<booking_status[target[r]], to>> \in Transitions[role],
             pc' = [pc EXCEPT ![r] = "transition"],
             from_status' = [from_status EXCEPT ![r] = booking_status[target[r]]],
             to_status' = [to_status EXCEPT ![r] = to]
      PROVE  MoneyInv'
    <2>1. to \in BookingStatuses /\ booking_status[target[r]] \in BookingStatuses
        BY <1>4, CancelledIsFinal
    <2>2. LocalsTyped'
        BY <1>1, <1>2, <1>4, <2>1 DEF LocalsTyped, TypeOK, Locations
    <2>3. TypeOK'
        BY <1>1, <2>2, LocalTypes
    <2>4. LocalStep(r)
        BY <1>1, <1>2, <1>4, QuoteCovered, NullIsNoRequest
        DEF LocalStep, OthersStay, Unclaimed, TypeOK, paymentVars
    <2>. QED
        BY <2>3, <2>4, LocalStepKeeps
<1>. QED
    BY <1>3, <1>4 DEF TransitionRead, Goto

(* The payment of an instant booking reads its confirmation in the table. *)
LEMMA PayConfirmKeeps ==
    ASSUME MoneyInv, NEW r \in Requests, PayConfirm(r)
    PROVE  MoneyInv'
BY TransitionReadKeeps DEF PayConfirm, At, Roles

(* A cancellation reads its own move in the table. *)
LEMMA CancelTransitionKeeps ==
    ASSUME MoneyInv, NEW r \in Requests, CancelTransition(r)
    PROVE  MoneyInv'
BY TransitionReadKeeps DEF CancelTransition, At, Roles

(* The quote is an amount, and no more than was captured. *)
LEMMA CancelQuoteKeeps ==
    ASSUME MoneyInv, NEW r \in Requests, CancelQuote(r)
    PROVE  MoneyInv'
<1>1. TypeOK /\ WorkerInv
    BY DEF MoneyInv
<1> DEFINE b == target[r]
<1>2. PICK share \in Percentages :
        quote' = [quote EXCEPT ![r] = RefundOf(CapturedAmount(b), PreviouslyRefunded(b), share)]
    BY DEF CancelQuote
<1>3. /\ pc[r] = "cancel_quote" /\ r \notin failed
      /\ pc' = [pc EXCEPT ![r] = "cancel_read"]
      /\ UNCHANGED <<walletVars, bookingVars, paymentVars, target, from_status, to_status,
                     was_paid, crashed, failed>>
    BY <1>1 DEF CancelQuote, At, Goto, WorkerInv, faultVars
<1>4. b \in Bookings
    BY <1>3, QuoteCovered
<1>5. CapturedAmount(b) \in Nat /\ PreviouslyRefunded(b) \in Nat
    BY <1>1, <1>4, ReadingsTyped
<1> DEFINE amount == RefundOf(CapturedAmount(b), PreviouslyRefunded(b), share)
<1>6. amount \in Nat /\ amount <= CapturedAmount(b)
    BY <1>5, RefundOfTyped
<1>7. quote' = [quote EXCEPT ![r] = amount]
    BY <1>2
<1> HIDE DEF amount
<1>8. TypeOK'
    <2>1. LocalsTyped'
        BY <1>1, <1>3, <1>6, <1>7 DEF LocalsTyped, TypeOK, Locations
    <2>. QED
        BY <1>1, <1>3, <2>1, LocalTypes
<1>9. quote'[r] <= CapturedAmount(target[r])
    BY <1>1, <1>6, <1>7 DEF TypeOK
<1>10. LocalStep(r)
    BY <1>1, <1>3, <1>4, <1>7, <1>9, NullIsNoRequest
    DEF LocalStep, OthersStay, Unclaimed, TypeOK, paymentVars
<1>. QED
    BY <1>8, <1>10, LocalStepKeeps

(* The stamp writes the quote into the booking's row. *)
LEMMA CancelStampKeeps ==
    ASSUME MoneyInv, NEW r \in Requests, CancelStamp(r)
    PROVE  MoneyInv'
<1>1. TypeOK /\ WorkerInv
    BY DEF MoneyInv
<1>2. /\ pc[r] = "cancel_stamp" /\ r \notin failed
      /\ pc' \in {[pc EXCEPT ![r] = "cancel_credit"], [pc EXCEPT ![r] = "done"]}
      /\ refund_amount' = [refund_amount EXCEPT ![target[r]] = quote[r]]
      /\ UNCHANGED <<walletVars, bookingVars, payment_status, payment_reference, target,
                     from_status, to_status, was_paid, quote, crashed, failed>>
    BY <1>1 DEF CancelStamp, At, Goto, WorkerInv, localVars, faultVars
<1>3. TypeOK'
    <2>1. WalletTypeOK'
        BY <1>1, <1>2, LedgerFrame DEF TypeOK
    <2>. QED
        BY <1>1, <1>2, <2>1, QuoteCovered DEF TypeOK, bookingVars, Locations
<1>4. LocalStep(r)
    BY <1>1, <1>2, QuoteCovered, NullIsNoRequest
    DEF LocalStep, OthersStay, Unclaimed, TypeOK
<1>. QED
    BY <1>3, <1>4, LocalStepKeeps

(* A statement fails, or the Worker dies. *)
LEMMA ThrowKeeps ==
    ASSUME MoneyInv, NEW r \in Requests, Throw(r)
    PROVE  MoneyInv'
<1>1. TypeOK /\ WorkerInv
    BY DEF MoneyInv
<1>2. /\ pc[r] \notin {"idle", "done"}
      /\ failed' = failed \union {r}
      /\ pc' = [pc EXCEPT ![r] = IF pc[r] = "pay_debit" THEN "pay_rollback" ELSE "done"]
      /\ UNCHANGED <<walletVars, bookingVars, paymentVars, target, from_status, to_status,
                     was_paid, quote, crashed>>
    BY DEF Throw, Goto, localVars
<1>3. TypeOK'
    <2>1. LocalsTyped'
        BY <1>1, <1>2 DEF LocalsTyped, TypeOK, Locations
    <2>. QED
        BY <1>1, <1>2, <2>1, LocalTypes
<1>4. LocalStep(r)
    BY <1>1, <1>2, QuoteCovered, NullIsNoRequest
    DEF LocalStep, OthersStay, Unclaimed, TypeOK, paymentVars
<1>. QED
    BY <1>3, <1>4, LocalStepKeeps

(* A Worker that dies does nothing more. *)
LEMMA CrashKeeps ==
    ASSUME MoneyInv, NEW r \in Requests, Crash(r)
    PROVE  MoneyInv'
<1>1. TypeOK /\ WorkerInv
    BY DEF MoneyInv
<1>2. /\ pc[r] \notin {"idle", "done"}
      /\ crashed' = crashed \union {r}
      /\ UNCHANGED <<walletVars, bookingVars, paymentVars, pc, target, from_status, to_status,
                     was_paid, quote, failed>>
    BY DEF Crash, localVars
<1>3. TypeOK'
    <2>1. LocalsTyped'
        BY <1>1, <1>2 DEF LocalsTyped, TypeOK
    <2>. QED
        BY <1>1, <1>2, <2>1, LocalTypes
<1>4. LocalStep(r)
    BY <1>1, <1>2, QuoteCovered, NullIsNoRequest
    DEF LocalStep, OthersStay, Unclaimed, TypeOK, paymentVars, WorkerInv
<1>. QED
    BY <1>3, <1>4, LocalStepKeeps

-----------------------------------------------------------------------------
(* Steps that write payment_status. *)

(* Such a step moves no money: what was read in the ledger is read again.  *)
(* No request begins or ends a cancellation by it.                         *)
LEMMA ColumnStep ==
    ASSUME MoneyInv, NEW r \in Requests, pc[r] # "idle",
           UNCHANGED <<walletVars, bookingVars, target, from_status, to_status, quote, failed>>,
           NEW l \in {"pay_debit", "done"}, pc' = [pc EXCEPT ![r] = l]
    PROVE  /\ WalletTypeOK'
           /\ FaultsStep
           /\ \A b \in Bookings :
                /\ PaidRows(b)' = PaidRows(b)
                /\ Payments(b)' = Payments(b)
                /\ RefundsOf(b)' = RefundsOf(b)
                /\ PaidRows(b) \in Nat /\ Failures(b) \in Nat
                /\ Failures(b)' = Failures(b)
                /\ For(b)' = For(b)
           /\ CancelInv'
           /\ RefundInv'
           /\ SelfConfirmedIsPaid'
<1>1. /\ TypeOK /\ WorkerInv /\ CancelInv /\ RefundInv /\ SelfConfirmedIsPaid
    BY DEF MoneyInv
<1>2. WalletTypeOK' /\ FaultsStep
    BY <1>1, LedgerFrame DEF FaultsStep, TypeOK
<1>3. \A b \in Bookings :
        /\ PaidRows(b)' = PaidRows(b)
        /\ Payments(b)' = Payments(b)
        /\ RefundsOf(b)' = RefundsOf(b)
        /\ Cardinality(RefundsOf(b))' = Cardinality(RefundsOf(b))
        /\ CapturedAmount(b)' = CapturedAmount(b)
        /\ PreviouslyRefunded(b)' = PreviouslyRefunded(b)
        /\ PaidRows(b) \in Nat
    BY <1>1, LedgerFrame, ReadingsTyped
<1>4. \A b \in Bookings : Failures(b) \in Nat /\ Failures(b)' = Failures(b) /\ For(b)' = For(b)
    BY <1>1, <1>2, FailuresGrow DEF Failures, For
<1>5. CancelInv'
    <2>1. /\ booking_status' = booking_status
          /\ \A q \in Requests : /\ target'[q] = target[q] /\ quote'[q] = quote[q]
                                 /\ pc'[q] \in Cancelling => pc'[q] = pc[q]
                                 /\ pc'[q] # "idle" => pc[q] # "idle"
        BY <1>1 DEF bookingVars, Cancelling, TypeOK
    <2>2. \A q \in Requests : pc[q] # "idle" =>
            /\ target[q] \in Bookings
            /\ RefundsOf(target[q])' = RefundsOf(target[q])
            /\ CapturedAmount(target[q])' = CapturedAmount(target[q])
        BY <1>1, <1>3, <2>1 DEF WorkerInv
    <2>3. ASSUME NEW q \in Requests
          PROVE  /\ pc'[q] \in Cancelling => booking_status'[target'[q]] = "cancelled"
                 /\ pc'[q] = "cancel_mark" => RefundsOf(target[q])' # {}
                 /\ pc'[q] \in {"cancel_stamp", "cancel_credit"} => RefundsOf(target[q])' = {}
                 /\ pc'[q] # "idle" => quote'[q] <= CapturedAmount(target[q])'
        <3>1. /\ pc[q] \in Cancelling => booking_status[target[q]] = "cancelled"
              /\ pc[q] = "cancel_mark" => RefundsOf(target[q]) # {}
              /\ pc[q] \in {"cancel_stamp", "cancel_credit"} => RefundsOf(target[q]) = {}
              /\ pc[q] # "idle" => quote[q] <= CapturedAmount(target[q])
            BY <1>1 DEF CancelInv
        <3>. QED
            BY <2>1, <2>2, <3>1 DEF Cancelling
    <2>4. \A p, q \in Requests :
            pc'[p] \in Cancelling /\ pc'[q] \in Cancelling /\ target'[p] = target'[q] => p = q
        BY <1>1, <2>1 DEF CancelInv
    <2>. QED
        BY <2>3, <2>4 DEF CancelInv
<1>6. RefundInv'
    BY <1>1, <1>3 DEF RefundInv, bookingVars
<1>7. SelfConfirmedIsPaid'
    BY <1>1, <1>3 DEF SelfConfirmedIsPaid, bookingVars
<1>. QED
    BY <1>2, <1>3, <1>4, <1>5, <1>6, <1>7

(* The claim of payForBooking, won or lost. *)
LEMMA PayClaimKeeps ==
    ASSUME MoneyInv, NEW r \in Requests, PayClaim(r)
    PROVE  MoneyInv'
<1> DEFINE b == target[r]
<1>1. TypeOK /\ WorkerInv /\ HolderInv /\ CountInv /\ PaymentStatusTellsTheTruth
    BY DEF MoneyInv
<1>2. /\ pc[r] = "pay_claim" /\ r \notin failed /\ b \in Bookings
      /\ UNCHANGED <<walletVars, bookingVars, refund_amount, target, from_status, to_status,
                     was_paid, quote, crashed, failed>>
    BY <1>1 DEF PayClaim, At, WorkerInv, localVars, faultVars
<1>3. CASE /\ pc' = [pc EXCEPT ![r] = "done"]
           /\ UNCHANGED <<payment_status, payment_reference>>
    <2>1. LocalsTyped'
        BY <1>1, <1>2, <1>3 DEF LocalsTyped, TypeOK, Locations
    <2>2. TypeOK'
        BY <1>1, <1>2, <1>3, <2>1, LocalTypes DEF paymentVars
    <2>3. LocalStep(r)
        BY <1>1, <1>2, <1>3, QuoteCovered, NullIsNoRequest
        DEF LocalStep, OthersStay, Unclaimed, TypeOK
    <2>. QED
        BY <2>2, <2>3, LocalStepKeeps
<1>4. CASE /\ payment_status[b] = "unpaid"
           /\ payment_status' = [payment_status EXCEPT ![b] = "escrow_held"]
           /\ payment_reference' = [payment_reference EXCEPT ![b] = r]
           /\ pc' = [pc EXCEPT ![r] = "pay_debit"]
    <2>1. /\ WalletTypeOK' /\ CancelInv' /\ RefundInv' /\ SelfConfirmedIsPaid'
          /\ \A c \in Bookings :
               /\ PaidRows(c)' = PaidRows(c)
               /\ Payments(c)' = Payments(c)
               /\ RefundsOf(c)' = RefundsOf(c)
               /\ Failures(c)' = Failures(c)
               /\ For(c)' = For(c)
        BY <1>2, <1>4, ColumnStep
    <2>2. TypeOK'
        BY <1>1, <1>2, <1>4, <2>1 DEF TypeOK, Locations, bookingVars
    <2> HIDE DEF b
    <2>3. /\ \A q \in Requests : pc'[q] = IF q = r THEN "pay_debit" ELSE pc[q]
          /\ \A c \in Bookings : /\ payment_status'[c] = IF c = b THEN "escrow_held" ELSE payment_status[c]
                                 /\ payment_reference'[c] = IF c = b THEN r ELSE payment_reference[c]
          /\ target' = target /\ target[r] = b
        BY <1>1, <1>2, <1>4 DEF TypeOK, b
    <2>4. WorkerInv'
        BY <1>1, <1>2, <1>4, <2>3 DEF WorkerInv
    <2>5. HolderInv'
        <3> SUFFICES ASSUME NEW c \in Bookings, payment_reference'[c] # NULL
                     PROVE  LET q == payment_reference'[c] IN
                            /\ target'[q] = c
                            /\ pc'[q] \notin {"idle", "pay_claim", "cancel_quote", "cancel_read"}
                            /\ pc'[q] \in {"pay_confirm", "transition"} => Payments(c)' # {}
            BY DEF HolderInv
        <3>1. CASE c = b
            BY <1>2, <2>3, <3>1
        <3>2. CASE c # b
            BY <1>1, <1>2, <2>1, <2>3, <3>2 DEF HolderInv, TypeOK
        <3>. QED
            BY <3>1, <3>2
    <2>6. CountInv'
        <3> SUFFICES ASSUME NEW c \in Bookings
                     PROVE  /\ PaidRows(c)' <= Failures(c)' + 1
                            /\ ~Kept(c)' => PaidRows(c)' <= Failures(c)'
            BY DEF CountInv
        <3>1. CASE c = b
            <4>1. ~Kept(c)
                BY <1>4, <3>1 DEF Kept
            <4>. QED
                BY <1>1, <2>1, <4>1 DEF CountInv
        <3>2. CASE c # b
            <4>1. Kept(c) => Kept(c)'
                BY <2>1, <2>3, <3>2 DEF Kept, Paying, For
            <4>. QED
                BY <1>1, <2>1, <4>1 DEF CountInv
        <3>. QED
            BY <3>1, <3>2
    <2>7. PaymentStatusTellsTheTruth'
        <3> SUFFICES ASSUME NEW c \in Bookings
                     PROVE  /\ Payments(c)' # {} =>
                                  payment_status'[c] # "unpaid" \/ For(c)' \intersect failed' # {}
                            /\ payment_status'[c] = "escrow_held" =>
                                  \/ Payments(c)' # {}
                                  \/ \E q \in For(c)' : pc'[q] \in {"pay_debit", "pay_rollback"} \/ q \in failed'
                            /\ payment_status'[c] = "refunded" =>
                                  RefundsOf(c)' # {} /\ booking_status'[c] = "cancelled"
            BY DEF PaymentStatusTellsTheTruth
        <3>1. CASE c = b
            <4>1. r \in For(c)' /\ pc'[r] = "pay_debit"
                BY <2>3, <3>1 DEF For
            <4>. QED
                BY <2>3, <3>1, <4>1
        <3>2. CASE c # b
            <4>1. \A q \in For(c) : pc[q] \in {"pay_debit", "pay_rollback"} => pc'[q] = pc[q]
                BY <1>2, <2>3 DEF For
            <4>. QED
                BY <1>1, <1>2, <2>1, <2>3, <3>2, <4>1 DEF PaymentStatusTellsTheTruth,
                   bookingVars
        <3>. QED
            BY <3>1, <3>2
    <2>. QED
        BY <2>1, <2>2, <2>4, <2>5, <2>6, <2>7 DEF MoneyInv
<1>. QED
    BY <1>3, <1>4 DEF PayClaim, CanClaim, Goto

(* The rollback of a payment undoes the claim it wrote, which is its own   *)
(* unless the booking was refunded meanwhile.                              *)
LEMMA PayRollbackKeeps ==
    ASSUME MoneyInv, NEW r \in Requests, PayRollback(r)
    PROVE  MoneyInv'
<1> DEFINE b == target[r]
           undo == payment_status[b] = "escrow_held"
<1>1. TypeOK /\ WorkerInv /\ HolderInv /\ CountInv /\ PaymentStatusTellsTheTruth
    BY DEF MoneyInv
<1>2. /\ pc[r] = "pay_rollback" /\ b \in Bookings
      /\ payment_reference[b] = r /\ payment_status[b] # "unpaid"
      /\ UNCHANGED <<walletVars, bookingVars, refund_amount, target, from_status, to_status,
                     was_paid, quote, crashed, failed>>
    BY <1>1 DEF PayRollback, At, WorkerInv, localVars, faultVars
<1>3. /\ pc' = [pc EXCEPT ![r] = "done"]
      /\ payment_status' = [payment_status EXCEPT ![b] = IF undo THEN "unpaid" ELSE @]
      /\ payment_reference' = [payment_reference EXCEPT ![b] = IF undo THEN NULL ELSE @]
    BY <1>2 DEF PayRollback, Goto
<1>4. /\ WalletTypeOK' /\ CancelInv' /\ RefundInv' /\ SelfConfirmedIsPaid'
      /\ \A c \in Bookings :
           /\ PaidRows(c)' = PaidRows(c)
           /\ Payments(c)' = Payments(c)
           /\ RefundsOf(c)' = RefundsOf(c)
           /\ Failures(c)' = Failures(c)
           /\ For(c)' = For(c)
           /\ PaidRows(c) \in Nat /\ Failures(c) \in Nat
    BY <1>2, <1>3, ColumnStep
<1>5. TypeOK'
    BY <1>1, <1>2, <1>3, <1>4 DEF TypeOK, Locations, bookingVars
<1> HIDE DEF b, undo
<1>6. /\ \A q \in Requests : pc'[q] = IF q = r THEN "done" ELSE pc[q]
      /\ \A c \in Bookings :
           /\ payment_status'[c] = IF c = b /\ undo THEN "unpaid" ELSE payment_status[c]
           /\ payment_reference'[c] = IF c = b /\ undo THEN NULL ELSE payment_reference[c]
      /\ target' = target /\ target[r] = b
      /\ undo <=> payment_status[b] = "escrow_held"
    BY <1>1, <1>2, <1>3 DEF TypeOK, b, undo
(* It was the only payment at work on the booking. *)
<1>7. \A q \in Requests : q # r /\ pc[q] \in {"pay_debit", "pay_rollback"} => target[q] # b
    BY <1>1, <1>2 DEF WorkerInv
<1>8. WorkerInv'
    BY <1>1, <1>2, <1>6, <1>7 DEF WorkerInv
<1>9. HolderInv'
    <2> SUFFICES ASSUME NEW c \in Bookings, payment_reference'[c] # NULL
                 PROVE  LET q == payment_reference'[c] IN
                        /\ target'[q] = c
                        /\ pc'[q] \notin {"idle", "pay_claim", "cancel_quote", "cancel_read"}
                        /\ pc'[q] \in {"pay_confirm", "transition"} => Payments(c)' # {}
        BY DEF HolderInv
    <2>1. payment_reference'[c] = payment_reference[c] /\ payment_reference[c] \in Requests
        BY <1>1, <1>6 DEF TypeOK
    <2>. QED
        BY <1>1, <1>4, <1>6, <2>1 DEF HolderInv
<1>10. CountInv'
    <2> SUFFICES ASSUME NEW c \in Bookings
                 PROVE  /\ PaidRows(c)' <= Failures(c)' + 1
                        /\ ~Kept(c)' => PaidRows(c)' <= Failures(c)'
        BY DEF CountInv
    <2>1. CASE c = b
        <3>1. ~Kept(c)
            BY <1>2, <1>6, <2>1 DEF Kept, Paying, For
        <3>. QED
            BY <1>1, <1>4, <3>1 DEF CountInv
    <2>2. CASE c # b
        <3>1. Kept(c) => Kept(c)'
            BY <1>4, <1>6, <2>2 DEF Kept, Paying, For
        <3>. QED
            BY <1>1, <1>4, <3>1 DEF CountInv
    <2>. QED
        BY <2>1, <2>2
<1>11. PaymentStatusTellsTheTruth'
    <2> SUFFICES ASSUME NEW c \in Bookings
                 PROVE  /\ Payments(c)' # {} =>
                              payment_status'[c] # "unpaid" \/ For(c)' \intersect failed' # {}
                        /\ payment_status'[c] = "escrow_held" =>
                              \/ Payments(c)' # {}
                              \/ \E q \in For(c)' : pc'[q] \in {"pay_debit", "pay_rollback"} \/ q \in failed'
                        /\ payment_status'[c] = "refunded" =>
                              RefundsOf(c)' # {} /\ booking_status'[c] = "cancelled"
        BY DEF PaymentStatusTellsTheTruth
    <2>1. CASE c = b
        <3>1. ~Kept(c)
            BY <1>2, <1>6, <2>1 DEF Kept, Paying, For
        <3>2. PaidRows(c) <= Failures(c)
            BY <1>1, <3>1 DEF CountInv
        <3>3. Payments(c) # {} => For(c) \intersect failed # {}
            <4>1. Payments(c) # {} => PaidRows(c) > 0
                BY <1>1, ReadingsTyped
            <4>2. For(c) \intersect failed = {} => Failures(c) = 0
                BY FS_EmptySet DEF Failures
            <4>. QED
                BY <1>4, <3>2, <4>1, <4>2
        <3>4. payment_status'[c] # "escrow_held"
            BY <1>6, <2>1
        <3>. QED
            BY <1>1, <1>2, <1>4, <1>6, <3>3, <3>4 DEF PaymentStatusTellsTheTruth,
               bookingVars
    <2>2. CASE c # b
        <3>1. \A q \in For(c) : pc'[q] = pc[q]
            BY <1>6, <2>2 DEF For
        <3>. QED
            BY <1>1, <1>2, <1>4, <1>6, <2>2, <3>1 DEF PaymentStatusTellsTheTruth,
               bookingVars
    <2>. QED
        BY <2>1, <2>2
<1>. QED
    BY <1>4, <1>5, <1>8, <1>9, <1>10, <1>11 DEF MoneyInv

(* The last statement of a cancellation shows the refund it has credited.  *)
LEMMA CancelMarkKeeps ==
    ASSUME MoneyInv, NEW r \in Requests, CancelMark(r)
    PROVE  MoneyInv'
<1> DEFINE b == target[r]
<1>1. TypeOK /\ WorkerInv /\ HolderInv /\ CountInv /\ CancelInv /\ PaymentStatusTellsTheTruth
    BY DEF MoneyInv
<1>2. /\ pc[r] = "cancel_mark" /\ b \in Bookings
      /\ UNCHANGED <<walletVars, bookingVars, payment_reference, refund_amount, target,
                     from_status, to_status, was_paid, quote, crashed, failed>>
      /\ pc' = [pc EXCEPT ![r] = "done"]
      /\ payment_status' = [payment_status EXCEPT ![b] = "refunded"]
    BY <1>1 DEF CancelMark, At, Goto, WorkerInv, localVars, faultVars
<1>3. /\ WalletTypeOK' /\ CancelInv' /\ RefundInv' /\ SelfConfirmedIsPaid'
      /\ \A c \in Bookings :
           /\ PaidRows(c)' = PaidRows(c)
           /\ Payments(c)' = Payments(c)
           /\ RefundsOf(c)' = RefundsOf(c)
           /\ Failures(c)' = Failures(c)
           /\ For(c)' = For(c)
    BY <1>2, ColumnStep
<1>4. TypeOK'
    BY <1>1, <1>2, <1>3 DEF TypeOK, Locations, bookingVars
<1>5. RefundsOf(b) # {} /\ booking_status[b] = "cancelled"
    BY <1>1, <1>2 DEF CancelInv, Cancelling
<1> HIDE DEF b
<1>6. /\ \A q \in Requests : pc'[q] = IF q = r THEN "done" ELSE pc[q]
      /\ \A c \in Bookings : payment_status'[c] = IF c = b THEN "refunded" ELSE payment_status[c]
      /\ target' = target
    BY <1>1, <1>2 DEF TypeOK
<1>7. WorkerInv'
    BY <1>1, <1>2, <1>6 DEF WorkerInv
<1>8. HolderInv'
    <2> SUFFICES ASSUME NEW c \in Bookings, payment_reference[c] # NULL
                 PROVE  LET q == payment_reference[c] IN
                        /\ target[q] = c
                        /\ pc'[q] \notin {"idle", "pay_claim", "cancel_quote", "cancel_read"}
                        /\ pc'[q] \in {"pay_confirm", "transition"} => Payments(c) # {}
        BY <1>2, <1>3 DEF HolderInv
    <2>1. payment_reference[c] \in Requests
        BY <1>1 DEF TypeOK
    <2>. QED
        BY <1>1, <1>6, <2>1 DEF HolderInv
<1>9. CountInv'
    <2> SUFFICES ASSUME NEW c \in Bookings
                 PROVE  /\ PaidRows(c)' <= Failures(c)' + 1
                        /\ ~Kept(c)' => PaidRows(c)' <= Failures(c)'
        BY DEF CountInv
    <2>1. Kept(c) => Kept(c)'
        BY <1>2, <1>3, <1>6 DEF Kept, Paying, For
    <2>. QED
        BY <1>1, <1>3, <2>1 DEF CountInv
<1>10. PaymentStatusTellsTheTruth'
    <2> SUFFICES ASSUME NEW c \in Bookings
                 PROVE  /\ Payments(c)' # {} =>
                              payment_status'[c] # "unpaid" \/ For(c)' \intersect failed' # {}
                        /\ payment_status'[c] = "escrow_held" =>
                              \/ Payments(c)' # {}
                              \/ \E q \in For(c)' : pc'[q] \in {"pay_debit", "pay_rollback"} \/ q \in failed'
                        /\ payment_status'[c] = "refunded" =>
                              RefundsOf(c)' # {} /\ booking_status'[c] = "cancelled"
        BY DEF PaymentStatusTellsTheTruth
    <2>1. CASE c = b
        BY <1>2, <1>3, <1>5, <1>6, <2>1 DEF bookingVars
    <2>2. CASE c # b
        <3>1. \A q \in For(c) : pc[q] \in {"pay_debit", "pay_rollback"} => pc'[q] = pc[q]
            BY <1>2, <1>6 DEF For
        <3>. QED
            BY <1>1, <1>2, <1>3, <1>6, <2>2, <3>1 DEF PaymentStatusTellsTheTruth,
               bookingVars
    <2>. QED
        BY <2>1, <2>2
<1>. QED
    BY <1>3, <1>4, <1>7, <1>8, <1>9, <1>10 DEF MoneyInv

-----------------------------------------------------------------------------
(* Steps that move money or the booking. *)

(* The debit of a payment, whose balance read may fail.                    *)
LEMMA PayDebitKeeps ==
    ASSUME MoneyInv, NEW r \in Requests, PayDebit(r)
    PROVE  MoneyInv'
<1> DEFINE b == target[r]
<1>1. /\ TypeOK /\ WorkerInv /\ HolderInv /\ CountInv /\ CancelInv /\ RefundInv
      /\ PaymentStatusTellsTheTruth /\ SelfConfirmedIsPaid
    BY DEF MoneyInv
<1>2. /\ pc[r] = "pay_debit" /\ b \in Bookings /\ r \notin failed
      /\ payment_reference[b] = r /\ payment_status[b] # "unpaid"
      /\ DebitWallet(customer[b], Deposit(b), "booking_payment", b)
      /\ from_status' = [from_status EXCEPT ![r] = "none"]
      /\ UNCHANGED <<bookingVars, paymentVars, target, to_status, was_paid, quote, crashed>>
    BY <1>1 DEF PayDebit, At, WorkerInv, faultVars
<1>3. \/ /\ pc' \in {[pc EXCEPT ![r] = "pay_confirm"], [pc EXCEPT ![r] = "done"]}
         /\ failed' = failed
      \/ /\ pc' = [pc EXCEPT ![r] = "pay_rollback"]
         /\ failed' = failed \union {r}
    BY DEF PayDebit, AfterPayment, Goto, faultVars
<1>4. /\ WalletTypeOK'
      /\ \A c \in Bookings :
           /\ PaidRows(c)' = PaidRows(c) + (IF c = b THEN 1 ELSE 0)
           /\ c = b => Payments(c)' # {}
           /\ c # b => Payments(c)' = Payments(c)
           /\ RefundsOf(c)' = RefundsOf(c)
           /\ CapturedAmount(c)' \in Nat /\ CapturedAmount(c)' >= CapturedAmount(c)
           /\ PreviouslyRefunded(c)' = PreviouslyRefunded(c)
    BY <1>1, <1>2, PaymentRow
<1>5. \A c \in Bookings :
        /\ PaidRows(c) \in Nat /\ CapturedAmount(c) \in Nat /\ PreviouslyRefunded(c) \in Nat
        /\ Payments(c) # {} => Payments(c)' # {}
        /\ Cardinality(RefundsOf(c))' = Cardinality(RefundsOf(c))
    BY <1>1, <1>4, ReadingsTyped
<1>6. TypeOK'
    BY <1>1, <1>2, <1>3, <1>4 DEF TypeOK, Locations, bookingVars, paymentVars
<1>7. \A c \in Bookings : CapturedAmount(c)' \in Nat
    BY <1>4
<1> HIDE DEF b
<1>8. /\ \A q \in Requests \ {r} : pc'[q] = pc[q] /\ from_status'[q] = from_status[q]
      /\ pc'[r] \in {"pay_confirm", "done", "pay_rollback"}
      /\ r \in failed' <=> pc'[r] = "pay_rollback"
      /\ target' = target /\ target[r] = b
      /\ booking_status' = booking_status /\ confirmed_by' = confirmed_by
      /\ payment_status' = payment_status /\ payment_reference' = payment_reference
      /\ to_status' = to_status /\ quote' = quote
    BY <1>1, <1>2, <1>3 DEF TypeOK, bookingVars, paymentVars, b
(* It was the only payment at work on the booking. *)
<1>9. \A q \in Requests : q # r /\ pc[q] \in {"pay_debit", "pay_rollback"} => target[q] # b
    BY <1>1, <1>2 DEF WorkerInv
<1>10. FaultsStep
    BY <1>1, <1>3, <1>8 DEF FaultsStep, TypeOK
<1>11. WorkerInv'
    BY <1>1, <1>2, <1>3, <1>8 DEF WorkerInv
<1>12. HolderInv'
    <2> SUFFICES ASSUME NEW c \in Bookings, payment_reference[c] # NULL
                 PROVE  LET q == payment_reference[c] IN
                        /\ target[q] = c
                        /\ pc'[q] \notin {"idle", "pay_claim", "cancel_quote", "cancel_read"}
                        /\ pc'[q] \in {"pay_confirm", "transition"} => Payments(c)' # {}
        BY <1>8 DEF HolderInv
    <2>1. payment_reference[c] \in Requests
        BY <1>1 DEF TypeOK
    <2>2. payment_reference[c] = r => c = b
        BY <1>1, <1>8 DEF HolderInv
    <2>. QED
        BY <1>1, <1>4, <1>5, <1>8, <2>1, <2>2 DEF HolderInv
<1>13. CountInv'
    <2> SUFFICES ASSUME NEW c \in Bookings
                 PROVE  /\ PaidRows(c)' <= Failures(c)' + 1
                        /\ ~Kept(c)' => PaidRows(c)' <= Failures(c)'
        BY DEF CountInv
    <2>1. Failures(c) \in Nat /\ Failures(c)' \in Nat /\ Failures(c) <= Failures(c)'
        BY <1>1, <1>10, FailuresGrow
    <2>2. CASE c = b
        <3>1. ~Kept(c)
            BY <1>2, <1>8, <2>2 DEF Kept, Paying, For
        <3>2. PaidRows(c) <= Failures(c) /\ PaidRows(c)' = PaidRows(c) + 1
            BY <1>1, <1>4, <2>2, <3>1 DEF CountInv
        <3>3. CASE pc'[r] = "pay_rollback"
            <4>1. Failures(c)' = Failures(c) + 1
                BY <1>1, <1>2, <1>3, <1>8, <2>2, <3>3, FailureAdded
            <4>. QED
                BY <1>5, <2>1, <3>2, <4>1
        <3>4. CASE pc'[r] # "pay_rollback"
            <4>1. Kept(c)'
                BY <1>2, <1>8, <1>9, <2>2, <3>4 DEF Kept, Paying, For
            <4>. QED
                BY <1>5, <2>1, <3>2, <4>1
        <3>. QED
            BY <3>3, <3>4
    <2>3. CASE c # b
        <3>1. Kept(c) => Kept(c)'
            BY <1>8, <2>3 DEF Kept, Paying, For
        <3>. QED
            BY <1>1, <1>4, <1>5, <2>1, <2>3, <3>1 DEF CountInv
    <2>. QED
        BY <2>2, <2>3
<1>14. CancelInv'
    <2>1. \A q \in Requests : /\ pc'[q] \in Cancelling => pc'[q] = pc[q]
                              /\ pc'[q] # "idle" => pc[q] # "idle"
        BY <1>2, <1>8 DEF Cancelling
    <2>2. \A q \in Requests : pc[q] # "idle" =>
            /\ target[q] \in Bookings
            /\ RefundsOf(target[q])' = RefundsOf(target[q])
            /\ quote[q] <= CapturedAmount(target[q])'
        <3> SUFFICES ASSUME NEW q \in Requests, pc[q] # "idle"
                     PROVE  /\ target[q] \in Bookings
                            /\ RefundsOf(target[q])' = RefundsOf(target[q])
                            /\ quote[q] <= CapturedAmount(target[q])'
            OBVIOUS
        <3>1. target[q] \in Bookings /\ target'[q] = target[q] /\ quote[q] \in Nat
            BY <1>1, <1>8 DEF WorkerInv, TypeOK
        <3>2. quote[q] <= CapturedAmount(target[q])
            BY <1>1 DEF CancelInv
        <3>3. /\ RefundsOf(target[q])' = RefundsOf(target[q])
              /\ CapturedAmount(target[q])' >= CapturedAmount(target[q])
              /\ CapturedAmount(target[q])' \in Nat
              /\ CapturedAmount(target[q]) \in Nat
            BY <1>4, <1>5, <1>7, <3>1
        <3>. QED
            BY <3>1, <3>2, <3>3
    <2>3. ASSUME NEW q \in Requests
          PROVE  /\ pc'[q] \in Cancelling => booking_status'[target'[q]] = "cancelled"
                 /\ pc'[q] = "cancel_mark" => RefundsOf(target[q])' # {}
                 /\ pc'[q] \in {"cancel_stamp", "cancel_credit"} => RefundsOf(target[q])' = {}
                 /\ pc'[q] # "idle" => quote'[q] <= CapturedAmount(target[q])'
        <3>1. /\ pc[q] \in Cancelling => booking_status[target[q]] = "cancelled"
              /\ pc[q] = "cancel_mark" => RefundsOf(target[q]) # {}
              /\ pc[q] \in {"cancel_stamp", "cancel_credit"} => RefundsOf(target[q]) = {}
            BY <1>1 DEF CancelInv
        <3>. QED
            BY <1>8, <2>1, <2>2, <3>1 DEF Cancelling
    <2>4. \A p, q \in Requests :
            pc'[p] \in Cancelling /\ pc'[q] \in Cancelling /\ target'[p] = target'[q] => p = q
        BY <1>1, <1>8, <2>1 DEF CancelInv
    <2>. QED
        BY <2>3, <2>4 DEF CancelInv
<1>15. RefundInv'
    BY <1>1, <1>4, <1>5, <1>7, <1>8 DEF RefundInv
<1>16. PaymentStatusTellsTheTruth'
    <2> SUFFICES ASSUME NEW c \in Bookings
                 PROVE  /\ Payments(c)' # {} =>
                              payment_status'[c] # "unpaid" \/ For(c)' \intersect failed' # {}
                        /\ payment_status'[c] = "escrow_held" =>
                              \/ Payments(c)' # {}
                              \/ \E q \in For(c)' : pc'[q] \in {"pay_debit", "pay_rollback"} \/ q \in failed'
                        /\ payment_status'[c] = "refunded" =>
                              RefundsOf(c)' # {} /\ booking_status'[c] = "cancelled"
        BY DEF PaymentStatusTellsTheTruth
    <2>1. For(c)' = For(c) /\ failed \subseteq failed'
        BY <1>3, <1>8 DEF For
    <2>2. CASE c = b
        BY <1>1, <1>2, <1>4, <1>8, <2>2 DEF PaymentStatusTellsTheTruth, b
    <2>3. CASE c # b
        <3>1. \A q \in For(c) : pc'[q] = pc[q]
            BY <1>8, <2>3 DEF For
        <3>. QED
            BY <1>1, <1>4, <1>8, <2>1, <2>3, <3>1 DEF PaymentStatusTellsTheTruth
    <2>. QED
        BY <2>2, <2>3
<1>17. SelfConfirmedIsPaid'
    BY <1>1, <1>5, <1>8 DEF SelfConfirmedIsPaid
<1>. QED
    BY <1>6, <1>11, <1>12, <1>13, <1>14, <1>15, <1>16, <1>17 DEF MoneyInv

(* The refund of a cancellation, after which its request may fail.         *)
LEMMA CancelCreditKeeps ==
    ASSUME MoneyInv, NEW r \in Requests, CancelCredit(r)
    PROVE  MoneyInv'
<1> DEFINE b == target[r]
<1>1. /\ TypeOK /\ WorkerInv /\ HolderInv /\ CountInv /\ CancelInv /\ RefundInv
      /\ PaymentStatusTellsTheTruth /\ SelfConfirmedIsPaid
    BY DEF MoneyInv
<1>2. /\ pc[r] = "cancel_credit" /\ b \in Bookings /\ r \notin failed
      /\ CreditWallet(customer[b], quote[r], "booking_refund", b)
      /\ quote' = [quote EXCEPT ![r] = 0]
      /\ was_paid' = [was_paid EXCEPT ![r] = FALSE]
      /\ UNCHANGED <<bookingVars, paymentVars, target, from_status, to_status, crashed>>
    BY <1>1 DEF CancelCredit, At, WorkerInv, faultVars
<1>3. \/ /\ pc' = [pc EXCEPT ![r] = "cancel_mark"]
         /\ failed' = failed
      \/ /\ pc' = [pc EXCEPT ![r] = "done"]
         /\ failed' = failed \union {r}
    BY DEF CancelCredit, Goto, faultVars
<1>4. quote[r] \in Nat /\ quote[r] <= CapturedAmount(b)
    BY <1>2, QuoteCovered
<1>5. /\ WalletTypeOK'
      /\ \A c \in Bookings :
           /\ Payments(c)' = Payments(c)
           /\ CapturedAmount(c)' = CapturedAmount(c)
           /\ c = b => /\ RefundsOf(c)' # {}
                       /\ Cardinality(RefundsOf(c))' = Cardinality(RefundsOf(c)) + 1
                       /\ PreviouslyRefunded(c)' = PreviouslyRefunded(c) + quote[r]
           /\ c # b => /\ RefundsOf(c)' = RefundsOf(c)
                       /\ PreviouslyRefunded(c)' = PreviouslyRefunded(c)
    BY <1>1, <1>2, <1>4, RefundRow
<1>6. \A c \in Bookings :
        /\ PaidRows(c)' = PaidRows(c)
        /\ PaidRows(c) \in Nat /\ CapturedAmount(c) \in Nat
        /\ c # b => Cardinality(RefundsOf(c))' = Cardinality(RefundsOf(c))
    BY <1>1, <1>5, ReadingsTyped DEF PaidRows
<1>7. TypeOK'
    BY <1>1, <1>2, <1>3, <1>5 DEF TypeOK, Locations, bookingVars, paymentVars
<1>8. RefundsOf(b) = {} /\ booking_status[b] = "cancelled"
    BY <1>1, <1>2 DEF CancelInv, Cancelling
<1>9. Cardinality(RefundsOf(b)) = 0 /\ PreviouslyRefunded(b) = 0
    BY <1>1, <1>2, <1>8, ReadingsTyped, FS_EmptySet
<1> HIDE DEF b
<1>10. /\ \A q \in Requests \ {r} : pc'[q] = pc[q] /\ quote'[q] = quote[q]
       /\ pc'[r] \in {"cancel_mark", "done"} /\ quote'[r] = 0
       /\ r \in failed' => pc'[r] = "done"
       /\ target' = target /\ target[r] = b
       /\ booking_status' = booking_status /\ confirmed_by' = confirmed_by
       /\ payment_status' = payment_status /\ payment_reference' = payment_reference
       /\ from_status' = from_status /\ to_status' = to_status
    BY <1>1, <1>2, <1>3 DEF TypeOK, bookingVars, paymentVars, b
<1>11. FaultsStep
    BY <1>1, <1>3, <1>10 DEF FaultsStep, TypeOK
<1>12. WorkerInv'
    BY <1>1, <1>2, <1>3, <1>10 DEF WorkerInv
<1>13. HolderInv'
    <2> SUFFICES ASSUME NEW c \in Bookings, payment_reference[c] # NULL
                 PROVE  LET q == payment_reference[c] IN
                        /\ target[q] = c
                        /\ pc'[q] \notin {"idle", "pay_claim", "cancel_quote", "cancel_read"}
                        /\ pc'[q] \in {"pay_confirm", "transition"} => Payments(c)' # {}
        BY <1>10 DEF HolderInv
    <2>1. payment_reference[c] \in Requests
        BY <1>1 DEF TypeOK
    <2>. QED
        BY <1>1, <1>5, <1>10, <2>1 DEF HolderInv
<1>14. CountInv'
    <2> SUFFICES ASSUME NEW c \in Bookings
                 PROVE  /\ PaidRows(c)' <= Failures(c)' + 1
                        /\ ~Kept(c)' => PaidRows(c)' <= Failures(c)'
        BY DEF CountInv
    <2>1. Failures(c) \in Nat /\ Failures(c)' \in Nat /\ Failures(c) <= Failures(c)'
        BY <1>1, <1>11, FailuresGrow
    <2>2. Kept(c) => Kept(c)'
        BY <1>10 DEF Kept, Paying, For
    <2>. QED
        BY <1>1, <1>6, <2>1, <2>2 DEF CountInv
<1>15. CancelInv'
    <2>1. \A q \in Requests : /\ pc'[q] \in Cancelling => pc[q] \in Cancelling
                              /\ pc'[q] # "idle" => pc[q] # "idle"
        BY <1>2, <1>10 DEF Cancelling
    <2>2. ASSUME NEW q \in Requests, q # r
          PROVE  /\ pc'[q] \in Cancelling => booking_status'[target'[q]] = "cancelled"
                 /\ pc'[q] = "cancel_mark" => RefundsOf(target[q])' # {}
                 /\ pc'[q] \in {"cancel_stamp", "cancel_credit"} => RefundsOf(target[q])' = {}
                 /\ pc'[q] # "idle" => quote'[q] <= CapturedAmount(target[q])'
        <3>1. /\ pc[q] \in Cancelling => booking_status[target[q]] = "cancelled"
              /\ pc[q] = "cancel_mark" => RefundsOf(target[q]) # {}
              /\ pc[q] \in {"cancel_stamp", "cancel_credit"} => RefundsOf(target[q]) = {}
              /\ pc[q] # "idle" => quote[q] <= CapturedAmount(target[q]) /\ target[q] \in Bookings
            BY <1>1 DEF CancelInv, WorkerInv
        <3>2. pc[q] \in Cancelling => target[q] # b
            BY <1>1, <1>2, <1>10, <2>2 DEF CancelInv, Cancelling
        <3>3. pc[q] # "idle" => CapturedAmount(target[q])' = CapturedAmount(target[q])
            BY <1>5, <1>10, <3>1
        <3>4. pc[q] \in Cancelling => RefundsOf(target[q])' = RefundsOf(target[q])
            BY <1>5, <1>10, <3>1, <3>2 DEF Cancelling
        <3>. QED
            BY <1>10, <2>2, <3>1, <3>3, <3>4 DEF Cancelling
    <2>3. /\ pc'[r] \in Cancelling => booking_status'[target'[r]] = "cancelled"
          /\ pc'[r] = "cancel_mark" => RefundsOf(target[r])' # {}
          /\ pc'[r] \in {"cancel_stamp", "cancel_credit"} => RefundsOf(target[r])' = {}
          /\ pc'[r] # "idle" => quote'[r] <= CapturedAmount(target[r])'
        <3>1. RefundsOf(target[r])' # {} /\ CapturedAmount(target[r])' \in Nat
            BY <1>2, <1>5, <1>6, <1>10 DEF b
        <3>. QED
            BY <1>8, <1>10, <3>1
    <2>4. \A p, q \in Requests :
            pc'[p] \in Cancelling /\ pc'[q] \in Cancelling /\ target'[p] = target'[q] => p = q
        BY <1>1, <1>10, <2>1 DEF CancelInv
    <2>. QED
        BY <2>2, <2>3, <2>4 DEF CancelInv
<1>16. RefundInv'
    <2> SUFFICES ASSUME NEW c \in Bookings
                 PROVE  /\ RefundsOf(c)' # {} => booking_status'[c] = "cancelled"
                        /\ RefundsOf(c)' = {} => PreviouslyRefunded(c)' = 0
                        /\ Cardinality(RefundsOf(c))' <= 1
                        /\ PreviouslyRefunded(c)' <= CapturedAmount(c)'
        BY DEF RefundInv
    <2>1. CASE c = b
        BY <1>4, <1>5, <1>6, <1>8, <1>9, <1>10, <2>1
    <2>2. CASE c # b
        BY <1>1, <1>5, <1>6, <1>10, <2>2 DEF RefundInv
    <2>. QED
        BY <2>1, <2>2
<1>17. PaymentStatusTellsTheTruth'
    <2> SUFFICES ASSUME NEW c \in Bookings
                 PROVE  /\ Payments(c)' # {} =>
                              payment_status'[c] # "unpaid" \/ For(c)' \intersect failed' # {}
                        /\ payment_status'[c] = "escrow_held" =>
                              \/ Payments(c)' # {}
                              \/ \E q \in For(c)' : pc'[q] \in {"pay_debit", "pay_rollback"} \/ q \in failed'
                        /\ payment_status'[c] = "refunded" =>
                              RefundsOf(c)' # {} /\ booking_status'[c] = "cancelled"
        BY DEF PaymentStatusTellsTheTruth
    <2>1. For(c)' = For(c) /\ failed \subseteq failed'
        BY <1>3, <1>10 DEF For
    <2>2. \A q \in For(c) : pc[q] \in {"pay_debit", "pay_rollback"} => pc'[q] = pc[q]
        BY <1>2, <1>10 DEF For
    <2>3. RefundsOf(c) # {} => RefundsOf(c)' # {}
        BY <1>5
    <2>. QED
        BY <1>1, <1>5, <1>10, <2>1, <2>2, <2>3 DEF PaymentStatusTellsTheTruth
<1>18. SelfConfirmedIsPaid'
    BY <1>1, <1>5, <1>10 DEF SelfConfirmedIsPaid
<1>. QED
    BY <1>7, <1>12, <1>13, <1>14, <1>15, <1>16, <1>17, <1>18 DEF MoneyInv

(* The CAS of a transition, won or lost. *)
LEMMA TransitionWriteKeeps ==
    ASSUME MoneyInv, NEW r \in Requests, TransitionWrite(r)
    PROVE  MoneyInv'
<1> DEFINE b == target[r]
<1>1. /\ TypeOK /\ WorkerInv /\ HolderInv /\ CountInv /\ CancelInv /\ RefundInv
      /\ PaymentStatusTellsTheTruth /\ SelfConfirmedIsPaid
    BY DEF MoneyInv
<1>2. /\ pc[r] = "transition" /\ b \in Bookings /\ r \notin failed
      /\ from_status' = [from_status EXCEPT ![r] = "none"]
      /\ to_status' = [to_status EXCEPT ![r] = "none"]
      /\ UNCHANGED <<walletVars, paymentVars, target, was_paid, quote, crashed, failed>>
    BY <1>1 DEF TransitionWrite, At, WorkerInv, faultVars
<1>3. CASE /\ pc' = [pc EXCEPT ![r] = "done"]
           /\ UNCHANGED bookingVars
    <2>1. LocalsTyped'
        BY <1>1, <1>2, <1>3 DEF LocalsTyped, TypeOK, Locations
    <2>2. TypeOK'
        BY <1>1, <1>2, <1>3, <2>1, LocalTypes
    <2>3. LocalStep(r)
        BY <1>1, <1>2, <1>3, QuoteCovered, NullIsNoRequest
        DEF LocalStep, OthersStay, Unclaimed, TypeOK, paymentVars
    <2>. QED
        BY <2>2, <2>3, LocalStepKeeps
<1>4. CASE /\ booking_status[b] = from_status[r]
           /\ booking_status' = [booking_status EXCEPT ![b] = to_status[r]]
           /\ confirmed_by' = [confirmed_by EXCEPT ![b] =
                                 IF to_status[r] = "confirmed" THEN ConfirmedBy(r) ELSE @]
           /\ pc' = [pc EXCEPT ![r] = IF to_status[r] = "cancelled" THEN "cancel_stamp" ELSE "done"]
    <2>1. /\ booking_status[b] # "cancelled"
          /\ to_status[r] \in BookingStatuses
        <3>1. PICK role \in Roles : <<from_status[r], to_status[r]>> \in Transitions[role]
            BY <1>1, <1>2 DEF WorkerInv
        <3>. QED
            BY <1>4, <3>1, CancelledIsFinal
    <2>2. /\ WalletTypeOK'
          /\ \A c \in Bookings :
               /\ PaidRows(c)' = PaidRows(c)
               /\ Payments(c)' = Payments(c)
               /\ RefundsOf(c)' = RefundsOf(c)
               /\ Cardinality(RefundsOf(c))' = Cardinality(RefundsOf(c))
               /\ CapturedAmount(c)' = CapturedAmount(c)
               /\ PreviouslyRefunded(c)' = PreviouslyRefunded(c)
               /\ PaidRows(c) \in Nat
        BY <1>1, <1>2, LedgerFrame, ReadingsTyped DEF TypeOK
    <2>3. ConfirmedBy(r) \in {"customer", "provider"}
        BY DEF ConfirmedBy
    <2>4. TypeOK'
        BY <1>1, <1>2, <1>4, <2>1, <2>2, <2>3 DEF TypeOK, Locations, paymentVars
    <2>5. RefundsOf(b) = {} /\ payment_status[b] # "refunded"
        BY <1>1, <1>2, <2>1 DEF RefundInv, PaymentStatusTellsTheTruth
    <2> HIDE DEF b
    <2>6. /\ \A q \in Requests \ {r} : /\ pc'[q] = pc[q]
                                       /\ from_status'[q] = from_status[q]
                                       /\ to_status'[q] = to_status[q]
          /\ pc'[r] = IF to_status[r] = "cancelled" THEN "cancel_stamp" ELSE "done"
          /\ \A c \in Bookings \ {b} : /\ booking_status'[c] = booking_status[c]
                                       /\ confirmed_by'[c] = confirmed_by[c]
          /\ booking_status'[b] = to_status[r]
          /\ confirmed_by'[b] = IF to_status[r] = "confirmed" THEN ConfirmedBy(r) ELSE confirmed_by[b]
          /\ target' = target /\ target[r] = b /\ quote' = quote /\ failed' = failed
          /\ payment_status' = payment_status /\ payment_reference' = payment_reference
        BY <1>1, <1>2, <1>4 DEF TypeOK, paymentVars, b
    <2>7. FaultsStep
        BY <1>1, <2>6 DEF FaultsStep, TypeOK
    <2>8. WorkerInv'
        BY <1>1, <1>2, <2>6 DEF WorkerInv
    <2>9. HolderInv'
        <3> SUFFICES ASSUME NEW c \in Bookings, payment_reference[c] # NULL
                     PROVE  LET q == payment_reference[c] IN
                            /\ target[q] = c
                            /\ pc'[q] \notin {"idle", "pay_claim", "cancel_quote", "cancel_read"}
                            /\ pc'[q] \in {"pay_confirm", "transition"} => Payments(c) # {}
            BY <2>2, <2>6 DEF HolderInv
        <3>1. payment_reference[c] \in Requests
            BY <1>1 DEF TypeOK
        <3>. QED
            BY <1>1, <2>6, <3>1 DEF HolderInv
    <2>10. CountInv'
        <3> SUFFICES ASSUME NEW c \in Bookings
                     PROVE  /\ PaidRows(c)' <= Failures(c)' + 1
                            /\ ~Kept(c)' => PaidRows(c)' <= Failures(c)'
            BY DEF CountInv
        <3>1. Failures(c) \in Nat /\ Failures(c)' \in Nat /\ Failures(c) <= Failures(c)'
            BY <1>1, <2>7, FailuresGrow
        <3>2. Kept(c) => Kept(c)'
            BY <2>6 DEF Kept, Paying, For
        <3>. QED
            BY <1>1, <2>2, <3>1, <3>2 DEF CountInv
    (* No cancellation of the booking is under way. *)
    <2>11. \A q \in Requests : pc[q] \in Cancelling => target[q] # b
        BY <1>1, <2>1 DEF CancelInv
    <2>12. CancelInv'
        <3>1. ASSUME NEW q \in Requests, q # r
              PROVE  /\ pc'[q] \in Cancelling => booking_status'[target'[q]] = "cancelled"
                     /\ pc'[q] = "cancel_mark" => RefundsOf(target[q])' # {}
                     /\ pc'[q] \in {"cancel_stamp", "cancel_credit"} => RefundsOf(target[q])' = {}
                     /\ pc'[q] # "idle" => quote'[q] <= CapturedAmount(target[q])'
            <4>1. /\ pc[q] \in Cancelling => booking_status[target[q]] = "cancelled"
                  /\ pc[q] = "cancel_mark" => RefundsOf(target[q]) # {}
                  /\ pc[q] \in {"cancel_stamp", "cancel_credit"} => RefundsOf(target[q]) = {}
                  /\ pc[q] # "idle" => quote[q] <= CapturedAmount(target[q]) /\ target[q] \in Bookings
                BY <1>1 DEF CancelInv, WorkerInv
            <4>2. pc[q] # "idle" => /\ CapturedAmount(target[q])' = CapturedAmount(target[q])
                                    /\ RefundsOf(target[q])' = RefundsOf(target[q])
                BY <2>2, <2>6, <4>1
            <4>. QED
                BY <2>6, <2>11, <3>1, <4>1, <4>2 DEF Cancelling
        <3>2. /\ pc'[r] \in Cancelling => booking_status'[target'[r]] = "cancelled"
              /\ pc'[r] = "cancel_mark" => RefundsOf(target[r])' # {}
              /\ pc'[r] \in {"cancel_stamp", "cancel_credit"} => RefundsOf(target[r])' = {}
              /\ pc'[r] # "idle" => quote'[r] <= CapturedAmount(target[r])'
            <4>1. quote[r] <= CapturedAmount(b) /\ b \in Bookings
                BY <1>2, <2>6, QuoteCovered
            <4>2. CapturedAmount(target[r])' = CapturedAmount(b) /\ RefundsOf(target[r])' = RefundsOf(b)
                BY <2>2, <2>6, <4>1
            <4>. QED
                BY <2>5, <2>6, <4>1, <4>2 DEF Cancelling
        <3>3. \A p, q \in Requests :
                pc'[p] \in Cancelling /\ pc'[q] \in Cancelling /\ target'[p] = target'[q] => p = q
            BY <1>1, <2>6, <2>11 DEF CancelInv
        <3>. QED
            BY <3>1, <3>2, <3>3 DEF CancelInv
    <2>13. RefundInv'
        BY <1>1, <2>2, <2>5, <2>6 DEF RefundInv
    <2>14. PaymentStatusTellsTheTruth'
        <3> SUFFICES ASSUME NEW c \in Bookings
                     PROVE  /\ Payments(c) # {} =>
                                  payment_status[c] # "unpaid" \/ For(c) \intersect failed # {}
                            /\ payment_status[c] = "escrow_held" =>
                                  \/ Payments(c) # {}
                                  \/ \E q \in For(c) : pc'[q] \in {"pay_debit", "pay_rollback"} \/ q \in failed
                            /\ payment_status[c] = "refunded" =>
                                  RefundsOf(c) # {} /\ booking_status'[c] = "cancelled"
            BY <2>2, <2>6 DEF PaymentStatusTellsTheTruth, For
        <3>1. \A q \in For(c) : pc[q] \in {"pay_debit", "pay_rollback"} => pc'[q] = pc[q]
            BY <1>2, <2>6 DEF For
        <3>. QED
            BY <1>1, <2>5, <2>6, <3>1 DEF PaymentStatusTellsTheTruth
    (* A confirmation in the customer's name follows its own payment. *)
    <2>15. SelfConfirmedIsPaid'
        <3>1. ASSUME to_status[r] = "confirmed", ConfirmedBy(r) = "customer"
              PROVE  Payments(b) # {}
            <4>1. payment_reference[b] = r
                BY <2>6, <3>1 DEF ConfirmedBy
            <4>. QED
                BY <1>1, <1>2, <4>1, NullIsNoRequest DEF HolderInv, b
        <3>. QED
            BY <1>1, <2>2, <2>6, <3>1 DEF SelfConfirmedIsPaid
    <2>. QED
        BY <2>4, <2>8, <2>9, <2>10, <2>12, <2>13, <2>14, <2>15 DEF MoneyInv
<1>. QED
    BY <1>3, <1>4 DEF TransitionWrite, CanTransition, Goto

-----------------------------------------------------------------------------
(* Nothing is paid, claimed or cancelled at first. *)
LEMMA MoneyInit == Init => MoneyInv
<1> SUFFICES ASSUME Init PROVE MoneyInv
    OBVIOUS
<1>1. \A u \in Users :
        /\ wallet_ledger[u] = OpeningRows(OpeningBalance[u], NULL)
        /\ OpeningRows(OpeningBalance[u], NULL) \in Seq(LedgerRow)
        /\ \A type \in ReferenceTypes \ {"opening"} : \A id :
             RowsWith(OpeningRows(OpeningBalance[u], NULL), type, id) = {}
    BY WalletAssumption, OpeningRowsLemma DEF Init, WalletInit, LedgerRow
<1>2. WalletTypeOK
    BY <1>1, WalletAssumption DEF Init, WalletInit, WalletTypeOK
<1>3. TypeOK
    <2>1. \A b \in Bookings : FirstStatus[booking_mode[b]] \in BookingStatuses
        BY BookingPaymentAssumption DEF BookingPaymentAssumption, FirstStatus,
           BookingStatuses
    <2>. QED
        BY <1>2, <2>1 DEF Init, TypeOK, Locations
<1>4. \A b \in Bookings : Payments(b) = {} /\ RefundsOf(b) = {}
    BY <1>1, BookingPaymentAssumption
    DEF BookingPaymentAssumption, Payments, RefundsOf, EntriesFor, ReferenceTypes
<1>5. \A b \in Bookings :
        /\ PaidRows(b) = 0 /\ Cardinality(RefundsOf(b)) = 0
        /\ PreviouslyRefunded(b) = 0 /\ CapturedAmount(b) \in Nat
    BY <1>3, <1>4, ReadingsTyped, FS_EmptySet
<1>6. CountInv
    <2>1. \A b \in Bookings : Failures(b) = 0
        BY FS_EmptySet DEF Init, Failures
    <2>. QED
        BY <1>5, <2>1 DEF CountInv
<1>7. HolderInv /\ WorkerInv /\ CancelInv
    BY DEF Init, HolderInv, WorkerInv, CancelInv, Cancelling
<1>8. RefundInv
    BY <1>4, <1>5 DEF RefundInv
<1>9. PaymentStatusTellsTheTruth /\ SelfConfirmedIsPaid
    BY <1>4 DEF Init, PaymentStatusTellsTheTruth, SelfConfirmedIsPaid
<1>. QED
    BY <1>3, <1>6, <1>7, <1>8, <1>9 DEF MoneyInv

(* Every step keeps the invariant. *)
LEMMA MoneyNext == MoneyInv /\ [Next]_vars => MoneyInv'
<1> SUFFICES ASSUME MoneyInv, [Next]_vars PROVE MoneyInv'
    OBVIOUS
<1>1. CASE UNCHANGED vars
    <2>1. UNCHANGED walletVars
        BY <1>1 DEF vars
    <2>2. /\ UNCHANGED <<booking_status, confirmed_by, payment_status, payment_reference, refund_amount>>
          /\ UNCHANGED <<pc, target, from_status, to_status, was_paid, quote, crashed, failed>>
          /\ UNCHANGED <<cached_balance, wallet_ledger>>
        BY <1>1 DEF vars, walletVars, bookingVars, paymentVars, localVars, faultVars
    <2>3. TypeOK'
        BY <2>1, <2>2, LedgerFrame DEF MoneyInv, TypeOK
    <2>4. CountInv'
        BY <2>2 DEF MoneyInv, CountInv, PaidRows, Payments, EntriesFor, Failures, For,
           Kept, Paying
    <2>5. HolderInv' /\ WorkerInv'
        BY <2>2 DEF MoneyInv, HolderInv, WorkerInv, Payments, EntriesFor
    <2>6. CancelInv'
        BY <2>2 DEF MoneyInv, CancelInv, RefundsOf, EntriesFor, CapturedAmount, MoneyOf
    <2>7. RefundInv'
        BY <2>2 DEF MoneyInv, RefundInv, RefundsOf, EntriesFor, CapturedAmount,
           PreviouslyRefunded, MoneyOf
    <2>8. PaymentStatusTellsTheTruth' /\ SelfConfirmedIsPaid'
        BY <2>2 DEF MoneyInv, PaymentStatusTellsTheTruth, SelfConfirmedIsPaid, Payments,
           RefundsOf, EntriesFor, For
    <2>. QED
        BY <2>3, <2>4, <2>5, <2>6, <2>7, <2>8 DEF MoneyInv
<1>2. ASSUME NEW r \in Requests, Continue(r)
      PROVE  MoneyInv'
    BY <1>2, PayClaimKeeps, PayDebitKeeps, PayDebitRefusedKeeps, PayRollbackKeeps,
       PayConfirmKeeps, TransitionWriteKeeps, CancelQuoteKeeps, CancelTransitionKeeps,
       CancelStampKeeps, CancelCreditKeeps, CancelMarkKeeps
    DEF Continue
<1>3. CASE Next
    BY <1>2, <1>3, PayReadKeeps, MoveReadKeeps, CancelReadKeeps, ThrowKeeps,
       CrashKeeps DEF Next
<1>. QED
    BY <1>1, <1>3

(* The money of a booking, its claim and its status tell one story in      *)
(* every reachable state, for any users, bookings, modes, prices, requests *)
(* and faults.                                                             *)
THEOREM MoneyInvariance == Spec => []MoneyInv
BY MoneyInit, MoneyNext, PTL DEF Spec

(* Every variable of payment and cancellation keeps its type. *)
THEOREM PaymentTypeCorrectness == Spec => []TypeOK
<1>1. MoneyInv => TypeOK
    BY DEF MoneyInv
<1>. QED
    BY <1>1, MoneyInvariance, PTL

(* payForBooking takes a deposit once, but for each request whose read-    *)
(* back of the balance failed after the debit; a refund is made once, for  *)
(* a booking that was cancelled, and out of what was captured; the payment *)
(* status tells what the ledger says; and a booking that confirmed itself  *)
(* was paid.                                                               *)
THEOREM MoneyAlwaysMovesOnceAndShows == Spec => []MoneyMovesOnceAndShows
<1>1. MoneyInv => MoneyMovesOnceAndShows
    <2> SUFFICES ASSUME MoneyInv PROVE MoneyMovesOnceAndShows
        OBVIOUS
    <2>1. ChargedAtMostOnce
        <3> SUFFICES ASSUME NEW b \in Bookings
                     PROVE  Cardinality(Payments(b)) <= 1 + Cardinality(For(b) \intersect failed)
            BY DEF ChargedAtMostOnce
        <3>1. PaidRows(b) <= Failures(b) + 1
            BY DEF MoneyInv, CountInv
        <3>2. Failures(b) \in Nat /\ PaidRows(b) \in Nat
            BY FailuresType, ReadingsTyped DEF MoneyInv
        <3>. QED
            BY <3>1, <3>2 DEF PaidRows, Failures
    <2>2. MoneyOutWithinMoneyIn
        BY DEF MoneyInv, RefundInv, MoneyOutWithinMoneyIn
    <2>. QED
        BY <2>1, <2>2 DEF MoneyInv, MoneyMovesOnceAndShows
<1>. QED
    BY <1>1, MoneyInvariance, PTL

(* transitionBooking compares and swaps: a booking's status only ever      *)
(* moves along a row of the table, whoever read it when.                   *)
THEOREM BookingsMoveAlongTheTable == Spec => OnlyLegalMoves
<1>1. ASSUME MoneyInv, Next, NEW b \in Bookings, booking_status'[b] # booking_status[b]
      PROVE  \E role \in Roles : <<booking_status[b], booking_status'[b]>> \in Transitions[role]
    <2>1. PICK r \in Requests : TransitionWrite(r)
        BY <1>1 DEF Next, Continue, PayRead, MoveRead, CancelRead, Throw, Crash,
           PayClaim, PayDebit,
           PayDebitRefused, PayRollback, PayConfirm, CancelQuote, CancelTransition,
           CancelStamp,
           CancelCredit, CancelMark, bookingVars
    <2>2. /\ booking_status[target[r]] = from_status[r]
          /\ booking_status' = [booking_status EXCEPT ![target[r]] = to_status[r]]
        BY <1>1, <2>1 DEF TransitionWrite, CanTransition, bookingVars
    <2>3. b = target[r] /\ booking_status'[b] = to_status[r]
        BY <1>1, <2>2 DEF MoneyInv, TypeOK
    <2>. QED
        BY <1>1, <2>1, <2>2, <2>3 DEF MoneyInv, WorkerInv, TransitionWrite, At
<1>2. MoneyInv /\ [Next]_vars =>
        [\A b \in Bookings : booking_status'[b] # booking_status[b] =>
           \E role \in Roles : <<booking_status[b], booking_status'[b]>> \in Transitions[role]]_vars
    BY <1>1
<1>. QED
    BY <1>2, MoneyInvariance, PTL DEF Spec, OnlyLegalMoves
-----------------------------------------------------------------------------
(* The refinement needs two facts more: a claim shows in payment_status,   *)
(* and what was captured is a deposit for each charge.                     *)
ClaimShows ==
    \A b \in Bookings : payment_reference[b] # NULL => payment_status[b] # "unpaid"

DepositsCaptured ==
    \A b \in Bookings : CapturedAmount(b) = PaidRows(b) * Deposit(b)

(* A charge adds its deposit to what was captured of its booking. *)
LEMMA ChargeCaptured ==
    ASSUME TypeOK, NEW c \in Bookings,
           DebitWallet(customer[c], Deposit(c), "booking_payment", c),
           NEW b \in Bookings
    PROVE  CapturedAmount(b)' = CapturedAmount(b) + (IF b = c THEN Deposit(c) ELSE 0)
<1> DEFINE u == customer[c]
           row == LedgerEntry("debit", Deposit(c), cached_balance[u] - Deposit(c), "booking_payment", c)
           rows == wallet_ledger[customer[b]]
           new == wallet_ledger'[customer[b]]
<1>1. /\ u \in Users /\ customer[b] \in Users
      /\ Deposit(c) \in Nat /\ Deposit(c) > 0
      /\ cached_balance[u] \in Nat /\ c \in ReferenceIds
      /\ rows \in Seq(LedgerRowOf(ReferenceIds))
    BY DepositTyped, BookingPaymentAssumption, ReadingsTyped
    DEF BookingPaymentAssumption, DebitWallet, CanDebit, TypeOK, WalletTypeOK
<1>2. /\ row \in LedgerRowOf(ReferenceIds)
      /\ row.reference_id = c /\ row.reference_type = "booking_payment"
      /\ row.entry_type = "debit" /\ row.amount = Deposit(c)
    BY <1>1 DEF LedgerEntry, LedgerRowOf, EntryTypes, ReferenceTypes
<1>3. wallet_ledger' = [wallet_ledger EXCEPT ![u] = Append(@, row)]
    BY DEF DebitWallet
<1>4. new = IF customer[b] = u THEN Append(rows, row) ELSE rows
    BY <1>1, <1>3 DEF TypeOK, WalletTypeOK
<1>5. /\ CapturedAmount(b)' = MoneyIn(new, "debit", "booking_payment", b)
      /\ CapturedAmount(b) = MoneyIn(rows, "debit", "booking_payment", b)
      /\ CapturedAmount(b) \in Nat
    BY ReadingsTyped DEF CapturedAmount, MoneyOf, MoneyIn, OfType
<1>6. b = c => customer[b] = u
    OBVIOUS
<1> HIDE DEF row, rows, new, u
<1>. QED
    BY <1>1, <1>2, <1>4, <1>5, <1>6, MoneyAfterAppend

(* Nothing is captured at first. *)
LEMMA DepositsInit == Init => DepositsCaptured
<1> SUFFICES ASSUME Init, NEW b \in Bookings
             PROVE  CapturedAmount(b) = PaidRows(b) * Deposit(b)
    BY DEF DepositsCaptured
<1> DEFINE rows == wallet_ledger[customer[b]]
<1>1. MoneyInv
    BY MoneyInit
<1>2. /\ customer[b] \in Users /\ rows \in Seq(LedgerRowOf(ReferenceIds))
      /\ rows = OpeningRows(OpeningBalance[customer[b]], NULL)
    BY <1>1, ReadingsTyped DEF MoneyInv, Init, WalletInit
<1>3. RowsWith(rows, "booking_payment", b) = {}
    BY <1>2, WalletAssumption, OpeningRowsLemma DEF ReferenceTypes
<1> HIDE DEF rows
<1>4. MoneyIn(rows, "debit", "booking_payment", b) = 0
    BY <1>2, <1>3, MoneyInTyped
<1>5. CapturedAmount(b) = 0 /\ Payments(b) = {}
    BY <1>3, <1>4, Readings DEF rows
<1>6. PaidRows(b) = 0 /\ Deposit(b) \in Nat
    BY <1>5, FS_EmptySet, DepositTyped DEF PaidRows
<1>. QED
    BY <1>5, <1>6

(* Only a payment's debit writes a row of a payment. *)
LEMMA DepositsNext ==
    ASSUME MoneyInv, DepositsCaptured, [Next]_vars
    PROVE  DepositsCaptured'
<1> SUFFICES ASSUME NEW b \in Bookings
             PROVE  CapturedAmount(b)' = PaidRows(b)' * Deposit(b)
    BY DEF DepositsCaptured, Deposit
<1>1. /\ TypeOK /\ WorkerInv /\ CapturedAmount(b) = PaidRows(b) * Deposit(b)
      /\ PaidRows(b) \in Nat /\ Deposit(b) \in Nat
    BY ReadingsTyped, DepositTyped DEF MoneyInv, DepositsCaptured
<1>2. CASE UNCHANGED walletVars
    BY <1>1, <1>2, LedgerFrame
<1>3. ASSUME NEW r \in Requests, PayDebit(r)
      PROVE  CapturedAmount(b)' = PaidRows(b)' * Deposit(b)
    <2> DEFINE c == target[r]
    <2>1. /\ c \in Bookings
          /\ DebitWallet(customer[c], Deposit(c), "booking_payment", c)
        BY <1>1, <1>3 DEF PayDebit, At, WorkerInv
    <2> HIDE DEF c
    <2>2. /\ CapturedAmount(b)' = CapturedAmount(b) + (IF b = c THEN Deposit(c) ELSE 0)
          /\ PaidRows(b)' = PaidRows(b) + (IF b = c THEN 1 ELSE 0)
        BY <1>1, <2>1, ChargeCaptured, PaymentRow
    <2>. QED
        BY <1>1, <2>2
<1>4. ASSUME NEW r \in Requests, CancelCredit(r)
      PROVE  CapturedAmount(b)' = PaidRows(b)' * Deposit(b)
    <2> DEFINE c == target[r]
    <2>1. /\ c \in Bookings /\ quote[r] \in Nat
          /\ CreditWallet(customer[c], quote[r], "booking_refund", c)
        BY <1>1, <1>4 DEF CancelCredit, At, WorkerInv, TypeOK
    <2> HIDE DEF c
    <2>2. CapturedAmount(b)' = CapturedAmount(b) /\ Payments(b)' = Payments(b)
        BY <1>1, <2>1, RefundRow
    <2>. QED
        BY <1>1, <2>2 DEF PaidRows
<1>5. CASE Next
    BY SMTT(30), <1>2, <1>3, <1>4, <1>5 DEF Next, Continue, PayRead, MoveRead, CancelRead, Throw,
       Crash, PayClaim, PayDebitRefused, PayRollback, PayConfirm, TransitionWrite,
       CancelQuote, CancelTransition, CancelStamp, CancelMark
<1>6. CASE UNCHANGED vars
    BY <1>2, <1>6 DEF vars
<1>. QED
    BY <1>5, <1>6

(* A claim and the status that shows it are written together. *)
LEMMA ClaimShowsNext ==
    ASSUME MoneyInv, ClaimShows, [Next]_vars
    PROVE  ClaimShows'
<1>1. TypeOK /\ WorkerInv
    BY DEF MoneyInv
<1>2. CASE UNCHANGED <<payment_status, payment_reference>>
    BY <1>2 DEF ClaimShows
<1>3. ASSUME NEW r \in Requests, PayClaim(r) \/ PayRollback(r) \/ CancelMark(r)
      PROVE  ClaimShows'
    <2> DEFINE b == target[r]
    <2>1. b \in Bookings
        BY <1>1, <1>3 DEF PayClaim, PayRollback, CancelMark, At, WorkerInv
    <2> SUFFICES ASSUME NEW c \in Bookings, payment_reference'[c] # NULL
                 PROVE  payment_status'[c] # "unpaid"
        BY DEF ClaimShows
    <2>2. payment_reference[c] # NULL => payment_status[c] # "unpaid"
        BY DEF ClaimShows
    <2> HIDE DEF ClaimShows
    <2>3. CASE PayClaim(r)
        BY <1>1, <2>1, <2>2, <2>3 DEF PayClaim, TypeOK
    <2>4. CASE PayRollback(r)
        BY <1>1, <2>1, <2>2, <2>4 DEF PayRollback, TypeOK
    <2>5. CASE CancelMark(r)
        BY <1>1, <2>1, <2>2, <2>5 DEF CancelMark, TypeOK
    <2>. QED
        BY <1>3, <2>3, <2>4, <2>5
<1>4. CASE Next
    BY <1>2, <1>3, <1>4 DEF Next, Continue, PayRead, MoveRead, CancelRead, Throw, Crash,
       PayDebit, PayDebitRefused, PayConfirm, TransitionWrite, CancelQuote,
       CancelTransition, CancelStamp, CancelCredit, paymentVars
<1>5. CASE UNCHANGED vars
    BY <1>2, <1>5 DEF vars, paymentVars
<1>. QED
    BY <1>4, <1>5

BookingInv == MoneyInv /\ ClaimShows /\ DepositsCaptured

LEMMA BookingInvariance == Spec => []BookingInv
<1>1. Init => BookingInv
    BY MoneyInit, DepositsInit DEF BookingInv, ClaimShows, Init
<1>2. BookingInv /\ [Next]_vars => BookingInv'
    BY MoneyNext, ClaimShowsNext, DepositsNext DEF BookingInv
<1>. QED
    BY <1>1, <1>2, PTL DEF Spec

-----------------------------------------------------------------------------
(* The refinement: seen through the statuses, the balances, the charges    *)
(* and the refunds, every step is one of AtomicBooking or none.            *)
ChargesMap == [b \in Bookings |-> PaidRows(b)]
PaidSet == {b \in Bookings : Counts(b)}
RefundedMap == [b \in Bookings |-> PreviouslyRefunded(b)]
FailuresMap == [b \in Bookings |-> Failures(b)]
abstractVars == <<booking_status, confirmed_by, cached_balance, ChargesMap, PaidSet,
                  RefundedMap, FailuresMap>>

AtPayment == {"pay_debit", "pay_rollback"}

(* Request r goes on about booking b, moves no money and no status, and    *)
(* does not undo a charge that counts.                                     *)
QuietStep(r, b) ==
    /\ UNCHANGED <<walletVars, bookingVars>>
    /\ target[r] \in {NULL, b}
    /\ target' = [target EXCEPT ![r] = b]
    /\ \A q \in Requests \ {r} : pc'[q] = pc[q]
    /\ \A c \in Bookings \ {b} : payment_status'[c] = payment_status[c]
    /\ failed' \in {failed, failed \union {r}}
    /\ failed' # failed => target[r] = b
    /\ Counts(b) => payment_status'[b] # "unpaid" /\ pc'[r] \notin AtPayment

(* What the failures of a step of r come to. *)
LEMMA FailuresSeen ==
    ASSUME TypeOK, WorkerInv, NEW r \in Requests, NEW b \in Bookings,
           target[r] \in {NULL, b}, target' = [target EXCEPT ![r] = b],
           failed' \in {failed, failed \union {r}},
           failed' # failed => target[r] = b
    PROVE  /\ failed' = failed => UNCHANGED FailuresMap
           /\ failed' # failed => FailuresMap' = [FailuresMap EXCEPT ![b] = @ + 1]
<1>1. target \in [Requests -> Bookings \union {NULL}] /\ NULL \notin Bookings
    BY NullIsNoRequest DEF TypeOK
<1>2. target[r] = NULL => r \notin failed
    BY <1>1 DEF WorkerInv
<1>3. CASE failed' = failed
    <2>1. \A c \in Bookings : For(c)' \intersect failed = For(c) \intersect failed
        BY <1>1, <1>2 DEF For
    <2>2. \A c \in Bookings : Failures(c)' = Failures(c)
        BY <1>3, <2>1 DEF Failures
    <2>. QED
        BY <1>3, <2>2 DEF FailuresMap
<1>4. CASE failed' # failed
    <2>1. target[r] = b /\ target' = target /\ r \notin failed /\ failed' = failed \union {r}
        BY <1>1, <1>4
    <2>2. Failures(b)' = Failures(b) + 1
        BY <2>1, FailureAdded
    <2>3. ASSUME NEW c \in Bookings, c # b PROVE Failures(c)' = Failures(c)
        <3>1. For(c)' \intersect failed' = For(c) \intersect failed
            BY <2>1, <2>3 DEF For
        <3>. QED
            BY <3>1 DEF Failures
    <2>. QED
        BY <1>4, <2>2, <2>3 DEF FailuresMap
<1>. QED
    BY <1>3, <1>4

(* A quiet step is not seen, but for a failure and for a charge made in    *)
(* vain that nobody is about to undo any longer.                           *)
LEMMA QuietStepSeen ==
    ASSUME BookingInv, NEW r \in Requests, NEW b \in Bookings, QuietStep(r, b)
    PROVE  Atomic!KeepCharge(b) \/ Atomic!Fail(b) \/ UNCHANGED abstractVars
<1>1. TypeOK /\ WorkerInv
    BY DEF BookingInv, MoneyInv
<1>2. /\ UNCHANGED <<booking_status, confirmed_by, cached_balance>>
      /\ \A c \in Bookings : /\ PaidRows(c)' = PaidRows(c) /\ Payments(c)' = Payments(c)
                             /\ PreviouslyRefunded(c)' = PreviouslyRefunded(c)
    BY LedgerFrame DEF QuietStep, walletVars, bookingVars
<1>3. UNCHANGED <<ChargesMap, RefundedMap>>
    BY <1>2 DEF ChargesMap, RefundedMap
<1>4. /\ failed' = failed => UNCHANGED FailuresMap
      /\ failed' # failed => FailuresMap' = [FailuresMap EXCEPT ![b] = @ + 1]
    BY <1>1, FailuresSeen DEF QuietStep
<1>5. \A c \in Bookings : \A q \in Requests \ {r} : q \in For(c)' <=> q \in For(c)
    BY <1>1 DEF QuietStep, For, TypeOK
<1>6. ASSUME NEW c \in Bookings, c # b PROVE Counts(c)' <=> Counts(c)
    <2>1. r \notin For(c) /\ r \notin For(c)'
        BY <1>1, <1>6, NullIsNoRequest DEF QuietStep, For, TypeOK
    <2>2. For(c)' = For(c) /\ \A q \in For(c) : pc'[q] = pc[q]
        BY <1>5, <2>1 DEF QuietStep, For
    <2>3. payment_status'[c] = payment_status[c]
        BY <1>6 DEF QuietStep
    <2>. QED
        BY <1>2, <2>2, <2>3 DEF Counts
<1>7. Counts(b) => Counts(b)'
    <2> SUFFICES ASSUME Counts(b) PROVE Counts(b)'
        OBVIOUS
    <2>1. payment_status'[b] # "unpaid" /\ pc'[r] \notin AtPayment
        BY DEF QuietStep
    <2>2. \A q \in For(b)' : pc'[q] \notin AtPayment
        BY <1>5, <2>1 DEF QuietStep, Counts, AtPayment, For
    <2>. QED
        BY <1>2, <2>1, <2>2 DEF Counts, AtPayment
<1>8. CASE Counts(b)' <=> Counts(b)
    <2>1. PaidSet' = PaidSet
        BY <1>6, <1>8 DEF PaidSet
    <2>2. CASE failed' = failed
        BY <1>2, <1>3, <1>4, <2>1, <2>2 DEF abstractVars
    <2>3. CASE failed' # failed
        <3>1. FailuresMap' = [FailuresMap EXCEPT ![b] = @ + 1]
            BY <1>4, <2>3
        <3>. QED
            BY <1>2, <1>3, <2>1, <3>1
            DEF Atomic!Fail, Atomic!Fails, ChargesMap, PaidSet, RefundedMap, FailuresMap,
                PaidRows, Failures
    <2>. QED
        BY <2>2, <2>3
<1>9. CASE ~Counts(b) /\ Counts(b)'
    <2>1. PaidSet' = PaidSet \union {b} /\ b \notin PaidSet
        BY <1>6, <1>9 DEF PaidSet
    <2>2. PaidRows(b) > 0
        BY <1>1, <1>2, <1>9, ReadingsTyped DEF Counts
    <2>3. \/ UNCHANGED FailuresMap
          \/ FailuresMap' = [FailuresMap EXCEPT ![b] = @ + 1]
        BY <1>4
    <2>4. Atomic!KeepCharge(b)
        BY <1>2, <1>3, <2>1, <2>2, <2>3
        DEF Atomic!KeepCharge, Atomic!MayFail, Atomic!Fails, ChargesMap, PaidSet,
            RefundedMap, FailuresMap, PaidRows, Failures
    <2>. QED
        BY <2>4
<1>. QED
    BY <1>7, <1>8, <1>9

(* The reads, the claim and its rollback, the stamp and the mark, a failed *)
(* move, a refused debit, a statement that throws and a death are quiet.   *)
LEMMA ReadsAreQuiet ==
    ASSUME BookingInv, NEW r \in Requests, NEW b \in Bookings,
           PayRead(r, b) \/ MoveRead(r, b) \/ CancelRead(r, b)
    PROVE  QuietStep(r, b)
<1>1. /\ TypeOK /\ pc[r] = "idle" /\ target[r] = NULL
      /\ target' = [target EXCEPT ![r] = b]
      /\ failed' = failed
    BY DEF BookingInv, MoneyInv, WorkerInv, PayRead, MoveRead, CancelRead, Arrives, At,
       faultVars
<1>2. /\ UNCHANGED <<walletVars, bookingVars, payment_status>>
      /\ \E l \in {"pay_claim", "done", "transition", "cancel_quote"} :
           pc' = [pc EXCEPT ![r] = l]
    BY DEF PayRead, MoveRead, CancelRead, Goto, paymentVars
<1>3. Counts(b) => payment_status[b] # "unpaid"
    BY DEF Counts
<1>. QED
    BY <1>1, <1>2, <1>3 DEF QuietStep, AtPayment, TypeOK

(* Where a request is once its first read is done. *)
LEMMA Underway ==
    ASSUME BookingInv, NEW r \in Requests, pc[r] \notin {"idle", "done"}
    PROVE  /\ target[r] \in Bookings
           /\ target = [target EXCEPT ![r] = target[r]]
           /\ Counts(target[r]) => /\ pc[r] \notin AtPayment
                                   /\ payment_status[target[r]] # "unpaid"
<1>1. target[r] \in Bookings
    BY DEF BookingInv, MoneyInv, WorkerInv
<1>2. target = [target EXCEPT ![r] = target[r]]
    <2>1. target \in [Requests -> Bookings \union {NULL}]
        BY DEF BookingInv, MoneyInv, TypeOK
    <2>. QED
        BY <2>1
<1>3. Counts(target[r]) => pc[r] \notin AtPayment
    <2>1. r \in For(target[r])
        BY DEF For
    <2>. QED
        BY <2>1 DEF Counts, AtPayment
<1>4. Counts(target[r]) => payment_status[target[r]] # "unpaid"
    BY DEF Counts
<1>. QED
    BY <1>1, <1>2, <1>3, <1>4

LEMMA StatementsAreQuiet ==
    ASSUME BookingInv, NEW r \in Requests, pc[r] \notin {"idle", "done"},
           \/ PayDebitRefused(r) \/ PayConfirm(r) \/ CancelQuote(r)
           \/ CancelTransition(r) \/ CancelStamp(r) \/ Throw(r) \/ Crash(r)
    PROVE  QuietStep(r, target[r])
<1>1. /\ target[r] \in Bookings /\ TypeOK
      /\ target = [target EXCEPT ![r] = target[r]]
      /\ Counts(target[r]) => /\ pc[r] \notin AtPayment
                              /\ payment_status[target[r]] # "unpaid"
    BY Underway DEF BookingInv, MoneyInv
<1>2. /\ UNCHANGED <<walletVars, bookingVars, payment_status, target>>
      /\ failed' \in {failed, failed \union {r}}
    BY DEF PayDebitRefused, PayConfirm, CancelQuote, CancelTransition, CancelStamp,
       Throw, Crash, paymentVars, localVars, faultVars
<1>3. /\ \E l : pc' = [pc EXCEPT ![r] = l]
      /\ pc'[r] \in AtPayment => pc[r] \in AtPayment
    BY <1>1 DEF PayDebitRefused, PayConfirm, CancelQuote, CancelTransition, CancelStamp,
       TransitionRead, Throw, Crash, Goto, At, AfterRefusal, AtPayment, TypeOK
<1>. QED
    BY <1>1, <1>2, <1>3 DEF QuietStep, TypeOK

(* A claim is of a booking no charge of which counts, and so is what a     *)
(* rollback undoes.                                                        *)
LEMMA ClaimsAreQuiet ==
    ASSUME BookingInv, NEW r \in Requests, pc[r] \notin {"idle", "done"},
           PayClaim(r) \/ PayRollback(r) \/ CancelMark(r)
    PROVE  QuietStep(r, target[r])
<1> DEFINE b == target[r]
<1>1. /\ b \in Bookings /\ TypeOK
      /\ target = [target EXCEPT ![r] = b]
      /\ Counts(b) => pc[r] \notin AtPayment /\ payment_status[b] # "unpaid"
    BY Underway DEF BookingInv, MoneyInv
<1>2. UNCHANGED <<walletVars, bookingVars, target, failed>>
    BY DEF PayClaim, PayRollback, CancelMark, localVars, faultVars
<1>3. /\ \E l : pc' = [pc EXCEPT ![r] = l]
      /\ \A c \in Bookings \ {b} : payment_status'[c] = payment_status[c]
    BY <1>1 DEF PayClaim, PayRollback, CancelMark, Goto, TypeOK
<1>4. Counts(b) => payment_status'[b] # "unpaid" /\ pc'[r] \notin AtPayment
    BY <1>1 DEF PayClaim, PayRollback, CancelMark, CanClaim, At, Goto, AtPayment, TypeOK
<1>. QED
    BY <1>1, <1>2, <1>3, <1>4 DEF QuietStep, TypeOK

(* payForBooking's debit is the charge, and the one that counts unless the *)
(* balance cannot be read back.                                            *)
LEMMA DebitCharges ==
    ASSUME BookingInv, NEW r \in Requests, PayDebit(r)
    PROVE  target[r] \in Bookings /\ (Atomic!Pay(target[r]) \/ Atomic!PayInVain(target[r]))
<1> DEFINE b == target[r]
<1>1. TypeOK /\ WorkerInv
    BY DEF BookingInv, MoneyInv
<1>2. /\ pc[r] = "pay_debit" /\ b \in Bookings /\ r \notin failed
      /\ payment_reference[b] = r /\ payment_status[b] # "unpaid"
      /\ DebitWallet(customer[b], Deposit(b), "booking_payment", b)
      /\ UNCHANGED <<booking_status, confirmed_by, payment_status, target>>
    BY <1>1 DEF PayDebit, At, WorkerInv, bookingVars, paymentVars
<1>3. \/ /\ pc' \in {[pc EXCEPT ![r] = "pay_confirm"], [pc EXCEPT ![r] = "done"]}
         /\ failed' = failed
      \/ /\ pc' = [pc EXCEPT ![r] = "pay_rollback"]
         /\ failed' = failed \union {r}
    BY DEF PayDebit, AfterPayment, Goto, faultVars
<1>4. \A c \in Bookings :
        /\ PaidRows(c)' = PaidRows(c) + (IF c = b THEN 1 ELSE 0)
        /\ c = b => Payments(c)' # {}
        /\ c # b => Payments(c)' = Payments(c)
        /\ PreviouslyRefunded(c)' = PreviouslyRefunded(c)
        /\ PaidRows(c) \in Nat
    BY <1>1, <1>2, PaymentRow, ReadingsTyped
<1>5. /\ Deposit(b) > 0 /\ cached_balance[customer[b]] >= Deposit(b)
      /\ cached_balance' = [cached_balance EXCEPT ![customer[b]] = @ - Deposit(b)]
    BY <1>2 DEF DebitWallet, CanDebit
<1>6. /\ failed' = failed => UNCHANGED FailuresMap
      /\ failed' # failed => FailuresMap' = [FailuresMap EXCEPT ![b] = @ + 1]
    BY <1>1, <1>2, <1>3, FailuresSeen DEF TypeOK
<1>7. \A q \in Requests : q # r /\ pc[q] \in AtPayment => target[q] # b
    BY <1>1, <1>2 DEF WorkerInv, AtPayment
<1>8. /\ \A q \in Requests \ {r} : pc'[q] = pc[q]
      /\ pc'[r] \in {"pay_confirm", "done", "pay_rollback"}
      /\ pc'[r] = "pay_rollback" <=> failed' # failed
      /\ \A c \in Bookings : For(c)' = For(c)
    BY <1>1, <1>2, <1>3 DEF TypeOK, For
<1>9. ~Counts(b)
    BY <1>2 DEF Counts, For
<1>10. ASSUME NEW c \in Bookings, c # b PROVE Counts(c)' <=> Counts(c)
    <2>1. \A q \in For(c) : q # r /\ pc'[q] = pc[q]
        BY <1>8, <1>10 DEF For
    <2>. QED
        BY <1>2, <1>4, <1>8, <1>10, <2>1 DEF Counts
<1>11. Counts(b)' <=> failed' = failed
    <2>1. r \in For(b)
        BY DEF For
    <2>2. \A q \in For(b) \ {r} : pc'[q] \notin AtPayment
        BY <1>7, <1>8 DEF For
    <2>. QED
        BY <1>2, <1>4, <1>8, <2>1, <2>2 DEF Counts, AtPayment
<1>12. Counts(b)' <=> \E c \in Bookings : c = b /\ Counts(c)'
    BY <1>2
<1> HIDE DEF b
<1>13. /\ ChargesMap' = [ChargesMap EXCEPT ![b] = @ + 1]
       /\ RefundedMap' = RefundedMap
       /\ b \notin PaidSet
    <2>1. \A c \in Bookings : PaidRows(c)' = IF c = b THEN PaidRows(c) + 1 ELSE PaidRows(c)
        BY <1>4
    <2>2. ChargesMap' = [ChargesMap EXCEPT ![b] = @ + 1]
        BY <2>1 DEF ChargesMap
    <2>3. RefundedMap' = RefundedMap
        BY <1>4 DEF RefundedMap
    <2>4. b \notin PaidSet
        BY <1>9 DEF PaidSet
    <2>. QED
        BY <2>2, <2>3, <2>4
<1>14. Atomic!Charge(b)
    BY <1>2, <1>5, <1>13 DEF Atomic!Charge, ChargesMap, PaidSet, PaidRows
<1>15. CASE failed' = failed
    <2>1. PaidSet' = PaidSet \union {b}
        BY <1>2, <1>10, <1>11, <1>12, <1>15 DEF PaidSet
    <2>2. Atomic!Pay(b)
        BY <1>2, <1>6, <1>13, <1>14, <1>15, <2>1
        DEF Atomic!Pay, PaidSet, RefundedMap, FailuresMap, Failures
    <2>. QED
        BY <1>2, <2>2 DEF b
<1>16. CASE failed' # failed
    <2>1. PaidSet' = PaidSet
        BY <1>2, <1>9, <1>10, <1>11, <1>12, <1>16 DEF PaidSet
    <2>2. FailuresMap' = [FailuresMap EXCEPT ![b] = @ + 1]
        BY <1>6, <1>16
    <2>3. Atomic!PayInVain(b)
        BY <1>2, <1>13, <1>14, <2>1, <2>2
        DEF Atomic!PayInVain, Atomic!Fails, PaidSet, RefundedMap, FailuresMap, Failures
    <2>. QED
        BY <1>2, <2>3 DEF b
<1>. QED
    BY <1>15, <1>16

(* A cancellation's credit is the refund, the first and out of what was    *)
(* charged.                                                                *)
LEMMA CreditRefunds ==
    ASSUME BookingInv, NEW r \in Requests, CancelCredit(r)
    PROVE  /\ target[r] \in Bookings
           /\ quote[r] \in 1 .. ChargesMap[target[r]] * Deposit(target[r])
           /\ Atomic!Refund(target[r], quote[r])
<1> DEFINE b == target[r]
<1>1. TypeOK /\ WorkerInv /\ CancelInv /\ RefundInv /\ DepositsCaptured
    BY DEF BookingInv, MoneyInv
<1>2. /\ pc[r] = "cancel_credit" /\ b \in Bookings
      /\ CreditWallet(customer[b], quote[r], "booking_refund", b)
      /\ UNCHANGED <<booking_status, confirmed_by, payment_status, target>>
    BY <1>1 DEF CancelCredit, At, WorkerInv, bookingVars, paymentVars
<1>3. /\ \E l \in {"cancel_mark", "done"} : pc' = [pc EXCEPT ![r] = l]
      /\ failed' \in {failed, failed \union {r}}
    BY DEF CancelCredit, Goto, faultVars
<1>4. /\ quote[r] \in Nat /\ quote[r] > 0 /\ quote[r] <= CapturedAmount(b)
      /\ booking_status[b] = "cancelled"
      /\ PreviouslyRefunded(b) = 0
      /\ CapturedAmount(b) = PaidRows(b) * Deposit(b)
      /\ PaidRows(b) \in Nat /\ Deposit(b) \in Nat
    BY <1>1, <1>2, ReadingsTyped, DepositTyped
    DEF CreditWallet, CancelInv, Cancelling, RefundInv, DepositsCaptured, TypeOK
<1>5. \A c \in Bookings :
        /\ Payments(c)' = Payments(c)
        /\ PreviouslyRefunded(c)' = IF c = b THEN PreviouslyRefunded(c) + quote[r]
                                             ELSE PreviouslyRefunded(c)
    BY <1>1, <1>2, <1>4, RefundRow
<1>6. cached_balance' = [cached_balance EXCEPT ![customer[b]] = @ + quote[r]]
    BY <1>2 DEF CreditWallet
<1>7. \/ UNCHANGED FailuresMap
      \/ FailuresMap' = [FailuresMap EXCEPT ![b] = @ + 1]
    BY <1>1, <1>2, <1>3, FailuresSeen DEF TypeOK
<1>8. \A c \in Bookings : Counts(c)' <=> Counts(c)
    <2>1. \A q \in Requests : pc'[q] \in AtPayment <=> pc[q] \in AtPayment
        BY <1>1, <1>2, <1>3 DEF TypeOK, AtPayment
    <2>2. \A c \in Bookings : For(c)' = For(c) /\ For(c) \subseteq Requests
        BY <1>2 DEF For
    <2>. QED
        BY <1>2, <1>5, <2>1, <2>2 DEF Counts, AtPayment
<1> HIDE DEF b
<1>9. /\ ChargesMap' = ChargesMap /\ PaidSet' = PaidSet
      /\ RefundedMap' = [RefundedMap EXCEPT ![b] = quote[r]]
      /\ RefundedMap[b] = 0 /\ ChargesMap[b] = PaidRows(b)
    <2>1. ChargesMap' = ChargesMap /\ ChargesMap[b] = PaidRows(b)
        BY <1>2, <1>5 DEF ChargesMap, PaidRows
    <2>2. PaidSet' = PaidSet
        BY <1>8 DEF PaidSet
    <2>3. \A c \in Bookings :
            PreviouslyRefunded(c)' = IF c = b THEN quote[r] ELSE PreviouslyRefunded(c)
        BY <1>4, <1>5
    <2>4. /\ RefundedMap' = [RefundedMap EXCEPT ![b] = quote[r]]
          /\ RefundedMap[b] = 0
        BY <1>2, <1>4, <2>3 DEF RefundedMap
    <2>. QED
        BY <2>1, <2>2, <2>4
<1>10. quote[r] \in 1 .. ChargesMap[b] * Deposit(b)
    <2> DEFINE most == PaidRows(b) * Deposit(b)
    <2>1. most \in Nat
        BY <1>4
    <2>2. most >= quote[r]
        BY <1>4
    <2> HIDE DEF most
    <2>3. quote[r] \in 1 .. most
        BY <1>4, <2>1, <2>2
    <2>. QED
        BY <1>9, <2>3 DEF most
<1>11. Atomic!Refund(b, quote[r])
    BY <1>2, <1>4, <1>6, <1>7, <1>9, <1>10
    DEF Atomic!Refund, Atomic!MayFail, Atomic!Fails, ChargesMap, PaidSet, RefundedMap,
        FailuresMap, PaidRows, Failures
<1>. QED
    BY <1>2, <1>10, <1>11 DEF b

(* transitionBooking's compare-and-swap is the move, and a confirmation in *)
(* the customer's name is of a booking that has been paid.                 *)
LEMMA SwapMoves ==
    ASSUME BookingInv, NEW r \in Requests, TransitionWrite(r), CanTransition(r)
    PROVE  /\ target[r] \in Bookings
           /\ <<booking_status[target[r]], to_status[r]>> \in UNION {Transitions[role] : role \in Roles}
           /\ Atomic!Move(target[r], to_status[r])
<1> DEFINE b == target[r]
           to == to_status[r]
<1>1. TypeOK /\ WorkerInv /\ HolderInv /\ ClaimShows
    BY DEF BookingInv, MoneyInv
<1>2. /\ pc[r] = "transition" /\ b \in Bookings /\ booking_status[b] = from_status[r]
      /\ UNCHANGED <<walletVars, payment_status, target, failed>>
      /\ booking_status' = [booking_status EXCEPT ![b] = to]
      /\ confirmed_by' =
           [confirmed_by EXCEPT ![b] = IF to = "confirmed" THEN ConfirmedBy(r) ELSE @]
      /\ \E l \in {"cancel_stamp", "done"} : pc' = [pc EXCEPT ![r] = l]
    BY <1>1 DEF TransitionWrite, CanTransition, At, WorkerInv, Goto, paymentVars, faultVars
<1>3. <<booking_status[b], to>> \in UNION {Transitions[role] : role \in Roles}
    BY <1>1, <1>2 DEF WorkerInv
<1>4. \A c \in Bookings :
        /\ PaidRows(c)' = PaidRows(c) /\ Payments(c)' = Payments(c)
        /\ PreviouslyRefunded(c)' = PreviouslyRefunded(c)
    BY <1>2, LedgerFrame
<1>5. \A c \in Bookings : For(c)' = For(c) /\ For(c) \subseteq Requests
    BY <1>2 DEF For
<1>6. \A c \in Bookings : Counts(c)' <=> Counts(c)
    <2>1. \A q \in Requests : pc'[q] \in AtPayment <=> pc[q] \in AtPayment
        BY <1>1, <1>2 DEF TypeOK, AtPayment
    <2>. QED
        BY <1>2, <1>4, <1>5, <2>1 DEF Counts, AtPayment
<1>7. ConfirmedBy(r) = "customer" => Counts(b)
    <2> SUFFICES ASSUME payment_reference[b] = r PROVE Counts(b)
        BY DEF ConfirmedBy
    <2>1. Payments(b) # {} /\ payment_status[b] # "unpaid"
        BY <1>1, <1>2, NullIsNoRequest DEF HolderInv, ClaimShows
    <2>2. \A q \in For(b) : pc[q] \notin AtPayment
        BY <1>1, <1>2 DEF WorkerInv, For, AtPayment
    <2>. QED
        BY <2>1, <2>2 DEF Counts, AtPayment
<1>8. ConfirmedBy(r) \in {"customer", "provider"}
    BY DEF ConfirmedBy
<1> DEFINE name == ConfirmedBy(r)
<1> HIDE DEF b, to, name
<1>9. /\ UNCHANGED <<ChargesMap, PaidSet, RefundedMap, FailuresMap, cached_balance>>
      /\ name \in {"customer", "provider"}
      /\ name = "customer" => b \in PaidSet
    <2>1. UNCHANGED FailuresMap
        BY <1>2, <1>5 DEF FailuresMap, Failures
    <2>. QED
        BY <1>2, <1>4, <1>6, <1>7, <1>8, <2>1
        DEF ChargesMap, PaidSet, RefundedMap, walletVars, name
<1>10. /\ to = "confirmed" => confirmed_by' = [confirmed_by EXCEPT ![b] = name]
       /\ to # "confirmed" => confirmed_by' = confirmed_by
    BY <1>1, <1>2 DEF TypeOK, name
<1>11. Atomic!Move(b, to)
    BY <1>2, <1>3, <1>9, <1>10
    DEF Atomic!Move, ChargesMap, PaidSet, RefundedMap, FailuresMap, PaidRows, Failures
<1>. QED
    BY <1>2, <1>3, <1>11 DEF b, to

(* A move that comes too late writes nothing. *)
LEMMA LateMoveIsQuiet ==
    ASSUME BookingInv, NEW r \in Requests, TransitionWrite(r), ~CanTransition(r)
    PROVE  QuietStep(r, target[r])
<1>1. /\ target[r] \in Bookings /\ TypeOK /\ pc[r] = "transition"
      /\ target = [target EXCEPT ![r] = target[r]]
      /\ Counts(target[r]) => payment_status[target[r]] # "unpaid"
    BY Underway DEF TransitionWrite, At, BookingInv, MoneyInv
<1>2. /\ UNCHANGED <<walletVars, bookingVars, payment_status, target, failed>>
      /\ pc' = [pc EXCEPT ![r] = "done"]
    BY DEF TransitionWrite, Goto, paymentVars, faultVars
<1>. QED
    BY <1>1, <1>2 DEF QuietStep, AtPayment, TypeOK

(* No booking is charged, refunded or paid when the behaviour starts. *)
LEMMA InitImplementsAtomic ==
    ASSUME Init
    PROVE  Atomic!Init
<1>1. MoneyInv
    BY MoneyInit
<1>2. \A b \in Bookings : Payments(b) = {} /\ RefundsOf(b) = {}
    BY <1>1, WalletAssumption, BookingPaymentAssumption, OpeningRowsLemma
    DEF Init, WalletInit, LedgerRow, Payments, RefundsOf, EntriesFor, ReferenceTypes,
        BookingPaymentAssumption
<1>3. \A b \in Bookings : /\ Cardinality(Payments(b)) = 0
                          /\ PreviouslyRefunded(b) = 0
                          /\ ~Counts(b)
    BY <1>1, <1>2, ReadingsTyped, FS_EmptySet DEF MoneyInv, Counts
<1>4. \A b \in Bookings : Cardinality(For(b) \intersect failed) = 0
    BY FS_EmptySet DEF Init
<1>5. /\ booking_status = [b \in Bookings |-> FirstStatus[booking_mode[b]]]
      /\ confirmed_by = [b \in Bookings |-> "nobody"]
      /\ cached_balance = OpeningBalance
    BY DEF Init, WalletInit
<1>. QED
    BY <1>3, <1>4, <1>5 DEF Atomic!Init

(* Every step of a handler is a step of the promise, or is not seen.       *)
LEMMA StepImplementsAtomic ==
    ASSUME BookingInv, [Next]_vars
    PROVE  Atomic!Next \/ UNCHANGED abstractVars
<1>1. ASSUME NEW r \in Requests, NEW b \in Bookings, QuietStep(r, b)
      PROVE  Atomic!Next \/ UNCHANGED abstractVars
    BY <1>1, QuietStepSeen DEF Atomic!Next
<1>2. ASSUME NEW r \in Requests, NEW b \in Bookings,
             PayRead(r, b) \/ MoveRead(r, b) \/ CancelRead(r, b)
      PROVE  Atomic!Next \/ UNCHANGED abstractVars
    BY <1>1, <1>2, ReadsAreQuiet
<1>3. ASSUME NEW r \in Requests, pc[r] \notin {"idle", "done"},
             Continue(r) \/ Throw(r) \/ Crash(r)
      PROVE  Atomic!Next \/ UNCHANGED abstractVars
    <2>1. target[r] \in Bookings
        BY <1>3, Underway
    <2>2. CASE PayDebit(r)
        BY <2>2, DebitCharges DEF Atomic!Next
    <2>3. CASE CancelCredit(r)
        <3>1. /\ Atomic!Refund(target[r], quote[r])
              /\ quote[r] \in 1 .. ChargesMap[target[r]] * Deposit(target[r])
            BY <2>3, CreditRefunds
        <3>2. \E amount \in 1 .. ChargesMap[target[r]] * Deposit(target[r]) :
                Atomic!Refund(target[r], amount)
            BY <3>1
        <3>. QED
            BY <2>1, <3>2 DEF Atomic!Next, ChargesMap, PaidRows
    <2>4. CASE TransitionWrite(r)
        <3>1. CASE CanTransition(r)
            <4>1. /\ <<booking_status[target[r]], to_status[r]>>
                       \in UNION {Transitions[role] : role \in Roles}
                  /\ Atomic!Move(target[r], to_status[r])
                BY <2>4, <3>1, SwapMoves
            <4>2. \E pair \in UNION {Transitions[role] : role \in Roles} :
                    Atomic!Move(target[r], pair[2])
                <5> DEFINE pair == <<booking_status[target[r]], to_status[r]>>
                <5>1. pair[2] = to_status[r]
                    OBVIOUS
                <5> HIDE DEF pair
                <5>2. pair \in UNION {Transitions[role] : role \in Roles}
                    BY <4>1 DEF pair
                <5>. QED
                    BY <4>1, <5>1, <5>2
            <4>. QED
                BY <2>1, <4>2 DEF Atomic!Next
        <3>2. CASE ~CanTransition(r)
            BY <1>1, <2>1, <2>4, <3>2, LateMoveIsQuiet
        <3>. QED
            BY <3>1, <3>2
    <2>5. CASE PayClaim(r) \/ PayRollback(r) \/ CancelMark(r)
        BY <1>1, <1>3, <2>1, <2>5, ClaimsAreQuiet
    <2>6. CASE \/ PayDebitRefused(r) \/ PayConfirm(r) \/ CancelQuote(r)
               \/ CancelTransition(r) \/ CancelStamp(r) \/ Throw(r) \/ Crash(r)
        BY <1>1, <1>3, <2>1, <2>6, StatementsAreQuiet
    <2>. QED
        BY <1>3, <2>2, <2>3, <2>4, <2>5, <2>6 DEF Continue
<1>4. CASE Next
    BY <1>2, <1>3, <1>4 DEF Next, Continue, Throw, Crash
<1>5. CASE UNCHANGED vars
    <2>1. UNCHANGED <<walletVars, booking_status, confirmed_by, payment_status, pc, target, failed>>
        BY <1>5 DEF vars, bookingVars, paymentVars, localVars, faultVars
    <2>2. /\ UNCHANGED cached_balance
          /\ \A b \in Bookings :
               /\ PaidRows(b)' = PaidRows(b) /\ Payments(b)' = Payments(b)
               /\ PreviouslyRefunded(b)' = PreviouslyRefunded(b)
               /\ For(b)' = For(b)
        BY <2>1, LedgerFrame DEF walletVars, For
    <2>. QED
        BY <2>1, <2>2 DEF abstractVars, ChargesMap, PaidSet, RefundedMap, FailuresMap,
           Counts, Failures
<1>. QED
    BY <1>4, <1>5

(* payForBooking, cancelBookingWithPolicy and transitionBooking together   *)
(* implement AtomicBooking: a booking is charged only while no charge of   *)
(* it counts, refunded once and out of what it was charged, and moved      *)
(* along the table, each in one step, for any bookings, prices, policies,  *)
(* requests and faults.                                                    *)
THEOREM BookingIsAtomic == Spec => ImplementsAtomicBooking
<1>1. Init => Atomic!Init
    BY InitImplementsAtomic
<1>2. BookingInv /\ [Next]_vars =>
        [Atomic!Next]_<<booking_status, confirmed_by, cached_balance,
                        [b \in Bookings |-> Cardinality(Payments(b))],
                        {b \in Bookings : Counts(b)},
                        [b \in Bookings |-> PreviouslyRefunded(b)],
                        [b \in Bookings |-> Cardinality(For(b) \intersect failed)]>>
    BY StepImplementsAtomic
    DEF abstractVars, ChargesMap, PaidSet, RefundedMap, FailuresMap, PaidRows, Failures
<1>. QED
    BY <1>1, <1>2, BookingInvariance, PTL DEF Spec, Atomic!Spec, ImplementsAtomicBooking
=============================================================================
