--------------------------- MODULE BookingPayment ---------------------------
(***************************************************************************)
(* The money of bookings: payForBooking (src/src/lib/booking-payments.ts), *)
(* cancelBookingWithPolicy (booking-cancellation.ts) and the moves of      *)
(* transitionBooking (booking-lifecycle.ts) that race them, as the booking *)
(* routes call them.  BookingHolds has the capacity side of the same moves.*)
(*                                                                         *)
(* A request is one HTTP request in a Worker; one SQL statement, or one    *)
(* db.batch(), is one action.  A statement may fail and make the code      *)
(* throw, and a Worker may die between two of them.  The bookings exist,   *)
(* unpaid, when the behaviour starts; requests are numbered as they arrive.*)
(***************************************************************************)
EXTENDS Wallet, BookingLifecycle, FiniteSets, Sums

CONSTANTS
    Bookings,          \* bookings.id
    MaxRequests,       \* bound: HTTP requests
    customer,          \* booking -> customer_user_id
    booking_mode,      \* booking -> its listing's booking_mode
    total_price,       \* booking -> total_price_kobo
    deposit_percentage,\* booking -> its listing's deposit_percentage
    Percentages,       \* refund percentages of the policy, before and after
                       \* its cutoff
    flat_fee,          \* flat_fee_kobo of the policy
    MaxFaults          \* bound: Workers that die mid-request, and requests
                       \* one of whose statements fails

ASSUME BookingPaymentAssumption ==
    /\ customer \in [Bookings -> Users]
    /\ booking_mode \in [Bookings -> DOMAIN FirstStatus]
    /\ total_price \in [Bookings -> Nat \ {0}]
    /\ deposit_percentage \in [Bookings -> Int]
    /\ Percentages \subseteq 0..100
    /\ {flat_fee, MaxRequests, MaxFaults} \subseteq Nat
    /\ Bookings \subseteq ReferenceIds
    /\ NULL \notin Bookings \union Nat

Requests == 1..MaxRequests

VARIABLES
    booking_status,    \* bookings.status
    payment_status,    \* bookings.payment_status
    payment_reference, \* bookings.payment_reference: the request's that claimed
    refund_amount,     \* bookings.refund_amount_kobo
    confirmed_by,      \* whose doing a confirmation was, by booking
    pc,                \* where each request stands
    target,            \* the booking it works on
    from_status,       \* bookings.status as it read it
    to_status,         \* what its transition writes
    was_paid,          \* cancelBookingWithPolicy's existing.payment_status
    quote,             \* the refund it quoted
    crashed,           \* requests whose Worker died
    failed             \* requests one of whose statements failed

bookingVars == <<booking_status, confirmed_by>>
paymentVars == <<payment_status, payment_reference, refund_amount>>
localVars == <<target, from_status, to_status, was_paid, quote>>
faultVars == <<crashed, failed>>
vars == <<walletVars, bookingVars, paymentVars, localVars, faultVars, pc>>

Locations == {"idle", "pay_claim", "pay_debit", "pay_rollback", "pay_confirm",
              "cancel_quote", "cancel_read", "cancel_stamp", "cancel_credit",
              "cancel_mark", "transition", "done"}

Init ==
    /\ WalletInit
    /\ booking_status = [b \in Bookings |-> FirstStatus[booking_mode[b]]]
    /\ payment_status = [b \in Bookings |-> "unpaid"]
    /\ payment_reference = [b \in Bookings |-> NULL]
    /\ refund_amount = [b \in Bookings |-> 0]
    /\ confirmed_by = [b \in Bookings |-> "nobody"]
    /\ pc = [r \in Requests |-> "idle"]
    /\ target = [r \in Requests |-> NULL]
    /\ from_status = [r \in Requests |-> "none"]
    /\ to_status = [r \in Requests |-> "none"]
    /\ was_paid = [r \in Requests |-> FALSE]
    /\ quote = [r \in Requests |-> 0]
    /\ crashed = {}
    /\ failed = {}

At(r, location) == pc[r] = location /\ r \notin crashed
Arrives(r) == At(r, "idle") /\ \A q \in Requests : q < r => pc[q] # "idle"
Goto(r, location) == pc' = [pc EXCEPT ![r] = location]

MoreFaults == Cardinality(failed) + Cardinality(crashed) < MaxFaults

(* Math.round of share percent of a non-negative amount. *)
PercentOf(n, share) == (2 * n * share + 100) \div 200

-----------------------------------------------------------------------------
(* payForBooking: read, claim, debit, and confirm an instant booking. *)

(* The deposit, clamped to 1..100 percent: 0 kobo of a small enough price. *)
Deposit(b) ==
    PercentOf(total_price[b], Min({100, Max({1, deposit_percentage[b]})}))

PayRead(r, b) ==
    /\ Arrives(r)
    /\ target' = [target EXCEPT ![r] = b]
    /\ \/ /\ payment_status[b] = "unpaid"
          /\ booking_status[b] \in {"held", "pending_payment"}
          /\ from_status' = [from_status EXCEPT ![r] = booking_status[b]]
          /\ Goto(r, "pay_claim")
       \/ /\ \/ payment_status[b] # "unpaid"
             \/ booking_status[b] \notin {"held", "pending_payment"}
          /\ Goto(r, "done")
          /\ UNCHANGED from_status
    /\ UNCHANGED <<walletVars, bookingVars, paymentVars, to_status, was_paid, quote, faultVars>>

(* A deliberate fault, for the mutation runs. *)
CanClaimUnchecked(b) == TRUE

(* The CAS looks at payment_status and not at status again. *)
CanClaim(b) == payment_status[b] = "unpaid"

PayClaim(r) ==
    LET b == target[r] IN
    /\ At(r, "pay_claim")
    /\ \/ /\ CanClaim(b)
          /\ payment_status' = [payment_status EXCEPT ![b] = "escrow_held"]
          /\ payment_reference' = [payment_reference EXCEPT ![b] = r]
          /\ Goto(r, "pay_debit")
       \/ /\ ~CanClaim(b)
          /\ Goto(r, "done")
          /\ UNCHANGED <<payment_status, payment_reference>>
    /\ UNCHANGED <<walletVars, bookingVars, refund_amount, localVars, faultVars>>

(* An instant booking that was awaiting its payment confirms itself. *)
AfterPayment(r) ==
    IF booking_mode[target[r]] = "instant" /\ from_status[r] = "pending_payment"
    THEN "pay_confirm" ELSE "done"

(* debitWallet reads the new balance after its batch: if that read throws, *)
(* the catch runs although the money is gone.                              *)
PayDebit(r) ==
    LET b == target[r] IN
    /\ At(r, "pay_debit")
    /\ DebitWallet(customer[b], Deposit(b), "booking_payment", b)
    /\ \/ /\ Goto(r, AfterPayment(r))
          /\ UNCHANGED faultVars
       \/ /\ MoreFaults
          /\ failed' = failed \union {r}
          /\ Goto(r, "pay_rollback")
          /\ UNCHANGED crashed
    /\ from_status' = [from_status EXCEPT ![r] = "none"]
    /\ UNCHANGED <<bookingVars, paymentVars, target, to_status, was_paid, quote>>

AfterRefusal == "pay_rollback"

PayDebitRefused(r) ==
    LET b == target[r] IN
    /\ At(r, "pay_debit")
    /\ ~CanDebit(customer[b], Deposit(b))
    /\ Goto(r, AfterRefusal)
    /\ UNCHANGED <<walletVars, bookingVars, paymentVars, localVars, faultVars>>

(* A deliberate fault, for the mutation runs. *)
PayRollbackForgets(r) ==
    /\ At(r, "pay_rollback")
    /\ Goto(r, "done")
    /\ UNCHANGED <<walletVars, bookingVars, paymentVars, localVars, faultVars>>

(* The catch undoes this call's own claim. *)
PayRollback(r) ==
    LET b == target[r]
        ownsClaim == payment_status[b] = "escrow_held" /\ payment_reference[b] = r
    IN
    /\ At(r, "pay_rollback")
    /\ payment_status' = [payment_status EXCEPT ![b] = IF ownsClaim THEN "unpaid" ELSE @]
    /\ payment_reference' = [payment_reference EXCEPT ![b] = IF ownsClaim THEN NULL ELSE @]
    /\ Goto(r, "done")
    /\ UNCHANGED <<walletVars, bookingVars, refund_amount, localVars, faultVars>>

-----------------------------------------------------------------------------
(* transitionBooking: read the booking and look the move up in the table,  *)
(* then CAS the status.                                                    *)

(* POST /bookings/:id/transition; cancelling has a route of its own. *)
MoveRead(r, b) ==
    /\ Arrives(r)
    /\ \E role \in DOMAIN RequestedTransitions :
         \E to \in RequestedTransitions[role] \ {"cancelled"} :
           /\ <<booking_status[b], to>> \in Transitions[role]
           /\ to_status' = [to_status EXCEPT ![r] = to]
    /\ target' = [target EXCEPT ![r] = b]
    /\ from_status' = [from_status EXCEPT ![r] = booking_status[b]]
    /\ Goto(r, "transition")
    /\ UNCHANGED <<walletVars, bookingVars, paymentVars, was_paid, quote, faultVars>>

(* The move of a request that has begun.  An illegal one throws: the       *)
(* payment it follows, if it follows one, is not undone.                   *)
TransitionRead(r, roles, to) ==
    LET from == booking_status[target[r]] IN
    \/ /\ \E role \in roles : <<from, to>> \in Transitions[role]
       /\ from_status' = [from_status EXCEPT ![r] = from]
       /\ to_status' = [to_status EXCEPT ![r] = to]
       /\ Goto(r, "transition")
    \/ /\ \E role \in roles : <<from, to>> \notin Transitions[role]
       /\ Goto(r, "done")
       /\ UNCHANGED <<from_status, to_status>>

PayConfirm(r) ==
    /\ At(r, "pay_confirm")
    /\ TransitionRead(r, {"system"}, "confirmed")
    /\ UNCHANGED <<walletVars, bookingVars, paymentVars, target, was_paid, quote, faultVars>>

(* A deliberate fault, for the mutation runs. *)
CanTransitionUnchecked(r) == TRUE

CanTransition(r) == booking_status[target[r]] = from_status[r]

(* A confirmation that follows a payment is made in the customer's name:   *)
(* confirmed_by_user_id is the customer's.                                 *)
ConfirmedBy(r) == IF payment_reference[target[r]] = r THEN "customer" ELSE "provider"

TransitionWrite(r) ==
    LET b == target[r] IN
    /\ At(r, "transition")
    /\ \/ /\ CanTransition(r)
          /\ booking_status' = [booking_status EXCEPT ![b] = to_status[r]]
          /\ confirmed_by' =
               [confirmed_by EXCEPT ![b] =
                  IF to_status[r] = "confirmed" THEN ConfirmedBy(r) ELSE @]
          /\ Goto(r, IF to_status[r] = "cancelled" THEN "cancel_stamp" ELSE "done")
       \/ /\ ~CanTransition(r)
          /\ Goto(r, "done")
          /\ UNCHANGED bookingVars
    /\ from_status' = [from_status EXCEPT ![r] = "none"]
    /\ to_status' = [to_status EXCEPT ![r] = "none"]
    /\ UNCHANGED <<walletVars, paymentVars, target, was_paid, quote, faultVars>>

-----------------------------------------------------------------------------
(* cancelBookingWithPolicy: read the booking, quote from the ledger, move  *)
(* it to 'cancelled', stamp the amounts, credit the refund and mark it.    *)

MoneyOf(b, entryType, refType) ==
    LET rows == wallet_ledger[customer[b]] IN
    SumOver([i \in 1..Len(rows) |-> rows[i].amount],
        {i \in RowsWith(rows, refType, b) : rows[i].entry_type = entryType})

(* getActualPaidAmount: what the ledger says was taken and given back.     *)
CapturedAmount(b) == MoneyOf(b, "debit", "booking_payment")
PreviouslyRefunded(b) == MoneyOf(b, "credit", "booking_refund")

(* A deliberate fault, for the mutation runs. *)
RefundOfUnfloored(captured, refunded, share) == PercentOf(captured, share) - flat_fee

(* quoteCancellation: the policy's share of what was captured, less the    *)
(* flat fee, and never more than is left of it.                            *)
RefundOf(captured, refunded, share) ==
    LET gross == PercentOf(captured, share)
        net == gross - Min({flat_fee, gross})
    IN  Max({0, Min({net, captured - refunded, captured})})

CancelRead(r, b) ==
    /\ Arrives(r)
    /\ target' = [target EXCEPT ![r] = b]
    /\ was_paid' = [was_paid EXCEPT ![r] = payment_status[b] = "escrow_held"]
    /\ Goto(r, "cancel_quote")
    /\ UNCHANGED <<walletVars, bookingVars, paymentVars, from_status, to_status, quote, faultVars>>

(* The two sums are read one after the other; a refund can come between    *)
(* them only from a call whose transition then makes this one's fail.      *)
CancelQuote(r) ==
    LET b == target[r] IN
    /\ At(r, "cancel_quote")
    /\ \E share \in Percentages :
         quote' = [quote EXCEPT ![r] =
                     RefundOf(CapturedAmount(b), PreviouslyRefunded(b), share)]
    /\ Goto(r, "cancel_read")
    /\ UNCHANGED <<walletVars, bookingVars, paymentVars, target, from_status,
                   to_status, was_paid, faultVars>>

CancelTransition(r) ==
    /\ At(r, "cancel_read")
    /\ TransitionRead(r, {"customer", "provider"}, "cancelled")
    /\ UNCHANGED <<walletVars, bookingVars, paymentVars, target, was_paid, quote, faultVars>>

(* A deliberate fault, for the mutation runs. *)
OwesRefundNever(r) == FALSE

OwesRefund(r) == quote[r] > 0 /\ was_paid[r]

CancelStamp(r) ==
    /\ At(r, "cancel_stamp")
    /\ refund_amount' = [refund_amount EXCEPT ![target[r]] = quote[r]]
    /\ Goto(r, IF OwesRefund(r) THEN "cancel_credit" ELSE "done")
    /\ UNCHANGED <<walletVars, bookingVars, payment_status, payment_reference,
                   localVars, faultVars>>

CancelCredit(r) ==
    LET b == target[r] IN
    /\ At(r, "cancel_credit")
    /\ CreditWallet(customer[b], quote[r], "booking_refund", b)
    /\ \/ /\ Goto(r, "cancel_mark")
          /\ UNCHANGED faultVars
       \/ /\ MoreFaults
          /\ failed' = failed \union {r}
          /\ Goto(r, "done")
          /\ UNCHANGED crashed
    /\ quote' = [quote EXCEPT ![r] = 0]
    /\ was_paid' = [was_paid EXCEPT ![r] = FALSE]
    /\ UNCHANGED <<bookingVars, paymentVars, target, from_status, to_status>>

CancelMark(r) ==
    /\ At(r, "cancel_mark")
    /\ payment_status' = [payment_status EXCEPT ![target[r]] = "refunded"]
    /\ Goto(r, "done")
    /\ UNCHANGED <<walletVars, bookingVars, payment_reference, refund_amount,
                   localVars, faultVars>>

-----------------------------------------------------------------------------
(* A statement fails before it takes effect; payForBooking catches the     *)
(* failure of its debit, and every other one ends the request.             *)
Throw(r) ==
    /\ pc[r] \notin {"idle", "done"}
    /\ r \notin crashed
    /\ MoreFaults
    /\ failed' = failed \union {r}
    /\ Goto(r, IF pc[r] = "pay_debit" THEN "pay_rollback" ELSE "done")
    /\ UNCHANGED <<walletVars, bookingVars, paymentVars, localVars, crashed>>

(* The Worker dies between two statements. *)
Crash(r) ==
    /\ pc[r] \notin {"idle", "done"}
    /\ r \notin crashed
    /\ MoreFaults
    /\ crashed' = crashed \union {r}
    /\ UNCHANGED <<walletVars, bookingVars, paymentVars, localVars, failed, pc>>

(* What a request does once it has started. *)
Continue(r) ==
    /\ pc[r] \notin {"idle", "done"}
    /\ \/ PayClaim(r) \/ PayDebit(r) \/ PayDebitRefused(r) \/ PayRollback(r)
       \/ PayConfirm(r)
       \/ TransitionWrite(r)
       \/ CancelQuote(r) \/ CancelTransition(r) \/ CancelStamp(r)
       \/ CancelCredit(r) \/ CancelMark(r)

Next ==
    \E r \in Requests :
        \/ \E b \in Bookings : PayRead(r, b) \/ MoveRead(r, b) \/ CancelRead(r, b)
        \/ Continue(r)
        \/ Throw(r)
        \/ Crash(r)

Spec == Init /\ [][Next]_vars

(* A Worker that is alive goes on. *)
FairSpec == Spec /\ \A r \in Requests : WF_vars(Continue(r))

-----------------------------------------------------------------------------
(* Every variable keeps to the values the tables and the code allow. *)
TypeOK ==
    /\ WalletTypeOK
    /\ booking_status \in [Bookings -> BookingStatuses]
    /\ payment_status \in [Bookings -> {"unpaid", "escrow_held", "refunded"}]
    /\ payment_reference \in [Bookings -> Requests \union {NULL}]
    /\ refund_amount \in [Bookings -> Nat]
    /\ confirmed_by \in [Bookings -> {"nobody", "customer", "provider"}]
    /\ pc \in [Requests -> Locations]
    /\ target \in [Requests -> Bookings \union {NULL}]
    /\ from_status \in [Requests -> BookingStatuses \union {"none"}]
    /\ to_status \in [Requests -> BookingStatuses \union {"none"}]
    /\ was_paid \in [Requests -> BOOLEAN]
    /\ quote \in [Requests -> Nat]
    /\ crashed \in SUBSET Requests
    /\ failed \in SUBSET Requests

-----------------------------------------------------------------------------
(* Properties. *)

Payments(b) == EntriesFor(customer[b], "booking_payment", b)
RefundsOf(b) == EntriesFor(customer[b], "booking_refund", b)
For(b) == {r \in Requests : target[r] = b}

(* A booking is charged once, however many payments of it race: the test   *)
(* 08.idempotency reproduced eight charges before the claim.  Only a debit *)
(* whose balance read then fails may be followed by another.               *)
ChargedAtMostOnce ==
    \A b \in Bookings :
        Cardinality(Payments(b)) <= 1 + Cardinality(For(b) \intersect failed)

(* booking-cancellation.ts:48-50, "money out can never exceed money in"    *)
(* for a booking, and there is at most one refund of it, whatever cancels, *)
(* pays, fails or dies around it.                                          *)
MoneyOutWithinMoneyIn ==
    \A b \in Bookings :
        /\ PreviouslyRefunded(b) <= CapturedAmount(b)
        /\ Cardinality(RefundsOf(b)) <= 1

(* payment_status agrees with the ledger: money that was taken shows, and  *)
(* what shows was taken, except while, or because, a payment is half way.  *)
PaymentStatusTellsTheTruth ==
    \A b \in Bookings :
        /\ Payments(b) # {} =>
              payment_status[b] # "unpaid" \/ For(b) \intersect failed # {}
        /\ payment_status[b] = "escrow_held" =>
              \/ Payments(b) # {}
              \/ \E r \in For(b) : pc[r] \in {"pay_debit", "pay_rollback"} \/ r \in failed
        /\ payment_status[b] = "refunded" =>
              RefundsOf(b) # {} /\ booking_status[b] = "cancelled"

(* A booking confirmed in its customer's own name has been paid for: an    *)
(* instant booking confirms itself by its payment and by nothing less.     *)
SelfConfirmedIsPaid ==
    \A b \in Bookings : confirmed_by[b] = "customer" => Payments(b) # {}

(* The money moves once each way, and what the booking says of it is what  *)
(* the ledger says.                                                        *)
MoneyMovesOnceAndShows ==
    /\ ChargedAtMostOnce
    /\ MoneyOutWithinMoneyIn
    /\ PaymentStatusTellsTheTruth
    /\ SelfConfirmedIsPaid

(* Whatever a request read, and however long ago, the status a booking is  *)
(* in changes only along the table.  In particular a cancelled, declined   *)
(* or missed booking never comes back.                                     *)
OnlyLegalMoves ==
    [][\A b \in Bookings :
         booking_status'[b] # booking_status[b] =>
           \E role \in Roles :
             <<booking_status[b], booking_status'[b]>> \in Transitions[role]]_vars

(* A charge counts while no request is about to undo its claim.            *)
Counts(b) ==
    /\ Payments(b) # {}
    /\ payment_status[b] # "unpaid"
    /\ \A r \in For(b) : pc[r] \notin {"pay_debit", "pay_rollback"}

Atomic == INSTANCE AtomicBooking WITH
    deposit <- [b \in Bookings |-> Deposit(b)],
    first_status <- [b \in Bookings |-> FirstStatus[booking_mode[b]]],
    Moves <- UNION {Transitions[role] : role \in Roles},
    status <- booking_status,
    balance <- cached_balance,
    charges <- [b \in Bookings |-> Cardinality(Payments(b))],
    paid <- {b \in Bookings : Counts(b)},
    refunded <- [b \in Bookings |-> PreviouslyRefunded(b)],
    failures <- [b \in Bookings |-> Cardinality(For(b) \intersect failed)]

(* payForBooking, cancelBookingWithPolicy and transitionBooking together   *)
(* implement AtomicBooking: however requests overlap, fail and die, each   *)
(* of their steps is seen as one charge, one refund or one move, allowed   *)
(* when it is made, or is not seen.                                        *)
ImplementsAtomicBooking == Atomic!Spec

(* A cancellation that owes money for a payment it saw pays it, unless it  *)
(* dies or fails owing it.                                                 *)
Owing(b) == {r \in For(b) : quote[r] > 0 /\ was_paid[r]}

CancellationPaysOut ==
    \A b \in Bookings :
        (\E r \in Owing(b) : At(r, "cancel_stamp"))
          ~> (RefundsOf(b) # {} \/ Owing(b) \intersect (crashed \union failed) # {})

(* booking-cancellation.ts:215-219: "if a payment was actually captured",  *)
(* the cancelled booking's refund portion is credited; "a booking still    *)
(* unpaid simply cancels with a 0 refund (nothing was ever captured)".     *)
(* Once its requests are over, and none failed, a cancelled booking has    *)
(* back at least the policy's lowest share of what was captured.           *)
CancelledIsRefunded ==
    \A b \in Bookings :
        /\ booking_status[b] = "cancelled"
        /\ \A r \in For(b) : pc[r] = "done" /\ r \notin failed
        => \E share \in Percentages :
             PreviouslyRefunded(b) >= RefundOf(CapturedAmount(b), 0, share)
=============================================================================
