---------------------------- MODULE AtomicBooking ----------------------------
(***************************************************************************)
(* What booking promises, with no requests, claims or stale reads in       *)
(* sight: a booking moves along the table; it is charged while it is not   *)
(* paid, in the step that takes the money; it is refunded once, when it is *)
(* cancelled, out of what it was charged.  BookingPayment is shown to      *)
(* implement it.                                                           *)
(***************************************************************************)
EXTENDS Integers

CONSTANTS Bookings, customer, deposit, OpeningBalance,
          first_status,  \* booking -> the status it begins in
          Moves          \* the pairs of statuses the table allows

VARIABLES
    status,
    confirmed_by,  \* in whose name it was confirmed last
    balance,       \* spendable money of a user
    charges,       \* how often a booking was charged
    paid,          \* bookings one of whose charges counts
    refunded,      \* what was given back
    failures       \* how many requests about a booking have failed

Init ==
    /\ status = first_status
    /\ confirmed_by = [b \in Bookings |-> "nobody"]
    /\ balance = OpeningBalance
    /\ charges = [b \in Bookings |-> 0]
    /\ paid = {}
    /\ refunded = [b \in Bookings |-> 0]
    /\ failures = [b \in Bookings |-> 0]

Fails(b) == failures' = [failures EXCEPT ![b] = @ + 1]

MayFail(b) == Fails(b) \/ UNCHANGED failures

Charge(b) ==
    /\ b \notin paid
    /\ deposit[b] > 0
    /\ balance[customer[b]] >= deposit[b]
    /\ balance' = [balance EXCEPT ![customer[b]] = @ - deposit[b]]
    /\ charges' = [charges EXCEPT ![b] = @ + 1]

Pay(b) ==
    /\ Charge(b)
    /\ paid' = paid \union {b}
    /\ UNCHANGED <<status, confirmed_by, refunded, failures>>

(* The money is taken, and the request fails before it knows.              *)
PayInVain(b) ==
    /\ Charge(b)
    /\ Fails(b)
    /\ UNCHANGED <<status, confirmed_by, paid, refunded>>

(* A charge made in vain counts after all, since nobody undoes the claim   *)
(* it was made for.                                                        *)
KeepCharge(b) ==
    /\ b \notin paid
    /\ charges[b] > 0
    /\ paid' = paid \union {b}
    /\ MayFail(b)
    /\ UNCHANGED <<status, confirmed_by, balance, charges, refunded>>

Move(b, to) ==
    /\ <<status[b], to>> \in Moves
    /\ status' = [status EXCEPT ![b] = to]
    /\ UNCHANGED <<balance, charges, paid, refunded, failures>>
    /\ IF to = "confirmed"
       THEN \E name \in {"customer", "provider"} :
              /\ name = "customer" => b \in paid
              /\ confirmed_by' = [confirmed_by EXCEPT ![b] = name]
       ELSE UNCHANGED confirmed_by

Refund(b, amount) ==
    /\ status[b] = "cancelled"
    /\ refunded[b] = 0
    /\ amount \in 1 .. charges[b] * deposit[b]
    /\ refunded' = [refunded EXCEPT ![b] = amount]
    /\ balance' = [balance EXCEPT ![customer[b]] = @ + amount]
    /\ MayFail(b)
    /\ UNCHANGED <<status, confirmed_by, charges, paid>>

Fail(b) ==
    /\ Fails(b)
    /\ UNCHANGED <<status, confirmed_by, balance, charges, paid, refunded>>

Next ==
    \E b \in Bookings :
        \/ Pay(b) \/ PayInVain(b) \/ KeepCharge(b)
        \/ \E pair \in Moves : Move(b, pair[2])
        \/ \E amount \in 1 .. charges[b] * deposit[b] : Refund(b, amount)
        \/ Fail(b)

Spec ==
    Init /\ [][Next]_<<status, confirmed_by, balance, charges, paid, refunded, failures>>
=============================================================================
