-------------------------- MODULE MCBookingPayment --------------------------
(* An instant booking and one by request of the same customer, whose       *)
(* wallet pays for either but not for both, and a policy that gives back   *)
(* everything or half, less a fee.                                         *)
EXTENDS BookingPayment, TLC

CONSTANTS u1, b1, b2

MCReferenceIds == Bookings \union {NULL}
MCOpeningBalance == [u \in Users |-> 3]
MCcustomer == [b \in Bookings |-> u1]
MCbooking_mode == (b1 :> "instant") @@ (b2 :> "request")
MCtotal_price == (b1 :> 2) @@ (b2 :> 4)
MCdeposit_percentage == (b1 :> 100) @@ (b2 :> 50)
=============================================================================
