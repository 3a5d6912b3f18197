--------------------------- MODULE MCOrderPayment ---------------------------
(* One customer whose wallet covers one of two orders, a Paystack          *)
(* transaction for the second order and a top-up that would cover it, and  *)
(* a shelf that holds fewer units than the two orders sell.                *)
EXTENDS OrderPayment, TLC

CONSTANTS u1, o1, o2, l1, t1, t2

MCReferenceIds == Orders \union TxRefs \union {NULL}
MCOpeningBalance == [u \in Users |-> 2]
MCowner == [o \in Orders |-> u1]
MCtotal == (o1 :> 2) @@ (o2 :> 1)
MCquantity == (o1 :> (l1 :> 2)) @@ (o2 :> (l1 :> 1))
MCinitialStock == [l \in Listings |-> 2]
MCtx_order == (t1 :> o2) @@ (t2 :> NULL)
MCtx_user == [t \in TxRefs |-> u1]
MCtx_amount == (t1 :> 1) @@ (t2 :> 1)

=============================================================================
