------------------------------ MODULE MCCheckout ------------------------------
(* One cart, two listings of two sellers, two requests at a time.          *)
EXTENDS Checkout, TLC

CONSTANTS l1, l2

MCPrice == l1 :> 15 @@ l2 :> 7
MCVendor == l1 :> "v1" @@ l2 :> "v2"
Symmetry == Permutations(Calls)
=============================================================================
