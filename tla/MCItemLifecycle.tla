--------------------------- MODULE MCItemLifecycle ---------------------------
(* One order of two items from two vendors, one of whom takes backorders,  *)
(* and three requests.                                                     *)
EXTENDS ItemLifecycle, TLC

CONSTANTS o1, i1, i2, l1, l2, r1, r2, r3

MCOrderOf == [i \in Items |-> o1]
MCListingOf == i1 :> l1 @@ i2 :> l2
MCQuantity == i1 :> 1 @@ i2 :> 2
MCInitialStock == l1 :> 0 @@ l2 :> 1
MCBackordered == {l1}
MCDeltas == {-1, 1}
Symmetry == Permutations(Requests)
=============================================================================
