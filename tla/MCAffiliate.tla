----------------------------- MODULE MCAffiliate -----------------------------
(* Two orders of one customer, one of two items that earn 1 and 2, one of  *)
(* an item that earns 2 and a half, rounded down.                          *)
EXTENDS Affiliate, TLC

CONSTANTS u1, o1, o2, i1, i2, i3

MCOwner == o1 :> u1 @@ o2 :> u1
MCOrderOf == i1 :> o1 @@ i2 :> o1 @@ i3 :> o2
MCLineTotal == i1 :> 20 @@ i2 :> 40 @@ i3 :> 59
Symmetry == Permutations(Calls) \union Permutations(Affiliates)
=============================================================================
