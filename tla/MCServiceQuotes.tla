--------------------------- MODULE MCServiceQuotes ---------------------------
(* One service request, two providers, two quotes and two calls at a time. *)
EXTENDS ServiceQuotes, TLC

MCPrice == [q \in Quotes |-> 10 * q]
MCFee == [q \in Quotes |-> q]
MCCharges == {3}
Symmetry == Permutations(Providers) \union Permutations(Calls)
=============================================================================
