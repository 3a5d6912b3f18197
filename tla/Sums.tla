-------------------------------- MODULE Sums --------------------------------
(***************************************************************************)
(* SELECT SUM(column) over the rows a WHERE clause keeps.                   *)
(***************************************************************************)
EXTENDS FiniteSetsExt

(* The sum of f[x] over the members x of S. *)
SumOver(f, S) == MapThenSumSet(LAMBDA x : f[x], S)
=============================================================================
