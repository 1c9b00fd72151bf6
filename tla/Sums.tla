-------------------------------- MODULE Sums --------------------------------
(* The sum of f over the finite set S. *)
EXTENDS Integers, Functions

SumOver(f, S) == FoldFunctionOnSet(+, 0, f, S)
=============================================================================
