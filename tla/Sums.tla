--------------------------------- MODULE Sums ---------------------------------
(***************************************************************************)
(* The sum of a function over a finite set, in terms of which the          *)
(* properties say that balances and tallies are in step.                   *)
(***************************************************************************)
EXTENDS Integers, Functions

SumOf(f, S) == FoldFunctionOnSet(+, 0, f, S)

=============================================================================
