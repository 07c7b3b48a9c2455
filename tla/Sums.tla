--------------------------------- MODULE Sums ---------------------------------
(***************************************************************************)
(* The sum an aggregate query takes over the rows it selects:              *)
(* `_sum` in the repositories, `reduce` over rows already read.            *)
(***************************************************************************)
EXTENDS Integers, Functions

SumOver(f, S) == FoldFunctionOnSet(LAMBDA a, b : a + b, 0, f, S)
===============================================================================
