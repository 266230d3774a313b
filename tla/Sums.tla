-------------------------------- MODULE Sums --------------------------------
(* Totals of samples, as the aggregations of the code and of its queries   *)
(* form them: the values of a function added up over a finite set.         *)
EXTENDS Integers, FiniteSetsExt

SumOver(f, S) == FoldSet(LAMBDA x, total : f[x] + total, 0, S)
=============================================================================
