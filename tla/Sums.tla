-------------------------------- MODULE Sums --------------------------------
(* The sum of a function's values over a finite set: the _sum aggregates of *)
(* the database and the totals of the contracts' mappings.                  *)
EXTENDS FiniteSetsExt

SumOver(S, f) == MapThenSumSet(LAMBDA x : f[x], S)
=============================================================================
