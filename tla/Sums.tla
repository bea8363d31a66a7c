--------------------------------- MODULE Sums ---------------------------------
(* The sum of an integer function over a finite part of its domain.          *)
EXTENDS Integers, FiniteSets, FiniteSetsExt

SumOver(f, S) == MapThenSumSet(LAMBDA x : f[x], S)
===============================================================================
