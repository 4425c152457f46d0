--------------------------------- MODULE Sums ---------------------------------
(***************************************************************************)
(* The sum of a family of integers indexed from 0, as a recursive          *)
(* function: TLC evaluates it, and module NatFacts proves what it needs    *)
(* to be.                                                                  *)
(***************************************************************************)
EXTENDS Integers

(* v[0] + ... + v[N - 1].                                                  *)
SumUpTo(v, N) ==
  LET upTo[n \in 0 .. N] == IF n = 0 THEN 0 ELSE upTo[n - 1] + v[n - 1]
  IN  upTo[N]
===============================================================================
