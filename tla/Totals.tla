------------------------------- MODULE Totals -------------------------------
(***************************************************************************)
(* Sums over rows: what the code's reduce() and SUM() loops add up.        *)
(***************************************************************************)
EXTENDS Integers, FiniteSetsExt

(* The sum of a function's values, and of what an operator gives for a set. *)
SumOf(g) == MapThenSumSet(LAMBDA x : g[x], DOMAIN g)
Total(S, f(_)) == SumOf([x \in S |-> f(x)])
=============================================================================
