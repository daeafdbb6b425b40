----------------------------- MODULE QuotaSums -----------------------------
(***************************************************************************)
(* aggregate({ _sum: { amount } }) over a set K of rows of table r.  The   *)
(* sum is the number of single units those rows stand for, so the counting *)
(* theorems of FiniteSetTheorems apply to it.                              *)
(***************************************************************************)
EXTENDS Integers, FiniteSets

CONSTANT MaxAmount    \* BOUND: largest amount asked for

Units(r, K) == {u \in K \X (1..MaxAmount) : u[2] <= r[u[1]].amount}
Sum(r, K) == Cardinality(Units(r, K))

============================================================================
