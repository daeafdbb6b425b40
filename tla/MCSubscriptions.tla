-------------------------- MODULE MCSubscriptions --------------------------
(***************************************************************************)
(* Instances of Subscriptions for model checking.                          *)
(***************************************************************************)
EXTENDS Subscriptions, TLC

\* A term that begins later, ends, and has a grace period; and an open one.
MCTerms == {[start |-> 1, end |-> 2, grace |-> 3], [start |-> 1, end |-> Never, grace |-> 0]}

MCSymmetry == Permutations(Subs) \cup Permutations(Admins)
=============================================================================
