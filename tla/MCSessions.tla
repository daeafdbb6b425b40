----------------------------- MODULE MCSessions -----------------------------
(***************************************************************************)
(* Instances of Sessions for model checking.                               *)
(***************************************************************************)
EXTENDS Sessions, TLC

MCSymmetry == Permutations(Sessions) \cup Permutations(Calls)
=============================================================================
