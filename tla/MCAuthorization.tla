-------------------------- MODULE MCAuthorization --------------------------
(***************************************************************************)
(* Instances of Authorization for model checking.                          *)
(***************************************************************************)
EXTENDS Authorization, TLC

=============================================================================
