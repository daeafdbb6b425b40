-------------------------- MODULE MCEventMetering --------------------------
(***************************************************************************)
(* A small instance of EventMetering: a request, its retry with the same   *)
(* x-request-id, and an unrelated request, under a limit of one call in    *)
(* every window of three instants: a retry may fall into the next window.    *)
(***************************************************************************)
EXTENDS EventMetering, TLC

CONSTANTS k1, k2, c1, c2, c3, w1

TwoKeys == {k1, k2}
NoPasses == {}
OnePass == {w1}
ThreeCalls == {c1, c2, c3}
SharedKey == c1 :> k1 @@ c2 :> k1 @@ c3 :> k2

OneCall == {[enforced |-> TRUE, hardLimit |-> 1, reset |-> 3]}

============================================================================
