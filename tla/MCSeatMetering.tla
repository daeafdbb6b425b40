--------------------------- MODULE MCSeatMetering ---------------------------
(***************************************************************************)
(* Small instances of SeatMetering: two active users, at a limit of two.   *)
(***************************************************************************)
EXTENDS SeatMetering, TLC

CONSTANTS c1, c2, c3, c4, c5, u1, u2, u3, u4

NoPasses == {}
TwoSeats == {[enforced |-> TRUE, hardLimit |-> 2, reset |-> 0]}

FourUsers == {u1, u2, u3, u4}
FirstTwo == {u1, u2}

\* Two suspensions, the activation of one of the suspended users, twice, and
\* the creation of a third user; u4 comes by single sign-on.
FiveRequests == {c1, c2, c3, c4, c5}
AllKeys == FiveRequests \cup FourUsers
Ops == c1 :> "deactivate" @@ c2 :> "activate" @@ c3 :> "activate" @@ c4 :> "create"
       @@ c5 :> "deactivate"
About == c1 :> u1 @@ c2 :> u1 @@ c3 :> u1 @@ c4 :> u3 @@ c5 :> u1

============================================================================
