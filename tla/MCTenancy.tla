----------------------------- MODULE MCTenancy -----------------------------
(***************************************************************************)
(* Small instances of Tenancy: an organization in business, and one that is *)
(* being set up with an owner who is at home in the first.                 *)
(***************************************************************************)
EXTENDS Tenancy, TLC

CONSTANTS u1, u2, o1, o2, r1, a1, a2

TwoUsers == {u1, u2}
TwoOrgs == {o1, o2}
OneOrg == {o1}
Homes == u1 :> o1 @@ u2 :> o2
SameHome == u1 :> o1 @@ u2 :> o1
OneFounder == {u1}
TwoFounders == {u1, u2}
OneRole == {r1}
RoleOfFirst == r1 :> o1
TwoAdmins == {a1, a2}
OneAdmin == {a1}
AdminSymmetry == Permutations({a1, a2})

============================================================================
