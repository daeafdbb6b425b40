------------------------ MODULE AuthorizationProofs ------------------------
(***************************************************************************)
(* Theorems about the roles, grants and cached permissions of one          *)
(* organization.                                                           *)
(***************************************************************************)
EXTENDS Authorization, TLAPS

\* The requests after a grant are requests (replacePermissions).
LEMMA RacedType ==
    ASSUME request \in [Admins -> Request \cup {None}], NEW r \in Roles
    PROVE  Raced(r) \in [Admins -> Request \cup {None}]
<1> SUFFICES ASSUME NEW b \in Admins, Asks(b, "replace")
             PROVE  [request[b] EXCEPT !.raced = TRUE] \in Request
  BY DEF Raced
<1>1. request[b] \in Request /\ request[b].op = "replace"
  BY DEF Asks
<1>2. request[b] \in [op : {"replace"}, role : Roles, want : SUBSET Permissions,
                      selected : SUBSET Permissions, raced : BOOLEAN]
  BY <1>1 DEF Request
<1> QED
  BY <1>2 DEF Request

\* An ended request leaves requests.
LEMMA EndedType ==
    ASSUME NEW q \in [Admins -> Request \cup {None}], NEW a \in Admins
    PROVE  [q EXCEPT ![a] = None] \in [Admins -> Request \cup {None}]
  OBVIOUS

\* What a request under way was asked for keeps its type once it has looked
\* which organizations are affected.
LEMMA AffectedType ==
    ASSUME request \in [Admins -> Request \cup {None}], NEW a \in Admins,
           Asks(a, "permission"), NEW x \in {"yes", "no"}
    PROVE  [request EXCEPT ![a].affected = x] \in [Admins -> Request \cup {None}]
<1>1. request[a] \in Request /\ request[a].op = "permission"
  BY DEF Asks
<1>2. request[a] \in [op : {"permission"}, permission : Permissions, to : Presence,
                      holders : SUBSET Roles, affected : {"unread", "yes", "no"}]
  BY <1>1 DEF Request
<1>3. [request[a] EXCEPT !.affected = x] \in Request
  BY <1>2 DEF Request
<1> QED
  BY <1>3

\* The fields of a replacement, a removal and a permission's change.
LEMMA RequestFields ==
    ASSUME request \in [Admins -> Request \cup {None}], NEW a \in Admins
    PROVE  /\ Asks(a, "replace") => /\ request[a].role \in Roles
                                   /\ request[a].want \subseteq Permissions
           /\ Asks(a, "remove") => request[a].role \in TenantRoles
           /\ Asks(a, "permission") => /\ request[a].permission \in Permissions
                                      /\ request[a].to \in Presence
  BY DEF Asks, Request

\* Type correctness, with no grant to an absent role or of an absent permission.
THEOREM TypeCorrect == Spec => []TypeOK
<1>1. Init => TypeOK
  BY AuthorizationAssumption DEF Init, TypeOK, MembershipRow, Roles, Presence, Versions
<1>2. TypeOK /\ [Next]_vars => TypeOK'
  <2> SUFFICES ASSUME TypeOK, [Next]_vars PROVE TypeOK'
    OBVIOUS
  <2> USE DEF TypeOK
  <2>1. ASSUME Bump PROVE version' \in Versions /\ cache' \in [Members -> (SUBSET Permissions) \cup {None}]
                          /\ excused' \subseteq Members
    BY <2>1, AuthorizationAssumption DEF Bump, Versions
  <2>2. ASSUME NEW m \in Members, NEW r \in Roles, Assign(m, r) PROVE TypeOK'
    BY <2>1, <2>2 DEF Assign, MembershipRow
  <2>3. ASSUME NEW m \in Members, NEW r \in Roles, SsoRole(m, r) PROVE TypeOK'
    BY <2>3 DEF SsoRole, MembershipRow
  <2>4. ASSUME NEW m \in Members, Revoke(m) PROVE TypeOK'
    BY <2>1, <2>4 DEF Revoke, MembershipRow
  <2>5. ASSUME NEW m \in Members, Evict(m) PROVE TypeOK'
    BY <2>5 DEF Evict, rows
  <2>6. ASSUME NEW m \in Members, NEW active \in BOOLEAN, SetActive(m, active) PROVE TypeOK'
    BY <2>1, <2>6 DEF SetActive, MembershipRow
  <2>7. ASSUME NEW r \in Roles, NEW p \in Presence, SetRole(r, p) PROVE TypeOK'
    BY <2>1, <2>7 DEF SetRole
  <2>8. SystemRole \in Roles /\ TenantRoles \subseteq Roles
    BY DEF Roles
  <2>9. ASSUME NEW P \in SUBSET Permissions, GrantSystem(P) PROVE TypeOK'
    BY <2>1, <2>8, <2>9, RacedType DEF GrantSystem, Grantable
  <2>10. ASSUME NEW P \in SUBSET Permissions, RevokeSystem(P) PROVE TypeOK'
    BY <2>1, <2>8, <2>10 DEF RevokeSystem
  <2>11. ASSUME NEW p \in Permissions, CreatePermission(p) PROVE TypeOK'
    BY <2>11 DEF CreatePermission, Presence
  <2>12. ASSUME NEW a \in Admins, NEW asked \in Request, Ask(a, asked) PROVE TypeOK'
    BY <2>12 DEF Ask, rows
  <2>13. ASSUME NEW a \in Admins, NEW r \in TenantRoles, RemoveCheck(a, r) PROVE TypeOK'
    BY <2>12, <2>13 DEF RemoveCheck, Request
  <2>14. ASSUME NEW a \in Admins, RemoveDelete(a) PROVE TypeOK'
    <3> DEFINE r == request[a].role
    <3>1. r \in Roles
      BY <2>8, <2>14, RequestFields DEF RemoveDelete
    <3>2. member' \in [Members -> MembershipRow]
      BY <2>14 DEF RemoveDelete, MembershipRow
    <3>3. grants' \in [Roles -> SUBSET Permissions] /\ role' \in [Roles -> Presence]
      BY <2>14, <3>1 DEF RemoveDelete, Presence
    <3>4. request' \in [Admins -> Request \cup {None}]
      BY <2>14, EndedType DEF RemoveDelete
    <3> QED
      BY <2>14, <3>1, <3>2, <3>3, <3>4 DEF RemoveDelete
  <2>15. ASSUME NEW a \in Admins, NEW r \in Roles, NEW want \in SUBSET Permissions,
                ReplaceDelete(a, r, want)
         PROVE  TypeOK'
    <3>1. [op |-> "replace", role |-> r, want |-> want, selected |-> grants[r], raced |-> FALSE]
            \in Request
      BY DEF Request
    <3> QED
      BY <2>12, <2>15, <3>1 DEF ReplaceDelete
  <2>16. ASSUME NEW a \in Admins, ReplaceInsert(a) PROVE TypeOK'
    <3> DEFINE r == request[a].role
               want == request[a].want
    <3>1. r \in Roles /\ want \subseteq Permissions
      BY <2>16, RequestFields DEF ReplaceInsert
    <3>2. [Raced(r) EXCEPT ![a] = None] \in [Admins -> Request \cup {None}]
      BY <3>1, RacedType, EndedType
    <3>3. [request EXCEPT ![a] = None] \in [Admins -> Request \cup {None}]
      BY EndedType
    <3>4. CASE want \cap (grants[r] \ request[a].selected) # {} \/ ~Grantable(r, want)
      BY <2>16, <3>3, <3>4 DEF ReplaceInsert
    <3>5. CASE ~(want \cap (grants[r] \ request[a].selected) # {} \/ ~Grantable(r, want))
      <4>1. grants' = [grants EXCEPT ![r] = (grants[r] \ request[a].selected) \cup want]
        BY <2>16, <3>5 DEF ReplaceInsert
      <4>2. Bump /\ request' = [Raced(r) EXCEPT ![a] = None]
        BY <2>16, <3>5 DEF ReplaceInsert
      <4>3. Grantable(r, want) /\ UNCHANGED <<member, role, permission, reader>>
        BY <2>16, <3>5 DEF ReplaceInsert
      <4> HIDE DEF r, want
      <4> QED
        BY <2>1, <3>1, <3>2, <4>1, <4>2, <4>3 DEF Grantable
    <3> QED
      BY <3>4, <3>5
  <2>17. ASSUME NEW a \in Admins, NEW p \in Permissions, NEW to \in Presence,
                PermissionRead(a, p, to)
         PROVE  TypeOK'
    <3>1. [op |-> "permission", permission |-> p, to |-> to, affected |-> "unread",
           holders |-> {r \in Roles : p \in grants[r]}] \in Request
      BY DEF Request
    <3> QED
      BY <2>12, <2>17, <3>1 DEF PermissionRead
  <2>18. ASSUME NEW a \in Admins, PermissionAffected(a) PROVE TypeOK'
    <3>1. PICK x \in {"yes", "no"} : request' = [request EXCEPT ![a].affected = x]
      BY <2>18 DEF PermissionAffected
    <3>2. request' \in [Admins -> Request \cup {None}]
      <4>1. Asks(a, "permission") /\ request \in [Admins -> Request \cup {None}]
        BY <2>18 DEF PermissionAffected
      <4>2. [request EXCEPT ![a].affected = x] \in [Admins -> Request \cup {None}]
        BY <4>1, AffectedType
      <4> QED
        BY <3>1, <4>2
    <3> QED
      BY <2>18, <3>2 DEF PermissionAffected, rows
  <2>19. ASSUME NEW a \in Admins, PermissionCommit(a) PROVE TypeOK'
    <3> DEFINE p == request[a].permission
               to == request[a].to
    <3>1. p \in Permissions /\ to \in Presence
      BY <2>19, RequestFields DEF PermissionCommit
    <3>2. permission' = [permission EXCEPT ![p] = to]
      BY <2>19 DEF PermissionCommit
    <3>3. grants' = IF to = "absent" THEN [r \in Roles |-> grants[r] \ {p}] ELSE grants
      BY <2>19 DEF PermissionCommit
    <3>4. request' \in [Admins -> Request \cup {None}]
      BY <2>19, EndedType DEF PermissionCommit
    <3>5. /\ version' \in Versions /\ excused' \subseteq Members
          /\ cache' \in [Members -> (SUBSET Permissions) \cup {None}]
      BY <2>1, <2>19 DEF PermissionCommit
    <3>6. UNCHANGED <<member, role, reader>>
      BY <2>19 DEF PermissionCommit
    <3> HIDE DEF p, to
    <3> QED
      BY <3>1, <3>2, <3>3, <3>4, <3>5, <3>6
  <2>20. ASSUME NEW a \in Admins, Fail(a) PROVE TypeOK'
    BY <2>20, EndedType DEF Fail, rows
  <2>21. ASSUME NEW d \in Readers, NEW m \in Members, ResolveMembership(d, m) PROVE TypeOK'
    <3>1. [member |-> m, role |-> Holds(m), seen |-> version, version |-> version,
           next |-> "organization"] \in Reading
      BY <2>21 DEF ResolveMembership, Holds, MembershipRow, Reading
    <3> QED
      BY <2>21, <3>1 DEF ResolveMembership, rows
  <2>22. ASSUME NEW d \in Readers, ResolveOrganization(d) PROVE TypeOK'
    <3>1. reader[d] \in Reading
      BY <2>22 DEF ResolveOrganization
    <3>2. [reader[d] EXCEPT !.version = version, !.next = "grants"] \in Reading
      BY <3>1 DEF Reading
    <3>3. reader' \in [Readers -> Reading \cup {None}]
      BY <2>22, <3>2 DEF ResolveOrganization
    <3> QED
      BY <2>22, <3>3 DEF ResolveOrganization, rows
  <2>23. ASSUME NEW d \in Readers, ResolveGrants(d) PROVE TypeOK'
    <3>1. reader[d].role \in Roles /\ reader[d].member \in Members
      BY <2>23 DEF ResolveGrants, Reading
    <3>2. Granted(reader[d].role) \in SUBSET Permissions
      BY <3>1 DEF Granted
    <3> QED
      BY <2>23, <3>1, <3>2 DEF ResolveGrants, rows
  <2>24. CASE UNCHANGED vars
    BY <2>24 DEF vars
  <2> QED
    BY <2>2, <2>3, <2>4, <2>5, <2>6, <2>7, <2>9, <2>10, <2>11, <2>13, <2>14, <2>15, <2>16,
       <2>17, <2>18, <2>19, <2>20, <2>21, <2>22, <2>23, <2>24 DEF Next
<1> QED
  BY <1>1, <1>2, PTL DEF Spec

-----------------------------------------------------------------------------
(* The cached permissions.                                                 *)

\* A resolution under way has read no version but the current one or an older,
\* and one that has read the current version has read the role, unless it has
\* been deleted.
ReadersAreCurrent ==
    \A d \in Readers : reader[d] # None =>
        /\ reader[d].seen <= version /\ reader[d].version <= version
        /\ (reader[d].seen = version /\ reader[d].member \notin excused) =>
              Holds(reader[d].member) \in {reader[d].role, None}

\* Every entry under the current version is what is granted to the role, also
\* while the membership cannot be resolved.
EntriesAreCurrent ==
    \A m \in Members : (m \notin excused /\ cache[m] # None) =>
        Holds(m) = None \/ cache[m] = Granted(Holds(m))

IInv == TypeOK /\ ReadersAreCurrent /\ EntriesAreCurrent

\* A new version leaves no entry, and no resolution has read it yet.
LEMMA BumpClears ==
    ASSUME TypeOK, ReadersAreCurrent, Bump, UNCHANGED reader
    PROVE  ReadersAreCurrent' /\ EntriesAreCurrent'
<1>1. version \in Int /\ version' = version + 1
  BY AuthorizationAssumption DEF Bump, TypeOK, Versions
<1>2. ASSUME NEW d \in Readers, reader[d] # None
      PROVE  reader[d].seen \in Int /\ reader[d].version \in Int
  BY <1>2, AuthorizationAssumption DEF TypeOK, Reading, Versions
<1>3. ReadersAreCurrent'
  BY <1>1, <1>2 DEF ReadersAreCurrent
<1>4. EntriesAreCurrent'
  BY DEF EntriesAreCurrent, Bump
<1> QED
  BY <1>3, <1>4

\* What leaves the rows, the version and the cache alone leaves the entries.
LEMMA SameRows ==
    ASSUME UNCHANGED <<rows, cache, excused>>
    PROVE  EntriesAreCurrent => EntriesAreCurrent'
  BY DEF rows, EntriesAreCurrent, Holds, Granted

LEMMA SameReaders ==
    ASSUME UNCHANGED <<member, version, reader, excused>>
    PROVE  ReadersAreCurrent => ReadersAreCurrent'
  BY DEF ReadersAreCurrent, Holds

\* What is served is what is granted, but after the races that excuse a
\* membership: however many members, roles, permissions, requests and
\* resolutions there are.
THEOREM ServesWhatIsGranted == Spec => []ServedIsGranted
<1>1. Init => ReadersAreCurrent /\ EntriesAreCurrent
  BY DEF Init, ReadersAreCurrent, EntriesAreCurrent
<1>2. IInv /\ [Next]_vars => (ReadersAreCurrent /\ EntriesAreCurrent)'
  <2> SUFFICES ASSUME IInv, [Next]_vars PROVE ReadersAreCurrent' /\ EntriesAreCurrent'
    OBVIOUS
  <2>0. TypeOK /\ ReadersAreCurrent /\ EntriesAreCurrent
    BY DEF IInv
  <2> DEFINE Kept == ReadersAreCurrent' /\ EntriesAreCurrent'
  <2>1. ASSUME NEW m \in Members, NEW r \in Roles, Assign(m, r) PROVE Kept
    BY <2>0, <2>1, BumpClears DEF Assign
  <2>2. ASSUME NEW m \in Members, NEW r \in Roles, SsoRole(m, r) PROVE Kept
    <3>1. /\ UNCHANGED <<grants, permission, version, cache, reader>>
          /\ excused' = excused \cup {m}
          /\ \A n \in Members \ {m} : member'[n] = member[n]
      BY <2>0, <2>2 DEF SsoRole, TypeOK
    <3>2. ReadersAreCurrent'
      BY <2>0, <3>1 DEF ReadersAreCurrent, Holds, TypeOK, Reading
    <3>3. EntriesAreCurrent'
      BY <2>0, <3>1 DEF EntriesAreCurrent, Holds, Granted
    <3> QED
      BY <3>2, <3>3
  <2>3. ASSUME NEW m \in Members, Revoke(m) PROVE Kept
    BY <2>0, <2>3, BumpClears DEF Revoke
  <2>4. ASSUME NEW m \in Members, Evict(m) PROVE Kept
    <3>1. EntriesAreCurrent'
      BY <2>0, <2>4 DEF Evict, rows, EntriesAreCurrent, Holds, Granted, TypeOK
    <3> QED
      BY <2>0, <2>4, <3>1, SameReaders DEF Evict, rows
  <2>5. ASSUME NEW m \in Members, NEW active \in BOOLEAN, SetActive(m, active) PROVE Kept
    BY <2>0, <2>5, BumpClears DEF SetActive
  <2>6. ASSUME NEW r \in Roles, NEW p \in Presence, SetRole(r, p) PROVE Kept
    BY <2>0, <2>6, BumpClears DEF SetRole
  <2>7. ASSUME NEW P \in SUBSET Permissions, GrantSystem(P) PROVE Kept
    BY <2>0, <2>7, BumpClears DEF GrantSystem
  <2>8. ASSUME NEW P \in SUBSET Permissions, RevokeSystem(P) PROVE Kept
    BY <2>0, <2>8, BumpClears DEF RevokeSystem
  <2>9. ASSUME NEW p \in Permissions, CreatePermission(p) PROVE Kept
    \* nothing is granted of a permission that was absent
    <3>1. \A r \in Roles : Granted(r)' = Granted(r)
      BY <2>0, <2>9 DEF CreatePermission, Granted, TypeOK
    <3>2. EntriesAreCurrent'
      BY <2>0, <2>9, <3>1 DEF CreatePermission, EntriesAreCurrent, Holds, TypeOK, MembershipRow
    <3> QED
      BY <2>0, <2>9, <3>2, SameReaders DEF CreatePermission
  <2>10. ASSUME NEW a \in Admins, NEW asked, Ask(a, asked) PROVE Kept
    BY <2>0, <2>10, SameRows, SameReaders DEF Ask, rows
  <2>11. ASSUME NEW a \in Admins, NEW r \in TenantRoles, RemoveCheck(a, r) PROVE Kept
    BY <2>10, <2>11 DEF RemoveCheck
  <2>12. ASSUME NEW a \in Admins, RemoveDelete(a) PROVE Kept
    <3> DEFINE r == request[a].role
    <3>1. /\ UNCHANGED <<permission, version, cache, reader, excused>>
          /\ grants' = [grants EXCEPT ![r] = {}]
          /\ member' = [m \in Members |-> IF m \in Holders(r) THEN [member[m] EXCEPT !.role = None]
                                           ELSE member[m]]
      BY <2>12 DEF RemoveDelete
    <3> HIDE DEF r
    <3>2. \A m \in Members : IF m \in Holders(r) THEN Holds(m)' = None
                            ELSE Holds(m)' = Holds(m) /\ Holds(m) # r
      BY <2>0, <3>1 DEF Holds, Holders, TypeOK, MembershipRow
    <3>3. ReadersAreCurrent'
      <4>1. \A d \in Readers : reader[d] # None => reader[d].member \in Members
        BY <2>0 DEF TypeOK, Reading
      <4> QED
        BY <2>0, <3>1, <3>2, <4>1 DEF ReadersAreCurrent
    <3>4. \A q \in Roles \ {r} : Granted(q)' = Granted(q)
      BY <2>0, <3>1 DEF Granted, TypeOK
    <3>5. \A m \in Members : Holds(m) # None => Holds(m) \in Roles
      BY <2>0 DEF Holds, TypeOK, MembershipRow
    <3>6. EntriesAreCurrent'
      <4> SUFFICES ASSUME NEW m \in Members, m \notin excused, cache[m] # None, Holds(m)' # None
                   PROVE  cache[m] = Granted(Holds(m))'
        BY <3>1 DEF EntriesAreCurrent
      <4>1. Holds(m)' = Holds(m) /\ Holds(m) \in Roles \ {r}
        BY <3>2, <3>5
      <4>2. cache[m] = Granted(Holds(m))
        BY <2>0, <4>1 DEF EntriesAreCurrent
      <4>3. Granted(Holds(m))' = Granted(Holds(m))
        BY <3>1, <4>1, <2>0 DEF Granted, TypeOK
      <4> QED
        BY <4>2, <4>3
    <3> QED
      BY <3>3, <3>6
  <2>13. ASSUME NEW a \in Admins, NEW r \in Roles, NEW want \in SUBSET Permissions,
                ReplaceDelete(a, r, want)
         PROVE  Kept
    BY <2>10, <2>13 DEF ReplaceDelete
  <2>14. ASSUME NEW a \in Admins, ReplaceInsert(a) PROVE Kept
    <3>1. UNCHANGED <<member, role, permission, reader>>
      BY <2>14 DEF ReplaceInsert
    <3>2. Bump \/ UNCHANGED <<grants, version, cache, excused>>
      BY <2>14 DEF ReplaceInsert
    <3>3. CASE Bump
      BY <2>0, <3>1, <3>3, BumpClears
    <3>4. CASE UNCHANGED <<grants, version, cache, excused>>
      BY <2>0, <3>1, <3>4, SameRows, SameReaders DEF rows
    <3> QED
      BY <3>2, <3>3, <3>4
  <2>15. ASSUME NEW a \in Admins, NEW p \in Permissions, NEW to \in Presence,
                PermissionRead(a, p, to)
         PROVE  Kept
    BY <2>10, <2>15 DEF PermissionRead
  <2>16. ASSUME NEW a \in Admins, PermissionAffected(a) PROVE Kept
    BY <2>0, <2>16, SameRows, SameReaders DEF PermissionAffected, rows
  <2>17. ASSUME NEW a \in Admins, PermissionCommit(a) PROVE Kept
    <3> DEFINE p == request[a].permission
               late == {m \in Members : Holds(m) # None /\ p \in grants[Holds(m)]}
    <3>1. UNCHANGED <<member, role, reader>>
      BY <2>17 DEF PermissionCommit
    <3>2. CASE Bump
      BY <2>0, <3>1, <3>2, BumpClears
    <3>3. CASE excused' = excused \cup late /\ UNCHANGED <<version, cache>>
      <4>1. ReadersAreCurrent'
        BY <2>0, <3>1, <3>3 DEF ReadersAreCurrent, Holds
      <4>2. EntriesAreCurrent'
        \* of a role without the permission, nothing else is granted than before
        <5> SUFFICES ASSUME NEW m \in Members, m \notin excused', cache[m] # None, Holds(m) # None
                     PROVE  cache[m] = Granted(Holds(m))'
          BY <3>1, <3>3 DEF EntriesAreCurrent, Holds
        <5>1. Holds(m) \in Roles /\ p \notin grants[Holds(m)]
          BY <2>0, <3>3 DEF Holds, TypeOK, MembershipRow
        <5>2. Holds(m)' = Holds(m)
          BY <3>1 DEF Holds
        <5>3. /\ permission' = [permission EXCEPT ![p] = request[a].to]
              /\ grants' = IF request[a].to = "absent" THEN [r \in Roles |-> grants[r] \ {p}]
                           ELSE grants
          BY <2>17 DEF PermissionCommit
        <5> HIDE DEF p
        <5>4. grants'[Holds(m)] = grants[Holds(m)]
          BY <5>1, <5>3
        <5>5. \A q \in grants[Holds(m)] : permission'[q] = permission[q]
          BY <2>0, <5>1, <5>3 DEF TypeOK
        <5>6. Granted(Holds(m))' = Granted(Holds(m))
          BY <5>2, <5>4, <5>5 DEF Granted
        <5> QED
          BY <2>0, <3>3, <5>6 DEF EntriesAreCurrent
      <4> QED
        BY <4>1, <4>2
    <3> QED
      BY <2>17, <3>2, <3>3 DEF PermissionCommit
  <2>18. ASSUME NEW a \in Admins, Fail(a) PROVE Kept
    BY <2>0, <2>18, SameRows, SameReaders DEF Fail, rows
  <2>19. ASSUME NEW d \in Readers, NEW m \in Members, ResolveMembership(d, m) PROVE Kept
    <3>1. ReadersAreCurrent'
      BY <2>0, <2>19, AuthorizationAssumption
         DEF ResolveMembership, rows, ReadersAreCurrent, Holds, TypeOK, Versions
    <3> QED
      BY <2>0, <2>19, <3>1, SameRows DEF ResolveMembership
  <2>20. ASSUME NEW d \in Readers, ResolveOrganization(d) PROVE Kept
    <3>1. reader[d] \in Reading /\ version <= version
      BY <2>0, <2>20, AuthorizationAssumption DEF ResolveOrganization, TypeOK, Versions
    <3>2. reader' = [reader EXCEPT ![d] = None]
          \/ reader' = [reader EXCEPT ![d] = [reader[d] EXCEPT !.version = version, !.next = "grants"]]
      BY <2>20 DEF ResolveOrganization
    <3>3. UNCHANGED <<member, version, excused>>
      BY <2>20 DEF ResolveOrganization, rows
    <3>4. ReadersAreCurrent'
      BY <2>0, <3>1, <3>2, <3>3, <2>20 DEF ResolveOrganization, ReadersAreCurrent, Holds, TypeOK, Reading
    <3> QED
      BY <2>0, <2>20, <3>4, SameRows DEF ResolveOrganization
  <2>21. ASSUME NEW d \in Readers, ResolveGrants(d) PROVE Kept
    <3> DEFINE c == reader[d]
    <3>1. reader[d] \in Reading /\ c.member \in Members
      BY <2>0, <2>21 DEF ResolveGrants, TypeOK, Reading
    <3>2. UNCHANGED <<rows, version>> /\ reader' = [reader EXCEPT ![d] = None]
      BY <2>21 DEF ResolveGrants
    <3>3. excused \subseteq excused'
      BY <2>21 DEF ResolveGrants
    <3>4. ReadersAreCurrent'
      BY <2>0, <3>2, <3>3 DEF ReadersAreCurrent, Holds, rows, TypeOK
    <3>5. EntriesAreCurrent'
      <4>1. CASE c.version = version
        <5> SUFFICES ASSUME NEW m \in Members, m \notin excused', cache'[m] # None, Holds(m) # None
                     PROVE  cache'[m] = Granted(Holds(m))
          BY <3>2 DEF EntriesAreCurrent, Holds, Granted, rows
        <5>1. cache' = [cache EXCEPT ![c.member] = Granted(c.role)]
          BY <2>21, <4>1 DEF ResolveGrants
        <5>2. CASE m # c.member
          BY <2>0, <3>3, <5>1, <5>2 DEF EntriesAreCurrent
        <5>3. CASE m = c.member
          <6>1. c.seen = version
            BY <2>21, <4>1, <5>3 DEF ResolveGrants
          <6>2. Holds(m) = c.role
            BY <2>0, <2>21, <3>3, <5>3, <6>1 DEF ReadersAreCurrent, ResolveGrants
          <6> QED
            BY <2>0, <5>1, <5>3, <6>2 DEF TypeOK
        <5> QED
          BY <5>2, <5>3
      <4>2. CASE c.version # version
        BY <2>0, <2>21, <4>2, SameRows DEF ResolveGrants
      <4> QED
        BY <4>1, <4>2
    <3> QED
      BY <3>4, <3>5
  <2>22. CASE UNCHANGED vars
    BY <2>0, <2>22, SameRows, SameReaders DEF vars, rows
  <2> QED
    BY <2>1, <2>2, <2>3, <2>4, <2>5, <2>6, <2>7, <2>8, <2>9, <2>11, <2>12, <2>13, <2>14,
       <2>15, <2>16, <2>17, <2>18, <2>19, <2>20, <2>21, <2>22 DEF Next
<1>3. IInv => ServedIsGranted
  BY DEF IInv, ServedIsGranted, Outdated, Eligible, EntriesAreCurrent
<1> QED
  BY <1>1, <1>2, <1>3, TypeCorrect, PTL DEF Spec, IInv

-----------------------------------------------------------------------------
(* The replacement of a role's permissions.                                *)

\* As long as no other request has granted to the role since, a replacement has
\* selected all that the role is granted.
SelectedUnlessRaced ==
    \A a \in Admins : (Asks(a, "replace") /\ ~request[a].raced) =>
        grants[request[a].role] \subseteq request[a].selected

\* What ReplacedExactly says of one step.
EndsExactly ==
    \A a \in Admins :
        (Asks(a, "replace") /\ request'[a] = None /\ version' # version) =>
            request[a].raced \/ grants'[request[a].role] = request[a].want

\* Requests that stay, end, or are not replacements lose no selected grant where
\* nothing is granted.
LEMMA NothingGranted ==
    ASSUME TypeOK, SelectedUnlessRaced,
           \A r \in Roles : grants'[r] \subseteq grants[r],
           \A a \in Admins : \/ request'[a] = request[a]
                             \/ request'[a] = None
                             \/ request'[a].op # "replace"
                             \/ grants'[request'[a].role] \subseteq request'[a].selected
    PROVE  SelectedUnlessRaced'
<1> SUFFICES ASSUME NEW a \in Admins, request'[a] # None, request'[a].op = "replace",
                    ~request'[a].raced
             PROVE  grants'[request'[a].role] \subseteq request'[a].selected
  BY DEF SelectedUnlessRaced, Asks
<1>1. CASE request'[a] = request[a]
  <2>1. request[a].role \in Roles
    BY <1>1, RequestFields DEF Asks, TypeOK
  <2>2. grants[request[a].role] \subseteq request[a].selected
    BY <1>1 DEF SelectedUnlessRaced, Asks
  <2> QED
    BY <1>1, <2>1, <2>2
<1> QED
  BY <1>1

\* A grant to the role r marks every replacement of r that has selected already.
LEMMA GrantMarks ==
    ASSUME TypeOK, SelectedUnlessRaced, NEW r \in Roles,
           \A q \in Roles \ {r} : grants'[q] = grants[q],
           \A a \in Admins : request'[a] = Raced(r)[a] \/ request'[a] = None
    PROVE  SelectedUnlessRaced'
<1> SUFFICES ASSUME NEW a \in Admins, request'[a] # None, request'[a].op = "replace",
                    ~request'[a].raced
             PROVE  grants'[request'[a].role] \subseteq request'[a].selected
  BY DEF SelectedUnlessRaced, Asks
<1>1. request'[a] = IF Asks(a, "replace") /\ request[a].role = r
                    THEN [request[a] EXCEPT !.raced = TRUE] ELSE request[a]
  BY DEF Raced
<1>2. CASE Asks(a, "replace") /\ request[a].role = r
  <2>1. request[a] \in [op : {"replace"}, role : Roles, want : SUBSET Permissions,
                        selected : SUBSET Permissions, raced : BOOLEAN]
    BY <1>2 DEF TypeOK, Request, Asks
  <2>2. request'[a].raced = TRUE
    BY <1>1, <1>2, <2>1
  <2> QED
    BY <2>2
<1>3. CASE ~(Asks(a, "replace") /\ request[a].role = r)
  <2>1. request'[a] = request[a] /\ Asks(a, "replace") /\ request[a].role # r
    BY <1>1, <1>3 DEF Asks
  <2>2. request[a].role \in Roles
    BY <2>1, RequestFields DEF TypeOK
  <2>3. grants[request[a].role] \subseteq request[a].selected
    BY <2>1 DEF SelectedUnlessRaced
  <2> QED
    BY <2>1, <2>2, <2>3
<1> QED
  BY <1>2, <1>3

\* A marked request is still a request.
LEMMA MarkedIsThere ==
    ASSUME TypeOK, NEW r \in Roles, NEW a \in Admins, request[a] # None
    PROVE  Raced(r)[a] # None
<1>1. Raced(r)[a] \in Request \cup {None}
  BY RacedType DEF TypeOK
<1>2. CASE Asks(a, "replace") /\ request[a].role = r
  <2>1. request[a] \in [op : {"replace"}, role : Roles, want : SUBSET Permissions,
                        selected : SUBSET Permissions, raced : BOOLEAN]
    BY <1>2 DEF TypeOK, Request, Asks
  <2>2. Raced(r)[a] \in Request
    BY <1>2, <2>1 DEF Raced, Request
  <2> QED
    BY <2>2, NoneIsNoRequest
<1> QED
  BY <1>2 DEF Raced

\* The step in which a replacement ends.
LEMMA ReplaceEnds ==
    ASSUME TypeOK, SelectedUnlessRaced, NEW a \in Admins, ReplaceInsert(a)
    PROVE  SelectedUnlessRaced' /\ EndsExactly
<1> DEFINE r == request[a].role
           want == request[a].want
           left == grants[r] \ request[a].selected
<1>1. Asks(a, "replace") /\ r \in Roles
  BY RequestFields DEF ReplaceInsert, TypeOK
<1>2. CASE want \cap left # {} \/ ~Grantable(r, want)
  <2>1. UNCHANGED <<grants, version>> /\ request' = [request EXCEPT ![a] = None]
    BY <1>2 DEF ReplaceInsert
  <2>2. \A b \in Admins : request'[b] = request[b] \/ request'[b] = None
    BY <2>1 DEF TypeOK
  <2> QED
    BY <2>1, <2>2, NothingGranted DEF EndsExactly
<1>3. CASE ~(want \cap left # {} \/ ~Grantable(r, want))
  <2>1. /\ grants' = [grants EXCEPT ![r] = left \cup want]
        /\ request' = [Raced(r) EXCEPT ![a] = None]
    BY <1>3 DEF ReplaceInsert
  <2>2. DOMAIN Raced(r) = Admins /\ Raced(r) = [b \in Admins |-> Raced(r)[b]]
    BY DEF Raced
  <2> HIDE DEF r, want, left
  <2>3. \A b \in Admins : request'[b] = IF b = a THEN None ELSE Raced(r)[b]
    BY <2>1, <2>2
  <2>4. \A q \in Roles : grants'[q] = IF q = r THEN left \cup want ELSE grants[q]
    BY <2>1 DEF TypeOK
  <2>5. SelectedUnlessRaced'
    BY <1>1, <2>3, <2>4, GrantMarks
  <2>6. ASSUME NEW b \in Admins, Asks(b, "replace"), request'[b] = None
        PROVE  request[b].raced \/ grants'[request[b].role] = request[b].want
    <3>1. b = a
      BY <1>1, <2>3, <2>6, MarkedIsThere DEF Asks
    <3>2. ~request[a].raced => left = {}
      BY <1>1 DEF SelectedUnlessRaced, left, r
    <3>3. ~request[a].raced => grants'[r] = want
      BY <1>1, <2>4, <3>2
    <3> QED
      BY <3>1, <3>3 DEF r, want
  <2> QED
    BY <2>5, <2>6 DEF EndsExactly
<1> QED
  BY <1>2, <1>3

\* Every other step grants nothing, marks whom it grants past, or begins.
LEMMA ReplaceStep ==
    ASSUME TypeOK, SelectedUnlessRaced, [Next]_vars
    PROVE  SelectedUnlessRaced' /\ EndsExactly
<1> DEFINE Kept == SelectedUnlessRaced' /\ EndsExactly
<1>1. ASSUME UNCHANGED request, \A r \in Roles : grants'[r] \subseteq grants[r] PROVE Kept
  <2>1. SelectedUnlessRaced'
    BY <1>1, NothingGranted
  <2> QED
    BY <1>1, <2>1 DEF EndsExactly, Asks
<1>2. ASSUME UNCHANGED <<request, grants>> PROVE Kept
  BY <1>1, <1>2
<1>3. ASSUME NEW a \in Admins, NEW asked, Ask(a, asked),
             asked.op # "replace" \/ grants[asked.role] \subseteq asked.selected
      PROVE  Kept
  <2>1. /\ request' = [request EXCEPT ![a] = asked] /\ grants' = grants /\ version' = version
    BY <1>3 DEF Ask, rows
  <2>2. \A b \in Admins : request'[b] = request[b] \/ request'[b] = asked
    BY <2>1 DEF TypeOK
  <2>3. SelectedUnlessRaced'
    BY <1>3, <2>1, <2>2, NothingGranted
  <2> QED
    BY <2>1, <2>3 DEF EndsExactly
<1>4. ASSUME NEW a \in Admins, request' = [request EXCEPT ![a] = None], ~Asks(a, "replace"),
             \A r \in Roles : grants'[r] \subseteq grants[r]
      PROVE  Kept
  <2>1. \A b \in Admins : request'[b] = IF b = a THEN None ELSE request[b]
    BY <1>4 DEF TypeOK
  <2>2. SelectedUnlessRaced'
    BY <1>4, <2>1, NothingGranted
  <2> QED
    BY <1>4, <2>1, <2>2 DEF EndsExactly, Asks
<1>5. ASSUME NEW m \in Members, NEW r \in Roles, Assign(m, r) \/ SsoRole(m, r) PROVE Kept
  BY <1>2, <1>5 DEF Assign, SsoRole
<1>6. ASSUME NEW m \in Members, Revoke(m) \/ Evict(m) PROVE Kept
  BY <1>2, <1>6 DEF Revoke, Evict, rows
<1>7. ASSUME NEW m \in Members, NEW active \in BOOLEAN, SetActive(m, active) PROVE Kept
  BY <1>2, <1>7 DEF SetActive
<1>8. ASSUME NEW r \in Roles, NEW p \in Presence, SetRole(r, p) PROVE Kept
  BY <1>2, <1>8 DEF SetRole
<1>9. ASSUME NEW P \in SUBSET Permissions, GrantSystem(P) PROVE Kept
  <2>1. SystemRole \in Roles
    BY DEF Roles
  <2>2. /\ grants' = [grants EXCEPT ![SystemRole] = grants[SystemRole] \cup P]
        /\ request' = Raced(SystemRole)
    BY <1>9 DEF GrantSystem
  <2>3. SelectedUnlessRaced'
    BY <2>1, <2>2, GrantMarks DEF TypeOK
  <2>4. \A a \in Admins : request[a] # None => request'[a] # None
    BY <2>1, <2>2, MarkedIsThere
  <2> QED
    BY <2>3, <2>4 DEF EndsExactly, Asks
<1>10. ASSUME NEW P \in SUBSET Permissions, RevokeSystem(P) PROVE Kept
  <2>1. UNCHANGED request /\ grants' = [grants EXCEPT ![SystemRole] = grants[SystemRole] \ P]
    BY <1>10 DEF RevokeSystem
  <2>2. \A r \in Roles : grants'[r] \subseteq grants[r]
    BY <2>1 DEF TypeOK
  <2> QED
    BY <1>1, <2>1, <2>2
<1>11. ASSUME NEW p \in Permissions, CreatePermission(p) PROVE Kept
  BY <1>2, <1>11 DEF CreatePermission
<1>12. ASSUME NEW a \in Admins, NEW r \in TenantRoles, RemoveCheck(a, r) PROVE Kept
  BY <1>3, <1>12 DEF RemoveCheck
<1>13. ASSUME NEW a \in Admins, RemoveDelete(a) PROVE Kept
  <2>1. /\ request' = [request EXCEPT ![a] = None] /\ ~Asks(a, "replace")
        /\ grants' = [grants EXCEPT ![request[a].role] = {}]
    BY <1>13 DEF RemoveDelete, Asks
  <2>2. \A r \in Roles : grants'[r] \subseteq grants[r]
    BY <2>1 DEF TypeOK
  <2> QED
    BY <1>4, <2>1, <2>2
<1>14. ASSUME NEW a \in Admins, NEW r \in Roles, NEW want \in SUBSET Permissions,
              ReplaceDelete(a, r, want)
       PROVE  Kept
  BY <1>3, <1>14 DEF ReplaceDelete
<1>15. ASSUME NEW a \in Admins, ReplaceInsert(a) PROVE Kept
  BY <1>15, ReplaceEnds
<1>16. ASSUME NEW a \in Admins, NEW p \in Permissions, NEW to \in Presence,
              PermissionRead(a, p, to)
       PROVE  Kept
  BY <1>3, <1>16 DEF PermissionRead
<1>17. ASSUME NEW a \in Admins, PermissionAffected(a) PROVE Kept
  <2>1. PICK x \in {"yes", "no"} : request' = [request EXCEPT ![a].affected = x]
    BY <1>17 DEF PermissionAffected
  <2>2. Asks(a, "permission") /\ grants' = grants /\ version' = version
    BY <1>17 DEF PermissionAffected, rows
  <2>3. request[a] \in [op : {"permission"}, permission : Permissions, to : Presence,
                        holders : SUBSET Roles, affected : {"unread", "yes", "no"}]
    BY <2>2 DEF TypeOK, Request, Asks
  <2>4. request'[a].op = "permission" /\ \A b \in Admins \ {a} : request'[b] = request[b]
    BY <2>1, <2>3 DEF TypeOK
  <2>5. SelectedUnlessRaced'
    BY <2>2, <2>4, NothingGranted
  <2> QED
    BY <2>2, <2>5 DEF EndsExactly
<1>18. ASSUME NEW a \in Admins, PermissionCommit(a) PROVE Kept
  <2>1. request' = [request EXCEPT ![a] = None] /\ ~Asks(a, "replace")
    BY <1>18 DEF PermissionCommit, Asks
  <2>2. \A r \in Roles : grants'[r] \subseteq grants[r]
    BY <1>18 DEF PermissionCommit
  <2> QED
    BY <1>4, <2>1, <2>2
<1>19. ASSUME NEW a \in Admins, Fail(a) PROVE Kept
  <2>1. request' = [request EXCEPT ![a] = None] /\ grants' = grants /\ version' = version
    BY <1>19 DEF Fail, rows
  <2>2. \A b \in Admins : request'[b] = request[b] \/ request'[b] = None
    BY <2>1 DEF TypeOK
  <2>3. SelectedUnlessRaced'
    BY <2>1, <2>2, NothingGranted
  <2> QED
    BY <2>1, <2>3 DEF EndsExactly
<1>20. ASSUME NEW d \in Readers,
              \/ \E m \in Members : ResolveMembership(d, m)
              \/ ResolveOrganization(d)
              \/ ResolveGrants(d)
       PROVE  Kept
  BY <1>2, <1>20 DEF ResolveMembership, ResolveOrganization, ResolveGrants, rows
<1>21. CASE UNCHANGED vars
  BY <1>2, <1>21 DEF vars
<1> QED
  BY <1>5, <1>6, <1>7, <1>8, <1>9, <1>10, <1>11, <1>12, <1>13, <1>14, <1>15, <1>16, <1>17,
     <1>18, <1>19, <1>20, <1>21 DEF Next

\* A replacement leaves exactly what it was asked for, unless it was raced by a
\* grant to the same role: for any number of requests under way.
THEOREM ReplacesExactly == Spec => ReplacedExactly
<1>1. Init => SelectedUnlessRaced
  BY DEF Init, SelectedUnlessRaced, Asks
<1>2. TypeOK /\ SelectedUnlessRaced /\ [Next]_vars => SelectedUnlessRaced' /\ EndsExactly
  BY ReplaceStep
<1>3. EndsExactly => [\A a \in Admins :
         (Asks(a, "replace") /\ request'[a] = None /\ version' # version) =>
            request[a].raced \/ grants'[request[a].role] = request[a].want]_vars
  BY DEF EndsExactly
<1> QED
  BY <1>1, <1>2, <1>3, TypeCorrect, PTL DEF Spec, ReplacedExactly

=============================================================================
