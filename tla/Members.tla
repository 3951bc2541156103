-------------------------------- MODULE Members --------------------------------
(***************************************************************************)
(* The members of one organization (organizationmember), behind the          *)
(* authentication of Sessions and the role check of authorization.           *)
(***************************************************************************)
EXTENDS Sessions

CONSTANT Creator  \* the user who created the organization

ASSUME MemberAssumption == Creator \in Users

VARIABLES
  role,   \* organization_members
  stale   \* history: an owner was demoted or removed as what they were before

vars == <<session, spent, call, role, stale>>

Owners == {u \in Users : role[u] = "owner"}

\* The types of sessions, requests and members.
TypeOK ==
  /\ SessionTypeOK
  /\ role \in [Users -> Roles \cup {"none"}]
  /\ stale \in BOOLEAN

\* organization.Create inserts the organization with its first owner.
Init ==
  /\ SessionInit
  /\ role = [u \in Users |-> IF u = Creator THEN "owner" ELSE "none"]
  /\ stale = FALSE

Ask(c) ==
  \E u \in Users, m \in Users :
    \/ Authenticate(c, [Idle EXCEPT !.op = "delete", !.u = u, !.m = m])
    \/ \E op \in {"create", "update"}, r \in Roles :
         Authenticate(c, [Idle EXCEPT !.op = op, !.u = u, !.m = m, !.role = r])

\* requireOrganizationRoles.
Authorize(c) ==
  /\ At(c, "act") /\ call[c].op \in {"create", "update", "delete"}
  /\ IF role[call[c].u] \in {"admin", "owner"}
       THEN call' = [call EXCEPT ![c].u = AnyUser,
                                 ![c].at = IF call[c].op = "create" THEN "write" ELSE "get"]
       ELSE End(c)
  /\ UNCHANGED <<sessionVars, role, stale>>

\* GetByID, before the transaction.
GetByID(c) ==
  /\ At(c, "get")
  /\ IF role[call[c].m] = "none" THEN End(c)
     ELSE call' = [call EXCEPT ![c].at = "write", ![c].current = role[call[c].m]]
  /\ UNCHANGED <<sessionVars, role, stale>>

\* There is one row of each member (a unique index). A request knows a member by the
\* id of his row: those about a row that was deleted end before he has another.
Create(c) ==
  /\ At(c, "write") /\ call[c].op = "create"
  /\ \A d \in Calls : call[d].op \in {"update", "delete"} => call[d].m # call[c].m
  /\ role' = IF role[call[c].m] = "none" THEN [role EXCEPT ![call[c].m] = call[c].role] ELSE role
  /\ End(c)
  /\ UNCHANGED <<sessionVars, stale>>

\* A mutated guard that lets the last owner go.
GuardOffByOne(c) == call[c].current = "owner" => Cardinality(Owners) > 0

\* LockOrganizationOwnerRows holds the owners until the transaction ends, which makes
\* it one step; the role that decides whether to lock was read before it.
Guard(c) == call[c].current = "owner" => Cardinality(Owners) > 1

Write(c, r) ==
  LET m == call[c].m IN
  /\ IF Guard(c) /\ role[m] # "none"
       THEN /\ role' = [role EXCEPT ![m] = r]
            /\ stale' = (stale \/ (role[m] = "owner" /\ r # "owner" /\ call[c].current # "owner"))
       ELSE UNCHANGED <<role, stale>>
  /\ End(c)
  /\ UNCHANGED sessionVars

\* A member who stays, or becomes, an owner is not looked at.
UpdateRoleWithOwnerGuard(c) ==
  /\ At(c, "write") /\ call[c].op = "update"
  /\ \/ call[c].role # "owner" /\ Write(c, call[c].role)
     \/ /\ call[c].role = "owner"
        /\ role' = IF role[call[c].m] = "none" THEN role ELSE [role EXCEPT ![call[c].m] = "owner"]
        /\ End(c)
        /\ UNCHANGED <<sessionVars, stale>>

\* A mutated deletion that keeps the row.
DeleteWithOwnerGuardSoft(c) ==
  /\ At(c, "write") /\ call[c].op = "delete"
  /\ Write(c, "deleted")

DeleteWithOwnerGuard(c) ==
  /\ At(c, "write") /\ call[c].op = "delete"
  /\ Write(c, "none")

MemberNext ==
  \E c \in Calls :
    \/ Ask(c) /\ UNCHANGED <<role, stale>>
    \/ Authorize(c) \/ GetByID(c) \/ Create(c)
    \/ UpdateRoleWithOwnerGuard(c) \/ DeleteWithOwnerGuard(c)

Next == (SessionNext /\ UNCHANGED <<role, stale>>) \/ MemberNext

Spec == Init /\ [][Next]_vars
-----------------------------------------------------------------------------
\* An organization keeps an owner, whoever demotes or removes whom at once, unless an
\* owner was one only since the request read the role.
OwnerStays == ~stale => Owners # {}

\* organizationmember/repository.go:110 and 150: the owner rows are locked "so a
\* concurrent demotion/removal can't race past the last-owner check".
NeverOwnerless == Owners # {}
=============================================================================
