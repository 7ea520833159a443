----------------------------- MODULE Operators -----------------------------
(***************************************************************************)
(* The operators of a tenant and their roles                               *)
(* (admin/admin-operations.service.ts).  Of the roles only TENANT_ADMIN    *)
(* has the permissions users.*, so it alone is told apart.                 *)
(*                                                                         *)
(* A request passes the guard, and then runs a SERIALIZABLE transaction:   *)
(* it reads, and commits only if what it read is still so.                 *)
(***************************************************************************)
EXTENDS Integers, FiniteSets

CONSTANTS
  Members,      \* operators, by e-mail
  Requests      \* places for one request in flight each

VARIABLES
  member,       \* operator_memberships with operator_role_assignments
  request       \* the request in each place

vars == <<member, request>>

-----------------------------------------------------------------------------
(* Data *)

NoMember == [status |-> "none", admin |-> FALSE]
MembershipStatus == {"none", "INVITED", "ACTIVE", "DISABLED"}

\* seen: the memberships the transaction read.  admin: whether the roles given have TENANT_ADMIN.
NoRequest == [op |-> "idle", by |-> "nobody", target |-> "nobody", admin |-> FALSE, seen |-> NoMember]

Admins == {m \in Members : member[m].status = "ACTIVE" /\ member[m].admin}

OtherTenantAdmins(seen, m) ==
  {o \in Members \ {m} : seen[o].status = "ACTIVE" /\ seen[o].admin}

Goto(r, op) == request' = [request EXCEPT ![r].op = op]

-----------------------------------------------------------------------------
(* The guard *)

\* AdminPermissionGuard: an ACTIVE membership with users.* is needed when a request arrives.
\* What the request asks for is checked by its transaction.
Arrive(r, asked) ==
  /\ request[r].op = "idle"
  /\ Admins # {}
  /\ request' = [request EXCEPT ![r] = asked]
  /\ UNCHANGED member

Invitation(m, a)   == [NoRequest EXCEPT !.op = "invite", !.target = m, !.admin = a]
Assignment(m, a)   == [NoRequest EXCEPT !.op = "assign", !.target = m, !.admin = a]
Disabling(by, m)   == [NoRequest EXCEPT !.op = "disable", !.target = m, !.by = by]

-----------------------------------------------------------------------------
(* Operations *)

\* inviteOperator: an operator whose user exists is ACTIVE at once.  The e-mail is unique.
InviteOperator(r) ==
  LET m == request[r].target IN
  /\ request[r].op = "invite"
  /\ \/ /\ member[m] = NoMember
        /\ \E s \in {"ACTIVE", "INVITED"} :
             member' = [member EXCEPT ![m] = [status |-> s, admin |-> request[r].admin]]
     \/ /\ member[m] # NoMember
        /\ UNCHANGED member
  /\ request' = [request EXCEPT ![r] = NoRequest]

\* The first statements of assignRoles and disableOperator.
Begin(r) ==
  /\ request[r].op \in {"assign", "disable"}
  /\ member[request[r].target] # NoMember
  /\ request' = [request EXCEPT ![r].op = IF @ = "assign" THEN "assigning" ELSE "disabling",
                                ![r].seen = member]
  /\ UNCHANGED member

\* The operator is not found, or the transaction is rolled back: the request ends with an error.
Refuse(r) ==
  /\ \/ request[r].op \in {"assigning", "disabling"}
     \/ request[r].op \in {"assign", "disable"} /\ member[request[r].target] = NoMember
  /\ request' = [request EXCEPT ![r] = NoRequest]
  /\ UNCHANGED member

\* What a transaction that takes a TENANT_ADMIN away has read; the others read one row.
TakesAdmin(r) ==
  LET seen == request[r].seen[request[r].target] IN
  /\ seen.admin
  /\ request[r].op = "disabling" \/ ~request[r].admin

\* Faulty variant: the transaction is READ COMMITTED.
TrustsRead(r) == member[request[r].target] # NoMember

ReadUnchanged(r) ==
  LET seen == request[r].seen m == request[r].target IN
  /\ member[m] = seen[m]
  /\ TakesAdmin(r) => OtherTenantAdmins(member, m) = OtherTenantAdmins(seen, m)

\* The tenant keeps an active administrator (the check both transactions make).
MayTake(r) == TakesAdmin(r) => OtherTenantAdmins(request[r].seen, request[r].target) # {}

AssignRoles(r) ==
  /\ request[r].op = "assigning"
  /\ MayTake(r) /\ ReadUnchanged(r)
  /\ member' = [member EXCEPT ![request[r].target].admin = request[r].admin]
  /\ request' = [request EXCEPT ![r] = NoRequest]

\* Nobody disables their own membership.
DisableOperator(r) ==
  /\ request[r].op = "disabling"
  /\ request[r].target # request[r].by
  /\ MayTake(r) /\ ReadUnchanged(r)
  /\ member' = [member EXCEPT ![request[r].target].status = "DISABLED"]
  /\ request' = [request EXCEPT ![r] = NoRequest]

-----------------------------------------------------------------------------

\* The seed creates a tenant with an active administrator.
Init ==
  /\ \E m \in Members :
       member = [o \in Members |-> IF o = m THEN [status |-> "ACTIVE", admin |-> TRUE] ELSE NoMember]
  /\ request = [r \in Requests |-> NoRequest]

Next ==
  \E r \in Requests :
    \/ \E m \in Members, a \in BOOLEAN : Arrive(r, Invitation(m, a)) \/ Arrive(r, Assignment(m, a))
    \/ \E by \in Admins, m \in Members : Arrive(r, Disabling(by, m))
    \/ InviteOperator(r) \/ Begin(r) \/ Refuse(r) \/ AssignRoles(r) \/ DisableOperator(r)

Spec == Init /\ [][Next]_vars

-----------------------------------------------------------------------------
(* Properties *)

Membership == [status : MembershipStatus, admin : BOOLEAN]
Request ==
  [op : {"idle", "invite", "assign", "disable", "assigning", "disabling"},
   by : Members \cup {"nobody"}, target : Members \cup {"nobody"}, admin : BOOLEAN,
   seen : [Members -> Membership] \cup {NoMember}]

\* Every variable has its type.
TypeOK ==
  /\ member \in [Members -> Membership]
  /\ request \in [Requests -> Request]

\* The tenant has an active administrator at all times, whatever requests take the role away or
\* disable memberships at one time, those of administrators who have lost it since the guard
\* included (assignRoles, disableOperator).
KeepsAnAdmin == Admins # {}
=============================================================================
