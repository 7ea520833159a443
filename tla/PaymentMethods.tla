--------------------------- MODULE PaymentMethods ---------------------------
(***************************************************************************)
(* The payment methods of a driver and the one of them that is the default *)
(* (payments/methods/payment-method.service.ts).  create and setDefault    *)
(* are SERIALIZABLE; remove is READ COMMITTED and writes whatever rows it  *)
(* has read.  A unique index allows one default among the ACTIVE methods.  *)
(***************************************************************************)
EXTENDS Integers, FiniteSets, FiniteSetsExt

CONSTANTS
  MaxMethods,   \* bound on methods created
  Requests      \* places for one request in flight each

VARIABLES
  method,       \* payment_methods, by order of creation
  request,      \* the request in each place
  raced         \* whether a request has written on what had changed since it read

vars == <<method, request, raced>>

-----------------------------------------------------------------------------
(* Data *)

Methods == 1 .. MaxMethods
None == 0
NoMethod == [status |-> "none", default |-> FALSE]

\* was: the default flag that was read.  seen: the ACTIVE methods a creation counted.
NoRequest == [op |-> "idle", id |-> None, was |-> FALSE, expired |-> FALSE, seen |-> {}, next |-> None]

Op(r) == request[r].op
Active == {m \in Methods : method[m].status = "ACTIVE"}
Usable == Active \cup {m \in Methods : method[m].status = "EXPIRED"}
Defaults == {m \in Active : method[m].default}
Unused == {m \in Methods : method[m] = NoMethod}

\* Rows a removal holds until it commits.
Held == {request[r].id : r \in {q \in Requests : Op(q) = "promote"}}

Done(r) == request' = [request EXCEPT ![r] = NoRequest]

Cleared == [m \in Methods |-> [method[m] EXCEPT !.default = FALSE]]

-----------------------------------------------------------------------------
(* create *)

BeginCreate(r, expired, isDefault) ==
  /\ Op(r) = "idle"
  /\ request' = [request EXCEPT ![r] = [NoRequest EXCEPT
                   !.op = "create", !.expired = expired, !.seen = Active,
                   !.was = ~expired /\ (isDefault \/ Active = {})]]
  /\ UNCHANGED <<method, raced>>

\* Of two creations that counted the same one is rolled back; a removal goes unnoticed.
Create(r) ==
  LET m == Min(Unused) IN
  /\ Op(r) = "create" /\ Unused # {}
  /\ Active \subseteq request[r].seen
  /\ request[r].was => Defaults \cap Held = {}
  /\ method' = [(IF request[r].was THEN Cleared ELSE method) EXCEPT
                  ![m] = [status |-> IF request[r].expired THEN "EXPIRED" ELSE "ACTIVE",
                          default |-> request[r].was]]
  /\ raced' = (raced \/ Active # request[r].seen)
  /\ Done(r)

-----------------------------------------------------------------------------
(* setDefault *)

\* Serializable: the rows it writes are as it read them, or it is rolled back.
SetDefault(m) ==
  /\ m \in Active
  /\ (Defaults \cup {m}) \cap Held = {}
  /\ method' = [Cleared EXCEPT ![m].default = TRUE]
  /\ UNCHANGED <<request, raced>>

-----------------------------------------------------------------------------
(* remove *)

ReadOwned(r, m) ==
  /\ Op(r) = "idle" /\ m \in Usable
  /\ request' = [request EXCEPT ![r] = [NoRequest EXCEPT !.op = "remove", !.id = m,
                                                         !.was = method[m].default]]
  /\ UNCHANGED <<method, raced>>

\* The row is written, and held; the replacement of a default is the newest active method.
WriteRemoved(r) ==
  LET m == request[r].id others == Active \ {m} IN
  /\ Op(r) = "remove" /\ m \notin Held
  /\ request' = [request EXCEPT ![r].op = "promote",
                   ![r].next = IF request[r].was /\ others # {} THEN Max(others) ELSE None]
  /\ raced' = (raced \/ method[m].default # request[r].was)
  /\ UNCHANGED method

\* Faulty variant: no method takes the place of the default.
RemoveOnly(r) ==
  /\ Op(r) = "promote"
  /\ method' = [method EXCEPT ![request[r].id] = [status |-> "REMOVED", default |-> FALSE]]
  /\ Done(r)
  /\ UNCHANGED raced

\* The replacement is promoted whatever has become of it, unless the index forbids it.
Remove(r) ==
  LET m == request[r].id n == request[r].next
      removed == [method EXCEPT ![m] = [status |-> "REMOVED", default |-> FALSE]] IN
  /\ Op(r) = "promote" /\ n \notin Held
  /\ n \in Active => Defaults \subseteq {m, n}
  /\ method' = IF n = None THEN removed ELSE [removed EXCEPT ![n].default = TRUE]
  /\ raced' = (raced \/ (request[r].was /\ n \notin Active /\ ({n} \cup Active) # {None, m}))
  /\ Done(r)

\* A transaction is rolled back.
Refuse(r) ==
  /\ Op(r) # "idle"
  /\ Done(r)
  /\ UNCHANGED <<method, raced>>

-----------------------------------------------------------------------------

Init ==
  /\ method = [m \in Methods |-> NoMethod]
  /\ request = [r \in Requests |-> NoRequest]
  /\ raced = FALSE

Next ==
  \/ \E m \in Methods : SetDefault(m)
  \/ \E r \in Requests :
       \/ \E expired, isDefault \in BOOLEAN : BeginCreate(r, expired, isDefault)
       \/ \E m \in Methods : ReadOwned(r, m)
       \/ Create(r) \/ WriteRemoved(r) \/ Remove(r) \/ Refuse(r)

Spec == Init /\ [][Next]_vars

-----------------------------------------------------------------------------
(* Properties *)

\* Every variable has its type.
TypeOK ==
  /\ method \in [Methods -> [status : {"none", "ACTIVE", "EXPIRED", "REMOVED"}, default : BOOLEAN]]
  /\ raced \in BOOLEAN

\* A driver never has two default methods and an expired or removed one is never it; and a driver
\* with an active method has a default, unless a removal or a creation wrote on what another
\* request had changed since it read (create, setDefault, remove).
DefaultIsActive ==
  /\ Cardinality(Defaults) <= 1
  /\ \A m \in Methods : method[m].default /\ ~raced => m \in Active
  /\ Active # {} /\ ~raced => Defaults # {}
=============================================================================
