------------------------------- MODULE Garage -------------------------------
(***************************************************************************)
(* The vehicles of a driver (vehicles/vehicles.service.ts) and the one of  *)
(* them that is the default.  Every request reads first, and writes in a   *)
(* transaction whose guard is the version its caller gave; a caller that   *)
(* gives an old version is refused and left out here.                      *)
(*                                                                         *)
(* Data left out: the fields of a vehicle.  Plates are checked before the  *)
(* transaction and again by a unique index.                                *)
(***************************************************************************)
EXTENDS Integers, FiniteSets, FiniteSetsExt

CONSTANTS
  MaxVehicles,  \* bound on vehicles created
  Requests,     \* places for one request in flight each
  MaxVersion    \* bound on the version of a vehicle

VARIABLES
  vehicle,      \* vehicles, by order of creation
  request       \* the request in each place

vars == <<vehicle, request>>

-----------------------------------------------------------------------------
(* Data *)

Vehicles == 1 .. MaxVehicles
None == 0
NoVehicle == [live |-> FALSE, active |-> FALSE, default |-> FALSE, version |-> 0]

\* version: of the row that was read, as the caller gave it.  seen: vehicles a creation
\* counted.  next: the replacement of a default that is removed.
NoRequest == [op |-> "idle", id |-> None, version |-> 0, default |-> FALSE, active |-> FALSE,
              seen |-> {}, next |-> None]

Op(r) == request[r].op
Live == {v \in Vehicles : vehicle[v].live}
Defaults == {v \in Live : vehicle[v].default}
Unused == {v \in Vehicles : vehicle[v] = NoVehicle}

Done(r) == request' = [request EXCEPT ![r] = NoRequest]

Bump(v) == [vehicle[v] EXCEPT !.version = @ + 1]

\* The guard of every write: the version is the one the caller gave.
Unchanged(r) ==
  /\ request[r].id \in Live
  /\ vehicle[request[r].id].version = request[r].version

\* v becomes row, and the default there was is cleared if row is one.
WithDefault(v, row) ==
  [o \in Vehicles |->
     IF o = v THEN row
     ELSE IF row.default /\ o \in Defaults THEN [Bump(o) EXCEPT !.default = FALSE]
     ELSE vehicle[o]]

-----------------------------------------------------------------------------
(* create, duplicate *)

\* The vehicles are counted: the first is the default.
BeginCreate(r, default, active) ==
  /\ Op(r) = "idle"
  /\ request' = [request EXCEPT ![r] = [NoRequest EXCEPT
                   !.op = "create", !.seen = Live, !.default = default \/ Live = {}, !.active = active]]
  /\ UNCHANGED vehicle

\* duplicate: of a vehicle as the caller knows it an active one is made that is not to be the default.
BeginDuplicate(r, v) == v \in Live /\ BeginCreate(r, FALSE, TRUE)

\* SERIALIZABLE: of two creations that counted the same one is rolled back.  A removal is
\* READ COMMITTED, and the count does not notice it.
Create(r) ==
  /\ Op(r) = "create" /\ Unused # {}
  /\ Live \subseteq request[r].seen
  /\ vehicle' = WithDefault(Min(Unused), [live |-> TRUE, active |-> request[r].active,
                                          default |-> request[r].default, version |-> 1])
  /\ Done(r)

-----------------------------------------------------------------------------
(* update, setDefault, remove *)

\* requireVehicle.
Read(r, op, v) ==
  /\ Op(r) = "idle" /\ v \in Live
  /\ vehicle[v].version < MaxVersion
  /\ request' = [request EXCEPT ![r] = [NoRequest EXCEPT
                   !.op = op, !.id = v, !.version = vehicle[v].version, !.default = vehicle[v].default]]
  /\ UNCHANGED vehicle

\* update: a default is not unset, nor made of one the same input makes inactive.  One that
\* is inactive already may become the default, and a default inactive.
Update(r, isDefault, status) ==
  LET row == Bump(request[r].id) IN
  /\ Op(r) = "update" /\ Unchanged(r)
  /\ ~(request[r].default /\ isDefault = "no")
  /\ ~(isDefault = "yes" /\ status = "INACTIVE")
  /\ vehicle' = WithDefault(request[r].id,
                  [row EXCEPT !.default = IF isDefault = "keep" THEN @ ELSE isDefault = "yes",
                              !.active = IF status = "keep" THEN @ ELSE status = "ACTIVE"])
  /\ Done(r)

\* setDefault: one that is the default is answered as it is.
BeginSetDefault(r, v) == vehicle[v].active /\ ~vehicle[v].default /\ Read(r, "setDefault", v)

\* Faulty variant: the conflict does not roll the transaction back.
SetDefaultAnyway(r) ==
  /\ Op(r) = "setDefault"
  /\ vehicle' = [v \in Vehicles |->
                   IF v = request[r].id /\ Unchanged(r) THEN [Bump(v) EXCEPT !.default = TRUE]
                   ELSE IF v \in Defaults THEN [Bump(v) EXCEPT !.default = FALSE]
                   ELSE vehicle[v]]
  /\ Done(r)

SetDefault(r) ==
  /\ Op(r) = "setDefault" /\ Unchanged(r)
  /\ vehicle' = WithDefault(request[r].id, [Bump(request[r].id) EXCEPT !.default = TRUE])
  /\ Done(r)

\* remove: the replacement of a default is the oldest active vehicle.  The guard comes
\* before it and holds the row of the removed one until the commit.
FindReplacement(r) ==
  LET others == {v \in Live \ {request[r].id} : vehicle[v].active} IN
  /\ Op(r) = "remove" /\ Unchanged(r)
  /\ request' = [request EXCEPT ![r].op = "promote",
                   ![r].next = IF request[r].default /\ others # {} THEN Min(others) ELSE None]
  /\ UNCHANGED vehicle

\* The replacement is promoted whatever has become of it.
Remove(r) ==
  /\ Op(r) = "promote" /\ Unchanged(r)
  /\ vehicle' = [v \in Vehicles |->
                   IF v = request[r].id THEN [Bump(v) EXCEPT !.live = FALSE, !.default = FALSE]
                   ELSE IF v = request[r].next THEN [Bump(v) EXCEPT !.default = TRUE]
                   ELSE vehicle[v]]
  /\ Done(r)

\* A conflict, an input that is refused, or the loser of two transactions.
Refuse(r) ==
  /\ Op(r) # "idle"
  /\ Done(r)
  /\ UNCHANGED vehicle

-----------------------------------------------------------------------------

Init ==
  /\ vehicle = [v \in Vehicles |-> NoVehicle]
  /\ request = [r \in Requests |-> NoRequest]

Next ==
  \E r \in Requests :
    \/ \E default, active \in BOOLEAN : BeginCreate(r, default, active)
    \/ \E v \in Vehicles : BeginDuplicate(r, v)
    \/ \E v \in Vehicles : Read(r, "update", v) \/ BeginSetDefault(r, v) \/ Read(r, "remove", v)
    \/ \E d \in {"yes", "no", "keep"}, s \in {"ACTIVE", "INACTIVE", "keep"} : Update(r, d, s)
    \/ Create(r) \/ SetDefault(r) \/ FindReplacement(r) \/ Remove(r) \/ Refuse(r)

Spec == Init /\ [][Next]_vars

-----------------------------------------------------------------------------
(* Properties *)

\* Every variable has its type.
TypeOK ==
  /\ vehicle \in [Vehicles -> [live : BOOLEAN, active : BOOLEAN, default : BOOLEAN, version : Nat]]
  /\ \A r \in Requests : request[r].id \in Vehicles \cup {None}

\* What a step may do to the default.
KeepsDefault ==
  /\ Cardinality(Defaults') <= 1
  /\ Defaults # {} /\ Defaults' = {} =>
       \E r \in Requests :
         /\ Op(r) = "promote" /\ Defaults = {request[r].id}
         /\ request[r].next \notin Live

\* No two vehicles of a garage are the default, and a garage that has one loses it only to the
\* removal of that vehicle, and only if no other was active or the one chosen in its place was
\* removed before it was promoted (create, update, setDefault, remove).
DefaultIsKept == [][KeepsDefault]_vars
=============================================================================
