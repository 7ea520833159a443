------------------------------ MODULE Profile ------------------------------
(***************************************************************************)
(* The profile of a driver, edited on several devices                      *)
(* (users/user-profile.service.ts).  An edit reads the user, merges its    *)
(* fields into what it read (the parts of the name, and the groups of      *)
(* settings), and writes the result if the version is still the one its    *)
(* caller gave.  An administrator blocks the user meanwhile.               *)
(***************************************************************************)
EXTENDS Integers

CONSTANTS
  Fields,       \* parts of the name, and settings of a group
  Values,       \* values of a field
  Requests,     \* places for one request in flight each
  MaxVersion    \* bound on the version of the user

VARIABLES
  user,         \* the row of the user
  request       \* the request in each place

vars == <<user, request>>

-----------------------------------------------------------------------------
(* Data *)

NoRow == [version |-> 0]

\* version: the one the caller gave.  read: the row as it was read.
NoRequest == [op |-> "idle", version |-> 0, field |-> "none", value |-> "none", read |-> NoRow]

Op(r) == request[r].op
Done(r) == request' = [request EXCEPT ![r] = NoRequest]

\* mergeSettings, and the names that splitName gave for those left out.
Merged(r) == [request[r].read.fields EXCEPT ![request[r].field] = request[r].value]

Guard(r) == user.version = request[r].version

-----------------------------------------------------------------------------

\* A device sends an edit of the profile it has shown, the latest one or an older one.
Send(r, field, value) ==
  /\ Op(r) = "idle" /\ user.version < MaxVersion
  /\ \E seen \in 1 .. user.version :
       request' = [request EXCEPT ![r] = [NoRequest EXCEPT !.op = "update", !.version = seen,
                                            !.field = field, !.value = value]]
  /\ UNCHANGED user

SendDeletion(r) ==
  /\ Op(r) = "idle" /\ user.version < MaxVersion
  /\ \E seen \in 1 .. user.version :
       request' = [request EXCEPT ![r] = [NoRequest EXCEPT !.op = "delete", !.version = seen]]
  /\ UNCHANGED user

\* requireUser.  A deletion that was asked for already is answered.
Read(r) ==
  /\ Op(r) \in {"update", "delete"}
  /\ IF Op(r) = "delete" /\ user.deletionRequested
       THEN Done(r)
       ELSE request' = [request EXCEPT ![r].op = IF @ = "update" THEN "write" ELSE "request",
                                       ![r].read = user]
  /\ UNCHANGED user

\* Faulty variant: the version is looked at when the row is read, not when it is written.
UpdateIfWasCurrent(r) ==
  /\ Op(r) = "write"
  /\ request[r].read.version = request[r].version
  /\ user' = [user EXCEPT !.fields = Merged(r), !.version = @ + 1]
  /\ Done(r)

UpdateProfile(r) ==
  /\ Op(r) = "write" /\ Guard(r)
  /\ user' = [user EXCEPT !.fields = Merged(r), !.version = @ + 1]
  /\ Done(r)

RequestAccountDeletion(r) ==
  /\ Op(r) = "request" /\ Guard(r)
  /\ user' = [user EXCEPT !.deletionRequested = TRUE, !.version = @ + 1]
  /\ Done(r)

\* The version is another, or the e-mail is taken.
Conflict(r) ==
  /\ Op(r) \in {"write", "request"}
  /\ Done(r)
  /\ UNCHANGED user

\* setDriverBlocked, by an administrator: nothing is asked of the version.
SetDriverBlocked ==
  /\ user.version < MaxVersion
  /\ user' = [user EXCEPT !.blocked = ~@, !.version = @ + 1]
  /\ UNCHANGED request

-----------------------------------------------------------------------------

Init ==
  /\ \E v \in Values :
       user = [version |-> 1, fields |-> [f \in Fields |-> v], deletionRequested |-> FALSE, blocked |-> FALSE]
  /\ request = [r \in Requests |-> NoRequest]

Next ==
  \/ SetDriverBlocked
  \/ \E r \in Requests :
       \/ \E f \in Fields, v \in Values : Send(r, f, v)
       \/ SendDeletion(r) \/ Read(r)
       \/ UpdateProfile(r) \/ RequestAccountDeletion(r) \/ Conflict(r)

Spec == Init /\ [][Next]_vars

-----------------------------------------------------------------------------
(* Properties *)

User == [version : Nat, fields : [Fields -> Values], deletionRequested : BOOLEAN, blocked : BOOLEAN]
Request ==
  [op : {"idle", "update", "delete", "write", "request"}, version : Nat,
   field : Fields \cup {"none"}, value : Values \cup {"none"}, read : User \cup {NoRow}]

\* Every variable has its type.
TypeOK ==
  /\ user \in User
  /\ request \in [Requests -> Request]

\* What a step may do to the profile.
KeepsEdits ==
  /\ user.deletionRequested => user'.deletionRequested
  /\ \A f \in Fields : user'.fields[f] # user.fields[f] =>
       \E r \in Requests :
         /\ request[r].field = f /\ request[r].value = user'.fields[f]
         /\ request[r].version = user.version

\* A field changes only to the value of an edit of that field, made by a device that was shown the
\* latest profile: what another device or an administrator changed after the row was read is never
\* overwritten by the merge, and a request for deletion is never taken back (updateProfile).
NoEditIsLost == [][KeepsEdits]_vars
=============================================================================
