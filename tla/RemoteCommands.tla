--------------------------- MODULE RemoteCommands ---------------------------
(***************************************************************************)
(* Remote commands of the administration (createCommand in                 *)
(* admin/admin-operations.service.ts): a request stores a command under    *)
(* its idempotency key, sends it, and stores the outcome.  A request with  *)
(* a key that is taken is answered with the command there is.              *)
(*                                                                         *)
(* What ChargingService.start and stop do is in ChargingSettlement: here   *)
(* they take effect or not, and answer or throw.                           *)
(***************************************************************************)
EXTENDS Integers, FiniteSets

CONSTANTS
  Keys,         \* idempotency keys
  Commands,     \* what requests ask for (type, session and reason, hashed)
  Requests,     \* places for one request in flight each
  MaxFaults     \* bound on crashes and on transactions whose outcome is not known

VARIABLES
  command,      \* remote_commands, by key
  dispatched,   \* commands handed to the charging service, by key
  effective,    \* keys whose command took effect
  request,      \* the request in each place
  faults

vars == <<command, dispatched, effective, request, faults>>

-----------------------------------------------------------------------------
(* Data *)

NoCommand == [status |-> "none", hash |-> "none"]
CommandStatus == {"none", "QUEUED", "SENT", "ACCEPTED", "FAILED"}

\* reply: what the caller was answered last.
NoRequest == [op |-> "idle", key |-> "none", hash |-> "none", reply |-> NoCommand]

Op(r)  == request[r].op
Key(r) == request[r].key

Goto(r, op) == request' = [request EXCEPT ![r].op = op]
Reply(r, c) == request' = [request EXCEPT ![r].op = "idle", ![r].reply = c]
Throw(r)    == Reply(r, NoCommand)
SetStatus(r, s) == command' = [command EXCEPT ![Key(r)].status = s]

-----------------------------------------------------------------------------

\* The permission is checked and the session read: neither changes what follows.
CreateCommand(r, k, h) ==
  /\ Op(r) = "idle"
  /\ request' = [request EXCEPT ![r] = [NoRequest EXCEPT !.op = "find", !.key = k, !.hash = h]]
  /\ UNCHANGED <<command, dispatched, effective, faults>>

\* The answer to a key that is taken: its command, if the request asked for the same.
Replay(r) ==
  IF command[Key(r)].hash = request[r].hash THEN Reply(r, command[Key(r)]) ELSE Throw(r)

Find(r) ==
  /\ Op(r) = "find"
  /\ IF command[Key(r)] = NoCommand THEN Goto(r, "create") ELSE Replay(r)
  /\ UNCHANGED <<command, dispatched, effective, faults>>

\* Faulty variant: the unique index does not hold, and the later command replaces the other.
CreateAgain(r) ==
  /\ Op(r) = "create"
  /\ command' = [command EXCEPT ![Key(r)] = [status |-> "QUEUED", hash |-> request[r].hash]]
  /\ Goto(r, "send")
  /\ UNCHANGED <<dispatched, effective, faults>>

\* One transaction, with the audit and the outbox.  The key is unique: the second of two
\* that found none (P2002) reads the command of the first.
Create(r) ==
  /\ Op(r) = "create"
  /\ IF command[Key(r)] = NoCommand
       THEN /\ command' = [command EXCEPT ![Key(r)] = [status |-> "QUEUED", hash |-> request[r].hash]]
            /\ Goto(r, "send")
       ELSE Replay(r) /\ UNCHANGED command
  /\ UNCHANGED <<dispatched, effective, faults>>

Send(r) ==
  /\ Op(r) = "send"
  /\ SetStatus(r, "SENT")
  /\ Goto(r, "dispatch")
  /\ UNCHANGED <<dispatched, effective, faults>>

\* charging.start or charging.stop.  One that throws may have taken effect.
Dispatch(r) ==
  /\ Op(r) = "dispatch"
  /\ dispatched' = [dispatched EXCEPT ![Key(r)] = @ + 1]
  /\ \/ Goto(r, "accept") /\ effective' = effective \cup {Key(r)}
     \/ Goto(r, "fail") /\ effective' \in {effective, effective \cup {Key(r)}}
  /\ UNCHANGED <<command, faults>>

Accept(r) ==
  /\ Op(r) = "accept"
  /\ SetStatus(r, "ACCEPTED")
  /\ Reply(r, command'[Key(r)])
  /\ UNCHANGED <<dispatched, effective, faults>>

\* The transaction that accepts throws, rolled back or not: the catch writes FAILED.
AcceptThrows(r) ==
  /\ Op(r) = "accept" /\ faults < MaxFaults
  /\ faults' = faults + 1
  /\ SetStatus(r, "ACCEPTED") \/ UNCHANGED command
  /\ Goto(r, "fail")
  /\ UNCHANGED <<dispatched, effective>>

Fail(r) ==
  /\ Op(r) = "fail"
  /\ SetStatus(r, "FAILED")
  /\ Throw(r)
  /\ UNCHANGED <<dispatched, effective, faults>>

\* The backend dies: nothing takes up what its requests were doing.
Crash ==
  /\ faults < MaxFaults
  /\ faults' = faults + 1
  /\ request' = [r \in Requests |-> NoRequest]
  /\ UNCHANGED <<command, dispatched, effective>>

-----------------------------------------------------------------------------

Init ==
  /\ command = [k \in Keys |-> NoCommand]
  /\ dispatched = [k \in Keys |-> 0]
  /\ effective = {}
  /\ request = [r \in Requests |-> NoRequest]
  /\ faults = 0

Next ==
  \/ \E r \in Requests :
       \/ \E k \in Keys, h \in Commands : CreateCommand(r, k, h)
       \/ Find(r) \/ Create(r) \/ Send(r) \/ Dispatch(r)
       \/ Accept(r) \/ AcceptThrows(r) \/ Fail(r)
  \/ Crash

Spec == Init /\ [][Next]_vars

-----------------------------------------------------------------------------
(* Properties *)

Command == [status : CommandStatus, hash : Commands \cup {"none"}]
Request ==
  [op : {"idle", "find", "create", "send", "dispatch", "accept", "fail"},
   key : Keys \cup {"none"}, hash : Commands \cup {"none"}, reply : Command]

\* Every variable has its type.
TypeOK ==
  /\ command \in [Keys -> Command]
  /\ dispatched \in [Keys -> Nat]
  /\ effective \subseteq Keys
  /\ request \in [Requests -> Request]

\* However often and however concurrently a command is asked for under one key, and whatever
\* crashes, the charging service is called at most once for it, the command it is called for is
\* the one stored, a caller is answered only with a command it asked for, and one that was
\* answered ACCEPTED took effect (createCommand).
DispatchedOnce ==
  /\ \A k \in Keys : dispatched[k] <= 1
  /\ \A k \in Keys : command[k].status = "ACCEPTED" => k \in effective
  /\ \A r \in Requests :
       /\ Op(r) \in {"send", "dispatch", "accept", "fail"} => command[Key(r)].hash = request[r].hash
       /\ request[r].reply # NoCommand => request[r].reply.hash = request[r].hash
=============================================================================
