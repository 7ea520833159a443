-------------------------- MODULE OcppConnections --------------------------
(***************************************************************************)
(* The connections of one charge point and the answers to its calls        *)
(* (ocpp/ocpp16-central-system.service.ts).                                *)
(*                                                                         *)
(* A socket is verified, waits for the password to be compared, and is     *)
(* then registered in the place of the one before.  What its end writes to *)
(* the database is not awaited by anybody.  The calls of a socket are      *)
(* handled in order, but a call may be repeated on the next socket while   *)
(* it is handled, and after a restart while the insertion of its first     *)
(* answer is still on its way.                                             *)
(***************************************************************************)
EXTENDS Naturals, FiniteSets

CONSTANTS
  Sockets,      \* connections of the charge point, each used once
  Ids,          \* the uniqueIds of its calls
  Answers,      \* what a dispatch may result in, a CALLERROR among them
  MaxRestarts   \* bound on crashes of the backend

VARIABLES
  policy,       \* environment.ocppDuplicateConnectionPolicy
  socket,       \* where each socket is
  registered,   \* connections.get(identity)
  pointStatus,  \* charge_points.connection_status
  connStatus,   \* connectors.status
  execution,    \* inboundCalls: how far each call is, and the sockets that await it
  stored,       \* ocpp_messages: the answer kept for each call
  late,         \* insertions of a process that is gone
  given,        \* the answers the charge point has got to each call
  restarts

places == <<policy, socket, registered, pointStatus>>
answers == <<execution, stored, late, given>>
connVars == <<places, connStatus, answers, restarts>>

-----------------------------------------------------------------------------
(* Data *)

NoSocket == "no socket"
NoAnswer == "no answer"

Places == {"new", "verified", "refused", "open", "closing", "point", "connectors", "gone", "dead"}

\* The sockets this process has accepted, closed ones whose calls are still queued included.
AcceptedSockets == {s \in Sockets : socket[s] \in {"open", "closing", "point", "connectors", "gone"}}

NotRunning == [at |-> "none", answer |-> NoAnswer, sockets |-> {}]

\* context.processing: the calls of a socket are handled one after the other.
Waits(s) == \A c \in Ids : s \notin execution[c].sockets

IsConnected == registered # NoSocket /\ socket[registered] = "open"

Put(s, place) == socket' = [socket EXCEPT ![s] = place]

-----------------------------------------------------------------------------
(* Sockets *)

\* verifyUpgrade: the policy is looked at before the password is compared.
VerifyUpgrade(s) ==
  /\ socket[s] = "new"
  /\ \/ Put(s, "verified") /\ ~(policy = "reject" /\ IsConnected)
     \/ Put(s, "refused")
  /\ UNCHANGED <<policy, registered, pointStatus, connStatus, answers, restarts>>

\* acceptConnection: the socket registered before is closed.  The update of connection_status to
\* CONNECTED is never run: a call of Prisma runs when its result is awaited, and `void` does not.
AcceptConnection(s) ==
  /\ socket[s] = "verified"
  /\ socket' = [o \in Sockets |-> IF o = s THEN "open"
                                  ELSE IF o = registered /\ socket[o] = "open" THEN "closing"
                                  ELSE socket[o]]
  /\ registered' = s
  /\ UNCHANGED <<policy, pointStatus, connStatus, answers, restarts>>

\* The charge point hangs up, or the server closes a socket that is idle, sends too much, or sends
\* what is no frame.
Close(s) ==
  /\ socket[s] = "open"
  /\ Put(s, "closing")
  /\ UNCHANGED <<policy, registered, pointStatus, connStatus, answers, restarts>>

\* Faulty variant: the end of any socket unregisters the charge point.
ForgetsAny(s) ==
  /\ socket[s] = "closing"
  /\ registered' = NoSocket
  /\ Put(s, "point")
  /\ UNCHANGED <<policy, pointStatus, connStatus, answers, restarts>>

\* handleDisconnect: the end of a socket that was replaced changes nothing.
HandleDisconnect(s) ==
  /\ socket[s] = "closing"
  /\ IF registered = s
       THEN registered' = NoSocket /\ Put(s, "point")
       ELSE UNCHANGED registered /\ Put(s, "gone")
  /\ UNCHANGED <<policy, pointStatus, connStatus, answers, restarts>>

MarkDisconnected(s) ==
  /\ socket[s] = "point"
  /\ pointStatus' = "DISCONNECTED"
  /\ Put(s, "connectors")
  /\ UNCHANGED <<policy, registered, connStatus, answers, restarts>>

MarkOffline(s) ==
  /\ socket[s] = "connectors"
  /\ connStatus' = "OFFLINE"
  /\ Put(s, "gone")
  /\ UNCHANGED <<policy, registered, pointStatus, answers, restarts>>

-----------------------------------------------------------------------------
(* Calls *)

\* processIncomingCall: a call that is being handled is awaited by whoever repeats it.
ProcessIncomingCall(s, c) ==
  /\ s \in AcceptedSockets /\ Waits(s)
  /\ execution' = [execution EXCEPT ![c] = [at |-> IF @.at = "none" THEN "lookup" ELSE @.at,
                                            answer |-> @.answer, sockets |-> @.sockets \cup {s}]]
  /\ UNCHANGED <<places, connStatus, stored, late, given, restarts>>

\* handleRawMessage sends the answer on the sockets that are still open (sendFrame).
Answer(c, a) ==
  /\ given' = [given EXCEPT ![c] = IF \E s \in execution[c].sockets : socket[s] = "open"
                                   THEN @ \cup {a} ELSE @]
  /\ execution' = [execution EXCEPT ![c] = NotRunning]

\* executeIncomingCall: what was answered before is answered again.
Lookup(c) ==
  /\ execution[c].at = "lookup"
  /\ IF stored[c] # NoAnswer
       THEN Answer(c, stored[c])
       ELSE /\ execution' = [execution EXCEPT ![c].at = "dispatch"]
            /\ UNCHANGED given
  /\ UNCHANGED <<places, connStatus, stored, late, restarts>>

\* dispatchCall; a StatusNotification sets the connector's status whatever happens to its socket.
DispatchCall(c) ==
  /\ execution[c].at = "dispatch"
  /\ \E a \in Answers :
       execution' = [execution EXCEPT ![c] = [at |-> "store", answer |-> a, sockets |-> @.sockets]]
  /\ connStatus' \in {connStatus, "AVAILABLE"}
  /\ UNCHANGED <<places, stored, late, given, restarts>>

\* Faulty variant: an answer kept in the meantime is not asked for.
StoreIgnores(c) ==
  /\ execution[c].at = "store"
  /\ stored' = [stored EXCEPT ![c] = IF @ = NoAnswer THEN execution[c].answer ELSE @]
  /\ Answer(c, execution[c].answer)
  /\ UNCHANGED <<places, connStatus, late, restarts>>

\* The answer is kept; if the insertion conflicts (P2002), the one that is there is given.
Store(c) ==
  /\ execution[c].at = "store"
  /\ stored' = [stored EXCEPT ![c] = IF @ = NoAnswer THEN execution[c].answer ELSE @]
  /\ Answer(c, stored'[c])
  /\ UNCHANGED <<places, connStatus, late, restarts>>

\* Any other error ends the call without an answer, whether the insertion took place or not.
StoreFails(c) ==
  /\ execution[c].at = "store"
  /\ \/ UNCHANGED stored
     \/ stored[c] = NoAnswer /\ stored' = [stored EXCEPT ![c] = execution[c].answer]
  /\ execution' = [execution EXCEPT ![c] = NotRunning]
  /\ UNCHANGED <<places, connStatus, late, given, restarts>>

-----------------------------------------------------------------------------
(* Restarts *)

\* The sockets and the calls under way are gone; what was sent to the database may still commit.
Restart ==
  /\ restarts < MaxRestarts
  /\ restarts' = restarts + 1
  /\ socket' = [s \in Sockets |-> IF socket[s] \in {"new", "refused"} THEN socket[s] ELSE "dead"]
  /\ registered' = NoSocket
  /\ late' = [c \in Ids |-> late[c] \cup (IF execution[c].at = "store" THEN {execution[c].answer} ELSE {})]
  /\ execution' = [c \in Ids |-> NotRunning]
  /\ UNCHANGED <<policy, pointStatus, connStatus, stored, given>>

\* An insertion of the process that is gone commits, conflicts, or is lost.
LateStore(c) ==
  /\ \E a \in late[c] :
       /\ late' = [late EXCEPT ![c] = @ \ {a}]
       /\ stored' \in {stored, [stored EXCEPT ![c] = IF @ = NoAnswer THEN a ELSE @]}
  /\ UNCHANGED <<places, connStatus, execution, given, restarts>>

-----------------------------------------------------------------------------

ConnInit ==
  /\ policy \in {"replace", "reject"}
  /\ socket = [s \in Sockets |-> "new"]
  /\ registered = NoSocket
  /\ pointStatus = "DISCONNECTED" /\ connStatus = "OFFLINE"
  /\ execution = [c \in Ids |-> NotRunning]
  /\ stored = [c \in Ids |-> NoAnswer]
  /\ late = [c \in Ids |-> {}] /\ given = [c \in Ids |-> {}]
  /\ restarts = 0

ConnNext ==
  \/ \E s \in Sockets :
       \/ VerifyUpgrade(s) \/ AcceptConnection(s) \/ Close(s)
       \/ HandleDisconnect(s) \/ MarkDisconnected(s) \/ MarkOffline(s)
       \/ \E c \in Ids : ProcessIncomingCall(s, c)
  \/ \E c \in Ids :
       Lookup(c) \/ DispatchCall(c) \/ Store(c) \/ StoreFails(c) \/ LateStore(c)
  \/ Restart

ConnSpec == ConnInit /\ [][ConnNext]_connVars

-----------------------------------------------------------------------------
(* Properties *)

Execution ==
  [at : {"none", "lookup", "dispatch", "store"}, answer : Answers \cup {NoAnswer},
   sockets : SUBSET Sockets]

\* Every variable has its type.
ConnTypeOK ==
  /\ policy \in {"replace", "reject"}
  /\ socket \in [Sockets -> Places]
  /\ registered \in Sockets \cup {NoSocket}
  /\ pointStatus \in {"CONNECTED", "DISCONNECTED"} /\ connStatus \in {"AVAILABLE", "OFFLINE"}
  /\ execution \in [Ids -> Execution]
  /\ stored \in [Ids -> Answers \cup {NoAnswer}]
  /\ late \in [Ids -> SUBSET Answers] /\ given \in [Ids -> SUBSET Answers]
  /\ restarts \in Nat

\* The charge point has one open connection, the one commands are sent on, however old and new
\* ones end and however many were verified at one time (acceptConnection, handleDisconnect).
OneActiveConnection == \A s \in Sockets : socket[s] = "open" => registered = s

\* However often a call is repeated, on whatever connection and across restarts, the charge point
\* gets one answer to it, the one that is kept (processIncomingCall, executeIncomingCall).
SameAnswer == \A c \in Ids : \A a \in given[c] : stored[c] = a
=============================================================================
