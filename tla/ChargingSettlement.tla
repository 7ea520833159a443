------------------------- MODULE ChargingSettlement -------------------------
(***************************************************************************)
(* A charging session from its creation to its settlement: the session     *)
(* handlers of charging/charging.service.ts together with the payment      *)
(* policy, the payment intents, the receipts and the wallet they call.     *)
(*                                                                         *)
(* A worker is one request or charger event being handled.  Handlers run   *)
(* concurrently and await the database at every step, so a worker moves    *)
(* from one operation to the next in separate steps.  A database           *)
(* transaction that reads a row and later writes it back is two steps: the *)
(* read takes a snapshot, the write commits only if the row still has the  *)
(* version of the snapshot (updateMany ... where version).  A transaction  *)
(* that throws changes nothing.                                            *)
(***************************************************************************)
EXTENDS Integers, FiniteSets, Lifecycles

CONSTANTS
  Workers,      \* requests and events handled at one time
  Sessions,     \* session ids
  Connectors,   \* connectors of the stations
  Driver,       \* the wallet of the driver whose sessions these are
  TopUps,       \* idempotency keys of the driver's top-ups
  TopUpAmount,  \* what one top-up credits
  PreAuth,      \* PaymentPolicyConfig.preAuthorizationAmountMinor
  MaxSession,   \* PaymentPolicyConfig.maximumSessionAmountMinor
  Costs,        \* what a session may cost, in minor units
  MaxMinor,     \* environment.maximumMoneyMinor
  MaxVersion,   \* bound: meter values and disconnections stop at this version
  MaxWrites,    \* bound on the writes of connectors by others than sessions
  MaxCrashes,   \* bound on crashes of the backend
  MaxErrors,    \* bound on database calls that throw
  MaxFaults     \* bound on such writes, crashes and errors together

ASSUME SettlementAssumption ==
  /\ IsFiniteSet(Sessions) /\ IsFiniteSet(TopUps) /\ MaxMinor \in Nat
  /\ Costs \subseteq 0 .. MaxMinor
  /\ {PreAuth, TopUpAmount} \subseteq 1 .. MaxMinor
  /\ {MaxSession, MaxVersion, MaxWrites, MaxCrashes, MaxErrors, MaxFaults} \subseteq Nat

VARIABLES
  wallet, reservation, journal,  \* the state of WalletLedger
  session,    \* charging_sessions: status, version, connector, total cost
  connector,  \* connectors.status
  intent,     \* the CHARGING_AUTHORIZATION intent of each session
  receipt,    \* whether the session has a receipt
  charger,    \* what the equipment does for the session
  worker,     \* where each handler is
  statusWrites,  \* writes of connectors by others than sessions so far
  crashes,    \* crashes so far
  errors,     \* database calls that threw so far
  abandoned   \* sessions of which such an error ended a handler

rows == <<session, connector, intent, receipt>>
money == <<wallet, reservation, journal>>
faults == <<statusWrites, crashes, errors, abandoned>>
vars == <<money, rows, charger, worker, faults>>

Ledger == INSTANCE WalletLedger
            WITH Wallets <- {Driver}, CreditKeys <- TopUps, RefundKeys <- {}

-----------------------------------------------------------------------------
(* Data *)

NoOne == "none"

\* Bound on what goes wrong outside the handlers.
FaultLeft == statusWrites + crashes + errors < MaxFaults

NoSession == [status |-> "NONE", version |-> 0, connector |-> NoOne, cost |-> 0]
NoIntent  == [status |-> "NONE", version |-> 0]

ConnectorStatus == {"AVAILABLE", "RESERVED", "OCCUPIED", "OFFLINE", "MAINTENANCE"}

\* What start does not accept.
OutOfUse == {"OFFLINE", "OCCUPIED", "MAINTENANCE"}

\* "reported": the STOPPED event of the stopped charge has been delivered.
ChargerStatus == {"idle", "running", "stopped", "reported", "failed"}

ActiveSession(s) ==
  session[s].status # "NONE" /\ ~TerminalSession(session[s].status)

\* Operations that read the session before they write it, and operations that
\* are one PaymentIntentService.transition each, with the status they aim at.
SessionOps == {"authorizeSession", "startPrepare", "startCommit", "stopPrepare",
               "complete", "stoppedEvent", "meter", "disconnect", "fail"}

IntentTarget ==
  [pend |-> "PENDING", authorizeIntent |-> "AUTHORIZED", failIntent |-> "FAILED",
   review |-> "REQUIRES_REVIEW", captureIntent |-> "CAPTURED",
   cancelIntent |-> "CANCELLED"]

OtherOps == {"createIntent", "reserve", "authorizeCatch", "gatewayStart",
             "gatewayStop", "settle", "capture", "receiptRead", "receiptWrite",
             "autoRecharge", "cancel", "cancelReservation", "release"}

Ops == SessionOps \cup DOMAIN IntentTarget \cup OtherOps

Unread == [status |-> "unread", version |-> 0, connector |-> NoOne]
Lost   == [status |-> "lost", version |-> 0, connector |-> NoOne]

\* caller: whose catch block handles an error.  after: what follows the
\* operation, when that was decided earlier (a branch of settle or cancel).
\* offline: failSession's argument "disconnected".
Idle == [caller |-> "none", op |-> "idle", s |-> NoOne, seen |-> Unread,
         after |-> "idle", offline |-> FALSE]

-----------------------------------------------------------------------------
(* Steps of a worker *)

At(w, op) == worker[w].op = op
Of(w)     == worker[w].s
Seen(w)   == worker[w].seen
HasRead(w) == Seen(w) # Unread

Decide(w, op, after) ==
  worker' = [worker EXCEPT ![w] =
    IF op = "idle" THEN Idle
    ELSE [@ EXCEPT !.op = op, !.seen = Unread, !.after = after]]

Goto(w, op) == Decide(w, op, worker[w].after)

Begin(w, caller, op, s, offline) ==
  /\ At(w, "idle")
  /\ worker' = [worker EXCEPT ![w] =
       [Idle EXCEPT !.caller = caller, !.op = op, !.s = s, !.offline = offline]]

\* Faulty variant: the catch block returns the money and leaves the session.
OnErrorCancels(w) == IF worker[w].caller = "event" THEN "idle" ELSE "cancel"

\* The catch blocks of create, start and stop call failSession; an error in
\* the handler of a charger event ends the handler.
OnError(w) == IF worker[w].caller = "event" THEN "idle" ELSE "fail"

\* Faulty variant: a write does not compare the version.
Unversioned(w) == Of(w) \in Sessions

\* What "transition" and the other writes of a session do: they commit only if
\* the session is still the one that was read.
Fresh(w) == session[Of(w)].version = Seen(w).version

Moved(w, status) ==
  [session EXCEPT ![Of(w)].status = status, ![Of(w)].version = @ + 1]

SetConnector(s, status) ==
  connector' = [connector EXCEPT ![session[s].connector] = status]

\* The read of a session transaction (with the connector it includes).
ReadSession(w) ==
  /\ worker[w].op \in SessionOps
  /\ ~HasRead(w)
  /\ worker' = [worker EXCEPT ![w].seen =
       [status |-> session[Of(w)].status, version |-> session[Of(w)].version,
        connector |-> connector[session[Of(w)].connector]]]
  /\ UNCHANGED <<money, rows, charger, faults>>

\* A session transaction that finds its work done returns what it read.
SessionReplayed(w, op, done, next) ==
  /\ At(w, op) /\ HasRead(w)
  /\ Seen(w).status \in done
  /\ Goto(w, next)
  /\ UNCHANGED <<money, rows, charger, faults>>

\* One that finds a status it rejects, or whose write loses to another one,
\* throws and is rolled back.
SessionRefused(w, op, done, writes, next) ==
  /\ At(w, op) /\ HasRead(w)
  /\ Seen(w).status \notin done
  /\ Seen(w).status \notin writes \/ ~Fresh(w)
  /\ Goto(w, next)
  /\ UNCHANGED <<money, rows, charger, faults>>

SessionWrite(w, op, from) ==
  /\ At(w, op) /\ HasRead(w) /\ Fresh(w)
  /\ Seen(w).status \in from
  /\ UNCHANGED <<money, intent, receipt, charger, faults>>

-----------------------------------------------------------------------------
(* PaymentIntentService.transition *)

AfterTransition(w) ==
  CASE At(w, "pend")            -> "reserve"
    [] At(w, "authorizeIntent") -> "authorizeSession"
    [] At(w, "failIntent")      -> "fail"
    [] At(w, "review")          -> OnError(w)
    [] At(w, "captureIntent")   -> "receiptRead"
    [] At(w, "cancelIntent")    -> "idle"

\* authorize catches what fails after PENDING; an error in cancel is an error
\* of failSession, which nobody catches.
AfterTransitionError(w) ==
  CASE At(w, "authorizeIntent") -> "authorizeCatch"
    [] At(w, "cancelIntent")    -> "idle"
    [] OTHER                    -> OnError(w)

InTransition(w) == worker[w].op \in DOMAIN IntentTarget

ReadIntent(w) ==
  /\ InTransition(w) /\ ~HasRead(w)
  /\ worker' = [worker EXCEPT ![w].seen =
       [status |-> intent[Of(w)].status, version |-> intent[Of(w)].version,
        connector |-> NoOne]]
  /\ UNCHANGED <<money, rows, charger, faults>>

\* A write that loses to another one looks whether the other one did the same.
WriteIntent(w) ==
  LET target == IntentTarget[worker[w].op]
      legal  == LegalIntentMove(Seen(w).status, target)
      done   == Seen(w).status = target
      fresh  == intent[Of(w)].version = Seen(w).version
  IN
  /\ InTransition(w) /\ HasRead(w) /\ Seen(w) # Lost
  /\ \/ /\ legal /\ ~done /\ fresh
        /\ intent' = [intent EXCEPT ![Of(w)] =
             [status |-> target, version |-> @.version + 1]]
        /\ Goto(w, AfterTransition(w))
     \/ /\ done
        /\ Goto(w, AfterTransition(w))
        /\ UNCHANGED intent
     \/ /\ ~legal
        /\ Goto(w, AfterTransitionError(w))
        /\ UNCHANGED intent
     \/ /\ legal /\ ~done /\ ~fresh
        /\ worker' = [worker EXCEPT ![w].seen = Lost]
        /\ UNCHANGED intent
  /\ UNCHANGED <<money, session, connector, receipt, charger, faults>>

RacedIntent(w) ==
  /\ InTransition(w) /\ Seen(w) = Lost
  /\ Goto(w, IF intent[Of(w)].status = IntentTarget[worker[w].op]
               THEN AfterTransition(w) ELSE AfterTransitionError(w))
  /\ UNCHANGED <<money, rows, charger, faults>>

-----------------------------------------------------------------------------
(* Creating and authorizing a session *)

\* Faulty variant: the status alone keeps a second session from the connector.
CreateOnAvailable(w, s, c) ==
  /\ session[s] = NoSession
  /\ connector[c] = "AVAILABLE"
  /\ connector' = [connector EXCEPT ![c] = "RESERVED"]
  /\ session' = [session EXCEPT ![s] =
       [NoSession EXCEPT !.status = "PENDING", !.connector = c]]
  /\ Begin(w, "create", "createIntent", s, FALSE)
  /\ UNCHANGED <<money, intent, receipt, charger, faults>>

\* The first transaction of create is serializable and writes the connector
\* row only if it is unchanged, and a partial unique index allows one active
\* session per connector: when it commits it is atomic.
Create(w, s, c) ==
  /\ session[s] = NoSession
  /\ connector[c] = "AVAILABLE"
  /\ \A t \in Sessions : ActiveSession(t) => session[t].connector # c
  /\ connector' = [connector EXCEPT ![c] = "RESERVED"]
  /\ session' = [session EXCEPT ![s] =
       [NoSession EXCEPT !.status = "PENDING", !.connector = c]]
  /\ Begin(w, "create", "createIntent", s, FALSE)
  /\ UNCHANGED <<money, intent, receipt, charger, faults>>

\* authorize creates the intent, or throws before (no wallet, no policy).
CreateIntent(w) ==
  /\ At(w, "createIntent")
  /\ \/ /\ intent' = [intent EXCEPT ![Of(w)] = [status |-> "CREATED", version |-> 0]]
        /\ Goto(w, "pend")
     \/ /\ Goto(w, OnError(w))
        /\ UNCHANGED intent
  /\ UNCHANGED <<money, session, connector, receipt, charger, faults>>

ReserveMoney(w) ==
  /\ At(w, "reserve")
  /\ \/ /\ Ledger!Reserve(Driver, Of(w), PreAuth)
        /\ Goto(w, "authorizeIntent")
     \/ /\ wallet[Driver].available < PreAuth
        /\ Goto(w, "authorizeCatch")
        /\ UNCHANGED money
  /\ UNCHANGED <<rows, charger, faults>>

\* The catch block of authorize.
AuthorizeCatch(w) ==
  /\ At(w, "authorizeCatch")
  /\ Goto(w, IF intent[Of(w)].status = "AUTHORIZED" THEN "authorizeSession"
             ELSE IF intent[Of(w)].status = "PENDING" THEN "failIntent"
             ELSE OnError(w))
  /\ UNCHANGED <<money, rows, charger, faults>>

\* Nothing else writes a PENDING session: the transaction finds it as create
\* left it.
AuthorizeSession(w) ==
  /\ SessionWrite(w, "authorizeSession", {"PENDING"})
  /\ session' = Moved(w, "AUTHORIZED")
  /\ Goto(w, "idle")
  /\ UNCHANGED connector

-----------------------------------------------------------------------------
(* Starting and stopping *)

BeginStart(w, s) ==
  /\ session[s] # NoSession
  /\ Begin(w, "start", "startPrepare", s, FALSE)
  /\ UNCHANGED <<money, rows, charger, faults>>

StartPrepare(w) ==
  \/ SessionReplayed(w, "startPrepare", {"STARTING", "CHARGING"}, "idle")
  \/ SessionRefused(w, "startPrepare", {"STARTING", "CHARGING"},
                    IF Seen(w).connector \in OutOfUse
                      THEN {} ELSE {"AUTHORIZED"}, "idle")
  \/ /\ SessionWrite(w, "startPrepare", {"AUTHORIZED"})
     /\ Seen(w).connector \notin OutOfUse
     /\ session' = Moved(w, "STARTING")
     /\ Goto(w, "gatewayStart")
     /\ UNCHANGED connector

\* The equipment of a connector charges one session at a time.
EquipmentFree(s) ==
  \A t \in Sessions \ {s} :
    session[t].connector = session[s].connector => charger[t] # "running"

\* The gateway answers, or fails; when it fails by a timeout the equipment may
\* have started all the same.
GatewayStart(w) ==
  /\ At(w, "gatewayStart")
  /\ \/ /\ EquipmentFree(Of(w))
        /\ charger' = [charger EXCEPT ![Of(w)] = "running"]
        /\ \E next \in {"startCommit", OnError(w)} : Goto(w, next)
     \/ /\ Goto(w, OnError(w))
        /\ UNCHANGED charger
  /\ UNCHANGED <<money, rows, faults>>

StartCommit(w) ==
  \/ SessionReplayed(w, "startCommit", {"CHARGING"}, "idle")
  \/ SessionRefused(w, "startCommit", {"CHARGING"}, {"STARTING"}, OnError(w))
  \/ /\ SessionWrite(w, "startCommit", {"STARTING"})
     /\ session' = Moved(w, "CHARGING")
     /\ SetConnector(Of(w), "OCCUPIED")
     /\ Goto(w, "idle")

BeginStop(w, s) ==
  /\ session[s] # NoSession
  /\ Begin(w, "stop", "stopPrepare", s, FALSE)
  /\ UNCHANGED <<money, rows, charger, faults>>

StopPrepare(w) ==
  \/ SessionReplayed(w, "stopPrepare", {"COMPLETED", "STOPPING"}, "idle")
  \/ SessionRefused(w, "stopPrepare", {"COMPLETED", "STOPPING"}, {"CHARGING"}, "idle")
  \/ /\ SessionWrite(w, "stopPrepare", {"CHARGING"})
     /\ session' = Moved(w, "STOPPING")
     /\ Goto(w, "gatewayStop")
     /\ UNCHANGED connector

\* Equipment that has stopped already answers with the meter it stopped at.
GatewayStop(w) ==
  /\ At(w, "gatewayStop")
  /\ \/ /\ charger[Of(w)] \in {"running", "stopped", "reported"}
        /\ charger' = [charger EXCEPT ![Of(w)] =
             IF @ = "running" THEN "stopped" ELSE @]
        /\ \E next \in {"complete", OnError(w)} : Goto(w, next)
     \/ /\ Goto(w, OnError(w))
        /\ UNCHANGED charger
  /\ UNCHANGED <<money, rows, faults>>

\* The transaction of completeSession; settle follows also when another
\* handler has completed the session.
Complete(w) ==
  \/ SessionReplayed(w, "complete", {"COMPLETED"}, "settle")
  \/ SessionRefused(w, "complete", {"COMPLETED"}, {"STOPPING"}, OnError(w))
  \/ /\ SessionWrite(w, "complete", {"STOPPING"})
     /\ \E cost \in Costs :
          session' = [Moved(w, "COMPLETED") EXCEPT ![Of(w)].cost = cost]
     /\ SetConnector(Of(w), "AVAILABLE")
     /\ Goto(w, "settle")

-----------------------------------------------------------------------------
(* ChargingPaymentPolicy.settle *)

Capturable(cost) == cost <= PreAuth /\ cost <= MaxSession

Settle(w) ==
  LET status == intent[Of(w)].status
      within == Capturable(session[Of(w)].cost)
  IN
  /\ At(w, "settle")
  /\ \/ /\ status = "CAPTURED"
        /\ Decide(w, "receiptRead", "idle")
     \/ /\ status = "AUTHORIZED"
        /\ ~within
        /\ Goto(w, "review")
     \/ /\ status = "AUTHORIZED"
        /\ within
        /\ Decide(w, "capture", "autoRecharge")
     \/ /\ status \notin {"CAPTURED", "AUTHORIZED"}
        /\ Goto(w, OnError(w))
  /\ UNCHANGED <<money, rows, charger, faults>>

Capture(w) ==
  LET cost == session[Of(w)].cost
  IN
  /\ At(w, "capture")
  /\ \/ /\ Ledger!CaptureReserved(Driver, Of(w), cost)
        /\ Goto(w, "captureIntent")
     \/ /\ Ledger!CaptureReplays(Driver, Of(w), cost)
        /\ Goto(w, "captureIntent")
        /\ UNCHANGED money
     \/ /\ ~Ledger!CanCapture(Driver, Of(w), cost)
        /\ ~Ledger!CaptureReplays(Driver, Of(w), cost)
        /\ Goto(w, OnError(w))
        /\ UNCHANGED money
  /\ UNCHANGED <<rows, charger, faults>>

\* ReceiptService.issue returns an existing receipt, or writes one; of two
\* writers the second violates the unique session of a receipt.
ReceiptRead(w) ==
  /\ At(w, "receiptRead")
  /\ Goto(w, IF receipt[Of(w)] THEN worker[w].after ELSE "receiptWrite")
  /\ UNCHANGED <<money, rows, charger, faults>>

ReceiptWrite(w) ==
  /\ At(w, "receiptWrite")
  /\ Goto(w, IF receipt[Of(w)] THEN OnError(w) ELSE worker[w].after)
  /\ receipt' = [receipt EXCEPT ![Of(w)] = TRUE]
  /\ UNCHANGED <<money, session, connector, intent, charger, faults>>

\* An automatic recharge after the settlement may fail; what it credits is a
\* top-up like any other here.
AutoRecharge(w) ==
  /\ At(w, "autoRecharge")
  /\ \E next \in {"idle", OnError(w)} : Goto(w, next)
  /\ UNCHANGED <<money, rows, charger, faults>>

-----------------------------------------------------------------------------
(* failSession, and ChargingPaymentPolicy.cancel which it always calls *)

FailSession(w) ==
  LET terminal == {x \in SessionStatus : TerminalSession(x)}
      active   == SessionStatus \ terminal
  IN
  \/ SessionReplayed(w, "fail", terminal, "cancel")
  \/ SessionRefused(w, "fail", terminal, active, "idle")
  \/ /\ SessionWrite(w, "fail", active)
     /\ session' = Moved(w, "FAILED")
     /\ SetConnector(Of(w), IF worker[w].offline THEN "OFFLINE" ELSE "AVAILABLE")
     /\ Goto(w, "cancel")

\* The intent is read once; its status decides, after the release, whether it
\* is cancelled.
Cancel(w) ==
  /\ At(w, "cancel")
  /\ IF intent[Of(w)] = NoIntent
       THEN Goto(w, "idle")
       ELSE Decide(w, "cancelReservation",
                   IF intent[Of(w)].status \in {"CREATED", "PENDING", "AUTHORIZED"}
                     THEN "cancelIntent" ELSE "idle")
  /\ UNCHANGED <<money, rows, charger, faults>>

\* Faulty variant: the intent is cancelled and the reservation left active.
CancelKeepsMoney(w) ==
  /\ At(w, "cancelReservation")
  /\ Goto(w, worker[w].after)
  /\ UNCHANGED <<money, rows, charger, faults>>

CancelReservation(w) ==
  /\ At(w, "cancelReservation")
  /\ Goto(w, IF reservation[Of(w)].status = "RESERVED" THEN "release"
             ELSE worker[w].after)
  /\ UNCHANGED <<money, rows, charger, faults>>

Release(w) ==
  /\ At(w, "release")
  /\ \/ /\ Ledger!ReleaseReserved(Driver, Of(w))
        /\ Goto(w, worker[w].after)
     \/ /\ Ledger!ReleaseReplays(Driver, Of(w))
        /\ Goto(w, worker[w].after)
        /\ UNCHANGED money
     \/ /\ ~Ledger!CanRelease(Driver, Of(w))
        /\ ~Ledger!ReleaseReplays(Driver, Of(w))
        /\ Goto(w, "idle")
        /\ UNCHANGED money
  /\ UNCHANGED <<rows, charger, faults>>

-----------------------------------------------------------------------------
(* Charger events *)

\* A charge ends at the equipment, without a request; equipment whose event
\* is refused may fail and tell nobody.
ChargerStops(s) ==
  /\ charger[s] = "running"
  /\ \E end \in {"stopped", "failed"} :
       charger' = [charger EXCEPT ![s] = end]
  /\ UNCHANGED <<money, rows, worker, faults>>

\* The STOPPED event is published once, by the StopTransaction that completes
\* the transaction of the charge point.
StoppedEvent(w, s) ==
  /\ charger[s] = "stopped"
  /\ charger' = [charger EXCEPT ![s] = "reported"]
  /\ Begin(w, "event", "stoppedEvent", s, FALSE)
  /\ UNCHANGED <<money, rows, faults>>

\* Faulty variant: a session that is being stopped is settled at once.
HandleStoppedEarly(w) ==
  \/ SessionReplayed(w, "stoppedEvent", {"COMPLETED"}, "idle")
  \/ SessionReplayed(w, "stoppedEvent", {"STOPPING"}, "settle")
  \/ SessionRefused(w, "stoppedEvent", {"COMPLETED", "STOPPING"}, {"CHARGING"}, "idle")
  \/ /\ SessionWrite(w, "stoppedEvent", {"CHARGING"})
     /\ session' = Moved(w, "STOPPING")
     /\ Goto(w, "complete")
     /\ UNCHANGED connector

HandleStopped(w) ==
  \/ SessionReplayed(w, "stoppedEvent", {"COMPLETED"}, "idle")
  \/ SessionReplayed(w, "stoppedEvent", {"STOPPING"}, "complete")
  \/ SessionRefused(w, "stoppedEvent", {"COMPLETED", "STOPPING"}, {"CHARGING"}, "idle")
  \/ /\ SessionWrite(w, "stoppedEvent", {"CHARGING"})
     /\ session' = Moved(w, "STOPPING")
     /\ Goto(w, "complete")
     /\ UNCHANGED connector

MeterEvent(w, s) ==
  /\ charger[s] = "running"
  /\ session[s].version < MaxVersion
  /\ Begin(w, "event", "meter", s, FALSE)
  /\ UNCHANGED <<money, rows, charger, faults>>

\* recordMeterValue ignores a session that is not charging.
HandleMeter(w) ==
  \/ SessionRefused(w, "meter", {}, {"CHARGING"}, "idle")
  \/ /\ SessionWrite(w, "meter", {"CHARGING"})
     /\ session' = Moved(w, "CHARGING")
     /\ IF Seen(w).connector = "OFFLINE"
          THEN SetConnector(Of(w), "OCCUPIED") ELSE UNCHANGED connector
     /\ Goto(w, "idle")

\* The connection is lost during a charge: the session is recoverable.
DisconnectEvent(w, s) ==
  /\ charger[s] = "running"
  /\ session[s].version < MaxVersion
  /\ Begin(w, "event", "disconnect", s, FALSE)
  /\ UNCHANGED <<money, rows, charger, faults>>

HandleDisconnect(w) ==
  \/ SessionRefused(w, "disconnect", {}, {"CHARGING", "STOPPING"}, "idle")
  \/ /\ SessionWrite(w, "disconnect", {"CHARGING", "STOPPING"})
     /\ session' = Moved(w, Seen(w).status)
     /\ SetConnector(Of(w), "OFFLINE")
     /\ Goto(w, "idle")

\* The equipment fails, or disconnects for good.
FailureEvent(w, s, offline) ==
  /\ charger[s] = "running"
  /\ charger' = [charger EXCEPT ![s] = "failed"]
  /\ Begin(w, "event", "fail", s, offline)
  /\ UNCHANGED <<money, rows, faults>>

-----------------------------------------------------------------------------
(* Errors of the database *)

\* What throws with a call of the database: a serializable transaction of the wallet whose third
\* attempt conflicts (serializableTransaction), or any call of a database in trouble.  createIntent,
\* the gateways and autoRecharge say themselves that they may throw; the first transaction of a
\* request, or of an event that is not the end of the charge, then leaves nothing behind.
Throwing ==
  Ops \ {"createIntent", "gatewayStart", "gatewayStop", "autoRecharge",
         "startPrepare", "stopPrepare", "meter", "disconnect"}

\* The catch blocks; nothing catches an error of failSession.
AfterError(w) ==
  CASE InTransition(w)  -> AfterTransitionError(w)
    [] At(w, "reserve") -> "authorizeCatch"
    [] worker[w].op \in {"fail", "cancel", "cancelReservation", "release"} -> "idle"
    [] OTHER            -> OnError(w)

\* The transaction is rolled back.  (One that has committed and whose audit throws afterwards leads
\* where an error of the following operation leads.)
Throw(w) ==
  /\ worker[w].op \in Throwing
  /\ errors < MaxErrors /\ FaultLeft
  /\ errors' = errors + 1
  /\ Goto(w, AfterError(w))
  /\ abandoned' = IF AfterError(w) = "idle" THEN abandoned \cup {Of(w)} ELSE abandoned
  /\ UNCHANGED <<money, rows, charger, statusWrites, crashes>>

-----------------------------------------------------------------------------
(* The whole *)

TopUp(k) ==
  /\ Ledger!Credit(Driver, k, TopUpAmount)
  /\ UNCHANGED <<rows, charger, worker, faults>>

\* The backend process dies and restarts: every handler is gone, what the
\* database holds stays, and nothing resumes the handlers.
Crash ==
  /\ crashes < MaxCrashes /\ FaultLeft
  /\ crashes' = crashes + 1
  /\ worker' = [w \in Workers |-> Idle]
  /\ UNCHANGED <<money, rows, charger, statusWrites, errors, abandoned>>

\* A write of a connector that does not look at the session it has.
WriteConnector(c, status) ==
  /\ statusWrites < MaxWrites /\ FaultLeft
  /\ statusWrites' = statusWrites + 1
  /\ connector' = [connector EXCEPT ![c] = status]
  /\ UNCHANGED <<money, session, intent, receipt, charger, worker, crashes, errors, abandoned>>

\* The charge point reports a status (handleStatusNotification, mapConnectorStatus).
StatusNotification(c) == \E status \in ConnectorStatus : WriteConnector(c, status)

\* The connection of the charge point ends (handleDisconnect).
ConnectionLost(c) == WriteConnector(c, "OFFLINE")

\* An operator sets a status; the version he saw is the one the row has, or nothing changes.
UpdateConnectorStatus(c) == \E status \in ConnectorStatus \ {connector[c]} : WriteConnector(c, status)

Init ==
  /\ Ledger!Init
  /\ session = [s \in Sessions |-> NoSession]
  /\ connector = [c \in Connectors |-> "AVAILABLE"]
  /\ intent = [s \in Sessions |-> NoIntent]
  /\ receipt = [s \in Sessions |-> FALSE]
  /\ charger = [s \in Sessions |-> "idle"]
  /\ worker = [w \in Workers |-> Idle]
  /\ statusWrites = 0 /\ crashes = 0 /\ errors = 0 /\ abandoned = {}

\* A request or an event arrives.
Arrive(w) ==
  \E s \in Sessions :
    \/ \E c \in Connectors : Create(w, s, c)
    \/ BeginStart(w, s)
    \/ BeginStop(w, s)
    \/ StoppedEvent(w, s)
    \/ MeterEvent(w, s)
    \/ DisconnectEvent(w, s)
    \/ \E offline \in BOOLEAN : FailureEvent(w, s, offline)

\* A handler takes its next step.
Handle(w) ==
  \/ ReadSession(w) \/ ReadIntent(w) \/ WriteIntent(w) \/ RacedIntent(w)
  \/ CreateIntent(w) \/ ReserveMoney(w) \/ AuthorizeCatch(w) \/ AuthorizeSession(w)
  \/ StartPrepare(w) \/ GatewayStart(w) \/ StartCommit(w)
  \/ StopPrepare(w) \/ GatewayStop(w) \/ Complete(w)
  \/ Settle(w) \/ Capture(w) \/ ReceiptRead(w) \/ ReceiptWrite(w) \/ AutoRecharge(w)
  \/ FailSession(w) \/ Cancel(w) \/ CancelReservation(w) \/ Release(w)
  \/ HandleStopped(w) \/ HandleMeter(w) \/ HandleDisconnect(w)

Next ==
  \/ \E w \in Workers : Arrive(w) \/ Handle(w) \/ Throw(w)
  \/ \E s \in Sessions : ChargerStops(s)
  \/ \E k \in TopUps : TopUp(k)
  \/ \E c \in Connectors : StatusNotification(c) \/ ConnectionLost(c) \/ UpdateConnectorStatus(c)
  \/ Crash

Spec == Init /\ [][Next]_vars

\* A handler once begun is run to its end by the event loop, and every call it
\* awaits returns or times out.  Nothing makes a request or an event arrive.
Fairness == \A w \in Workers : WF_vars(Handle(w))

FairSpec == Spec /\ Fairness

-----------------------------------------------------------------------------
(* Properties *)

TypeOK ==
  /\ Ledger!TypeOK
  /\ session \in [Sessions -> [status : SessionStatus \cup {"NONE"}, version : Nat,
                               connector : Connectors \cup {NoOne}, cost : Nat]]
  /\ connector \in [Connectors -> ConnectorStatus]
  /\ intent \in [Sessions -> [status : IntentStatus \cup {"NONE"}, version : Nat]]
  /\ receipt \in [Sessions -> BOOLEAN]
  /\ charger \in [Sessions -> ChargerStatus]
  /\ \A w \in Workers : worker[w].op \in Ops \cup {"idle"}

\* A connector never has two active sessions, even though the charge point and an operator set it
\* AVAILABLE while it has one; and when only sessions write it, it is available if it has none, and
\* reserved or occupied only if it has one, in whatever order requests, meter values, disconnections
\* and failures write the two rows (create, charging_sessions_connector_active_key).
ConnectorIsShared ==
  \A c \in Connectors :
    LET here == {s \in Sessions : ActiveSession(s) /\ session[s].connector = c}
    IN /\ Cardinality(here) <= 1
       /\ statusWrites = 0 =>
            /\ connector[c] = "AVAILABLE" => here = {}
            /\ connector[c] \in {"RESERVED", "OCCUPIED"} => here # {}

\* What the intent and the receipt of a session say of its money is true of
\* its reservation, in every state between two steps of concurrent handlers;
\* an intent that failed has money reserved only if the database failed too
\* (authorize, whose catch block does not look at the reservation).
IntentMatchesMoney ==
  \A s \in Sessions :
    LET held == reservation[s].status IN
    /\ intent[s].status \in {"NONE", "CREATED"} => held = "NONE"
    /\ intent[s].status = "FAILED" => held = "NONE" \/ (errors > 0 /\ held # "CAPTURED")
    /\ intent[s].status = "AUTHORIZED" => held # "NONE"
    /\ intent[s].status = "CAPTURED" => held = "CAPTURED"
    /\ intent[s].status = "CANCELLED" => held # "RESERVED"
    /\ intent[s].status = "REQUIRES_REVIEW" => held # "CAPTURED"
    /\ receipt[s] => intent[s].status = "CAPTURED"

\* The driver pays exactly the cost of a session that was completed, out of
\* what was reserved, and nothing for any other session.
PaysForCompleted ==
  \A s \in Sessions :
    reservation[s].status = "CAPTURED" =>
      /\ session[s].status = "COMPLETED"
      /\ reservation[s].captured = session[s].cost

\* A handler that works from a stale read never undoes what another committed:
\* every write of a session follows the state machine and raises the version,
\* the cost of a finished session is final, an intent follows its own machine.
WritesFollowLifecycle ==
  [][\A s \in Sessions :
       /\ session[s].status # "NONE" /\ session'[s] # session[s] =>
            /\ LegalSessionMove(session[s].status, session'[s].status)
            /\ ~TerminalSession(session[s].status)
            /\ session'[s].version = session[s].version + 1
       /\ intent[s].status # "NONE" /\ intent'[s] # intent[s] =>
            /\ intent'[s].status \in IntentTransitions[intent[s].status]
            /\ intent'[s].version = intent[s].version + 1]_vars

\* The money of a session as SettlementContract sees it.
Bill ==
  [s \in Sessions |->
    [phase |-> CASE session[s].status = "COMPLETED" -> "completed"
                 [] session[s].status \in {"FAILED", "CANCELLED"} -> "failed"
                 [] OTHER -> "open",
     price |-> session[s].cost,
     money |-> CASE reservation[s].status = "NONE"     -> "none"
                 [] reservation[s].status = "RESERVED" -> "held"
                 [] reservation[s].status = "CAPTURED" -> "charged"
                 [] reservation[s].status = "RELEASED" -> "returned",
     paid |-> reservation[s].captured]]

Contract == INSTANCE SettlementContract
              WITH bill <- Bill, Hold <- PreAuth, Prices <- Costs

\* However handlers interleave, crash or find stale rows, every step of the
\* code is a step of the contract or invisible to it: money is reserved only
\* for a session that has not ended, no session completes without it, what is
\* reserved is captured or released at most once and only after the end, and
\* only the cost of a completed session is captured.
ContractSpec == Contract!Spec

\* Each step uses the wallet and its ledger through one operation at a time,
\* with the amounts those operations accept.
LedgerSpec == Ledger!Spec

\* No handler is working on session s: those it had have ended or crashed.
Handled(s) == \A w \in Workers : worker[w].s # s

\* Money reserved for a session that has ended does not stay reserved: some
\* handler captures it or gives it back, or marks a cost that exceeds it for
\* review.  An error of the database that a catch block of create, start or stop
\* sees is no exception; one that ends the handler of a charger event, or
\* failSession itself, is, and so is a crash: nothing repeats what they did
\* (completeSession, failSession, serializableTransaction).
EndedSessionsSettle ==
  \A s \in Sessions :
    session[s].status \in {"COMPLETED", "FAILED"} ~>
      \/ reservation[s].status # "RESERVED"
      \/ intent[s].status = "REQUIRES_REVIEW" /\ ~Capturable(session[s].cost)
      \/ crashes > 0 \/ s \in abandoned

\* docs/architecture/payments-wallet-phase5.md, step 5: when a session is
\* completed its reservation is captured up to the final cost.
CompletedIsCharged ==
  \A s \in Sessions :
    (session[s].status = "COMPLETED" /\ Capturable(session[s].cost) /\ Handled(s))
      => reservation[s].status = "CAPTURED"
=============================================================================
