---------------------------- MODULE OcppCentral ----------------------------
(***************************************************************************)
(* One charging session on an OCPP 1.6 charge point                        *)
(* (ocpp/ocpp16-central-system.service.ts, and as much of                  *)
(* charging/charging.service.ts as meets it).                              *)
(*                                                                         *)
(* A start or stop request of the driver becomes a remote command and      *)
(* waits, with a timer, for the StartTransaction or StopTransaction of the *)
(* charge point.  The charge point repeats a call until it has an answer.  *)
(* The calls of one connection are handled one after the other; after a    *)
(* reconnection those of the old one may still be handled.                 *)
(*                                                                         *)
(* Versions of rows are not counted: a handler that read a row is one of   *)
(* its readers until anybody writes the row, and a versioned write commits *)
(* only for a reader.                                                      *)
(***************************************************************************)
EXTENDS Integers, Lifecycles

CONSTANTS
  Handlers,   \* calls of the charge point handled at one time
  MaxMeter,   \* bound on the meter
  MaxCrashes  \* bound on crashes of the backend

ASSUME OcppAssumption == MaxMeter \in Nat \ {0} /\ MaxCrashes \in Nat

VARIABLES
  sess,         \* charging_sessions: status and meterStopWh
  sessReaders,  \* handlers whose read of the session is still current
  tx,           \* ocpp_transactions: status, meterStartWh, lastMeterWh, meterStopWh
  txReaders,    \* handlers whose read of the transaction is still current
  answer,       \* ocpp_messages: the stored answer to each call
  starter,      \* where the start request is
  stopper,      \* where the stop request is
  dropper,      \* where the handler of a lost connection is
  handler,      \* the calls being handled
  conn,         \* whether the charge point is connected
  cmd,          \* the remote command under way
  cp,           \* the charge point: its state, meter, and unanswered call
  crashes

session == <<sess, sessReaders>>
transaction == <<tx, txReaders>>
requests == <<starter, stopper>>
network == <<conn, cmd, cp>>
vars == <<session, transaction, answer, requests, dropper, handler, network, crashes>>

-----------------------------------------------------------------------------
(* Data *)

\* A meter that is null in the database is 0.
Meter == 0 .. MaxMeter

Calls == {"START", "METER", "STOP"} \X Meter
NoCall == <<"none", 0>>

\* NONE: no row yet.
TransactionStatus ==
  {"NONE", "REMOTE_START_PENDING", "ACTIVE", "STOPPING", "COMPLETED", "FAILED"}

NoCommand == [kind |-> "none", status |-> "none"]

Free == [op |-> "idle", call |-> NoCall, old |-> FALSE]

At(h, op)  == handler[h].op = op
Kind(h)    == handler[h].call[1]
Reading(h) == handler[h].call[2]

Goto(h, op) == handler' = [handler EXCEPT ![h].op = op]

WriteSession(row) == sess' = row /\ sessReaders' = {}
WriteTransaction(row) == tx' = row /\ txReaders' = {}

\* failSession: a session that has not ended fails.  (Its payment is cancelled in
\* any case: see ChargingSettlement.)
Fail ==
  IF TerminalSession(sess.status)
    THEN UNCHANGED session
    ELSE WriteSession([sess EXCEPT !.status = "FAILED"])

-----------------------------------------------------------------------------
(* A start request: ChargingService.start, startSession, sendCall, waitForStart *)

Start ==
  /\ sess.status = "AUTHORIZED" /\ starter = "idle"
  /\ WriteSession([sess EXCEPT !.status = "STARTING"])
  /\ starter' = "prepare"
  /\ UNCHANGED <<transaction, answer, stopper, dropper, handler, network, crashes>>

\* The transaction is created before the command is sent.
StartPrepare ==
  /\ starter = "prepare"
  /\ IF conn
       THEN /\ WriteTransaction([tx EXCEPT !.status = "REMOTE_START_PENDING"])
            /\ starter' = "send"
       ELSE starter' = "fail" /\ UNCHANGED transaction
  /\ UNCHANGED <<session, answer, stopper, dropper, handler, network, crashes>>

StartSend ==
  /\ starter = "send"
  /\ IF conn
       THEN starter' = "await" /\ cmd' = [kind |-> "start", status |-> "sent"]
       ELSE starter' = "error" /\ UNCHANGED cmd
  /\ UNCHANGED <<session, transaction, answer, stopper, dropper, handler, conn, cp, crashes>>

StartAnswered ==
  /\ starter = "await" /\ cmd.status \in {"Accepted", "Rejected"}
  /\ starter' = IF cmd.status = "Accepted" THEN "wait" ELSE "error"
  /\ UNCHANGED <<session, transaction, answer, stopper, dropper, handler, network, crashes>>

\* Faulty variant: an accepted command counts as a start.
StartTrusts ==
  /\ starter = "wait"
  /\ starter' = "commit"
  /\ UNCHANGED <<session, transaction, answer, stopper, dropper, handler, network, crashes>>

StartWaited ==
  /\ starter = "wait" /\ tx.status = "ACTIVE"
  /\ starter' = "commit"
  /\ UNCHANGED <<session, transaction, answer, stopper, dropper, handler, network, crashes>>

StartTimeout ==
  /\ starter \in {"await", "wait"}
  /\ starter' = "error"
  /\ UNCHANGED <<session, transaction, answer, stopper, dropper, handler, network, crashes>>

StartCommit ==
  /\ starter = "commit"
  /\ CASE sess.status = "STARTING" ->
            WriteSession([sess EXCEPT !.status = "CHARGING"]) /\ starter' = "idle"
       [] sess.status = "CHARGING" -> UNCHANGED session /\ starter' = "idle"
       [] OTHER -> UNCHANGED session /\ starter' = "fail"
  /\ UNCHANGED <<transaction, answer, stopper, dropper, handler, network, crashes>>

\* markTransactionFailed
MarkFailed ==
  IF tx.status \in {"REMOTE_START_PENDING", "STOPPING"}
    THEN WriteTransaction([tx EXCEPT !.status = "FAILED"])
    ELSE UNCHANGED transaction

StartError ==
  /\ starter = "error"
  /\ MarkFailed
  /\ starter' = "fail"
  /\ UNCHANGED <<session, answer, stopper, dropper, handler, network, crashes>>

StartFail ==
  /\ starter = "fail"
  /\ Fail
  /\ starter' = "idle"
  /\ UNCHANGED <<transaction, answer, stopper, dropper, handler, network, crashes>>

-----------------------------------------------------------------------------
(* A stop request: ChargingService.stop, stopSession, sendCall, waitForStop *)

Stop ==
  /\ sess.status = "CHARGING" /\ stopper.op = "idle"
  /\ WriteSession([sess EXCEPT !.status = "STOPPING"])
  /\ stopper' = [op |-> "read", meter |-> 0]
  /\ UNCHANGED <<transaction, answer, starter, dropper, handler, network, crashes>>

StopAt(op) == stopper.op = op
StopGoto(op) == stopper' = [stopper EXCEPT !.op = op]

StopRead ==
  /\ StopAt("read")
  /\ CASE tx.status = "COMPLETED" -> stopper' = [op |-> "complete", meter |-> tx.stop]
       [] tx.status # "COMPLETED" /\ conn -> StopGoto("mark")
       [] tx.status # "COMPLETED" /\ ~conn -> StopGoto("fail")
  /\ UNCHANGED <<session, transaction, answer, starter, dropper, handler, network, crashes>>

\* The update asks for no status and no version.
StopMark ==
  /\ StopAt("mark")
  /\ WriteTransaction([tx EXCEPT !.status = "STOPPING"])
  /\ StopGoto("send")
  /\ UNCHANGED <<session, answer, starter, dropper, handler, network, crashes>>

StopSend ==
  /\ StopAt("send")
  /\ IF conn
       THEN StopGoto("await") /\ cmd' = [kind |-> "stop", status |-> "sent"]
       ELSE StopGoto("error") /\ UNCHANGED cmd
  /\ UNCHANGED <<session, transaction, answer, starter, dropper, handler, conn, cp, crashes>>

StopAnswered ==
  /\ StopAt("await") /\ cmd.status \in {"Accepted", "Rejected"}
  /\ StopGoto(IF cmd.status = "Accepted" THEN "wait" ELSE "error")
  /\ UNCHANGED <<session, transaction, answer, starter, dropper, handler, network, crashes>>

\* Faulty variant: an accepted command counts as a stop.
StopTrusts ==
  /\ StopAt("wait")
  /\ stopper' = [op |-> "complete", meter |-> tx.last]
  /\ UNCHANGED <<session, transaction, answer, starter, dropper, handler, network, crashes>>

StopWaited ==
  /\ StopAt("wait") /\ tx.status = "COMPLETED"
  /\ stopper' = [op |-> "complete", meter |-> tx.stop]
  /\ UNCHANGED <<session, transaction, answer, starter, dropper, handler, network, crashes>>

StopTimeout ==
  /\ stopper.op \in {"await", "wait"}
  /\ StopGoto("error")
  /\ UNCHANGED <<session, transaction, answer, starter, dropper, handler, network, crashes>>

StopError ==
  /\ StopAt("error")
  /\ MarkFailed
  /\ StopGoto("fail")
  /\ UNCHANGED <<session, answer, starter, dropper, handler, network, crashes>>

StopFail ==
  /\ StopAt("fail")
  /\ Fail
  /\ StopGoto("idle")
  /\ UNCHANGED <<transaction, answer, starter, dropper, handler, network, crashes>>

\* completeSession: it may fail before it commits (a conflict) or after (settle).
Complete(meter) ==
  IF sess.status = "STOPPING"
    THEN WriteSession([status |-> "COMPLETED", stop |-> meter])
    ELSE sess.status = "COMPLETED" /\ UNCHANGED session

StopComplete ==
  /\ StopAt("complete")
  /\ \/ Complete(stopper.meter) /\ (StopGoto("idle") \/ StopGoto("fail"))
     \/ UNCHANGED session /\ StopGoto("fail")
  /\ UNCHANGED <<transaction, answer, starter, dropper, handler, network, crashes>>

-----------------------------------------------------------------------------
(* The charge point, outside of the backend *)

\* It accepts a start and begins a transaction of its own, or rejects it.
CpRemoteStart ==
  /\ conn /\ cmd = [kind |-> "start", status |-> "sent"]
  /\ \/ /\ cp.state = "idle"
        /\ cp' = [state |-> "on", meter |-> 1, asking |-> <<"START", 1>>]
        /\ cmd' = [cmd EXCEPT !.status = "Accepted"]
     \/ cmd' = [cmd EXCEPT !.status = "Rejected"] /\ UNCHANGED cp
  /\ UNCHANGED <<session, transaction, answer, requests, dropper, handler, conn, crashes>>

Ends == [cp EXCEPT !.state = "off", !.asking = <<"STOP", cp.meter>>]

\* It knows its transaction once StartTransaction was answered.
Running == cp.state = "on" /\ cp.asking[1] # "START"

CpRemoteStop ==
  /\ conn /\ cmd = [kind |-> "stop", status |-> "sent"]
  /\ IF Running
       THEN cp' = Ends /\ cmd' = [cmd EXCEPT !.status = "Accepted"]
       ELSE cmd' = [cmd EXCEPT !.status = "Rejected"] /\ UNCHANGED cp
  /\ UNCHANGED <<session, transaction, answer, requests, dropper, handler, conn, crashes>>

\* The driver unplugs, or the car is full.
CpStop ==
  /\ Running
  /\ cp' = Ends
  /\ UNCHANGED <<session, transaction, answer, requests, dropper, handler, conn, cmd, crashes>>

\* A new meter value; one that was not answered is given up.
CpMeter ==
  /\ Running /\ cp.meter < MaxMeter
  /\ cp' = [cp EXCEPT !.meter = @ + 1, !.asking = <<"METER", cp.meter + 1>>]
  /\ UNCHANGED <<session, transaction, answer, requests, dropper, handler, conn, cmd, crashes>>

\* A charge point whose StartTransaction is not accepted stops the energy.
CpAnswered ==
  /\ conn /\ cp.asking # NoCall /\ answer[cp.asking] # "none"
  /\ cp' = [cp EXCEPT !.asking = NoCall,
              !.state = IF cp.asking[1] = "START" /\ answer[cp.asking] # "ok"
                          THEN "off" ELSE @]
  /\ UNCHANGED <<session, transaction, answer, requests, dropper, handler, conn, cmd, crashes>>

-----------------------------------------------------------------------------
(* executeIncomingCall: an unanswered call that nobody handles is dispatched *)

Receive(h) ==
  /\ conn /\ At(h, "idle")
  /\ cp.asking # NoCall /\ answer[cp.asking] = "none"
  /\ \A g \in Handlers : At(g, "idle") \/ (handler[g].old /\ handler[g].call # cp.asking)
  /\ handler' = [handler EXCEPT ![h] = [op |-> "read", call |-> cp.asking, old |-> FALSE]]
  /\ UNCHANGED <<session, transaction, answer, requests, dropper, network, crashes>>

\* What the handler of a call does next with the transaction it reads.
StartFound(meter) ==
  CASE tx.status = "REMOTE_START_PENDING" -> "write"
    [] tx.status = "ACTIVE" -> IF meter < tx.start THEN "error" ELSE "ok"
    [] OTHER -> "invalid"

MeterFound(meter) ==
  IF tx.status \in {"ACTIVE", "STOPPING"} /\ meter >= tx.last THEN "write" ELSE "error"

StopFound(meter) ==
  IF tx.status = "COMPLETED" THEN "ok" ELSE IF meter < tx.last THEN "error" ELSE "write"

Found(h) ==
  CASE Kind(h) = "START" -> StartFound(Reading(h))
    [] Kind(h) = "METER" -> MeterFound(Reading(h))
    [] Kind(h) = "STOP"  -> StopFound(Reading(h))

ReadTransaction(h) ==
  /\ At(h, "read")
  /\ Goto(h, Found(h))
  /\ txReaders' = IF Found(h) = "write" THEN txReaders \cup {h} ELSE txReaders
  /\ UNCHANGED <<session, tx, answer, requests, dropper, network, crashes>>

Current(h) == h \in txReaders

\* handleStartTransaction
WriteStart(h) ==
  /\ At(h, "write") /\ Kind(h) = "START"
  /\ IF Current(h) /\ tx.status = "REMOTE_START_PENDING"
       THEN /\ WriteTransaction([tx EXCEPT !.status = "ACTIVE", !.start = Reading(h),
                                           !.last = Reading(h)])
            /\ Goto(h, "ok")
       ELSE Goto(h, "error") /\ UNCHANGED transaction
  /\ UNCHANGED <<session, answer, requests, dropper, network, crashes>>

\* handleMeterValues
WriteMeter(h) ==
  /\ At(h, "write") /\ Kind(h) = "METER"
  /\ IF Current(h)
       THEN WriteTransaction([tx EXCEPT !.last = Reading(h)]) /\ Goto(h, "event")
       ELSE Goto(h, "error") /\ UNCHANGED transaction
  /\ UNCHANGED <<session, answer, requests, dropper, network, crashes>>

\* handleStopTransaction: a write that fails is passed over, the call is accepted.
WriteStop(h) ==
  /\ At(h, "write") /\ Kind(h) = "STOP"
  /\ IF Current(h) /\ tx.status \in {"ACTIVE", "STOPPING"}
       THEN /\ WriteTransaction([tx EXCEPT !.status = "COMPLETED", !.last = Reading(h),
                                           !.stop = Reading(h)])
            /\ Goto(h, "event")
       ELSE Goto(h, "resolve") /\ UNCHANGED transaction
  /\ UNCHANGED <<session, answer, requests, dropper, network, crashes>>

\* The relay calls handleChargerEvent and waits for it.  A meter value is
\* recorded if the session is charging; that may conflict with another write.
MeterEvent(h) ==
  /\ At(h, "event") /\ Kind(h) = "METER"
  /\ \/ sess.status = "CHARGING" /\ WriteSession([sess EXCEPT !.stop = Reading(h)]) /\ Goto(h, "ok")
     \/ sess.status # "CHARGING" /\ UNCHANGED session /\ Goto(h, "ok")
     \/ sess.status = "CHARGING" /\ UNCHANGED session /\ Goto(h, "error")
  /\ UNCHANGED <<transaction, answer, requests, dropper, network, crashes>>

StoppedEvent(h) ==
  /\ At(h, "event") /\ Kind(h) = "STOP"
  /\ CASE sess.status = "COMPLETED" -> Goto(h, "resolve") /\ UNCHANGED sessReaders
       [] sess.status = "CHARGING" -> Goto(h, "stopping") /\ sessReaders' = sessReaders \cup {h}
       [] sess.status = "STOPPING" -> Goto(h, "complete") /\ UNCHANGED sessReaders
       [] OTHER -> Goto(h, "error") /\ UNCHANGED sessReaders
  /\ UNCHANGED <<sess, transaction, answer, requests, dropper, network, crashes>>

\* Faulty variant: the event moves the session it read, whatever it is now.
SessionStopsBlindly(h) ==
  /\ At(h, "stopping")
  /\ WriteSession([sess EXCEPT !.status = "STOPPING"]) /\ Goto(h, "complete")
  /\ UNCHANGED <<transaction, answer, requests, dropper, network, crashes>>

\* The transition is based on the session the event read first.
SessionStops(h) ==
  /\ At(h, "stopping")
  /\ IF h \in sessReaders
       THEN WriteSession([sess EXCEPT !.status = "STOPPING"]) /\ Goto(h, "complete")
       ELSE Goto(h, "error") /\ UNCHANGED session
  /\ UNCHANGED <<transaction, answer, requests, dropper, network, crashes>>

SessionCompletes(h) ==
  /\ At(h, "complete")
  /\ \/ Complete(Reading(h)) /\ (Goto(h, "resolve") \/ Goto(h, "error"))
     \/ UNCHANGED session /\ Goto(h, "error")
  /\ UNCHANGED <<transaction, answer, requests, dropper, network, crashes>>

\* resolveStop wakes the stop request, if it is waiting already.
Resolve(h) ==
  /\ At(h, "resolve")
  /\ stopper' = IF StopAt("wait") THEN [op |-> "complete", meter |-> Reading(h)] ELSE stopper
  /\ Goto(h, "ok")
  /\ UNCHANGED <<session, transaction, answer, starter, dropper, network, crashes>>

\* The answer is stored, also that of a call that failed.
Reply(h) ==
  /\ handler[h].op \in {"ok", "invalid", "error"}
  /\ answer' = [answer EXCEPT ![handler[h].call] = handler[h].op]
  /\ handler' = [handler EXCEPT ![h] = Free]
  /\ UNCHANGED <<session, transaction, requests, dropper, network, crashes>>

-----------------------------------------------------------------------------
(* Connections *)

Aged == [h \in Handlers |-> [handler[h] EXCEPT !.old = ~At(h, "idle")]]

Unsent == IF cmd.status = "sent" THEN NoCommand ELSE cmd

Disconnect ==
  /\ conn /\ dropper = "idle"
  /\ conn' = FALSE /\ cmd' = Unsent
  /\ handler' = Aged
  /\ dropper' = "find"
  /\ UNCHANGED <<session, transaction, answer, requests, cp, crashes>>

\* handleDisconnect looks for transactions under way ...
DropFind ==
  /\ dropper = "find"
  /\ dropper' = IF tx.status \in {"ACTIVE", "STOPPING"} THEN "mark" ELSE "idle"
  /\ UNCHANGED <<session, transaction, answer, requests, handler, network, crashes>>

\* ... and markRecoverableDisconnect notes it in their sessions.
DropMark ==
  /\ dropper = "mark"
  /\ IF sess.status \in {"CHARGING", "STOPPING"} THEN WriteSession(sess) ELSE UNCHANGED session
  /\ dropper' = "idle"
  /\ UNCHANGED <<transaction, answer, requests, handler, network, crashes>>

\* A new connection, after the old one was lost or in place of it.
Connect ==
  /\ conn' = TRUE /\ cmd' = Unsent
  /\ handler' = Aged
  /\ UNCHANGED <<session, transaction, answer, requests, dropper, cp, crashes>>

Crash ==
  /\ crashes < MaxCrashes
  /\ crashes' = crashes + 1
  /\ conn' = FALSE /\ cmd' = NoCommand
  /\ starter' = "idle" /\ stopper' = [op |-> "idle", meter |-> 0] /\ dropper' = "idle"
  /\ handler' = [h \in Handlers |-> Free]
  /\ sessReaders' = {} /\ txReaders' = {}
  /\ UNCHANGED <<sess, tx, answer, cp>>

-----------------------------------------------------------------------------

Init ==
  /\ sess = [status |-> "AUTHORIZED", stop |-> 0]
  /\ tx = [status |-> "NONE", start |-> 0, last |-> 0, stop |-> 0]
  /\ sessReaders = {} /\ txReaders = {}
  /\ answer = [c \in Calls |-> "none"]
  /\ starter = "idle" /\ stopper = [op |-> "idle", meter |-> 0] /\ dropper = "idle"
  /\ handler = [h \in Handlers |-> Free]
  /\ conn = TRUE /\ cmd = NoCommand
  /\ cp = [state |-> "idle", meter |-> 0, asking |-> NoCall]
  /\ crashes = 0

StartStep ==
  \/ StartPrepare \/ StartSend \/ StartAnswered \/ StartWaited \/ StartTimeout
  \/ StartCommit \/ StartError \/ StartFail

StopStep ==
  \/ StopRead \/ StopMark \/ StopSend \/ StopAnswered \/ StopWaited \/ StopTimeout
  \/ StopError \/ StopFail \/ StopComplete

CallStep(h) ==
  \/ ReadTransaction(h) \/ WriteStart(h) \/ WriteMeter(h) \/ WriteStop(h)
  \/ MeterEvent(h) \/ StoppedEvent(h) \/ SessionStops(h) \/ SessionCompletes(h)
  \/ Resolve(h) \/ Reply(h)

Next ==
  \/ Start \/ StartStep \/ Stop \/ StopStep
  \/ CpRemoteStart \/ CpRemoteStop \/ CpStop \/ CpMeter \/ CpAnswered
  \/ \E h \in Handlers : Receive(h) \/ CallStep(h)
  \/ Disconnect \/ DropFind \/ DropMark \/ Connect \/ Crash

Spec == Init /\ [][Next]_vars

-----------------------------------------------------------------------------
(* Properties *)

\* Every variable has its type, and a transaction does not end up below the meter it
\* started at (ocpp_transactions, and the states of the requests, calls and commands).
TypeOK ==
  /\ sess \in [status : SessionStatus, stop : Meter]
  /\ tx \in [status : TransactionStatus, start : Meter, last : Meter, stop : Meter]
  /\ tx.start <= tx.last
  /\ sessReaders \subseteq Handlers /\ txReaders \subseteq Handlers
  /\ answer \in [Calls -> {"none", "ok", "invalid", "error"}]
  /\ starter \in {"idle", "prepare", "send", "await", "wait", "commit", "error", "fail"}
  /\ stopper.op \in
       {"idle", "read", "mark", "send", "await", "wait", "complete", "error", "fail"}
  /\ stopper.meter \in Meter
  /\ dropper \in {"idle", "find", "mark"}
  /\ handler \in
       [Handlers -> [op : {"idle", "read", "write", "event", "stopping", "complete",
                           "resolve", "ok", "invalid", "error"},
                     call : Calls \cup {NoCall}, old : BOOLEAN]]
  /\ conn \in BOOLEAN
  /\ cmd \in [kind : {"none", "start", "stop"},
              status : {"none", "sent", "Accepted", "Rejected"}]
  /\ cp \in [state : {"idle", "on", "off"}, meter : Meter, asking : Calls \cup {NoCall}]
  /\ crashes \in 0 .. MaxCrashes

\* A session is charging, and a charge point delivers energy, only on a transaction
\* whose StartTransaction is committed: neither the acceptance of the remote
\* command nor a repeated or late call is enough (startSession, waitForStart,
\* executeIncomingCall).
ChargingIsStarted ==
  /\ sess.status \in {"CHARGING", "STOPPING", "COMPLETED"} => tx.start # 0
  /\ Running => tx.start # 0

\* A session is completed with the meter at which the charge point stopped, whoever
\* completes it, the stop request or the call, and in whatever order (stopSession,
\* waitForStop, handleStopTransaction, completeSession).
CompletedIsMetered ==
  sess.status = "COMPLETED" => cp.state = "off" /\ sess.stop = cp.meter

\* Nothing goes backwards, though each request, each call (of an old connection besides those of
\* the new one) and each lost connection has read what it writes some time before: the session
\* moves along the legal transitions of its lifecycle and never out of its end, the recorded meter
\* never falls and the start of a transaction is recorded once (transition,
\* assertChargingSessionTransition, the versioned updates of the handlers).
OnlyForward ==
  [][/\ sess.status' # sess.status => LegalSessionMove(sess.status, sess.status')
     /\ tx.last' >= tx.last
     /\ tx.start # 0 => tx.start' = tx.start]_vars
=============================================================================
