------------------------------ MODULE OcppProofs ------------------------------
(***************************************************************************)
(* Proofs about the charge points: about one charging session on one       *)
(* (OcppCentral) and about its connections and calls (OcppConnections),    *)
(* for any number of handlers, meter values, connections, calls and        *)
(* crashes.                                                                *)
(***************************************************************************)
EXTENDS OcppCentral, OcppConnections, TLAPS

-----------------------------------------------------------------------------
(***************************************************************************)
(* A charging session.  A transaction is started once, by the call the     *)
(* charge point begins with; whatever else a handler, a request or a lost  *)
(* connection relies on follows from that, or from what the charge point   *)
(* is done with: its state "off" and its last meter are final.             *)
(***************************************************************************)

HandlerOps == {"idle", "read", "write", "event", "stopping", "complete", "resolve",
               "ok", "invalid", "error"}

StartOps == {"idle", "prepare", "send", "await", "wait", "commit", "error", "fail"}

StopOps == {"idle", "read", "mark", "send", "await", "wait", "complete", "error", "fail"}

\* The types, part by part.
RowTypes ==
  /\ sess \in [status : SessionStatus, stop : Meter]
  /\ tx \in [status : TransactionStatus, start : Meter, last : Meter, stop : Meter]
  /\ tx.start <= tx.last
  /\ sessReaders \subseteq Handlers /\ txReaders \subseteq Handlers
  /\ answer \in [Calls -> {"none", "ok", "invalid", "error"}]

RequestTypes ==
  /\ starter \in StartOps
  /\ stopper \in [op : StopOps, meter : Meter]
  /\ dropper \in {"idle", "find", "mark"}

HandlerTypes ==
  handler \in [Handlers -> [op : HandlerOps, call : Calls \cup {NoCall}, old : BOOLEAN]]

NetworkTypes ==
  /\ conn \in BOOLEAN
  /\ cmd \in [kind : {"none", "start", "stop"},
              status : {"none", "sent", "Accepted", "Rejected"}]
  /\ cp \in [state : {"idle", "on", "off"}, meter : Meter, asking : Calls \cup {NoCall}]
  /\ crashes \in 0 .. MaxCrashes

\* The session is made for one start, which finds no transaction yet.
StartsOnce ==
  /\ sess.status = "AUTHORIZED" \/ starter = "prepare" => tx.status = "NONE"
  /\ starter # "idle" => sess.status # "AUTHORIZED"
  /\ tx.status \in {"NONE", "REMOTE_START_PENDING"} => tx.start = 0 /\ tx.last = 0
  /\ tx.status \in {"ACTIVE", "STOPPING", "COMPLETED"} => tx.start # 0

\* The calls are those of the charge point, each with the meter it had then.
CallsAreReal ==
  /\ cp.state = "on" => cp.meter # 0
  /\ cp.asking # NoCall => cp.asking[2] # 0
  /\ \A h \in Handlers :
       /\ handler[h].op # "idle" => handler[h].call \in Calls /\ Reading(h) # 0
       /\ handler[h].op = "event" => Kind(h) \in {"METER", "STOP"}
       /\ handler[h].op \in {"stopping", "complete", "resolve"} => Kind(h) = "STOP"

\* What rests on a StartTransaction that is committed.
RestsOnStart ==
  /\ ChargingIsStarted
  /\ starter = "commit" => tx.start # 0
  /\ stopper.op # "idle" => tx.start # 0
  /\ \A m \in Meter : answer[<<"START", m>>] = "ok" => tx.start # 0
  /\ \A h \in Handlers : At(h, "ok") /\ Kind(h) = "START" => tx.start # 0

\* Where the charge point stopped, which is final.
StoppedAt(meter) == cp.state = "off" /\ meter = cp.meter

\* What knows of the end knows that meter.
RestsOnStop ==
  /\ CompletedIsMetered
  /\ tx.status = "COMPLETED" => StoppedAt(tx.stop)
  /\ stopper.op = "complete" => StoppedAt(stopper.meter)
  /\ cp.asking[1] = "STOP" => StoppedAt(cp.asking[2])
  /\ \A h \in Handlers : Kind(h) = "STOP" => StoppedAt(Reading(h))

\* A reader is where its read would lead it now.
ReadersAreCurrent ==
  \A h \in Handlers :
    /\ At(h, "write") /\ Current(h) => Found(h) = "write"
    /\ At(h, "stopping") /\ h \in sessReaders => sess.status = "CHARGING"

OcppInv ==
  /\ RowTypes /\ RequestTypes /\ HandlerTypes /\ NetworkTypes
  /\ StartsOnce /\ CallsAreReal /\ RestsOnStart /\ RestsOnStop /\ ReadersAreCurrent

LEMMA InvImpliesTypeOK == OcppInv => TypeOK
BY DEF OcppInv, TypeOK, RowTypes, RequestTypes, HandlerTypes, NetworkTypes, StartOps, StopOps,
       HandlerOps

LEMMA SessionMoves ==
  /\ SessionStatus = {"PENDING", "AUTHORIZED", "STARTING", "CHARGING", "STOPPING",
                      "COMPLETED", "FAILED", "CANCELLED"}
  /\ \A s \in SessionStatus :
       TerminalSession(s) <=> s \in {"COMPLETED", "FAILED", "CANCELLED"}
BY DEF SessionStatus, TerminalSession, SessionTransitions

\* A step keeps each part of the invariant whose variables it leaves as they are.
LEMMA Undisturbed ==
  ASSUME OcppInv
  PROVE  /\ UNCHANGED <<session, transaction, answer>> => RowTypes'
         /\ UNCHANGED <<requests, dropper>> => RequestTypes'
         /\ UNCHANGED handler => HandlerTypes'
         /\ UNCHANGED <<network, crashes>> => NetworkTypes'
         /\ UNCHANGED <<sess, tx, starter>> => StartsOnce'
         /\ UNCHANGED <<handler, cp>> => CallsAreReal'
         /\ UNCHANGED <<sess, tx, answer, requests, handler, cp>> => RestsOnStart'
         /\ UNCHANGED <<sess, tx, stopper, handler, cp>> => RestsOnStop'
         /\ /\ UNCHANGED handler
            /\ sessReaders' = {} \/ UNCHANGED session
            /\ txReaders' = {} \/ UNCHANGED transaction
            => ReadersAreCurrent'
<1> USE DEF OcppInv, session, transaction, requests, network
<1>1. UNCHANGED <<session, transaction, answer>> => RowTypes'
  BY DEF RowTypes
<1>2. UNCHANGED <<requests, dropper>> => RequestTypes'
  BY DEF RequestTypes
<1>3. UNCHANGED handler => HandlerTypes'
  BY DEF HandlerTypes
<1>4. UNCHANGED <<network, crashes>> => NetworkTypes'
  BY DEF NetworkTypes
<1>5. UNCHANGED <<sess, tx, starter>> => StartsOnce'
  BY DEF StartsOnce
<1>6. UNCHANGED <<handler, cp>> => CallsAreReal'
  BY DEF CallsAreReal, Reading, Kind
<1>7. UNCHANGED <<sess, tx, answer, requests, handler, cp>> => RestsOnStart'
  BY DEF RestsOnStart, ChargingIsStarted, Running, At, Kind
<1>8. UNCHANGED <<sess, tx, stopper, handler, cp>> => RestsOnStop'
  BY DEF RestsOnStop, CompletedIsMetered, StoppedAt, Kind, Reading
<1>9. ASSUME UNCHANGED handler, sessReaders' = {} \/ UNCHANGED session,
             txReaders' = {} \/ UNCHANGED transaction
      PROVE  ReadersAreCurrent'
  BY <1>9 DEF ReadersAreCurrent, At, Current, Found, StartFound, MeterFound, StopFound, Kind, Reading
<1> QED BY <1>1, <1>2, <1>3, <1>4, <1>5, <1>6, <1>7, <1>8, <1>9

\* The start request.
LEMMA StartSteps ==
  ASSUME OcppInv, Start \/ StartStep
  PROVE  OcppInv'
<1> USE SessionMoves DEF OcppInv, session, transaction, requests, network, RowTypes, RequestTypes
<1>1. CASE Start
  <2>1. RowTypes'
    BY <1>1 DEF Start, Meter, TransactionStatus, WriteSession
  <2>2. RequestTypes'
    BY <1>1 DEF Start, StartOps
  <2>3. StartsOnce'
    BY <1>1 DEF Start, StartsOnce, WriteSession
  <2>4. RestsOnStart'
    BY <1>1 DEF Start, RestsOnStart, ChargingIsStarted, Running, At, Kind, WriteSession
  <2>5. RestsOnStop'
    BY <1>1 DEF Start, RestsOnStop, CompletedIsMetered, StoppedAt, Kind, Reading, WriteSession
  <2> QED
    BY <1>1, <2>1, <2>2, <2>3, <2>4, <2>5, Undisturbed DEF Start, WriteSession
<1>2. CASE StartPrepare
  <2>1. RowTypes'
    BY <1>2 DEF StartPrepare, Meter, TransactionStatus, WriteTransaction
  <2>2. RequestTypes'
    BY <1>2 DEF StartPrepare, StartOps
  <2>3. StartsOnce'
    BY <1>2 DEF StartPrepare, StartsOnce, WriteTransaction
  <2>4. RestsOnStart'
    BY <1>2 DEF StartPrepare, RestsOnStart, ChargingIsStarted, Running, At, Kind, WriteTransaction
  <2>5. RestsOnStop'
    BY <1>2 DEF StartPrepare, RestsOnStop, CompletedIsMetered, StoppedAt, Kind, Reading,
       WriteTransaction
  <2> QED
    BY <1>2, <2>1, <2>2, <2>3, <2>4, <2>5, Undisturbed DEF StartPrepare, WriteTransaction
<1>3. CASE StartSend
  <2>1. RequestTypes'
    BY <1>3 DEF StartSend, StartOps
  <2>2. NetworkTypes'
    BY <1>3 DEF StartSend, NetworkTypes
  <2>3. StartsOnce'
    BY <1>3 DEF StartSend, StartsOnce
  <2>4. RestsOnStart'
    BY <1>3 DEF StartSend, RestsOnStart, ChargingIsStarted, Running, At, Kind
  <2> QED
    BY <1>3, <2>1, <2>2, <2>3, <2>4, Undisturbed DEF StartSend
<1>4. CASE StartAnswered
  <2>1. RequestTypes'
    BY <1>4 DEF StartAnswered, StartOps
  <2>2. StartsOnce'
    BY <1>4 DEF StartAnswered, StartsOnce
  <2>3. RestsOnStart'
    BY <1>4 DEF StartAnswered, RestsOnStart, ChargingIsStarted, Running, At, Kind
  <2> QED
    BY <1>4, <2>1, <2>2, <2>3, Undisturbed DEF StartAnswered
<1>5. CASE StartWaited
  <2>1. RequestTypes'
    BY <1>5 DEF StartWaited, StartOps
  <2>2. StartsOnce'
    BY <1>5 DEF StartWaited, StartsOnce
  <2>3. RestsOnStart'
    BY <1>5 DEF StartWaited, RestsOnStart, ChargingIsStarted, Running, At, Kind, StartsOnce
  <2> QED
    BY <1>5, <2>1, <2>2, <2>3, Undisturbed DEF StartWaited
<1>6. CASE StartTimeout
  <2>1. RequestTypes'
    BY <1>6 DEF StartTimeout, StartOps
  <2>2. StartsOnce'
    BY <1>6 DEF StartTimeout, StartsOnce
  <2>3. RestsOnStart'
    BY <1>6 DEF StartTimeout, RestsOnStart, ChargingIsStarted, Running, At, Kind
  <2> QED
    BY <1>6, <2>1, <2>2, <2>3, Undisturbed DEF StartTimeout
<1>7. CASE StartCommit
  <2>1. RowTypes'
    BY <1>7 DEF StartCommit, Meter, TransactionStatus, WriteSession
  <2>2. RequestTypes'
    BY <1>7 DEF StartCommit, StartOps
  <2>3. StartsOnce'
    BY <1>7 DEF StartCommit, StartsOnce, WriteSession
  <2>4. RestsOnStart'
    BY <1>7 DEF StartCommit, RestsOnStart, ChargingIsStarted, Running, At, Kind, WriteSession
  <2>5. RestsOnStop'
    BY <1>7 DEF StartCommit, RestsOnStop, CompletedIsMetered, StoppedAt, Kind, Reading, WriteSession
  <2> QED
    BY <1>7, <2>1, <2>2, <2>3, <2>4, <2>5, Undisturbed DEF StartCommit, WriteSession
<1>8. CASE StartError
  <2>1. RowTypes'
    BY <1>8 DEF StartError, Meter, TransactionStatus, MarkFailed, WriteTransaction
  <2>2. RequestTypes'
    BY <1>8 DEF StartError, StartOps
  <2>3. StartsOnce'
    BY <1>8 DEF StartError, StartsOnce, MarkFailed, WriteTransaction
  <2>4. RestsOnStart'
    BY <1>8 DEF StartError, RestsOnStart, ChargingIsStarted, Running, At, Kind, MarkFailed,
       WriteTransaction
  <2>5. RestsOnStop'
    BY <1>8 DEF StartError, RestsOnStop, CompletedIsMetered, StoppedAt, Kind, Reading, MarkFailed,
       WriteTransaction
  <2> QED
    BY <1>8, <2>1, <2>2, <2>3, <2>4, <2>5, Undisturbed DEF StartError, MarkFailed, WriteTransaction
<1>9. CASE StartFail
  <2>1. RowTypes'
    BY <1>9 DEF StartFail, Meter, TransactionStatus, Fail, WriteSession
  <2>2. RequestTypes'
    BY <1>9 DEF StartFail, StartOps
  <2>3. StartsOnce'
    BY <1>9 DEF StartFail, StartsOnce, Fail, WriteSession
  <2>4. RestsOnStart'
    BY <1>9 DEF StartFail, RestsOnStart, ChargingIsStarted, Running, At, Kind, Fail, WriteSession
  <2>5. RestsOnStop'
    BY <1>9 DEF StartFail, RestsOnStop, CompletedIsMetered, StoppedAt, Kind, Reading, Fail,
       WriteSession
  <2> QED
    BY <1>9, <2>1, <2>2, <2>3, <2>4, <2>5, Undisturbed DEF StartFail, Fail, WriteSession
<1> QED
  BY <1>1, <1>2, <1>3, <1>4, <1>5, <1>6, <1>7, <1>8, <1>9 DEF StartStep

\* The stop request.
LEMMA StopSteps ==
  ASSUME OcppInv, Stop \/ StopStep
  PROVE  OcppInv'
<1> USE SessionMoves DEF OcppInv, session, transaction, requests, network, RowTypes, RequestTypes
<1>1. CASE Stop
  <2>1. RowTypes'
    BY <1>1 DEF Stop, Meter, TransactionStatus, WriteSession
  <2>2. RequestTypes'
    BY <1>1, OcppAssumption DEF Stop, StopOps, Meter
  <2>3. StartsOnce'
    BY <1>1 DEF Stop, StartsOnce, WriteSession
  <2>4. RestsOnStart'
    BY <1>1 DEF Stop, RestsOnStart, ChargingIsStarted, Running, At, Kind, WriteSession
  <2>5. RestsOnStop'
    BY <1>1 DEF Stop, RestsOnStop, CompletedIsMetered, StoppedAt, Kind, Reading, WriteSession
  <2> QED
    BY <1>1, <2>1, <2>2, <2>3, <2>4, <2>5, Undisturbed DEF Stop, WriteSession
<1>2. CASE StopRead
  <2>1. \/ tx.status = "COMPLETED" /\ stopper' = [op |-> "complete", meter |-> tx.stop]
        \/ stopper' = [stopper EXCEPT !.op = "mark"]
        \/ stopper' = [stopper EXCEPT !.op = "fail"]
    BY <1>2 DEF StopRead, StopGoto
  <2>2. RequestTypes'
    BY <1>2, <2>1 DEF StopRead, StopOps
  <2>3. RestsOnStart'
    BY <1>2 DEF StopRead, RestsOnStart, ChargingIsStarted, Running, At, Kind, StopAt
  <2>4. RestsOnStop'
    BY <1>2, <2>1 DEF StopRead, RestsOnStop, CompletedIsMetered, StoppedAt, Kind, Reading
  <2> QED
    BY <1>2, <2>2, <2>3, <2>4, Undisturbed DEF StopRead
<1>3. CASE StopMark
  <2>1. RowTypes'
    BY <1>3 DEF StopMark, Meter, TransactionStatus, WriteTransaction, StopAt
  <2>2. RequestTypes'
    BY <1>3 DEF StopMark, StopOps, StopAt, StopGoto
  <2>3. StartsOnce'
    BY <1>3 DEF StopMark, StartsOnce, RestsOnStart, WriteTransaction, StopAt, StopGoto
  <2>4. RestsOnStart'
    BY <1>3 DEF StopMark, RestsOnStart, ChargingIsStarted, Running, At, Kind, WriteTransaction,
       StopAt, StopGoto
  <2>5. RestsOnStop'
    BY <1>3 DEF StopMark, RestsOnStop, CompletedIsMetered, StoppedAt, Kind, Reading,
       WriteTransaction, StopAt, StopGoto
  <2> QED
    BY <1>3, <2>1, <2>2, <2>3, <2>4, <2>5, Undisturbed DEF StopMark, WriteTransaction
<1>4. CASE StopSend
  <2>1. RequestTypes'
    BY <1>4 DEF StopSend, StopOps, StopAt, StopGoto
  <2>2. NetworkTypes'
    BY <1>4 DEF StopSend, NetworkTypes
  <2>3. RestsOnStart'
    BY <1>4 DEF StopSend, RestsOnStart, ChargingIsStarted, Running, At, Kind, StopAt, StopGoto
  <2>4. RestsOnStop'
    BY <1>4 DEF StopSend, RestsOnStop, CompletedIsMetered, StoppedAt, Kind, Reading, StopAt,
       StopGoto
  <2> QED
    BY <1>4, <2>1, <2>2, <2>3, <2>4, Undisturbed DEF StopSend
<1>5. CASE StopAnswered
  <2>1. RequestTypes'
    BY <1>5 DEF StopAnswered, StopOps, StopAt, StopGoto
  <2>2. RestsOnStart'
    BY <1>5 DEF StopAnswered, RestsOnStart, ChargingIsStarted, Running, At, Kind, StopAt, StopGoto
  <2>3. RestsOnStop'
    BY <1>5 DEF StopAnswered, RestsOnStop, CompletedIsMetered, StoppedAt, Kind, Reading, StopAt,
       StopGoto
  <2> QED
    BY <1>5, <2>1, <2>2, <2>3, Undisturbed DEF StopAnswered
<1>6. CASE StopWaited
  <2>1. RequestTypes'
    BY <1>6 DEF StopWaited, StopOps, StopAt, StopGoto
  <2>2. RestsOnStart'
    BY <1>6 DEF StopWaited, RestsOnStart, ChargingIsStarted, Running, At, Kind, StopAt, StopGoto
  <2>3. RestsOnStop'
    BY <1>6 DEF StopWaited, RestsOnStop, CompletedIsMetered, StoppedAt, Kind, Reading, StopAt,
       StopGoto
  <2> QED
    BY <1>6, <2>1, <2>2, <2>3, Undisturbed DEF StopWaited
<1>7. CASE StopTimeout
  <2>1. RequestTypes'
    BY <1>7 DEF StopTimeout, StopOps, StopAt, StopGoto
  <2>2. RestsOnStart'
    BY <1>7 DEF StopTimeout, RestsOnStart, ChargingIsStarted, Running, At, Kind, StopAt, StopGoto
  <2>3. RestsOnStop'
    BY <1>7 DEF StopTimeout, RestsOnStop, CompletedIsMetered, StoppedAt, Kind, Reading, StopAt,
       StopGoto
  <2> QED
    BY <1>7, <2>1, <2>2, <2>3, Undisturbed DEF StopTimeout
<1>8. CASE StopError
  <2>1. RowTypes'
    BY <1>8 DEF StopError, Meter, TransactionStatus, StopAt, MarkFailed, WriteTransaction
  <2>2. RequestTypes'
    BY <1>8 DEF StopError, StopOps, StopAt, StopGoto
  <2>3. StartsOnce'
    BY <1>8 DEF StopError, StartsOnce, StopAt, StopGoto, MarkFailed, WriteTransaction
  <2>4. RestsOnStart'
    BY <1>8 DEF StopError, RestsOnStart, ChargingIsStarted, Running, At, Kind, StopAt, StopGoto,
       MarkFailed, WriteTransaction
  <2>5. RestsOnStop'
    BY <1>8 DEF StopError, RestsOnStop, CompletedIsMetered, StoppedAt, Kind, Reading, StopAt,
       StopGoto, MarkFailed, WriteTransaction
  <2> QED
    BY <1>8, <2>1, <2>2, <2>3, <2>4, <2>5, Undisturbed DEF StopError, MarkFailed, WriteTransaction
<1>9. CASE StopFail
  <2>1. RowTypes'
    BY <1>9 DEF StopFail, Meter, TransactionStatus, StopAt, Fail, WriteSession
  <2>2. RequestTypes'
    BY <1>9 DEF StopFail, StopOps, StopAt, StopGoto
  <2>3. StartsOnce'
    BY <1>9 DEF StopFail, StartsOnce, StopAt, StopGoto, Fail, WriteSession
  <2>4. RestsOnStart'
    BY <1>9 DEF StopFail, RestsOnStart, ChargingIsStarted, Running, At, Kind, StopAt, StopGoto,
       Fail, WriteSession
  <2>5. RestsOnStop'
    BY <1>9 DEF StopFail, RestsOnStop, CompletedIsMetered, StoppedAt, Kind, Reading, StopAt,
       StopGoto, Fail, WriteSession
  <2> QED
    BY <1>9, <2>1, <2>2, <2>3, <2>4, <2>5, Undisturbed DEF StopFail, Fail, WriteSession
<1>10. CASE StopComplete
  <2>1. RowTypes'
    BY <1>10 DEF StopComplete, Meter, TransactionStatus, StopAt, Complete, WriteSession
  <2>2. RequestTypes'
    BY <1>10 DEF StopComplete, StopOps, StopAt, StopGoto
  <2>3. StartsOnce'
    BY <1>10 DEF StopComplete, StartsOnce, StopAt, StopGoto, Complete, WriteSession
  <2>4. RestsOnStart'
    BY <1>10 DEF StopComplete, RestsOnStart, ChargingIsStarted, Running, At, Kind, StopAt, StopGoto,
       Complete, WriteSession
  <2>5. RestsOnStop'
    BY <1>10 DEF StopComplete, RestsOnStop, CompletedIsMetered, StoppedAt, Kind, Reading, StopAt,
       StopGoto, Complete, WriteSession
  <2> QED
    BY <1>10, <2>1, <2>2, <2>3, <2>4, <2>5, Undisturbed DEF StopComplete, Complete, WriteSession
<1> QED
  BY <1>1, <1>2, <1>3, <1>4, <1>5, <1>6, <1>7, <1>8, <1>9, <1>10 DEF StopStep

\* A charge point that runs has a meter, so that its last call is a real one.
LEMMA Ending ==
  ASSUME OcppInv, Running, cp' = Ends,
         UNCHANGED <<session, transaction, answer, requests, handler>>
  PROVE  /\ cp' \in [state : {"idle", "on", "off"}, meter : Meter, asking : Calls \cup {NoCall}]
         /\ CallsAreReal' /\ RestsOnStart' /\ RestsOnStop'
<1> USE DEF OcppInv, session, transaction, requests
<1>1. cp.state = "on" /\ cp.meter \in Meter /\ cp.meter # 0
  BY DEF Running, NetworkTypes, CallsAreReal
<1>2. cp' = [state |-> "off", meter |-> cp.meter, asking |-> <<"STOP", cp.meter>>]
  BY DEF Ends, NetworkTypes
<1>3. <<"STOP", cp.meter>> \in Calls
  BY <1>1 DEF Calls
<1>4. CallsAreReal'
  BY <1>1, <1>2 DEF CallsAreReal, Kind, Reading
<1>5. RestsOnStart'
  BY <1>2 DEF RestsOnStart, ChargingIsStarted, Running, At, Kind
<1>6. RestsOnStop'
  BY <1>1, <1>2 DEF RestsOnStop, CompletedIsMetered, StoppedAt, Kind, Reading
<1> QED BY <1>1, <1>2, <1>3, <1>4, <1>5, <1>6

\* The charge point.  It starts once and, having stopped, never moves again.
LEMMA ChargePointSteps ==
  ASSUME OcppInv, CpRemoteStart \/ CpRemoteStop \/ CpStop \/ CpMeter \/ CpAnswered
  PROVE  OcppInv'
<1> USE OcppAssumption DEF OcppInv, session, transaction, requests, network
<1>1. CASE CpRemoteStart
  <2>1. NetworkTypes'
    BY <1>1 DEF CpRemoteStart, NetworkTypes, Calls, Meter
  <2>2. CallsAreReal'
    BY <1>1 DEF CpRemoteStart, CallsAreReal, NoCall, Kind, Reading
  <2>3. RestsOnStart'
    BY <1>1 DEF CpRemoteStart, RestsOnStart, ChargingIsStarted, Running, At, Kind
  <2>4. RestsOnStop'
    BY <1>1 DEF CpRemoteStart, RestsOnStop, CompletedIsMetered, StoppedAt, Kind, Reading
  <2> QED
    BY <1>1, <2>1, <2>2, <2>3, <2>4, Undisturbed DEF CpRemoteStart
<1>2. CASE CpRemoteStop
  <2>1. cmd' \in [kind : {"none", "start", "stop"},
                  status : {"none", "sent", "Accepted", "Rejected"}]
    BY <1>2 DEF CpRemoteStop, NetworkTypes
  <2>2. CASE Running
    BY <1>2, <2>1, <2>2, Ending, Undisturbed DEF CpRemoteStop, NetworkTypes
  <2>3. CASE ~Running
    BY <1>2, <2>1, <2>3, Undisturbed DEF CpRemoteStop, NetworkTypes
  <2> QED BY <2>2, <2>3
<1>3. CASE CpStop
  BY <1>3, Ending, Undisturbed DEF CpStop, NetworkTypes
<1>4. CASE CpMeter
  <2>1. cp' = [state |-> "on", meter |-> cp.meter + 1, asking |-> <<"METER", cp.meter + 1>>]
    BY <1>4 DEF CpMeter, Running, NetworkTypes
  <2>2. cp.meter + 1 \in Meter /\ cp.meter + 1 # 0
    BY <1>4 DEF CpMeter, NetworkTypes, Meter
  <2>3. <<"METER", cp.meter + 1>> \in Calls
    BY <2>2 DEF Calls
  <2>4. NetworkTypes'
    BY <1>4, <2>1, <2>2, <2>3 DEF CpMeter, NetworkTypes
  <2>5. CallsAreReal'
    BY <1>4, <2>1, <2>2 DEF CpMeter, CallsAreReal, Kind, Reading
  <2>6. RestsOnStart'
    BY <1>4, <2>1 DEF CpMeter, RestsOnStart, ChargingIsStarted, Running, At, Kind
  <2>7. RestsOnStop'
    BY <1>4, <2>1 DEF CpMeter, Running, RestsOnStop, CompletedIsMetered, StoppedAt, Kind, Reading
  <2> QED
    BY <1>4, <2>4, <2>5, <2>6, <2>7, Undisturbed DEF CpMeter
<1>5. CASE CpAnswered
  <2>1. NetworkTypes'
    BY <1>5 DEF CpAnswered, NetworkTypes
  <2>2. CallsAreReal'
    BY <1>5 DEF CpAnswered, NetworkTypes, CallsAreReal, Kind, Reading
  <2>3. RestsOnStart'
    BY <1>5 DEF CpAnswered, NetworkTypes, RestsOnStart, ChargingIsStarted, Running, At, Kind,
       Calls, NoCall
  <2>4. RestsOnStop'
    BY <1>5 DEF CpAnswered, NetworkTypes, RestsOnStop, CompletedIsMetered, StoppedAt, Kind,
       Reading, NoCall
  <2> QED
    BY <1>5, <2>1, <2>2, <2>3, <2>4, Undisturbed DEF CpAnswered
<1> QED
  BY <1>1, <1>2, <1>3, <1>4, <1>5

\* A handler that goes on to do, or to answer, something it need not have read anything for.
LEMMA CallGoes ==
  ASSUME OcppInv, NEW h \in Handlers, NEW op \in HandlerOps \ {"idle", "write", "stopping"},
         ~At(h, "idle"), Goto(h, op),
         UNCHANGED <<answer, requests, dropper, network, crashes>>,
         op = "event" => Kind(h) \in {"METER", "STOP"},
         op \in {"complete", "resolve"} => Kind(h) = "STOP",
         op = "ok" /\ Kind(h) = "START" => tx'.start # 0,
         RowTypes', StartsOnce',
         sessReaders' = {} \/ UNCHANGED session,
         txReaders' = {} \/ UNCHANGED transaction,
         tx.start # 0 => tx'.start # 0,
         sess'.status \in {"CHARGING", "STOPPING", "COMPLETED"} => tx'.start # 0,
         tx'.status = "COMPLETED" => StoppedAt(tx'.stop),
         sess'.status = "COMPLETED" => StoppedAt(sess'.stop)
  PROVE  OcppInv'
<1> USE DEF OcppInv, session, transaction, requests, network
<1>1. /\ HandlerTypes'
      /\ \A g \in Handlers :
           /\ handler'[g].call = handler[g].call
           /\ handler'[g].op = IF g = h THEN op ELSE handler[g].op
  BY DEF HandlerTypes, Goto
<1>2. \A g \in Handlers : Kind(g)' = Kind(g) /\ Reading(g)' = Reading(g)
  BY <1>1 DEF Kind, Reading
<1>3. CallsAreReal'
  BY <1>1, <1>2 DEF CallsAreReal, HandlerOps, At
<1>4. RestsOnStart'
  BY <1>1, <1>2 DEF RestsOnStart, ChargingIsStarted, Running, At
<1>5. RestsOnStop'
  BY <1>1, <1>2 DEF RestsOnStop, CompletedIsMetered, StoppedAt
<1>6. ReadersAreCurrent'
  <2>1. \A g \in Handlers \ {h} : /\ At(g, "write")' = At(g, "write")
                                /\ At(g, "stopping")' = At(g, "stopping")
    BY <1>1 DEF At
  <2>2. ~At(h, "write")' /\ ~At(h, "stopping")'
    BY <1>1 DEF At
  <2>3. UNCHANGED tx => \A g \in Handlers : Found(g)' = Found(g)
    BY <1>2 DEF Found, StartFound, MeterFound, StopFound
  <2> QED BY <2>1, <2>2, <2>3 DEF ReadersAreCurrent, Current
<1> QED BY <1>1, <1>3, <1>4, <1>5, <1>6, Undisturbed

\* The same of a handler that writes no row.
LEMMA CallGoesOn ==
  ASSUME OcppInv, NEW h \in Handlers, NEW op \in HandlerOps \ {"idle", "write", "stopping"},
         ~At(h, "idle"), Goto(h, op),
         UNCHANGED <<session, transaction, answer, requests, dropper, network, crashes>>,
         op = "event" => Kind(h) \in {"METER", "STOP"},
         op \in {"complete", "resolve"} => Kind(h) = "STOP",
         op = "ok" /\ Kind(h) = "START" => tx.start # 0
  PROVE  OcppInv'
<1>1. RowTypes' /\ StartsOnce'
  BY Undisturbed DEF session, transaction, requests
<1>2. /\ sess.status \in {"CHARGING", "STOPPING", "COMPLETED"} => tx.start # 0
      /\ tx.status = "COMPLETED" => StoppedAt(tx.stop)
      /\ sess.status = "COMPLETED" => StoppedAt(sess.stop)
  BY DEF OcppInv, RestsOnStart, RestsOnStop, ChargingIsStarted, CompletedIsMetered, StoppedAt
<1>3. sess' = sess /\ tx' = tx
  BY DEF session, transaction
<1> QED BY <1>1, <1>2, <1>3, CallGoes

\* The call a handler has is one of the charge point's.
LEMMA CallIsReal ==
  ASSUME OcppInv, NEW h \in Handlers, ~At(h, "idle")
  PROVE  /\ handler[h].call \in Calls
         /\ Kind(h) \in {"START", "METER", "STOP"}
         /\ Reading(h) \in Meter /\ Reading(h) # 0
         /\ Kind(h) = "STOP" => StoppedAt(Reading(h))
<1>1. handler[h].call \in Calls /\ Reading(h) # 0
  BY DEF OcppInv, CallsAreReal, At
<1>2. Kind(h) \in {"START", "METER", "STOP"} /\ Reading(h) \in Meter
  BY <1>1 DEF Calls, Kind, Reading
<1>3. Kind(h) = "STOP" => StoppedAt(Reading(h))
  BY DEF OcppInv, RestsOnStop
<1> QED BY <1>1, <1>2, <1>3

\* A call that is received, and one that is answered.
LEMMA ReceiveAndReply ==
  ASSUME OcppInv, NEW h \in Handlers, Receive(h) \/ Reply(h)
  PROVE  OcppInv'
<1> USE DEF OcppInv, session, transaction, requests, network
<1>1. CASE Receive(h)
  <2>1. /\ cp.asking \in Calls /\ cp.asking[2] # 0
        /\ cp.asking[1] = "STOP" => StoppedAt(cp.asking[2])
    BY <1>1 DEF Receive, NetworkTypes, CallsAreReal, RestsOnStop
  <2>2. /\ HandlerTypes'
        /\ handler'[h].op = "read" /\ handler'[h].call = cp.asking
        /\ \A g \in Handlers \ {h} : handler'[g] = handler[g]
    BY <1>1, <2>1 DEF Receive, HandlerTypes, HandlerOps
  <2>3. CallsAreReal'
    BY <1>1, <2>1, <2>2 DEF Receive, CallsAreReal, Kind, Reading
  <2>4. RestsOnStart'
    BY <1>1, <2>2 DEF Receive, RestsOnStart, ChargingIsStarted, Running, At, Kind
  <2>5. RestsOnStop'
    BY <1>1, <2>1, <2>2 DEF Receive, RestsOnStop, CompletedIsMetered, StoppedAt, Kind, Reading
  <2>6. ReadersAreCurrent'
    <3>1. \A g \in Handlers \ {h} : Found(g)' = Found(g)
      BY <1>1, <2>2 DEF Receive, Found, StartFound, MeterFound, StopFound, Kind, Reading
    <3> QED BY <1>1, <2>2, <3>1 DEF Receive, ReadersAreCurrent, At, Current
  <2> QED BY <1>1, <2>2, <2>3, <2>4, <2>5, <2>6, Undisturbed DEF Receive
<1>2. CASE Reply(h)
  <2>1. ~At(h, "idle") /\ handler[h].call \in Calls
    BY <1>2, CallIsReal DEF Reply, At
  <2>2. /\ HandlerTypes'
        /\ handler'[h] = Free
        /\ \A g \in Handlers \ {h} : handler'[g] = handler[g]
    BY <1>2 DEF Reply, HandlerTypes, HandlerOps, Free
  <2>3. RowTypes'
    BY <1>2, <2>1 DEF Reply, RowTypes
  <2>4. CallsAreReal'
    BY <1>2, <2>2 DEF Reply, CallsAreReal, Kind, Reading, Free
  <2>5. RestsOnStart'
    <3>1. \A m \in Meter : answer'[<<"START", m>>] = "ok" => tx.start # 0
      <4> SUFFICES ASSUME NEW m \in Meter, answer'[<<"START", m>>] = "ok"
                   PROVE  tx.start # 0
        OBVIOUS
      <4>1. <<"START", m>> \in Calls
        BY DEF Calls
      <4>2. CASE handler[h].call = <<"START", m>>
        BY <1>2, <4>1, <4>2 DEF Reply, RowTypes, RestsOnStart, At, Kind
      <4>3. CASE handler[h].call # <<"START", m>>
        BY <1>2, <4>1, <4>3 DEF Reply, RowTypes, RestsOnStart
      <4> QED BY <4>2, <4>3
    <3> QED BY <1>2, <2>2, <3>1 DEF Reply, RestsOnStart, ChargingIsStarted, Running, At, Kind, Free
  <2>6. RestsOnStop'
    BY <1>2, <2>2 DEF Reply, RestsOnStop, CompletedIsMetered, StoppedAt, Kind, Reading, Free, NoCall
  <2>7. ReadersAreCurrent'
    <3>1. \A g \in Handlers \ {h} : Found(g)' = Found(g)
      BY <1>2, <2>2 DEF Reply, Found, StartFound, MeterFound, StopFound, Kind, Reading
    <3> QED BY <1>2, <2>2, <3>1 DEF Reply, ReadersAreCurrent, At, Current, Free
  <2> QED BY <1>2, <2>2, <2>3, <2>4, <2>5, <2>6, <2>7, Undisturbed DEF Reply
<1> QED BY <1>1, <1>2

\* What a handler reads tells it what to do next.
LEMMA ReadSteps ==
  ASSUME OcppInv, NEW h \in Handlers, ReadTransaction(h)
  PROVE  OcppInv'
<1>1. ~At(h, "idle") /\ Goto(h, Found(h))
  BY DEF ReadTransaction, At
<1>2. /\ Found(h) \in {"write", "ok", "invalid", "error"}
      /\ Kind(h) = "START" /\ Found(h) = "ok" => tx.status = "ACTIVE"
  BY <1>1, CallIsReal DEF Found, StartFound, MeterFound, StopFound
<1>3. CASE Found(h) # "write"
  <2>1. UNCHANGED <<session, transaction, answer, requests, dropper, network, crashes>>
    BY <1>3 DEF ReadTransaction, transaction
  <2>2. tx.status = "ACTIVE" => tx.start # 0
    BY DEF OcppInv, StartsOnce
  <2>3. Found(h) \in HandlerOps \ {"idle", "write", "stopping"}
    BY <1>2, <1>3 DEF HandlerOps
  <2> QED BY <1>1, <1>2, <2>1, <2>2, <2>3, CallGoesOn
<1>4. CASE Found(h) = "write"
  <2> USE DEF OcppInv, session, transaction, requests, network
  <2>1. /\ UNCHANGED <<session, tx, answer, requests, dropper, network, crashes>>
        /\ txReaders' = txReaders \cup {h}
    BY <1>4 DEF ReadTransaction
  <2>2. /\ HandlerTypes'
        /\ \A g \in Handlers : handler'[g].call = handler[g].call
        /\ handler'[h].op = "write"
        /\ \A g \in Handlers \ {h} : handler'[g].op = handler[g].op
    BY <1>1, <1>4 DEF HandlerTypes, HandlerOps, Goto
  <2>3. \A g \in Handlers : Kind(g)' = Kind(g) /\ Reading(g)' = Reading(g) /\ Found(g)' = Found(g)
    BY <2>1, <2>2 DEF Kind, Reading, Found, StartFound, MeterFound, StopFound
  <2>4. RowTypes'
    BY <2>1 DEF RowTypes
  <2>5. CallsAreReal'
    BY <1>1, <2>1, <2>2, <2>3 DEF CallsAreReal, At
  <2>6. RestsOnStart'
    BY <2>1, <2>2, <2>3 DEF RestsOnStart, ChargingIsStarted, Running, At
  <2>7. RestsOnStop'
    BY <2>1, <2>2, <2>3 DEF RestsOnStop, CompletedIsMetered, StoppedAt
  <2>8. ReadersAreCurrent'
    BY <1>4, <2>1, <2>2, <2>3 DEF ReadersAreCurrent, At, Current
  <2> QED BY <2>1, <2>2, <2>4, <2>5, <2>6, <2>7, <2>8, Undisturbed
<1> QED BY <1>3, <1>4

\* A handler that finds what it read is still what is there.
LEMMA CurrentReader ==
  ASSUME OcppInv, NEW h \in Handlers, At(h, "write"), Current(h)
  PROVE  /\ Kind(h) = "METER" => tx.status \in {"ACTIVE", "STOPPING"}
         /\ Kind(h) \in {"METER", "STOP"} => Reading(h) >= tx.last
<1>1. Found(h) = "write" /\ Kind(h) \in {"START", "METER", "STOP"}
  BY CallIsReal DEF OcppInv, ReadersAreCurrent, At
<1>2. Reading(h) \in Meter /\ tx.last \in Meter
  BY CallIsReal DEF OcppInv, RowTypes, At
<1> QED BY <1>1, <1>2, OcppAssumption DEF Found, MeterFound, StopFound, Meter

\* The writes of a call to the transaction.
LEMMA WriteSteps ==
  ASSUME OcppInv, NEW h \in Handlers, WriteStart(h) \/ WriteMeter(h) \/ WriteStop(h)
  PROVE  OcppInv'
<1>1. At(h, "write") /\ ~At(h, "idle")
  BY DEF WriteStart, WriteMeter, WriteStop, At
<1>2. UNCHANGED <<session, answer, requests, dropper, network, crashes>>
  BY DEF WriteStart, WriteMeter, WriteStop
<1>3. /\ Reading(h) \in Meter /\ Reading(h) # 0
      /\ Kind(h) = "STOP" => StoppedAt(Reading(h))
  BY <1>1, CallIsReal
<1>4. /\ sess \in [status : SessionStatus, stop : Meter]
      /\ tx \in [status : TransactionStatus, start : Meter, last : Meter, stop : Meter]
      /\ tx.start <= tx.last /\ sessReaders \subseteq Handlers
      /\ answer \in [Calls -> {"none", "ok", "invalid", "error"}]
  BY DEF OcppInv, RowTypes
<1>5. /\ sess.status = "COMPLETED" => StoppedAt(sess.stop)
      /\ tx.status = "COMPLETED" => StoppedAt(tx.stop)
  BY DEF OcppInv, RestsOnStop, CompletedIsMetered, StoppedAt
<1>6. sess.status \in {"CHARGING", "STOPPING", "COMPLETED"} => tx.start # 0
  BY DEF OcppInv, RestsOnStart, ChargingIsStarted
<1>7. sess' = sess /\ sessReaders' = sessReaders /\ starter' = starter /\ answer' = answer
  BY <1>2 DEF session, requests
<1>8. {"event", "ok", "error", "resolve"} \subseteq HandlerOps \ {"idle", "write", "stopping"}
  BY DEF HandlerOps
<1>9. CASE WriteStart(h)
  <2>1. CASE ~(Current(h) /\ tx.status = "REMOTE_START_PENDING")
    <3>1. Goto(h, "error") /\ UNCHANGED transaction
      BY <1>9, <2>1 DEF WriteStart
    <3> QED BY <1>1, <1>2, <1>8, <3>1, CallGoesOn
  <2>2. CASE Current(h) /\ tx.status = "REMOTE_START_PENDING"
    <3>1. /\ Goto(h, "ok") /\ txReaders' = {}
          /\ tx' = [tx EXCEPT !.status = "ACTIVE", !.start = Reading(h), !.last = Reading(h)]
      BY <1>9, <2>2 DEF WriteStart, WriteTransaction
    <3>2. /\ tx' \in [status : TransactionStatus, start : Meter, last : Meter, stop : Meter]
          /\ tx'.status = "ACTIVE" /\ tx'.start = Reading(h) /\ tx'.last = Reading(h)
      BY <1>3, <1>4, <3>1 DEF TransactionStatus
    <3>3. RowTypes'
      BY <1>3, <1>4, <1>7, <3>1, <3>2 DEF RowTypes, Meter
    <3>4. StartsOnce'
      BY <1>3, <1>7, <2>2, <3>2 DEF OcppInv, StartsOnce
    <3> QED BY <1>1, <1>2, <1>3, <1>5, <1>7, <1>8, <3>1, <3>2, <3>3, <3>4, CallGoes
  <2> QED BY <2>1, <2>2
<1>10. CASE WriteMeter(h)
  <2>1. CASE ~Current(h)
    <3>1. Goto(h, "error") /\ UNCHANGED transaction
      BY <1>10, <2>1 DEF WriteMeter
    <3> QED BY <1>1, <1>2, <1>8, <3>1, CallGoesOn
  <2>2. CASE Current(h)
    <3>1. /\ Goto(h, "event") /\ Kind(h) = "METER" /\ txReaders' = {}
          /\ tx' = [tx EXCEPT !.last = Reading(h)]
      BY <1>10, <2>2 DEF WriteMeter, WriteTransaction
    <3>2. tx.status \in {"ACTIVE", "STOPPING"} /\ Reading(h) >= tx.last
      BY <1>1, <2>2, <3>1, CurrentReader
    <3>3. /\ tx' \in [status : TransactionStatus, start : Meter, last : Meter, stop : Meter]
          /\ tx'.status = tx.status /\ tx'.start = tx.start /\ tx'.last = Reading(h)
      BY <1>3, <1>4, <3>1
    <3>4. RowTypes'
      BY <1>3, <1>4, <1>7, <3>1, <3>2, <3>3, OcppAssumption DEF RowTypes, Meter
    <3>5. StartsOnce'
      BY <1>7, <3>2, <3>3 DEF OcppInv, StartsOnce
    <3> QED BY <1>1, <1>2, <1>5, <1>6, <1>7, <1>8, <3>1, <3>2, <3>3, <3>4, <3>5, CallGoes
  <2> QED BY <2>1, <2>2
<1>11. CASE WriteStop(h)
  <2>1. CASE ~(Current(h) /\ tx.status \in {"ACTIVE", "STOPPING"})
    <3>1. Goto(h, "resolve") /\ Kind(h) = "STOP" /\ UNCHANGED transaction
      BY <1>11, <2>1 DEF WriteStop
    <3> QED BY <1>1, <1>2, <1>8, <3>1, CallGoesOn
  <2>2. CASE Current(h) /\ tx.status \in {"ACTIVE", "STOPPING"}
    <3>1. /\ Goto(h, "event") /\ Kind(h) = "STOP" /\ txReaders' = {}
          /\ tx' = [tx EXCEPT !.status = "COMPLETED", !.last = Reading(h), !.stop = Reading(h)]
      BY <1>11, <2>2 DEF WriteStop, WriteTransaction
    <3>2. Reading(h) >= tx.last
      BY <1>1, <2>2, <3>1, CurrentReader
    <3>3. /\ tx' \in [status : TransactionStatus, start : Meter, last : Meter, stop : Meter]
          /\ tx'.status = "COMPLETED" /\ tx'.start = tx.start
          /\ tx'.last = Reading(h) /\ tx'.stop = Reading(h)
      BY <1>3, <1>4, <3>1 DEF TransactionStatus
    <3>4. RowTypes'
      BY <1>3, <1>4, <1>7, <3>1, <3>2, <3>3, OcppAssumption DEF RowTypes, Meter
    <3>5. StartsOnce'
      BY <1>7, <2>2, <3>3 DEF OcppInv, StartsOnce
    <3> QED BY <1>1, <1>2, <1>3, <1>5, <1>6, <1>7, <1>8, <3>1, <3>3, <3>4, <3>5, CallGoes
  <2> QED BY <2>1, <2>2
<1> QED BY <1>9, <1>10, <1>11

\* The event of a call, which may write the session, and what follows it.
LEMMA EventSteps ==
  ASSUME OcppInv, NEW h \in Handlers,
         \/ MeterEvent(h) \/ StoppedEvent(h) \/ SessionStops(h)
         \/ SessionCompletes(h) \/ Resolve(h)
  PROVE  OcppInv'
<1>1. ~At(h, "idle")
  BY DEF MeterEvent, StoppedEvent, SessionStops, SessionCompletes, Resolve, At
<1>2. /\ Reading(h) \in Meter /\ (Kind(h) = "STOP" => StoppedAt(Reading(h)))
      /\ handler[h].op \in {"stopping", "complete", "resolve"} => Kind(h) = "STOP"
  BY <1>1, CallIsReal DEF OcppInv, CallsAreReal
<1>3. {"event", "complete", "ok", "error", "resolve"}
        \subseteq HandlerOps \ {"idle", "write", "stopping"}
  BY DEF HandlerOps
\* An event that writes the session.
<1>4. ASSUME NEW row \in [status : SessionStatus, stop : Meter],
             NEW op \in {"ok", "complete", "resolve", "error"},
             WriteSession(row), Goto(h, op),
             UNCHANGED <<transaction, answer, requests, dropper, network, crashes>>,
             op = "ok" => Kind(h) = "METER",
             op \in {"complete", "resolve"} => Kind(h) = "STOP",
             sess.status \in {"CHARGING", "STOPPING"},
             row.status \in {"CHARGING", "STOPPING", "COMPLETED"},
             row.status = "COMPLETED" => StoppedAt(row.stop)
      PROVE  OcppInv'
  <2>1. sess' = row /\ sessReaders' = {} /\ tx' = tx /\ txReaders' = txReaders
        /\ answer' = answer /\ starter' = starter
    BY <1>4 DEF WriteSession, transaction, requests
  <2>2. RowTypes'
    BY <1>4, <2>1 DEF OcppInv, RowTypes
  <2>3. StartsOnce'
    BY <1>4, <2>1 DEF OcppInv, StartsOnce
  <2>4. tx.start # 0 /\ (tx.status = "COMPLETED" => StoppedAt(tx.stop))
    BY <1>4 DEF OcppInv, RestsOnStart, ChargingIsStarted, RestsOnStop
  <2> QED BY <1>1, <1>3, <1>4, <2>1, <2>2, <2>3, <2>4, CallGoes
<1>5. sess \in [status : SessionStatus, stop : Meter]
  BY DEF OcppInv, RowTypes
<1>6. CASE MeterEvent(h)
  <2>1. Kind(h) = "METER" /\ UNCHANGED <<transaction, answer, requests, dropper, network, crashes>>
    BY <1>6 DEF MeterEvent
  <2>2. CASE /\ sess.status = "CHARGING" /\ WriteSession([sess EXCEPT !.stop = Reading(h)])
             /\ Goto(h, "ok")
    <3>1. /\ [sess EXCEPT !.stop = Reading(h)] \in [status : SessionStatus, stop : Meter]
          /\ [sess EXCEPT !.stop = Reading(h)].status = "CHARGING"
      BY <1>2, <1>5, <2>2
    <3> QED BY <2>1, <2>2, <3>1, <1>4
  <2>3. CASE UNCHANGED session /\ (Goto(h, "ok") \/ Goto(h, "error"))
    BY <1>1, <1>3, <2>1, <2>3, CallGoesOn
  <2> QED BY <1>6, <2>2, <2>3 DEF MeterEvent
<1>7. CASE StoppedEvent(h)
  <2>1. /\ Kind(h) = "STOP"
        /\ UNCHANGED <<sess, transaction, answer, requests, dropper, network, crashes>>
    BY <1>7 DEF StoppedEvent
  <2>2. CASE sess.status # "CHARGING"
    <3>1. /\ Goto(h, "resolve") \/ Goto(h, "complete") \/ Goto(h, "error")
          /\ UNCHANGED session
      BY <1>7, <2>2 DEF StoppedEvent, session
    <3> QED BY <1>1, <1>3, <2>1, <3>1, CallGoesOn
  <2>3. CASE sess.status = "CHARGING"
    <3> USE DEF OcppInv, session, transaction, requests, network
    <3>1. Goto(h, "stopping") /\ sessReaders' = sessReaders \cup {h}
      BY <1>7, <2>3 DEF StoppedEvent
    <3>2. /\ HandlerTypes'
          /\ \A g \in Handlers : handler'[g].call = handler[g].call
          /\ handler'[h].op = "stopping"
          /\ \A g \in Handlers \ {h} : handler'[g].op = handler[g].op
      BY <3>1 DEF HandlerTypes, HandlerOps, Goto
    <3>3. \A g \in Handlers : Kind(g)' = Kind(g) /\ Reading(g)' = Reading(g) /\ Found(g)' = Found(g)
      BY <2>1, <3>2 DEF Kind, Reading, Found, StartFound, MeterFound, StopFound
    <3>4. RowTypes'
      BY <2>1, <3>1 DEF RowTypes
    <3>5. CallsAreReal'
      BY <1>1, <2>1, <3>2, <3>3 DEF CallsAreReal, At
    <3>6. RestsOnStart'
      BY <2>1, <3>2, <3>3 DEF RestsOnStart, ChargingIsStarted, Running, At
    <3>7. RestsOnStop'
      BY <2>1, <3>2, <3>3 DEF RestsOnStop, CompletedIsMetered, StoppedAt
    <3>8. ReadersAreCurrent'
      BY <2>1, <2>3, <3>1, <3>2, <3>3 DEF ReadersAreCurrent, At, Current
    <3> QED BY <2>1, <3>2, <3>4, <3>5, <3>6, <3>7, <3>8, Undisturbed
  <2> QED BY <2>2, <2>3
<1>8. CASE SessionStops(h)
  <2>1. /\ Kind(h) = "STOP"
        /\ UNCHANGED <<transaction, answer, requests, dropper, network, crashes>>
    BY <1>2, <1>8 DEF SessionStops, At
  <2>2. CASE h \notin sessReaders
    BY <1>1, <1>3, <1>8, <2>1, <2>2, CallGoesOn DEF SessionStops
  <2>3. CASE h \in sessReaders
    <3>1. sess.status = "CHARGING"
      BY <1>8, <2>3 DEF SessionStops, OcppInv, ReadersAreCurrent
    <3>2. /\ [sess EXCEPT !.status = "STOPPING"] \in [status : SessionStatus, stop : Meter]
          /\ [sess EXCEPT !.status = "STOPPING"].status = "STOPPING"
      BY <1>5, SessionMoves
    <3>3. WriteSession([sess EXCEPT !.status = "STOPPING"]) /\ Goto(h, "complete")
      BY <1>8, <2>3 DEF SessionStops
    <3> QED BY <2>1, <3>1, <3>2, <3>3, <1>4
  <2> QED BY <2>2, <2>3
<1>9. CASE SessionCompletes(h)
  <2>1. /\ Kind(h) = "STOP" /\ StoppedAt(Reading(h))
        /\ UNCHANGED <<transaction, answer, requests, dropper, network, crashes>>
    BY <1>2, <1>9 DEF SessionCompletes, At
  <2>2. CASE UNCHANGED session /\ (Goto(h, "resolve") \/ Goto(h, "error"))
    BY <1>1, <1>3, <2>1, <2>2, CallGoesOn
  <2>3. CASE /\ sess.status = "STOPPING"
             /\ WriteSession([status |-> "COMPLETED", stop |-> Reading(h)])
             /\ Goto(h, "resolve") \/ Goto(h, "error")
    <3>1. /\ [status |-> "COMPLETED", stop |-> Reading(h)] \in [status : SessionStatus, stop : Meter]
          /\ [status |-> "COMPLETED", stop |-> Reading(h)].stop = Reading(h)
      BY <1>2, SessionMoves
    <3> QED BY <2>1, <2>3, <3>1, <1>4
  <2> QED BY <1>9, <2>2, <2>3 DEF SessionCompletes, Complete
<1>10. CASE Resolve(h)
  <2> USE DEF OcppInv, session, transaction, requests, network
  <2>1. /\ Kind(h) = "STOP" /\ StoppedAt(Reading(h)) /\ Goto(h, "ok")
        /\ UNCHANGED <<session, transaction, answer, starter, dropper, network, crashes>>
    BY <1>2, <1>10 DEF Resolve, At
  <2>2. \/ UNCHANGED stopper
        \/ stopper.op = "wait" /\ stopper' = [op |-> "complete", meter |-> Reading(h)]
    BY <1>10 DEF Resolve, StopAt
  <2>3. /\ HandlerTypes'
        /\ \A g \in Handlers : handler'[g].call = handler[g].call
        /\ handler'[h].op = "ok"
        /\ \A g \in Handlers \ {h} : handler'[g].op = handler[g].op
    BY <2>1 DEF HandlerTypes, HandlerOps, Goto
  <2>4. \A g \in Handlers : Kind(g)' = Kind(g) /\ Reading(g)' = Reading(g) /\ Found(g)' = Found(g)
    BY <2>1, <2>3 DEF Kind, Reading, Found, StartFound, MeterFound, StopFound
  <2>5. RequestTypes'
    BY <1>2, <2>1, <2>2 DEF RequestTypes, StopOps
  <2>6. CallsAreReal'
    BY <1>1, <2>1, <2>3, <2>4 DEF CallsAreReal, At
  <2>7. RestsOnStart'
    BY <2>1, <2>2, <2>3, <2>4 DEF RestsOnStart, ChargingIsStarted, Running, At
  <2>8. RestsOnStop'
    BY <2>1, <2>2, <2>3, <2>4 DEF RestsOnStop, CompletedIsMetered, StoppedAt
  <2>9. ReadersAreCurrent'
    BY <2>1, <2>3, <2>4 DEF ReadersAreCurrent, At, Current
  <2> QED BY <2>1, <2>3, <2>5, <2>6, <2>7, <2>8, <2>9, Undisturbed
<1> QED BY <1>6, <1>7, <1>8, <1>9, <1>10

\* The handlers of an old connection go on as they were.
LEMMA Ages ==
  ASSUME OcppInv, handler' = Aged,
         UNCHANGED <<session, transaction, answer, requests, cp>>
  PROVE  HandlerTypes' /\ CallsAreReal' /\ RestsOnStart' /\ RestsOnStop' /\ ReadersAreCurrent'
<1> USE DEF OcppInv, session, transaction, requests
<1>1. /\ HandlerTypes'
      /\ \A g \in Handlers : handler'[g].op = handler[g].op /\ handler'[g].call = handler[g].call
  BY DEF HandlerTypes, Aged, At
<1>2. \A g \in Handlers : /\ Kind(g)' = Kind(g) /\ Reading(g)' = Reading(g)
                          /\ Found(g)' = Found(g)
  BY <1>1 DEF Kind, Reading, Found, StartFound, MeterFound, StopFound
<1>3. CallsAreReal'
  BY <1>1, <1>2 DEF CallsAreReal
<1>4. RestsOnStart'
  BY <1>1, <1>2 DEF RestsOnStart, ChargingIsStarted, Running, At
<1>5. RestsOnStop'
  BY <1>1, <1>2 DEF RestsOnStop, CompletedIsMetered, StoppedAt
<1>6. ReadersAreCurrent'
  BY <1>1, <1>2 DEF ReadersAreCurrent, At, Current
<1> QED BY <1>1, <1>3, <1>4, <1>5, <1>6

\* Connections that are lost or replaced, and crashes of the backend.
LEMMA ConnectionSteps ==
  ASSUME OcppInv, Disconnect \/ DropFind \/ DropMark \/ Connect \/ Crash
  PROVE  OcppInv'
<1> USE OcppAssumption DEF OcppInv, session, transaction, requests, network
<1>1. NoCommand \in [kind : {"none", "start", "stop"},
                     status : {"none", "sent", "Accepted", "Rejected"}]
  BY DEF NoCommand
<1>2. Disconnect \/ Connect => NetworkTypes'
  BY <1>1 DEF Disconnect, Connect, NetworkTypes, Unsent
<1>3. CASE Disconnect
  <2>1. RequestTypes'
    BY <1>3 DEF Disconnect, RequestTypes
  <2> QED BY <1>2, <1>3, <2>1, Ages, Undisturbed DEF Disconnect
<1>4. CASE Connect
  BY <1>2, <1>4, Ages, Undisturbed DEF Connect
<1>5. CASE DropFind
  <2>1. RequestTypes'
    BY <1>5 DEF DropFind, RequestTypes
  <2> QED BY <1>5, <2>1, Undisturbed DEF DropFind
<1>6. CASE DropMark
  <2>1. RowTypes' /\ sess' = sess /\ (sessReaders' = {} \/ UNCHANGED session)
    BY <1>6 DEF DropMark, RowTypes, WriteSession
  <2>2. RequestTypes'
    BY <1>6 DEF DropMark, RequestTypes
  <2> QED BY <1>6, <2>1, <2>2, Undisturbed DEF DropMark
<1>7. CASE Crash
  <2>1. RowTypes'
    BY <1>7 DEF Crash, RowTypes
  <2>2. RequestTypes'
    BY <1>7 DEF Crash, RequestTypes, StartOps, StopOps, Meter
  <2>3. HandlerTypes' /\ \A g \in Handlers : handler'[g] = Free
    BY <1>7 DEF Crash, HandlerTypes, HandlerOps, Free
  <2>4. NetworkTypes'
    <3>1. crashes' \in 0 .. MaxCrashes
      BY <1>7 DEF Crash, NetworkTypes
    <3> QED BY <1>1, <1>7, <3>1 DEF Crash, NetworkTypes
  <2>5. StartsOnce'
    BY <1>7 DEF Crash, StartsOnce
  <2>6. CallsAreReal'
    BY <1>7, <2>3 DEF Crash, CallsAreReal, Kind, Reading, Free
  <2>7. RestsOnStart'
    BY <1>7, <2>3 DEF Crash, RestsOnStart, ChargingIsStarted, Running, At, Free
  <2>8. RestsOnStop'
    BY <1>7, <2>3 DEF Crash, RestsOnStop, CompletedIsMetered, StoppedAt, Kind, Free, NoCall
  <2>9. ReadersAreCurrent'
    BY <1>7, <2>3 DEF Crash, ReadersAreCurrent, At, Current, Free
  <2> QED BY <2>1, <2>2, <2>3, <2>4, <2>5, <2>6, <2>7, <2>8, <2>9
<1> QED BY <1>3, <1>4, <1>5, <1>6, <1>7

LEMMA InitHolds == Init => OcppInv
<1> SUFFICES ASSUME Init PROVE OcppInv
  OBVIOUS
<1> USE OcppAssumption DEF Init
<1>1. RowTypes
  BY SessionMoves DEF RowTypes, Meter, TransactionStatus
<1>2. RequestTypes
  BY DEF RequestTypes, StartOps, StopOps, Meter
<1>3. HandlerTypes
  BY DEF HandlerTypes, HandlerOps, Free
<1>4. NetworkTypes
  BY DEF NetworkTypes, NoCommand, Meter
<1>5. StartsOnce /\ CallsAreReal
  BY DEF StartsOnce, CallsAreReal, Free, NoCall
<1>6. RestsOnStart
  BY DEF RestsOnStart, ChargingIsStarted, Running, Calls, At, Free
<1>7. RestsOnStop
  BY DEF RestsOnStop, CompletedIsMetered, Kind, Free, NoCall
<1>8. ReadersAreCurrent
  BY DEF ReadersAreCurrent, At, Current, Free
<1> QED BY <1>1, <1>2, <1>3, <1>4, <1>5, <1>6, <1>7, <1>8 DEF OcppInv

LEMMA NextKeeps == OcppInv /\ [Next]_vars => OcppInv'
<1> SUFFICES ASSUME OcppInv, [Next]_vars PROVE OcppInv'
  OBVIOUS
<1>1. CASE UNCHANGED vars
  BY <1>1, Undisturbed DEF vars, OcppInv, session, transaction, requests, network
<1>2. CASE Start \/ StartStep
  BY <1>2, StartSteps
<1>3. CASE Stop \/ StopStep
  BY <1>3, StopSteps
<1>4. CASE CpRemoteStart \/ CpRemoteStop \/ CpStop \/ CpMeter \/ CpAnswered
  BY <1>4, ChargePointSteps
<1>5. CASE \E h \in Handlers : Receive(h) \/ CallStep(h)
  BY <1>5, ReceiveAndReply, ReadSteps, WriteSteps, EventSteps DEF CallStep
<1>6. CASE Disconnect \/ DropFind \/ DropMark \/ Connect \/ Crash
  BY <1>6, ConnectionSteps
<1> QED BY <1>1, <1>2, <1>3, <1>4, <1>5, <1>6 DEF Next

LEMMA OcppInvariant == Spec => []OcppInv
BY InitHolds, NextKeeps, PTL DEF Spec

\* A session is charging, and the charge point delivers energy, only on a transaction whose
\* StartTransaction is committed, whatever calls are repeated, late or handled at one time and
\* whatever request times out (startSession, waitForStart, executeIncomingCall).
THEOREM ChargingNeedsStart == Spec => [](TypeOK /\ ChargingIsStarted)
<1>1. OcppInv => TypeOK /\ ChargingIsStarted
  BY InvImpliesTypeOK DEF OcppInv, RestsOnStart
<1> QED BY <1>1, OcppInvariant, PTL

\* A session is completed with the meter at which the charge point stopped, whoever completes it
\* (stopSession, waitForStop, handleStopTransaction, completeSession).
THEOREM CompletionIsMetered == Spec => []CompletedIsMetered
<1>1. OcppInv => CompletedIsMetered
  BY DEF OcppInv, RestsOnStop
<1> QED BY <1>1, OcppInvariant, PTL

\* The rows a step writes.
Forward ==
  /\ sess'.status # sess.status => LegalSessionMove(sess.status, sess'.status)
  /\ tx'.last >= tx.last
  /\ tx.start # 0 => tx'.start = tx.start

LEMMA StaysForward ==
  ASSUME OcppInv, UNCHANGED <<sess, tx>>
  PROVE  Forward
BY OcppAssumption DEF OcppInv, RowTypes, Forward, Meter

LEMMA StepsForward == OcppInv /\ [Next]_vars => Forward
<1> SUFFICES ASSUME OcppInv, [Next]_vars PROVE Forward
  OBVIOUS
<1> USE DEF session, transaction, requests, network
<1>1. /\ sess \in [status : SessionStatus, stop : Meter]
      /\ tx \in [status : TransactionStatus, start : Meter, last : Meter, stop : Meter]
      /\ \A m \in Meter : m \in Int /\ m >= 0
  BY OcppAssumption DEF OcppInv, RowTypes, Meter
\* A session that is written alone, and a transaction that is.
<1>2. ASSUME tx' = tx, NEW to \in SessionStatus, sess'.status = to,
             LegalSessionMove(sess.status, to)
      PROVE  Forward
  BY <1>1, <1>2 DEF Forward
<1>3. ASSUME sess' = sess, tx'.last >= tx.last, tx.start # 0 => tx'.start = tx.start
      PROVE  Forward
  BY <1>3 DEF Forward
<1>4. \A s \in SessionStatus \ {"COMPLETED", "FAILED", "CANCELLED"} : LegalSessionMove(s, "FAILED")
  BY DEF LegalSessionMove, SessionTransitions, SessionStatus
<1>5. /\ LegalSessionMove("AUTHORIZED", "STARTING") /\ LegalSessionMove("STARTING", "CHARGING")
      /\ LegalSessionMove("CHARGING", "STOPPING") /\ LegalSessionMove("STOPPING", "COMPLETED")
      /\ {"STARTING", "CHARGING", "STOPPING", "COMPLETED", "FAILED"} \subseteq SessionStatus
  BY DEF LegalSessionMove, SessionTransitions, SessionStatus
<1>6. Fail /\ UNCHANGED tx => Forward
  BY <1>1, <1>2, <1>4, <1>5, SessionMoves, StaysForward DEF Fail, WriteSession
<1>7. MarkFailed /\ UNCHANGED sess => Forward
  BY <1>1, <1>3, StaysForward DEF MarkFailed, WriteTransaction
<1>8. CASE UNCHANGED vars
  BY <1>8, StaysForward DEF vars
<1>9. CASE Start \/ StartStep
  <2>1. CASE Start
    BY <1>1, <1>2, <1>5, <2>1 DEF Start, WriteSession
  <2>2. CASE StartPrepare
    BY <1>1, <1>3, <2>2, StaysForward DEF StartPrepare, WriteTransaction
  <2>3. CASE StartSend \/ StartAnswered \/ StartWaited \/ StartTimeout
    BY <2>3, StaysForward DEF StartSend, StartAnswered, StartWaited, StartTimeout
  <2>4. CASE StartCommit
    BY <1>1, <1>2, <1>5, <2>4, StaysForward DEF StartCommit, WriteSession
  <2>5. CASE StartError \/ StartFail
    BY <1>6, <1>7, <2>5 DEF StartError, StartFail
  <2> QED BY <1>9, <2>1, <2>2, <2>3, <2>4, <2>5 DEF StartStep
<1>10. CASE Stop \/ StopStep
  <2>1. CASE Stop
    BY <1>1, <1>2, <1>5, <2>1 DEF Stop, WriteSession
  <2>2. CASE StopMark
    BY <1>1, <1>3, <2>2 DEF StopMark, WriteTransaction
  <2>3. CASE StopRead \/ StopSend \/ StopAnswered \/ StopWaited \/ StopTimeout
    BY <2>3, StaysForward DEF StopRead, StopSend, StopAnswered, StopWaited, StopTimeout
  <2>4. CASE StopComplete
    BY <1>1, <1>2, <1>5, <2>4, StaysForward DEF StopComplete, Complete, WriteSession
  <2>5. CASE StopError \/ StopFail
    BY <1>6, <1>7, <2>5 DEF StopError, StopFail
  <2> QED BY <1>10, <2>1, <2>2, <2>3, <2>4, <2>5 DEF StopStep
<1>11. CASE CpRemoteStart \/ CpRemoteStop \/ CpStop \/ CpMeter \/ CpAnswered
  BY <1>11, StaysForward DEF CpRemoteStart, CpRemoteStop, CpStop, CpMeter, CpAnswered
<1>12. ASSUME NEW h \in Handlers, Receive(h) \/ CallStep(h) PROVE Forward
  <2>1. CASE Receive(h) \/ ReadTransaction(h) \/ StoppedEvent(h) \/ Resolve(h) \/ Reply(h)
    BY <2>1, StaysForward DEF Receive, ReadTransaction, StoppedEvent, Resolve, Reply
  <2>2. CASE WriteStart(h)
    <3>1. CASE Current(h) /\ tx.status = "REMOTE_START_PENDING"
      <4>1. tx.start = 0 /\ tx.last = 0
        BY <3>1 DEF OcppInv, StartsOnce
      <4>2. Reading(h) \in Meter
        BY <2>2, CallIsReal DEF WriteStart, At
      <4> QED BY <1>1, <1>3, <2>2, <3>1, <4>1, <4>2 DEF WriteStart, WriteTransaction
    <3>2. CASE ~(Current(h) /\ tx.status = "REMOTE_START_PENDING")
      BY <2>2, <3>2, StaysForward DEF WriteStart
    <3> QED BY <3>1, <3>2
  <2>3. CASE WriteMeter(h) \/ WriteStop(h)
    <3>1. CASE UNCHANGED tx
      BY <2>3, <3>1, StaysForward DEF WriteMeter, WriteStop
    <3>2. CASE /\ Current(h)
               /\ \/ tx' = [tx EXCEPT !.last = Reading(h)]
                  \/ tx' = [tx EXCEPT !.status = "COMPLETED", !.last = Reading(h),
                                      !.stop = Reading(h)]
      <4>1. Reading(h) >= tx.last
        BY <2>3, <3>2, CurrentReader DEF WriteMeter, WriteStop
      <4>2. tx'.last = Reading(h) /\ tx'.start = tx.start
        BY <1>1, <3>2
      <4> QED BY <1>3, <2>3, <4>1, <4>2 DEF WriteMeter, WriteStop
    <3> QED BY <2>3, <3>1, <3>2 DEF WriteMeter, WriteStop, WriteTransaction
  <2>4. CASE MeterEvent(h)
    BY <1>1, <1>2, <2>4, StaysForward DEF MeterEvent, WriteSession, LegalSessionMove
  <2>5. CASE SessionStops(h)
    <3>1. h \in sessReaders => sess.status = "CHARGING"
      BY <2>5 DEF SessionStops, OcppInv, ReadersAreCurrent
    <3> QED BY <1>1, <1>2, <1>5, <2>5, <3>1, StaysForward DEF SessionStops, WriteSession
  <2>6. CASE SessionCompletes(h)
    BY <1>1, <1>2, <1>5, <2>6, StaysForward DEF SessionCompletes, Complete, WriteSession
  <2> QED BY <1>12, <2>1, <2>2, <2>3, <2>4, <2>5, <2>6 DEF CallStep
<1>13. CASE Disconnect \/ DropFind \/ DropMark \/ Connect \/ Crash
  BY <1>13, StaysForward DEF Disconnect, DropFind, DropMark, Connect, Crash, WriteSession
<1> QED BY <1>8, <1>9, <1>10, <1>11, <1>12, <1>13 DEF Next

\* Nothing goes backwards: the session moves along its lifecycle, the recorded meter never falls,
\* and a transaction is started once (transition, the versioned updates of the handlers).
THEOREM SessionsGoForward == Spec => OnlyForward
<1>1. OcppInv /\ [Next]_vars =>
        [/\ sess.status' # sess.status => LegalSessionMove(sess.status, sess.status')
         /\ tx.last' >= tx.last
         /\ tx.start # 0 => tx.start' = tx.start]_vars
  BY StepsForward DEF Forward
<1> QED BY <1>1, OcppInvariant, PTL DEF Spec, OnlyForward

-----------------------------------------------------------------------------
(***************************************************************************)
(* Connections and calls.  OneActiveConnection is inductive with the       *)
(* places of the sockets, and SameAnswer with the types of what was        *)
(* answered: a call whose answer is not kept has had none.                 *)
(***************************************************************************)

AnswersTyped ==
  /\ stored \in [Ids -> Answers \cup {NoAnswer}]
  /\ execution \in [Ids -> Execution]
  /\ late \in [Ids -> SUBSET Answers]
  /\ given \in [Ids -> SUBSET Answers]
  /\ \A c \in Ids : execution[c].at = "store" => execution[c].answer \in Answers

AnswersInv == AnswersTyped /\ SameAnswer

\* The sockets' part of the invariant.
SocketsInv == socket \in [Sockets -> Places] /\ OneActiveConnection

\* Every action that leaves the sockets as they are.
LEMMA SocketsStay ==
  ASSUME SocketsInv, UNCHANGED <<socket, registered>>
  PROVE  SocketsInv'
BY DEF SocketsInv, OneActiveConnection

LEMMA SocketsPreserved == SocketsInv /\ [ConnNext]_connVars => SocketsInv'
<1> SUFFICES ASSUME SocketsInv, [ConnNext]_connVars
             PROVE  SocketsInv'
  OBVIOUS
<1> USE DEF Places
<1>1. CASE UNCHANGED connVars
  BY <1>1, SocketsStay DEF connVars, places
<1>2. ASSUME NEW s \in Sockets, VerifyUpgrade(s) PROVE SocketsInv'
  BY <1>2 DEF VerifyUpgrade, Put, SocketsInv, OneActiveConnection
<1>3. ASSUME NEW s \in Sockets, AcceptConnection(s) PROVE SocketsInv'
  BY <1>3 DEF AcceptConnection, SocketsInv, OneActiveConnection
<1>5. ASSUME NEW s \in Sockets, Close(s) PROVE SocketsInv'
  BY <1>5 DEF Close, Put, SocketsInv, OneActiveConnection
<1>6. ASSUME NEW s \in Sockets, HandleDisconnect(s) PROVE SocketsInv'
  BY <1>6 DEF HandleDisconnect, Put, SocketsInv, OneActiveConnection
<1>7. ASSUME NEW s \in Sockets, MarkDisconnected(s) \/ MarkOffline(s) PROVE SocketsInv'
  BY <1>7 DEF MarkDisconnected, MarkOffline, Put, SocketsInv, OneActiveConnection
<1>8. ASSUME NEW s \in Sockets, NEW c \in Ids, ProcessIncomingCall(s, c) PROVE SocketsInv'
  BY <1>8, SocketsStay DEF ProcessIncomingCall, places
<1>9. ASSUME NEW c \in Ids, Lookup(c) \/ DispatchCall(c) \/ Store(c) \/ StoreFails(c) \/ LateStore(c)
      PROVE  SocketsInv'
  BY <1>9, SocketsStay DEF Lookup, DispatchCall, Store, StoreFails, LateStore, places
<1>10. CASE Restart
  BY <1>10 DEF Restart, SocketsInv, OneActiveConnection
<1> QED BY <1>1, <1>2, <1>3, <1>5, <1>6, <1>7, <1>8, <1>9, <1>10 DEF ConnNext

\* What a step that gives no answer and keeps none may do.
LEMMA AnswersStay ==
  ASSUME SameAnswer, UNCHANGED <<stored, given>>
  PROVE  SameAnswer'
BY DEF SameAnswer

LEMMA AnswersPreserved ==
  ASSUME NoAnswer \notin Answers
  PROVE  AnswersInv /\ [ConnNext]_connVars => AnswersInv'
<1> SUFFICES ASSUME AnswersInv, [ConnNext]_connVars
             PROVE  AnswersInv'
  OBVIOUS
<1> USE DEF AnswersInv
<1>1. CASE UNCHANGED connVars
  BY <1>1, AnswersStay DEF connVars, answers, AnswersTyped
<1>2. ASSUME NEW s \in Sockets,
             VerifyUpgrade(s) \/ AcceptConnection(s) \/ Close(s)
               \/ HandleDisconnect(s) \/ MarkDisconnected(s) \/ MarkOffline(s)
      PROVE  AnswersInv'
  <2>1. UNCHANGED answers
    BY <1>2 DEF VerifyUpgrade, AcceptConnection, Close, HandleDisconnect, MarkDisconnected,
                MarkOffline
  <2> QED BY <2>1, AnswersStay DEF answers, AnswersTyped
<1>3. ASSUME NEW s \in Sockets, NEW c \in Ids, ProcessIncomingCall(s, c) PROVE AnswersInv'
  <2>1. AnswersTyped'
    BY <1>3 DEF ProcessIncomingCall, AnswersTyped, Execution
  <2> QED BY <1>3, <2>1, AnswersStay DEF ProcessIncomingCall
<1>4. ASSUME NEW c \in Ids, Lookup(c) PROVE AnswersInv'
  <2>1. CASE stored[c] # NoAnswer
    <3>1. stored[c] \in Answers
      BY <2>1 DEF AnswersTyped
    <3>2. execution' = [execution EXCEPT ![c] = NotRunning]
      BY <1>4, <2>1 DEF Lookup, Answer
    <3>3. given' \in [Ids -> SUBSET Answers]
      BY <1>4, <2>1, <3>1 DEF Lookup, Answer, AnswersTyped
    <3>4. AnswersTyped'
      BY <1>4, <3>2, <3>3 DEF Lookup, AnswersTyped, Execution, NotRunning
    <3>5. \A d \in Ids : given'[d] \subseteq given[d] \cup {stored[d]}
      BY <1>4, <2>1 DEF Lookup, Answer, AnswersTyped
    <3>6. SameAnswer'
      BY <1>4, <3>5 DEF Lookup, SameAnswer
    <3> QED BY <3>4, <3>6
  <2>2. CASE stored[c] = NoAnswer
    <3>1. AnswersTyped'
      BY SMTT(20), <1>4, <2>2 DEF Lookup, AnswersTyped, Execution
    <3> QED BY <1>4, <2>2, <3>1, AnswersStay DEF Lookup
  <2> QED BY <2>1, <2>2
<1>5. ASSUME NEW c \in Ids, DispatchCall(c) PROVE AnswersInv'
  <2>1. PICK a \in Answers :
          execution' = [execution EXCEPT ![c] = [at |-> "store", answer |-> a, sockets |-> @.sockets]]
    BY <1>5 DEF DispatchCall
  <2>2. execution' \in [Ids -> Execution]
    BY <2>1 DEF AnswersTyped, Execution
  <2>3. \A d \in Ids : execution'[d].at = "store" => execution'[d].answer \in Answers
    BY <2>1 DEF AnswersTyped, Execution
  <2>4. AnswersTyped'
    BY <1>5, <2>2, <2>3 DEF DispatchCall, AnswersTyped
  <2> QED BY <1>5, <2>4, AnswersStay DEF DispatchCall
<1>6. ASSUME NEW c \in Ids, Store(c) PROVE AnswersInv'
  <2>1. stored'[c] \in Answers
    BY <1>6 DEF Store, AnswersTyped
  <2>2. AnswersTyped'
    BY <1>6, <2>1 DEF Store, Answer, AnswersTyped, Execution, NotRunning
  <2>3. \A d \in Ids : given'[d] \subseteq given[d] \cup {stored'[d]}
    BY <1>6 DEF Store, Answer, AnswersTyped
  <2>4. \A d \in Ids : stored[d] # NoAnswer => stored'[d] = stored[d]
    BY <1>6 DEF Store, AnswersTyped
  <2>5. \A d \in Ids : stored[d] = NoAnswer => given[d] = {}
    BY DEF AnswersTyped, SameAnswer
  <2>6. SameAnswer'
    BY <2>3, <2>4, <2>5 DEF SameAnswer
  <2> QED BY <2>2, <2>6
<1>7. ASSUME NEW c \in Ids, StoreFails(c) PROVE AnswersInv'
  <2>1. AnswersTyped'
    BY <1>7 DEF StoreFails, AnswersTyped, Execution, NotRunning
  <2>2. \A d \in Ids : stored[d] # NoAnswer => stored'[d] = stored[d]
    BY <1>7 DEF StoreFails, AnswersTyped
  <2>3. \A d \in Ids : stored[d] = NoAnswer => given[d] = {}
    BY DEF AnswersTyped, SameAnswer
  <2>4. SameAnswer'
    BY <1>7, <2>2, <2>3 DEF StoreFails, SameAnswer
  <2> QED BY <2>1, <2>4
<1>8. ASSUME NEW c \in Ids, LateStore(c) PROVE AnswersInv'
  <2>1. AnswersTyped'
    BY <1>8 DEF LateStore, AnswersTyped
  <2>2. \A d \in Ids : stored[d] # NoAnswer => stored'[d] = stored[d]
    BY <1>8 DEF LateStore, AnswersTyped
  <2>3. \A d \in Ids : stored[d] = NoAnswer => given[d] = {}
    BY DEF AnswersTyped, SameAnswer
  <2>4. SameAnswer'
    BY <1>8, <2>2, <2>3 DEF LateStore, SameAnswer
  <2> QED BY <2>1, <2>4
<1>9. CASE Restart
  <2>1. AnswersTyped'
    BY <1>9 DEF Restart, AnswersTyped, Execution, NotRunning
  <2> QED BY <1>9, <2>1, AnswersStay DEF Restart
<1> QED BY <1>1, <1>2, <1>3, <1>4, <1>5, <1>6, <1>7, <1>8, <1>9 DEF ConnNext

\* However sockets of one charge point are verified, replaced and lost, one is open at a time
\* (acceptConnection, handleDisconnect), for any sockets.
THEOREM ConnectionIsAlone == ConnSpec => []OneActiveConnection
<1>1. ConnInit => SocketsInv
  BY DEF ConnInit, SocketsInv, OneActiveConnection, Places
<1>2. SocketsInv => OneActiveConnection
  BY DEF SocketsInv
<1> QED BY <1>1, <1>2, SocketsPreserved, PTL DEF ConnSpec

\* A call is answered in one way, for any calls, answers and restarts (executeIncomingCall).
THEOREM AnswersAgree ==
  ASSUME NoAnswer \notin Answers
  PROVE  ConnSpec => []SameAnswer
<1>1. ConnInit => AnswersInv
  BY DEF ConnInit, AnswersInv, AnswersTyped, SameAnswer, Execution, NotRunning
<1>2. AnswersInv /\ [ConnNext]_connVars => AnswersInv'
  BY AnswersPreserved
<1>3. AnswersInv => SameAnswer
  BY DEF AnswersInv
<1> QED BY <1>1, <1>2, <1>3, PTL DEF ConnSpec
====
