---------------------------- MODULE ActiveCharge ----------------------------
(***************************************************************************)
(* A charge under way in the driver's app: the screens active and          *)
(* completed (mobile-driver/app/(tabs)/charge), the store they share, the  *)
(* polling of metrics, and the realtime feed of src/realtime with the      *)
(* gateway behind it.                                                      *)
(*                                                                         *)
(* A session of the driver is charging and shown; another may begin behind *)
(* it, by a start the app no longer waits for (ChargeStart).               *)
(***************************************************************************)
EXTENDS Integers, FiniteSets

CONSTANTS
  MaxLost       \* bound on answers lost, feeds dropped and meter values published late

VARIABLES
  session,      \* charging_sessions.status of the driver's sessions, in order of creation
  screen,       \* the screen that is shown
  active,       \* activeSession of the store
  poll,         \* a query in flight: its kind, and the session as the backend answered
  feed,         \* the feed: whether it is joined, the snapshot read, the events in flight
  recovered,    \* what the recovery query has in its cache
  stop,         \* the stop in flight
  lost          \* faults so far

vars == <<session, screen, active, poll, feed, recovered, stop, lost>>

-----------------------------------------------------------------------------
(* Data *)

None == 0
Sessions == {1, 2}

ActiveStatus == {"CHARGING", "STOPPING"}
Ended == {"COMPLETED", "FAILED"}

NoSession == [id |-> None, status |-> "none"]
NoPoll == [kind |-> "none", of |-> NoSession]
NoFeed == [joined |-> FALSE, snapshot |-> NoSession, events |-> {}]
NoStop == [op |-> "idle", id |-> None]

Seen(s) == [id |-> s, status |-> session[s]]

Fault == lost < MaxLost /\ lost' = lost + 1

\* applyRealtimeEvent: of another session it is ignored; nothing asks whether it is older.
Applied(e) == IF active.id = e.id THEN e ELSE active

\* An event of a session reaches a feed that is joined to it.
Published(s, status) ==
  feed' = IF feed.joined /\ active.id = s
          THEN [feed EXCEPT !.events = @ \cup {[id |-> s, status |-> status]}]
          ELSE feed

-----------------------------------------------------------------------------
(* The backend without the screen's doing *)

\* A start nobody waits for has succeeded.
SessionStarts(s) ==
  /\ session[s] = "none"
  /\ session' = [session EXCEPT ![s] = "CHARGING"]
  /\ UNCHANGED <<screen, active, poll, feed, recovered, stop, lost>>

\* The charger ends the session by itself, or a stop is carried out.
SessionEnds(s) ==
  /\ session[s] \in ActiveStatus
  /\ \E status \in Ended : session' = [session EXCEPT ![s] = status] /\ Published(s, status)
  /\ UNCHANGED <<screen, active, poll, recovered, stop, lost>>

\* The administration stops it.
RemoteStop(s) ==
  /\ session[s] = "CHARGING"
  /\ session' = [session EXCEPT ![s] = "STOPPING"]
  /\ UNCHANGED <<screen, active, poll, feed, recovered, stop, lost>>

\* A meter value that was stored while the session was charging is published late.
LateMeter(s) ==
  /\ session[s] # "none" /\ Fault
  /\ Published(s, "CHARGING")
  /\ UNCHANGED <<session, screen, active, poll, recovered, stop>>

-----------------------------------------------------------------------------
(* The active screen *)

Watching == screen = "active" /\ active # NoSession

\* The screen is opened by a link, as no other leads to it; without an active session an answer
\* of the recovery query that is still cached is taken at once.
OpenActive ==
  /\ screen = "home"
  /\ screen' = "active"
  /\ active' \in IF active = NoSession THEN {NoSession, recovered} ELSE {active}
  /\ UNCHANGED <<session, poll, feed, recovered, stop, lost>>

\* getActive: the newest session under way, if any.
UnderWay == {s \in Sessions : session[s] \in ActiveStatus}
Newest == IF UnderWay = {} THEN NoSession ELSE Seen(CHOOSE s \in UnderWay : \A o \in UnderWay : o <= s)

Recover ==
  /\ screen = "active" /\ active = NoSession /\ poll = NoPoll
  /\ poll' = [kind |-> "recovery", of |-> Newest]
  /\ UNCHANGED <<session, screen, active, feed, recovered, stop, lost>>

Recovered ==
  /\ poll.kind = "recovery"
  /\ active' = poll.of
  /\ recovered' = poll.of
  /\ poll' = NoPoll
  /\ UNCHANGED <<session, screen, feed, stop, lost>>

\* getMetrics, every five seconds.
PollMetrics ==
  /\ Watching /\ poll = NoPoll
  /\ poll' = [kind |-> "metrics", of |-> Seen(active.id)]
  /\ UNCHANGED <<session, screen, active, feed, recovered, stop, lost>>

\* Faulty variant: metrics are applied only while there is no feed.
PolledWithoutFeed ==
  /\ poll.kind = "metrics"
  /\ active' = IF feed.joined THEN active ELSE Applied(poll.of)
  /\ poll' = NoPoll
  /\ UNCHANGED <<session, screen, feed, recovered, stop, lost>>

\* Whatever it answers is applied.
Polled ==
  /\ poll.kind = "metrics"
  /\ active' = Applied(poll.of)
  /\ poll' = NoPoll
  /\ UNCHANGED <<session, screen, feed, recovered, stop, lost>>

PollLost ==
  /\ poll # NoPoll /\ Fault
  /\ poll' = NoPoll
  /\ UNCHANGED <<session, screen, active, feed, recovered, stop>>

\* charging:subscribe: the session is read, then the room joined and the snapshot emitted.
Subscribe ==
  /\ Watching /\ ~feed.joined /\ feed.snapshot = NoSession
  /\ feed' = [feed EXCEPT !.snapshot = Seen(active.id)]
  /\ UNCHANGED <<session, screen, active, poll, recovered, stop, lost>>

Join ==
  /\ feed.snapshot # NoSession
  /\ feed' = [joined |-> TRUE, snapshot |-> NoSession, events |-> feed.events \cup {feed.snapshot}]
  /\ UNCHANGED <<session, screen, active, poll, recovered, stop, lost>>

Deliver(e) ==
  /\ active' = Applied(e)
  /\ feed' = [feed EXCEPT !.events = @ \ {e}]
  /\ UNCHANGED <<session, screen, poll, recovered, stop, lost>>

\* The connection breaks with what was under way; the socket connects again by itself.
Disconnect ==
  /\ feed # NoFeed /\ Fault
  /\ feed' = NoFeed
  /\ UNCHANGED <<session, screen, active, poll, recovered, stop>>

-----------------------------------------------------------------------------
(* Stopping, under one key for each session *)

StopGoto(op) == stop' = [stop EXCEPT !.op = op]

ConfirmStop ==
  /\ Watching /\ stop = NoStop
  /\ stop' = [op |-> "stop", id |-> active.id]
  /\ UNCHANGED <<session, screen, active, poll, feed, recovered, lost>>

\* A session that is being stopped already is answered as it is.
BeginStop ==
  LET s == stop.id IN
  /\ stop.op = "stop"
  /\ \/ session[s] \in {"COMPLETED", "STOPPING"} /\ StopGoto("answer") /\ UNCHANGED session
     \/ /\ session[s] = "CHARGING"
        /\ session' = [session EXCEPT ![s] = "STOPPING"]
        /\ StopGoto("stopping")
     \/ session[s] = "FAILED" /\ StopGoto("error") /\ UNCHANGED session
  /\ UNCHANGED <<screen, active, poll, feed, recovered, lost>>

\* A session that the charger's event has ended meanwhile is answered by how it ended.
StopEnds ==
  LET s == stop.id IN
  /\ stop.op = "stopping"
  /\ \E status \in IF session[s] = "STOPPING" THEN Ended ELSE {session[s]} :
       /\ session' = [session EXCEPT ![s] = status]
       /\ Published(s, status)
       /\ StopGoto(IF status = "COMPLETED" THEN "answer" ELSE "error")
  /\ UNCHANGED <<screen, active, poll, recovered, lost>>

\* onSuccess: the summary is shown whatever its session is by then.
Stopped ==
  /\ stop.op = "answer"
  /\ stop' = NoStop
  /\ screen' = "completed" /\ feed' = NoFeed /\ poll' = NoPoll
  /\ UNCHANGED <<session, active, recovered, lost>>

NotStopped ==
  /\ stop.op = "error"
  /\ stop' = NoStop
  /\ UNCHANGED <<session, screen, active, poll, feed, recovered, lost>>

StopLost ==
  /\ stop.op \in {"stop", "answer"} /\ Fault
  /\ StopGoto("error")
  /\ UNCHANGED <<session, screen, active, poll, feed, recovered>>

-----------------------------------------------------------------------------
(* The driver leaves *)

Leave ==
  /\ screen = "active"
  /\ screen' = "home" /\ poll' = NoPoll /\ feed' = NoFeed
  /\ UNCHANGED <<session, active, recovered, stop, lost>>

\* completed.tsx: reset of the store.
Finish ==
  /\ screen = "completed"
  /\ screen' = "home" /\ active' = NoSession
  /\ UNCHANGED <<session, poll, feed, recovered, stop, lost>>

\* The app is launched again.
Kill ==
  /\ screen' = "home" /\ active' = NoSession /\ recovered' = NoSession
  /\ poll' = NoPoll /\ feed' = NoFeed /\ stop' = NoStop
  /\ UNCHANGED <<session, lost>>

-----------------------------------------------------------------------------

Init ==
  /\ session = [s \in Sessions |-> IF s = 1 THEN "CHARGING" ELSE "none"]
  /\ screen = "active" /\ active = Seen(1)
  /\ poll = NoPoll /\ feed = NoFeed /\ recovered = NoSession
  /\ stop = NoStop
  /\ lost = 0

Next ==
  \/ \E s \in Sessions : SessionStarts(s) \/ SessionEnds(s) \/ RemoteStop(s) \/ LateMeter(s)
  \/ OpenActive \/ Leave \/ Finish \/ Kill
  \/ Recover \/ Recovered \/ PollMetrics \/ Polled \/ PollLost
  \/ Subscribe \/ Join \/ Disconnect \/ \E e \in feed.events : Deliver(e)
  \/ ConfirmStop \/ BeginStop \/ StopEnds \/ Stopped \/ NotStopped \/ StopLost

Spec == Init /\ [][Next]_vars

\* The metrics are fetched every five seconds while the screen is shown.
Fairness == WF_vars(PollMetrics) /\ WF_vars(Polled)

FairSpec == Spec /\ Fairness

-----------------------------------------------------------------------------
(* Properties *)

\* Every variable has its type.
TypeOK ==
  /\ session \in [Sessions -> ActiveStatus \cup Ended \cup {"none"}]
  /\ screen \in {"home", "active", "completed"}
  /\ {active.id, poll.of.id, recovered.id, stop.id} \subseteq Sessions \cup {None}
  /\ \A e \in feed.events : e.id = active.id

\* The end of a session reaches the active screen that shows it, although events are lost, come
\* late or out of order and none is ever asked for its age: the next metrics repair it (README.md,
\* "Em perda de conexao, o mobile reconecta e tambem recupera o snapshot por GET /metrics").
EndIsShown ==
  (Watching /\ session[active.id] \in Ended)
    ~> (~Watching \/ active = Seen(active.id))
=============================================================================
