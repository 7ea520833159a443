---------------------------- MODULE ChargeStart ----------------------------
(***************************************************************************)
(* Starting a charge from the driver's app: the preparing screen           *)
(* (mobile-driver/app/(tabs)/charge/preparing.tsx), whose mutation creates *)
(* a session and starts it by two calls (src/api/rest-api.ts), under a key *)
(* for each.                                                               *)
(*                                                                         *)
(* The key is the number of the visit to the screen (useId), counted anew  *)
(* at each launch of the app.  Of the backend the driver's sessions are    *)
(* kept with what its idempotency cache answers; its transactions are      *)
(* ChargingSettlement's.  What the active screen shows is ActiveCharge's.  *)
(***************************************************************************)
EXTENDS Integers, Sequences, FiniteSets

CONSTANTS
  Places,       \* places for one start in flight each
  MaxLaunches,  \* bound on launches of the app
  MaxVisits,    \* bound on visits to the preparing screen in a launch
  MaxLost       \* bound on calls and answers lost

VARIABLES
  session,      \* charging_sessions of the driver, in order of creation
  created,      \* what the idempotency cache has, by key: a session, 0 for none
  screen,       \* the screen that is shown
  visit,        \* the launch, and the visit to the preparing screen or the last one
  starting,     \* the starts in flight
  active,       \* the id of activeSession in the store
  lost          \* calls and answers lost so far

server == <<session, created>>
app == <<screen, visit, active>>
vars == <<server, app, starting, lost>>

-----------------------------------------------------------------------------
(* Data *)

None == 0

\* waited: the screen still waits for it.
NoStart == [op |-> "idle", visit |-> [launch |-> 0, key |-> 0], key |-> 0, id |-> None, waited |-> FALSE]

Sessions == DOMAIN session
Op(p) == starting[p].op
Key(p) == starting[p].key
Goto(p, op) == starting' = [starting EXCEPT ![p].op = op]

\* started: the answer of start is cached.
NewSession(p, status) ==
  [visit |-> starting[p].visit, key |-> Key(p), status |-> status, started |-> FALSE]

-----------------------------------------------------------------------------
(* The preparing screen *)

\* A connector is validated: the screen is mounted.
Prepare ==
  /\ screen # "preparing" /\ visit.key < MaxVisits
  /\ screen' = "preparing"
  /\ visit' = [visit EXCEPT !.key = @ + 1]
  /\ UNCHANGED <<server, starting, active, lost>>

\* Faulty variant: an attempt after another takes a new key.
FreshKey == IF \E s \in Sessions : session[s].visit = visit THEN MaxVisits ELSE visit.key

\* idempotencyKey: 'mobile-' + useId().
OwnKey == visit.key

\* The button is disabled while the mutation of this visit is pending.
Confirm(p) ==
  /\ screen = "preparing" /\ Op(p) = "idle"
  /\ ~\E q \in Places : starting[q].waited /\ starting[q].visit = visit
  /\ starting' = [starting EXCEPT ![p] =
       [op |-> "create", visit |-> visit, key |-> OwnKey, id |-> None, waited |-> TRUE]]
  /\ UNCHANGED <<server, app, lost>>

\* withTimeout: the screen no longer waits, the request goes on.
TimesOut(p) ==
  /\ starting[p].waited
  /\ starting' = [starting EXCEPT ![p].waited = FALSE]
  /\ UNCHANGED <<server, app, lost>>

\* onSuccess, wherever the driver is by now; an answer nobody waits for is dropped.
Started(p) ==
  /\ Op(p) = "answer"
  /\ starting' = [starting EXCEPT ![p] = NoStart]
  /\ IF starting[p].waited
       THEN active' = starting[p].id /\ screen' = "active"
       ELSE UNCHANGED <<active, screen>>
  /\ UNCHANGED <<server, visit, lost>>

NotStarted(p) ==
  /\ Op(p) = "error"
  /\ starting' = [starting EXCEPT ![p] = NoStart]
  /\ UNCHANGED <<server, app, lost>>

StartLost(p) ==
  /\ Op(p) \in {"create", "begin", "answer"}
  /\ lost < MaxLost /\ lost' = lost + 1
  /\ Goto(p, "error")
  /\ UNCHANGED <<server, app>>

Leave ==
  /\ screen # "home"
  /\ screen' = "home"
  /\ UNCHANGED <<server, visit, starting, active, lost>>

\* The app is killed and launched again; what the backend has begun goes on.
Kill ==
  /\ visit.launch < MaxLaunches
  /\ visit' = [launch |-> visit.launch + 1, key |-> 0]
  /\ starting' = [p \in Places |-> [starting[p] EXCEPT !.waited = FALSE]]
  /\ screen' = "home" /\ active' = None
  /\ UNCHANGED <<server, lost>>

-----------------------------------------------------------------------------
(* RestChargingApi.start: create, then start *)

\* create: the cached session, or the lock of the key.
Create(p) ==
  /\ Op(p) = "create"
  /\ starting' = [starting EXCEPT
       ![p].id = created[Key(p)],
       ![p].op = IF created[Key(p)] # None THEN "begin"
                 ELSE IF \E q \in Places : Op(q) = "creating" /\ Key(q) = Key(p) THEN "error"
                 ELSE "creating"]
  /\ UNCHANGED <<server, app, lost>>

\* A session is unique by its user and key.  One that is not authorized fails: the call throws,
\* and nothing is cached.
CreateEnds(p) ==
  /\ Op(p) = "creating"
  /\ \/ /\ \A s \in Sessions : session[s].key # Key(p)
        /\ session' = Append(session, NewSession(p, "AUTHORIZED"))
        /\ created' = [created EXCEPT ![Key(p)] = Len(session')]
        /\ starting' = [starting EXCEPT ![p].op = "begin", ![p].id = Len(session')]
     \/ /\ \A s \in Sessions : session[s].key # Key(p)
        /\ session' = Append(session, NewSession(p, "FAILED"))
        /\ Goto(p, "error") /\ UNCHANGED created
     \/ Goto(p, "error") /\ UNCHANGED server
  /\ UNCHANGED <<app, lost>>

\* start: the cached answer, of a session that was charging; else by what the session is now.
\* A start of the same session under way holds the lock of its key.
Begin(p) ==
  LET s == starting[p].id IN
  /\ Op(p) = "begin"
  /\ \/ /\ session[s].started
        /\ Goto(p, "answer")
        /\ UNCHANGED session
     \/ /\ ~session[s].started /\ session[s].status = "AUTHORIZED"
        /\ Goto(p, "starting")
        /\ session' = [session EXCEPT ![s].status = "STARTING"]
     \/ /\ ~session[s].started
        /\ Goto(p, "error")
        /\ UNCHANGED session
  /\ UNCHANGED <<created, app, lost>>

\* The gateway has answered, or not, and the second transaction follows.
StartEnds(p) ==
  LET s == starting[p].id IN
  /\ Op(p) = "starting"
  /\ \/ /\ session' = [session EXCEPT ![s].status = "CHARGING", ![s].started = TRUE]
        /\ Goto(p, "answer")
     \/ /\ session' = [session EXCEPT ![s].status = "FAILED"]
        /\ Goto(p, "error")
  /\ UNCHANGED <<created, app, lost>>

\* The session is over; its keys stay in the cache.
SessionEnds(s) ==
  /\ session[s].status = "CHARGING"
  /\ session' = [session EXCEPT ![s].status = "COMPLETED"]
  /\ UNCHANGED <<created, app, starting, lost>>

-----------------------------------------------------------------------------

Init ==
  /\ session = <<>>
  /\ created = [k \in 1 .. MaxVisits |-> None]
  /\ screen = "home" /\ active = None
  /\ visit = [launch |-> 1, key |-> 0]
  /\ starting = [p \in Places |-> NoStart]
  /\ lost = 0

Next ==
  \/ Prepare \/ Leave \/ Kill
  \/ \E p \in Places :
       \/ Confirm(p) \/ TimesOut(p) \/ Started(p) \/ NotStarted(p) \/ StartLost(p)
       \/ Create(p) \/ CreateEnds(p) \/ Begin(p) \/ StartEnds(p)
  \/ \E s \in Sessions : SessionEnds(s)

Spec == Init /\ [][Next]_vars

-----------------------------------------------------------------------------
(* Properties *)

\* Every variable has its type.
TypeOK ==
  /\ \A s \in Sessions : session[s].status \in {"AUTHORIZED", "STARTING", "CHARGING", "COMPLETED", "FAILED"}
  /\ created \in [1 .. MaxVisits -> Sessions \cup {None}]
  /\ screen \in {"home", "preparing", "active"} /\ active \in Sessions \cup {None}
  /\ \A p \in Places : starting[p].id \in Sessions \cup {None}

\* A visit to the preparing screen creates at most one session, however often the driver
\* confirms after a timeout or an error, and the session a start goes on with is the one of its
\* visit, unless another launch of the app has used its key (RestChargingApi.start, create).
OneSessionPerVisit ==
  /\ \A s, t \in Sessions : session[s].visit = session[t].visit => s = t
  /\ \A p \in Places : starting[p].id # None =>
       LET of == session[starting[p].id].visit IN
       of = starting[p].visit \/ of.launch # starting[p].visit.launch
=============================================================================
