------------------------------ MODULE Reports ------------------------------
(***************************************************************************)
(* What a driver is told about the charging sessions: the dashboard        *)
(* (dashboard/dashboard.service.ts), the history and the timeline of a     *)
(* session (charging-history/charging-history.service.ts and its           *)
(* presenter), over a period (common/date-range.ts); and what the          *)
(* dashboard of the administration says of them                            *)
(* (admin/admin-operations.service.ts).                                    *)
(*                                                                         *)
(* Dashboard and history are two implementations of one account: they      *)
(* filter by time in two ways, and each computes durations and costs from  *)
(* the rows that charging/charging.service.ts leaves behind.  The start of *)
(* a session is the server's clock, or the charger's for OCPP.             *)
(*                                                                         *)
(* The other filters are the same for both and are left out, as are the    *)
(* station, the vehicle and the power.                                     *)
(***************************************************************************)
EXTENDS Integers, Sequences, FiniteSets, FiniteSetsExt, Lifecycles

CONSTANTS
  MaxSessions,  \* bound on sessions of the driver
  MaxClock,     \* bound on the clock
  MaxEnergy     \* bound on energy

VARIABLES
  clock,        \* the server's clock
  charge,       \* charging_sessions of the driver, in the order of their ids
  audit         \* audit_logs of each session: the status it took and when

vars == <<clock, charge, audit>>

-----------------------------------------------------------------------------
(* Periods *)

Times == 0 .. MaxClock
Never == -1

\* A time zone: its offset is "before" until the instant "change", and "after" from then on.
Zones == {z \in [change : 5 .. 11, before : -2 .. 2, after : -2 .. 2] : z.after - z.before \in -1 .. 1}

\* calendarParts: what the clocks of the zone show at an instant.
Local(zone, t) == t + (IF t < zone.change THEN zone.before ELSE zone.after)

\* zonedDateToUtc: the instant at which the clocks of the zone show a time, by three corrections.
ToUtc(zone, target) ==
  LET Correct(t) == t + (target - Local(zone, t))
  IN Correct(Correct(Correct(target)))

\* A period may end this much after the request: 60 s, one unit of the clock.
Tolerance == 1

\* resolveDateRange refuses a period that is turned round, begins in the future, or ends beyond the tolerance.
Periods ==
  {p \in Times \X (0 .. MaxClock + Tolerance) :
     p[1] <= p[2] /\ p[1] <= clock /\ p[2] <= clock + Tolerance}

-----------------------------------------------------------------------------
(* The history *)

Sessions == DOMAIN charge

\* The presenters' durationSeconds.
Duration(c, now) ==
  LET end == IF c.completed # Never THEN c.completed ELSE IF c.stopped # Never THEN c.stopped ELSE now
  IN IF c.started = Never THEN 0 ELSE Max({0, end - c.started})

NoCost == -1

\* COALESCE(started_at, created_at)
StartOf(c) == IF c.started = Never THEN c.created ELSE c.started

\* trustedCost
Cost(c) == IF c.status = "COMPLETED" THEN c.total ELSE NoCost

\* toHistoryItem
Item(c, now) ==
  [status |-> c.status,
   cost |-> Cost(c),
   duration |-> Duration(c, now),
   energy |-> c.energy,
   startedAt |-> StartOf(c)]

\* All the pages of the history of a period; each of them is presented at the time the first was asked for.
History(p) == {i \in Sessions : p[1] <= StartOf(charge[i]) /\ StartOf(charge[i]) <= p[2]}

\* What getTimeline lists: the audits of the creation and of the changes of status.
Timeline(i) ==
  IF \E e \in Range(audit[i]) : e.status = "PENDING" THEN audit[i]
  ELSE <<[status |-> "PENDING", at |-> charge[i].created]>> \o audit[i]

-----------------------------------------------------------------------------
(* The dashboard *)

\* The sessions getDashboard reads.
Selected(p) ==
  {i \in Sessions :
     \/ p[1] <= charge[i].started /\ charge[i].started <= p[2]
     \/ /\ p[1] <= charge[i].created /\ charge[i].created <= p[2]
        /\ charge[i].started = Never}

Count(S, status) == Cardinality({i \in S : charge[i].status = status})
Total(f(_), S) == MapThenSumSet(f, S)

\* sessionCost and the total: none if nothing was completed.
CostOf(i) == charge[i].total
TotalCost(S) ==
  LET done == {i \in S : charge[i].status = "COMPLETED"}
  IN IF done = {} THEN NoCost ELSE Total(CostOf, done)

\* ORDER BY started_at DESC, where PostgreSQL puts NULL first, created_at DESC, id DESC.
Precedes(i, j) ==
  LET a == charge[i]
      b == charge[j]
  IN IF a.started # b.started THEN a.started = Never \/ (b.started # Never /\ a.started > b.started)
     ELSE a.created > b.created \/ (a.created = b.created /\ i > j)

Last(S) == CHOOSE i \in S : \A j \in S \ {i} : Precedes(i, j)

Dashboard(p) ==
  LET S == Selected(p)
      DurationOf(i) == Duration(charge[i], p[2])
      EnergyOf(i) == charge[i].energy
  IN [sessions |-> Cardinality(S),
      completed |-> Count(S, "COMPLETED"),
      failed |-> Count(S, "FAILED"),
      cost |-> TotalCost(S),
      duration |-> Total(DurationOf, S),
      energy |-> Total(EnergyOf, S),
      last |-> IF S = {} THEN 0 ELSE Last(S)]

-----------------------------------------------------------------------------
(* The dashboard of the administration *)

OfficeActive == {"PENDING", "AUTHORIZED", "STARTING", "CHARGING", "STOPPING"}

\* dashboard: the sessions under way, and those completed since the start of the month.
Office(from) ==
  LET done == {i \in Sessions : charge[i].status = "COMPLETED" /\ charge[i].completed >= from}
  IN [active |-> Cardinality({i \in Sessions : charge[i].status \in OfficeActive}),
      completed |-> Cardinality(done),
      revenue |-> Total(CostOf, done)]

-----------------------------------------------------------------------------
(* The sessions *)

NewSession ==
  [status |-> "PENDING", created |-> clock, started |-> Never, stopped |-> Never, completed |-> Never,
   energy |-> 0, total |-> 0]

Audit(status) == [status |-> status, at |-> clock]

\* calculateChargingPrice: the activation, the energy, and the time.
Price(energy, duration) == 1 + 2 * energy + duration

Create ==
  /\ Len(charge) < MaxSessions
  /\ charge' = Append(charge, NewSession)
  /\ audit' = Append(audit, <<Audit("PENDING")>>)
  /\ UNCHANGED clock

\* ChargingService.transition with the data of its caller.
Transition(i, to, data) ==
  /\ to \in SessionTransitions[charge[i].status]
  /\ charge' = [charge EXCEPT ![i] = [data EXCEPT !.status = to]]
  /\ audit' = [audit EXCEPT ![i] = Append(@, Audit(to))]
  /\ UNCHANGED clock

Prepare(i) ==
  \E to \in {"AUTHORIZED", "STARTING", "STOPPING"} : Transition(i, to, charge[i])

\* By the server's clock, or by that of the charger.
Start(i) ==
  \E at \in Times : Transition(i, "CHARGING", [charge[i] EXCEPT !.started = at])

\* recordMeterValue
Meter(i) ==
  /\ charge[i].status = "CHARGING"
  /\ \E energy \in 0 .. MaxEnergy, at \in Times :
       charge' = [charge EXCEPT ![i].energy = energy,
                                ![i].total = Price(energy, Duration(charge[i], at))]
  /\ UNCHANGED <<clock, audit>>

Complete(i) ==
  \E energy \in 0 .. MaxEnergy :
    Transition(i, "COMPLETED",
      [charge[i] EXCEPT !.energy = energy, !.completed = clock, !.stopped = clock,
                        !.total = Price(energy, Duration(charge[i], clock))])

\* failSession
Fail(i) ==
  Transition(i, "FAILED",
    [charge[i] EXCEPT !.stopped = IF charge[i].started = Never THEN Never ELSE clock])

Tick ==
  /\ clock < MaxClock /\ clock' = clock + 1
  /\ UNCHANGED <<charge, audit>>

Init == clock = 0 /\ charge = <<>> /\ audit = <<>>

Next ==
  \/ Create \/ Tick
  \/ \E i \in Sessions : Prepare(i) \/ Start(i) \/ Meter(i) \/ Complete(i) \/ Fail(i)

Spec == Init /\ [][Next]_vars

-----------------------------------------------------------------------------
(* Properties *)

\* Every variable has its type.
TypeOK ==
  /\ clock \in Times
  /\ \A i \in Sessions :
       /\ charge[i].status \in SessionStatus
       /\ {charge[i].started, charge[i].stopped, charge[i].completed} \subseteq Times \cup {Never}
       /\ charge[i].energy \in 0 .. MaxEnergy
  /\ Len(audit) = Len(charge)

\* For every period, the dashboard counts the sessions the history lists, by their status, and its energy and
\* its cost are the sums over the items; its last session is the latest of them, unless one never started.
\* Its duration is the sum too, but for the sessions that still run: the dashboard counts them up to the end
\* of the period, and the history up to the request, so the two differ by the time between for each of them,
\* and by nothing if the period ends now (getDashboard, ChargingHistoryService.list).
DashboardIsHistory ==
  \A p \in Periods :
    LET d == Dashboard(p)
        S == History(p)
        Running == {i \in S : /\ charge[i].started # Never
                               /\ charge[i].completed = Never /\ charge[i].stopped = Never}
        Beyond(i) == p[2] - Max({clock, charge[i].started})
        ItemOf(i) == Item(charge[i], clock)
        DurationOf(i) == ItemOf(i).duration
        EnergyOf(i) == ItemOf(i).energy
        Shown(i) == ItemOf(i).cost
    IN /\ d.sessions = Cardinality(S)
       /\ d.completed = Cardinality({i \in S : ItemOf(i).status = "COMPLETED"})
       /\ d.failed = Cardinality({i \in S : ItemOf(i).status = "FAILED"})
       /\ d.duration = Total(DurationOf, S) + Total(Beyond, Running)
       /\ d.energy = Total(EnergyOf, S)
       /\ d.cost # NoCost => d.cost = Total(Shown, {i \in S : Shown(i) # NoCost})
       /\ d.last = 0 <=> S = {}
       /\ (\A i \in S : charge[i].started # Never) =>
            \A i \in S : ItemOf(i).startedAt <= ItemOf(d.last).startedAt

\* What a completed session cost is the price of the energy and of the duration that are shown for it, at
\* any later time (completeSession, trustedCost).
CostIsOfWhatIsShown ==
  \A i \in Sessions :
    LET item == Item(charge[i], clock)
    IN item.cost # NoCost => item.cost = Price(item.energy, item.duration)

\* A timeline begins with the creation, once, never goes back in time, and each of its events follows the
\* one before by a legal move, up to the status the session has (getTimeline).
TimelineIsPath ==
  \A i \in Sessions :
    LET t == Timeline(i) IN
      /\ t[1].status = "PENDING" /\ t[Len(t)].status = charge[i].status
      /\ \A k \in 2 .. Len(t) :
           /\ t[k].status \in SessionTransitions[t[k - 1].status]
           /\ t[k - 1].at <= t[k].at

\* The month starts when the clocks of the zone show its first midnight, whenever there is such an instant,
\* also if the zone changed its offset near it (zonedDateToUtc).
MonthStartsAtMidnight ==
  \A zone \in Zones :
    LET midnight == 7 + clock IN
      (\E t \in 5 .. 10 : Local(zone, t) = midnight) => Local(zone, ToUtc(zone, midnight)) = midnight

\* The administration counts as under way what has not ended, and as completed since a time, with its
\* revenue, the sessions whose timeline ends with their completion at that time or later, at the cost their
\* drivers are shown (dashboard).
OfficeAgrees ==
  \A from \in Times :
    LET End(i) == Timeline(i)[Len(Timeline(i))]
        done == {i \in Sessions : End(i).status = "COMPLETED" /\ End(i).at >= from}
        Shown(i) == Item(charge[i], clock).cost
    IN Office(from) = [active |-> Cardinality({i \in Sessions : ~TerminalSession(charge[i].status)}),
                       completed |-> Cardinality(done),
                       revenue |-> Total(Shown, done)]

ReportsAgree ==
  DashboardIsHistory /\ CostIsOfWhatIsShown /\ TimelineIsPath /\ MonthStartsAtMidnight /\ OfficeAgrees
=============================================================================
