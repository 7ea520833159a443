----------------------- MODULE ChargingSettlementProofs -----------------------
(***************************************************************************)
(* Proofs about ChargingSettlement for every number of handlers, sessions  *)
(* and connectors, every price and every bound.                            *)
(*                                                                         *)
(* The argument: until a session has its money (PENDING) only the handler  *)
(* that created it may change anything of it; once it has ended, what any  *)
(* handler relies on to settle it (its cost, a captured reservation, a     *)
(* captured intent) is final.  Place says what each handler relies on at   *)
(* each operation, Advances what a step of another handler leaves of it.   *)
(***************************************************************************)
EXTENDS ChargingSettlement, FiniteSetTheorems, TLAPS

-----------------------------------------------------------------------------
(* The inductive invariant *)

Unstarted == {"NONE", "PENDING"}
Underway  == {"AUTHORIZED", "STARTING", "CHARGING", "STOPPING"}
Ended     == {"COMPLETED", "FAILED"}

SessionRows == [status : SessionStatus \cup {"NONE"}, version : Nat,
                connector : Connectors \cup {NoOne}, cost : Nat]

IntentRows == [status : IntentStatus \cup {"NONE"}, version : Nat]

Snapshots == [status : SessionStatus \cup IntentStatus \cup {"NONE", "unread", "lost"},
              version : Nat, connector : ConnectorStatus \cup {NoOne}]

Handlers == [caller : {"none", "create", "start", "stop", "event"},
             op : Ops \cup {"idle"}, s : Sessions \cup {NoOne}, seen : Snapshots,
             after : {"idle", "autoRecharge", "cancelIntent"}, offline : BOOLEAN]

\* Where the rows have the types of the schema.
RowsTyped ==
  /\ session \in [Sessions -> SessionRows]
  /\ connector \in [Connectors -> ConnectorStatus]
  /\ intent \in [Sessions -> IntentRows]
  /\ receipt \in [Sessions -> BOOLEAN]
  /\ charger \in [Sessions -> ChargerStatus]
  /\ worker \in [Workers -> Handlers]
  /\ statusWrites \in Nat /\ crashes \in Nat /\ errors \in Nat

\* Reservations, as far as the settlement looks at them.
ReservationRows == [wallet : {Driver, Ledger!NoWallet}, status : Ledger!ReservationStatus,
                    amount : Nat, captured : Nat, released : Nat]

\* What the session, the intent and the reservation of s say together.
Coherent(s) ==
  LET st   == session[s].status
      pay  == intent[s].status
      held == reservation[s].status
  IN
  /\ st = "NONE" => session[s] = NoSession /\ intent[s] = NoIntent
  /\ pay = "NONE" => intent[s] = NoIntent
  /\ st # "NONE" => session[s].connector \in Connectors
  /\ st # "CANCELLED"
  /\ st \in Unstarted => charger[s] = "idle"
  /\ IF st = "COMPLETED" THEN session[s].cost \in Costs ELSE session[s].cost = 0
  /\ st = "PENDING" => pay \in {"NONE", "CREATED", "PENDING", "FAILED", "AUTHORIZED"}
  /\ st \in Underway => pay = "AUTHORIZED" /\ held = "RESERVED"
  /\ st = "COMPLETED" =>
       pay \in {"AUTHORIZED", "CAPTURED", "CANCELLED", "REQUIRES_REVIEW"} /\ held # "NONE"
  /\ st = "FAILED" => pay \in {"NONE", "CREATED", "PENDING", "FAILED", "AUTHORIZED", "CANCELLED"}
  /\ pay \in {"NONE", "CREATED"} => held = "NONE"
  /\ pay = "FAILED" /\ errors = 0 => held = "NONE"
  /\ pay = "AUTHORIZED" => held # "NONE"
  /\ pay \in {"PENDING", "FAILED"} => held # "CAPTURED"
  /\ pay = "CAPTURED" => held = "CAPTURED"
  /\ pay = "CANCELLED" => held # "RESERVED"
  /\ pay = "REQUIRES_REVIEW" => ~Capturable(session[s].cost)
  /\ receipt[s] => pay = "CAPTURED"
  /\ held \in {"CAPTURED", "RELEASED"} => st \in Ended
  /\ IF held = "NONE"
       THEN reservation[s] = Ledger!NoReservation
       ELSE reservation[s].wallet = Driver /\ reservation[s].amount = PreAuth
  /\ IF held = "CAPTURED"
       THEN /\ st = "COMPLETED" /\ Capturable(session[s].cost)
            /\ reservation[s].captured = session[s].cost
       ELSE reservation[s].captured = 0

Creating == {"createIntent", "pend", "reserve", "authorizeIntent", "authorizeCatch",
             "failIntent", "authorizeSession"}
Settling == {"settle", "review", "capture", "captureIntent", "receiptRead",
             "receiptWrite", "autoRecharge"}
Cancelling == {"cancel", "cancelReservation", "release", "cancelIntent"}

\* What a handler of session s relies on at operation op.
Place(op, caller, after, s) ==
  LET st   == session[s].status
      pay  == intent[s].status
      held == reservation[s].status
  IN
  /\ op \in Creating => caller = "create" /\ st = "PENDING"
  /\ op = "createIntent" => pay = "NONE"
  /\ op = "pend" => pay = "CREATED"
  /\ op = "reserve" => pay = "PENDING" /\ held = "NONE"
  /\ op \in {"authorizeCatch", "failIntent"} => pay = "PENDING" /\ (errors = 0 => held = "NONE")
  /\ op = "authorizeIntent" => pay = "PENDING" /\ held = "RESERVED"
  /\ op = "authorizeSession" => pay = "AUTHORIZED" /\ held = "RESERVED"
  /\ op \in {"startCommit", "gatewayStart", "complete", "gatewayStop"} => st \notin Unstarted
  /\ op \in Settling => st = "COMPLETED"
  /\ op \in {"review", "captureIntent"} => pay # "NONE"
  /\ op = "review" => ~Capturable(session[s].cost)
  /\ op \in {"capture", "captureIntent"} => Capturable(session[s].cost)
  /\ op = "captureIntent" => held = "CAPTURED"
  /\ op \in {"receiptRead", "receiptWrite"} => pay = "CAPTURED"
  /\ op \in {"capture", "captureIntent", "receiptRead", "receiptWrite"} =>
       after \in {"idle", "autoRecharge"}
  /\ op \in Cancelling => st \in Ended
  /\ op \in Cancelling \ {"cancel"} => pay # "NONE" /\ after \in {"idle", "cancelIntent"}
  /\ op = "cancelIntent" => held # "RESERVED"

\* A snapshot with the version of the row is what the row says now.
Snapshot(op, seen, s) ==
  /\ op \in SessionOps /\ seen # Unread =>
       /\ seen.status \in SessionStatus \ {"CANCELLED"}
       /\ seen.version <= session[s].version
       /\ seen.version = session[s].version => seen.status = session[s].status
       /\ seen.status \in Ended => seen.status = session[s].status
       /\ seen.status \notin Unstarted => session[s].status \notin Unstarted
  /\ op \in DOMAIN IntentTarget /\ seen \notin {Unread, Lost} =>
       /\ seen.status \in IntentStatus
       /\ seen.version <= intent[s].version
       /\ seen.version = intent[s].version => seen.status = intent[s].status
       /\ seen.status = "CAPTURED" => intent[s].status = "CAPTURED"
  /\ op \in {"pend", "authorizeIntent", "failIntent"} /\ seen # Unread =>
       seen.status = intent[s].status /\ seen.version = intent[s].version

\* The handler h is where a handler may be.
Placed(h) ==
  IF h.op = "idle" THEN h.caller = "none" ELSE
    /\ h.s \in Sessions
    /\ session[h.s].status # "NONE"
    /\ session[h.s].status = "PENDING" =>
         h.caller = "create" \/ h.op \in {"startPrepare", "stopPrepare"}
    /\ Place(h.op, h.caller, h.after, h.s)
    /\ Snapshot(h.op, h.seen, h.s)

\* A session is created by one handler.
CreatorsDiffer ==
  \A v, w \in Workers :
    worker[v].caller = "create" /\ worker[w].caller = "create" /\ worker[v].s = worker[w].s
      => v = w

SettlementInv ==
  /\ RowsTyped
  /\ reservation \in [Sessions -> ReservationRows]
  /\ \A s \in Sessions : Coherent(s)
  /\ \A w \in Workers : Placed(worker[w])
  /\ CreatorsDiffer

-----------------------------------------------------------------------------
(* The state machines *)

\* The statuses of the transition tables.
LEMMA Statuses ==
  /\ SessionStatus = {"PENDING", "AUTHORIZED", "STARTING", "CHARGING", "STOPPING",
                      "COMPLETED", "FAILED", "CANCELLED"}
  /\ IntentStatus = {"CREATED", "PENDING", "REQUIRES_ACTION", "AUTHORIZED", "PROCESSING",
                     "CAPTURED", "CANCELLED", "EXPIRED", "FAILED", "REQUIRES_REVIEW",
                     "REFUNDED", "PARTIALLY_REFUNDED"}
BY DEF SessionStatus, SessionTransitions, IntentStatus, IntentTransitions

\* A terminal session is one that no transition leaves.
LEMMA TerminalStatuses ==
  \A st \in SessionStatus : TerminalSession(st) <=> st \in {"COMPLETED", "FAILED", "CANCELLED"}
BY Statuses DEF TerminalSession, SessionTransitions

\* The intent transitions and where each leads.
LEMMA Targets ==
  /\ DOMAIN IntentTarget = {"pend", "authorizeIntent", "failIntent", "review",
                            "captureIntent", "cancelIntent"}
  /\ IntentTarget["pend"] = "PENDING"
  /\ IntentTarget["authorizeIntent"] = "AUTHORIZED"
  /\ IntentTarget["failIntent"] = "FAILED"
  /\ IntentTarget["review"] = "REQUIRES_REVIEW"
  /\ IntentTarget["captureIntent"] = "CAPTURED"
  /\ IntentTarget["cancelIntent"] = "CANCELLED"
BY DEF IntentTarget

\* The operations a handler can be at.
LEMMA OpsAre ==
  Ops = {"authorizeSession", "startPrepare", "startCommit", "stopPrepare", "complete",
         "stoppedEvent", "meter", "disconnect", "fail",
         "pend", "authorizeIntent", "failIntent", "review", "captureIntent", "cancelIntent",
         "createIntent", "reserve", "authorizeCatch", "gatewayStart", "gatewayStop", "settle",
         "capture", "receiptRead", "receiptWrite", "autoRecharge", "cancel",
         "cancelReservation", "release"}
BY Targets DEF Ops, SessionOps, OtherOps

-----------------------------------------------------------------------------
(* Steps of a handler *)

Afters == {"idle", "autoRecharge", "cancelIntent"}

\* A handler at rest is a handler.
LEMMA IdleType == Idle \in Handlers
BY DEF Idle, Handlers, Unread, Snapshots

\* What deciding on the next operation makes of the handlers.
LEMMA Decided ==
  ASSUME RowsTyped, NEW w \in Workers, NEW op \in Ops \cup {"idle"}, NEW after \in Afters,
         Decide(w, op, after)
  PROVE  /\ worker' \in [Workers -> Handlers]
         /\ \A v \in Workers : v # w => worker'[v] = worker[v]
         /\ worker'[w].op = op
         /\ op = "idle" => worker'[w] = Idle
         /\ op # "idle" => /\ worker'[w].s = worker[w].s
                           /\ worker'[w].caller = worker[w].caller
                           /\ worker'[w].seen = Unread
                           /\ worker'[w].after = after
<1> DEFINE next == IF op = "idle" THEN Idle
                   ELSE [worker[w] EXCEPT !.op = op, !.seen = Unread, !.after = after]
<1>1. worker' = [worker EXCEPT ![w] = next]
  BY DEF Decide
<1>2. worker \in [Workers -> Handlers] /\ worker[w] \in Handlers
  BY DEF RowsTyped
<1>3. Unread \in Snapshots
  BY DEF Unread, Snapshots
<1>4. next \in Handlers
  BY ZenonT(20), <1>2, <1>3, IdleType DEF Handlers, Afters
<1>5. /\ op # "idle" => next.op = op /\ next.s = worker[w].s /\ next.caller = worker[w].caller
                        /\ next.seen = Unread /\ next.after = after
      /\ op = "idle" => next = Idle /\ next.op = op
  BY <1>2 DEF Handlers, Idle
<1> HIDE DEF next
<1>6. QED
  BY <1>1, <1>2, <1>4, <1>5

\* What a step may change of a session, its intent and its reservation.
Advances(s) ==
  LET st    == session[s].status
      pay   == intent[s].status
      held  == reservation[s].status
      held2 == reservation'[s].status
  IN
  /\ st # "NONE" =>
       /\ session'[s].status # "NONE"
       /\ session'[s].version >= session[s].version
       /\ session'[s] # session[s] => session'[s].version > session[s].version
       /\ session'[s].status = "PENDING" => st = "PENDING"
  /\ st \in Ended => session'[s] = session[s]
  /\ pay # "NONE" =>
       /\ intent'[s].status # "NONE"
       /\ intent'[s].version >= intent[s].version
       /\ intent'[s] # intent[s] => intent'[s].version > intent[s].version
  /\ pay = "CAPTURED" => intent'[s] = intent[s]
  /\ held = "CAPTURED" => held2 = "CAPTURED"
  /\ held2 = "RESERVED" => held = "RESERVED" \/ st = "PENDING"

Unmoved(s) ==
  /\ session'[s] = session[s] /\ intent'[s] = intent[s] /\ reservation'[s] = reservation[s]
  /\ errors' = 0 => errors = 0

\* A handler that takes no step may go on where it is.
LEMMA OthersStay ==
  ASSUME RowsTyped, RowsTyped', reservation \in [Sessions -> ReservationRows], NEW w \in Workers,
         worker'[w] = worker[w], Placed(worker[w]),
         worker[w].op # "idle" =>
           /\ Advances(worker[w].s)
           /\ worker[w].caller = "create" /\ session[worker[w].s].status = "PENDING"
                => Unmoved(worker[w].s)
  PROVE  Placed(worker[w])'
<1> DEFINE h == worker[w]
           s == worker[w].s
<1>1. CASE h.op = "idle"
  BY <1>1 DEF Placed
<1>2. CASE h.op # "idle"
  <2>1. /\ s \in Sessions /\ session[s].status # "NONE"
        /\ session[s].status = "PENDING" =>
             h.caller = "create" \/ h.op \in {"startPrepare", "stopPrepare"}
        /\ Place(h.op, h.caller, h.after, s)
        /\ Snapshot(h.op, h.seen, s)
    BY <1>2 DEF Placed
  <2>2. Advances(s) /\ (h.caller = "create" /\ session[s].status = "PENDING" => Unmoved(s))
    BY <1>2
  <2>3. /\ session[s].version \in Nat /\ session'[s].version \in Nat
        /\ intent[s].version \in Nat /\ intent'[s].version \in Nat
        /\ h.seen.version \in Nat
    BY <2>1 DEF RowsTyped, SessionRows, IntentRows, Handlers, Snapshots
  <2>4. /\ session'[s].status # "NONE"
        /\ session'[s].status = "PENDING" =>
             h.caller = "create" \/ h.op \in {"startPrepare", "stopPrepare"}
    BY <2>1, <2>2 DEF Advances
  <2>5. Place(h.op, h.caller, h.after, s)'
    <3>1. CASE Unmoved(s)
      BY <2>1, <3>1 DEF Place, Unmoved
    <3>2. CASE session[s].status = "PENDING" /\ h.op \in {"startPrepare", "stopPrepare"}
      BY <3>2 DEF Place, Creating, Settling, Cancelling
    <3>3. CASE session[s].status # "PENDING"
      BY SMTT(20), <2>1, <2>2, <3>3 DEF Place, Advances, Creating, Unstarted, Ended, Settling, Cancelling
    <3>4. QED
      BY <2>1, <2>2, <3>1, <3>2, <3>3
  <2>6. Snapshot(h.op, h.seen, s)'
    <3>1. CASE h.op \in {"pend", "authorizeIntent", "failIntent"}
      <4>1. Unmoved(s)
        BY <2>1, <2>2, <3>1 DEF Place, Creating
      <4>2. QED
        BY <2>1, <4>1 DEF Snapshot, Unmoved
    <3>2. CASE h.op \notin {"pend", "authorizeIntent", "failIntent"}
      <4>1. h.op \in SessionOps /\ h.seen # Unread =>
             /\ h.seen.status \in SessionStatus \ {"CANCELLED"}
             /\ h.seen.version <= session'[s].version
             /\ h.seen.version = session'[s].version => h.seen.status = session'[s].status
             /\ h.seen.status \in Ended => h.seen.status = session'[s].status
             /\ h.seen.status \notin Unstarted => session'[s].status \notin Unstarted
        BY <2>1, <2>2, <2>3 DEF Snapshot, Advances, Ended, Unstarted
      <4>2. h.op \in DOMAIN IntentTarget => intent[s].status # "NONE"
        BY <2>1, <3>2, Targets DEF Place, Cancelling
      <4>3. QED
        BY SMTT(20), <2>1, <2>2, <2>3, <3>2, <4>1, <4>2 DEF Snapshot, Advances
    <3>3. QED
      BY <3>1, <3>2
  <2>7. QED
    BY <1>2, <2>1, <2>4, <2>5, <2>6 DEF Placed
<1>3. QED
  BY <1>1, <1>2

\* A step of handler w that touches session s keeps the invariant if it keeps
\* what concerns s and w.
LEMMA StepOfOne ==
  ASSUME SettlementInv, RowsTyped', (reservation \in [Sessions -> ReservationRows])',
         NEW w \in Workers, NEW s \in Sessions,
         \A t \in Sessions : t # s =>
           Unmoved(t) /\ receipt'[t] = receipt[t] /\ charger'[t] = charger[t],
         \A v \in Workers : v # w => worker'[v] = worker[v],
         Advances(s), Coherent(s)', Placed(worker[w])',
         \/ session[s].status \notin Unstarted
         \/ session[s].status = "PENDING" /\ worker[w].caller = "create" /\ worker[w].s = s
         \/ Unmoved(s)
         \/ session[s].status = "NONE",
         worker'[w].caller = "create" =>
           \/ worker[w].caller = "create" /\ worker[w].s = worker'[w].s
           \/ session[s].status = "NONE" /\ worker'[w].s = s
  PROVE  SettlementInv'
<1>1. /\ RowsTyped /\ reservation \in [Sessions -> ReservationRows] /\ CreatorsDiffer
      /\ \A t \in Sessions : Coherent(t)
      /\ \A v \in Workers : Placed(worker[v])
  BY DEF SettlementInv
<1>2. \A v \in Workers : worker[v].op # "idle" =>
        worker[v].s \in Sessions /\ session[worker[v].s].status # "NONE"
  BY <1>1 DEF Placed
<1>3. \A t \in Sessions : t # s => Advances(t)
  <2> SUFFICES ASSUME NEW t \in Sessions, t # s PROVE Advances(t)
    OBVIOUS
  <2>1. session[t].version \in Nat /\ intent[t].version \in Nat
    BY <1>1 DEF RowsTyped, SessionRows, IntentRows
  <2>2. QED
    BY <2>1 DEF Advances, Unmoved
<1>4. \A t \in Sessions : Coherent(t)'
  <2> SUFFICES ASSUME NEW t \in Sessions, t # s PROVE Coherent(t)'
    OBVIOUS
  <2>1. Coherent(t)
    BY <1>1
  <2>2. QED
    BY <2>1 DEF Coherent, Unmoved
<1>5. \A v \in Workers : Placed(worker[v])'
  <2> SUFFICES ASSUME NEW v \in Workers, v # w PROVE Placed(worker[v])'
    OBVIOUS
  <2>1. Placed(worker[v]) /\ worker'[v] = worker[v]
    BY <1>1
  <2>2. worker[v].op # "idle" =>
          /\ Advances(worker[v].s)
          /\ worker[v].caller = "create" /\ session[worker[v].s].status = "PENDING"
               => Unmoved(worker[v].s)
    <3> SUFFICES ASSUME worker[v].op # "idle"
                 PROVE  /\ Advances(worker[v].s)
                        /\ worker[v].caller = "create" /\ session[worker[v].s].status = "PENDING"
                             => Unmoved(worker[v].s)
      OBVIOUS
    <3>1. worker[v].s \in Sessions /\ session[worker[v].s].status # "NONE"
      BY <1>2
    <3>2. worker[v].s # s => Unmoved(worker[v].s)
      BY <3>1
    <3>3. Advances(worker[v].s)
      BY <1>3, <3>1
    <3>4. ~(worker[v].caller = "create" /\ worker[w].caller = "create" /\ worker[v].s = worker[w].s)
      BY <1>1 DEF CreatorsDiffer
    <3>5. QED
      BY <3>1, <3>2, <3>3, <3>4 DEF Unstarted
  <2>3. QED
    BY <1>1, <2>1, <2>2, OthersStay
<1>6. CreatorsDiffer'
  <2>1. \A v \in Workers : v # w => ~(/\ worker'[v].caller = "create" /\ worker'[w].caller = "create"
                                      /\ worker'[v].s = worker'[w].s)
    <3> SUFFICES ASSUME NEW v \in Workers, v # w, worker[v].caller = "create",
                        worker'[w].caller = "create", worker[v].s = worker'[w].s
                 PROVE  FALSE
      OBVIOUS
    <3>1. worker[v].op # "idle"
      BY <1>1 DEF Placed
    <3>2. session[worker[v].s].status # "NONE"
      BY <1>2, <3>1
    <3>3. worker[w].caller = "create" /\ worker[w].s = worker[v].s
      BY <3>2
    <3>4. QED
      BY <1>1, <3>3 DEF CreatorsDiffer
  <2>2. \A v, u \in Workers : v # w /\ u # w =>
          (worker'[v].caller = "create" /\ worker'[u].caller = "create"
             /\ worker'[v].s = worker'[u].s => v = u)
    BY <1>1 DEF CreatorsDiffer
  <2>3. QED
    BY <2>1, <2>2 DEF CreatorsDiffer
<1>7. QED
  BY <1>4, <1>5, <1>6 DEF SettlementInv

\* What the invariant says of a handler at work.
LEMMA AtWork ==
  ASSUME SettlementInv, NEW w \in Workers, worker[w].op # "idle"
  PROVE  /\ Of(w) \in Sessions /\ Of(w) = worker[w].s
         /\ session[Of(w)].status \in SessionStatus \ {"CANCELLED"}
         /\ session[Of(w)].connector \in Connectors
         /\ session[Of(w)] \in SessionRows /\ intent[Of(w)] \in IntentRows
         /\ reservation[Of(w)] \in ReservationRows
         /\ worker[w] \in Handlers
         /\ session[Of(w)].status = "PENDING" =>
              worker[w].caller = "create" \/ worker[w].op \in {"startPrepare", "stopPrepare"}
         /\ Place(worker[w].op, worker[w].caller, worker[w].after, Of(w))
         /\ Snapshot(worker[w].op, worker[w].seen, Of(w))
         /\ Coherent(Of(w))
<1>1. Of(w) = worker[w].s
  BY DEF Of
<1>2. /\ Of(w) \in Sessions
      /\ session[Of(w)].status # "NONE"
      /\ session[Of(w)].status = "PENDING" =>
           worker[w].caller = "create" \/ worker[w].op \in {"startPrepare", "stopPrepare"}
      /\ Place(worker[w].op, worker[w].caller, worker[w].after, Of(w))
      /\ Snapshot(worker[w].op, worker[w].seen, Of(w))
  BY <1>1 DEF SettlementInv, Placed
<1>3. /\ session[Of(w)] \in SessionRows /\ intent[Of(w)] \in IntentRows
      /\ reservation[Of(w)] \in ReservationRows /\ worker[w] \in Handlers
      /\ Coherent(Of(w))
  BY <1>2 DEF SettlementInv, RowsTyped
<1>4. /\ session[Of(w)].status \in SessionStatus \ {"CANCELLED"}
      /\ session[Of(w)].connector \in Connectors
  BY <1>2, <1>3 DEF Coherent, SessionRows
<1>5. QED
  BY <1>1, <1>2, <1>3, <1>4

\* A step that leaves the rows alone leaves what they say alone.
LEMMA SameRows ==
  ASSUME SettlementInv, UNCHANGED <<money, rows, charger>>, errors' = 0 => errors = 0,
         NEW s \in Sessions
  PROVE  Unmoved(s) /\ Advances(s) /\ Coherent(s)'
<1>1. /\ session' = session /\ intent' = intent /\ receipt' = receipt
      /\ charger' = charger /\ reservation' = reservation
  BY DEF rows, money
<1>2. session[s].version \in Nat /\ intent[s].version \in Nat /\ Coherent(s)
  BY DEF SettlementInv, RowsTyped, SessionRows, IntentRows
<1>3. QED
  BY <1>1, <1>2 DEF Unmoved, Advances, Coherent

\* A handler that goes on to op is placed there.
LEMMA GoesTo ==
  ASSUME SettlementInv, NEW w \in Workers, NEW s \in Sessions, s = worker[w].s,
         worker[w].op # "idle",
         NEW op \in Ops \cup {"idle"}, NEW after \in Afters, Decide(w, op, after),
         op # "idle" =>
           /\ session'[s].status # "NONE"
           /\ session'[s].status = "PENDING" => worker[w].caller = "create"
           /\ Place(op, worker[w].caller, after, s)'
  PROVE  Placed(worker[w])'
<1>1. RowsTyped
  BY DEF SettlementInv
<1>2. /\ worker'[w].op = op
      /\ op = "idle" => worker'[w] = Idle
      /\ op # "idle" => /\ worker'[w].s = s
                        /\ worker'[w].caller = worker[w].caller
                        /\ worker'[w].seen = Unread
                        /\ worker'[w].after = after
  BY <1>1, Decided
<1>3. CASE op = "idle"
  BY <1>2, <1>3 DEF Placed, Idle
<1>4. CASE op # "idle"
  <2>1. Snapshot(op, Unread, s)'
    BY DEF Snapshot
  <2>2. Place(worker[w].op, worker[w].caller, worker[w].after, worker[w].s)'
    BY <1>2, <1>4 DEF Place
  <2>3. QED
    BY <1>2, <1>4, <2>1, <2>2 DEF Placed
<1>5. QED
  BY <1>3, <1>4

\* A step that only moves a handler on keeps the invariant if the handler may
\* be where it goes.
LEMMA GoesOn ==
  ASSUME SettlementInv, NEW w \in Workers, worker[w].op # "idle",
         NEW op \in Ops \cup {"idle"}, NEW after \in Afters, Decide(w, op, after),
         UNCHANGED <<money, rows, charger, faults>>,
         op # "idle" =>
           /\ session[Of(w)].status = "PENDING" => worker[w].caller = "create"
           /\ Place(op, worker[w].caller, after, Of(w))
  PROVE  SettlementInv'
<1>1. /\ session' = session /\ connector' = connector /\ intent' = intent /\ receipt' = receipt
      /\ charger' = charger /\ statusWrites' = statusWrites /\ crashes' = crashes /\ errors' = errors
      /\ reservation' = reservation
  BY DEF rows, money, faults
<1>2. RowsTyped /\ reservation \in [Sessions -> ReservationRows]
  BY DEF SettlementInv
<1>3. PICK s \in Sessions : s = worker[w].s
  BY AtWork
<1>4. /\ worker' \in [Workers -> Handlers]
      /\ \A v \in Workers : v # w => worker'[v] = worker[v]
      /\ op = "idle" => worker'[w] = Idle
      /\ op # "idle" => worker'[w].s = s /\ worker'[w].caller = worker[w].caller
  BY <1>2, <1>3, Decided
<1>5. RowsTyped' /\ (reservation \in [Sessions -> ReservationRows])'
  BY <1>1, <1>2, <1>4 DEF RowsTyped
<1>6. \A t \in Sessions : Unmoved(t) /\ Advances(t) /\ Coherent(t)'
  BY <1>1, SameRows
<1>7. session[s].status # "NONE"
  BY <1>3 DEF SettlementInv, Placed
<1>8. Placed(worker[w])'
  <2>1. op # "idle" =>
          /\ session'[s].status # "NONE"
          /\ session'[s].status = "PENDING" => worker[w].caller = "create"
          /\ Place(op, worker[w].caller, after, s)'
    <3>1. Of(w) = s
      BY <1>3 DEF Of
    <3>2. op # "idle" /\ Place(op, worker[w].caller, after, s)
            => Place(op, worker[w].caller, after, s)'
      BY <1>1, <1>4 DEF Place
    <3>3. QED
      BY <1>1, <1>7, <3>1, <3>2
  <2>2. QED
    BY <1>3, <2>1, GoesTo
<1>9. worker'[w].caller = "create" => worker[w].caller = "create" /\ worker[w].s = worker'[w].s
  BY <1>3, <1>4 DEF Idle
<1>10. \A t \in Sessions : receipt'[t] = receipt[t] /\ charger'[t] = charger[t]
  BY <1>1
<1>11. QED
  BY <1>4, <1>5, <1>6, <1>8, <1>9, <1>10, StepOfOne

\* An error ends the handler or makes it fail its session.
LEMMA ErrorsFail ==
  ASSUME NEW w \in Workers
  PROVE  /\ OnError(w) \in {"idle", "fail"}
         /\ \A caller, after, s :
              Place("fail", caller, after, s)
BY DEF OnError, Place, Creating, Settling, Cancelling

\* A handler whose operation throws goes where its caller catches.
LEMMA Errs ==
  ASSUME SettlementInv, NEW w \in Workers, worker[w].op # "idle", Goto(w, OnError(w)),
         UNCHANGED <<money, rows, charger, faults>>,
         session[Of(w)].status = "PENDING" => worker[w].caller = "create"
  PROVE  SettlementInv'
<1>1. OnError(w) \in Ops \cup {"idle"}
  BY ErrorsFail, OpsAre
<1>2. worker[w].after \in Afters
  BY AtWork DEF Handlers, Afters
<1>3. Decide(w, OnError(w), worker[w].after)
  BY DEF Goto
<1>4. Place("fail", worker[w].caller, worker[w].after, Of(w))
  BY ErrorsFail
<1>5. QED
  BY <1>1, <1>2, <1>3, <1>4, ErrorsFail, GoesOn

\* A handler that ends keeps the invariant.
LEMMA Ends ==
  ASSUME SettlementInv, NEW w \in Workers, worker[w].op # "idle", Goto(w, "idle"),
         UNCHANGED <<money, rows, charger, faults>>
  PROVE  SettlementInv'
<1>1. worker[w].after \in Afters
  BY AtWork DEF Handlers, Afters
<1>2. QED
  BY <1>1, GoesOn DEF Goto

\* A handler at work goes on to op after a write of its session.
LEMMA WritesSession ==
  ASSUME SettlementInv, NEW w \in Workers, NEW s \in Sessions, s = worker[w].s,
         worker[w].op # "idle",
         NEW to \in Underway \cup Ended, NEW cost \in {0} \cup Costs,
         session' \in [Sessions -> SessionRows],
         session'[s].status = to, session'[s].version = session[s].version + 1,
         session'[s].connector = session[s].connector, session'[s].cost = cost,
         \A t \in Sessions : t # s => session'[t] = session[t],
         connector' \in [Connectors -> ConnectorStatus],
         UNCHANGED <<money, intent, receipt, charger, faults>>,
         NEW op \in {"idle", "gatewayStart", "gatewayStop", "complete", "settle", "cancel"},
         Goto(w, op),
         op = "settle" => to = "COMPLETED",
         op = "cancel" => to \in Ended,
         \/ session[s].status \in Underway
         \/ /\ session[s].status = "PENDING" /\ worker[w].caller = "create"
            /\ \/ /\ to = "AUTHORIZED"
                  /\ intent[s].status = "AUTHORIZED" /\ reservation[s].status = "RESERVED"
               \/ to = "FAILED",
         IF to = "COMPLETED" THEN cost \in Costs /\ session[s].status \in Underway ELSE cost = 0
  PROVE  SettlementInv'
<1>1. /\ RowsTyped /\ reservation \in [Sessions -> ReservationRows] /\ Coherent(s)
      /\ session[s] \in SessionRows
  BY DEF SettlementInv, RowsTyped
<1>2. op \in Ops \cup {"idle"}
  BY OpsAre
<1>3. PICK after \in Afters : after = worker[w].after
  BY AtWork DEF Handlers, Afters
<1>4. Decide(w, op, after)
  BY <1>3 DEF Goto
<1>5. /\ worker' \in [Workers -> Handlers]
      /\ \A v \in Workers : v # w => worker'[v] = worker[v]
      /\ op = "idle" => worker'[w] = Idle
      /\ op # "idle" => worker'[w].s = s /\ worker'[w].caller = worker[w].caller
  BY <1>1, <1>2, <1>3, <1>4, Decided
<1>6. /\ intent' = intent /\ receipt' = receipt /\ charger' = charger
      /\ reservation' = reservation /\ statusWrites' = statusWrites /\ crashes' = crashes /\ errors' = errors
  BY DEF money, faults
<1>7. RowsTyped'
  BY <1>1, <1>5, <1>6 DEF RowsTyped
<1>8. Advances(s)
  BY <1>1, <1>6
  DEF Advances, SessionRows, Underway, Ended, RowsTyped, IntentRows
<1>9. Coherent(s)'
  BY <1>1, <1>6 DEF Coherent, Underway, Ended, Unstarted
<1>10. Placed(worker[w])'
  <2>1. op # "idle" =>
          /\ session'[s].status # "NONE"
          /\ session'[s].status = "PENDING" => worker[w].caller = "create"
          /\ Place(op, worker[w].caller, after, s)'
    BY <1>5 DEF Place, Underway, Ended, Unstarted, Creating, Settling, Cancelling
  <2>2. QED
    BY <1>2, <1>3, <1>4, <2>1, GoesTo
<1>11. worker'[w].caller = "create" => worker[w].caller = "create" /\ worker[w].s = worker'[w].s
  BY <1>5 DEF Idle
<1>12. \A t \in Sessions : t # s =>
         Unmoved(t) /\ receipt'[t] = receipt[t] /\ charger'[t] = charger[t]
  BY <1>6 DEF Unmoved
<1>13. session[s].status \notin Unstarted \/ (session[s].status = "PENDING" /\ worker[w].caller = "create")
  BY DEF Underway, Unstarted
<1>14. (reservation \in [Sessions -> ReservationRows])'
  BY <1>1, <1>6
<1>15. QED
  BY <1>5, <1>7, <1>8, <1>9, <1>10, <1>11, <1>12, <1>13, <1>14, StepOfOne

\* What a fresh snapshot of a session transaction says is so.
LEMMA FreshSession ==
  ASSUME SettlementInv, NEW w \in Workers, worker[w].op \in SessionOps, HasRead(w)
  PROVE  /\ Seen(w).status \in SessionStatus \ {"CANCELLED"}
         /\ Fresh(w) => Seen(w).status = session[Of(w)].status
         /\ Seen(w).status \in Ended => Seen(w).status = session[Of(w)].status
         /\ Seen(w).status \notin Unstarted => session[Of(w)].status \notin Unstarted
<1>1. worker[w].op # "idle"
  BY DEF SessionOps
<1>2. Snapshot(worker[w].op, worker[w].seen, Of(w))
  BY <1>1, AtWork
<1>3. QED
  BY <1>2 DEF Snapshot, HasRead, Seen, Fresh

\* A read keeps the invariant if it tells what the rows say.
LEMMA Reads ==
  ASSUME SettlementInv, NEW w \in Workers, worker[w].op # "idle",
         NEW seen \in Snapshots, worker' = [worker EXCEPT ![w].seen = seen],
         UNCHANGED <<money, rows, charger, faults>>,
         Snapshot(worker[w].op, seen, worker[w].s)
  PROVE  SettlementInv'
<1>1. /\ session' = session /\ connector' = connector /\ intent' = intent /\ receipt' = receipt
      /\ charger' = charger /\ statusWrites' = statusWrites /\ crashes' = crashes /\ errors' = errors
      /\ reservation' = reservation
  BY DEF rows, money, faults
<1>2. RowsTyped /\ reservation \in [Sessions -> ReservationRows] /\ Placed(worker[w])
  BY DEF SettlementInv
<1>3. PICK s \in Sessions : s = worker[w].s
  BY AtWork
<1>4. /\ worker' \in [Workers -> Handlers]
      /\ \A v \in Workers : v # w => worker'[v] = worker[v]
      /\ worker'[w].op = worker[w].op /\ worker'[w].s = worker[w].s
      /\ worker'[w].caller = worker[w].caller /\ worker'[w].after = worker[w].after
      /\ worker'[w].seen = seen
  BY <1>2 DEF RowsTyped, Handlers
<1>5. RowsTyped' /\ (reservation \in [Sessions -> ReservationRows])'
  BY <1>1, <1>2, <1>4 DEF RowsTyped
<1>6. \A t \in Sessions : Unmoved(t) /\ Advances(t) /\ Coherent(t)'
  BY <1>1, SameRows
<1>7. Placed(worker[w])'
  <2>1. Place(worker[w].op, worker[w].caller, worker[w].after, worker[w].s)'
    BY <1>1, <1>2, <1>4 DEF Placed, Place
  <2>2. Snapshot(worker[w].op, worker[w].seen, worker[w].s)'
    BY <1>1, <1>4 DEF Snapshot
  <2>3. QED
    BY <1>1, <1>2, <1>4, <2>1, <2>2 DEF Placed
<1>8. \A t \in Sessions : receipt'[t] = receipt[t] /\ charger'[t] = charger[t]
  BY <1>1
<1>9. QED
  BY <1>3, <1>4, <1>5, <1>6, <1>7, <1>8, StepOfOne

\* A transaction reads the session (and its connector).
LEMMA ReadSessionKeeps ==
  ASSUME SettlementInv, NEW w \in Workers, ReadSession(w)
  PROVE  SettlementInv'
<1> DEFINE seen == [status |-> session[Of(w)].status, version |-> session[Of(w)].version,
                    connector |-> connector[session[Of(w)].connector]]
<1>1. worker[w].op \in SessionOps /\ worker[w].op # "idle"
      /\ worker' = [worker EXCEPT ![w].seen = seen]
      /\ UNCHANGED <<money, rows, charger, faults>>
  BY DEF ReadSession, SessionOps
<1>2. /\ Of(w) = worker[w].s /\ session[Of(w)] \in SessionRows
      /\ session[Of(w)].status \in SessionStatus \ {"CANCELLED"}
      /\ session[Of(w)].connector \in Connectors
  BY <1>1, AtWork
<1>3. connector \in [Connectors -> ConnectorStatus]
  BY DEF SettlementInv, RowsTyped
<1>4. seen \in Snapshots
  BY <1>2, <1>3 DEF Snapshots, SessionRows
<1>5. Snapshot(worker[w].op, seen, worker[w].s)
  BY <1>1, <1>2, Targets DEF Snapshot, SessionOps, SessionRows
<1> HIDE DEF seen
<1>6. QED
  BY <1>1, <1>4, <1>5, Reads

\* transitionPaymentIntent reads the intent.
LEMMA ReadIntentKeeps ==
  ASSUME SettlementInv, NEW w \in Workers, ReadIntent(w)
  PROVE  SettlementInv'
<1> DEFINE seen == [status |-> intent[Of(w)].status, version |-> intent[Of(w)].version,
                    connector |-> NoOne]
<1>1. worker[w].op \in DOMAIN IntentTarget /\ worker[w].op # "idle"
      /\ worker' = [worker EXCEPT ![w].seen = seen]
      /\ UNCHANGED <<money, rows, charger, faults>>
  BY Targets DEF ReadIntent, InTransition
<1>2. /\ Of(w) = worker[w].s /\ intent[Of(w)] \in IntentRows
      /\ Place(worker[w].op, worker[w].caller, worker[w].after, Of(w))
  BY <1>1, AtWork
<1>3. intent[Of(w)].status \in IntentStatus /\ intent[Of(w)].version \in Nat
  BY <1>1, <1>2, Targets DEF IntentRows, Place, Cancelling
<1>4. seen \in Snapshots
  BY <1>3 DEF Snapshots
<1>5. Snapshot(worker[w].op, seen, worker[w].s)
  BY <1>1, <1>2, <1>3, Targets DEF Snapshot, SessionOps
<1> HIDE DEF seen
<1>6. QED
  BY <1>1, <1>4, <1>5, Reads

\* What a snapshot of an intent transition says.
LEMMA SeenIntent ==
  ASSUME SettlementInv, NEW w \in Workers, InTransition(w), HasRead(w)
  PROVE  /\ worker[w].op # "idle"
         /\ worker[w].op \in {"pend", "authorizeIntent", "failIntent", "review",
                              "captureIntent", "cancelIntent"}
         /\ Seen(w) # Lost =>
              /\ Seen(w).status \in IntentStatus
              /\ Seen(w).version = intent[Of(w)].version => Seen(w).status = intent[Of(w)].status
              /\ Seen(w).status = "CAPTURED" => intent[Of(w)].status = "CAPTURED"
         /\ worker[w].op \in {"pend", "authorizeIntent", "failIntent"} =>
              /\ Seen(w).status = intent[Of(w)].status
              /\ Seen(w).version = intent[Of(w)].version
              /\ Seen(w) # Lost
<1>1. /\ worker[w].op # "idle"
      /\ worker[w].op \in {"pend", "authorizeIntent", "failIntent", "review",
                           "captureIntent", "cancelIntent"}
  BY Targets DEF InTransition
<1>2. /\ Snapshot(worker[w].op, worker[w].seen, Of(w))
      /\ Place(worker[w].op, worker[w].caller, worker[w].after, Of(w))
  BY <1>1, AtWork
<1>3. worker[w].op \in {"pend", "authorizeIntent", "failIntent"} => intent[Of(w)].status # "lost"
  BY <1>2 DEF Place
<1>4. QED
  BY <1>1, <1>2, <1>3 DEF Snapshot, HasRead, Seen, InTransition, Lost

\* Where a transition that did what it aims at leads.
LEMMA TransitionPlace ==
  ASSUME SettlementInv, NEW w \in Workers, InTransition(w), HasRead(w)
  PROVE  /\ worker[w].op = "pend" => AfterTransition(w) = "reserve"
         /\ worker[w].op = "authorizeIntent" => AfterTransition(w) = "authorizeSession"
         /\ worker[w].op = "failIntent" => AfterTransition(w) = "fail"
         /\ worker[w].op = "review" => AfterTransition(w) = OnError(w)
         /\ worker[w].op = "captureIntent" => AfterTransition(w) = "receiptRead"
         /\ worker[w].op = "cancelIntent" => AfterTransition(w) = "idle"
         /\ AfterTransition(w) \in Ops \cup {"idle"}
         /\ worker[w].op = "authorizeIntent" => AfterTransitionError(w) = "authorizeCatch"
         /\ worker[w].op = "cancelIntent" => AfterTransitionError(w) = "idle"
         /\ worker[w].op \notin {"authorizeIntent", "cancelIntent"} =>
              AfterTransitionError(w) = OnError(w)
<1>1. worker[w].op \in {"pend", "authorizeIntent", "failIntent", "review",
                        "captureIntent", "cancelIntent"}
  BY SeenIntent
<1>2. /\ worker[w].op = "pend" => AfterTransition(w) = "reserve"
      /\ worker[w].op = "authorizeIntent" => AfterTransition(w) = "authorizeSession"
      /\ worker[w].op = "failIntent" => AfterTransition(w) = "fail"
      /\ worker[w].op = "review" => AfterTransition(w) = OnError(w)
      /\ worker[w].op = "captureIntent" => AfterTransition(w) = "receiptRead"
      /\ worker[w].op = "cancelIntent" => AfterTransition(w) = "idle"
  BY DEF AfterTransition, At
<1>3. /\ worker[w].op = "authorizeIntent" => AfterTransitionError(w) = "authorizeCatch"
      /\ worker[w].op = "cancelIntent" => AfterTransitionError(w) = "idle"
      /\ worker[w].op \notin {"authorizeIntent", "cancelIntent"} =>
           AfterTransitionError(w) = OnError(w)
  BY DEF AfterTransitionError, At
<1>4. QED
  BY <1>1, <1>2, <1>3, ErrorsFail, OpsAre

\* The intent reaches the status the handler aims at.
LEMMA IntentReached ==
  ASSUME SettlementInv, NEW w \in Workers, InTransition(w), HasRead(w), Seen(w) # Lost,
         NEW s \in Sessions, s = worker[w].s,
         LegalIntentMove(Seen(w).status, IntentTarget[worker[w].op]),
         Seen(w).status # IntentTarget[worker[w].op],
         intent[s].version = Seen(w).version,
         intent' = [intent EXCEPT ![s] =
           [status |-> IntentTarget[worker[w].op], version |-> intent[s].version + 1]],
         Goto(w, AfterTransition(w)),
         UNCHANGED <<money, session, connector, receipt, charger, faults>>
  PROVE  SettlementInv'
<1> DEFINE from == intent[s].status
           to   == IntentTarget[worker[w].op]
<1>1. /\ Of(w) = s /\ worker[w].op # "idle"
      /\ worker[w].op \in {"pend", "authorizeIntent", "failIntent", "review",
                           "captureIntent", "cancelIntent"}
      /\ Seen(w).status = from /\ from \in IntentStatus
      /\ Place(worker[w].op, worker[w].caller, worker[w].after, s)
      /\ session[s].status = "PENDING" => worker[w].caller = "create"
  BY SeenIntent, AtWork
<1>2. /\ RowsTyped /\ reservation \in [Sessions -> ReservationRows] /\ Coherent(s)
      /\ session[s].version \in Nat /\ intent[s].version \in Nat
      /\ session[s].status # "NONE"
  BY <1>1 DEF SettlementInv, RowsTyped, SessionRows, IntentRows, Placed
<1>3. to \in IntentTransitions[from] /\ to # from
  BY <1>1 DEF LegalIntentMove
<1>4. /\ session' = session /\ connector' = connector /\ receipt' = receipt /\ charger' = charger
      /\ reservation' = reservation /\ statusWrites' = statusWrites /\ crashes' = crashes /\ errors' = errors
      /\ intent'[s].status = to /\ intent'[s].version = intent[s].version + 1
      /\ \A t \in Sessions : t # s => intent'[t] = intent[t]
  BY <1>2 DEF money, faults, RowsTyped
<1>5. PICK after \in Afters : after = worker[w].after
  BY <1>1, AtWork DEF Handlers, Afters
<1>6. PICK op \in Ops \cup {"idle"} : op = AfterTransition(w)
  BY TransitionPlace
<1>7. Decide(w, op, after)
  BY <1>5, <1>6 DEF Goto
<1>8. /\ worker' \in [Workers -> Handlers]
      /\ \A v \in Workers : v # w => worker'[v] = worker[v]
      /\ op = "idle" => worker'[w] = Idle
      /\ op # "idle" => worker'[w].s = s /\ worker'[w].caller = worker[w].caller
  BY <1>2, <1>7, Decided
<1>9. to \in IntentStatus
  BY <1>1, Targets, Statuses
<1>10. RowsTyped' /\ (reservation \in [Sessions -> ReservationRows])'
  BY <1>2, <1>4, <1>8, <1>9 DEF RowsTyped, IntentRows
\* From where each of the six transitions goes.
<1>11. \/ worker[w].op = "pend" /\ from = "CREATED" /\ to = "PENDING"
       \/ worker[w].op = "authorizeIntent" /\ from = "PENDING" /\ to = "AUTHORIZED"
       \/ worker[w].op = "failIntent" /\ from = "PENDING" /\ to = "FAILED"
       \/ worker[w].op = "review" /\ from = "AUTHORIZED" /\ to = "REQUIRES_REVIEW"
       \/ worker[w].op = "captureIntent" /\ from = "AUTHORIZED" /\ to = "CAPTURED"
       \/ /\ worker[w].op = "cancelIntent" /\ to = "CANCELLED"
          /\ from \in {"CREATED", "PENDING", "AUTHORIZED"}
  <2>1. CASE worker[w].op \in {"pend", "authorizeIntent", "failIntent"}
    BY <1>1, <2>1, Targets DEF Place
  <2>2. CASE worker[w].op \in {"review", "captureIntent"}
    <3>1. from \in {"AUTHORIZED", "CAPTURED", "CANCELLED", "REQUIRES_REVIEW"}
      BY <1>1, <1>2, <2>2 DEF Place, Settling, Coherent
    <3>2. from # "CANCELLED"
      BY <1>3 DEF IntentTransitions
    <3>3. worker[w].op = "review" => from = "AUTHORIZED"
      BY <1>1, <1>2, <1>3, <3>1, <3>2, Targets DEF Place, Coherent
    <3>4. worker[w].op = "captureIntent" => from = "AUTHORIZED"
      BY <1>1, <1>2, <1>3, <3>1, <3>2, Targets DEF Place, Coherent
    <3>5. QED
      BY <2>2, <3>3, <3>4, Targets
  <2>3. CASE worker[w].op = "cancelIntent"
    <3>1. from \in {"CREATED", "PENDING", "AUTHORIZED", "CAPTURED", "CANCELLED",
                    "REQUIRES_REVIEW", "FAILED"}
      BY <1>1, <1>2, <2>3 DEF Place, Cancelling, Coherent, Ended
    <3>2. to = "CANCELLED"
      BY <2>3, Targets
    <3>3. from \in {"CREATED", "PENDING", "AUTHORIZED"}
      BY <1>3, <3>1, <3>2 DEF IntentTransitions
    <3>4. QED
      BY <2>3, <3>2, <3>3
  <2>4. QED
    BY <1>1, <2>1, <2>2, <2>3
<1>12. Advances(s)
  BY <1>2, <1>4, <1>11 DEF Advances
<1>13. Coherent(s)'
  BY ZenonT(20), <1>1, <1>2, <1>4, <1>11
  DEF Coherent, Place, Creating, Settling, Cancelling, Unstarted, Underway, Ended
<1>14. Placed(worker[w])'
  <2>1. op # "idle" =>
          /\ session'[s].status # "NONE"
          /\ session'[s].status = "PENDING" => worker[w].caller = "create"
          /\ Place(op, worker[w].caller, after, s)'
    <3>1. CASE op = "idle"
      BY <3>1
    <3>2. CASE op # "idle"
      <4>1. \/ op = "reserve" /\ worker[w].op = "pend"
            \/ op = "authorizeSession" /\ worker[w].op = "authorizeIntent"
            \/ op = "fail" /\ worker[w].op \in {"failIntent", "review"}
            \/ op = "receiptRead" /\ worker[w].op = "captureIntent"
        BY <1>1, <1>6, <3>2, TransitionPlace, ErrorsFail
      <4>2. CASE op = "reserve"
        <5>1. worker[w].op = "pend" /\ from = "CREATED" /\ intent'[s].status = "PENDING"
          BY <1>4, <1>11, <4>1, <4>2
        <5>2. worker[w].caller = "create" /\ session[s].status = "PENDING"
          BY <1>1, <5>1 DEF Place, Creating
        <5>3. reservation[s].status = "NONE"
          BY <1>2, <5>1 DEF Coherent
        <5>4. worker'[w].caller = "create" /\ session'[s].status = "PENDING"
              /\ reservation'[s].status = "NONE"
          BY <1>4, <1>8, <3>2, <5>2, <5>3
        <5>5. QED
          BY <4>2, <5>1, <5>2, <5>4 DEF Place, Creating, Settling, Cancelling
      <4>3. CASE op = "authorizeSession"
        <5>1. worker[w].op = "authorizeIntent" /\ intent'[s].status = "AUTHORIZED"
          BY <1>4, <1>11, <4>1, <4>3
        <5>2. /\ worker[w].caller = "create" /\ session[s].status = "PENDING"
              /\ reservation[s].status = "RESERVED"
          BY <1>1, <5>1 DEF Place, Creating
        <5>3. worker'[w].caller = "create" /\ session'[s].status = "PENDING"
              /\ reservation'[s].status = "RESERVED"
          BY <1>4, <1>8, <3>2, <5>2
        <5>4. QED
          BY <4>3, <5>1, <5>2, <5>3 DEF Place, Creating, Settling, Cancelling
      <4>4. CASE op = "fail"
        BY <1>1, <1>2, <1>4, <4>4 DEF Place, Creating, Settling, Cancelling
      <4>5. CASE op = "receiptRead"
        BY <1>1, <1>2, <1>4, <1>5, <1>11, <4>1, <4>5 DEF Place, Creating, Settling, Cancelling
      <4>6. QED
        BY <4>1, <4>2, <4>3, <4>4, <4>5
    <3>3. QED
      BY <3>1, <3>2
  <2>2. QED
    BY <1>1, <1>7, <2>1, GoesTo
<1>15. worker'[w].caller = "create" => worker[w].caller = "create" /\ worker[w].s = worker'[w].s
  BY <1>8 DEF Idle
<1>16. \A t \in Sessions : t # s =>
         Unmoved(t) /\ receipt'[t] = receipt[t] /\ charger'[t] = charger[t]
  BY <1>4 DEF Unmoved
<1>17. session[s].status \notin Unstarted \/ (session[s].status = "PENDING" /\ worker[w].caller = "create")
  BY <1>1, <1>2 DEF Unstarted
<1> HIDE DEF from, to
<1>18. QED
  BY <1>8, <1>10, <1>12, <1>13, <1>14, <1>15, <1>16, <1>17, StepOfOne

\* A transition that another handler made goes on as one of its own.
LEMMA TransitionDone ==
  ASSUME SettlementInv, NEW w \in Workers, InTransition(w), HasRead(w),
         worker[w].op \notin {"pend", "authorizeIntent", "failIntent"},
         worker[w].op = "captureIntent" => intent[Of(w)].status = "CAPTURED",
         Goto(w, AfterTransition(w)),
         UNCHANGED <<money, rows, charger, faults>>
  PROVE  SettlementInv'
<1>1. /\ worker[w].op # "idle" /\ worker[w].op \in {"review", "captureIntent", "cancelIntent"}
      /\ Place(worker[w].op, worker[w].caller, worker[w].after, Of(w))
      /\ worker[w].after \in Afters
  BY SeenIntent, AtWork DEF Handlers, Afters
<1>2. session[Of(w)].status # "PENDING"
  BY <1>1 DEF Place, Settling, Cancelling, Ended
<1>3. CASE worker[w].op = "review"
  BY <1>1, <1>2, <1>3, TransitionPlace, Errs
<1>4. CASE worker[w].op = "cancelIntent"
  BY <1>1, <1>4, TransitionPlace, Ends
<1>5. CASE worker[w].op = "captureIntent"
  <2>1. AfterTransition(w) = "receiptRead" /\ "receiptRead" \in Ops
    BY <1>5, TransitionPlace, OpsAre
  <2>2. Decide(w, "receiptRead", worker[w].after)
    BY <2>1 DEF Goto
  <2>3. Place("receiptRead", worker[w].caller, worker[w].after, Of(w))
    BY <1>1, <1>5 DEF Place, Creating, Settling, Cancelling
  <2>4. QED
    BY <1>1, <1>2, <2>1, <2>2, <2>3, GoesOn
<1>6. QED
  BY <1>1, <1>3, <1>4, <1>5

\* A transition that is refused ends or fails the session.
LEMMA TransitionRefused ==
  ASSUME SettlementInv, NEW w \in Workers, InTransition(w), HasRead(w),
         worker[w].op \notin {"pend", "authorizeIntent", "failIntent"},
         Goto(w, AfterTransitionError(w)),
         UNCHANGED <<money, rows, charger, faults>>
  PROVE  SettlementInv'
<1>1. /\ worker[w].op # "idle" /\ worker[w].op \in {"review", "captureIntent", "cancelIntent"}
      /\ Place(worker[w].op, worker[w].caller, worker[w].after, Of(w))
  BY SeenIntent, AtWork
<1>2. session[Of(w)].status # "PENDING"
  BY <1>1 DEF Place, Settling, Cancelling, Ended
<1>3. AfterTransitionError(w) = OnError(w) \/ AfterTransitionError(w) = "idle"
  BY <1>1, TransitionPlace
<1>4. QED
  BY <1>1, <1>2, <1>3, Errs, Ends

\* The transitions of the creating handler find the intent as it left it.
LEMMA CreatorSucceeds ==
  ASSUME SettlementInv, NEW w \in Workers, InTransition(w), HasRead(w),
         worker[w].op \in {"pend", "authorizeIntent", "failIntent"}
  PROVE  /\ Seen(w) # Lost
         /\ LegalIntentMove(Seen(w).status, IntentTarget[worker[w].op])
         /\ Seen(w).status # IntentTarget[worker[w].op]
         /\ intent[Of(w)].version = Seen(w).version
<1>1. /\ Seen(w).status = intent[Of(w)].status /\ Seen(w).version = intent[Of(w)].version
      /\ Seen(w) # Lost
      /\ Place(worker[w].op, worker[w].caller, worker[w].after, Of(w))
  BY SeenIntent, AtWork
<1>2. worker[w].op = "pend" => Seen(w).status = "CREATED"
  BY <1>1 DEF Place
<1>3. worker[w].op \in {"authorizeIntent", "failIntent"} => Seen(w).status = "PENDING"
  BY <1>1 DEF Place
<1>4. QED
  BY <1>1, <1>2, <1>3, Targets DEF LegalIntentMove, IntentTransitions

\* The versioned update of the intent: written, replayed, refused or lost.
LEMMA WriteIntentKeeps ==
  ASSUME SettlementInv, NEW w \in Workers, WriteIntent(w)
  PROVE  SettlementInv'
<1> DEFINE target == IntentTarget[worker[w].op]
           legal  == LegalIntentMove(Seen(w).status, target)
           done   == Seen(w).status = target
           fresh  == intent[Of(w)].version = Seen(w).version
<1>1. /\ InTransition(w) /\ HasRead(w) /\ Seen(w) # Lost
      /\ UNCHANGED <<money, session, connector, receipt, charger, faults>>
  BY DEF WriteIntent
<1>2. /\ worker[w].op # "idle" /\ Of(w) \in Sessions /\ Of(w) = worker[w].s
      /\ worker \in [Workers -> Handlers] /\ intent \in [Sessions -> IntentRows]
  BY <1>1, SeenIntent, AtWork DEF SettlementInv, RowsTyped
<1>3. CASE /\ legal /\ ~done /\ fresh
           /\ intent' = [intent EXCEPT ![Of(w)] = [status |-> target, version |-> @.version + 1]]
           /\ Goto(w, AfterTransition(w))
  <2>1. PICK s \in Sessions : s = worker[w].s
    BY <1>2
  <2>2. intent' = [intent EXCEPT ![s] = [status |-> target, version |-> intent[s].version + 1]]
    BY <1>2, <1>3, <2>1
  <2>3. QED
    BY <1>1, <1>2, <1>3, <2>1, <2>2, IntentReached
<1>4. CASE done /\ Goto(w, AfterTransition(w)) /\ UNCHANGED intent
  <2>1. worker[w].op \notin {"pend", "authorizeIntent", "failIntent"}
    BY <1>1, <1>4, CreatorSucceeds
  <2>2. worker[w].op = "captureIntent" => intent[Of(w)].status = "CAPTURED"
    BY <1>1, <1>4, SeenIntent, Targets
  <2>3. UNCHANGED <<money, rows, charger, faults>>
    BY <1>1, <1>4 DEF rows
  <2>4. QED
    BY <1>1, <1>4, <2>1, <2>2, <2>3, TransitionDone
<1>5. CASE ~legal /\ Goto(w, AfterTransitionError(w)) /\ UNCHANGED intent
  <2>1. worker[w].op \notin {"pend", "authorizeIntent", "failIntent"}
    BY <1>1, <1>5, CreatorSucceeds
  <2>2. UNCHANGED <<money, rows, charger, faults>>
    BY <1>1, <1>5 DEF rows
  <2>3. QED
    BY <1>1, <1>5, <2>1, <2>2, TransitionRefused
<1>6. CASE /\ legal /\ ~done /\ ~fresh
           /\ worker' = [worker EXCEPT ![w].seen = Lost] /\ UNCHANGED intent
  <2>1. worker[w].op \notin {"pend", "authorizeIntent", "failIntent"}
    BY <1>1, <1>6, CreatorSucceeds
  <2>2. UNCHANGED <<money, rows, charger, faults>>
    BY <1>1, <1>6 DEF rows
  <2>3. Snapshot(worker[w].op, Lost, worker[w].s)
    BY <1>1, <2>1, SeenIntent DEF Snapshot, SessionOps
  <2>4. Lost \in Snapshots
    BY DEF Lost, Snapshots
  <2>5. QED
    BY <1>2, <1>6, <2>2, <2>3, <2>4, Reads
<1>7. QED
  BY <1>3, <1>4, <1>5, <1>6 DEF WriteIntent

\* A transition that lost its update reads the intent once more.
LEMMA RacedIntentKeeps ==
  ASSUME SettlementInv, NEW w \in Workers, RacedIntent(w)
  PROVE  SettlementInv'
<1>1. /\ InTransition(w) /\ Seen(w) = Lost /\ HasRead(w)
      /\ UNCHANGED <<money, rows, charger, faults>>
  BY DEF RacedIntent, HasRead, Lost, Unread
<1>2. worker[w].op \notin {"pend", "authorizeIntent", "failIntent"}
  BY <1>1, SeenIntent
<1>3. CASE intent[Of(w)].status = IntentTarget[worker[w].op]
  <2>1. Goto(w, AfterTransition(w))
    BY <1>3 DEF RacedIntent
  <2>2. worker[w].op = "captureIntent" => intent[Of(w)].status = "CAPTURED"
    BY <1>3, Targets
  <2>3. QED
    BY <1>1, <1>2, <2>1, <2>2, TransitionDone
<1>4. CASE intent[Of(w)].status # IntentTarget[worker[w].op]
  <2>1. Goto(w, AfterTransitionError(w))
    BY <1>4 DEF RacedIntent
  <2>2. QED
    BY <1>1, <1>2, <2>1, TransitionRefused
<1>5. QED
  BY <1>3, <1>4

\* The creating handler, at an operation before its session has its money.
LEMMA AtCreation ==
  ASSUME SettlementInv, NEW w \in Workers, worker[w].op \in Creating
  PROVE  /\ worker[w].op # "idle" /\ Of(w) \in Sessions /\ Of(w) = worker[w].s
         /\ worker[w].caller = "create" /\ session[Of(w)].status = "PENDING"
         /\ worker[w].after \in Afters
         /\ Place(worker[w].op, worker[w].caller, worker[w].after, Of(w))
         /\ Coherent(Of(w))
<1>1. worker[w].op # "idle"
  BY DEF Creating
<1>2. QED
  BY <1>1, AtWork DEF Place, Handlers, Afters

\* The intent is created for the session that waits for it.
LEMMA CreateIntentKeeps ==
  ASSUME SettlementInv, NEW w \in Workers, CreateIntent(w)
  PROVE  SettlementInv'
<1>1. /\ worker[w].op = "createIntent"
      /\ UNCHANGED <<money, session, connector, receipt, charger, faults>>
  BY DEF CreateIntent, At
<1>2. /\ worker[w].op # "idle" /\ Of(w) \in Sessions /\ Of(w) = worker[w].s
      /\ worker[w].caller = "create" /\ session[Of(w)].status = "PENDING"
      /\ worker[w].after \in Afters
      /\ intent[Of(w)].status = "NONE" /\ Coherent(Of(w))
  BY <1>1, AtCreation DEF Creating, Place
<1>3. CASE Goto(w, OnError(w)) /\ UNCHANGED intent
  <2>1. UNCHANGED <<money, rows, charger, faults>>
    BY <1>1, <1>3 DEF rows
  <2>2. QED
    BY <1>2, <1>3, <2>1, Errs
<1>4. CASE /\ intent' = [intent EXCEPT ![Of(w)] = [status |-> "CREATED", version |-> 0]]
           /\ Goto(w, "pend")
  <2>1. PICK s \in Sessions : s = worker[w].s
    BY <1>2
  <2>2. PICK after \in Afters : after = worker[w].after
    BY <1>2
  <2>3. Decide(w, "pend", after) /\ "pend" \in Ops \cup {"idle"}
    BY <1>4, <2>2, OpsAre DEF Goto
  <2>4. RowsTyped /\ reservation \in [Sessions -> ReservationRows]
    BY DEF SettlementInv
  <2>5. /\ worker' \in [Workers -> Handlers]
        /\ \A v \in Workers : v # w => worker'[v] = worker[v]
        /\ worker'[w].s = s /\ worker'[w].caller = worker[w].caller
    BY <2>1, <2>3, <2>4, Decided
  <2>6. /\ session' = session /\ connector' = connector /\ receipt' = receipt
        /\ charger' = charger /\ reservation' = reservation
        /\ statusWrites' = statusWrites /\ crashes' = crashes /\ errors' = errors
        /\ intent'[s] = [status |-> "CREATED", version |-> 0]
        /\ \A t \in Sessions : t # s => intent'[t] = intent[t]
    BY <1>1, <1>2, <1>4, <2>1, <2>4 DEF money, faults, RowsTyped
  <2>7. [status |-> "CREATED", version |-> 0] \in IntentRows
    BY Statuses DEF IntentRows
  <2>8. RowsTyped' /\ (reservation \in [Sessions -> ReservationRows])'
    BY <1>2, <1>4, <2>4, <2>5, <2>6, <2>7 DEF RowsTyped
  <2>9. session[s].version \in Nat
    BY <2>4 DEF RowsTyped, SessionRows
  <2>10. Advances(s)
    BY <1>2, <2>1, <2>6, <2>9 DEF Advances
  <2>11. Coherent(s)'
    BY <1>2, <2>1, <2>6 DEF Coherent, Unstarted, Underway, Ended
  <2>12. Placed(worker[w])'
    <3>1. Place("pend", worker[w].caller, after, s)'
      BY <1>2, <2>1, <2>5, <2>6 DEF Place, Creating, Settling, Cancelling
    <3>2. QED
      BY <1>2, <2>1, <2>3, <2>6, <3>1, GoesTo
  <2>13. \A t \in Sessions : t # s =>
           Unmoved(t) /\ receipt'[t] = receipt[t] /\ charger'[t] = charger[t]
    BY <2>6 DEF Unmoved
  <2>14. QED
    BY <1>2, <2>1, <2>5, <2>8, <2>10, <2>11, <2>12, <2>13, StepOfOne
<1>5. QED
  BY <1>3, <1>4 DEF CreateIntent

\* A handler goes on after it changed the reservation or the receipt of its
\* session, or its equipment did something.
LEMMA MovesAside ==
  ASSUME SettlementInv, NEW w \in Workers, NEW s \in Sessions, s = worker[w].s,
         worker[w].op # "idle",
         reservation' \in [Sessions -> ReservationRows], receipt' \in [Sessions -> BOOLEAN],
         charger' \in [Sessions -> ChargerStatus],
         \A t \in Sessions : t # s =>
           /\ reservation'[t] = reservation[t] /\ receipt'[t] = receipt[t]
           /\ charger'[t] = charger[t],
         UNCHANGED <<session, connector, intent, faults>>,
         reservation[s].status = "CAPTURED" => reservation'[s].status = "CAPTURED",
         reservation'[s].status = "RESERVED" =>
           reservation[s].status = "RESERVED" \/ session[s].status = "PENDING",
         Coherent(s)',
         session[s].status = "PENDING" => worker[w].caller = "create" \/ reservation'[s] = reservation[s],
         NEW op \in Ops \cup {"idle"}, NEW after \in Afters, Decide(w, op, after),
         op # "idle" =>
           /\ session[s].status = "PENDING" => worker[w].caller = "create"
           /\ Place(op, worker[w].caller, after, s)'
  PROVE  SettlementInv'
<1>1. /\ session' = session /\ connector' = connector /\ intent' = intent
      /\ statusWrites' = statusWrites /\ crashes' = crashes /\ errors' = errors
  BY DEF faults
<1>2. RowsTyped /\ Placed(worker[w])
  BY DEF SettlementInv
<1>3. /\ worker' \in [Workers -> Handlers]
      /\ \A v \in Workers : v # w => worker'[v] = worker[v]
      /\ op = "idle" => worker'[w] = Idle
      /\ op # "idle" => worker'[w].s = s /\ worker'[w].caller = worker[w].caller
  BY <1>2, Decided
<1>4. RowsTyped'
  BY <1>1, <1>2, <1>3 DEF RowsTyped
<1>5. session[s].version \in Nat /\ intent[s].version \in Nat /\ session[s].status # "NONE"
  BY <1>2 DEF RowsTyped, SessionRows, IntentRows, Placed
<1>6. Advances(s)
  BY <1>1, <1>5 DEF Advances
<1>7. Placed(worker[w])'
  BY <1>1, <1>5, GoesTo
<1>8. \A t \in Sessions : t # s =>
        Unmoved(t) /\ receipt'[t] = receipt[t] /\ charger'[t] = charger[t]
  BY <1>1 DEF Unmoved
<1>9. worker'[w].caller = "create" => worker[w].caller = "create" /\ worker[w].s = worker'[w].s
  BY <1>3 DEF Idle
<1>10. \/ session[s].status \notin Unstarted
       \/ session[s].status = "PENDING" /\ worker[w].caller = "create"
       \/ Unmoved(s)
  BY <1>1, <1>5 DEF Unmoved, Unstarted
<1>11. QED
  BY <1>3, <1>4, <1>6, <1>7, <1>8, <1>9, <1>10, StepOfOne

\* The money is held, or the wallet does not have it.
LEMMA ReserveMoneyKeeps ==
  ASSUME SettlementInv, NEW w \in Workers, ReserveMoney(w)
  PROVE  SettlementInv'
<1>1. worker[w].op = "reserve" /\ UNCHANGED <<rows, charger, faults>>
  BY DEF ReserveMoney, At
<1>2. /\ worker[w].op # "idle" /\ Of(w) \in Sessions /\ Of(w) = worker[w].s
      /\ worker[w].caller = "create" /\ session[Of(w)].status = "PENDING"
      /\ intent[Of(w)].status = "PENDING" /\ reservation[Of(w)].status = "NONE"
      /\ Coherent(Of(w))
  BY <1>1, AtCreation DEF Creating, Place
<1>3. PICK s \in Sessions : s = worker[w].s
  BY <1>2
<1>4. PICK after \in Afters : after = worker[w].after
  BY <1>1, AtCreation DEF Creating
<1>5. CASE Goto(w, "authorizeCatch") /\ UNCHANGED money
  <2>1. Place("authorizeCatch", worker[w].caller, worker[w].after, Of(w))
    BY <1>2 DEF Place, Creating, Settling, Cancelling
  <2>2. "authorizeCatch" \in Ops
    BY OpsAre
  <2>3. UNCHANGED <<money, rows, charger, faults>>
    BY <1>1, <1>5
  <2>4. QED
    BY <1>2, <1>4, <1>5, <2>1, <2>2, <2>3, GoesOn DEF Goto
<1>6. CASE Ledger!Reserve(Driver, Of(w), PreAuth) /\ Goto(w, "authorizeIntent")
  <2> DEFINE r == [wallet |-> Driver, status |-> "RESERVED",
                   amount |-> PreAuth, captured |-> 0, released |-> 0]
  <2>1. /\ reservation' = [reservation EXCEPT ![s] = r]
        /\ reservation \in [Sessions -> ReservationRows]
        /\ RowsTyped
    BY <1>2, <1>3, <1>6 DEF Ledger!Reserve, SettlementInv
  <2>2. r \in ReservationRows
    BY SettlementAssumption DEF ReservationRows, Ledger!ReservationStatus
  <2>3. /\ reservation' \in [Sessions -> ReservationRows] /\ reservation'[s] = r
        /\ \A t \in Sessions : t # s => reservation'[t] = reservation[t]
    BY <2>1, <2>2
  <2>4. /\ session' = session /\ intent' = intent /\ connector' = connector
        /\ receipt' = receipt /\ charger' = charger
    BY <1>1 DEF rows
  <2>5. Coherent(s)'
    BY <1>2, <1>3, <2>3, <2>4 DEF Coherent, Unstarted, Underway, Ended
  <2>6. "authorizeIntent" \in Ops /\ Decide(w, "authorizeIntent", after)
    BY <1>4, <1>6, OpsAre DEF Goto
  <2>7. worker'[w].caller = worker[w].caller
    BY <2>1, <2>6, Decided
  <2>8. Place("authorizeIntent", worker[w].caller, after, s)'
    BY <1>2, <1>3, <2>3, <2>4, <2>7 DEF Place, Creating, Settling, Cancelling
  <2>9. /\ reservation'[s].status = "RESERVED" /\ reservation[s].status = "NONE"
        /\ session[s].status = "PENDING"
    BY <1>2, <1>3, <2>3
  <2>10. receipt' \in [Sessions -> BOOLEAN] /\ charger' \in [Sessions -> ChargerStatus]
    BY <2>1, <2>4 DEF RowsTyped
  <2> HIDE DEF r
  <2>11. QED
    BY <1>1, <1>2, <1>3, <2>3, <2>4, <2>5, <2>6, <2>8, <2>9, <2>10, MovesAside
<1>7. QED
  BY <1>5, <1>6 DEF ReserveMoney

\* What becomes of the intent when its authorization throws.
LEMMA AuthorizeCatchKeeps ==
  ASSUME SettlementInv, NEW w \in Workers, AuthorizeCatch(w)
  PROVE  SettlementInv'
<1>1. worker[w].op = "authorizeCatch" /\ UNCHANGED <<money, rows, charger, faults>>
  BY DEF AuthorizeCatch, At
<1>2. /\ worker[w].op # "idle" /\ worker[w].caller = "create" /\ worker[w].after \in Afters
      /\ session[Of(w)].status = "PENDING"
      /\ intent[Of(w)].status = "PENDING" /\ (errors = 0 => reservation[Of(w)].status = "NONE")
  BY <1>1, AtCreation DEF Creating, Place
<1>3. Decide(w, "failIntent", worker[w].after) /\ "failIntent" \in Ops
  BY <1>2, OpsAre DEF AuthorizeCatch, Goto
<1>4. Place("failIntent", worker[w].caller, worker[w].after, Of(w))
  BY <1>2 DEF Place, Creating, Settling, Cancelling
<1>5. QED
  BY <1>1, <1>2, <1>3, <1>4, GoesOn

\* A session transaction whose write the status and the version allow.
LEMMA Written ==
  ASSUME SettlementInv, NEW w \in Workers, NEW op, NEW from,
         SessionWrite(w, op, from), op \in SessionOps
  PROVE  /\ worker[w].op = op /\ worker[w].op \in SessionOps /\ worker[w].op # "idle"
         /\ HasRead(w) /\ Fresh(w)
         /\ Seen(w).status = session[Of(w)].status
         /\ session[Of(w)].status \in from
         /\ UNCHANGED <<money, intent, receipt, charger, faults>>
         /\ Of(w) \in Sessions /\ Of(w) = worker[w].s
         /\ session \in [Sessions -> SessionRows] /\ connector \in [Connectors -> ConnectorStatus]
         /\ session[Of(w)].connector \in Connectors
         /\ session[Of(w)].status \in SessionStatus \ {"CANCELLED"}
         /\ Place(worker[w].op, worker[w].caller, worker[w].after, Of(w))
         /\ Coherent(Of(w))
         /\ session[Of(w)].status = "PENDING" =>
              worker[w].caller = "create" \/ worker[w].op \in {"startPrepare", "stopPrepare"}
<1>1. /\ worker[w].op = op /\ worker[w].op \in SessionOps /\ worker[w].op # "idle"
      /\ HasRead(w) /\ Fresh(w) /\ Seen(w).status \in from
      /\ UNCHANGED <<money, intent, receipt, charger, faults>>
  BY DEF SessionWrite, SessionOps, At
<1>2. session \in [Sessions -> SessionRows] /\ connector \in [Connectors -> ConnectorStatus]
  BY DEF SettlementInv, RowsTyped
<1>3. QED
  BY <1>1, <1>2, FreshSession, AtWork

\* What Moved writes.
LEMMA MovedIs ==
  ASSUME NEW w \in Workers, NEW s \in Sessions, s = Of(w),
         session \in [Sessions -> SessionRows], NEW status \in SessionStatus
  PROVE  /\ Moved(w, status) \in [Sessions -> SessionRows]
         /\ Moved(w, status)[s].status = status
         /\ Moved(w, status)[s].version = session[s].version + 1
         /\ Moved(w, status)[s].connector = session[s].connector
         /\ Moved(w, status)[s].cost = session[s].cost
         /\ \A t \in Sessions : t # s => Moved(w, status)[t] = session[t]
<1> DEFINE f == [session EXCEPT ![s].status = status]
           g == [f EXCEPT ![s].version = f[s].version + 1]
<1>1. session[s] \in SessionRows
  OBVIOUS
<1>2. /\ f \in [Sessions -> SessionRows]
      /\ f[s].status = status /\ f[s].version = session[s].version
      /\ f[s].connector = session[s].connector /\ f[s].cost = session[s].cost
      /\ \A t \in Sessions : t # s => f[t] = session[t]
  BY <1>1 DEF SessionRows
<1>3. Moved(w, status) = g
  BY DEF Moved
<1> HIDE DEF f
<1>4. /\ g \in [Sessions -> SessionRows]
      /\ g[s].status = f[s].status /\ g[s].version = f[s].version + 1
      /\ g[s].connector = f[s].connector /\ g[s].cost = f[s].cost
      /\ \A t \in Sessions : t # s => g[t] = f[t]
  BY <1>2 DEF SessionRows
<1> HIDE DEF g
<1>5. QED
  BY <1>1, <1>2, <1>3, <1>4

\* The session whose intent is authorized is authorized.
LEMMA AuthorizeSessionKeeps ==
  ASSUME SettlementInv, NEW w \in Workers, AuthorizeSession(w)
  PROVE  SettlementInv'
<1>1. /\ SessionWrite(w, "authorizeSession", {"PENDING"}) /\ "authorizeSession" \in SessionOps
      /\ session' = Moved(w, "AUTHORIZED") /\ Goto(w, "idle") /\ UNCHANGED connector
  BY DEF AuthorizeSession, SessionOps
<1>2. PICK s \in Sessions : s = worker[w].s /\ s = Of(w)
  BY <1>1, Written
<1>3. /\ worker[w].op = "authorizeSession" /\ worker[w].op # "idle"
      /\ session \in [Sessions -> SessionRows] /\ connector \in [Connectors -> ConnectorStatus]
      /\ session[s].status = "PENDING" /\ Coherent(s)
      /\ Place(worker[w].op, worker[w].caller, worker[w].after, s)
      /\ UNCHANGED <<money, intent, receipt, charger, faults>>
  BY <1>1, <1>2, Written
<1>4. session[s].cost = 0
  BY <1>3 DEF Coherent
<1>5. /\ session' \in [Sessions -> SessionRows]
      /\ session'[s].status = "AUTHORIZED" /\ session'[s].version = session[s].version + 1
      /\ session'[s].connector = session[s].connector /\ session'[s].cost = 0
      /\ \A t \in Sessions : t # s => session'[t] = session[t]
  BY <1>1, <1>2, <1>3, <1>4, MovedIs, Statuses
<1>6. worker[w].caller = "create" /\ intent[s].status = "AUTHORIZED" /\ reservation[s].status = "RESERVED"
  BY <1>3 DEF Place, Creating
<1>7. "AUTHORIZED" \in Underway
  BY DEF Underway
<1>8. connector' \in [Connectors -> ConnectorStatus]
  BY <1>1, <1>3
<1>9. QED
  BY <1>1, <1>2, <1>3, <1>5, <1>6, <1>7, <1>8, WritesSession

\* A session transaction that moves a session which has its money, or fails
\* one that has none.
LEMMA MovesSession ==
  ASSUME SettlementInv, NEW w \in Workers, NEW op \in SessionOps, NEW from,
         SessionWrite(w, op, from),
         NEW to \in Underway \cup {"FAILED"}, session' = Moved(w, to),
         connector' \in [Connectors -> ConnectorStatus],
         NEW next \in {"idle", "gatewayStart", "gatewayStop", "complete", "cancel"},
         Goto(w, next), next = "cancel" => to = "FAILED",
         \/ session[Of(w)].status \in Underway
         \/ session[Of(w)].status = "PENDING" /\ op = "fail" /\ to = "FAILED"
  PROVE  SettlementInv'
<1>1. PICK s \in Sessions : s = worker[w].s /\ s = Of(w)
  BY Written
<1>2. /\ worker[w].op = op /\ worker[w].op # "idle"
      /\ session \in [Sessions -> SessionRows]
      /\ Coherent(s)
      /\ Place(worker[w].op, worker[w].caller, worker[w].after, s)
      /\ UNCHANGED <<money, intent, receipt, charger, faults>>
      /\ session[s].status = "PENDING" =>
           worker[w].caller = "create" \/ worker[w].op \in {"startPrepare", "stopPrepare"}
  BY <1>1, Written
<1>3. session[s].cost = 0
  BY <1>1, <1>2 DEF Coherent, Underway
<1>4. to \in SessionStatus /\ to \in Underway \cup Ended /\ to # "COMPLETED"
  BY Statuses DEF Underway, Ended
<1>5. /\ session' \in [Sessions -> SessionRows]
      /\ session'[s].status = to /\ session'[s].version = session[s].version + 1
      /\ session'[s].connector = session[s].connector /\ session'[s].cost = 0
      /\ \A t \in Sessions : t # s => session'[t] = session[t]
  BY <1>1, <1>2, <1>3, <1>4, MovedIs
<1>6. \/ session[s].status \in Underway
      \/ /\ session[s].status = "PENDING" /\ worker[w].caller = "create"
         /\ to = "FAILED"
  BY <1>1, <1>2
<1>7. next = "cancel" => to \in Ended
  BY DEF Ended
<1>8. QED
  BY <1>1, <1>2, <1>4, <1>5, <1>6, <1>7, WritesSession

\* A session sets only a connector, and only to a status of one.
LEMMA ConnectorSet ==
  ASSUME SettlementInv, NEW w \in Workers, worker[w].op # "idle",
         NEW status \in ConnectorStatus, SetConnector(Of(w), status)
  PROVE  connector' \in [Connectors -> ConnectorStatus]
<1>1. connector \in [Connectors -> ConnectorStatus] /\ session[Of(w)].connector \in Connectors
  BY AtWork DEF SettlementInv, RowsTyped
<1>2. QED
  BY <1>1 DEF SetConnector

\* A session transaction without effect that ends.
LEMMA TransactionEnds ==
  ASSUME SettlementInv, NEW w \in Workers, NEW op \in SessionOps, NEW done, NEW writes,
         SessionReplayed(w, op, done, "idle") \/ SessionRefused(w, op, done, writes, "idle")
  PROVE  SettlementInv'
<1>1. worker[w].op # "idle" /\ Goto(w, "idle") /\ UNCHANGED <<money, rows, charger, faults>>
  BY DEF SessionReplayed, SessionRefused, At, SessionOps
<1>2. QED
  BY <1>1, Ends

\* One that finds what it would do done, or what it rejects.
LEMMA TransactionReads ==
  ASSUME SettlementInv, NEW w \in Workers, NEW op \in SessionOps, NEW done, NEW writes, NEW next,
         SessionReplayed(w, op, done, next) \/ SessionRefused(w, op, done, writes, next)
  PROVE  /\ worker[w].op = op /\ worker[w].op # "idle" /\ worker[w].after \in Afters
         /\ Goto(w, next) /\ Decide(w, next, worker[w].after)
         /\ UNCHANGED <<money, rows, charger, faults>>
         /\ Seen(w).status \in SessionStatus \ {"CANCELLED"}
         /\ Seen(w).status \in Ended => Seen(w).status = session[Of(w)].status
         /\ Seen(w).status \notin Unstarted => session[Of(w)].status \notin Unstarted
         /\ Place(worker[w].op, worker[w].caller, worker[w].after, Of(w))
         /\ session[Of(w)].status # "NONE"
         /\ session[Of(w)].status = "PENDING" =>
              worker[w].caller = "create" \/ worker[w].op \in {"startPrepare", "stopPrepare"}
<1>1. /\ worker[w].op = op /\ worker[w].op # "idle" /\ HasRead(w)
      /\ Goto(w, next) /\ Decide(w, next, worker[w].after)
      /\ UNCHANGED <<money, rows, charger, faults>>
  BY DEF SessionReplayed, SessionRefused, At, SessionOps, Goto
<1>2. QED
  BY <1>1, FreshSession, AtWork, Statuses DEF Handlers, Afters

\* start: AUTHORIZED becomes STARTING unless the connector is out of use.
LEMMA StartPrepareKeeps ==
  ASSUME SettlementInv, NEW w \in Workers, StartPrepare(w)
  PROVE  SettlementInv'
<1>1. "startPrepare" \in SessionOps
  BY DEF SessionOps
<1>2. CASE SessionReplayed(w, "startPrepare", {"STARTING", "CHARGING"}, "idle")
  BY <1>1, <1>2, TransactionEnds
<1>3. CASE SessionRefused(w, "startPrepare", {"STARTING", "CHARGING"},
                          IF Seen(w).connector \in OutOfUse THEN {} ELSE {"AUTHORIZED"}, "idle")
  BY <1>1, <1>3, TransactionEnds
<1>4. CASE /\ SessionWrite(w, "startPrepare", {"AUTHORIZED"})
           /\ session' = Moved(w, "STARTING")
           /\ Goto(w, "gatewayStart")
           /\ UNCHANGED connector
  <2>1. session[Of(w)].status \in Underway /\ connector' \in [Connectors -> ConnectorStatus]
    BY <1>1, <1>4, Written DEF Underway
  <2>2. QED
    BY <1>1, <1>4, <2>1, MovesSession DEF Underway
<1>5. QED
  BY <1>2, <1>3, <1>4 DEF StartPrepare

\* start: STARTING becomes CHARGING once the charger has answered.
LEMMA StartCommitKeeps ==
  ASSUME SettlementInv, NEW w \in Workers, StartCommit(w)
  PROVE  SettlementInv'
<1>1. "startCommit" \in SessionOps
  BY DEF SessionOps
<1>2. CASE SessionReplayed(w, "startCommit", {"CHARGING"}, "idle")
  BY <1>1, <1>2, TransactionEnds
<1>3. CASE SessionRefused(w, "startCommit", {"CHARGING"}, {"STARTING"}, OnError(w))
  <2>1. session[Of(w)].status # "PENDING"
    BY <1>1, <1>3, TransactionReads DEF Place, Unstarted
  <2>2. QED
    BY <1>1, <1>3, <2>1, TransactionReads, Errs
<1>4. CASE /\ SessionWrite(w, "startCommit", {"STARTING"})
           /\ session' = Moved(w, "CHARGING")
           /\ SetConnector(Of(w), "OCCUPIED")
           /\ Goto(w, "idle")
  <2>1. session[Of(w)].status \in Underway /\ connector' \in [Connectors -> ConnectorStatus]
    BY <1>1, <1>4, Written, ConnectorSet DEF Underway, ConnectorStatus
  <2>2. QED
    BY <1>1, <1>4, <2>1, MovesSession DEF Underway
<1>5. QED
  BY <1>2, <1>3, <1>4 DEF StartCommit

\* stop: CHARGING becomes STOPPING.
LEMMA StopPrepareKeeps ==
  ASSUME SettlementInv, NEW w \in Workers, StopPrepare(w)
  PROVE  SettlementInv'
<1>1. "stopPrepare" \in SessionOps
  BY DEF SessionOps
<1>2. CASE SessionReplayed(w, "stopPrepare", {"COMPLETED", "STOPPING"}, "idle")
  BY <1>1, <1>2, TransactionEnds
<1>3. CASE SessionRefused(w, "stopPrepare", {"COMPLETED", "STOPPING"}, {"CHARGING"}, "idle")
  BY <1>1, <1>3, TransactionEnds
<1>4. CASE /\ SessionWrite(w, "stopPrepare", {"CHARGING"})
           /\ session' = Moved(w, "STOPPING")
           /\ Goto(w, "gatewayStop")
           /\ UNCHANGED connector
  <2>1. session[Of(w)].status \in Underway /\ connector' \in [Connectors -> ConnectorStatus]
    BY <1>1, <1>4, Written DEF Underway
  <2>2. QED
    BY <1>1, <1>4, <2>1, MovesSession DEF Underway
<1>5. QED
  BY <1>2, <1>3, <1>4 DEF StopPrepare

\* completeSession: STOPPING becomes COMPLETED at its price.
LEMMA CompleteKeeps ==
  ASSUME SettlementInv, NEW w \in Workers, Complete(w)
  PROVE  SettlementInv'
<1>1. "complete" \in SessionOps
  BY DEF SessionOps
<1>2. CASE SessionReplayed(w, "complete", {"COMPLETED"}, "settle")
  <2>1. session[Of(w)].status = "COMPLETED"
    BY <1>1, <1>2, TransactionReads DEF Ended, SessionReplayed
  <2>2. Place("settle", worker[w].caller, worker[w].after, Of(w)) /\ "settle" \in Ops
    BY <2>1, OpsAre DEF Place, Creating, Settling, Cancelling
  <2>3. QED
    BY <1>1, <1>2, <2>1, <2>2, TransactionReads, GoesOn
<1>3. CASE SessionRefused(w, "complete", {"COMPLETED"}, {"STOPPING"}, OnError(w))
  <2>1. session[Of(w)].status # "PENDING"
    BY <1>1, <1>3, TransactionReads DEF Place, Unstarted
  <2>2. QED
    BY <1>1, <1>3, <2>1, TransactionReads, Errs
<1>4. ASSUME /\ SessionWrite(w, "complete", {"STOPPING"})
             /\ SetConnector(Of(w), "AVAILABLE")
             /\ Goto(w, "settle"),
             NEW cost \in Costs, session' = [Moved(w, "COMPLETED") EXCEPT ![Of(w)].cost = cost]
      PROVE  SettlementInv'
  <2>1. PICK s \in Sessions : s = worker[w].s /\ s = Of(w)
    BY <1>1, <1>4, Written
  <2>2. /\ worker[w].op # "idle" /\ session \in [Sessions -> SessionRows]
        /\ session[s].status = "STOPPING"
        /\ UNCHANGED <<money, intent, receipt, charger, faults>>
    BY <1>1, <1>4, <2>1, Written
  <2>3. connector' \in [Connectors -> ConnectorStatus]
    BY <1>1, <1>4, <2>2, ConnectorSet DEF ConnectorStatus
  <2>4. cost \in Nat
    BY SettlementAssumption
  <2> DEFINE m == Moved(w, "COMPLETED")
  <2>5. /\ m \in [Sessions -> SessionRows] /\ m[s] \in SessionRows
        /\ m[s].status = "COMPLETED" /\ m[s].version = session[s].version + 1
        /\ m[s].connector = session[s].connector
        /\ \A t \in Sessions : t # s => m[t] = session[t]
    BY <2>1, <2>2, MovedIs, Statuses
  <2>6. session' = [m EXCEPT ![s].cost = cost]
    BY <1>4, <2>1
  <2> HIDE DEF m
  <2>7. /\ session' \in [Sessions -> SessionRows]
        /\ session'[s].status = "COMPLETED" /\ session'[s].version = session[s].version + 1
        /\ session'[s].connector = session[s].connector /\ session'[s].cost = cost
        /\ \A t \in Sessions : t # s => session'[t] = session[t]
    BY <2>4, <2>5, <2>6 DEF SessionRows
  <2>8. "COMPLETED" \in Ended /\ "STOPPING" \in Underway
    BY DEF Ended, Underway
  <2>9. QED
    BY ZenonT(20), <1>4, <2>1, <2>2, <2>3, <2>7, <2>8, WritesSession
<1>5. QED
  BY <1>2, <1>3, <1>4 DEF Complete

\* failSession: a session that has not ended fails.
LEMMA FailSessionKeeps ==
  ASSUME SettlementInv, NEW w \in Workers, FailSession(w)
  PROVE  SettlementInv'
<1> DEFINE terminal == {x \in SessionStatus : TerminalSession(x)}
           active   == SessionStatus \ terminal
<1>1. "fail" \in SessionOps /\ terminal = {"COMPLETED", "FAILED", "CANCELLED"}
  BY TerminalStatuses, Statuses DEF SessionOps
<1>2. CASE SessionReplayed(w, "fail", terminal, "cancel")
  <2>1. Seen(w).status \in {"COMPLETED", "FAILED", "CANCELLED"}
    BY <1>1, <1>2 DEF SessionReplayed
  <2>2. session[Of(w)].status \in Ended
    BY <1>1, <1>2, <2>1, TransactionReads DEF Ended
  <2>3. Place("cancel", worker[w].caller, worker[w].after, Of(w)) /\ "cancel" \in Ops
    BY <2>2, OpsAre DEF Place, Creating, Settling, Cancelling
  <2>4. session[Of(w)].status # "PENDING"
    BY <2>2 DEF Ended
  <2>5. QED
    BY <1>1, <1>2, <2>3, <2>4, TransactionReads, GoesOn
<1>3. CASE SessionRefused(w, "fail", terminal, active, "idle")
  BY <1>1, <1>3, TransactionEnds
<1>4. CASE /\ SessionWrite(w, "fail", active)
           /\ session' = Moved(w, "FAILED")
           /\ SetConnector(Of(w), IF worker[w].offline THEN "OFFLINE" ELSE "AVAILABLE")
           /\ Goto(w, "cancel")
  <2>1. session[Of(w)].status \in Underway \cup {"PENDING"}
    BY <1>1, <1>4, Written, Statuses DEF Underway
  <2>2. connector' \in [Connectors -> ConnectorStatus]
    BY <1>1, <1>4, Written, ConnectorSet DEF ConnectorStatus
  <2>3. QED
    BY <1>1, <1>4, <2>1, <2>2, MovesSession
<1>5. QED
  BY <1>2, <1>3, <1>4 DEF FailSession

\* The charger says that it has stopped.
LEMMA HandleStoppedKeeps ==
  ASSUME SettlementInv, NEW w \in Workers, HandleStopped(w)
  PROVE  SettlementInv'
<1>1. "stoppedEvent" \in SessionOps
  BY DEF SessionOps
<1>2. CASE SessionReplayed(w, "stoppedEvent", {"COMPLETED"}, "idle")
  BY <1>1, <1>2, TransactionEnds
<1>3. CASE SessionReplayed(w, "stoppedEvent", {"STOPPING"}, "complete")
  <2>1. session[Of(w)].status \notin Unstarted
    BY <1>1, <1>3, TransactionReads DEF Unstarted, SessionReplayed
  <2>2. Place("complete", worker[w].caller, worker[w].after, Of(w)) /\ "complete" \in Ops
    BY <2>1, OpsAre DEF Place, Creating, Settling, Cancelling
  <2>3. QED
    BY <1>1, <1>3, <2>1, <2>2, TransactionReads, GoesOn DEF Unstarted
<1>4. CASE SessionRefused(w, "stoppedEvent", {"COMPLETED", "STOPPING"}, {"CHARGING"}, "idle")
  BY <1>1, <1>4, TransactionEnds
<1>5. CASE /\ SessionWrite(w, "stoppedEvent", {"CHARGING"})
           /\ session' = Moved(w, "STOPPING")
           /\ Goto(w, "complete")
           /\ UNCHANGED connector
  <2>1. session[Of(w)].status \in Underway /\ connector' \in [Connectors -> ConnectorStatus]
    BY <1>1, <1>5, Written DEF Underway
  <2>2. QED
    BY <1>1, <1>5, <2>1, MovesSession DEF Underway
<1>6. QED
  BY <1>2, <1>3, <1>4, <1>5 DEF HandleStopped

\* A meter value of a charging session.
LEMMA HandleMeterKeeps ==
  ASSUME SettlementInv, NEW w \in Workers, HandleMeter(w)
  PROVE  SettlementInv'
<1>1. "meter" \in SessionOps
  BY DEF SessionOps
<1>2. CASE SessionRefused(w, "meter", {}, {"CHARGING"}, "idle")
  BY <1>1, <1>2, TransactionEnds
<1>3. CASE /\ SessionWrite(w, "meter", {"CHARGING"})
           /\ session' = Moved(w, "CHARGING")
           /\ IF Seen(w).connector = "OFFLINE"
                THEN SetConnector(Of(w), "OCCUPIED") ELSE UNCHANGED connector
           /\ Goto(w, "idle")
  <2>1. session[Of(w)].status \in Underway /\ connector' \in [Connectors -> ConnectorStatus]
    BY <1>1, <1>3, Written, ConnectorSet DEF Underway, ConnectorStatus
  <2>2. QED
    BY <1>1, <1>3, <2>1, MovesSession DEF Underway
<1>4. QED
  BY <1>2, <1>3 DEF HandleMeter

\* The charger disconnects, recoverably or not.
LEMMA HandleDisconnectKeeps ==
  ASSUME SettlementInv, NEW w \in Workers, HandleDisconnect(w)
  PROVE  SettlementInv'
<1>1. "disconnect" \in SessionOps
  BY DEF SessionOps
<1>2. CASE SessionRefused(w, "disconnect", {}, {"CHARGING", "STOPPING"}, "idle")
  BY <1>1, <1>2, TransactionEnds
<1>3. CASE /\ SessionWrite(w, "disconnect", {"CHARGING", "STOPPING"})
           /\ session' = Moved(w, Seen(w).status)
           /\ SetConnector(Of(w), "OFFLINE")
           /\ Goto(w, "idle")
  <2>1. session[Of(w)].status \in Underway /\ connector' \in [Connectors -> ConnectorStatus]
    BY <1>1, <1>3, Written, ConnectorSet DEF Underway, ConnectorStatus
  <2>2. PICK to \in Underway : to = Seen(w).status
    BY <1>1, <1>3, <2>1, Written
  <2>3. QED
    BY <1>1, <1>3, <2>1, <2>2, MovesSession
<1>4. QED
  BY <1>2, <1>3 DEF HandleDisconnect

\* A handler of a session that is past its creation.
LEMMA PastCreation ==
  ASSUME SettlementInv, NEW w \in Workers, worker[w].op # "idle",
         worker[w].op \in {"gatewayStart", "gatewayStop"} \cup Settling \cup Cancelling
  PROVE  /\ Of(w) \in Sessions /\ Of(w) = worker[w].s /\ worker[w].after \in Afters
         /\ session[Of(w)].status \in Underway \cup Ended
         /\ Place(worker[w].op, worker[w].caller, worker[w].after, Of(w))
         /\ Coherent(Of(w))
         /\ reservation \in [Sessions -> ReservationRows]
         /\ receipt \in [Sessions -> BOOLEAN] /\ charger \in [Sessions -> ChargerStatus]
<1>1. session[Of(w)].status \in Underway \cup Ended
  BY AtWork, Statuses DEF Place, Unstarted, Underway, Ended
<1>2. QED
  BY <1>1, AtWork DEF SettlementInv, RowsTyped, Handlers, Afters

\* A handler goes on after the equipment of its session answered.
LEMMA MovesCharger ==
  ASSUME SettlementInv, NEW w \in Workers, worker[w].op \in {"gatewayStart", "gatewayStop"},
         NEW status \in ChargerStatus, charger' = [charger EXCEPT ![Of(w)] = status],
         UNCHANGED <<money, rows, faults>>,
         NEW op \in {"startCommit", "complete", "idle", "fail"}, Goto(w, op)
  PROVE  SettlementInv'
<1>1. worker[w].op # "idle"
  OBVIOUS
<1>2. PICK s \in Sessions : s = worker[w].s /\ s = Of(w)
  BY <1>1, PastCreation
<1>3. PICK after \in Afters : after = worker[w].after
  BY <1>1, PastCreation
<1>4. /\ session[s].status \in Underway \cup Ended /\ Coherent(s)
      /\ reservation \in [Sessions -> ReservationRows]
      /\ receipt \in [Sessions -> BOOLEAN] /\ charger \in [Sessions -> ChargerStatus]
      /\ RowsTyped
  BY <1>1, <1>2, PastCreation DEF SettlementInv
<1>5. /\ session' = session /\ intent' = intent /\ receipt' = receipt /\ connector' = connector
      /\ reservation' = reservation /\ errors' = errors
      /\ charger' \in [Sessions -> ChargerStatus]
      /\ \A t \in Sessions : t # s => charger'[t] = charger[t]
  BY <1>2, <1>4 DEF rows, money, faults
<1>6. op \in Ops \cup {"idle"} /\ Decide(w, op, after)
  BY <1>3, OpsAre DEF Goto
<1>7. op # "idle" => worker'[w].caller = worker[w].caller
  BY <1>3, <1>4, <1>6, Decided
<1>8. Coherent(s)'
  BY <1>4, <1>5 DEF Coherent, Unstarted, Underway, Ended
<1>9. op # "idle" => Place(op, worker[w].caller, after, s)'
  BY <1>4, <1>5, <1>7 DEF Place, Creating, Settling, Cancelling, Unstarted, Underway, Ended
<1>10. session[s].status # "PENDING"
  BY <1>4 DEF Underway, Ended
<1>11. QED
  BY <1>1, <1>2, <1>4, <1>5, <1>6, <1>8, <1>9, <1>10, MovesAside

\* The gateway starts the charger.
LEMMA GatewayStartKeeps ==
  ASSUME SettlementInv, NEW w \in Workers, GatewayStart(w)
  PROVE  SettlementInv'
<1>1. worker[w].op = "gatewayStart" /\ UNCHANGED <<money, rows, faults>>
  BY DEF GatewayStart, At
<1>2. ASSUME charger' = [charger EXCEPT ![Of(w)] = "running"],
             NEW next \in {"startCommit", OnError(w)}, Goto(w, next)
      PROVE  SettlementInv'
  <2>1. "running" \in ChargerStatus /\ next \in {"startCommit", "complete", "idle", "fail"}
    BY ErrorsFail DEF ChargerStatus
  <2>2. QED
    BY <1>1, <1>2, <2>1, MovesCharger
<1>3. CASE Goto(w, OnError(w)) /\ UNCHANGED charger
  <2>1. session[Of(w)].status # "PENDING" /\ worker[w].op # "idle"
    BY <1>1, PastCreation DEF Underway, Ended
  <2>2. QED
    BY <1>1, <1>3, <2>1, Errs
<1>4. QED
  BY <1>2, <1>3 DEF GatewayStart

\* The gateway stops the charger.
LEMMA GatewayStopKeeps ==
  ASSUME SettlementInv, NEW w \in Workers, GatewayStop(w)
  PROVE  SettlementInv'
<1>1. worker[w].op = "gatewayStop" /\ UNCHANGED <<money, rows, faults>>
  BY DEF GatewayStop, At
<1>2. ASSUME charger' = [charger EXCEPT ![Of(w)] = IF @ = "running" THEN "stopped" ELSE @],
             NEW next \in {"complete", OnError(w)}, Goto(w, next)
      PROVE  SettlementInv'
  <2>1. charger[Of(w)] \in ChargerStatus /\ Of(w) \in Sessions
    BY <1>1, PastCreation
  <2>2. PICK status \in ChargerStatus :
          status = IF charger[Of(w)] = "running" THEN "stopped" ELSE charger[Of(w)]
    BY <2>1 DEF ChargerStatus
  <2>3. charger' = [charger EXCEPT ![Of(w)] = status]
    BY <1>2, <2>1, <2>2
  <2>4. next \in {"startCommit", "complete", "idle", "fail"}
    BY ErrorsFail
  <2>5. QED
    BY <1>1, <1>2, <2>3, <2>4, MovesCharger
<1>3. CASE Goto(w, OnError(w)) /\ UNCHANGED charger
  <2>1. session[Of(w)].status # "PENDING" /\ worker[w].op # "idle"
    BY <1>1, PastCreation DEF Underway, Ended
  <2>2. QED
    BY <1>1, <1>3, <2>1, Errs
<1>4. QED
  BY <1>2, <1>3 DEF GatewayStop

\* A handler of a session that has ended goes on or fails without a change.
LEMMA EndedGoesOn ==
  ASSUME SettlementInv, NEW w \in Workers, worker[w].op \in Settling \cup Cancelling,
         UNCHANGED <<money, rows, charger, faults>>,
         NEW op \in Ops \cup {"idle"}, NEW after \in Afters, Decide(w, op, after),
         op # "idle" => Place(op, worker[w].caller, after, Of(w))
  PROVE  SettlementInv'
<1>1. worker[w].op # "idle"
  BY DEF Settling, Cancelling
<1>2. session[Of(w)].status # "PENDING"
  BY <1>1, PastCreation DEF Underway, Ended
<1>3. QED
  BY <1>1, <1>2, GoesOn

\* An operation on the money of an ended session throws.
LEMMA EndedErrs ==
  ASSUME SettlementInv, NEW w \in Workers, worker[w].op \in Settling \cup Cancelling,
         UNCHANGED <<money, rows, charger, faults>>, Goto(w, OnError(w))
  PROVE  SettlementInv'
<1>1. worker[w].op # "idle"
  BY DEF Settling, Cancelling
<1>2. session[Of(w)].status # "PENDING"
  BY <1>1, PastCreation DEF Underway, Ended
<1>3. QED
  BY <1>1, <1>2, Errs

\* finalize: replay, review or capture.
LEMMA SettleKeeps ==
  ASSUME SettlementInv, NEW w \in Workers, Settle(w)
  PROVE  SettlementInv'
<1>1. /\ worker[w].op = "settle" /\ worker[w].op \in Settling /\ worker[w].op # "idle"
      /\ UNCHANGED <<money, rows, charger, faults>>
  BY DEF Settle, At, Settling
<1>2. /\ session[Of(w)].status = "COMPLETED" /\ worker[w].after \in Afters
      /\ "idle" \in Afters /\ "autoRecharge" \in Afters
      /\ {"receiptRead", "review", "capture"} \subseteq Ops
  BY <1>1, PastCreation, OpsAre DEF Place, Afters
<1>3. CASE intent[Of(w)].status = "CAPTURED" /\ Decide(w, "receiptRead", "idle")
  <2>1. Place("receiptRead", worker[w].caller, "idle", Of(w))
    BY <1>2, <1>3 DEF Place, Creating, Settling, Cancelling
  <2>2. QED
    BY <1>1, <1>2, <1>3, <2>1, EndedGoesOn
<1>4. CASE /\ intent[Of(w)].status = "AUTHORIZED" /\ ~Capturable(session[Of(w)].cost)
           /\ Goto(w, "review")
  <2>1. Place("review", worker[w].caller, worker[w].after, Of(w))
    BY <1>2, <1>4 DEF Place, Creating, Settling, Cancelling
  <2>2. QED
    BY <1>1, <1>2, <1>4, <2>1, EndedGoesOn DEF Goto
<1>5. CASE /\ intent[Of(w)].status = "AUTHORIZED" /\ Capturable(session[Of(w)].cost)
           /\ Decide(w, "capture", "autoRecharge")
  <2>1. Place("capture", worker[w].caller, "autoRecharge", Of(w))
    BY <1>2, <1>5 DEF Place, Creating, Settling, Cancelling
  <2>2. QED
    BY <1>1, <1>2, <1>5, <2>1, EndedGoesOn
<1>6. CASE Goto(w, OnError(w))
  BY <1>1, <1>6, EndedErrs
<1>7. QED
  BY <1>3, <1>4, <1>5, <1>6 DEF Settle

\* The price is taken from what was held.
LEMMA CaptureKeeps ==
  ASSUME SettlementInv, NEW w \in Workers, Capture(w)
  PROVE  SettlementInv'
<1> DEFINE cost == session[Of(w)].cost
<1>1. /\ worker[w].op = "capture" /\ worker[w].op \in Settling /\ worker[w].op # "idle"
      /\ UNCHANGED <<rows, charger, faults>>
  BY DEF Capture, At, Settling
<1>2. PICK s \in Sessions : s = worker[w].s /\ s = Of(w)
  BY <1>1, PastCreation
<1>3. PICK after \in Afters : after = worker[w].after
  BY <1>1, PastCreation
<1>4. /\ session[s].status = "COMPLETED" /\ Capturable(cost)
      /\ after \in {"idle", "autoRecharge"}
      /\ Coherent(s) /\ "captureIntent" \in Ops
      /\ reservation \in [Sessions -> ReservationRows]
      /\ receipt \in [Sessions -> BOOLEAN] /\ charger \in [Sessions -> ChargerStatus]
      /\ RowsTyped
  BY <1>1, <1>2, <1>3, PastCreation, OpsAre DEF Place, SettlementInv
<1>5. intent[s].status # "NONE"
  BY <1>4 DEF Coherent
<1>6. CASE Ledger!CaptureReserved(Driver, Of(w), cost) /\ Goto(w, "captureIntent")
  <2>1. /\ reservation[s].status = "RESERVED"
        /\ reservation' = [reservation EXCEPT
             ![s].status = "CAPTURED",
             ![s].captured = cost,
             ![s].released = reservation[s].amount - cost]
    BY <1>2, <1>6 DEF Ledger!CaptureReserved, Ledger!CanCapture
  <2>2. reservation[s] \in ReservationRows /\ reservation[s].amount = PreAuth
    BY <1>4, <2>1 DEF Coherent
  <2>3. cost \in Nat /\ reservation[s].amount - cost \in Nat
    <3>1. cost \in Nat /\ cost <= PreAuth
      BY <1>2, <1>4 DEF Capturable, RowsTyped, SessionRows
    <3>2. PreAuth \in Nat
      BY SettlementAssumption
    <3>3. QED
      BY <2>2, <3>1, <3>2
  <2> DEFINE r == reservation'[s]
  <2>4. /\ r \in ReservationRows
        /\ r.status = "CAPTURED" /\ r.captured = cost
        /\ r.wallet = reservation[s].wallet /\ r.amount = reservation[s].amount
        /\ reservation' \in [Sessions -> ReservationRows]
        /\ \A t \in Sessions : t # s => reservation'[t] = reservation[t]
    BY <1>4, <2>1, <2>2, <2>3 DEF ReservationRows, Ledger!ReservationStatus
  <2>5. /\ session' = session /\ intent' = intent /\ receipt' = receipt /\ connector' = connector
        /\ charger' = charger
    BY <1>1 DEF rows
  <2>6. Coherent(s)'
    BY <1>2, <1>4, <2>1, <2>4, <2>5 DEF Coherent, Unstarted, Underway, Ended
  <2>7. Decide(w, "captureIntent", after)
    BY <1>3, <1>6 DEF Goto
  <2>8. worker'[w].caller = worker[w].caller
    BY <1>4, <2>7, Decided
  <2>9. Place("captureIntent", worker[w].caller, after, s)'
    BY <1>2, <1>4, <1>5, <2>4, <2>5, <2>8 DEF Place, Creating, Settling, Cancelling
  <2>10. QED
    BY <1>1, <1>2, <1>4, <2>1, <2>4, <2>5, <2>6, <2>7, <2>9, MovesAside
<1>7. CASE Ledger!CaptureReplays(Driver, Of(w), cost) /\ Goto(w, "captureIntent") /\ UNCHANGED money
  <2>1. reservation[s].status = "CAPTURED"
    BY <1>2, <1>7 DEF Ledger!CaptureReplays
  <2>2. Place("captureIntent", worker[w].caller, after, Of(w))
    BY <1>2, <1>4, <1>5, <2>1 DEF Place, Creating, Settling, Cancelling
  <2>3. QED
    BY <1>1, <1>3, <1>4, <1>7, <2>2, EndedGoesOn DEF Goto
<1>8. CASE Goto(w, OnError(w)) /\ UNCHANGED money
  BY <1>1, <1>8, EndedErrs
<1>9. QED
  BY <1>6, <1>7, <1>8 DEF Capture

\* Where a settled handler goes after its receipt.
LEMMA ReceiptPlace ==
  ASSUME SettlementInv, NEW w \in Workers, worker[w].op \in {"receiptRead", "receiptWrite"}
  PROVE  /\ session[Of(w)].status = "COMPLETED" /\ intent[Of(w)].status = "CAPTURED"
         /\ worker[w].after \in {"idle", "autoRecharge"}
         /\ Place("receiptWrite", worker[w].caller, worker[w].after, Of(w))
         /\ Place("autoRecharge", worker[w].caller, worker[w].after, Of(w))
         /\ {"receiptWrite", "autoRecharge"} \subseteq Ops
<1>1. worker[w].op # "idle" /\ worker[w].op \in Settling
  BY DEF Settling
<1>2. /\ session[Of(w)].status = "COMPLETED" /\ intent[Of(w)].status = "CAPTURED"
      /\ worker[w].after \in {"idle", "autoRecharge"}
  BY <1>1, PastCreation DEF Place
<1>3. QED
  BY <1>2, OpsAre DEF Place, Creating, Settling, Cancelling

\* issueReceipt looks for a receipt.
LEMMA ReceiptReadKeeps ==
  ASSUME SettlementInv, NEW w \in Workers, ReceiptRead(w)
  PROVE  SettlementInv'
<1>1. /\ worker[w].op = "receiptRead" /\ worker[w].op \in Settling
      /\ UNCHANGED <<money, rows, charger, faults>>
  BY DEF ReceiptRead, At, Settling
<1>2. PICK next \in {"idle", "autoRecharge", "receiptWrite"} : Goto(w, next)
  BY <1>1, ReceiptPlace DEF ReceiptRead
<1>3. next \in Ops \cup {"idle"} /\ worker[w].after \in Afters /\ Decide(w, next, worker[w].after)
  BY <1>1, <1>2, ReceiptPlace DEF Goto, Afters
<1>4. QED
  BY <1>1, <1>2, <1>3, ReceiptPlace, EndedGoesOn

\* issueReceipt writes the receipt.
LEMMA ReceiptWriteKeeps ==
  ASSUME SettlementInv, NEW w \in Workers, ReceiptWrite(w)
  PROVE  SettlementInv'
<1>1. /\ worker[w].op = "receiptWrite" /\ worker[w].op \in Settling /\ worker[w].op # "idle"
      /\ UNCHANGED <<money, session, connector, intent, charger, faults>>
      /\ receipt' = [receipt EXCEPT ![Of(w)] = TRUE]
  BY DEF ReceiptWrite, At, Settling
<1>2. PICK s \in Sessions : s = worker[w].s /\ s = Of(w)
  BY <1>1, PastCreation
<1>3. PICK after \in Afters : after = worker[w].after
  BY <1>1, PastCreation
<1>4. PICK op \in {"idle", "autoRecharge", "fail"} : Goto(w, op)
  BY <1>1, ReceiptPlace, ErrorsFail DEF ReceiptWrite
<1>5. /\ session[s].status = "COMPLETED" /\ intent[s].status = "CAPTURED"
      /\ Coherent(s) /\ op \in Ops \cup {"idle"} /\ Decide(w, op, after)
      /\ reservation \in [Sessions -> ReservationRows]
      /\ receipt \in [Sessions -> BOOLEAN] /\ charger \in [Sessions -> ChargerStatus]
      /\ RowsTyped
  BY <1>1, <1>2, <1>3, <1>4, PastCreation, ReceiptPlace, OpsAre DEF Goto, SettlementInv
<1>6. /\ session' = session /\ intent' = intent /\ connector' = connector /\ reservation' = reservation
      /\ charger' = charger /\ receipt' \in [Sessions -> BOOLEAN] /\ receipt'[s] = TRUE
      /\ \A t \in Sessions : t # s => receipt'[t] = receipt[t]
  BY <1>1, <1>2, <1>5 DEF money
<1>7. Coherent(s)'
  BY <1>5, <1>6 DEF Coherent, Unstarted, Underway, Ended
<1>8. op # "idle" => worker'[w].caller = worker[w].caller
  BY <1>5, Decided
<1>9. op # "idle" => Place(op, worker[w].caller, after, s)'
  BY <1>4, <1>5, <1>6, <1>8 DEF Place, Creating, Settling, Cancelling
<1>10. QED
  BY <1>1, <1>2, <1>5, <1>6, <1>7, <1>9, MovesAside

\* The automatic recharge is called last.
LEMMA AutoRechargeKeeps ==
  ASSUME SettlementInv, NEW w \in Workers, AutoRecharge(w)
  PROVE  SettlementInv'
<1>1. /\ worker[w].op = "autoRecharge" /\ worker[w].op \in Settling /\ worker[w].op # "idle"
      /\ UNCHANGED <<money, rows, charger, faults>>
      /\ Goto(w, "idle") \/ Goto(w, OnError(w))
  BY DEF AutoRecharge, At, Settling
<1>2. QED
  BY <1>1, EndedErrs, Ends

\* cancelSessionPayment looks at the intent.
LEMMA CancelKeeps ==
  ASSUME SettlementInv, NEW w \in Workers, Cancel(w)
  PROVE  SettlementInv'
<1>1. /\ worker[w].op = "cancel" /\ worker[w].op \in Cancelling /\ worker[w].op # "idle"
      /\ UNCHANGED <<money, rows, charger, faults>>
  BY DEF Cancel, At, Cancelling
<1>2. CASE Goto(w, "idle")
  BY <1>1, <1>2, Ends
<1>3. ASSUME intent[Of(w)] # NoIntent,
             NEW after \in {"idle", "cancelIntent"}, Decide(w, "cancelReservation", after)
      PROVE  SettlementInv'
  <2>1. session[Of(w)].status \in Ended /\ Coherent(Of(w)) /\ after \in Afters
        /\ "cancelReservation" \in Ops
    BY <1>1, PastCreation, OpsAre DEF Place, Afters
  <2>2. intent[Of(w)].status # "NONE"
    BY <1>3, <2>1 DEF Coherent
  <2>3. Place("cancelReservation", worker[w].caller, after, Of(w))
    BY <2>1, <2>2 DEF Place, Creating, Settling, Cancelling
  <2>4. QED
    BY <1>1, <1>3, <2>1, <2>3, EndedGoesOn
<1>4. QED
  BY <1>2, <1>3 DEF Cancel

\* Where a handler goes that has no money to give back.
LEMMA CancelPlace ==
  ASSUME SettlementInv, NEW w \in Workers, worker[w].op \in {"cancelReservation", "release"}
  PROVE  /\ session[Of(w)].status \in Ended /\ intent[Of(w)].status # "NONE"
         /\ worker[w].after \in {"idle", "cancelIntent"} /\ worker[w].after \in Afters
         /\ Place("release", worker[w].caller, worker[w].after, Of(w))
         /\ reservation[Of(w)].status # "RESERVED" =>
              Place("cancelIntent", worker[w].caller, worker[w].after, Of(w))
         /\ {"release", "cancelIntent"} \subseteq Ops
<1>1. worker[w].op # "idle" /\ worker[w].op \in Cancelling
  BY DEF Cancelling
<1>2. /\ session[Of(w)].status \in Ended /\ intent[Of(w)].status # "NONE"
      /\ worker[w].after \in {"idle", "cancelIntent"}
  BY <1>1, PastCreation DEF Place, Cancelling
<1>3. QED
  BY <1>2, OpsAre DEF Place, Creating, Settling, Cancelling, Afters, Ended

\* cancelSessionPayment looks at the reservation.
LEMMA CancelReservationKeeps ==
  ASSUME SettlementInv, NEW w \in Workers, CancelReservation(w)
  PROVE  SettlementInv'
<1>1. /\ worker[w].op = "cancelReservation" /\ worker[w].op \in Cancelling /\ worker[w].op # "idle"
      /\ UNCHANGED <<money, rows, charger, faults>>
  BY DEF CancelReservation, At, Cancelling
<1>2. CASE reservation[Of(w)].status = "RESERVED"
  <2>1. Decide(w, "release", worker[w].after)
    BY <1>2 DEF CancelReservation, Goto
  <2>2. QED
    BY <1>1, <2>1, CancelPlace, EndedGoesOn
<1>3. CASE reservation[Of(w)].status # "RESERVED"
  <2>1. Decide(w, worker[w].after, worker[w].after)
    BY <1>3 DEF CancelReservation, Goto
  <2>2. CASE worker[w].after = "idle"
    BY <1>1, <2>1, <2>2, CancelPlace, EndedGoesOn
  <2>3. CASE worker[w].after = "cancelIntent"
    BY <1>1, <1>3, <2>1, <2>3, CancelPlace, EndedGoesOn
  <2>4. QED
    BY <1>1, <2>2, <2>3, CancelPlace
<1>4. QED
  BY <1>2, <1>3

\* What was held is given back.
LEMMA ReleaseKeeps ==
  ASSUME SettlementInv, NEW w \in Workers, Release(w)
  PROVE  SettlementInv'
<1>1. /\ worker[w].op = "release" /\ worker[w].op \in Cancelling /\ worker[w].op # "idle"
      /\ UNCHANGED <<rows, charger, faults>>
  BY DEF Release, At, Cancelling
<1>2. PICK s \in Sessions : s = worker[w].s /\ s = Of(w)
  BY <1>1, PastCreation
<1>3. PICK after \in {"idle", "cancelIntent"} : after = worker[w].after
  BY <1>1, CancelPlace
<1>4. /\ session[s].status \in Ended /\ intent[s].status # "NONE"
      /\ Coherent(s) /\ after \in Ops \cup {"idle"} /\ after \in Afters
      /\ reservation \in [Sessions -> ReservationRows]
      /\ receipt \in [Sessions -> BOOLEAN] /\ charger \in [Sessions -> ChargerStatus]
      /\ RowsTyped
  BY <1>1, <1>2, <1>3, PastCreation, CancelPlace, OpsAre DEF SettlementInv
<1>5. CASE Ledger!ReleaseReserved(Driver, Of(w)) /\ Goto(w, worker[w].after)
  <2>1. /\ reservation[s].status = "RESERVED"
        /\ reservation' = [reservation EXCEPT
             ![s].status = "RELEASED", ![s].released = reservation[s].amount]
    BY <1>2, <1>5 DEF Ledger!ReleaseReserved, Ledger!CanRelease
  <2>2. reservation[s] \in ReservationRows /\ reservation[s].amount \in Nat
    BY <1>4 DEF ReservationRows
  <2> DEFINE r == reservation'[s]
  <2>3. /\ r \in ReservationRows
        /\ r.status = "RELEASED" /\ r.captured = reservation[s].captured
        /\ r.wallet = reservation[s].wallet /\ r.amount = reservation[s].amount
        /\ reservation' \in [Sessions -> ReservationRows]
        /\ \A t \in Sessions : t # s => reservation'[t] = reservation[t]
    BY <1>4, <2>1, <2>2 DEF ReservationRows, Ledger!ReservationStatus
  <2>4. /\ session' = session /\ intent' = intent /\ receipt' = receipt /\ connector' = connector
        /\ charger' = charger /\ errors' = errors
    BY <1>1 DEF rows, faults
  <2>5. Coherent(s)'
    BY <1>4, <2>1, <2>3, <2>4 DEF Coherent, Unstarted, Underway, Ended
  <2>6. Decide(w, after, after)
    BY <1>3, <1>5 DEF Goto
  <2>7. after # "idle" => worker'[w].caller = worker[w].caller
    BY <1>4, <2>6, Decided
  <2>8. after # "idle" => Place(after, worker[w].caller, after, s)'
    BY <1>4, <2>3, <2>4, <2>7 DEF Place, Creating, Settling, Cancelling, Ended
  <2>9. session[s].status # "PENDING"
    BY <1>4 DEF Ended
  <2>10. QED
    BY <1>1, <1>2, <1>4, <2>1, <2>3, <2>4, <2>5, <2>6, <2>8, <2>9, MovesAside
<1>6. CASE Ledger!ReleaseReplays(Driver, Of(w)) /\ Goto(w, worker[w].after) /\ UNCHANGED money
  <2>1. reservation[Of(w)].status # "RESERVED"
    BY <1>6 DEF Ledger!ReleaseReplays
  <2>2. after # "idle" => Place(after, worker[w].caller, after, Of(w))
    BY <1>1, <1>3, <2>1, CancelPlace
  <2>3. Decide(w, after, after)
    BY <1>3, <1>6 DEF Goto
  <2>4. QED
    BY <1>1, <1>4, <1>6, <2>2, <2>3, EndedGoesOn
<1>7. CASE Goto(w, "idle") /\ UNCHANGED money
  BY <1>1, <1>7, Ends
<1>8. QED
  BY <1>5, <1>6, <1>7 DEF Release

\* Every step of a handler at work keeps the invariant.
LEMMA HandleKeeps ==
  ASSUME SettlementInv, NEW w \in Workers, Handle(w)
  PROVE  SettlementInv'
BY ReadSessionKeeps, ReadIntentKeeps, WriteIntentKeeps, RacedIntentKeeps, CreateIntentKeeps,
   ReserveMoneyKeeps, AuthorizeCatchKeeps, AuthorizeSessionKeeps, StartPrepareKeeps,
   GatewayStartKeeps, StartCommitKeeps, StopPrepareKeeps, GatewayStopKeeps, CompleteKeeps,
   SettleKeeps, CaptureKeeps, ReceiptReadKeeps, ReceiptWriteKeeps, AutoRechargeKeeps,
   FailSessionKeeps, CancelKeeps, CancelReservationKeeps, ReleaseKeeps, HandleStoppedKeeps,
   HandleMeterKeeps, HandleDisconnectKeeps
DEF Handle

-----------------------------------------------------------------------------
(* Requests and events, and what happens outside the handlers *)

\* A handler that has begun is at its first operation and has read nothing.
LEMMA Begun ==
  ASSUME RowsTyped, NEW w \in Workers, NEW caller \in {"create", "start", "stop", "event"},
         NEW op \in Ops, NEW s \in Sessions, NEW offline \in BOOLEAN,
         Begin(w, caller, op, s, offline)
  PROVE  /\ worker[w].op = "idle"
         /\ worker' \in [Workers -> Handlers]
         /\ \A v \in Workers : v # w => worker'[v] = worker[v]
         /\ worker'[w].caller = caller /\ worker'[w].op = op /\ worker'[w].s = s
         /\ worker'[w].seen = Unread /\ worker'[w].after = "idle"
<1> DEFINE h == [Idle EXCEPT !.caller = caller, !.op = op, !.s = s, !.offline = offline]
<1>1. worker[w].op = "idle" /\ worker' = [worker EXCEPT ![w] = h]
  BY DEF Begin, At
<1>2. h \in Handlers
  BY IdleType DEF Handlers, Idle
<1>3. /\ h.caller = caller /\ h.op = op /\ h.s = s
      /\ h.seen = Unread /\ h.after = "idle"
  BY DEF Idle
<1> HIDE DEF h
<1>4. QED
  BY <1>1, <1>2, <1>3 DEF RowsTyped

\* A request or an event for a session that is there begins a handler, and may
\* say what its equipment did.
LEMMA Arrives ==
  ASSUME SettlementInv, NEW w \in Workers, NEW s \in Sessions,
         NEW caller \in {"start", "stop", "event"}, NEW offline \in BOOLEAN,
         NEW op \in {"startPrepare", "stopPrepare", "stoppedEvent", "meter", "disconnect", "fail"},
         Begin(w, caller, op, s, offline),
         UNCHANGED <<money, rows, faults>>,
         charger' \in [Sessions -> ChargerStatus],
         \A t \in Sessions : t # s => charger'[t] = charger[t],
         session[s].status # "NONE",
         charger' # charger \/ op \notin {"startPrepare", "stopPrepare"}
           => session[s].status \notin Unstarted
  PROVE  SettlementInv'
<1>1. /\ session' = session /\ connector' = connector /\ intent' = intent /\ receipt' = receipt
      /\ reservation' = reservation /\ statusWrites' = statusWrites /\ crashes' = crashes /\ errors' = errors
  BY DEF rows, money, faults
<1>2. /\ RowsTyped /\ reservation \in [Sessions -> ReservationRows] /\ Coherent(s)
      /\ session[s].version \in Nat /\ intent[s].version \in Nat
  BY DEF SettlementInv, RowsTyped, SessionRows, IntentRows
<1>3. op \in Ops
  BY OpsAre
<1>4. /\ worker' \in [Workers -> Handlers]
      /\ \A v \in Workers : v # w => worker'[v] = worker[v]
      /\ worker'[w].caller = caller /\ worker'[w].op = op /\ worker'[w].s = s
      /\ worker'[w].seen = Unread /\ worker'[w].after = "idle"
  BY <1>2, <1>3, Begun
<1>5. RowsTyped' /\ (reservation \in [Sessions -> ReservationRows])'
  BY <1>1, <1>2, <1>4 DEF RowsTyped
<1>6. Advances(s) /\ Unmoved(s)
  BY <1>1, <1>2 DEF Advances, Unmoved
<1>7. Coherent(s)'
  <2>1. CASE charger' = charger
    BY <1>1, <1>2, <2>1 DEF Coherent
  <2>2. CASE session[s].status \notin Unstarted
    BY <1>1, <1>2, <2>2 DEF Coherent
  <2>3. QED
    BY <2>1, <2>2
<1>8. Placed(worker[w])'
  <2>1. Place(worker[w].op, worker[w].caller, worker[w].after, worker[w].s)'
    BY <1>1, <1>4 DEF Place, Creating, Settling, Cancelling, Unstarted
  <2>2. Snapshot(worker[w].op, worker[w].seen, worker[w].s)'
    BY <1>4 DEF Snapshot
  <2>3. session'[s].status = "PENDING" => op \in {"startPrepare", "stopPrepare"}
    BY <1>1 DEF Unstarted
  <2>4. QED
    BY <1>1, <1>4, <2>1, <2>2, <2>3 DEF Placed
<1>9. \A t \in Sessions : t # s =>
        Unmoved(t) /\ receipt'[t] = receipt[t] /\ charger'[t] = charger[t]
  BY <1>1 DEF Unmoved
<1>10. QED
  BY <1>4, <1>5, <1>6, <1>7, <1>8, <1>9, StepOfOne

\* A new session belongs to the handler that creates it.
LEMMA CreateKeeps ==
  ASSUME SettlementInv, NEW w \in Workers, NEW s \in Sessions, NEW c \in Connectors, Create(w, s, c)
  PROVE  SettlementInv'
<1> DEFINE new == [NoSession EXCEPT !.status = "PENDING", !.connector = c]
<1>1. /\ session[s] = NoSession
      /\ connector' = [connector EXCEPT ![c] = "RESERVED"]
      /\ session' = [session EXCEPT ![s] = new]
      /\ Begin(w, "create", "createIntent", s, FALSE)
      /\ UNCHANGED <<money, intent, receipt, charger, faults>>
  BY DEF Create
<1>2. /\ RowsTyped /\ reservation \in [Sessions -> ReservationRows] /\ Coherent(s)
      /\ "createIntent" \in Ops
  BY OpsAre DEF SettlementInv
<1>3. /\ intent' = intent /\ receipt' = receipt /\ charger' = charger /\ reservation' = reservation
      /\ statusWrites' = statusWrites /\ crashes' = crashes /\ errors' = errors
  BY <1>1 DEF money, faults
<1>4. /\ new.status = "PENDING" /\ new.version = 0 /\ new.connector = c /\ new.cost = 0
      /\ new \in SessionRows
  BY Statuses DEF NoSession, SessionRows
<1> HIDE DEF new
<1>5. /\ session' \in [Sessions -> SessionRows] /\ session'[s] = new
      /\ \A t \in Sessions : t # s => session'[t] = session[t]
  BY <1>1, <1>2, <1>4 DEF RowsTyped
<1>6. /\ worker' \in [Workers -> Handlers]
      /\ \A v \in Workers : v # w => worker'[v] = worker[v]
      /\ worker'[w].caller = "create" /\ worker'[w].op = "createIntent" /\ worker'[w].s = s
      /\ worker'[w].seen = Unread /\ worker'[w].after = "idle"
  BY <1>1, <1>2, Begun
<1>7. /\ session[s].status = "NONE" /\ intent[s].status = "NONE" /\ intent[s] = NoIntent
      /\ reservation[s].status = "NONE"
  BY <1>1, <1>2 DEF Coherent, NoSession, NoIntent
<1>8. connector' \in [Connectors -> ConnectorStatus]
  BY <1>1, <1>2 DEF RowsTyped, ConnectorStatus
<1>9. RowsTyped' /\ (reservation \in [Sessions -> ReservationRows])'
  BY <1>2, <1>3, <1>5, <1>6, <1>8 DEF RowsTyped
<1>10. Advances(s)
  BY <1>3, <1>7 DEF Advances, Ended
<1>11. Coherent(s)'
  BY <1>2, <1>3, <1>4, <1>5, <1>7 DEF Coherent, Unstarted, Underway, Ended
<1>12. Placed(worker[w])'
  <2>1. Place(worker[w].op, worker[w].caller, worker[w].after, worker[w].s)'
    BY <1>3, <1>4, <1>5, <1>6, <1>7 DEF Place, Creating, Settling, Cancelling
  <2>2. Snapshot(worker[w].op, worker[w].seen, worker[w].s)'
    BY <1>6 DEF Snapshot
  <2>3. QED
    BY <1>4, <1>5, <1>6, <2>1, <2>2 DEF Placed
<1>13. \A t \in Sessions : t # s =>
         Unmoved(t) /\ receipt'[t] = receipt[t] /\ charger'[t] = charger[t]
  BY <1>3, <1>5 DEF Unmoved
<1>14. QED
  BY <1>6, <1>7, <1>9, <1>10, <1>11, <1>12, <1>13, StepOfOne

\* Equipment that did anything has a session that has its money.
LEMMA EquipmentAtWork ==
  ASSUME SettlementInv, NEW s \in Sessions
  PROVE  /\ charger \in [Sessions -> ChargerStatus]
         /\ charger[s] # "idle" => session[s].status \notin Unstarted /\ session[s].status # "NONE"
         /\ session[s] # NoSession => session[s].status # "NONE"
<1>1. Coherent(s) /\ charger \in [Sessions -> ChargerStatus]
  BY DEF SettlementInv, RowsTyped
<1>2. QED
  BY <1>1 DEF Coherent, Unstarted

\* Every request and every event keeps the invariant.
LEMMA ArriveKeeps ==
  ASSUME SettlementInv, NEW w \in Workers, Arrive(w)
  PROVE  SettlementInv'
<1>1. PICK s \in Sessions :
        \/ \E c \in Connectors : Create(w, s, c)
        \/ BeginStart(w, s)
        \/ BeginStop(w, s)
        \/ StoppedEvent(w, s)
        \/ MeterEvent(w, s)
        \/ DisconnectEvent(w, s)
        \/ \E offline \in BOOLEAN : FailureEvent(w, s, offline)
  BY DEF Arrive
<1>2. charger \in [Sessions -> ChargerStatus] /\ {"reported", "failed"} \subseteq ChargerStatus
  BY EquipmentAtWork DEF ChargerStatus
<1>3. CASE BeginStart(w, s)
  <2>1. Begin(w, "start", "startPrepare", s, FALSE) /\ UNCHANGED <<money, rows, charger, faults>>
    BY <1>3 DEF BeginStart
  <2>2. session[s].status # "NONE"
    BY <1>3, EquipmentAtWork DEF BeginStart
  <2>3. QED
    BY <1>2, <2>1, <2>2, Arrives
<1>4. CASE BeginStop(w, s)
  <2>1. Begin(w, "stop", "stopPrepare", s, FALSE) /\ UNCHANGED <<money, rows, charger, faults>>
    BY <1>4 DEF BeginStop
  <2>2. session[s].status # "NONE"
    BY <1>4, EquipmentAtWork DEF BeginStop
  <2>3. QED
    BY <1>2, <2>1, <2>2, Arrives
<1>5. CASE StoppedEvent(w, s)
  <2>1. /\ Begin(w, "event", "stoppedEvent", s, FALSE) /\ UNCHANGED <<money, rows, faults>>
        /\ charger' = [charger EXCEPT ![s] = "reported"]
    BY <1>5 DEF StoppedEvent
  <2>2. session[s].status \notin Unstarted /\ session[s].status # "NONE"
    BY <1>5, EquipmentAtWork DEF StoppedEvent
  <2>3. QED
    BY <1>2, <2>1, <2>2, Arrives
<1>6. CASE MeterEvent(w, s)
  <2>1. Begin(w, "event", "meter", s, FALSE) /\ UNCHANGED <<money, rows, charger, faults>>
    BY <1>6 DEF MeterEvent
  <2>2. session[s].status \notin Unstarted /\ session[s].status # "NONE"
    BY <1>6, EquipmentAtWork DEF MeterEvent
  <2>3. QED
    BY <1>2, <2>1, <2>2, Arrives
<1>7. CASE DisconnectEvent(w, s)
  <2>1. Begin(w, "event", "disconnect", s, FALSE) /\ UNCHANGED <<money, rows, charger, faults>>
    BY <1>7 DEF DisconnectEvent
  <2>2. session[s].status \notin Unstarted /\ session[s].status # "NONE"
    BY <1>7, EquipmentAtWork DEF DisconnectEvent
  <2>3. QED
    BY <1>2, <2>1, <2>2, Arrives
<1>8. ASSUME NEW offline \in BOOLEAN, FailureEvent(w, s, offline)
      PROVE  SettlementInv'
  <2>1. /\ Begin(w, "event", "fail", s, offline) /\ UNCHANGED <<money, rows, faults>>
        /\ charger' = [charger EXCEPT ![s] = "failed"]
    BY <1>8 DEF FailureEvent
  <2>2. session[s].status \notin Unstarted /\ session[s].status # "NONE"
    BY <1>8, EquipmentAtWork DEF FailureEvent
  <2>3. QED
    BY <1>2, <2>1, <2>2, Arrives
<1>9. QED
  BY <1>1, <1>3, <1>4, <1>5, <1>6, <1>7, <1>8, CreateKeeps

\* What leaves the handlers, the sessions, the intents and the reservations
\* alone leaves every handler where it may be.
LEMMA NobodyMoves ==
  ASSUME SettlementInv, UNCHANGED <<worker, session, intent, reservation, errors>>, RowsTyped',
         \A s \in Sessions : Coherent(s)'
  PROVE  SettlementInv'
<1>1. \A w \in Workers : Placed(worker[w])'
  <2> SUFFICES ASSUME NEW w \in Workers PROVE Placed(worker[w])'
    OBVIOUS
  <2>1. Placed(worker[w])
    BY DEF SettlementInv
  <2>2. Place(worker[w].op, worker[w].caller, worker[w].after, worker[w].s)'
          <=> Place(worker[w].op, worker[w].caller, worker[w].after, worker[w].s)
    BY DEF Place
  <2>3. Snapshot(worker[w].op, worker[w].seen, worker[w].s)'
          <=> Snapshot(worker[w].op, worker[w].seen, worker[w].s)
    BY DEF Snapshot
  <2>4. QED
    BY <2>1, <2>2, <2>3 DEF Placed
<1>2. CreatorsDiffer' /\ (reservation \in [Sessions -> ReservationRows])'
  BY DEF SettlementInv, CreatorsDiffer
<1>3. QED
  BY <1>1, <1>2 DEF SettlementInv

\* Equipment that stops by itself keeps the invariant.
LEMMA ChargerStopsKeeps ==
  ASSUME SettlementInv, NEW s \in Sessions, ChargerStops(s)
  PROVE  SettlementInv'
<1>1. PICK end \in {"stopped", "failed"} : charger' = [charger EXCEPT ![s] = end]
  BY DEF ChargerStops
<1>2. /\ session' = session /\ connector' = connector /\ intent' = intent /\ receipt' = receipt
      /\ reservation' = reservation /\ worker' = worker
      /\ statusWrites' = statusWrites /\ crashes' = crashes /\ errors' = errors /\ charger[s] = "running"
  BY DEF ChargerStops, rows, money, faults
<1>3. RowsTyped /\ (\A t \in Sessions : Coherent(t)) /\ end \in ChargerStatus
  BY DEF SettlementInv, ChargerStatus
<1>4. session[s].status \notin Unstarted
  BY <1>2, EquipmentAtWork
<1>5. /\ charger' \in [Sessions -> ChargerStatus]
      /\ \A t \in Sessions : t # s => charger'[t] = charger[t]
  BY <1>1, <1>3 DEF RowsTyped
<1>6. RowsTyped'
  BY <1>2, <1>3, <1>5 DEF RowsTyped
<1>7. \A t \in Sessions : Coherent(t)'
  <2> SUFFICES ASSUME NEW t \in Sessions PROVE Coherent(t)'
    OBVIOUS
  <2>1. Coherent(t) /\ (session[t].status \in Unstarted => charger'[t] = charger[t])
    BY <1>3, <1>4, <1>5
  <2>2. QED
    BY <1>2, <2>1 DEF Coherent
<1>8. QED
  BY <1>2, <1>6, <1>7, NobodyMoves

\* Money that is paid in, a connector that others write, and a step that
\* changes nothing keep the invariant.
LEMMA RowsStay ==
  ASSUME SettlementInv, connector' \in [Connectors -> ConnectorStatus],
         statusWrites' \in Nat, crashes' \in Nat,
         UNCHANGED <<worker, session, intent, reservation, receipt, charger, errors>>
  PROVE  SettlementInv'
<1>1. RowsTyped /\ \A t \in Sessions : Coherent(t)
  BY DEF SettlementInv
<1>2. RowsTyped'
  BY <1>1 DEF RowsTyped
<1>3. \A t \in Sessions : Coherent(t)'
  BY <1>1 DEF Coherent
<1>4. QED
  BY <1>2, <1>3, NobodyMoves

\* A connector written by others than sessions.
LEMMA WriteConnectorKeeps ==
  ASSUME SettlementInv, NEW c \in Connectors, NEW status \in ConnectorStatus,
         WriteConnector(c, status)
  PROVE  SettlementInv'
<1>1. /\ statusWrites' = statusWrites + 1 /\ crashes' = crashes
      /\ connector' = [connector EXCEPT ![c] = status]
      /\ UNCHANGED <<worker, session, intent, reservation, receipt, charger, errors>>
  BY DEF WriteConnector, money
<1>2. RowsTyped
  BY DEF SettlementInv
<1>3. connector' \in [Connectors -> ConnectorStatus] /\ statusWrites' \in Nat /\ crashes' \in Nat
  BY <1>1, <1>2 DEF RowsTyped
<1>4. QED
  BY <1>1, <1>3, RowsStay

\* A crash leaves the rows alone and ends every handler.
LEMMA CrashKeeps ==
  ASSUME SettlementInv, Crash
  PROVE  SettlementInv'
<1>1. /\ session' = session /\ connector' = connector /\ intent' = intent /\ receipt' = receipt
      /\ reservation' = reservation /\ charger' = charger
      /\ statusWrites' = statusWrites /\ crashes' = crashes + 1 /\ errors' = errors
      /\ worker' = [w \in Workers |-> Idle]
  BY DEF Crash, rows, money
<1>2. /\ RowsTyped /\ reservation \in [Sessions -> ReservationRows]
      /\ \A t \in Sessions : Coherent(t)
  BY DEF SettlementInv
<1>3. RowsTyped'
  BY <1>1, <1>2, IdleType DEF RowsTyped
<1>4. \A t \in Sessions : Coherent(t)'
  BY <1>1, <1>2 DEF Coherent
<1>5. (\A w \in Workers : Placed(worker[w])') /\ CreatorsDiffer'
  BY <1>1 DEF Placed, CreatorsDiffer, Idle
<1>6. QED
  BY <1>1, <1>2, <1>3, <1>4, <1>5 DEF SettlementInv

\* An error of the database leaves the rows alone and sends the handler where its caller catches.
LEMMA ThrowKeeps ==
  ASSUME SettlementInv, NEW w \in Workers, Throw(w)
  PROVE  SettlementInv'
<1>1. /\ worker[w].op \in Throwing /\ worker[w].op # "idle"
      /\ Goto(w, AfterError(w)) /\ errors' = errors + 1
      /\ UNCHANGED <<money, rows, charger, statusWrites, crashes>>
  BY OpsAre DEF Throw, Throwing
<1>2. /\ session' = session /\ connector' = connector /\ intent' = intent /\ receipt' = receipt
      /\ charger' = charger /\ statusWrites' = statusWrites /\ crashes' = crashes
      /\ reservation' = reservation
  BY <1>1 DEF rows, money
<1>3. RowsTyped /\ reservation \in [Sessions -> ReservationRows] /\ errors \in Nat
  BY DEF SettlementInv, RowsTyped
<1>4. errors' \in Nat /\ errors' # 0
  BY <1>1, <1>3
<1>5. PICK s \in Sessions : s = worker[w].s /\ s = Of(w)
  BY <1>1, AtWork
<1>6. PICK after \in Afters : after = worker[w].after
  BY <1>1, AtWork DEF Handlers, Afters
<1>7. Place(worker[w].op, worker[w].caller, after, s) /\ session[s].status # "NONE"
  BY <1>1, <1>5, <1>6 DEF SettlementInv, Placed
<1>8. session[s].status = "PENDING" => worker[w].caller = "create"
  BY <1>1, <1>5, AtWork DEF Throwing
<1>9. \/ /\ AfterError(w) = "authorizeCatch"
         /\ worker[w].op \in {"reserve", "authorizeIntent"}
      \/ AfterError(w) \in {"idle", "fail"}
  BY ErrorsFail, Targets DEF AfterError, AfterTransitionError, InTransition, At
<1>10. PICK op \in Ops \cup {"idle"} : op = AfterError(w)
  BY <1>9, OpsAre
<1>11. Decide(w, op, after)
  BY <1>1, <1>6, <1>10 DEF Goto
<1>12. /\ worker' \in [Workers -> Handlers]
       /\ \A v \in Workers : v # w => worker'[v] = worker[v]
       /\ op = "idle" => worker'[w] = Idle
       /\ op # "idle" => worker'[w].s = s /\ worker'[w].caller = worker[w].caller
  BY <1>3, <1>5, <1>11, Decided
<1>13. RowsTyped' /\ (reservation \in [Sessions -> ReservationRows])'
  BY <1>2, <1>3, <1>4, <1>12 DEF RowsTyped
<1>14. \A t \in Sessions : Unmoved(t) /\ Advances(t) /\ Coherent(t)'
  BY <1>1, <1>4, SameRows
<1>15. Placed(worker[w])'
  <2>1. op # "idle" => Place(op, worker[w].caller, after, s)'
    <3>1. CASE op = "authorizeCatch"
      <4>1. /\ worker[w].caller = "create" /\ session[s].status = "PENDING"
            /\ intent[s].status = "PENDING"
        BY <1>7, <1>9, <1>10, <3>1 DEF Place, Creating
      <4>2. /\ worker'[w].caller = "create" /\ session'[s].status = "PENDING"
            /\ intent'[s].status = "PENDING"
        BY <1>2, <1>12, <3>1, <4>1
      <4>3. QED
        BY <1>4, <3>1, <4>2 DEF Place, Creating, Settling, Cancelling
    <3>2. CASE op = "fail"
      BY <3>2 DEF Place, Creating, Settling, Cancelling
    <3>3. QED
      BY <1>9, <1>10, <3>1, <3>2
  <2>2. QED
    BY <1>1, <1>2, <1>5, <1>7, <1>8, <1>11, <2>1, GoesTo
<1>16. worker'[w].caller = "create" => worker[w].caller = "create" /\ worker[w].s = worker'[w].s
  BY <1>5, <1>12 DEF Idle
<1>17. \A t \in Sessions : receipt'[t] = receipt[t] /\ charger'[t] = charger[t]
  BY <1>2
<1>18. QED
  BY <1>12, <1>13, <1>14, <1>15, <1>16, <1>17, StepOfOne

-----------------------------------------------------------------------------
(* The invariant *)

\* It holds before the first request.
LEMMA SettlementInit ==
  ASSUME Init
  PROVE  SettlementInv
<1>1. /\ session = [s \in Sessions |-> NoSession]
      /\ connector = [c \in Connectors |-> "AVAILABLE"]
      /\ intent = [s \in Sessions |-> NoIntent]
      /\ receipt = [s \in Sessions |-> FALSE]
      /\ charger = [s \in Sessions |-> "idle"]
      /\ worker = [w \in Workers |-> Idle]
      /\ statusWrites = 0 /\ crashes = 0 /\ errors = 0
      /\ reservation = [s \in Sessions |-> Ledger!NoReservation]
  BY DEF Init, Ledger!Init
<1>2. RowsTyped
  <2>1. NoSession \in SessionRows /\ NoIntent \in IntentRows
    BY DEF NoSession, NoIntent, SessionRows, IntentRows
  <2>2. "AVAILABLE" \in ConnectorStatus /\ "idle" \in ChargerStatus
    BY DEF ConnectorStatus, ChargerStatus
  <2>3. QED
    BY <1>1, <2>1, <2>2, IdleType DEF RowsTyped
<1>3. reservation \in [Sessions -> ReservationRows]
  BY <1>1 DEF ReservationRows, Ledger!NoReservation, Ledger!ReservationStatus
<1>4. \A s \in Sessions : Coherent(s)
  BY <1>1
  DEF Coherent, NoSession, NoIntent, Ledger!NoReservation, Unstarted, Underway, Ended
<1>5. (\A w \in Workers : Placed(worker[w])) /\ CreatorsDiffer
  BY <1>1 DEF Placed, CreatorsDiffer, Idle
<1>6. QED
  BY <1>2, <1>3, <1>4, <1>5 DEF SettlementInv

\* Every step keeps it.
LEMMA SettlementNext ==
  ASSUME SettlementInv, [Next]_vars
  PROVE  SettlementInv'
<1>1. ASSUME NEW w \in Workers, Arrive(w) \/ Handle(w)
      PROVE  SettlementInv'
  BY <1>1, ArriveKeeps, HandleKeeps
<1>2. ASSUME NEW s \in Sessions, ChargerStops(s)
      PROVE  SettlementInv'
  BY <1>2, ChargerStopsKeeps
<1>3. ASSUME NEW k \in TopUps, TopUp(k)
      PROVE  SettlementInv'
  <2>1. UNCHANGED <<worker, session, connector, intent, reservation, receipt, charger,
                    statusWrites, crashes, errors>>
    BY <1>3 DEF TopUp, Ledger!Credit, rows, faults
  <2>2. QED
    BY <2>1, RowsStay DEF SettlementInv, RowsTyped
<1>4. ASSUME NEW c \in Connectors, StatusNotification(c) \/ ConnectionLost(c) \/ UpdateConnectorStatus(c)
      PROVE  SettlementInv'
  <2>1. PICK status \in ConnectorStatus : WriteConnector(c, status)
    BY <1>4 DEF StatusNotification, ConnectionLost, UpdateConnectorStatus, ConnectorStatus
  <2>2. QED
    BY <2>1, WriteConnectorKeeps
<1>5. CASE UNCHANGED vars
  <2>1. UNCHANGED <<worker, session, connector, intent, reservation, receipt, charger,
                    statusWrites, crashes, errors>>
    BY <1>5 DEF vars, rows, money, faults
  <2>2. QED
    BY <2>1, RowsStay DEF SettlementInv, RowsTyped
<1>6. ASSUME NEW w \in Workers, Throw(w)
      PROVE  SettlementInv'
  BY <1>6, ThrowKeeps
<1>7. QED
  BY <1>1, <1>2, <1>3, <1>4, <1>5, <1>6, CrashKeeps DEF Next

\* The inductive invariant.
THEOREM SettlementInvariant == Spec => []SettlementInv
<1>1. Init => SettlementInv
  BY SettlementInit
<1>2. SettlementInv /\ [Next]_vars => SettlementInv'
  BY SettlementNext
<1>3. QED
  BY <1>1, <1>2, PTL DEF Spec

-----------------------------------------------------------------------------
(* What follows from the invariant *)

\* What the intent and the receipt of a session say of its money is true of
\* its reservation, between any two steps of any number of handlers.
THEOREM IntentsTellTheTruth == Spec => []IntentMatchesMoney
<1>1. SettlementInv => IntentMatchesMoney
  <2> SUFFICES ASSUME SettlementInv, NEW s \in Sessions
               PROVE  /\ intent[s].status \in {"NONE", "CREATED"} => reservation[s].status = "NONE"
                      /\ intent[s].status = "FAILED" =>
                           \/ reservation[s].status = "NONE"
                           \/ errors > 0 /\ reservation[s].status # "CAPTURED"
                      /\ intent[s].status = "AUTHORIZED" => reservation[s].status # "NONE"
                      /\ intent[s].status = "CAPTURED" => reservation[s].status = "CAPTURED"
                      /\ intent[s].status = "CANCELLED" => reservation[s].status # "RESERVED"
                      /\ intent[s].status = "REQUIRES_REVIEW" => reservation[s].status # "CAPTURED"
                      /\ receipt[s] => intent[s].status = "CAPTURED"
    BY DEF IntentMatchesMoney
  <2>1. Coherent(s) /\ errors \in Nat
    BY DEF SettlementInv, RowsTyped
  <2>2. QED
    BY <2>1 DEF Coherent
<1>2. QED
  BY <1>1, SettlementInvariant, PTL

\* The driver pays exactly the cost of a session that was completed, and
\* nothing for any other session.
THEOREM OnlyCompletedIsPaid == Spec => []PaysForCompleted
<1>1. SettlementInv => PaysForCompleted
  BY DEF SettlementInv, Coherent, PaysForCompleted
<1>2. QED
  BY <1>1, SettlementInvariant, PTL

-----------------------------------------------------------------------------
(* Every write follows the state machines *)

\* What a step does to the rows of session s is what their state machines allow.
Follows(s) ==
  /\ session[s].status # "NONE" /\ session'[s] # session[s] =>
       /\ LegalSessionMove(session[s].status, session'[s].status)
       /\ ~TerminalSession(session[s].status)
       /\ session'[s].version = session[s].version + 1
  /\ intent[s].status # "NONE" /\ intent'[s] # intent[s] =>
       /\ intent'[s].status \in IntentTransitions[intent[s].status]
       /\ intent'[s].version = intent[s].version + 1

\* The moves that the transactions of a session make.
LEMMA SessionMoves ==
  /\ LegalSessionMove("PENDING", "AUTHORIZED") /\ LegalSessionMove("AUTHORIZED", "STARTING")
  /\ LegalSessionMove("STARTING", "CHARGING") /\ LegalSessionMove("CHARGING", "STOPPING")
  /\ LegalSessionMove("STOPPING", "COMPLETED")
  /\ \A st \in Underway \cup {"PENDING"} :
       LegalSessionMove(st, st) /\ LegalSessionMove(st, "FAILED")
BY DEF LegalSessionMove, SessionTransitions, Underway

\* One session that has not ended is written, and no intent and no money.
Moves(s, to, cost) ==
  /\ s \in Sessions /\ session[s].status \in Underway \cup {"PENDING"}
  /\ LegalSessionMove(session[s].status, to)
  /\ session'[s].status = to /\ session'[s].version = session[s].version + 1
  /\ session'[s].cost = cost /\ session'[s].connector = session[s].connector
  /\ \A t \in Sessions : t # s => session'[t] = session[t]
  /\ UNCHANGED <<money, intent, faults>>

\* What becomes of the connector of a session that moves.
Sets(s, to) ==
  IF to \in Ended
    THEN SetConnector(s, "AVAILABLE") \/ SetConnector(s, "OFFLINE")
    ELSE SetConnector(s, "OCCUPIED") \/ SetConnector(s, "OFFLINE") \/ UNCHANGED connector

\* What a session transaction writes.
LEMMA WriteMoves ==
  ASSUME SettlementInv, NEW w \in Workers, NEW op \in SessionOps, NEW from,
         SessionWrite(w, op, from), NEW to \in SessionStatus,
         session[Of(w)].status \in Underway \cup {"PENDING"},
         LegalSessionMove(session[Of(w)].status, to), NEW cost,
         \/ session' = Moved(w, to) /\ cost = session[Of(w)].cost
         \/ session' = [Moved(w, to) EXCEPT ![Of(w)].cost = cost]
  PROVE  Moves(Of(w), to, cost)
<1>1. PICK x \in Sessions : x = worker[w].s /\ x = Of(w)
  BY Written
<1>2. session \in [Sessions -> SessionRows] /\ UNCHANGED <<money, intent, receipt, charger, faults>>
  BY Written
<1> DEFINE m == Moved(w, to)
<1>3. /\ m \in [Sessions -> SessionRows] /\ m[x].cost = session[x].cost
      /\ m[x].connector = session[x].connector
      /\ m[x].status = to /\ m[x].version = session[x].version + 1
      /\ \A t \in Sessions : t # x => m[t] = session[t]
  BY <1>1, <1>2, MovedIs
<1>4. \/ session' = m /\ cost = session[x].cost
      \/ session' = [m EXCEPT ![x].cost = cost]
  BY <1>1
<1> HIDE DEF m
<1>5. CASE session' = m /\ cost = session[x].cost
  BY <1>1, <1>2, <1>3, <1>5 DEF Moves
<1>6. CASE session' = [m EXCEPT ![x].cost = cost]
  <2>1. m[x] \in SessionRows
    BY <1>3
  <2>2. session'[x] = [m[x] EXCEPT !.cost = cost] /\ \A t \in Sessions : t # x => session'[t] = m[t]
    BY <1>3, <1>6
  <2>3. /\ session'[x].status = to /\ session'[x].version = session[x].version + 1
        /\ session'[x].cost = cost /\ session'[x].connector = session[x].connector
    BY <1>3, <2>1, <2>2 DEF SessionRows
  <2>4. QED
    BY <1>1, <1>2, <1>3, <2>2, <2>3 DEF Moves
<1>7. QED
  BY <1>4, <1>5, <1>6

\* A session that is written follows its state machine.
LEMMA MovesFollow ==
  ASSUME NEW x, NEW to, NEW cost, Moves(x, to, cost), NEW s \in Sessions
  PROVE  Follows(s)
<1>1. ~TerminalSession(session[x].status)
  BY TerminalStatuses, Statuses DEF Moves, Underway
<1>2. QED
  BY <1>1 DEF Follows, Moves

\* What writes neither a session nor an intent follows.
LEMMA StaysFollows ==
  ASSUME UNCHANGED <<session, intent>>, NEW s \in Sessions
  PROVE  Follows(s)
BY DEF Follows

\* A transition of an intent follows its state machine.
LEMMA WriteIntentFollows ==
  ASSUME SettlementInv, NEW w \in Workers, WriteIntent(w), NEW s \in Sessions
  PROVE  Follows(s)
<1> DEFINE target == IntentTarget[worker[w].op]
<1>1. /\ InTransition(w) /\ HasRead(w) /\ Seen(w) # Lost
      /\ UNCHANGED session
  BY DEF WriteIntent
<1>2. CASE UNCHANGED intent
  BY <1>1, <1>2, StaysFollows
<1>3. CASE /\ LegalIntentMove(Seen(w).status, target) /\ Seen(w).status # target
           /\ intent[Of(w)].version = Seen(w).version
           /\ intent' = [intent EXCEPT ![Of(w)] =
                [status |-> target, version |-> intent[Of(w)].version + 1]]
  <2>1. Seen(w).status = intent[Of(w)].status /\ worker[w].op # "idle"
    BY <1>1, <1>3, SeenIntent
  <2>2. target \in IntentTransitions[intent[Of(w)].status]
    BY <1>3, <2>1 DEF LegalIntentMove
  <2>3. intent \in [Sessions -> IntentRows] /\ Of(w) \in Sessions
    BY <2>1, AtWork DEF SettlementInv, RowsTyped
  <2> HIDE DEF target
  <2>4. QED
    BY <1>1, <1>3, <2>2, <2>3 DEF Follows
<1>4. QED
  BY <1>2, <1>3 DEF WriteIntent

\* The creation of an intent changes none that is there.
LEMMA CreateIntentFollows ==
  ASSUME SettlementInv, NEW w \in Workers, CreateIntent(w), NEW s \in Sessions
  PROVE  Follows(s)
<1>1. worker[w].op = "createIntent" /\ worker[w].op \in Creating /\ UNCHANGED session
  BY DEF CreateIntent, At, Creating
<1>2. /\ intent[Of(w)].status = "NONE" /\ Of(w) \in Sessions
      /\ intent \in [Sessions -> IntentRows]
  BY <1>1, AtCreation DEF Place, SettlementInv, RowsTyped
<1>3. CASE UNCHANGED intent
  BY <1>1, <1>3, StaysFollows
<1>4. CASE intent' = [intent EXCEPT ![Of(w)] = [status |-> "CREATED", version |-> 0]]
  BY <1>1, <1>2, <1>4 DEF Follows
<1>5. QED
  BY <1>3, <1>4 DEF CreateIntent

\* A new session changes none that is there.
LEMMA CreateFollows ==
  ASSUME SettlementInv, NEW w \in Workers, NEW t \in Sessions, NEW c \in Connectors,
         Create(w, t, c), NEW s \in Sessions
  PROVE  Follows(s)
<1>1. /\ session[t].status = "NONE" /\ UNCHANGED intent
      /\ \A u \in Sessions : u # t => session'[u] = session[u]
  BY DEF Create, NoSession, SettlementInv, RowsTyped
<1>2. QED
  BY <1>1 DEF Follows

\* A step that moves a session which has not ended without completing it, or
\* completes one at its cost.
Transacts ==
  \/ \E s \in Sessions, to \in Underway \cup {"FAILED"} :
       Moves(s, to, session[s].cost) /\ Sets(s, to)
  \/ \E s \in Sessions, cost \in Costs :
       session[s].status = "STOPPING" /\ Moves(s, "COMPLETED", cost) /\ Sets(s, "COMPLETED")

\* A step that leaves the rows and the money alone.
Rests == UNCHANGED <<session, connector, intent, money, statusWrites>>

\* The transactions of the handlers that write a session.
LEMMA Transactions ==
  ASSUME SettlementInv, NEW w \in Workers,
         \/ AuthorizeSession(w) \/ StartPrepare(w) \/ StartCommit(w) \/ StopPrepare(w)
         \/ Complete(w) \/ FailSession(w) \/ HandleStopped(w) \/ HandleMeter(w)
         \/ HandleDisconnect(w)
  PROVE  Transacts \/ Rests
<1>1. ASSUME NEW op \in SessionOps, NEW from, NEW to \in Underway \cup {"FAILED"},
             SessionWrite(w, op, from), session' = Moved(w, to), Sets(Of(w), to),
             from \subseteq Underway \cup {"PENDING"},
             \A st \in from : LegalSessionMove(st, to)
      PROVE  Transacts
  <2>1. session[Of(w)].status \in from /\ Of(w) \in Sessions
    BY <1>1, Written
  <2>2. to \in SessionStatus
    BY Statuses DEF Underway
  <2>3. Moves(Of(w), to, session[Of(w)].cost)
    BY <1>1, <2>1, <2>2, WriteMoves
  <2>4. QED
    BY <1>1, <2>1, <2>3 DEF Transacts
<1>2. /\ {"authorizeSession", "startPrepare", "startCommit", "stopPrepare", "complete",
          "stoppedEvent", "meter", "disconnect", "fail"} \subseteq SessionOps
      /\ {"AUTHORIZED", "STARTING", "CHARGING", "STOPPING"} = Underway
      /\ {"COMPLETED", "FAILED"} = Ended
      /\ UNCHANGED <<money, rows, charger, faults>> => Rests
  BY DEF SessionOps, Underway, Ended, Rests, rows, faults
<1>3. CASE AuthorizeSession(w)
  <2>1. \/ UNCHANGED <<money, rows, charger, faults>>
        \/ /\ SessionWrite(w, "authorizeSession", {"PENDING"}) /\ session' = Moved(w, "AUTHORIZED")
           /\ Sets(Of(w), "AUTHORIZED")
    BY <1>2, <1>3 DEF AuthorizeSession, Sets
  <2>2. QED
    BY <1>1, <1>2, <2>1, SessionMoves
<1>4. CASE StartPrepare(w)
  <2>1. \/ UNCHANGED <<money, rows, charger, faults>>
        \/ /\ SessionWrite(w, "startPrepare", {"AUTHORIZED"}) /\ session' = Moved(w, "STARTING")
           /\ Sets(Of(w), "STARTING")
    BY <1>2, <1>4 DEF StartPrepare, SessionReplayed, SessionRefused, Sets
  <2>2. QED
    BY <1>1, <1>2, <2>1, SessionMoves
<1>5. CASE StartCommit(w)
  <2>1. \/ UNCHANGED <<money, rows, charger, faults>>
        \/ /\ SessionWrite(w, "startCommit", {"STARTING"}) /\ session' = Moved(w, "CHARGING")
           /\ Sets(Of(w), "CHARGING")
    BY <1>2, <1>5 DEF StartCommit, SessionReplayed, SessionRefused, Sets
  <2>2. QED
    BY <1>1, <1>2, <2>1, SessionMoves
<1>6. CASE StopPrepare(w)
  <2>1. \/ UNCHANGED <<money, rows, charger, faults>>
        \/ /\ SessionWrite(w, "stopPrepare", {"CHARGING"}) /\ session' = Moved(w, "STOPPING")
           /\ Sets(Of(w), "STOPPING")
    BY <1>2, <1>6 DEF StopPrepare, SessionReplayed, SessionRefused, Sets
  <2>2. QED
    BY <1>1, <1>2, <2>1, SessionMoves
<1>7. CASE HandleStopped(w)
  <2>1. \/ UNCHANGED <<money, rows, charger, faults>>
        \/ /\ SessionWrite(w, "stoppedEvent", {"CHARGING"}) /\ session' = Moved(w, "STOPPING")
           /\ Sets(Of(w), "STOPPING")
    BY <1>2, <1>7 DEF HandleStopped, SessionReplayed, SessionRefused, Sets
  <2>2. QED
    BY <1>1, <1>2, <2>1, SessionMoves
<1>8. CASE HandleMeter(w)
  <2>1. \/ UNCHANGED <<money, rows, charger, faults>>
        \/ /\ SessionWrite(w, "meter", {"CHARGING"}) /\ session' = Moved(w, "CHARGING")
           /\ Sets(Of(w), "CHARGING")
    BY <1>2, <1>8 DEF HandleMeter, SessionRefused, Sets
  <2>2. QED
    BY <1>1, <1>2, <2>1, SessionMoves
<1>9. CASE Complete(w)
  <2>1. ASSUME SessionWrite(w, "complete", {"STOPPING"}), Sets(Of(w), "COMPLETED"),
               NEW cost \in Costs, session' = [Moved(w, "COMPLETED") EXCEPT ![Of(w)].cost = cost]
        PROVE  Transacts
    <3>1. session[Of(w)].status = "STOPPING" /\ Of(w) \in Sessions
      BY <1>2, <2>1, Written
    <3>2. Moves(Of(w), "COMPLETED", cost)
      BY <1>2, <2>1, <3>1, SessionMoves, WriteMoves, Statuses DEF Underway
    <3>3. QED
      BY <2>1, <3>1, <3>2 DEF Transacts
  <2>2. \/ UNCHANGED <<money, rows, charger, faults>>
        \/ /\ SessionWrite(w, "complete", {"STOPPING"}) /\ Sets(Of(w), "COMPLETED")
           /\ \E cost \in Costs : session' = [Moved(w, "COMPLETED") EXCEPT ![Of(w)].cost = cost]
    BY <1>2, <1>9 DEF Complete, SessionReplayed, SessionRefused, Sets
  <2>3. QED
    BY <1>2, <2>1, <2>2
<1>10. CASE FailSession(w)
  <2> DEFINE active == SessionStatus \ {x \in SessionStatus : TerminalSession(x)}
  <2>1. \/ UNCHANGED <<money, rows, charger, faults>>
        \/ /\ SessionWrite(w, "fail", active) /\ session' = Moved(w, "FAILED")
           /\ Sets(Of(w), "FAILED")
    BY <1>2, <1>10 DEF FailSession, SessionReplayed, SessionRefused, Sets
  <2>2. active = Underway \cup {"PENDING"}
    BY TerminalStatuses, Statuses DEF Underway
  <2> HIDE DEF active
  <2>3. QED
    BY <1>1, <1>2, <2>1, <2>2, SessionMoves
<1>11. CASE HandleDisconnect(w)
  <2>1. \/ UNCHANGED <<money, rows, charger, faults>>
        \/ /\ SessionWrite(w, "disconnect", {"CHARGING", "STOPPING"})
           /\ session' = Moved(w, Seen(w).status)
           /\ SetConnector(Of(w), "OFFLINE")
    BY <1>11 DEF HandleDisconnect, SessionRefused
  <2>2. CASE /\ SessionWrite(w, "disconnect", {"CHARGING", "STOPPING"})
             /\ session' = Moved(w, Seen(w).status)
             /\ SetConnector(Of(w), "OFFLINE")
    <3>1. /\ Seen(w).status = session[Of(w)].status /\ Of(w) \in Sessions
          /\ Seen(w).status \in {"CHARGING", "STOPPING"}
      BY <1>2, <2>2, Written
    <3>2. PICK to \in {"CHARGING", "STOPPING"} : to = Seen(w).status
      BY <3>1
    <3>3. LegalSessionMove(session[Of(w)].status, to) /\ to \in SessionStatus
      BY <3>1, <3>2, Statuses DEF LegalSessionMove
    <3>4. Moves(Of(w), to, session[Of(w)].cost)
      BY <1>2, <2>2, <3>1, <3>2, <3>3, WriteMoves
    <3>5. to \in Underway /\ Sets(Of(w), to)
      BY <1>2, <2>2 DEF Sets, Ended
    <3>6. QED
      BY <3>1, <3>4, <3>5 DEF Transacts
  <2>3. QED
    BY <1>2, <2>1, <2>2
<1>12. QED
  BY <1>3, <1>4, <1>5, <1>6, <1>7, <1>8, <1>9, <1>10, <1>11

\* The kinds of steps, by what they write.
LEMMA StepKinds ==
  ASSUME SettlementInv, [Next]_vars
  PROVE  \/ Transacts
         \/ \E w \in Workers : WriteIntent(w) \/ CreateIntent(w)
         \/ \E w \in Workers : ReserveMoney(w) \/ Capture(w) \/ Release(w)
         \/ \E w \in Workers, s \in Sessions, c \in Connectors : Create(w, s, c)
         \/ \E k \in TopUps : TopUp(k)
         \/ \E c \in Connectors, status \in ConnectorStatus : WriteConnector(c, status)
         \/ Rests
<1>1. ASSUME NEW w \in Workers, Arrive(w)
      PROVE  Rests \/ \E s \in Sessions, c \in Connectors : Create(w, s, c)
  BY <1>1 DEF Arrive, BeginStart, BeginStop, StoppedEvent, MeterEvent, DisconnectEvent,
              FailureEvent, Rests, rows, faults
<1>2. ASSUME NEW w \in Workers, Handle(w)
      PROVE  \/ Transacts \/ WriteIntent(w) \/ CreateIntent(w)
             \/ ReserveMoney(w) \/ Capture(w) \/ Release(w) \/ Rests
  <2>1. CASE \/ ReadSession(w) \/ ReadIntent(w) \/ RacedIntent(w) \/ AuthorizeCatch(w)
             \/ GatewayStart(w) \/ GatewayStop(w) \/ Settle(w) \/ ReceiptRead(w)
             \/ ReceiptWrite(w) \/ AutoRecharge(w) \/ Cancel(w) \/ CancelReservation(w)
    BY <2>1 DEF ReadSession, ReadIntent, RacedIntent, AuthorizeCatch, GatewayStart, GatewayStop,
                Settle, ReceiptRead, ReceiptWrite, AutoRecharge, Cancel, CancelReservation,
                Rests, rows, faults
  <2>2. QED
    BY <1>2, <2>1, Transactions DEF Handle
<1>3. ASSUME NEW c \in Connectors, StatusNotification(c) \/ ConnectionLost(c) \/ UpdateConnectorStatus(c)
      PROVE  \E status \in ConnectorStatus : WriteConnector(c, status)
  BY <1>3 DEF StatusNotification, ConnectionLost, UpdateConnectorStatus, ConnectorStatus
<1>4. CASE (\E s \in Sessions : ChargerStops(s)) \/ Crash \/ UNCHANGED vars
  BY <1>4 DEF ChargerStops, Crash, Rests, vars, rows, faults
<1>5. ASSUME NEW w \in Workers, Throw(w)
      PROVE  Rests
  BY <1>5 DEF Throw, Rests, rows
<1>6. QED
  BY <1>1, <1>2, <1>3, <1>4, <1>5 DEF Next

\* Every step follows the state machines.
LEMMA StepFollows ==
  ASSUME SettlementInv, [Next]_vars, NEW s \in Sessions
  PROVE  Follows(s)
<1>1. CASE Transacts
  BY <1>1, MovesFollow DEF Transacts
<1>2. CASE \/ \E w \in Workers : ReserveMoney(w) \/ Capture(w) \/ Release(w)
           \/ \E k \in TopUps : TopUp(k)
           \/ \E c \in Connectors, status \in ConnectorStatus : WriteConnector(c, status)
           \/ Rests
  <2>1. UNCHANGED <<session, intent>>
    BY <1>2 DEF ReserveMoney, Capture, Release, TopUp, WriteConnector, Rests, rows
  <2>2. QED
    BY <2>1, StaysFollows
<1>3. QED
  BY <1>1, <1>2, StepKinds, WriteIntentFollows, CreateIntentFollows, CreateFollows

\* A handler that works from a stale read never undoes what another committed:
\* every write of a session or of an intent follows its state machine, raises
\* its version, and leaves a session that has ended alone.
THEOREM WritesAreLegal == Spec => WritesFollowLifecycle
<1> DEFINE Step == \A s \in Sessions : Follows(s)
<1>1. SettlementInv /\ [Next]_vars => [Step]_vars
  BY StepFollows
<1>2. Step <=> \A s \in Sessions :
       /\ session[s].status # "NONE" /\ session'[s] # session[s] =>
            /\ LegalSessionMove(session[s].status, session'[s].status)
            /\ ~TerminalSession(session[s].status)
            /\ session'[s].version = session[s].version + 1
       /\ intent[s].status # "NONE" /\ intent'[s] # intent[s] =>
            /\ intent'[s].status \in IntentTransitions[intent[s].status]
            /\ intent'[s].version = intent[s].version + 1
  BY DEF Follows
<1> HIDE DEF Step
<1>3. Spec => [][Step]_vars
  BY <1>1, SettlementInvariant, PTL DEF Spec
<1>4. QED
  BY <1>2, <1>3, PTL DEF WritesFollowLifecycle

-----------------------------------------------------------------------------
(* The settlement implements its contract *)

PhaseOf(st) ==
  CASE st = "COMPLETED" -> "completed"
    [] st \in {"FAILED", "CANCELLED"} -> "failed"
    [] OTHER -> "open"

MoneyOf(held) ==
  CASE held = "NONE"     -> "none"
    [] held = "RESERVED" -> "held"
    [] held = "CAPTURED" -> "charged"
    [] held = "RELEASED" -> "returned"

\* The bill of one session.
BillRow(s) ==
  [phase |-> PhaseOf(session[s].status), price |-> session[s].cost,
   money |-> MoneyOf(reservation[s].status), paid |-> reservation[s].captured]

\* The phases and what becomes of the money.
LEMMA Values ==
  /\ PhaseOf("COMPLETED") = "completed" /\ PhaseOf("FAILED") = "failed"
  /\ \A st \in Underway \cup Unstarted : PhaseOf(st) = "open"
  /\ MoneyOf("NONE") = "none" /\ MoneyOf("RESERVED") = "held"
  /\ MoneyOf("CAPTURED") = "charged" /\ MoneyOf("RELEASED") = "returned"
BY DEF PhaseOf, MoneyOf, Underway, Unstarted

\* What the bills say of one session.
LEMMA BillIs ==
  /\ Bill = [s \in Sessions |-> BillRow(s)]
  /\ \A s \in Sessions : Bill[s] = BillRow(s)
BY DEF Bill, BillRow, PhaseOf, MoneyOf

\* A step that touches one session touches one bill.
LEMMA OneBill ==
  ASSUME NEW s \in Sessions,
         \A t \in Sessions : t # s => session'[t] = session[t] /\ reservation'[t] = reservation[t]
  PROVE  Bill' = [Bill EXCEPT ![s] = BillRow(s)']
<1>1. \A t \in Sessions : t # s => BillRow(t)' = BillRow(t)
  BY DEF BillRow
<1>2. Bill' = [t \in Sessions |-> BillRow(t)']
  BY DEF Bill, BillRow, PhaseOf, MoneyOf
<1>3. QED
  BY <1>1, <1>2, BillIs

\* A step that leaves the bills alone.
LEMMA SameBill ==
  ASSUME NEW s \in Sessions, BillRow(s)' = BillRow(s),
         \A t \in Sessions : t # s => session'[t] = session[t] /\ reservation'[t] = reservation[t]
  PROVE  UNCHANGED Bill
BY OneBill, BillIs

\* The bills are the same when the sessions and the reservations are.
LEMMA NoBill ==
  ASSUME UNCHANGED <<session, reservation>>
  PROVE  UNCHANGED Bill
BY DEF Bill

\* A session that moves keeps its bill, is aborted, or is finished.
LEMMA TransactsBill ==
  ASSUME SettlementInv, Transacts
  PROVE  UNCHANGED Bill \/ Contract!Next
<1>1. ASSUME NEW s \in Sessions, NEW to \in Underway, Moves(s, to, session[s].cost)
      PROVE  UNCHANGED Bill
  <2>1. reservation' = reservation
    BY <1>1 DEF Moves, money
  <2>2. BillRow(s)' = BillRow(s)
    BY <1>1, <2>1, Values DEF Moves, BillRow, Unstarted
  <2>3. QED
    BY <1>1, <2>1, <2>2, SameBill DEF Moves
<1>2. ASSUME NEW s \in Sessions, Moves(s, "FAILED", session[s].cost)
      PROVE  Contract!Next
  <2>1. reservation' = reservation
    BY <1>2 DEF Moves, money
  <2>2. PhaseOf(session[s].status) = "open" /\ PhaseOf(session'[s].status) = "failed"
    BY <1>2, Values DEF Moves, Unstarted
  <2> DEFINE m == MoneyOf(reservation[s].status)
             paid == reservation[s].captured
  <2>3. /\ BillRow(s) = [phase |-> "open", price |-> session[s].cost, money |-> m, paid |-> paid]
        /\ BillRow(s)' = [phase |-> "failed", price |-> session[s].cost, money |-> m, paid |-> paid]
    BY <1>2, <2>1, <2>2 DEF Moves, BillRow
  <2> HIDE DEF m, paid
  <2>4. Bill' = [Bill EXCEPT ![s] = BillRow(s)']
    BY <1>2, <2>1, OneBill DEF Moves
  <2>5. Bill[s] = BillRow(s)
    BY BillIs
  <2>6. Bill[s].phase = "open"
    BY <2>3, <2>5
  <2>7. Bill' = [Bill EXCEPT ![s].phase = "failed"]
    <3>1. [Bill[s] EXCEPT !.phase = "failed"]
            = [phase |-> "failed", price |-> session[s].cost, money |-> m, paid |-> paid]
      BY <2>3, <2>5
    <3>2. [Bill EXCEPT ![s].phase = "failed"] = [Bill EXCEPT ![s] = [Bill[s] EXCEPT !.phase = "failed"]]
      OBVIOUS
    <3>3. QED
      BY <2>3, <2>4, <3>1, <3>2
  <2>8. Contract!Abort(s)
    BY <1>2, <2>6, <2>7 DEF Contract!Abort
  <2>9. QED
    BY <2>8 DEF Contract!Next
<1>3. ASSUME NEW s \in Sessions, NEW cost \in Costs, session[s].status = "STOPPING",
             Moves(s, "COMPLETED", cost)
      PROVE  Contract!Next
  <2>1. reservation' = reservation
    BY <1>3 DEF Moves, money
  <2>2. reservation[s].status = "RESERVED"
    BY <1>3 DEF SettlementInv, Coherent, Underway
  <2> DEFINE paid == reservation[s].captured
  <2>3. /\ BillRow(s) = [phase |-> "open", price |-> session[s].cost, money |-> "held", paid |-> paid]
        /\ BillRow(s)' = [phase |-> "completed", price |-> cost, money |-> "held", paid |-> paid]
    BY <1>3, <2>1, <2>2, Values DEF Moves, BillRow, Underway
  <2> HIDE DEF paid
  <2>4. Bill' = [Bill EXCEPT ![s] = BillRow(s)']
    BY <1>3, <2>1, OneBill DEF Moves
  <2>5. Bill[s] = BillRow(s)
    BY BillIs
  <2>6. Bill[s].phase = "open" /\ Bill[s].money = "held"
    BY <2>3, <2>5
  <2>7. Bill' = [Bill EXCEPT ![s].phase = "completed", ![s].price = cost]
    <3>1. [Bill[s] EXCEPT !.phase = "completed"]
            = [phase |-> "completed", price |-> session[s].cost, money |-> "held", paid |-> paid]
      BY <2>3, <2>5
    <3>2. [[phase |-> "completed", price |-> session[s].cost, money |-> "held", paid |-> paid]
             EXCEPT !.price = cost] = [phase |-> "completed", price |-> cost, money |-> "held", paid |-> paid]
      OBVIOUS
    <3>3. [Bill EXCEPT ![s].phase = "completed", ![s].price = cost]
            = [Bill EXCEPT ![s] = [[Bill[s] EXCEPT !.phase = "completed"] EXCEPT !.price = cost]]
      OBVIOUS
    <3>4. QED
      BY <2>3, <2>4, <3>1, <3>2, <3>3
  <2>8. Contract!Finish(s, cost)
    BY <1>3, <2>6, <2>7 DEF Contract!Finish
  <2>9. QED
    BY <2>8 DEF Contract!Next
<1>4. QED
  BY <1>1, <1>2, <1>3 DEF Transacts

\* Money is held for a session that has none and has not ended.
LEMMA ReserveMoneyBill ==
  ASSUME SettlementInv, NEW w \in Workers, ReserveMoney(w)
  PROVE  UNCHANGED Bill \/ Contract!Next
<1>1. worker[w].op = "reserve" /\ worker[w].op \in Creating /\ session' = session
  BY DEF ReserveMoney, At, Creating, rows
<1>2. PICK s \in Sessions : s = Of(w)
  BY <1>1, AtCreation
<1>3. /\ session[s].status = "PENDING" /\ Coherent(s)
      /\ reservation \in [Sessions -> ReservationRows]
  BY <1>1, <1>2, AtCreation DEF SettlementInv
<1>4. CASE UNCHANGED money
  BY <1>1, <1>4, NoBill DEF money
<1>5. CASE Ledger!Reserve(Driver, Of(w), PreAuth)
  <2>1. /\ reservation[s] = Ledger!NoReservation
        /\ reservation' = [reservation EXCEPT ![s] =
             [wallet |-> Driver, status |-> "RESERVED",
              amount |-> PreAuth, captured |-> 0, released |-> 0]]
    BY <1>2, <1>5 DEF Ledger!Reserve
  <2>2. session[s].cost = 0
    BY <1>3 DEF Coherent
  <2>3. BillRow(s) = [phase |-> "open", price |-> 0, money |-> "none", paid |-> 0]
    BY <1>3, <2>1, <2>2, Values DEF BillRow, Ledger!NoReservation, Unstarted
  <2>4. BillRow(s)' = [phase |-> "open", price |-> 0, money |-> "held", paid |-> 0]
    BY <1>1, <1>3, <2>1, <2>2, Values DEF BillRow, Unstarted
  <2>5. Bill' = [Bill EXCEPT ![s] = BillRow(s)']
    BY <1>1, <1>3, <2>1, OneBill
  <2>6. Bill[s] = BillRow(s)
    BY BillIs
  <2>7. Bill[s] = [phase |-> "open", price |-> 0, money |-> "none", paid |-> 0]
    BY <2>3, <2>4, <2>6
  <2>8. Bill' = [Bill EXCEPT ![s].money = "held"]
    <3>1. [Bill[s] EXCEPT !.money = "held"] = [phase |-> "open", price |-> 0, money |-> "held", paid |-> 0]
      BY <2>3, <2>4, <2>6
    <3>2. [Bill EXCEPT ![s].money = "held"] = [Bill EXCEPT ![s] = [Bill[s] EXCEPT !.money = "held"]]
      OBVIOUS
    <3>3. QED
      BY <2>3, <2>4, <2>5, <3>1, <3>2
  <2>9. Contract!HoldMoney(s)
    BY <1>3, <2>7, <2>8 DEF Contract!HoldMoney, Contract!OpenBill
  <2>10. QED
    BY <2>9 DEF Contract!Next
<1>6. QED
  BY <1>4, <1>5 DEF ReserveMoney

\* What is held is charged once the session is completed, at its price.
LEMMA CaptureBill ==
  ASSUME SettlementInv, NEW w \in Workers, Capture(w)
  PROVE  UNCHANGED Bill \/ Contract!Next
<1>1. worker[w].op = "capture" /\ worker[w].op \in Settling /\ worker[w].op # "idle"
      /\ session' = session
  BY DEF Capture, At, Settling, rows
<1>2. PICK s \in Sessions : s = Of(w)
  BY <1>1, PastCreation
<1>3. /\ session[s].status = "COMPLETED" /\ session[s].cost <= PreAuth
      /\ reservation \in [Sessions -> ReservationRows]
  BY <1>1, <1>2, PastCreation DEF Place, Capturable
<1>4. CASE UNCHANGED money
  BY <1>1, <1>4, NoBill DEF money
<1>5. CASE Ledger!CaptureReserved(Driver, Of(w), session[Of(w)].cost)
  <2> DEFINE cost == session[s].cost
  <2>1. /\ reservation[s].status = "RESERVED"
        /\ reservation' = [reservation EXCEPT
             ![s].status = "CAPTURED",
             ![s].captured = cost,
             ![s].released = reservation[s].amount - cost]
    BY <1>2, <1>5 DEF Ledger!CaptureReserved, Ledger!CanCapture
  <2>2. reservation[s] \in ReservationRows
    BY <1>3
  <2>3. /\ reservation'[s].status = "CAPTURED" /\ reservation'[s].captured = cost
        /\ \A t \in Sessions : t # s => reservation'[t] = reservation[t]
    BY <1>3, <2>1, <2>2 DEF ReservationRows
  <2> DEFINE paid == reservation[s].captured
  <2>4. /\ BillRow(s) = [phase |-> "completed", price |-> cost, money |-> "held", paid |-> paid]
        /\ BillRow(s)' = [phase |-> "completed", price |-> cost, money |-> "charged", paid |-> cost]
    BY <1>1, <1>3, <2>1, <2>3, Values DEF BillRow
  <2> HIDE DEF paid
  <2>5. Bill' = [Bill EXCEPT ![s] = BillRow(s)']
    BY <1>1, <2>3, OneBill
  <2>6. Bill[s] = BillRow(s)
    BY BillIs
  <2>7. Bill[s].phase = "completed" /\ Bill[s].money = "held" /\ Bill[s].price = cost
    BY <2>4, <2>6
  <2>8. Bill' = [Bill EXCEPT ![s].money = "charged", ![s].paid = cost]
    <3>1. [Bill[s] EXCEPT !.money = "charged"]
            = [phase |-> "completed", price |-> cost, money |-> "charged", paid |-> paid]
      BY <2>4, <2>6
    <3>2. [[phase |-> "completed", price |-> cost, money |-> "charged", paid |-> paid]
             EXCEPT !.paid = cost]
            = [phase |-> "completed", price |-> cost, money |-> "charged", paid |-> cost]
      OBVIOUS
    <3>3. [Bill EXCEPT ![s].money = "charged", ![s].paid = cost]
            = [Bill EXCEPT ![s] = [[Bill[s] EXCEPT !.money = "charged"] EXCEPT !.paid = cost]]
      OBVIOUS
    <3>4. QED
      BY <2>4, <2>5, <3>1, <3>2, <3>3
  <2>9. Contract!Charge(s)
    BY <1>3, <2>7, <2>8 DEF Contract!Charge
  <2>10. QED
    BY <2>9 DEF Contract!Next
<1>6. QED
  BY <1>4, <1>5 DEF Capture

\* What is held is given back only once the session has ended.
LEMMA ReleaseBill ==
  ASSUME SettlementInv, NEW w \in Workers, Release(w)
  PROVE  UNCHANGED Bill \/ Contract!Next
<1>1. worker[w].op = "release" /\ worker[w].op \in Cancelling /\ worker[w].op # "idle"
      /\ session' = session
  BY DEF Release, At, Cancelling, rows
<1>2. PICK s \in Sessions : s = Of(w)
  BY <1>1, PastCreation
<1>3. /\ session[s].status \in Ended /\ reservation \in [Sessions -> ReservationRows]
  BY <1>1, <1>2, PastCreation DEF Place
<1>4. CASE UNCHANGED money
  BY <1>1, <1>4, NoBill DEF money
<1>5. CASE Ledger!ReleaseReserved(Driver, Of(w))
  <2>1. /\ reservation[s].status = "RESERVED"
        /\ reservation' = [reservation EXCEPT
             ![s].status = "RELEASED", ![s].released = reservation[s].amount]
    BY <1>2, <1>5 DEF Ledger!ReleaseReserved, Ledger!CanRelease
  <2>2. reservation[s] \in ReservationRows
    BY <1>3
  <2>3. /\ reservation'[s].status = "RELEASED"
        /\ reservation'[s].captured = reservation[s].captured
        /\ \A t \in Sessions : t # s => reservation'[t] = reservation[t]
    BY <1>3, <2>1, <2>2 DEF ReservationRows
  <2> DEFINE phase == PhaseOf(session[s].status)
             price == session[s].cost
             paid  == reservation[s].captured
  <2>4. /\ phase # "open"
        /\ BillRow(s) = [phase |-> phase, price |-> price, money |-> "held", paid |-> paid]
        /\ BillRow(s)' = [phase |-> phase, price |-> price, money |-> "returned", paid |-> paid]
    BY <1>1, <1>3, <2>1, <2>3, Values DEF BillRow, Ended
  <2> HIDE DEF phase, price, paid
  <2>5. Bill' = [Bill EXCEPT ![s] = BillRow(s)']
    BY <1>1, <2>3, OneBill
  <2>6. Bill[s] = BillRow(s)
    BY BillIs
  <2>7. Bill[s].phase # "open" /\ Bill[s].money = "held"
    BY <2>4, <2>6
  <2>8. Bill' = [Bill EXCEPT ![s].money = "returned"]
    <3>1. [Bill[s] EXCEPT !.money = "returned"]
            = [phase |-> phase, price |-> price, money |-> "returned", paid |-> paid]
      BY <2>4, <2>6
    <3>2. [Bill EXCEPT ![s].money = "returned"] = [Bill EXCEPT ![s] = [Bill[s] EXCEPT !.money = "returned"]]
      OBVIOUS
    <3>3. QED
      BY <2>4, <2>5, <3>1, <3>2
  <2>9. Contract!GiveBack(s)
    BY <1>3, <2>7, <2>8 DEF Contract!GiveBack
  <2>10. QED
    BY <2>9 DEF Contract!Next
<1>6. QED
  BY <1>4, <1>5 DEF Release

\* A new session has no bill yet.
LEMMA CreateBill ==
  ASSUME SettlementInv, NEW w \in Workers, NEW s \in Sessions, NEW c \in Connectors, Create(w, s, c)
  PROVE  UNCHANGED Bill
<1>1. /\ session[s] = NoSession /\ reservation' = reservation
      /\ session' = [session EXCEPT ![s] =
           [NoSession EXCEPT !.status = "PENDING", !.connector = c]]
  BY DEF Create, money
<1>2. session \in [Sessions -> SessionRows]
  BY DEF SettlementInv, RowsTyped
<1>3. /\ session[s].status = "NONE" /\ session'[s].status = "PENDING"
      /\ session[s].cost = 0 /\ session'[s].cost = 0
  BY <1>1, <1>2 DEF NoSession
<1>4. BillRow(s)' = BillRow(s)
  BY <1>1, <1>3, Values DEF BillRow, Unstarted
<1>5. QED
  BY <1>1, <1>2, <1>4, SameBill

\* Every step is a step of the contract or invisible to it.
LEMMA ContractNext ==
  ASSUME SettlementInv, [Next]_vars
  PROVE  UNCHANGED Bill \/ Contract!Next
<1>1. CASE \/ \E w \in Workers : WriteIntent(w) \/ CreateIntent(w)
           \/ \E k \in TopUps : TopUp(k)
           \/ \E c \in Connectors, status \in ConnectorStatus : WriteConnector(c, status)
           \/ Rests
  <2>1. UNCHANGED <<session, reservation>>
    BY <1>1 DEF WriteIntent, CreateIntent, TopUp, Ledger!Credit, WriteConnector, Rests, rows, money
  <2>2. QED
    BY <2>1, NoBill
<1>2. QED
  BY <1>1, StepKinds, TransactsBill, ReserveMoneyBill, CaptureBill, ReleaseBill, CreateBill

\* The contract's bills are open before the first request.
LEMMA ContractInit ==
  ASSUME Init
  PROVE  Contract!Init
BY DEF Init, Ledger!Init, Ledger!NoReservation, NoSession, Bill, Contract!Init, Contract!OpenBill

\* However many handlers interleave, crash or find stale rows, the settlement
\* implements its contract.
THEOREM SettlementKeepsContract == Spec => ContractSpec
<1>1. Init => Contract!Init
  BY ContractInit
<1>2. SettlementInv /\ [Next]_vars => [Contract!Next]_Bill
  BY ContractNext
<1>3. QED
  BY <1>1, <1>2, SettlementInvariant, PTL DEF Spec, ContractSpec, Contract!Spec

-----------------------------------------------------------------------------
(* The settlement and the ledger *)

\* A handler that uses the wallet does so by one operation of the ledger.
LEMMA HandleLedger ==
  ASSUME SettlementInv, NEW w \in Workers, ReserveMoney(w) \/ Capture(w) \/ Release(w)
  PROVE  UNCHANGED money \/ Ledger!Next
<1>1. CASE ReserveMoney(w)
  <2>1. worker[w].op \in Creating
    BY <1>1 DEF ReserveMoney, At, Creating
  <2>2. Of(w) \in Sessions
    BY <2>1, AtCreation
  <2>3. PreAuth \in Ledger!Money
    BY SettlementAssumption DEF Ledger!Money
  <2>4. UNCHANGED money \/ Ledger!Reserve(Driver, Of(w), PreAuth)
    BY <1>1 DEF ReserveMoney
  <2>5. QED
    BY <2>2, <2>3, <2>4 DEF Ledger!Next, Ledger!WalletStep
<1>2. CASE Capture(w)
  <2>1. worker[w].op = "capture" /\ worker[w].op \in Settling /\ worker[w].op # "idle"
    BY <1>2 DEF Capture, At, Settling
  <2>2. Of(w) \in Sessions /\ session[Of(w)].status = "COMPLETED" /\ Coherent(Of(w))
    BY <2>1, PastCreation DEF Place
  <2>3. session[Of(w)].cost \in Ledger!Money
    BY <2>2, SettlementAssumption DEF Coherent, Ledger!Money
  <2>4. UNCHANGED money \/ Ledger!CaptureReserved(Driver, Of(w), session[Of(w)].cost)
    BY <1>2 DEF Capture
  <2>5. QED
    BY <2>2, <2>3, <2>4 DEF Ledger!Next, Ledger!WalletStep
<1>3. CASE Release(w)
  <2>1. worker[w].op = "release" /\ worker[w].op \in Cancelling /\ worker[w].op # "idle"
    BY <1>3 DEF Release, At, Cancelling
  <2>2. Of(w) \in Sessions
    BY <2>1, PastCreation
  <2>3. UNCHANGED money \/ Ledger!ReleaseReserved(Driver, Of(w))
    BY <1>3 DEF Release
  <2>4. QED
    BY <2>2, <2>3 DEF Ledger!Next, Ledger!WalletStep
<1>4. QED
  BY <1>1, <1>2, <1>3

\* So does every step that touches the money.
LEMMA LedgerStep ==
  ASSUME SettlementInv, [Next]_vars
  PROVE  [Ledger!Next]_money
<1>1. ASSUME NEW k \in TopUps, TopUp(k)
      PROVE  Ledger!Next
  <2>1. TopUpAmount \in Ledger!Money
    BY SettlementAssumption DEF Ledger!Money
  <2>2. QED
    BY <1>1, <2>1 DEF TopUp, Ledger!Next, Ledger!WalletStep
<1>2. CASE \/ Transacts
           \/ \E w \in Workers : WriteIntent(w) \/ CreateIntent(w)
           \/ \E w \in Workers, s \in Sessions, c \in Connectors : Create(w, s, c)
           \/ \E c \in Connectors, status \in ConnectorStatus : WriteConnector(c, status)
           \/ Rests
  BY <1>2 DEF Transacts, Moves, WriteIntent, CreateIntent, Create, WriteConnector, Rests
<1>3. QED
  BY <1>1, <1>2, StepKinds, HandleLedger

\* The settlement uses the wallet and its ledger through one operation at a
\* time, with the amounts those operations accept.
THEOREM SettlementUsesLedger == Spec => LedgerSpec
<1>1. Init => Ledger!Init
  BY DEF Init
<1>2. SettlementInv /\ [Next]_vars => [Ledger!Next]_(Ledger!vars)
  BY LedgerStep DEF money, Ledger!vars
<1>3. QED
  BY <1>1, <1>2, SettlementInvariant, PTL DEF Spec, LedgerSpec, Ledger!Spec

\* The proofs about the ledger, for the one wallet of the driver.
L == INSTANCE WalletLedgerProofs WITH Wallets <- {Driver}, CreditKeys <- TopUps, RefundKeys <- {}

\* What they assume holds here.
LEMMA LedgerAssumptions ==
  L!IsFiniteSet(Sessions) /\ L!IsFiniteSet(TopUps) /\ L!IsFiniteSet({}) /\ MaxMinor \in Nat
<1>1. \A S : IsFiniteSet(S) => L!IsFiniteSet(S)
  BY DEF IsFiniteSet, L!IsFiniteSet
<1>2. IsFiniteSet({})
  BY FS_EmptySet
<1>3. QED
  BY <1>1, <1>2, SettlementAssumption

\* The data of the ledger those proofs are about are the data of this one.
LEMMA SameData ==
  /\ L!Money = Ledger!Money /\ L!Keys = Ledger!Keys
  /\ L!NoReservation = Ledger!NoReservation /\ L!NoPosting = Ledger!NoPosting
  /\ L!Clearing = Ledger!Clearing /\ L!Revenue = Ledger!Revenue /\ L!RefundAcc = Ledger!RefundAcc
  /\ L!WalletStatus = Ledger!WalletStatus /\ L!ReservationStatus = Ledger!ReservationStatus
  /\ L!Accounts = Ledger!Accounts /\ L!NoAccount = Ledger!NoAccount /\ L!NoWallet = Ledger!NoWallet
  /\ \A w : L!Available(w) = Ledger!Available(w) /\ L!Reserved(w) = Ledger!Reserved(w)
  /\ \A d, c, a : L!Posting(d, c, a) = Ledger!Posting(d, c, a)
  /\ \A j, k, p : L!Posted(j, k, p) = Ledger!Posted(j, k, p)
  /\ \A k : L!Fresh(k) <=> Ledger!Fresh(k)
  /\ \A w : L!Active(w) <=> Ledger!Active(w)
<1>1. /\ L!NoAccount = Ledger!NoAccount
      /\ \A d, c, a : L!Posting(d, c, a) = Ledger!Posting(d, c, a)
  BY DEF L!Posting, Ledger!Posting, L!NoAccount, Ledger!NoAccount
<1>2. L!NoPosting = Ledger!NoPosting
  BY <1>1 DEF L!NoPosting, Ledger!NoPosting
<1>3. QED
  BY <1>1, <1>2
  DEF L!Money, Ledger!Money, L!Keys, Ledger!Keys, L!NoReservation, Ledger!NoReservation,
      L!Clearing, Ledger!Clearing, L!Revenue, Ledger!Revenue, L!RefundAcc, Ledger!RefundAcc,
      L!WalletStatus, Ledger!WalletStatus, L!ReservationStatus, Ledger!ReservationStatus,
      L!Accounts, Ledger!Accounts, L!NoWallet, Ledger!NoWallet, L!Available, Ledger!Available,
      L!Reserved, Ledger!Reserved, L!Posted, Ledger!Posted, L!Fresh, Ledger!Fresh,
      L!Active, Ledger!Active

\* So are its steps.
LEMMA SameSteps ==
  /\ Ledger!Init => L!Init
  /\ [Ledger!Next]_(Ledger!vars) => [L!Next]_(L!vars)
<1>1. Ledger!Init => L!Init
  BY SameData DEF L!Init, Ledger!Init
<1>2. ASSUME NEW w, NEW k, NEW a
      PROVE  /\ Ledger!Credit(w, k, a) => L!Credit(w, k, a)
             /\ Ledger!Refund(w, k, a) => L!Refund(w, k, a)
             /\ Ledger!Reserve(w, k, a) => L!Reserve(w, k, a)
             /\ Ledger!ReleaseReserved(w, k) => L!ReleaseReserved(w, k)
             /\ Ledger!SetBlocked(w, a) => L!SetBlocked(w, a)
  BY SameData
  DEF L!Credit, Ledger!Credit, L!Refund, Ledger!Refund, L!Reserve, Ledger!Reserve,
      L!ReleaseReserved, Ledger!ReleaseReserved, L!CanRelease, Ledger!CanRelease,
      L!SetBlocked, Ledger!SetBlocked, L!Post, Ledger!Post
<1>3. ASSUME NEW w, NEW s, NEW a
      PROVE  Ledger!CaptureReserved(w, s, a) => L!CaptureReserved(w, s, a)
  <2>1. Ledger!CapturePostings(w, s, a) = L!CapturePostings(w, s, a)
    BY SameData DEF L!CapturePostings, Ledger!CapturePostings
  <2>2. QED
    BY <2>1, SameData
    DEF L!CaptureReserved, Ledger!CaptureReserved, L!CanCapture, Ledger!CanCapture
<1>4. Ledger!Next => L!Next
  BY <1>2, <1>3, SameData DEF L!Next, Ledger!Next, L!WalletStep, Ledger!WalletStep
<1>5. QED
  BY <1>1, <1>4 DEF L!vars, Ledger!vars

\* What is proved of the ledger by itself holds of the ledger of the settlement.
LEMMA LedgerHolds == Spec => []L!LedgerInv
<1>1. LedgerSpec => L!Spec
  BY SameSteps, PTL DEF LedgerSpec, Ledger!Spec, L!Spec
<1>2. L!Spec => []L!LedgerInv
  BY L!LedgerInvariant, LedgerAssumptions
<1>3. QED
  BY <1>1, <1>2, SettlementUsesLedger, PTL

\* Rows, reservations and postings have the types of the schema whatever the
\* handlers do: no balance and no version ever leaves the numbers, and every
\* status written is one of its state machine.
THEOREM SettlementTypes == Spec => []TypeOK
<1>1. L!LedgerInv => Ledger!TypeOK
  BY SameData DEF L!LedgerInv, L!TypeOK, Ledger!TypeOK
<1>2. SettlementInv /\ Ledger!TypeOK => TypeOK
  BY DEF SettlementInv, RowsTyped, SessionRows, IntentRows, Handlers, TypeOK
<1>3. QED
  BY <1>1, <1>2, LedgerHolds, SettlementInvariant, PTL

\* The balances of the driver's wallet are those of its ledger accounts, while
\* handlers of several sessions reserve, capture, release and crash.
THEOREM SettlementKeepsBooks == Spec => []Ledger!WalletMatchesLedger
<1>1. \A S : Ledger!Cardinality(S) = L!Cardinality(S)
  BY DEF Ledger!Cardinality, L!Cardinality
<1>2. \A S, f : Ledger!Total(S, f) = L!Total(S, f)
  BY <1>1 DEF Ledger!Total, L!Total, Ledger!Units, L!Units
<1>3. \A j, a : Ledger!Balance(j, a) = L!Balance(j, a)
  BY <1>2, SameData
  DEF Ledger!Balance, L!Balance, Ledger!Credits, L!Credits, Ledger!Debits, L!Debits,
      Ledger!Amounts, L!Amounts
<1>4. L!LedgerInv => Ledger!WalletMatchesLedger
  BY <1>3, SameData DEF L!LedgerInv, L!WalletMatchesLedger, Ledger!WalletMatchesLedger
<1>5. QED
  BY <1>4, LedgerHolds, PTL

-----------------------------------------------------------------------------
(* Sessions share connectors one at a time *)

Working == Underway \cup {"PENDING"}

Has(c, s) == session[s].status \in Working /\ session[s].connector = c

\* A connector has one working session at most, and its status tells whether
\* it has one as long as only sessions write it.
SharingInv ==
  /\ \A s, t \in Sessions : \A c \in Connectors : Has(c, s) /\ Has(c, t) => s = t
  /\ statusWrites = 0 =>
       \A c \in Connectors :
         /\ connector[c] = "AVAILABLE" => ~\E s \in Sessions : Has(c, s)
         /\ connector[c] \in {"RESERVED", "OCCUPIED"} => \E s \in Sessions : Has(c, s)

\* The sessions that are active.
LEMMA ActiveIs ==
  ASSUME SettlementInv, NEW s \in Sessions
  PROVE  /\ ActiveSession(s) <=> session[s].status \in Working
         /\ session[s].status \in Working => session[s].connector \in Connectors
<1>1. /\ session[s].status \in (SessionStatus \cup {"NONE"}) \ {"CANCELLED"}
      /\ session[s].status # "NONE" => session[s].connector \in Connectors
  BY DEF SettlementInv, RowsTyped, SessionRows, Coherent
<1>2. QED
  BY <1>1, TerminalStatuses, Statuses DEF ActiveSession, Working, Underway

\* A session that moves takes its connector along.
LEMMA MovesShare ==
  ASSUME SettlementInv, SharingInv, NEW s \in Sessions, NEW to \in Underway \cup Ended, NEW cost,
         Moves(s, to, cost), Sets(s, to)
  PROVE  SharingInv'
<1>1. PICK here \in Connectors : here = session[s].connector
  BY ActiveIs DEF Moves, Working
<1>2. /\ Has(here, s) /\ session[s].status \in Working
      /\ connector \in [Connectors -> ConnectorStatus]
      /\ statusWrites' = statusWrites
  BY <1>1 DEF SettlementInv, RowsTyped, Moves, Has, Working, faults
<1>3. /\ \A t \in Sessions, c \in Connectors : t # s => (Has(c, t)' <=> Has(c, t))
      /\ \A c \in Connectors : Has(c, s)' <=> to \in Underway /\ c = here
  BY <1>1 DEF Has, Moves, Working, Underway, Ended
<1>4. \A c \in Connectors : Has(c, s)' => Has(c, s)
  BY <1>2, <1>3 DEF Has
<1>5. \A c \in Connectors : c # here => connector'[c] = connector[c]
  BY <1>1, <1>2 DEF Sets, SetConnector
<1>6. \A t, u \in Sessions : \A c \in Connectors : Has(c, t)' /\ Has(c, u)' => t = u
  <2>1. \A t \in Sessions, c \in Connectors : Has(c, t)' => Has(c, t)
    BY <1>3, <1>4
  <2>2. QED
    BY <2>1 DEF SharingInv
<1>7. ASSUME statusWrites = 0, NEW c \in Connectors, c # here
      PROVE  /\ connector'[c] = "AVAILABLE" => ~\E t \in Sessions : Has(c, t)'
             /\ connector'[c] \in {"RESERVED", "OCCUPIED"} => \E t \in Sessions : Has(c, t)'
  <2>1. \A t \in Sessions : Has(c, t)' <=> Has(c, t)
    <3>1. Has(c, s)' <=> Has(c, s)
      BY <1>1, <1>3, <1>7 DEF Has
    <3>2. QED
      BY <1>3, <3>1
  <2>2. QED
    BY <1>5, <1>7, <2>1 DEF SharingInv
<1>8. CASE to \in Underway
  <2>1. Has(here, s)'
    BY <1>2, <1>3, <1>8
  <2>2. connector'[here] \in {"OCCUPIED", "OFFLINE"} \/ connector' = connector
    BY <1>1, <1>2, <1>8 DEF Sets, SetConnector, Underway, Ended
  <2>3. statusWrites = 0 => connector'[here] # "AVAILABLE"
    BY <1>2, <2>2 DEF SharingInv
  <2>4. QED
    BY <1>2, <1>6, <1>7, <2>1, <2>3 DEF SharingInv
<1>9. CASE to \in Ended
  <2>1. \A t \in Sessions : ~Has(here, t)'
    <3>1. ~Has(here, s)'
      BY <1>2, <1>3, <1>9 DEF Underway, Ended
    <3>2. \A t \in Sessions : t # s => ~Has(here, t)
      BY <1>2 DEF SharingInv
    <3>3. QED
      BY <1>2, <1>3, <3>1, <3>2
  <2>2. connector'[here] \in {"AVAILABLE", "OFFLINE"}
    BY <1>1, <1>2, <1>9 DEF Sets, SetConnector
  <2>3. QED
    BY <1>2, <1>6, <1>7, <2>1, <2>2 DEF SharingInv
<1>10. QED
  BY <1>8, <1>9

\* A session is created on a connector that has none.
LEMMA CreateShares ==
  ASSUME SettlementInv, SharingInv, NEW w \in Workers, NEW s \in Sessions, NEW c \in Connectors,
         Create(w, s, c)
  PROVE  SharingInv'
<1>1. /\ session[s] = NoSession /\ statusWrites' = statusWrites
      /\ \A t \in Sessions : ActiveSession(t) => session[t].connector # c
      /\ connector' = [connector EXCEPT ![c] = "RESERVED"]
      /\ session' = [session EXCEPT ![s] =
           [NoSession EXCEPT !.status = "PENDING", !.connector = c]]
  BY DEF Create, faults
<1>2. connector \in [Connectors -> ConnectorStatus] /\ session \in [Sessions -> SessionRows]
  BY DEF SettlementInv, RowsTyped
<1>3. \A t \in Sessions : ~Has(c, t)
  BY <1>1, ActiveIs DEF Has
<1>4. /\ session'[s].status = "PENDING" /\ session'[s].connector = c
      /\ \A t \in Sessions : t # s => session'[t] = session[t]
  BY <1>1, <1>2 DEF NoSession
<1>5. /\ Has(c, s)'
      /\ \A d \in Connectors : d # c => ~Has(d, s)' /\ ~Has(d, s)
      /\ \A t \in Sessions, d \in Connectors : t # s => (Has(d, t)' <=> Has(d, t))
  BY <1>1, <1>4 DEF Has, Working, Underway, NoSession
<1>6. /\ connector'[c] = "RESERVED"
      /\ \A d \in Connectors : d # c => connector'[d] = connector[d]
  BY <1>1, <1>2
<1>7. \A t, u \in Sessions : \A d \in Connectors : Has(d, t)' /\ Has(d, u)' => t = u
  <2>1. \A t \in Sessions, d \in Connectors : Has(d, t)' => Has(d, t) \/ (t = s /\ d = c)
    BY <1>5
  <2>2. QED
    BY <1>3, <2>1 DEF SharingInv
<1>8. ASSUME statusWrites = 0, NEW d \in Connectors, d # c
      PROVE  /\ connector'[d] = "AVAILABLE" => ~\E t \in Sessions : Has(d, t)'
             /\ connector'[d] \in {"RESERVED", "OCCUPIED"} => \E t \in Sessions : Has(d, t)'
  <2>1. \A t \in Sessions : Has(d, t)' <=> Has(d, t)
    BY <1>5, <1>8
  <2>2. QED
    BY <1>6, <1>8, <2>1 DEF SharingInv
<1>9. QED
  BY <1>1, <1>5, <1>6, <1>7, <1>8 DEF SharingInv

\* Every step shares the connectors.
LEMMA SharingNext ==
  ASSUME SettlementInv, SharingInv, [Next]_vars
  PROVE  SharingInv'
<1>1. CASE Transacts
  BY <1>1, MovesShare DEF Transacts, Ended
<1>2. CASE \/ \E w \in Workers : WriteIntent(w) \/ CreateIntent(w)
           \/ \E w \in Workers : ReserveMoney(w) \/ Capture(w) \/ Release(w)
           \/ \E k \in TopUps : TopUp(k)
           \/ Rests
  <2>1. UNCHANGED <<session, connector, statusWrites>>
    BY <1>2 DEF WriteIntent, CreateIntent, ReserveMoney, Capture, Release, TopUp, Rests, rows, faults
  <2>2. QED
    BY <2>1 DEF SharingInv, Has
<1>3. CASE \E c \in Connectors, status \in ConnectorStatus : WriteConnector(c, status)
  <2>1. UNCHANGED session /\ statusWrites' # 0
    BY <1>3 DEF WriteConnector, SettlementInv, RowsTyped
  <2>2. QED
    BY <2>1 DEF SharingInv, Has
<1>4. QED
  BY <1>1, <1>2, <1>3, StepKinds, CreateShares

\* A connector never has two active sessions, whoever writes its status; and
\* while only sessions write it, it is available if it has none, and reserved
\* or occupied only if it has one.
THEOREM ConnectorsAreShared == Spec => []ConnectorIsShared
<1>1. Init => SharingInv
  BY DEF Init, SharingInv, Has, NoSession, Working, Underway
<1>2. SettlementInv /\ SharingInv /\ [Next]_vars => SharingInv'
  BY SharingNext
<1>3. SettlementInv /\ SharingInv => ConnectorIsShared
  <2> SUFFICES ASSUME SettlementInv, SharingInv, NEW c \in Connectors
               PROVE  LET here == {s \in Sessions : ActiveSession(s) /\ session[s].connector = c}
                      IN /\ Cardinality(here) <= 1
                         /\ statusWrites = 0 =>
                              /\ connector[c] = "AVAILABLE" => here = {}
                              /\ connector[c] \in {"RESERVED", "OCCUPIED"} => here # {}
    BY DEF ConnectorIsShared
  <2> DEFINE here == {s \in Sessions : ActiveSession(s) /\ session[s].connector = c}
  <2>1. here = {s \in Sessions : Has(c, s)}
    BY ActiveIs DEF Has
  <2>2. here = {} \/ \E s \in Sessions : here = {s}
    BY <2>1 DEF SharingInv
  <2>3. Cardinality(here) <= 1
    <3>1. CASE here = {}
      BY <3>1, FS_EmptySet
    <3>2. ASSUME NEW s \in Sessions, here = {s}
          PROVE  Cardinality(here) <= 1
      <4>1. Cardinality({s}) = 1
        BY FS_Singleton
      <4> HIDE DEF here
      <4>2. QED
        BY <3>2, <4>1
    <3>3. QED
      BY <2>2, <3>1, <3>2
  <2>4. statusWrites = 0 =>
          /\ connector[c] = "AVAILABLE" => here = {}
          /\ connector[c] \in {"RESERVED", "OCCUPIED"} => here # {}
    BY <2>1 DEF SharingInv
  <2>5. QED
    BY <2>3, <2>4
<1>4. QED
  BY <1>1, <1>2, <1>3, SettlementInvariant, PTL DEF Spec
===============================================================================
