---------------------------- MODULE ClientsProofs ----------------------------
(***************************************************************************)
(* The clients of the backend: the tokens of drivers and operators, the    *)
(* session that the app keeps, and the charge that it starts.              *)
(***************************************************************************)
EXTENDS MCClients, TLAPS

\* The clients side by side: the one of the behaviour takes its own steps.
LEMMA TakesSteps ==
  ASSUME [Next]_vars
  PROVE  /\ focus' = focus
         /\ focus = "driver" => Driver!DriverNext \/ UNCHANGED Driver!driverVars
         /\ focus = "admin" => Admin!AdminNext \/ UNCHANGED Admin!adminVars
         /\ focus = "start" => [Start!Next]_(Start!vars)
         /\ focus = "location" => [Location!Next]_(Location!vars)
         /\ focus = "wallet" => [Wallet!Next]_(Wallet!vars)
<1>1. focus' = focus
  BY DEF Next, RestOfDriver, RestOfAdmin, RestOfStart, RestOfWatch, RestOfLocation, RestOfWallet,
     vars
<1>2. focus = "driver" => Driver!DriverNext \/ UNCHANGED Driver!driverVars
  BY DEF Next, vars, tokens, app, Driver!driverVars, Driver!server, Driver!app
<1>3. focus = "admin" => Admin!AdminNext \/ UNCHANGED Admin!adminVars
  BY DEF Next, vars, tokens, app, Admin!adminVars, Admin!server, Admin!console
<1>4. focus = "start" => [Start!Next]_(Start!vars)
  BY DEF Next, vars, starts, Start!vars, Start!server, Start!app
<1>5. focus = "location" => [Location!Next]_(Location!vars)
  BY DEF Next, vars, places, Location!vars
<1>6. focus = "wallet" => [Wallet!Next]_(Wallet!vars)
  BY DEF Next, vars, wallets, Wallet!vars
<1> QED BY <1>1, <1>2, <1>3, <1>4, <1>5, <1>6

-----------------------------------------------------------------------------
(***************************************************************************)
(* A visit to the preparing screen creates one session, for any numbers of *)
(* visits, launches and starts in flight.                                  *)
(*                                                                         *)
(* The argument: a session has the key of the start that created it, which *)
(* is the number of its visit, and the key is unique; what the cache knows *)
(* by a key, and what a start goes on with, is the session of that key.    *)
(***************************************************************************)

Visited == [launch : Nat, key : Nat]
Charge == [visit : Visited, key : Nat, status : {"AUTHORIZED", "STARTING", "CHARGING", "COMPLETED", "FAILED"},
           started : BOOLEAN]
Starting == [op : {"idle", "create", "creating", "begin", "starting", "answer", "error"},
             visit : Visited, key : Nat, id : Nat, waited : BOOLEAN]

\* The start at p: it creates under a key of the cache, and goes on with the session of its key.
StartOf(p) ==
  /\ starting[p].key = starting[p].visit.key
  /\ starting[p].op \in {"create", "creating"} => starting[p].key \in 1 .. MaxVisits
  /\ starting[p].op \in {"begin", "starting", "answer"} => starting[p].id # Start!None
  /\ starting[p].id # Start!None =>
       starting[p].id \in Start!Sessions /\ session[starting[p].id].key = starting[p].key

OwnKeys ==
  /\ session \in Seq(Charge)
  /\ \A s \in Start!Sessions : session[s].key = session[s].visit.key
  /\ \A s, t \in Start!Sessions : session[s].key = session[t].key => s = t

Cached ==
  /\ created \in [1 .. MaxVisits -> Nat]
  /\ \A k \in 1 .. MaxVisits : created[k] # Start!None =>
       created[k] \in Start!Sessions /\ session[created[k]].key = k

OnScreen ==
  /\ visit \in Visited
  /\ visit.key \in 0 .. MaxVisits
  /\ screen = "preparing" => visit.key \in 1 .. MaxVisits

StartInv ==
  /\ OwnKeys /\ Cached /\ OnScreen
  /\ starting \in [Slots -> Starting]
  /\ \A p \in Slots : StartOf(p)

LEMMA OneSession == StartInv => Start!OneSessionPerVisit
<1> SUFFICES ASSUME StartInv PROVE Start!OneSessionPerVisit
  OBVIOUS
<1>1. \A s, t \in Start!Sessions : session[s].visit = session[t].visit => s = t
  BY DEF StartInv, OwnKeys
<1>2. ASSUME NEW p \in Slots, starting[p].id # Start!None
      PROVE \/ session[starting[p].id].visit = starting[p].visit
            \/ session[starting[p].id].visit.launch # starting[p].visit.launch
  <2>1. PICK s \in Start!Sessions : s = starting[p].id /\ session[s].key = starting[p].visit.key
    BY <1>2 DEF StartInv, StartOf
  <2>2. session[s].visit \in Visited /\ session[s].visit.key = starting[p].visit.key
    <3>1. session[s] \in Charge
      BY <2>1 DEF StartInv, OwnKeys, Start!Sessions
    <3> QED BY <2>1, <3>1 DEF StartInv, OwnKeys, Charge
  <2>3. starting[p].visit \in Visited
    BY DEF StartInv, Starting
  <2> QED BY <2>1, <2>2, <2>3 DEF Visited
<1> QED BY <1>1, <1>2 DEF Start!OneSessionPerVisit

LEMMA StartInit ==
  ASSUME Start!Init PROVE StartInv
<1>1. Start!NoStart \in Starting
  BY DEF Start!NoStart, Start!None, Starting, Visited
<1>2. starting \in [Slots -> Starting] /\ \A p \in Slots : starting[p] = Start!NoStart
  BY <1>1 DEF Start!Init
<1>3. \A p \in Slots : StartOf(p)
  BY <1>2 DEF StartOf, Start!NoStart, Start!None
<1>4. OwnKeys /\ Cached /\ OnScreen
  BY StartBounds DEF Start!Init, OwnKeys, Cached, OnScreen, Visited, Start!Sessions, Start!None
<1> QED BY <1>2, <1>3, <1>4 DEF StartInv

\* Sessions keep their keys and their visits.
KeysStay ==
  /\ session' \in Seq(Charge) /\ Len(session) <= Len(session')
  /\ \A s \in Start!Sessions : session'[s].key = session[s].key /\ session'[s].visit = session[s].visit

\* A session that changes in what is not its key.
LEMMA SessionMoves ==
  ASSUME session \in Seq(Charge), NEW s \in Start!Sessions, NEW next \in Charge,
         next.key = session[s].key, next.visit = session[s].visit, session' = [session EXCEPT ![s] = next]
  PROVE  KeysStay /\ Len(session') = Len(session)
<1>1. Start!Sessions = 1 .. Len(session) /\ Len(session) \in Nat
  BY DEF Start!Sessions
<1>2. session' \in Seq(Charge) /\ Len(session') = Len(session)
  BY <1>1
<1>3. \A t \in Start!Sessions : session'[t] = IF t = s THEN next ELSE session[t]
  BY <1>1
<1> QED BY <1>1, <1>2, <1>3 DEF KeysStay

LEMMA StartFrame ==
  ASSUME KeysStay, session \in Seq(Charge)
  PROVE  /\ OwnKeys /\ Len(session') = Len(session) => OwnKeys'
         /\ Cached /\ UNCHANGED created => Cached'
         /\ \A p \in Slots : StartOf(p) /\ starting'[p] = starting[p] => StartOf(p)'
<1>1. Start!Sessions = 1 .. Len(session) /\ Start!Sessions' = 1 .. Len(session')
  BY DEF KeysStay, Start!Sessions
<1>2. Len(session) \in Nat /\ Len(session') \in Nat /\ Start!Sessions \subseteq Start!Sessions'
  BY <1>1 DEF KeysStay
<1>3. OwnKeys /\ Len(session') = Len(session) => OwnKeys'
  BY <1>1 DEF KeysStay, OwnKeys
<1>4. Cached /\ UNCHANGED created => Cached'
  BY <1>2 DEF KeysStay, Cached, Start!None
<1>5. ASSUME NEW p \in Slots, StartOf(p), starting'[p] = starting[p]
      PROVE StartOf(p)'
  BY <1>2, <1>5 DEF KeysStay, StartOf, Start!None
<1> QED BY <1>3, <1>4, <1>5

\* The start at p goes on as next, of the session that it had.
LEMMA GoesOn ==
  ASSUME starting \in [Slots -> Starting], NEW p \in Slots, NEW next \in Starting,
         starting' = [starting EXCEPT ![p] = next]
  PROVE  /\ starting' \in [Slots -> Starting] /\ starting'[p] = next
         /\ \A q \in Slots : q # p => starting'[q] = starting[q]
OBVIOUS

\* A start that another part of the app drops or answers: what it creates is as before.
LEMMA StartMoves ==
  ASSUME StartInv, NEW p \in Slots, NEW next \in Starting, starting' = [starting EXCEPT ![p] = next],
         KeysStay, Len(session') = Len(session), UNCHANGED created, OnScreen',
         next.key = starting[p].key, next.visit = starting[p].visit, next.id = starting[p].id,
         next.op \in {"create", "creating"} => starting[p].op \in {"create", "creating"},
         next.op \in {"begin", "starting", "answer"} => starting[p].op \in {"begin", "starting", "answer"}
  PROVE  StartInv'
<1>1. /\ starting' \in [Slots -> Starting] /\ starting'[p] = next
      /\ \A q \in Slots : q # p => starting'[q] = starting[q]
  BY GoesOn DEF StartInv
<1>2. OwnKeys' /\ Cached'
  BY StartFrame DEF StartInv, OwnKeys
<1>3. \A q \in Slots : q # p => StartOf(q)'
  BY <1>1, StartFrame DEF StartInv, OwnKeys
<1>4. Start!Sessions = 1 .. Len(session) /\ Start!Sessions' = 1 .. Len(session)
  BY DEF StartInv, OwnKeys, KeysStay, Start!Sessions
<1>5. StartOf(p)'
  BY <1>1, <1>4 DEF StartInv, StartOf, KeysStay, Start!None
<1> QED BY <1>1, <1>2, <1>3, <1>5 DEF StartInv

LEMMA StartNext ==
  ASSUME StartInv, [Start!Next]_(Start!vars)
  PROVE  StartInv'
<1> USE DEF Start!app, Start!server
<1>1. UNCHANGED session => KeysStay
  BY DEF KeysStay, StartInv, OwnKeys
<1>2. UNCHANGED <<session, created, starting>> /\ OnScreen' => StartInv'
  <2> SUFFICES ASSUME UNCHANGED <<session, created, starting>>, OnScreen' PROVE StartInv'
    OBVIOUS
  <2>1. OwnKeys' /\ Cached' /\ \A p \in Slots : StartOf(p)'
    BY <1>1, StartFrame DEF StartInv, OwnKeys
  <2> QED BY <2>1 DEF StartInv
<1>3. CASE UNCHANGED Start!vars
  BY <1>2, <1>3 DEF Start!vars, StartInv, OnScreen
<1>4. CASE Start!Prepare
  BY <1>2, <1>4, StartBounds DEF Start!Prepare, StartInv, OnScreen, Visited
<1>5. CASE Start!Leave
  BY <1>2, <1>5 DEF Start!Leave, StartInv, OnScreen
<1>6. CASE Start!Kill
  <2>1. OwnKeys' /\ Cached'
    BY <1>1, <1>6, StartFrame DEF Start!Kill, StartInv, OwnKeys
  <2>2. OnScreen'
    BY <1>6, StartBounds DEF Start!Kill, StartInv, OnScreen, Visited
  <2>3. starting' \in [Slots -> Starting]
    BY <1>6 DEF Start!Kill, StartInv, Starting
  <2>4. ASSUME NEW p \in Slots PROVE StartOf(p)'
    <3>1. /\ starting'[p].op = starting[p].op /\ starting'[p].key = starting[p].key
          /\ starting'[p].id = starting[p].id /\ starting'[p].visit = starting[p].visit
      BY <1>6 DEF Start!Kill, StartInv, Starting
    <3> QED BY <1>6, <3>1 DEF Start!Kill, StartInv, StartOf, Start!Sessions
  <2> QED BY <2>1, <2>2, <2>3, <2>4 DEF StartInv
<1>7. ASSUME NEW s \in Start!Sessions, Start!SessionEnds(s) PROVE StartInv'
  <2>1. KeysStay /\ Len(session') = Len(session)
    <3>1. session \in Seq(Charge) /\ session[s] \in Charge
      BY DEF StartInv, OwnKeys, Start!Sessions
    <3>2. PICK next \in Charge : next = [session[s] EXCEPT !.status = "COMPLETED"]
      BY <3>1 DEF Charge
    <3>3. next.key = session[s].key /\ next.visit = session[s].visit
      BY <3>1, <3>2 DEF Charge
    <3>4. session' = [session EXCEPT ![s] = next]
      BY <1>7, <3>2 DEF Start!SessionEnds
    <3> QED BY <3>1, <3>3, <3>4, SessionMoves
  <2>2. OwnKeys' /\ Cached' /\ \A p \in Slots : StartOf(p)'
    BY <1>7, <2>1, StartFrame DEF Start!SessionEnds, StartInv, OwnKeys
  <2> QED BY <1>7, <2>2 DEF Start!SessionEnds, StartInv, OnScreen
<1>8. ASSUME NEW p \in Slots,
             \/ Start!Confirm(p) \/ Start!TimesOut(p) \/ Start!Started(p) \/ Start!NotStarted(p) \/ Start!StartLost(p)
             \/ Start!Create(p) \/ Start!CreateEnds(p) \/ Start!Begin(p) \/ Start!StartEnds(p)
      PROVE StartInv'
  <2> DEFINE old == starting[p]
  <2>0. old \in Starting /\ StartOf(p) /\ starting \in [Slots -> Starting]
    BY DEF StartInv
  <2>9. Start!NoStart \in Starting
    BY DEF Start!NoStart, Start!None, Starting, Visited
  <2>1. CASE Start!Confirm(p)
    <3>1. PICK next \in Starting : next = [op |-> "create", visit |-> visit, key |-> visit.key, id |-> 0, waited |-> TRUE]
      BY DEF StartInv, OnScreen, Visited, Starting
    <3>2. starting' = [starting EXCEPT ![p] = next]
      BY <2>1, <3>1 DEF Start!Confirm, Start!OwnKey, Start!None
    <3>3. starting' \in [Slots -> Starting] /\ starting'[p] = next /\ \A q \in Slots : q # p => starting'[q] = starting[q]
      BY <2>0, <3>2, GoesOn
    <3>4. OwnKeys' /\ Cached' /\ \A q \in Slots : q # p => StartOf(q)'
      BY <1>1, <2>1, <3>3, StartFrame DEF Start!Confirm, StartInv, OwnKeys
    <3>5. StartOf(p)'
      BY <2>1, <3>1, <3>3 DEF Start!Confirm, StartInv, OnScreen, StartOf, Start!None
    <3> QED BY <2>1, <3>3, <3>4, <3>5 DEF Start!Confirm, StartInv, OnScreen
  <2>2. CASE Start!TimesOut(p)
    <3>1. PICK next \in Starting : next = [starting[p] EXCEPT !.waited = FALSE]
      BY <2>0 DEF Starting
    <3>2. starting' = [starting EXCEPT ![p] = next]
      BY <2>2, <3>1 DEF Start!TimesOut
    <3>3. next.op = old.op /\ next.key = old.key /\ next.visit = old.visit /\ next.id = old.id
      BY <2>0, <3>1 DEF Starting
    <3> HIDE DEF old
    <3> QED BY <1>1, <2>2, <3>2, <3>3, StartMoves DEF Start!TimesOut, StartInv, OnScreen, old
  <2>3. CASE Start!Started(p) \/ Start!NotStarted(p)
    <3>1. starting' = [starting EXCEPT ![p] = Start!NoStart] /\ UNCHANGED <<session, created, visit>>
      BY <2>3 DEF Start!Started, Start!NotStarted
    <3>2. starting' \in [Slots -> Starting] /\ starting'[p] = Start!NoStart /\ \A q \in Slots : q # p => starting'[q] = starting[q]
      BY <2>0, <2>9, <3>1, GoesOn
    <3>3. OwnKeys' /\ Cached' /\ \A q \in Slots : q # p => StartOf(q)'
      BY <1>1, <3>1, <3>2, StartFrame DEF StartInv, OwnKeys
    <3>4. StartOf(p)'
      BY <3>2 DEF StartOf, Start!NoStart, Start!None
    <3>5. OnScreen'
      BY <2>3 DEF Start!Started, Start!NotStarted, StartInv, OnScreen
    <3> QED BY <3>2, <3>3, <3>4, <3>5 DEF StartInv
  <2>4. CASE Start!StartLost(p)
    <3>1. PICK next \in Starting : next = [starting[p] EXCEPT !.op = "error"]
      BY <2>0 DEF Starting
    <3>2. starting' = [starting EXCEPT ![p] = next]
      BY <2>4, <3>1 DEF Start!StartLost, Start!Goto
    <3>3. next.op = "error" /\ next.key = starting[p].key /\ next.visit = starting[p].visit /\ next.id = starting[p].id
      BY <2>0, <3>1 DEF Starting
    <3> QED BY <1>1, <2>4, <3>2, <3>3, StartMoves DEF Start!StartLost, StartInv, OnScreen
  <2>5. CASE Start!Create(p)
    <3>0. old.key \in 1 .. MaxVisits /\ created[old.key] \in Nat
      BY <2>0, <2>5 DEF Start!Create, Start!Op, StartOf, StartInv, Cached
    <3>1. PICK op \in {"begin", "error", "creating"} :
             /\ starting' = [starting EXCEPT ![p].id = created[old.key], ![p].op = op]
             /\ op = "begin" <=> created[old.key] # Start!None
      BY <2>5 DEF Start!Create, Start!Key
    <3>2. PICK first \in Starting : first = [starting[p] EXCEPT !.id = created[old.key]]
      BY <2>0, <3>0 DEF Starting
    <3>3. PICK next \in Starting : next = [first EXCEPT !.op = op]
      BY DEF Starting
    <3>4. starting' = [starting EXCEPT ![p] = next]
      BY <2>0, <3>1, <3>2, <3>3 DEF Starting
    <3>5. next.op = op /\ next.key = old.key /\ next.visit = old.visit /\ next.id = created[old.key]
      BY <2>0, <3>2, <3>3 DEF Starting
    <3>6. starting' \in [Slots -> Starting] /\ starting'[p] = next /\ \A q \in Slots : q # p => starting'[q] = starting[q]
      BY <2>0, <3>4, GoesOn
    <3>7. OwnKeys' /\ Cached' /\ \A q \in Slots : q # p => StartOf(q)'
      BY <1>1, <2>5, <3>6, StartFrame DEF Start!Create, StartInv, OwnKeys
    <3>8. StartOf(p)'
      <4>1. /\ starting'[p].op = op /\ starting'[p].key = old.key /\ starting'[p].visit = old.visit
            /\ starting'[p].id = created[old.key] /\ session' = session
        BY <2>5, <3>5, <3>6 DEF Start!Create
      <4>2. old.key = old.visit.key
        BY <2>0 DEF StartOf
      <4>3. created[old.key] # Start!None =>
              created[old.key] \in Start!Sessions /\ session[created[old.key]].key = old.key
        BY <3>0 DEF StartInv, Cached
      <4>4. Start!Sessions' = Start!Sessions
        BY <4>1 DEF Start!Sessions
      <4> QED BY <3>0, <3>1, <4>1, <4>2, <4>3, <4>4 DEF StartOf
    <3>9. OnScreen'
      BY <2>5 DEF Start!Create, StartInv, OnScreen
    <3> QED BY <3>6, <3>7, <3>8, <3>9 DEF StartInv
  <2>6. CASE Start!CreateEnds(p)
    <3>0. old.op = "creating" /\ old.key \in 1 .. MaxVisits /\ old.visit \in Visited /\ old.key = old.visit.key
      BY <2>0, <2>6 DEF Start!CreateEnds, Start!Op, StartOf, Starting
    <3>1. PICK failed \in Starting : failed = [starting[p] EXCEPT !.op = "error"]
      BY <2>0 DEF Starting
    <3>2. failed.op = "error" /\ failed.key = starting[p].key /\ failed.visit = starting[p].visit /\ failed.id = starting[p].id
      BY <2>0, <3>1 DEF Starting
    <3>3. CASE UNCHANGED session
      <4>1. starting' = [starting EXCEPT ![p] = failed] /\ UNCHANGED <<created, screen, visit>>
        BY <2>6, <3>1, <3>3 DEF Start!CreateEnds, Start!Goto, StartInv, OwnKeys
      <4> QED BY <1>1, <3>2, <3>3, <4>1, StartMoves DEF StartInv, OnScreen
    <3>4. ASSUME NEW status \in {"AUTHORIZED", "FAILED"}, session' = Append(session, Start!NewSession(p, status)),
                 \A s \in Start!Sessions : session[s].key # old.key
          PROVE /\ KeysStay /\ OwnKeys' /\ Len(session') = Len(session) + 1
                /\ session'[Len(session) + 1].key = old.key /\ Len(session) \in Nat
      <4>1. PICK new \in Charge : new = Start!NewSession(p, status)
        BY <3>0, <2>0 DEF Start!NewSession, Start!Key, Charge, Starting
      <4>2. new.key = old.key /\ new.visit = old.visit
        BY <4>1 DEF Start!NewSession, Start!Key
      <4>3. /\ session' \in Seq(Charge) /\ Len(session') = Len(session) + 1 /\ Len(session) \in Nat
            /\ session'[Len(session) + 1] = new /\ \A s \in 1 .. Len(session) : session'[s] = session[s]
        BY <3>4, <4>1 DEF StartInv, OwnKeys
      <4>4. Start!Sessions = 1 .. Len(session) /\ Start!Sessions' = 1 .. (Len(session) + 1)
        BY <4>3 DEF StartInv, OwnKeys, Start!Sessions
      <4>5. KeysStay
        BY <4>3, <4>4 DEF KeysStay
      <4>6. OwnKeys'
        <5> HIDE DEF old
        <5>1. \A s \in Start!Sessions' : s = Len(session) + 1 \/ s \in Start!Sessions
          BY <4>3, <4>4
        <5> QED BY <3>0, <3>4, <4>2, <4>3, <4>4, <5>1 DEF StartInv, OwnKeys
      <4> QED BY <4>2, <4>3, <4>5, <4>6
    <3>5. CASE /\ session' = Append(session, Start!NewSession(p, "FAILED")) /\ UNCHANGED created
               /\ \A s \in Start!Sessions : session[s].key # old.key
               /\ starting' = [starting EXCEPT ![p] = failed]
      <4>1. KeysStay /\ OwnKeys'
        BY <3>4, <3>5
      <4>2. /\ starting' \in [Slots -> Starting] /\ starting'[p] = failed
            /\ \A q \in Slots : q # p => starting'[q] = starting[q]
        BY <2>0, <3>5, GoesOn
      <4>3. Cached' /\ \A q \in Slots : q # p => StartOf(q)'
        BY <3>5, <4>1, <4>2, StartFrame DEF StartInv, OwnKeys
      <4>4. StartOf(p)'
        <5>1. Start!Sessions \subseteq Start!Sessions'
          BY <4>1 DEF KeysStay, StartInv, OwnKeys, Start!Sessions
        <5> QED BY <2>0, <3>2, <4>1, <4>2, <5>1 DEF StartOf, KeysStay
      <4> QED BY <2>6, <4>1, <4>2, <4>3, <4>4 DEF Start!CreateEnds, StartInv, OnScreen
    <3>6. CASE /\ session' = Append(session, Start!NewSession(p, "AUTHORIZED"))
               /\ \A s \in Start!Sessions : session[s].key # old.key
               /\ created' = [created EXCEPT ![old.key] = Len(session')]
               /\ starting' = [starting EXCEPT ![p].op = "begin", ![p].id = Len(session')]
      <4>1. /\ KeysStay /\ OwnKeys' /\ Len(session') = Len(session) + 1
            /\ session'[Len(session')].key = old.key /\ Len(session') \in Nat \ {0}
        BY <3>4, <3>6
      <4>2. PICK n \in Nat \ {0} : n = Len(session') /\ session'[n].key = old.key
        BY <4>1
      <4>3. PICK first \in Starting : first = [starting[p] EXCEPT !.op = "begin"]
        BY <2>0 DEF Starting
      <4>4. PICK next \in Starting : next = [first EXCEPT !.id = n]
        BY DEF Starting
      <4>5. starting' = [starting EXCEPT ![p] = next]
        BY <2>0, <3>6, <4>2, <4>3, <4>4 DEF Starting
      <4>6. next.op = "begin" /\ next.key = old.key /\ next.visit = old.visit /\ next.id = n
        BY <2>0, <4>3, <4>4 DEF Starting
      <4>7. /\ starting' \in [Slots -> Starting] /\ starting'[p] = next
            /\ \A q \in Slots : q # p => starting'[q] = starting[q]
        BY <2>0, <4>5, GoesOn
      <4>8. \A q \in Slots : q # p => StartOf(q)'
        BY <4>1, <4>7, StartFrame DEF StartInv, OwnKeys
      <4>9. n \in Start!Sessions' /\ Start!Sessions \subseteq Start!Sessions'
        BY <4>1, <4>2 DEF KeysStay, StartInv, OwnKeys, Start!Sessions
      <4>10. StartOf(p)'
        BY <3>0, <4>2, <4>6, <4>7, <4>9 DEF StartOf, Start!None
      <4>11. Cached'
        <5>1. /\ created' \in [1 .. MaxVisits -> Nat] /\ created'[old.key] = n
              /\ \A k \in 1 .. MaxVisits : k # old.key => created'[k] = created[k]
          BY <3>0, <3>6, <4>2 DEF StartInv, Cached
        <5>2. \A k \in 1 .. MaxVisits : k # old.key /\ created'[k] # Start!None =>
                created'[k] \in Start!Sessions' /\ session'[created'[k]].key = k
          BY <4>1, <4>9, <5>1 DEF StartInv, Cached, KeysStay
        <5> HIDE DEF old
        <5> QED BY <4>2, <4>9, <5>1, <5>2 DEF Cached
      <4>12. OnScreen' /\ session' \in Seq(Charge)
        BY <2>6, <4>1 DEF Start!CreateEnds, StartInv, OnScreen, KeysStay
      <4> QED BY <4>1, <4>7, <4>8, <4>10, <4>11, <4>12 DEF StartInv
    <3> QED BY <2>6, <3>1, <3>3, <3>5, <3>6 DEF Start!CreateEnds, Start!Goto, Start!Key, StartInv,
               OwnKeys
  <2>7. ASSUME NEW to \in {"starting", "answer", "error"}, Start!Op(p) \in {"begin", "starting"}, Start!Goto(p, to),
               KeysStay, Len(session') = Len(session), UNCHANGED <<created, screen, visit>>
        PROVE StartInv'
    <3>1. PICK next \in Starting : next = [starting[p] EXCEPT !.op = to]
      BY <2>0 DEF Starting
    <3>2. starting' = [starting EXCEPT ![p] = next]
      BY <2>7, <3>1 DEF Start!Goto
    <3>3. next.op = to /\ next.key = starting[p].key /\ next.visit = starting[p].visit /\ next.id = starting[p].id
      BY <2>0, <3>1 DEF Starting
    <3> QED BY <2>7, <3>2, <3>3, StartMoves DEF StartInv, OnScreen, Start!Op
  <2>8. CASE Start!Begin(p) \/ Start!StartEnds(p)
    <3>1. old.op \in {"begin", "starting"} /\ UNCHANGED <<created, screen, visit>>
      BY <2>8 DEF Start!Begin, Start!StartEnds, Start!Op
    <3>2. PICK s \in Start!Sessions : s = old.id
      BY <2>0, <3>1 DEF StartOf
    <3>3. PICK status \in {"STARTING", "CHARGING", "FAILED"}, to \in {"starting", "answer", "error"} :
            /\ Start!Goto(p, to)
            /\ \/ UNCHANGED session
               \/ session' = [session EXCEPT ![s].status = status]
               \/ session' = [session EXCEPT ![s].status = status, ![s].started = TRUE]
      BY <2>8, <3>2 DEF Start!Begin, Start!StartEnds
    <3>4. KeysStay /\ Len(session') = Len(session)
      <4>1. session \in Seq(Charge) /\ session[s] \in Charge
        BY DEF StartInv, OwnKeys, Start!Sessions
      <4>2. PICK first \in Charge : first = [session[s] EXCEPT !.status = status]
        BY <4>1 DEF Charge
      <4>3. PICK both \in Charge : both = [first EXCEPT !.started = TRUE]
        BY DEF Charge
      <4>4. /\ first.key = session[s].key /\ first.visit = session[s].visit
            /\ both.key = session[s].key /\ both.visit = session[s].visit
        BY <4>1, <4>2, <4>3 DEF Charge
      <4>5. CASE UNCHANGED session
        BY <1>1, <4>5
      <4>6. CASE session' = [session EXCEPT ![s].status = status]
        BY <4>1, <4>2, <4>4, <4>6, SessionMoves
      <4>7. CASE session' = [session EXCEPT ![s].status = status, ![s].started = TRUE]
        <5>1. session' = [session EXCEPT ![s] = both]
          BY <3>2, <4>1, <4>2, <4>3, <4>7 DEF Start!Sessions, Charge
        <5> QED BY <4>1, <4>4, <5>1, SessionMoves
      <4> QED BY <3>3, <4>5, <4>6, <4>7
    <3> QED BY <2>7, <3>1, <3>3, <3>4 DEF Start!Op
  <2> QED BY <1>8, <2>1, <2>2, <2>3, <2>4, <2>5, <2>6, <2>8
<1> QED BY <1>3, <1>4, <1>5, <1>6, <1>7, <1>8 DEF Start!Next

\* Alone, at every size: a visit creates one session.
THEOREM AloneOneSessionPerVisit == Start!Spec => []Start!OneSessionPerVisit
<1>1. Start!Init => StartInv
  BY StartInit
<1>2. StartInv /\ [Start!Next]_(Start!vars) => StartInv'
  BY StartNext
<1> QED BY <1>1, <1>2, OneSession, PTL DEF Start!Spec

\* Among the other clients.
THEOREM VisitCreatesOneSession == Spec => []OneSessionPerVisit
<1> DEFINE Inv == focus = "start" => StartInv
<1>1. Init => Inv
  BY StartInit DEF Init
<1>2. Inv /\ [Next]_vars => Inv'
  BY TakesSteps, StartNext
<1>3. Inv => OneSessionPerVisit
  BY OneSession DEF OneSessionPerVisit
<1> QED BY <1>1, <1>2, <1>3, PTL DEF Spec

-----------------------------------------------------------------------------
(***************************************************************************)
(* The refresh tokens of drivers and of operators: a family has at most    *)
(* one good token, and none again once it has none.                        *)
(*                                                                         *)
(* The argument: whatever a call does to the rows is one of three things:  *)
(* it revokes some, it begins a family with a token, or it replaces a good *)
(* token by the next of its family.  Each keeps both properties, whoever   *)
(* is calling and whatever was read before.                                *)
(***************************************************************************)

People == Drivers \cup {"nobody"}
Row == [family : Nat, user : Drivers, revoked : BOOLEAN]
Good(i) == ~token[i].revoked

RowsOK ==
  /\ token \in Seq(Row)
  /\ \A i \in 1 .. Len(token) : token[i].family \in 1 .. Len(token)
  /\ \A i, j \in 1 .. Len(token) : Good(i) /\ Good(j) /\ token[i].family = token[j].family => i = j

\* The rows there were keep their families and their users, and are not restored.
RowsStay ==
  /\ token' \in Seq(Row) /\ Len(token) <= Len(token')
  /\ \A i \in 1 .. Len(token) :
       /\ token'[i].family = token[i].family /\ token'[i].user = token[i].user
       /\ token[i].revoked => token'[i].revoked

Revokes == RowsStay /\ Len(token') = Len(token)

BeginsFamily(u) ==
  /\ RowsStay /\ Len(token') = Len(token) + 1
  /\ token'[Len(token) + 1] = [family |-> Len(token) + 1, user |-> u, revoked |-> FALSE]

Replaces(i) ==
  /\ RowsStay /\ Len(token') = Len(token) + 1
  /\ i \in 1 .. Len(token) /\ Good(i) /\ token'[i].revoked
  /\ token'[Len(token) + 1] = [family |-> token[i].family, user |-> token[i].user, revoked |-> FALSE]

TokenStep == Revokes \/ (\E u \in Drivers : BeginsFamily(u)) \/ \E i \in 1 .. Len(token) : Replaces(i)

Dead(f) == (\E i \in 1 .. Len(token) : token[i].family = f) /\ \A i \in 1 .. Len(token) : token[i].family = f => ~Good(i)

LEMMA RowsKeep ==
  ASSUME RowsOK, TokenStep
  PROVE  RowsOK' /\ \A f : Dead(f) => Dead(f)'
<1> DEFINE n == Len(token)
<1>0. n \in Nat /\ \A i \in 1 .. n : token[i] \in Row
  BY DEF RowsOK
<1>1. CASE Revokes
  BY <1>0, <1>1 DEF Revokes, RowsStay, RowsOK, Good, Dead
<1>2. ASSUME NEW i \in 1 .. n, Replaces(i) PROVE RowsOK' /\ \A f : Dead(f) => Dead(f)'
  <2>1. /\ n + 1 \in Nat /\ \A j \in 1 .. (n + 1) : j \in 1 .. n \/ j = n + 1
        /\ token'[n + 1].family = token[i].family
    BY <1>0, <1>2 DEF Replaces
  <2> HIDE DEF n
  <2>2. \A j \in 1 .. (n + 1) : token'[j].family \in 1 .. (n + 1)
    BY <1>0, <1>2, <2>1 DEF Replaces, RowsStay, RowsOK, n
  <2>3. \A j, k \in 1 .. (n + 1) : Good(j)' /\ Good(k)' /\ token'[j].family = token'[k].family => j = k
    <3>1. \A j \in 1 .. n : Good(j)' => Good(j) /\ j # i /\ token'[j].family = token[j].family
      BY <1>0, <1>2 DEF Replaces, RowsStay, Good, n
    <3>2. \A j, k \in 1 .. n : Good(j) /\ Good(k) /\ token[j].family = token[k].family => j = k
      BY DEF RowsOK, n
    <3>3. Good(i)
      BY <1>2 DEF Replaces
    <3> QED BY <2>1, <3>1, <3>2, <3>3
  <2>4. ASSUME NEW f, Dead(f) PROVE Dead(f)'
    <3>1. f # token[i].family
      BY <1>2, <2>4 DEF Dead, Replaces
    <3> QED BY <1>0, <1>2, <2>1, <2>4, <3>1 DEF Replaces, RowsStay, Good, Dead, n
  <2> QED BY <1>2, <2>2, <2>3, <2>4 DEF RowsOK, Replaces, RowsStay, n
<1>3. ASSUME NEW u \in Drivers, BeginsFamily(u) PROVE RowsOK' /\ \A f : Dead(f) => Dead(f)'
  <2>1. /\ n + 1 \in Nat /\ \A j \in 1 .. (n + 1) : j \in 1 .. n \/ j = n + 1
        /\ token'[n + 1].family = n + 1
    BY <1>0, <1>3 DEF BeginsFamily
  <2> HIDE DEF n
  <2>2. \A j \in 1 .. (n + 1) : token'[j].family \in 1 .. (n + 1)
    BY <1>0, <1>3, <2>1 DEF BeginsFamily, RowsStay, RowsOK, n
  <2>3. \A j, k \in 1 .. (n + 1) : Good(j)' /\ Good(k)' /\ token'[j].family = token'[k].family => j = k
    BY <1>0, <1>3, <2>1 DEF BeginsFamily, RowsStay, RowsOK, Good, n
  <2>4. ASSUME NEW f, Dead(f) PROVE Dead(f)'
    <3>1. f # n + 1
      BY <1>0, <1>3, <2>4 DEF Dead, RowsOK, n
    <3> QED BY <1>0, <1>3, <2>1, <2>4, <3>1 DEF BeginsFamily, RowsStay, Good, Dead, n
  <2> QED BY <1>3, <2>2, <2>3, <2>4 DEF RowsOK, BeginsFamily, RowsStay, n
<1> QED BY <1>1, <1>2, <1>3 DEF TokenStep

\* A statement that revokes the rows of a set.
LEMMA RevokesRows ==
  ASSUME token \in Seq(Row), NEW S,
         token' = [i \in DOMAIN token |-> IF i \in S THEN [token[i] EXCEPT !.revoked = TRUE] ELSE token[i]]
  PROVE  /\ Revokes
         /\ \A i \in 1 .. Len(token) : Good(i)' <=> Good(i) /\ i \notin S
<1>1. DOMAIN token = 1 .. Len(token) /\ Len(token) \in Nat /\ \A i \in 1 .. Len(token) : token[i] \in Row
  OBVIOUS
<1>2. ASSUME NEW i \in 1 .. Len(token)
      PROVE  /\ token'[i] \in Row /\ token'[i].family = token[i].family /\ token'[i].user = token[i].user
             /\ token'[i].revoked = (token[i].revoked \/ i \in S)
  <2>1. token'[i] = IF i \in S THEN [token[i] EXCEPT !.revoked = TRUE] ELSE token[i]
    BY <1>1
  <2> QED BY <1>1, <2>1 DEF Row
<1>3. token' \in [1 .. Len(token) -> Row]
  BY <1>1, <1>2
<1>4. token' \in Seq(Row) /\ Len(token') = Len(token)
  BY <1>1, <1>3
<1> QED BY <1>1, <1>2, <1>4 DEF Revokes, RowsStay, Good

LEMMA AppendsRow ==
  ASSUME token \in Seq(Row), NEW r \in Row, token' = Append(token, r)
  PROVE  /\ RowsStay /\ Len(token') = Len(token) + 1 /\ token'[Len(token) + 1] = r
         /\ \A i \in 1 .. Len(token) : token'[i] = token[i]
<1>1. /\ token' \in Seq(Row) /\ Len(token') = Len(token) + 1 /\ token'[Len(token) + 1] = r /\ Len(token) \in Nat
      /\ \A i \in 1 .. Len(token) : token'[i] = token[i]
  OBVIOUS
<1> QED BY <1>1 DEF RowsStay

LEMMA ReplacesRow ==
  ASSUME token \in Seq(Row), NEW i \in 1 .. Len(token), Good(i), token' = Driver!Replaced(i)
  PROVE  Replaces(i)
<1> DEFINE rest == [j \in DOMAIN token |-> IF j \in {i} THEN [token[j] EXCEPT !.revoked = TRUE] ELSE token[j]]
<1>3. DOMAIN token = 1 .. Len(token) /\ Len(token) \in Nat /\ \A j \in 1 .. Len(token) : token[j] \in Row
  OBVIOUS
<1>1. PICK r \in Row : r = [family |-> token[i].family, user |-> token[i].user, revoked |-> FALSE]
  BY <1>3 DEF Row
<1>2. token' = Append(rest, r)
  BY <1>1 DEF Driver!Replaced, Driver!Revoked, Driver!Tokens
<1>4. \A j \in 1 .. Len(token) : /\ rest[j] \in Row
                                 /\ rest[j].family = token[j].family /\ rest[j].user = token[j].user
                                 /\ rest[j].revoked = (token[j].revoked \/ j = i)
  BY <1>3 DEF Row
<1>5. rest \in Seq(Row) /\ Len(rest) = Len(token)
  <2>1. rest \in [1 .. Len(token) -> Row]
    BY <1>3, <1>4
  <2> QED BY <1>3, <2>1
<1> HIDE DEF rest
<1>6. /\ token' \in Seq(Row) /\ Len(token') = Len(token) + 1 /\ token'[Len(token) + 1] = r
      /\ \A j \in 1 .. Len(token) : token'[j] = rest[j]
  BY <1>2, <1>3, <1>5
<1>7. RowsStay
  <2>1. ASSUME NEW j \in 1 .. Len(token)
        PROVE  /\ token'[j].family = token[j].family /\ token'[j].user = token[j].user
               /\ token[j].revoked => token'[j].revoked
    BY <1>4, <1>6
  <2> QED BY <1>3, <1>6, <2>1 DEF RowsStay
<1>8. token'[i].revoked
  BY <1>4, <1>6
<1> QED BY <1>1, <1>6, <1>7, <1>8 DEF Replaces

-----------------------------------------------------------------------------
(* The calls *)

Call == [op : {"idle", "verify", "create", "find", "reuse", "rotate", "member", "revoke", "revokeAll", "answer",
               "refused"},
         user : People, raw : Nat, targets : SUBSET Nat]

\* A call that presents a token, or has one to answer, has one there is; a sign-in is of somebody.
CallOf(c) ==
  /\ call[c].raw \in 0 .. Len(token)
  /\ call[c].op \in {"find", "reuse", "rotate", "member", "answer"} => call[c].raw # 0
  /\ call[c].op \in {"verify", "create"} => call[c].user \in Drivers

ServerOK ==
  /\ RowsOK
  /\ call \in [Places -> Call]
  /\ \A c \in Places : CallOf(c)

\* The call at c goes on as next; the others are as they were.
LEMMA CallMoves ==
  ASSUME ServerOK, RowsOK', RowsStay, NEW c \in Places, NEW next \in Call, call' = [call EXCEPT ![c] = next],
         next.raw \in 0 .. Len(token'),
         next.op \in {"find", "reuse", "rotate", "member", "answer"} => next.raw # 0,
         next.op \in {"verify", "create"} => next.user \in Drivers
  PROVE  /\ ServerOK' /\ call'[c] = next
         /\ \A d \in Places : d # c => call'[d] = call[d]
<1>1. /\ call' \in [Places -> Call] /\ call'[c] = next
      /\ \A d \in Places : d # c => call'[d] = call[d]
  BY DEF ServerOK
<1>2. Len(token) \in Nat /\ Len(token') \in Nat /\ Len(token) <= Len(token')
  BY DEF RowsStay, ServerOK, RowsOK
<1>3. ASSUME NEW d \in Places PROVE CallOf(d)'
  <2>1. CASE d = c
    BY <1>1, <2>1 DEF CallOf
  <2>2. CASE d # c
    BY <1>1, <1>2, <2>2 DEF ServerOK, CallOf
  <2> QED BY <2>1, <2>2
<1> QED BY <1>1, <1>3 DEF ServerOK

LEMMA RowsRest ==
  ASSUME RowsOK, UNCHANGED token
  PROVE  Revokes /\ TokenStep /\ RowsStay /\ RowsOK'
<1>1. Revokes
  BY DEF Revokes, RowsStay, RowsOK
<1> QED BY <1>1, RowsKeep DEF TokenStep, Revokes

\* A call whose next statement is op.
LEMMA GoesTo ==
  ASSUME ServerOK, UNCHANGED token, NEW c \in Places,
         NEW op \in {"reuse", "rotate", "create", "answer", "refused"}, Driver!Goto(c, op),
         op \in {"reuse", "rotate", "answer"} => call[c].raw # 0, op = "create" => call[c].user \in Drivers
  PROVE  /\ ServerOK' /\ TokenStep
         /\ call'[c] = [call[c] EXCEPT !.op = op]
         /\ \A d \in Places : d # c => call'[d] = call[d]
<1>1. call[c] \in Call /\ CallOf(c)
  BY DEF ServerOK
<1>2. PICK next \in Call : next = [call[c] EXCEPT !.op = op]
  BY <1>1 DEF Call
<1>3. call' = [call EXCEPT ![c] = next] /\ next.raw = call[c].raw /\ next.op = op /\ next.user = call[c].user
  BY <1>1, <1>2 DEF Driver!Goto, Call
<1>4. RowsOK' /\ RowsStay /\ TokenStep
  BY RowsRest DEF ServerOK
<1> QED BY <1>1, <1>2, <1>3, <1>4, CallMoves DEF CallOf

\* A statement begins that revokes the good rows of a set.
LEMMA Sees ==
  ASSUME ServerOK, UNCHANGED token, NEW c \in Places, NEW rows \in SUBSET Driver!Tokens, Driver!See(c, rows)
  PROVE  /\ ServerOK' /\ TokenStep
         /\ call'[c].op = "revoke" /\ call'[c].targets = {i \in rows : Good(i)} /\ call'[c].raw = call[c].raw
         /\ call'[c].user = call[c].user
         /\ \A d \in Places : d # c => call'[d] = call[d]
<1>1. call[c] \in Call /\ CallOf(c)
  BY DEF ServerOK
<1>2. PICK S \in SUBSET Nat : S = {i \in rows : Good(i)}
  <2>1. DOMAIN token = 1 .. Len(token) /\ Len(token) \in Nat
    BY DEF ServerOK, RowsOK
  <2>2. {i \in rows : Good(i)} \subseteq Nat
    BY <2>1 DEF Driver!Tokens
  <2> QED BY <2>2
<1>3. PICK first \in Call : first = [call[c] EXCEPT !.op = "revoke"]
  BY <1>1 DEF Call
<1>4. PICK next \in Call : next = [first EXCEPT !.targets = S]
  BY DEF Call
<1>5. call' = [call EXCEPT ![c].op = "revoke", ![c].targets = S]
  BY <1>2 DEF Driver!See, Driver!Active, Good
<1>6. call' = [call EXCEPT ![c] = next]
  BY <1>1, <1>3, <1>4, <1>5 DEF ServerOK, Call
<1>7. next.op = "revoke" /\ next.targets = S /\ next.raw = call[c].raw /\ next.user = call[c].user
  BY <1>1, <1>3, <1>4 DEF Call
<1>8. RowsOK' /\ RowsStay /\ TokenStep
  BY RowsRest DEF ServerOK
<1>9. ServerOK' /\ call'[c] = next /\ \A d \in Places : d # c => call'[d] = call[d]
  BY <1>1, <1>6, <1>7, <1>8, CallMoves DEF CallOf
<1> QED BY <1>2, <1>7, <1>8, <1>9

\* A token is issued to the call at c.
LEMMA Issues ==
  ASSUME ServerOK, RowsOK', RowsStay, NEW c \in Places, Driver!Issued(c, Len(token) + 1), Len(token') = Len(token) + 1
  PROVE  /\ ServerOK' /\ call'[c].op = IF c \in Tabs THEN "member" ELSE "answer"
         /\ call'[c].raw = Len(token) + 1 /\ call'[c].user = call[c].user /\ call'[c].targets = call[c].targets
         /\ \A d \in Places : d # c => call'[d] = call[d]
<1>1. call[c] \in Call /\ CallOf(c)
  BY DEF ServerOK
<1>2. PICK op \in {"member", "answer"} : op = IF c \in Tabs THEN "member" ELSE "answer"
  OBVIOUS
<1>3. PICK n \in Nat \ {0} : n = Len(token) + 1
  BY DEF ServerOK, RowsOK
<1>4. PICK first \in Call : first = [call[c] EXCEPT !.op = op]
  BY <1>1 DEF Call
<1>5. PICK next \in Call : next = [first EXCEPT !.raw = n]
  BY DEF Call
<1>6. call' = [call EXCEPT ![c].op = op, ![c].raw = n]
  BY <1>2, <1>3 DEF Driver!Issued
<1>7. call' = [call EXCEPT ![c] = next]
  BY <1>1, <1>4, <1>5, <1>6 DEF ServerOK, Call
<1>8. next.op = op /\ next.raw = n /\ next.user = call[c].user /\ next.targets = call[c].targets
  BY <1>1, <1>4, <1>5 DEF Call
<1>9. ServerOK' /\ call'[c] = next /\ \A d \in Places : d # c => call'[d] = call[d]
  <2>1. next.raw \in 0 .. Len(token') /\ next.raw # 0
    BY <1>3, <1>8
  <2>2. next.op \notin {"verify", "create"}
    BY <1>8
  <2> QED BY <1>7, <2>1, <2>2, CallMoves
<1> QED BY <1>2, <1>3, <1>8, <1>9

\* What a step of the backend does to the rows, and to the call it is of.
LEMMA ServerKeeps ==
  ASSUME ServerOK, NEW c \in Places, Driver!ServerStep(c)
  PROVE  /\ ServerOK' /\ TokenStep
         /\ \A d \in Places : d # c => call'[d] = call[d]
<1> DEFINE own == call[c]
<1>0. own \in Call /\ CallOf(c) /\ RowsOK /\ token \in Seq(Row) /\ Len(token) \in Nat
  BY DEF ServerOK, RowsOK
<1>1. CASE Driver!Verify(c)
  <2>1. PICK op \in {"refused", "create"} : Driver!Goto(c, op)
    BY <1>1 DEF Driver!Verify
  <2>2. own.user \in Drivers
    BY <1>0, <1>1 DEF Driver!Verify, Driver!Op, CallOf
  <2> QED BY <1>1, <2>1, <2>2, GoesTo DEF Driver!Verify
<1>2. CASE Driver!CreateSession(c)
  <2>1. PICK r \in Row : r = [family |-> Len(token) + 1, user |-> own.user, revoked |-> FALSE]
    <3>1. own.user \in Drivers /\ Len(token) + 1 \in Nat
      BY <1>0, <1>2 DEF Driver!CreateSession, Driver!Op, CallOf
    <3> QED BY <3>1 DEF Row
  <2>2. token' = Append(token, r)
    BY <1>2, <2>1 DEF Driver!CreateSession, Driver!User
  <2>3. BeginsFamily(own.user) /\ own.user \in Drivers
    BY <1>0, <1>2, <2>1, <2>2, AppendsRow DEF BeginsFamily, Driver!CreateSession, Driver!Op, CallOf
  <2>4. TokenStep
    BY <2>3 DEF TokenStep
  <2>5. RowsOK' /\ RowsStay /\ Len(token') = Len(token) + 1
    BY <1>0, <2>3, <2>4, RowsKeep DEF BeginsFamily
  <2> QED BY <1>2, <2>4, <2>5, Issues DEF Driver!CreateSession
<1>3. CASE Driver!Find(c)
  <2>1. own.raw # 0
    BY <1>0, <1>3 DEF Driver!Find, Driver!Op, CallOf
  <2>2. PICK op \in {"reuse", "refused", "rotate"} : Driver!Goto(c, op)
    BY <1>3 DEF Driver!Find
  <2> QED BY <1>3, <2>1, <2>2, GoesTo DEF Driver!Find
<1>4. CASE Driver!DetectReuse(c)
  BY <1>4, Sees DEF Driver!DetectReuse, Driver!OfFamily
<1>5. CASE Driver!Rotate(c)
  <2>1. own.raw \in 1 .. Len(token)
    BY <1>0, <1>5 DEF Driver!Rotate, Driver!Op, CallOf
  <2>2. CASE ~Good(own.raw)
    BY <1>5, <2>2, GoesTo DEF Driver!Rotate, Driver!Active, Driver!Raw, Good
  <2>3. CASE Good(own.raw)
    <3>1. token' = Driver!Replaced(own.raw) /\ Driver!Issued(c, Len(token) + 1)
      BY <1>5, <2>3 DEF Driver!Rotate, Driver!Active, Driver!Raw, Good
    <3>2. Replaces(own.raw)
      BY <1>0, <2>1, <2>3, <3>1, ReplacesRow
    <3>3. TokenStep
      BY <2>1, <3>2 DEF TokenStep
    <3>4. RowsOK' /\ RowsStay /\ Len(token') = Len(token) + 1
      BY <1>0, <3>2, <3>3, RowsKeep DEF Replaces
    <3> QED BY <3>1, <3>3, <3>4, Issues
  <2> QED BY <2>2, <2>3
<1>6. CASE Driver!ToSession(c)
  <2>1. own.raw # 0
    BY <1>0, <1>6 DEF Driver!ToSession, Driver!Op, CallOf
  <2>2. CASE Driver!Goto(c, "answer")
    BY <1>6, <2>1, <2>2, GoesTo DEF Driver!ToSession
  <2>3. CASE Driver!See(c, Driver!OfUser(own.user))
    BY <1>6, <2>3, Sees DEF Driver!ToSession, Driver!OfUser
  <2> QED BY <1>6, <2>2, <2>3 DEF Driver!ToSession, Driver!User
<1>7. CASE Driver!Revoke(c)
  <2>1. token' = [i \in DOMAIN token |-> IF i \in own.targets THEN [token[i] EXCEPT !.revoked = TRUE] ELSE token[i]]
    BY <1>7 DEF Driver!Revoke, Driver!Revoked, Driver!Tokens
  <2>2. Revokes
    BY <1>0, <2>1, RevokesRows
  <2>3. TokenStep /\ RowsOK' /\ RowsStay
    BY <1>0, <2>2, RowsKeep DEF TokenStep, Revokes
  <2>4. PICK first \in Call : first = [call[c] EXCEPT !.op = "refused"]
    BY <1>0 DEF Call
  <2>5. PICK next \in Call : next = [first EXCEPT !.targets = {}]
    BY DEF Call
  <2>6. call' = [call EXCEPT ![c] = next]
    BY <1>0, <1>7, <2>4, <2>5 DEF Driver!Revoke, ServerOK, Call
  <2>7. next.op = "refused" /\ next.raw = own.raw
    BY <1>0, <2>4, <2>5 DEF Call
  <2>8. next.raw \in 0 .. Len(token')
    BY <1>0, <2>2, <2>7 DEF CallOf, Revokes
  <2> QED BY <2>3, <2>6, <2>7, <2>8, CallMoves
<1>8. CASE Driver!RevokeAll(c)
  BY <1>8, Sees DEF Driver!RevokeAll, Driver!OfUser
<1> QED BY <1>1, <1>2, <1>3, <1>4, <1>5, <1>6, <1>7, <1>8 DEF Driver!ServerStep

\* A call begins, or its place is free again.
CallAs(op, u, raw) == [op |-> op, user |-> u, raw |-> raw, targets |-> {}]

LEMMA CallBegins ==
  ASSUME ServerOK, UNCHANGED token, NEW c \in Places, NEW op \in {"idle", "verify", "find", "revokeAll"},
         NEW u \in People, NEW raw \in 0 .. Len(token), op = "find" => raw # 0, op = "verify" => u \in Drivers,
         call' = [call EXCEPT ![c] = CallAs(op, u, raw)]
  PROVE  /\ ServerOK' /\ TokenStep /\ call'[c] = CallAs(op, u, raw)
         /\ \A d \in Places : d # c => call'[d] = call[d]
<1>1. PICK next \in Call : next = CallAs(op, u, raw)
  <2>1. raw \in Nat
    BY DEF ServerOK, RowsOK
  <2> QED BY <2>1 DEF Call, CallAs
<1>2. next.op = op /\ next.raw = raw /\ next.user = u
  BY <1>1 DEF CallAs
<1>3. RowsOK' /\ RowsStay /\ TokenStep
  BY RowsRest DEF ServerOK
<1> QED BY <1>1, <1>2, <1>3, CallMoves

LEMMA CallsRest ==
  ASSUME ServerOK, UNCHANGED call, TokenStep
  PROVE  ServerOK'
<1>1. RowsOK' /\ RowsStay
  BY RowsKeep DEF ServerOK, TokenStep, Revokes, BeginsFamily, Replaces
<1>2. Len(token) \in Nat /\ Len(token') \in Nat /\ Len(token) <= Len(token')
  BY <1>1 DEF RowsStay, ServerOK, RowsOK
<1> QED BY <1>1, <1>2 DEF ServerOK, CallOf

\* The calls of the driver's app and of the administration, as CallAs.
LEMMA CallIdle == Driver!Idle = CallAs("idle", "nobody", 0) /\ Admin!Idle = CallAs("idle", "nobody", 0)
BY DEF Driver!Idle, Admin!Idle, CallAs, Driver!NoUser, Admin!NoUser

LEMMA CallForms ==
  ASSUME NEW op, NEW u
  PROVE  /\ [Driver!Idle EXCEPT !.op = op, !.user = u] = CallAs(op, u, 0)
         /\ [Admin!Idle EXCEPT !.op = op, !.user = u] = CallAs(op, u, 0)
<1>1. [CallAs(op, "nobody", 0) EXCEPT !.user = u] = CallAs(op, u, 0)
  BY DEF CallAs
<1>2. [Driver!Idle EXCEPT !.op = op, !.user = u] = CallAs(op, u, 0)
  <2>1. [Driver!Idle EXCEPT !.op = op] = CallAs(op, "nobody", 0)
    BY CallIdle DEF CallAs
  <2>2. [Driver!Idle EXCEPT !.op = op, !.user = u] = [[Driver!Idle EXCEPT !.op = op] EXCEPT !.user = u]
    BY Zenon
  <2> QED BY <1>1, <2>1, <2>2
<1>3. [Admin!Idle EXCEPT !.op = op, !.user = u] = CallAs(op, u, 0)
  <2>1. [Admin!Idle EXCEPT !.op = op] = CallAs(op, "nobody", 0)
    BY CallIdle DEF CallAs
  <2>2. [Admin!Idle EXCEPT !.op = op, !.user = u] = [[Admin!Idle EXCEPT !.op = op] EXCEPT !.user = u]
    BY Zenon
  <2> QED BY <1>1, <2>1, <2>2
<1> QED BY <1>2, <1>3

LEMMA DriverFinds ==
  ASSUME NEW op, NEW u, NEW i
  PROVE  [Driver!Idle EXCEPT !.op = op, !.user = u, !.raw = i] = CallAs(op, u, i)
<1>1. [Driver!Idle EXCEPT !.op = op] = CallAs(op, "nobody", 0)
  BY CallIdle DEF CallAs
<1>2. [CallAs(op, "nobody", 0) EXCEPT !.user = u] = CallAs(op, u, 0)
  BY DEF CallAs
<1>3. [CallAs(op, u, 0) EXCEPT !.raw = i] = CallAs(op, u, i)
  BY DEF CallAs
<1>4. [Driver!Idle EXCEPT !.op = op, !.user = u, !.raw = i]
        = [[[Driver!Idle EXCEPT !.op = op] EXCEPT !.user = u] EXCEPT !.raw = i]
  BY Zenon
<1> QED BY <1>1, <1>2, <1>3, <1>4

LEMMA AdminFinds ==
  ASSUME NEW op, NEW u, NEW i
  PROVE  [Admin!Idle EXCEPT !.op = op, !.user = u, !.raw = i] = CallAs(op, u, i)
<1>1. [Admin!Idle EXCEPT !.op = op] = CallAs(op, "nobody", 0)
  BY CallIdle DEF CallAs
<1>2. [CallAs(op, "nobody", 0) EXCEPT !.user = u] = CallAs(op, u, 0)
  BY DEF CallAs
<1>3. [CallAs(op, u, 0) EXCEPT !.raw = i] = CallAs(op, u, i)
  BY DEF CallAs
<1>4. [Admin!Idle EXCEPT !.op = op, !.user = u, !.raw = i]
        = [[[Admin!Idle EXCEPT !.op = op] EXCEPT !.user = u] EXCEPT !.raw = i]
  BY Zenon
<1> QED BY <1>1, <1>2, <1>3, <1>4

DriverOK == ServerOK /\ stored \in 0 .. Len(token)

LEMMA TokenGrows ==
  ASSUME RowsOK, TokenStep
  PROVE  Len(token) \in Nat /\ Len(token') \in Nat /\ Len(token) <= Len(token')
<1>1. RowsStay
  BY DEF TokenStep, Revokes, BeginsFamily, Replaces
<1> QED BY <1>1 DEF RowsOK, RowsStay

LEMMA DriverKeeps ==
  ASSUME DriverOK, Driver!DriverNext \/ UNCHANGED Driver!driverVars
  PROVE  DriverOK' /\ TokenStep
<1> USE DEF Driver!app, Driver!server
<1>0. "nobody" \in People /\ Drivers \subseteq People /\ 0 \in 0 .. Len(token)
  BY DEF People, DriverOK, ServerOK, RowsOK
<1>1. UNCHANGED token => TokenStep /\ RowsOK'
  BY RowsRest DEF DriverOK, ServerOK
<1>2. CASE UNCHANGED <<token, call>> /\ stored' \in {0, stored}
  BY <1>0, <1>1, <1>2, CallsRest DEF DriverOK
<1>3. ASSUME NEW c \in {"login", "refresh", "ghost", "office"}, UNCHANGED token,
             call' = [call EXCEPT ![c] = Driver!Idle], stored' \in {0, stored, call[c].raw}
      PROVE  DriverOK' /\ TokenStep
  <2>1. c \in Places /\ call' = [call EXCEPT ![c] = CallAs("idle", "nobody", 0)]
    BY <1>3, CallIdle DEF Places
  <2>2. ServerOK' /\ TokenStep
    BY <1>0, <1>3, <2>1, CallBegins DEF DriverOK
  <2> QED BY <1>0, <1>3, <2>1, <2>2 DEF DriverOK, ServerOK, CallOf
<1>4. ASSUME NEW u \in Drivers, Driver!SignIn(u) PROVE DriverOK' /\ TokenStep
  <2>1. "login" \in Places /\ call' = [call EXCEPT !["login"] = CallAs("verify", u, 0)]
    <3>1. [Driver!Idle EXCEPT !.op = "verify", !.user = u] = CallAs("verify", u, 0)
      BY Zenon, CallForms
    <3> QED BY <1>4, <3>1 DEF Places, Driver!SignIn, Driver!BeginLogin, Driver!Login
  <2> QED BY <1>0, <1>4, <2>1, CallBegins DEF DriverOK, Driver!SignIn
<1>5. ASSUME NEW u \in Drivers, Driver!SetBlocked(u) PROVE DriverOK' /\ TokenStep
  <2>1. CASE UNCHANGED call
    BY <1>2, <1>5, <2>1 DEF Driver!SetBlocked, Driver!Block, Driver!Unblock
  <2>2. CASE call' = [call EXCEPT !["office"] = [Driver!Idle EXCEPT !.op = "revokeAll", !.user = u]]
    <3>1. "office" \in Places /\ call' = [call EXCEPT !["office"] = CallAs("revokeAll", u, 0)]
      <4>1. [Driver!Idle EXCEPT !.op = "revokeAll", !.user = u] = CallAs("revokeAll", u, 0)
        BY Zenon, CallForms
      <4> QED BY <2>2, <4>1 DEF Places
    <3>2. UNCHANGED <<token, stored>>
      BY <1>5 DEF Driver!SetBlocked, Driver!Block, Driver!Unblock
    <3> QED BY <1>0, <3>1, <3>2, CallBegins DEF DriverOK
  <2> QED BY <1>5, <2>1, <2>2 DEF Driver!SetBlocked, Driver!Block, Driver!Unblock, Driver!Office
<1>6. CASE Driver!SignedIn \/ Driver!Refreshed \/ Driver!LostRefresh
  BY <1>3, <1>6 DEF Driver!SignedIn, Driver!Refreshed, Driver!LostRefresh, Driver!Login,
     Driver!Refresh, Driver!Raw
<1>7. CASE Driver!Dropped("ghost") \/ Driver!Dropped("office")
  BY <1>3, <1>7 DEF Driver!Dropped, Driver!Answered
<1>8. CASE Driver!Unauthorized
  <2>1. PICK u \in People : u = token[stored].user
    <3>1. stored \in 1 .. Len(token) /\ token \in Seq(Row)
      BY <1>8 DEF Driver!Unauthorized, DriverOK, ServerOK, RowsOK
    <3>2. token[stored] \in Row
      BY <3>1
    <3> QED BY <3>2 DEF Row, People
  <2>2. "refresh" \in Places /\ call' = [call EXCEPT !["refresh"] = CallAs("find", u, stored)]
    <3>1. [Driver!Idle EXCEPT !.op = "find", !.user = token[stored].user, !.raw = stored]
            = CallAs("find", token[stored].user, stored)
      BY Zenon, DriverFinds
    <3> QED BY <1>8, <2>1, <3>1 DEF Driver!Unauthorized, Driver!BeginRefresh, Driver!Refresh, Places
  <2> QED BY <1>8, <2>2, CallBegins DEF DriverOK, Driver!Unauthorized
<1>9. CASE Driver!Kill
  <2>1. call' = [call EXCEPT !["ghost"] = call["refresh"], !["refresh"] = CallAs("idle", "nobody", 0)]
    BY <1>9, CallIdle DEF Driver!Kill, Driver!Ghost, Driver!Refresh
  <2>2. CallAs("idle", "nobody", 0) \in Call
    BY <1>0 DEF CallAs, Call
  <2>3. /\ call' \in [Places -> Call]
        /\ \A d \in Places : call'[d] = IF d = "ghost" THEN call["refresh"]
                                        ELSE IF d = "refresh" THEN CallAs("idle", "nobody", 0) ELSE call[d]
    BY <2>1, <2>2 DEF DriverOK, ServerOK, Places
  <2>4. \A d \in Places : CallOf(d)'
    BY <1>0, <1>9, <2>3 DEF DriverOK, ServerOK, CallOf, CallAs, Places, Driver!Kill
  <2> QED BY <1>1, <1>9, <2>3, <2>4 DEF DriverOK, ServerOK, Driver!Kill
<1>10. ASSUME NEW c \in Places, Driver!Served(c) PROVE DriverOK' /\ TokenStep
  <2>1. ServerOK' /\ TokenStep
    BY <1>10, ServerKeeps DEF Driver!Served, DriverOK
  <2> QED BY <1>10, <2>1, TokenGrows DEF Driver!Served, DriverOK, ServerOK
<1>11. CASE UNCHANGED Driver!driverVars \/ Driver!SignOut \/ Driver!NothingToRestore \/ Driver!Restore \/ Driver!LostProfile
  BY <1>2, <1>11 DEF Driver!driverVars, Driver!SignOut, Driver!NothingToRestore, Driver!Restore,
     Driver!LostProfile
<1> QED
  BY <1>4, <1>5, <1>6, <1>7, <1>8, <1>9, <1>10, <1>11
  DEF Driver!DriverNext, Driver!DriverCalls, Driver!Login, Driver!Refresh, Driver!Ghost, Driver!Office, Places

\* The backend of the operators is that of the drivers.
LEMMA SameServer ==
  ASSUME NEW c
  PROVE  Admin!ServerStep(c) = Driver!ServerStep(c)
BY Zenon DEF Admin!ServerStep, Driver!ServerStep, Admin!Verify, Driver!Verify, Admin!CreateSession,
   Driver!CreateSession,
     Admin!Find, Driver!Find, Admin!DetectReuse, Driver!DetectReuse, Admin!Rotate, Driver!Rotate,
     Admin!ToSession, Driver!ToSession, Admin!Revoke, Driver!Revoke, Admin!RevokeAll, Driver!RevokeAll,
     Admin!Op, Driver!Op, Admin!User, Driver!User, Admin!Raw, Driver!Raw, Admin!Goto, Driver!Goto, Admin!See, Driver!See,
     Admin!Issued, Driver!Issued, Admin!Active, Driver!Active, Admin!OfUser, Driver!OfUser,
     Admin!OfFamily, Driver!OfFamily, Admin!Tokens, Driver!Tokens, Admin!Replaced, Driver!Replaced,
     Admin!Revoked, Driver!Revoked

AdminOK == ServerOK /\ cookie \in 0 .. Len(token)

LEMMA AdminKeeps ==
  ASSUME AdminOK, Admin!AdminNext \/ UNCHANGED Admin!adminVars
  PROVE  AdminOK' /\ TokenStep
<1> USE DEF Admin!console, Admin!server
<1>0. "nobody" \in People /\ ana \in People /\ 0 \in 0 .. Len(token) /\ Tabs \subseteq Places
  BY DEF People, Drivers, AdminOK, ServerOK, RowsOK, Places
<1>1. ASSUME NEW c \in Places, UNCHANGED token,
             call' = [call EXCEPT ![c] = Admin!Idle], cookie' \in {cookie, call[c].raw}
      PROVE  AdminOK' /\ TokenStep
  <2>1. call' = [call EXCEPT ![c] = CallAs("idle", "nobody", 0)]
    BY <1>1, CallIdle
  <2>2. ServerOK' /\ TokenStep
    BY <1>0, <1>1, <2>1, CallBegins DEF AdminOK
  <2> QED BY <1>1, <2>2 DEF AdminOK, ServerOK, CallOf
<1>2. ASSUME NEW t \in Tabs, Admin!LoginAdmin(t) PROVE AdminOK' /\ TokenStep
  <2>1. call' = [call EXCEPT ![t] = CallAs("verify", ana, 0)]
    <3>1. [Admin!Idle EXCEPT !.op = "verify", !.user = ana] = CallAs("verify", ana, 0)
      BY Zenon, CallForms
    <3> QED BY <1>2, <3>1 DEF Admin!LoginAdmin, Admin!BeginLogin
  <2>2. ana \in Drivers
    BY DEF Drivers
  <2> QED BY <1>0, <1>2, <2>1, <2>2, CallBegins DEF AdminOK, Admin!LoginAdmin
<1>3. ASSUME NEW t \in Tabs, Admin!RefreshAdminSession(t) PROVE AdminOK' /\ TokenStep
  <2>1. PICK u \in People : u = token[cookie].user
    <3>1. cookie \in 1 .. Len(token) /\ token \in Seq(Row)
      BY <1>3 DEF Admin!RefreshAdminSession, AdminOK, ServerOK, RowsOK
    <3>2. token[cookie] \in Row
      BY <3>1
    <3> QED BY <3>2 DEF Row, People
  <2>2. call' = [call EXCEPT ![t] = CallAs("find", u, cookie)]
    <3>1. [Admin!Idle EXCEPT !.op = "find", !.user = token[cookie].user, !.raw = cookie]
            = CallAs("find", token[cookie].user, cookie)
      BY Zenon, AdminFinds
    <3> QED BY <1>3, <2>1, <3>1 DEF Admin!RefreshAdminSession, Admin!BeginRefresh
  <2> QED BY <1>0, <1>3, <2>2, CallBegins DEF AdminOK, Admin!RefreshAdminSession
<1>4. ASSUME NEW t \in Tabs, Admin!Answer(t) \/ Admin!LostAnswer(t) PROVE AdminOK' /\ TokenStep
  BY <1>0, <1>1, <1>4 DEF Admin!Answer, Admin!LostAnswer, Admin!Raw
<1>5. ASSUME NEW t \in Tabs, Admin!LogoutAdmin(t) PROVE AdminOK' /\ TokenStep
  <2>1. TokenStep
    <3>1. CASE UNCHANGED token
      BY <3>1, RowsRest DEF AdminOK, ServerOK
    <3>2. CASE token' = [i \in DOMAIN token |-> IF i \in {cookie} THEN [token[i] EXCEPT !.revoked = TRUE] ELSE token[i]]
      BY <3>2, RevokesRows DEF AdminOK, ServerOK, RowsOK, TokenStep
    <3> QED BY <1>5, <3>1, <3>2 DEF Admin!LogoutAdmin, Admin!RevokeOne, Admin!Revoked, Admin!Tokens
  <2>2. ServerOK'
    BY <1>5, <2>1, CallsRest DEF Admin!LogoutAdmin, AdminOK
  <2>3. cookie' \in {0, cookie}
    BY <1>5 DEF Admin!LogoutAdmin
  <2> QED BY <2>1, <2>2, <2>3, TokenGrows DEF AdminOK, ServerOK
<1>6. CASE Admin!Disable
  <2>1. "office" \in Places /\ call' = [call EXCEPT !["office"] = CallAs("revokeAll", ana, 0)]
    <3>1. [Admin!Idle EXCEPT !.op = "revokeAll", !.user = ana] = CallAs("revokeAll", ana, 0)
      BY Zenon, CallForms
    <3> QED BY <1>6, <3>1 DEF Places, Admin!Disable, Admin!DisableOperator, Admin!Office
  <2> QED BY <1>0, <1>6, <2>1, CallBegins DEF AdminOK, Admin!Disable, Admin!DisableOperator
<1>7. CASE Admin!OfficeAnswered
  BY <1>1, <1>7 DEF Admin!OfficeAnswered, Admin!Answered, Admin!Office, Places
<1>8. ASSUME NEW c \in Places, Admin!Served(c) PROVE AdminOK' /\ TokenStep
  <2>1. ServerOK' /\ TokenStep
    BY <1>8, SameServer, ServerKeeps DEF Admin!Served, AdminOK
  <2> QED BY <1>8, <2>1, TokenGrows DEF Admin!Served, AdminOK, ServerOK
<1>9. CASE UNCHANGED Admin!adminVars
  <2>1. UNCHANGED <<token, call, cookie>>
    BY <1>9 DEF Admin!adminVars
  <2>2. TokenStep
    BY <2>1, RowsRest DEF AdminOK, ServerOK
  <2> QED BY <2>1, <2>2, CallsRest DEF AdminOK
<1> QED
  BY <1>2, <1>3, <1>4, <1>5, <1>6, <1>7, <1>8, <1>9
  DEF Admin!AdminNext, Admin!AdminPlaces, Admin!Office, Places

LEMMA ClientsInit ==
  /\ focus = "driver" /\ Init => DriverOK
  /\ focus = "admin" /\ Init => AdminOK
<1>1. "nobody" \in People /\ CallAs("idle", "nobody", 0) \in Call
  BY DEF People, CallAs, Call
<1>2. (token = <<>> /\ call = [c \in Places |-> CallAs("idle", "nobody", 0)]) => ServerOK /\ Len(token) = 0
  BY <1>1 DEF ServerOK, RowsOK, CallOf, CallAs
<1>3. focus = "driver" /\ Init => token = <<>> /\ call = [c \in Places |-> CallAs("idle", "nobody", 0)] /\ stored = 0
  BY CallIdle DEF Init, Driver!DriverInit, Driver!ServerInit
<1>4. focus = "admin" /\ Init => token = <<>> /\ call = [c \in Places |-> CallAs("idle", "nobody", 0)] /\ cookie = 0
  BY CallIdle DEF Init, Admin!AdminInit, Admin!ServerInit
<1> QED BY <1>2, <1>3, <1>4 DEF DriverOK, AdminOK

LEMMA RowsSay ==
  /\ RowsOK => Driver!OneGoodPerFamily /\ Admin!OneGoodPerFamily
  /\ RowsOK /\ TokenStep => Driver!DeadStaysDead /\ Admin!DeadStaysDead
<1>1. RowsOK => Driver!OneGoodPerFamily /\ Admin!OneGoodPerFamily
  BY DEF RowsOK, Good, Driver!OneGoodPerFamily, Admin!OneGoodPerFamily, Driver!Tokens,
     Admin!Tokens, Driver!Active, Admin!Active
<1>2. ASSUME RowsOK, TokenStep PROVE Driver!DeadStaysDead /\ Admin!DeadStaysDead
  <2>1. \A f : Dead(f) => Dead(f)'
    BY <1>2, RowsKeep
  <2>2. DOMAIN token = 1 .. Len(token) /\ DOMAIN token' = 1 .. Len(token')
    BY <1>2, RowsKeep DEF RowsOK
  <2>3. \A f : f \in Driver!Families \ Driver!Live => Dead(f)
    BY <2>2 DEF Driver!Families, Driver!Live, Driver!Tokens, Driver!OfFamily, Driver!Active, Dead,
       Good
  <2>4. \A f : Dead(f)' => f \notin Driver!Live'
    BY <2>2 DEF Driver!Live, Driver!Tokens, Driver!OfFamily, Driver!Active, Dead, Good
  <2>5. Admin!Families = Driver!Families /\ Admin!Live = Driver!Live /\ Admin!Live' = Driver!Live'
    BY Zenon DEF Driver!Live, Driver!Families, Driver!Tokens, Driver!OfFamily, Driver!Active,
                 Admin!Live, Admin!Families, Admin!Tokens, Admin!OfFamily, Admin!Active
  <2> QED BY <2>1, <2>3, <2>4, <2>5 DEF Driver!DeadStaysDead, Admin!DeadStaysDead
<1> QED BY <1>1, <1>2

-----------------------------------------------------------------------------
(***************************************************************************)
(* An operator who is disabled has no good token left once the calls under *)
(* way have ended.                                                         *)
(*                                                                         *)
(* The argument: a good token of a disabled operator is one that a call    *)
(* under way will see and revoke, or one that it has seen.  A call that    *)
(* issues a token reads the membership after it, so it is such a call.     *)
(***************************************************************************)

AdminCallers == Tabs \cup {"office"}

WillRevoke(c, i) ==
  \/ call[c].op \in {"revokeAll", "member"}
  \/ call[c].op = "revoke" /\ i \in call[c].targets

OperatorOnly ==
  /\ \A i \in 1 .. Len(token) : token[i].user = ana
  /\ \A c \in AdminCallers : call[c].op # "idle" => call[c].user = ana
  /\ call["office"].op \in {"idle", "revokeAll", "revoke", "refused"}

DisabledCovered ==
  ana \notin member => \A i \in 1 .. Len(token) : Good(i) => \E c \in AdminCallers : WillRevoke(c, i)

AdminInv == AdminOK /\ OperatorOnly /\ DisabledCovered

LEMMA CallersArePlaces == AdminCallers \subseteq Places /\ "office" \notin Tabs
BY TabsAreApart DEF AdminCallers, Places

\* A call goes on; the tokens it was to revoke are revoked, or will be.
LEMMA CallerMoves ==
  ASSUME AdminInv, AdminOK', RowsStay, NEW c \in AdminCallers,
         \A i \in 1 .. Len(token') : token'[i].user = ana,
         \A d \in Places : d # c => call'[d] = call[d],
         call'[c].op # "idle" => call'[c].user = ana,
         c = "office" => call'[c].op \in {"idle", "revokeAll", "revoke", "refused"},
         \/ ana \in member'
         \/ /\ ana \notin member
            /\ Len(token') = Len(token)
            /\ \A i \in 1 .. Len(token) : WillRevoke(c, i) /\ Good(i)' => WillRevoke(c, i)'
         \/ \A i \in 1 .. Len(token') : Good(i)' => WillRevoke(c, i)'
  PROVE  AdminInv'
<1>1. OperatorOnly'
  BY CallersArePlaces DEF AdminInv, OperatorOnly, AdminCallers
<1>2. DisabledCovered'
  <2> SUFFICES ASSUME ana \notin member', NEW i \in 1 .. Len(token'), Good(i)'
               PROVE  \E d \in AdminCallers : WillRevoke(d, i)'
    BY DEF DisabledCovered
  <2>1. CASE \A j \in 1 .. Len(token') : Good(j)' => WillRevoke(c, j)'
    BY <2>1
  <2>2. CASE /\ ana \notin member
             /\ Len(token') = Len(token)
             /\ \A j \in 1 .. Len(token) : WillRevoke(c, j) /\ Good(j)' => WillRevoke(c, j)'
    <3>1. i \in 1 .. Len(token) /\ Good(i)
      BY <2>2 DEF RowsStay, Good
    <3>2. PICK d \in AdminCallers : WillRevoke(d, i)
      BY <2>2, <3>1 DEF AdminInv, DisabledCovered
    <3>3. CASE d = c
      BY <2>2, <3>1, <3>2, <3>3
    <3>4. CASE d # c
      BY <3>2, <3>4, CallersArePlaces DEF WillRevoke
    <3> QED BY <3>3, <3>4
  <2> QED BY <2>1, <2>2
<1> QED BY <1>1, <1>2 DEF AdminInv

LEMMA AdminServes ==
  ASSUME AdminInv, NEW c \in AdminCallers, Driver!ServerStep(c), UNCHANGED <<member, cookie>>
  PROVE  AdminInv'
<1> DEFINE own == call[c]
<1>0. /\ c \in Places /\ own \in Call /\ CallOf(c) /\ token \in Seq(Row) /\ Len(token) \in Nat /\ ServerOK
      /\ own.op # "idle" => own.user = ana
      /\ c = "office" => own.op \in {"idle", "revokeAll", "revoke", "refused"}
      /\ \A i \in 1 .. Len(token) : token[i].user = ana
      /\ c \notin Tabs => c = "office"
  BY CallersArePlaces DEF AdminInv, AdminOK, ServerOK, RowsOK, OperatorOnly, AdminCallers
<1>1. ServerOK' /\ TokenStep /\ \A d \in Places : d # c => call'[d] = call[d]
  BY <1>0, ServerKeeps
<1>2. AdminOK' /\ RowsStay
  <2>1. RowsStay
    BY <1>1 DEF TokenStep, Revokes, BeginsFamily, Replaces
  <2>2. cookie' \in 0 .. Len(token')
    BY <1>0, <1>1, TokenGrows DEF AdminInv, AdminOK, ServerOK
  <2> QED BY <1>1, <2>1, <2>2 DEF AdminOK
\* A call that was not to revoke anything and issues nothing.
<1>3. ASSUME UNCHANGED token, own.op \in {"verify", "find", "reuse", "rotate"},
             call'[c].user = own.user, c = "office" => call'[c].op \in {"idle", "revokeAll", "revoke", "refused"}
      PROVE  AdminInv'
  <2>1. \A i : ~WillRevoke(c, i)
    BY <1>3 DEF WillRevoke
  <2>2. ana \in member' \/ ana \notin member
    OBVIOUS
  <2> QED BY <1>0, <1>1, <1>2, <1>3, <2>1, <2>2, CallerMoves
\* A call that is to read the membership now, or to see all there is.
<1>4. ASSUME call'[c].op = "member", call'[c].user = own.user, own.op # "idle", c # "office",
             \A i \in 1 .. Len(token') : token'[i].user = ana
      PROVE  AdminInv'
  <2>1. \A i : WillRevoke(c, i)'
    BY <1>4 DEF WillRevoke
  <2> QED BY <1>0, <1>1, <1>2, <1>4, <2>1, CallerMoves
<1>5. ASSUME UNCHANGED token, Driver!See(c, Driver!OfUser(own.user)), own.op # "idle" PROVE AdminInv'
  <2>1. Driver!OfUser(own.user) = 1 .. Len(token) /\ Driver!OfUser(own.user) \in SUBSET Driver!Tokens
    BY <1>0, <1>5 DEF Driver!OfUser, Driver!Tokens
  <2>2. /\ call'[c].op = "revoke" /\ call'[c].targets = {i \in 1 .. Len(token) : Good(i)}
        /\ call'[c].user = own.user
    BY <1>0, <1>5, <2>1, Sees
  <2>3. \A i \in 1 .. Len(token') : Good(i)' => WillRevoke(c, i)'
    BY <1>5, <2>2 DEF WillRevoke, Good
  <2> QED BY <1>0, <1>1, <1>2, <1>5, <2>2, <2>3, CallerMoves
<1>6. CASE Driver!Verify(c)
  <2>1. PICK op \in {"refused", "create"} : Driver!Goto(c, op)
    BY <1>6 DEF Driver!Verify
  <2>2. call'[c] = [own EXCEPT !.op = op]
    BY <1>0, <1>6, <2>1, GoesTo DEF Driver!Verify, Driver!Op, CallOf
  <2> QED BY <1>0, <1>3, <1>6, <2>2 DEF Driver!Verify, Driver!Op, Call
<1>7. CASE Driver!CreateSession(c)
  <2>1. c \in Tabs /\ own.op = "create" /\ own.user = ana
    BY <1>0, <1>7 DEF Driver!CreateSession, Driver!Op
  <2>2. PICK r \in Row : r = [family |-> Len(token) + 1, user |-> ana, revoked |-> FALSE]
    <3>1. Len(token) + 1 \in Nat /\ ana \in Drivers
      BY <1>0 DEF Drivers
    <3> QED BY <3>1 DEF Row
  <2>3. token' = Append(token, r)
    BY <1>7, <2>1, <2>2 DEF Driver!CreateSession, Driver!User
  <2>4. \A i \in 1 .. Len(token') : token'[i].user = ana
    BY <1>0, <2>2, <2>3, AppendsRow
  <2>5. RowsOK' /\ Len(token') = Len(token) + 1
    BY <1>0, <1>1, <2>3, AppendsRow DEF ServerOK
  <2>6. call'[c].op = "member" /\ call'[c].user = own.user
    BY <1>0, <1>2, <1>7, <2>1, <2>5, Issues DEF Driver!CreateSession
  <2> QED BY <1>4, <2>1, <2>4, <2>6, CallersArePlaces
<1>8. CASE Driver!Find(c)
  <2>1. own.raw # 0
    BY <1>0, <1>8 DEF Driver!Find, Driver!Op, CallOf
  <2>2. PICK op \in {"reuse", "refused", "rotate"} : Driver!Goto(c, op)
    BY <1>8 DEF Driver!Find
  <2>3. call'[c] = [own EXCEPT !.op = op]
    BY <1>0, <1>8, <2>1, <2>2, GoesTo DEF Driver!Find
  <2> QED BY <1>0, <1>3, <1>8, <2>3 DEF Driver!Find, Driver!Op, Call
<1>9. CASE Driver!DetectReuse(c)
  <2>1. call'[c].op = "revoke" /\ call'[c].user = own.user
    BY <1>0, <1>9, Sees DEF Driver!DetectReuse, Driver!OfFamily
  <2> QED BY <1>0, <1>3, <1>9, <2>1 DEF Driver!DetectReuse, Driver!Op
<1>10. CASE Driver!Rotate(c)
  <2>0. own.op = "rotate" /\ c \in Tabs /\ own.raw \in 1 .. Len(token)
    BY <1>0, <1>10 DEF Driver!Rotate, Driver!Op, CallOf
  <2>1. CASE ~Good(own.raw)
    <3>1. Driver!Goto(c, "refused") /\ UNCHANGED token
      BY <1>10, <2>1 DEF Driver!Rotate, Driver!Active, Driver!Raw, Good
    <3>2. call'[c] = [own EXCEPT !.op = "refused"]
      BY <1>0, <3>1, GoesTo
    <3> QED BY <1>0, <1>3, <2>0, <3>1, <3>2 DEF Call
  <2>2. CASE Good(own.raw)
    <3>1. token' = Driver!Replaced(own.raw) /\ Driver!Issued(c, Len(token) + 1)
      BY <1>10, <2>2 DEF Driver!Rotate, Driver!Active, Driver!Raw, Good
    <3>2. Replaces(own.raw)
      BY <1>0, <2>0, <2>2, <3>1, ReplacesRow
    <3>3. \A i \in 1 .. Len(token') : token'[i].user = ana
      <4>1. token'[Len(token) + 1].user = ana
        BY <1>0, <2>0, <3>2 DEF Replaces
      <4>2. \A i \in 1 .. Len(token') : i \in 1 .. Len(token) \/ i = Len(token) + 1
        BY <1>0, <3>2 DEF Replaces
      <4> QED BY <1>0, <3>2, <4>1, <4>2 DEF Replaces, RowsStay
    <3>4. RowsOK' /\ Len(token') = Len(token) + 1
      BY <1>1, <3>2 DEF ServerOK, Replaces
    <3>5. call'[c].op = "member" /\ call'[c].user = own.user
      BY <1>0, <1>2, <2>0, <3>1, <3>4, Issues
    <3> QED BY <1>4, <2>0, <3>3, <3>5, CallersArePlaces
  <2> QED BY <2>1, <2>2
<1>11. CASE Driver!ToSession(c)
  <2>1. own.op = "member" /\ own.user = ana /\ own.raw # 0 /\ UNCHANGED token /\ c # "office"
    BY <1>0, <1>11 DEF Driver!ToSession, Driver!Op, CallOf
  <2>2. CASE ana \in member
    <3>1. Driver!Goto(c, "answer")
      BY <1>11, <2>1, <2>2 DEF Driver!ToSession, Driver!User
    <3>2. call'[c] = [own EXCEPT !.op = "answer"]
      BY <1>0, <2>1, <3>1, GoesTo
    <3>3. call'[c].user = ana /\ ana \in member'
      BY <1>0, <2>1, <2>2, <3>2 DEF Call
    <3> QED BY <1>0, <1>1, <1>2, <2>1, <3>3, CallerMoves
  <2>3. CASE ana \notin member
    BY <1>5, <1>11, <2>1, <2>3 DEF Driver!ToSession, Driver!User
  <2> QED BY <2>2, <2>3
<1>12. CASE Driver!Revoke(c)
  <2>1. token' = [i \in DOMAIN token |-> IF i \in own.targets THEN [token[i] EXCEPT !.revoked = TRUE] ELSE token[i]]
    BY <1>12 DEF Driver!Revoke, Driver!Revoked, Driver!Tokens
  <2>2. Revokes /\ \A i \in 1 .. Len(token) : Good(i)' <=> Good(i) /\ i \notin own.targets
    BY <1>0, <2>1, RevokesRows
  <2>3. \A i \in 1 .. Len(token') : token'[i].user = ana
    BY <1>0, <2>2 DEF Revokes, RowsStay
  <2>4. own.op = "revoke"
    BY <1>12 DEF Driver!Revoke, Driver!Op
  <2>5. \A i \in 1 .. Len(token) : WillRevoke(c, i) => ~Good(i)'
    BY <2>2, <2>4 DEF WillRevoke
  <2>6. call'[c].op = "refused" /\ call'[c].user = own.user
    BY <1>0, <1>12 DEF Driver!Revoke, ServerOK, Call
  <2>7. ana \in member' \/ (ana \notin member /\ Len(token') = Len(token))
    BY <2>2 DEF Revokes
  <2> QED BY <1>0, <1>1, <1>2, <2>3, <2>4, <2>5, <2>6, <2>7, CallerMoves
<1>13. CASE Driver!RevokeAll(c)
  BY <1>5, <1>13 DEF Driver!RevokeAll, Driver!Op, Driver!User
<1> QED BY <1>6, <1>7, <1>8, <1>9, <1>10, <1>11, <1>12, <1>13 DEF Driver!ServerStep

LEMMA AdminNextInv ==
  ASSUME AdminInv, Admin!AdminNext \/ UNCHANGED Admin!adminVars
  PROVE  AdminInv'
<1> USE DEF Admin!console, Admin!server
<1>0. AdminOK' /\ TokenStep /\ RowsStay
  BY AdminKeeps DEF AdminInv, TokenStep, Revokes, BeginsFamily, Replaces
<1>1. ServerOK /\ Tabs \subseteq AdminCallers /\ "office" \in AdminCallers /\ AdminCallers \subseteq Places /\ "office" \notin Tabs
  BY CallersArePlaces DEF AdminInv, AdminOK, AdminCallers
\* A call begins that is to revoke nothing, or is over.
<1>2. ASSUME NEW c \in AdminCallers, UNCHANGED <<token, member>>, call[c].op \in {"idle", "answer", "refused"},
             NEW op \in {"idle", "verify", "find"}, NEW u, NEW i, op # "idle" => u = ana /\ c # "office",
             call' = [call EXCEPT ![c] = CallAs(op, u, i)]
      PROVE  AdminInv'
  <2>1. /\ call'[c] = CallAs(op, u, i)
        /\ \A d \in Places : d # c => call'[d] = call[d]
    BY <1>1, <1>2 DEF ServerOK
  <2>2. \A j : ~WillRevoke(c, j)
    BY <1>2 DEF WillRevoke
  <2>3. ana \in member' \/ ana \notin member
    BY <1>2
  <2>4. \A j \in 1 .. Len(token') : token'[j].user = ana
    BY <1>2 DEF AdminInv, OperatorOnly
  <2>5. call'[c].op = op /\ call'[c].user = u
    BY <2>1 DEF CallAs
  <2>6. call'[c].op # "idle" => call'[c].user = ana
    BY <1>2, <2>5
  <2>7. c = "office" => call'[c].op \in {"idle", "revokeAll", "revoke", "refused"}
    BY <1>2, <2>5
  <2> QED BY <1>0, <1>2, <2>1, <2>2, <2>3, <2>4, <2>6, <2>7, CallerMoves
<1>3. ASSUME NEW t \in Tabs, Admin!LoginAdmin(t) PROVE AdminInv'
  <2>1. [Admin!Idle EXCEPT !.op = "verify", !.user = ana] = CallAs("verify", ana, 0)
    BY Zenon, CallForms
  <2>2. /\ call' = [call EXCEPT ![t] = CallAs("verify", ana, 0)] /\ call[t].op = "idle"
        /\ UNCHANGED <<token, member>>
    BY <1>3, <2>1 DEF Admin!LoginAdmin, Admin!BeginLogin, Admin!Op
  <2> QED BY <1>1, <1>2, <2>2
<1>4. ASSUME NEW t \in Tabs, Admin!RefreshAdminSession(t) PROVE AdminInv'
  <2>1. [Admin!Idle EXCEPT !.op = "find", !.user = token[cookie].user, !.raw = cookie]
          = CallAs("find", token[cookie].user, cookie)
    BY Zenon, AdminFinds
  <2>2. cookie \in 1 .. Len(token)
    BY <1>4 DEF Admin!RefreshAdminSession, AdminInv, AdminOK, ServerOK, RowsOK
  <2>3. token[cookie].user = ana
    BY <2>2 DEF AdminInv, OperatorOnly
  <2>4. /\ call' = [call EXCEPT ![t] = CallAs("find", ana, cookie)] /\ call[t].op = "idle"
        /\ UNCHANGED <<token, member>>
    BY <1>4, <2>1, <2>3 DEF Admin!RefreshAdminSession, Admin!BeginRefresh, Admin!Op
  <2> QED BY <1>1, <1>2, <2>4
<1>5. ASSUME NEW c \in AdminCallers, call[c].op \in {"answer", "refused"}, call' = [call EXCEPT ![c] = Admin!Idle],
             UNCHANGED <<token, member>>
      PROVE  AdminInv'
  <2>1. call' = [call EXCEPT ![c] = CallAs("idle", "nobody", 0)]
    BY <1>5, CallIdle
  <2> QED BY <1>2, <1>5, <2>1
<1>6. ASSUME NEW t \in Tabs, Admin!Answer(t) \/ Admin!LostAnswer(t) PROVE AdminInv'
  BY <1>1, <1>5, <1>6 DEF Admin!Answer, Admin!LostAnswer, Admin!Ended, Admin!Op
<1>7. CASE Admin!OfficeAnswered
  BY <1>1, <1>5, <1>7 DEF Admin!OfficeAnswered, Admin!Answered, Admin!Office, Admin!Ended, Admin!Op
<1>8. ASSUME UNCHANGED <<call, member>>, Revokes PROVE AdminInv'
  <2>1. OperatorOnly'
    BY <1>8 DEF AdminInv, OperatorOnly, Revokes, RowsStay
  <2>2. DisabledCovered'
    BY <1>8 DEF AdminInv, DisabledCovered, Revokes, RowsStay, Good, WillRevoke
  <2> QED BY <1>0, <2>1, <2>2 DEF AdminInv
<1>9. UNCHANGED token => Revokes
  BY <1>1, RowsRest DEF ServerOK
<1>10. ASSUME NEW t \in Tabs, Admin!LogoutAdmin(t) PROVE AdminInv'
  <2>1. Revokes
    <3>1. CASE token' = [i \in DOMAIN token |-> IF i \in {cookie} THEN [token[i] EXCEPT !.revoked = TRUE] ELSE token[i]]
      BY <1>1, <3>1, RevokesRows DEF ServerOK, RowsOK
    <3> QED BY <1>9, <1>10, <3>1 DEF Admin!LogoutAdmin, Admin!RevokeOne, Admin!Revoked, Admin!Tokens
  <2> QED BY <1>8, <1>10, <2>1 DEF Admin!LogoutAdmin
<1>11. CASE UNCHANGED Admin!adminVars
  BY <1>8, <1>9, <1>11 DEF Admin!adminVars
<1>12. CASE Admin!Disable
  <2>1. [Admin!Idle EXCEPT !.op = "revokeAll", !.user = ana] = CallAs("revokeAll", ana, 0)
    BY Zenon, CallForms
  <2>2. call' = [call EXCEPT !["office"] = CallAs("revokeAll", ana, 0)] /\ UNCHANGED token
    BY <1>12, <2>1 DEF Admin!Disable, Admin!DisableOperator, Admin!Office
  <2>3. /\ call'["office"] = CallAs("revokeAll", ana, 0)
        /\ \A d \in Places : d # "office" => call'[d] = call[d]
    BY <1>1, <2>2 DEF ServerOK
  <2>4. call'["office"].op = "revokeAll" /\ call'["office"].user = ana /\ \A i : WillRevoke("office", i)'
    BY <2>3 DEF CallAs, WillRevoke
  <2>5. \A j \in 1 .. Len(token') : token'[j].user = ana
    BY <2>2 DEF AdminInv, OperatorOnly
  <2> QED BY <1>0, <1>1, <2>3, <2>4, <2>5, CallerMoves
<1>13. ASSUME NEW c \in AdminCallers, Admin!Served(c) PROVE AdminInv'
  BY <1>13, SameServer, AdminServes DEF Admin!Served, Admin!ServerStep, Admin!Verify,
     Admin!CreateSession, Admin!Find,
     Admin!DetectReuse, Admin!Rotate, Admin!ToSession, Admin!Revoke, Admin!RevokeAll
<1> QED
  BY <1>3, <1>4, <1>6, <1>7, <1>10, <1>11, <1>12, <1>13 DEF Admin!AdminNext, Admin!AdminPlaces,
     Admin!Office, AdminCallers

LEMMA AdminStart ==
  ASSUME focus = "admin", Init PROVE AdminInv
<1>1. AdminOK
  BY ClientsInit
<1>2. "nobody" # ana /\ ana \in member /\ token = <<>> /\ \A c \in Places : call[c] = CallAs("idle", "nobody", 0)
  BY CallIdle, DriversAreApart DEF Init, Admin!AdminInit, Admin!ServerInit, Drivers
<1>3. OperatorOnly
  BY <1>2, CallersArePlaces DEF OperatorOnly, CallAs, AdminCallers
<1>4. DisabledCovered
  BY <1>2 DEF DisabledCovered
<1> QED BY <1>1, <1>3, <1>4 DEF AdminInv

LEMMA NoneIsLeft ==
  AdminInv => Admin!DisabledHasNone
<1> SUFFICES ASSUME AdminInv, ana \notin member, \A c \in AdminCallers : call[c].op = "idle",
                    NEW i \in 1 .. Len(token), Good(i)
             PROVE  FALSE
  <2>1. DOMAIN token = 1 .. Len(token)
    BY DEF AdminInv, AdminOK, ServerOK, RowsOK
  <2> QED BY <2>1 DEF Admin!DisabledHasNone, Admin!AdminPlaces, Admin!Office, AdminCallers,
             Admin!Busy, Admin!Op,
             Admin!OfUser, Admin!Tokens, Admin!Active, Good, AdminInv
<1> QED BY DEF AdminInv, DisabledCovered, WillRevoke

\* The backend's promises to drivers and to operators, alone and among the other clients.
THEOREM TokensStayFew == Spec => []TokensAreFew /\ DeadStaysDead
<1> DEFINE Inv == (focus = "driver" => DriverOK) /\ (focus = "admin" => AdminInv)
           Dies == CASE focus = "driver" -> Driver!DeadStaysDead
                     [] focus = "admin" -> Admin!DeadStaysDead
                     [] OTHER -> TRUE
<1>1. Init => Inv
  BY ClientsInit, AdminStart
<1>2. Inv /\ [Next]_vars => Inv'
  BY TakesSteps, DriverKeeps, AdminNextInv
<1>3. Inv => TokensAreFew
  BY RowsSay, NoneIsLeft DEF TokensAreFew, DriverOK, AdminInv, AdminOK, ServerOK
<1>4. Inv /\ [Next]_vars => [Dies]_vars
  <2>1. ASSUME Inv, [Next]_vars, focus = "driver" PROVE Driver!DeadStaysDead
    BY <2>1, TakesSteps, DriverKeeps, RowsSay DEF DriverOK, ServerOK
  <2>2. ASSUME Inv, [Next]_vars, focus = "admin" PROVE Admin!DeadStaysDead
    BY <2>2, TakesSteps, AdminKeeps, RowsSay DEF AdminInv, AdminOK, ServerOK
  <2> QED BY <2>1, <2>2
<1> QED BY <1>1, <1>2, <1>3, <1>4, PTL DEF Spec, DeadStaysDead

\* A family of tokens that died, by a sign-out, a block or a reuse, gets no good token again: not
\* even from a refresh under way (AuthService.refresh, AdminAuthService.refresh).
THEOREM DeadFamiliesStay == Spec => DeadStaysDead
BY TokensStayFew

-----------------------------------------------------------------------------
(***************************************************************************)
(* The app does not end its own session, and carries the tokens of the     *)
(* driver it shows.                                                        *)
(*                                                                         *)
(* The argument: as long as no answer is lost no refresh but the app's     *)
(* replaces a token, so what it presents, and what it stores once it has   *)
(* the answer, is the last of its family; a sign-in under way has a family *)
(* of its own.  As long as no refresh was under way at a sign-out, nothing *)
(* of a driver is left when the next one signs in.                         *)
(***************************************************************************)

Last(i) == \A j \in 1 .. Len(token) : token[j].family = token[i].family => j <= i
LastNow(i) == \A j \in 1 .. Len(token') : token'[j].family = token'[i].family => j <= i
Presents == {"find", "rotate", "answer"}
Fam(i) == token[i].family

LoginOK ==
  /\ call["login"].op \in {"idle", "verify", "create", "answer", "refused"}
  /\ call["login"].op # "idle" => call["login"].user \in Drivers /\ shown = "nobody"
  /\ call["login"].op = "answer" => token[call["login"].raw].user = call["login"].user

RefreshOK == call["refresh"].op \in {"idle", "find", "reuse", "rotate", "revoke", "answer", "refused"}
OfficeOK == call["office"].op \in {"idle", "revokeAll", "revoke", "refused"}

AppOK ==
  /\ lost \in Nat /\ straddled \in BOOLEAN
  /\ shown \in Drivers \cup {"nobody", "restoring"}

StoresLast ==
  lost = 0 =>
    /\ call["ghost"].op = "idle"
    /\ stored # 0 /\ call["refresh"].op = "idle" => Last(stored)
    /\ call["refresh"].op \in Presents => Last(call["refresh"].raw)
    /\ call["login"].op = "answer" =>
         /\ Last(call["login"].raw)
         /\ stored # 0 => Fam(stored) # Fam(call["login"].raw)
         /\ call["refresh"].op \in Presents => Fam(call["refresh"].raw) # Fam(call["login"].raw)

CarriesOwn ==
  ~straddled =>
    /\ shown = "nobody" => stored = 0 /\ call["refresh"].op = "idle"
    /\ shown \in Drivers =>
         /\ stored # 0 => token[stored].user = shown
         /\ call["refresh"].op \in Presents => token[call["refresh"].raw].user = shown

DriverInv == DriverOK /\ AppOK /\ LoginOK /\ RefreshOK /\ OfficeOK /\ StoresLast /\ CarriesOwn

LEMMA DriverPlaces ==
  {"login", "refresh", "ghost", "office"} \subseteq Places /\ {"login", "refresh", "ghost", "office"} \cap Tabs = {}
BY TabsAreApart DEF Places

LEMMA LastStays ==
  ASSUME RowsOK
  PROVE  /\ Revokes => \A i \in 1 .. Len(token) : Last(i) => Last(i)'
         /\ \A u : BeginsFamily(u) =>
              /\ LastNow(Len(token) + 1)
              /\ \A i \in 1 .. Len(token) : (Last(i) => Last(i)') /\ token'[i].family # token'[Len(token) + 1].family
         /\ \A r : Replaces(r) =>
              /\ LastNow(Len(token) + 1)
              /\ \A i \in 1 .. Len(token) : Last(i) /\ Fam(i) # Fam(r) => Last(i)'
<1>1. Len(token) \in Nat /\ \A i \in 1 .. Len(token) : token[i].family \in 1 .. Len(token)
  BY DEF RowsOK
<1>2. Revokes => \A i \in 1 .. Len(token) : Last(i) => Last(i)'
  BY DEF Revokes, RowsStay, Last
<1>3. ASSUME Len(token') = Len(token) + 1
      PROVE  \A j \in 1 .. Len(token') : j \in 1 .. Len(token) \/ j = Len(token) + 1
  BY <1>1, <1>3
<1>4. ASSUME NEW u, BeginsFamily(u)
      PROVE  /\ LastNow(Len(token) + 1)
             /\ \A i \in 1 .. Len(token) : (Last(i) => Last(i)') /\ token'[i].family # token'[Len(token) + 1].family
  <2>1. token'[Len(token) + 1].family = Len(token) + 1
    BY <1>4 DEF BeginsFamily
  <2>2. \A i \in 1 .. Len(token) : token'[i].family # Len(token) + 1
    BY <1>1, <1>4 DEF BeginsFamily, RowsStay
  <2> QED BY <1>1, <1>3, <1>4, <2>1, <2>2 DEF BeginsFamily, RowsStay, Last, LastNow
<1>5. ASSUME NEW r, Replaces(r)
      PROVE  /\ LastNow(Len(token) + 1)
             /\ \A i \in 1 .. Len(token) : Last(i) /\ Fam(i) # Fam(r) => Last(i)'
  <2>1. token'[Len(token) + 1].family = Fam(r)
    BY <1>5 DEF Replaces, Fam
  <2> QED BY <1>1, <1>3, <1>5, <2>1 DEF Replaces, RowsStay, Last, LastNow, Fam
<1> QED BY <1>2, <1>4, <1>5

\* A step of the backend that issues no token to the app.
LEMMA QuietStep ==
  ASSUME DriverInv, DriverOK', RowsStay, UNCHANGED <<stored, shown, lost, straddled>>,
         \A i \in 1 .. Len(token) : lost = 0 /\ Last(i) => Last(i)',
         LoginOK', RefreshOK', OfficeOK', lost = 0 => call'["ghost"].op = "idle",
         call'["refresh"].op \in Presents => call["refresh"].op \in Presents /\ call'["refresh"].raw = call["refresh"].raw,
         call'["refresh"].op = "idle" <=> call["refresh"].op = "idle",
         call'["login"].op = "answer" => call["login"].op = "answer" /\ call'["login"].raw = call["login"].raw
  PROVE  DriverInv'
<1>1. /\ call["refresh"].op \in Presents => call["refresh"].raw \in 1 .. Len(token)
      /\ call["login"].op = "answer" => call["login"].raw \in 1 .. Len(token)
      /\ stored # 0 => stored \in 1 .. Len(token)
  BY DriverPlaces DEF DriverInv, DriverOK, ServerOK, RowsOK, CallOf, Presents
<1>2. \A i \in 1 .. Len(token) : Fam(i)' = Fam(i) /\ token'[i].user = token[i].user
  BY DEF RowsStay, Fam
<1>3. AppOK'
  BY DEF DriverInv, AppOK
<1>4. StoresLast'
  BY <1>1, <1>2 DEF DriverInv, StoresLast
<1>5. CarriesOwn'
  BY <1>1, <1>2 DEF DriverInv, CarriesOwn
<1> QED BY <1>3, <1>4, <1>5 DEF DriverInv

LEMMA DriverServes ==
  ASSUME DriverInv, NEW c \in {"login", "refresh", "ghost", "office"}, Driver!ServerStep(c),
         UNCHANGED <<stored, shown, lost, straddled>>
  PROVE  DriverInv'
<1> DEFINE own == call[c]
<1>0. /\ c \in Places /\ c \notin Tabs /\ own \in Call /\ CallOf(c) /\ token \in Seq(Row) /\ Len(token) \in Nat
      /\ ServerOK /\ RowsOK /\ stored \in 0 .. Len(token)
  BY DriverPlaces DEF DriverInv, DriverOK, ServerOK, RowsOK
<1>1. ServerOK' /\ TokenStep /\ \A d \in Places : d # c => call'[d] = call[d]
  BY <1>0, ServerKeeps
<1>2. DriverOK' /\ RowsStay
  <2>1. RowsStay
    BY <1>1 DEF TokenStep, Revokes, BeginsFamily, Replaces
  <2>2. stored' \in 0 .. Len(token')
    BY <1>0, <1>1, TokenGrows
  <2> QED BY <1>1, <2>1, <2>2 DEF DriverOK
<1>3. UNCHANGED token => Revokes
  BY <1>0, RowsRest
<1>4. LoginOK /\ RefreshOK /\ OfficeOK /\ (lost = 0 => call["ghost"].op = "idle")
  BY DEF DriverInv, StoresLast
\* The calls of the others are as they were.
<1>5. /\ c # "login" => LoginOK' /\ call'["login"] = call["login"]
      /\ c # "refresh" => RefreshOK' /\ call'["refresh"] = call["refresh"]
      /\ c # "office" => OfficeOK'
      /\ c # "ghost" => call'["ghost"] = call["ghost"]
  <2>1. c # "login" => call'["login"] = call["login"]
    BY <1>1, DriverPlaces
  <2>2. c # "login" => LoginOK'
    <3>1. call["login"].op = "answer" => call["login"].raw \in 1 .. Len(token)
      BY <1>0, DriverPlaces DEF ServerOK, CallOf
    <3> QED BY <1>2, <1>4, <2>1, <3>1 DEF LoginOK, RowsStay
  <2> QED BY <1>1, <1>4, <2>1, <2>2, DriverPlaces DEF RefreshOK, OfficeOK
<1>6. own.op # "idle"
  BY DEF Driver!ServerStep, Driver!Op, Driver!Verify, Driver!CreateSession, Driver!Find,
     Driver!DetectReuse,
     Driver!Rotate, Driver!ToSession, Driver!Revoke, Driver!RevokeAll
\* A refresh whose answer goes nowhere.
<1>7. CASE c = "ghost"
  BY <1>2, <1>4, <1>5, <1>6, <1>7, QuietStep
\* The others, when no token is issued.
<1>8. ASSUME c # "ghost", Revokes, c = "login" => call'[c].op \in {"create", "refused"} /\ call'[c].user = own.user,
             c = "refresh" => /\ call'[c].op \in {"reuse", "rotate", "revoke", "refused"}
                              /\ call'[c].op = "rotate" => own.op = "find" /\ call'[c].raw = own.raw,
             c = "office" => call'[c].op \in {"revoke", "refused"}
      PROVE  DriverInv'
  <2>1. LoginOK'
    BY <1>4, <1>5, <1>6, <1>8 DEF LoginOK
  <2>2. RefreshOK' /\ OfficeOK'
    BY <1>5, <1>8 DEF RefreshOK, OfficeOK
  <2>3. \A i \in 1 .. Len(token) : lost = 0 /\ Last(i) => Last(i)'
    BY <1>0, <1>8, LastStays
  <2>4. /\ lost = 0 => call'["ghost"].op = "idle"
        /\ call'["refresh"].op \in Presents =>
             call["refresh"].op \in Presents /\ call'["refresh"].raw = call["refresh"].raw
        /\ call'["refresh"].op = "idle" <=> call["refresh"].op = "idle"
        /\ call'["login"].op = "answer" => call["login"].op = "answer" /\ call'["login"].raw = call["login"].raw
    BY <1>4, <1>5, <1>6, <1>8 DEF Presents
  <2> QED BY <1>2, <2>1, <2>2, <2>3, <2>4, QuietStep
<1>9. CASE c # "ghost" /\ Driver!Verify(c)
  <2>1. PICK op \in {"refused", "create"} : Driver!Goto(c, op)
    BY <1>9 DEF Driver!Verify
  <2>2. call'[c] = [own EXCEPT !.op = op]
    BY <1>0, <1>9, <2>1, GoesTo DEF Driver!Verify, Driver!Op, CallOf
  <2>3. call'[c].op = op /\ call'[c].user = own.user /\ own.op = "verify"
    BY <1>0, <1>9, <2>2 DEF Driver!Verify, Driver!Op, Call
  <2> QED BY <1>3, <1>4, <1>8, <1>9, <2>3 DEF Driver!Verify, RefreshOK, OfficeOK
<1>10. CASE c # "ghost" /\ Driver!Find(c)
  <2>1. own.raw # 0 /\ own.op = "find" /\ UNCHANGED token
    BY <1>0, <1>10 DEF Driver!Find, Driver!Op, CallOf
  <2>2. PICK op \in {"reuse", "refused", "rotate"} : Driver!Goto(c, op)
    BY <1>10 DEF Driver!Find
  <2>3. call'[c] = [own EXCEPT !.op = op]
    BY <1>0, <2>1, <2>2, GoesTo
  <2>4. call'[c].op = op /\ call'[c].raw = own.raw
    BY <1>0, <2>3 DEF Call
  <2> QED BY <1>3, <1>4, <1>8, <1>10, <2>1, <2>4 DEF LoginOK, OfficeOK
<1>11. CASE c # "ghost" /\ Driver!DetectReuse(c)
  <2>1. call'[c].op = "revoke" /\ own.op = "reuse" /\ UNCHANGED token
    BY <1>0, <1>11, Sees DEF Driver!DetectReuse, Driver!OfFamily, Driver!Op
  <2> QED BY <1>3, <1>4, <1>8, <1>11, <2>1 DEF LoginOK
<1>12. CASE c # "ghost" /\ Driver!RevokeAll(c)
  <2>1. call'[c].op = "revoke" /\ own.op = "revokeAll" /\ UNCHANGED token
    BY <1>0, <1>12, Sees DEF Driver!RevokeAll, Driver!OfUser, Driver!Op
  <2> QED BY <1>3, <1>4, <1>8, <1>12, <2>1 DEF LoginOK
<1>13. CASE c # "ghost" /\ Driver!Revoke(c)
  <2>1. token' = [i \in DOMAIN token |-> IF i \in own.targets THEN [token[i] EXCEPT !.revoked = TRUE] ELSE token[i]]
    BY <1>13 DEF Driver!Revoke, Driver!Revoked, Driver!Tokens
  <2>2. Revokes
    BY <1>0, <2>1, RevokesRows
  <2>3. own.op = "revoke" /\ call'[c].op = "refused"
    BY <1>0, <1>13 DEF Driver!Revoke, Driver!Op, ServerOK, Call
  <2> QED BY <1>4, <1>8, <1>13, <2>2, <2>3 DEF LoginOK
<1>14. CASE c # "ghost" /\ Driver!ToSession(c)
  BY <1>4, <1>14 DEF Driver!ToSession, Driver!Op, LoginOK, RefreshOK, OfficeOK
<1>15. CASE c # "ghost" /\ Driver!CreateSession(c)
  <2>1. c = "login" /\ own.op = "create" /\ own.user \in Drivers /\ shown = "nobody"
    BY <1>4, <1>15 DEF Driver!CreateSession, Driver!Op, LoginOK, RefreshOK, OfficeOK
  <2>2. PICK r \in Row : r = [family |-> Len(token) + 1, user |-> own.user, revoked |-> FALSE]
    <3>1. own.user \in Drivers /\ Len(token) + 1 \in Nat
      BY <1>0, <2>1
    <3> QED BY <3>1 DEF Row
  <2>3. token' = Append(token, r)
    BY <1>15, <2>2 DEF Driver!CreateSession, Driver!User
  <2>4. BeginsFamily(own.user)
    BY <1>0, <2>2, <2>3, AppendsRow DEF BeginsFamily
  <2>5. /\ call'[c].op = "answer" /\ call'[c].raw = Len(token) + 1 /\ call'[c].user = own.user
        /\ token'[Len(token) + 1].user = own.user
    BY <1>0, <1>1, <1>2, <1>15, <2>1, <2>4, Issues DEF Driver!CreateSession, BeginsFamily, ServerOK
  <2>6. LoginOK'
    BY <2>1, <2>5 DEF LoginOK
  <2>7. /\ LastNow(Len(token) + 1)
        /\ \A i \in 1 .. Len(token) : (Last(i) => Last(i)') /\ token'[i].family # token'[Len(token) + 1].family
    BY <1>0, <2>4, LastStays
  <2>8. /\ call["refresh"].op \in Presents => call["refresh"].raw \in 1 .. Len(token)
        /\ stored # 0 => stored \in 1 .. Len(token)
    BY <1>0, DriverPlaces DEF ServerOK, CallOf, Presents
  <2>9. StoresLast'
    <3> SUFFICES ASSUME lost = 0
                 PROVE  /\ call'["ghost"].op = "idle"
                        /\ stored # 0 /\ call["refresh"].op = "idle" => LastNow(stored)
                        /\ call["refresh"].op \in Presents => LastNow(call["refresh"].raw)
                        /\ LastNow(Len(token) + 1)
                        /\ stored # 0 => token'[stored].family # token'[Len(token) + 1].family
                        /\ call["refresh"].op \in Presents =>
                             token'[call["refresh"].raw].family # token'[Len(token) + 1].family
      BY <1>5, <2>1, <2>5 DEF StoresLast, Fam, Last, LastNow
    <3>1. /\ call["ghost"].op = "idle"
          /\ stored # 0 /\ call["refresh"].op = "idle" => Last(stored)
          /\ call["refresh"].op \in Presents => Last(call["refresh"].raw)
      BY DEF DriverInv, StoresLast
    <3>2. stored # 0 /\ call["refresh"].op = "idle" => LastNow(stored)
      BY <2>7, <2>8, <3>1 DEF Last, LastNow
    <3>3. call["refresh"].op \in Presents => LastNow(call["refresh"].raw)
      BY <1>5, <2>1, <2>7, <2>8, <3>1 DEF Last, LastNow
    <3> QED BY <1>5, <2>1, <2>7, <2>8, <3>1, <3>2, <3>3
  <2>10. CarriesOwn'
    BY <1>2, <1>5, <2>1, <2>8 DEF DriverInv, CarriesOwn, RowsStay
  <2>11. AppOK'
    BY DEF DriverInv, AppOK
  <2> QED BY <1>2, <1>5, <2>1, <2>6, <2>9, <2>10, <2>11 DEF DriverInv
<1>16. CASE c # "ghost" /\ Driver!Rotate(c)
  <2>0. own.op = "rotate" /\ c = "refresh" /\ own.raw \in 1 .. Len(token)
    BY <1>0, <1>4, <1>16 DEF Driver!Rotate, Driver!Op, CallOf, LoginOK, OfficeOK
  <2>1. CASE ~Good(own.raw)
    <3>1. Driver!Goto(c, "refused") /\ UNCHANGED token
      BY <1>16, <2>1 DEF Driver!Rotate, Driver!Active, Driver!Raw, Good
    <3>2. call'[c] = [own EXCEPT !.op = "refused"]
      BY <1>0, <3>1, GoesTo
    <3>3. call'[c].op = "refused"
      BY <1>0, <3>2 DEF Call
    <3> QED BY <1>3, <1>8, <2>0, <3>1, <3>3
  <2>2. CASE Good(own.raw)
    <3>1. token' = Driver!Replaced(own.raw) /\ Driver!Issued(c, Len(token) + 1)
      BY <1>16, <2>2 DEF Driver!Rotate, Driver!Active, Driver!Raw, Good
    <3>2. Replaces(own.raw)
      BY <1>0, <2>0, <2>2, <3>1, ReplacesRow
    <3>3. /\ token'[Len(token) + 1].family = Fam(own.raw) /\ token'[Len(token) + 1].user = token[own.raw].user
          /\ Len(token') = Len(token) + 1
      BY <3>2 DEF Replaces, Fam
    <3>4. /\ LastNow(Len(token) + 1)
          /\ \A i \in 1 .. Len(token) : Last(i) /\ Fam(i) # Fam(own.raw) => Last(i)'
      BY <1>0, <3>2, LastStays
    <3>5. call'[c].op = "answer" /\ call'[c].raw = Len(token) + 1
      BY <1>0, <1>1, <1>2, <2>0, <3>1, <3>3, Issues DEF ServerOK
    <3>6. /\ call["login"].op = "answer" => call["login"].raw \in 1 .. Len(token)
          /\ stored # 0 => stored \in 1 .. Len(token)
          /\ \A i \in 1 .. Len(token) : Fam(i)' = Fam(i) /\ token'[i].user = token[i].user
      BY <1>0, <1>2, DriverPlaces DEF ServerOK, CallOf, RowsStay, Fam
    <3>7. StoresLast'
      <4> SUFFICES ASSUME lost = 0
                   PROVE  /\ call'["ghost"].op = "idle"
                          /\ LastNow(Len(token) + 1)
                          /\ call["login"].op = "answer" =>
                               /\ LastNow(call["login"].raw)
                               /\ stored # 0 => Fam(stored) # Fam(call["login"].raw)
                               /\ Fam(own.raw) # Fam(call["login"].raw)
        BY <1>5, <2>0, <3>3, <3>5, <3>6 DEF StoresLast, Fam, Last, LastNow, Presents
      <4>1. /\ call["ghost"].op = "idle"
            /\ call["login"].op = "answer" =>
                 /\ Last(call["login"].raw)
                 /\ stored # 0 => Fam(stored) # Fam(call["login"].raw)
                 /\ Fam(own.raw) # Fam(call["login"].raw)
        BY <2>0 DEF DriverInv, StoresLast, Presents
      <4>2. call["login"].op = "answer" => LastNow(call["login"].raw)
        BY <1>5, <2>0, <3>4, <3>6, <4>1 DEF Last, LastNow
      <4> QED BY <1>5, <2>0, <3>4, <4>1, <4>2
    <3>8. CarriesOwn'
      BY <2>0, <3>3, <3>5, <3>6 DEF DriverInv, CarriesOwn, Presents
    <3>9. AppOK' /\ RefreshOK'
      BY <2>0, <3>5 DEF DriverInv, AppOK, RefreshOK
    <3> QED BY <1>2, <1>5, <2>0, <3>7, <3>8, <3>9 DEF DriverInv
  <2> QED BY <2>1, <2>2
<1> QED
  BY <1>7, <1>9, <1>10, <1>11, <1>12, <1>13, <1>14, <1>15, <1>16 DEF Driver!ServerStep

LEMMA DriverNextInv ==
  ASSUME DriverInv, Driver!DriverNext \/ UNCHANGED Driver!driverVars
  PROVE  DriverInv'
<1> USE DEF Driver!app, Driver!server, Driver!Login, Driver!Refresh, Driver!Ghost, Driver!Office, Driver!NoUser,
            Driver!Restoring
<1>0. /\ DriverOK' /\ ServerOK /\ "nobody" \notin Drivers /\ "restoring" \notin Drivers
      /\ {"login", "refresh", "ghost", "office"} \subseteq Places /\ stored \in 0 .. Len(token) /\ Len(token) \in Nat
  BY DriverKeeps, DriversAreApart, DriverPlaces DEF DriverInv, DriverOK, ServerOK, RowsOK
<1>1. UNCHANGED token => \A i : /\ Last(i) => Last(i)'
                               /\ Fam(i)' = Fam(i)
  BY DEF Last, Fam
\* A call begins, or its place is free again.
<1>2. ASSUME NEW c \in {"login", "refresh", "ghost", "office"}, NEW op, NEW u, NEW i,
             call' = [call EXCEPT ![c] = CallAs(op, u, i)]
      PROVE  /\ call'[c].op = op /\ call'[c].user = u /\ call'[c].raw = i
             /\ \A d \in {"login", "refresh", "ghost", "office"} : d # c => call'[d] = call[d]
  <2>1. call'[c] = CallAs(op, u, i)
    BY <1>0, <1>2 DEF ServerOK
  <2>2. call'[c].op = op /\ call'[c].user = u /\ call'[c].raw = i
    BY <2>1 DEF CallAs
  <2> QED BY <1>0, <1>2, <2>2 DEF ServerOK
<1>3. ASSUME NEW u \in Drivers, Driver!SignIn(u) PROVE DriverInv'
  <2>1. [Driver!Idle EXCEPT !.op = "verify", !.user = u] = CallAs("verify", u, 0)
    BY Zenon, CallForms
  <2>2. /\ call' = [call EXCEPT !["login"] = CallAs("verify", u, 0)]
        /\ shown = "nobody" /\ UNCHANGED <<token, stored, shown, lost, straddled>>
    BY <1>3, <2>1 DEF Driver!SignIn, Driver!BeginLogin
  <2>3. /\ call'["login"].op = "verify" /\ call'["login"].user = u
        /\ \A d \in {"refresh", "ghost", "office"} : call'[d] = call[d]
    BY <1>0, <2>2 DEF ServerOK, CallAs
  <2>4. LoginOK' /\ RefreshOK' /\ OfficeOK' /\ AppOK'
    BY <2>2, <2>3 DEF DriverInv, LoginOK, RefreshOK, OfficeOK, AppOK
  <2>5. StoresLast' /\ CarriesOwn'
    BY <1>1, <2>2, <2>3 DEF DriverInv, StoresLast, CarriesOwn
  <2> QED BY <1>0, <2>4, <2>5 DEF DriverInv
<1>4. ASSUME NEW u \in Drivers, Driver!SetBlocked(u) PROVE DriverInv'
  <2>0. UNCHANGED <<token, stored, shown, lost, straddled>>
    BY <1>4 DEF Driver!SetBlocked, Driver!Block, Driver!Unblock
  <2>1. \/ UNCHANGED call
        \/ call' = [call EXCEPT !["office"] = CallAs("revokeAll", u, 0)]
    <3>1. [Driver!Idle EXCEPT !.op = "revokeAll", !.user = u] = CallAs("revokeAll", u, 0)
      BY Zenon, CallForms
    <3> QED BY <1>4, <3>1 DEF Driver!SetBlocked, Driver!Block, Driver!Unblock
  <2>2. /\ \A d \in {"login", "refresh", "ghost"} : call'[d] = call[d]
        /\ call'["office"] = call["office"] \/ call'["office"].op = "revokeAll"
    BY <1>2, <2>1
  <2>3. LoginOK' /\ RefreshOK' /\ OfficeOK' /\ AppOK'
    BY <2>0, <2>2 DEF DriverInv, LoginOK, RefreshOK, OfficeOK, AppOK
  <2>4. StoresLast' /\ CarriesOwn'
    BY <1>1, <2>0, <2>2 DEF DriverInv, StoresLast, CarriesOwn
  <2> QED BY <1>0, <2>3, <2>4 DEF DriverInv
<1>5. ASSUME NEW c \in {"login", "refresh", "ghost", "office"}, call' = [call EXCEPT ![c] = Driver!Idle]
      PROVE  /\ call'[c].op = "idle"
             /\ \A d \in {"login", "refresh", "ghost", "office"} : d # c => call'[d] = call[d]
  <2>1. call' = [call EXCEPT ![c] = CallAs("idle", "nobody", 0)]
    BY <1>5, CallIdle
  <2>2. call'[c] = CallAs("idle", "nobody", 0)
    BY <1>0, <2>1 DEF ServerOK
  <2> QED BY <1>0, <2>1, <2>2 DEF ServerOK, CallAs
<1>6. CASE Driver!SignedIn
  <2>1. /\ call' = [call EXCEPT !["login"] = Driver!Idle]
        /\ UNCHANGED <<token, lost, straddled>> /\ call["login"].op \in {"answer", "refused"}
    BY <1>6 DEF Driver!SignedIn, Driver!Ended, Driver!Op
  <2>2. call'["login"].op = "idle" /\ \A d \in {"refresh", "ghost", "office"} : call'[d] = call[d]
    BY <1>5, <2>1
  <2>3. call["login"].user \in Drivers /\ shown = "nobody"
    BY <2>1 DEF DriverInv, LoginOK
  <2>4. CASE call["login"].op = "refused"
    <3>1. UNCHANGED <<stored, shown>>
      BY <1>6, <2>4 DEF Driver!SignedIn, Driver!Op
    <3>2. LoginOK' /\ RefreshOK' /\ OfficeOK' /\ AppOK'
      BY <2>1, <2>2, <3>1 DEF DriverInv, LoginOK, RefreshOK, OfficeOK, AppOK
    <3>3. StoresLast' /\ CarriesOwn'
      BY <1>1, <2>1, <2>2, <3>1 DEF DriverInv, StoresLast, CarriesOwn
    <3> QED BY <1>0, <3>2, <3>3 DEF DriverInv
  <2>5. CASE call["login"].op = "answer"
    <3>1. stored' = call["login"].raw /\ shown' = call["login"].user /\ token[call["login"].raw].user = shown'
      BY <1>6, <2>5 DEF Driver!SignedIn, Driver!Op, Driver!Raw, Driver!User, DriverInv, LoginOK
    <3>2. LoginOK' /\ RefreshOK' /\ OfficeOK' /\ AppOK'
      BY <2>1, <2>2, <2>3, <3>1 DEF DriverInv, LoginOK, RefreshOK, OfficeOK, AppOK
    <3>3. StoresLast'
      BY <1>1, <2>1, <2>2, <2>5, <3>1 DEF DriverInv, StoresLast, Last
    <3>4. CarriesOwn'
      BY <1>0, <2>1, <2>2, <2>3, <3>1 DEF DriverInv, CarriesOwn, Presents
    <3> QED BY <1>0, <3>2, <3>3, <3>4 DEF DriverInv
  <2> QED BY <2>1, <2>4, <2>5
<1>7. CASE Driver!Unauthorized
  <2>1. [Driver!Idle EXCEPT !.op = "find", !.user = token[stored].user, !.raw = stored]
          = CallAs("find", token[stored].user, stored)
    BY Zenon, DriverFinds
  <2>2. /\ call' = [call EXCEPT !["refresh"] = CallAs("find", token[stored].user, stored)]
        /\ stored # 0 /\ call["refresh"].op = "idle"
        /\ UNCHANGED <<token, stored, shown, lost, straddled>>
    BY <1>7, <2>1 DEF Driver!Unauthorized, Driver!BeginRefresh, Driver!Op
  <2>3. /\ call'["refresh"].op = "find" /\ call'["refresh"].raw = stored
        /\ \A d \in {"login", "ghost", "office"} : call'[d] = call[d]
    <3>1. PICK u : u = token[stored].user
      OBVIOUS
    <3>2. call' = [call EXCEPT !["refresh"] = CallAs("find", u, stored)]
      BY <2>2, <3>1
    <3>3. /\ call'["refresh"] = CallAs("find", u, stored)
          /\ \A d \in {"login", "refresh", "ghost", "office"} : d # "refresh" => call'[d] = call[d]
      BY <1>0, <3>2 DEF ServerOK
    <3> QED BY <3>3 DEF CallAs
  <2>4. LoginOK' /\ RefreshOK' /\ OfficeOK' /\ AppOK'
    BY <2>2, <2>3 DEF DriverInv, LoginOK, RefreshOK, OfficeOK, AppOK
  <2>5. StoresLast'
    BY <1>1, <2>2, <2>3 DEF DriverInv, StoresLast, Presents
  <2>6. CarriesOwn'
    BY <1>0, <2>2, <2>3 DEF DriverInv, CarriesOwn, Presents
  <2> QED BY <1>0, <2>4, <2>5, <2>6 DEF DriverInv
<1>8. CASE Driver!Refreshed \/ Driver!LostRefresh
  <2>1. /\ call' = [call EXCEPT !["refresh"] = Driver!Idle] /\ UNCHANGED <<token, shown, straddled>>
        /\ call["refresh"].op \in {"answer", "refused"} /\ lost' \in {lost, lost + 1}
        /\ stored' = 0 \/ (stored' = call["refresh"].raw /\ call["refresh"].op = "answer")
    BY <1>8 DEF Driver!Refreshed, Driver!LostRefresh, Driver!Ended, Driver!Op, Driver!Raw
  <2>2. call'["refresh"].op = "idle" /\ \A d \in {"login", "ghost", "office"} : call'[d] = call[d]
    BY <1>5, <2>1
  <2>3. LoginOK' /\ RefreshOK' /\ OfficeOK' /\ AppOK' /\ (lost' = 0 => lost = 0)
    BY <2>1, <2>2 DEF DriverInv, LoginOK, RefreshOK, OfficeOK, AppOK
  <2>4. StoresLast'
    BY <1>1, <2>1, <2>2, <2>3 DEF DriverInv, StoresLast, Presents, Last
  <2>5. CarriesOwn'
    BY <1>0, <2>1, <2>2 DEF DriverInv, CarriesOwn, Presents
  <2> QED BY <1>0, <2>3, <2>4, <2>5 DEF DriverInv
<1>9. CASE Driver!SignOut \/ Driver!NothingToRestore \/ Driver!Restore \/ Driver!LostProfile
  <2>1. UNCHANGED <<token, call>> /\ lost' \in {lost, lost + 1} /\ stored' \in {0, stored} /\ call["login"].op = "idle"
    BY <1>0, <1>9 DEF Driver!SignOut, Driver!NothingToRestore, Driver!Restore, Driver!LostProfile,
       DriverInv, LoginOK
  <2>2. AppOK' /\ (lost' = 0 => lost = 0)
    <3>1. stored # 0 => token[stored].user \in Drivers
      <4>1. stored # 0 => token[stored] \in Row
        BY <1>0 DEF ServerOK, RowsOK
      <4> QED BY <4>1 DEF Row
    <3>2. straddled' \in BOOLEAN
      BY Zenon, <1>9 DEF Driver!SignOut, Driver!NothingToRestore, Driver!Restore,
         Driver!LostProfile, Driver!Busy,
         DriverInv, AppOK
    <3>3. shown' \in Drivers \cup {"nobody", "restoring"}
      BY <1>9, <3>1 DEF Driver!SignOut, Driver!NothingToRestore, Driver!Restore, Driver!LostProfile
    <3>4. lost' \in Nat /\ (lost' = 0 => lost = 0)
      BY <2>1 DEF DriverInv, AppOK
    <3> QED BY <3>2, <3>3, <3>4 DEF AppOK
  <2>3. LoginOK' /\ RefreshOK' /\ OfficeOK'
    BY <2>1 DEF DriverInv, LoginOK, RefreshOK, OfficeOK
  <2>4. StoresLast'
    BY <1>1, <2>1, <2>2 DEF DriverInv, StoresLast
  <2>5. CarriesOwn'
    <3>1. CASE Driver!SignOut
      <4>1. ~straddled' => call["refresh"].op = "idle"
        BY Zenon, <3>1 DEF Driver!SignOut, Driver!Busy, Driver!Op
      <4>2. stored' = 0 /\ shown' = "nobody" /\ UNCHANGED call
        BY <3>1 DEF Driver!SignOut
      <4> QED BY <1>0, <4>1, <4>2 DEF CarriesOwn
    <3>2. CASE Driver!NothingToRestore \/ Driver!LostProfile
      BY <1>0, <2>1, <3>2 DEF Driver!NothingToRestore, Driver!LostProfile, Driver!Busy, Driver!Op,
         CarriesOwn
    <3>3. CASE Driver!Restore
      <4>1. /\ UNCHANGED <<token, call, stored, straddled>> /\ stored # 0 /\ call["refresh"].op = "idle"
            /\ shown' = token[stored].user
        BY <3>3 DEF Driver!Restore, Driver!Busy, Driver!Op
      <4>2. token[stored] \in Row
        BY <1>0, <4>1 DEF ServerOK, RowsOK
      <4>3. shown' \in Drivers
        BY <4>1, <4>2 DEF Row
      <4> QED BY <1>0, <4>1, <4>3 DEF CarriesOwn, Presents
    <3> QED BY <1>9, <3>1, <3>2, <3>3
  <2> QED BY <1>0, <2>2, <2>3, <2>4, <2>5 DEF DriverInv
<1>10. CASE Driver!Kill
  <2>1. /\ call' = [call EXCEPT !["ghost"] = call["refresh"], !["refresh"] = Driver!Idle]
        /\ shown \in Drivers /\ shown' = "restoring" /\ lost' = lost + 1 /\ UNCHANGED <<token, stored, straddled>>
    BY <1>10 DEF Driver!Kill
  <2>2. /\ call'["refresh"].op = "idle" /\ call'["login"] = call["login"] /\ call'["office"] = call["office"]
    BY <1>0, <2>1, CallIdle DEF ServerOK, CallAs
  <2>3. call["login"].op = "idle"
    BY <1>0, <2>1 DEF DriverInv, LoginOK
  <2>4. LoginOK' /\ RefreshOK' /\ OfficeOK' /\ AppOK' /\ lost' # 0
    BY <2>1, <2>2, <2>3 DEF DriverInv, LoginOK, RefreshOK, OfficeOK, AppOK
  <2>5. StoresLast' /\ CarriesOwn'
    BY <1>0, <2>1, <2>4 DEF StoresLast, CarriesOwn
  <2> QED BY <1>0, <2>4, <2>5 DEF DriverInv
<1>11. CASE Driver!Dropped("ghost") \/ Driver!Dropped("office")
  <2>1. PICK c \in {"ghost", "office"} : call' = [call EXCEPT ![c] = Driver!Idle]
    BY <1>11 DEF Driver!Dropped, Driver!Answered
  <2>2. UNCHANGED <<token, stored, shown, lost, straddled>>
    BY <1>11 DEF Driver!Dropped, Driver!Answered
  <2>3. call'[c].op = "idle" /\ \A d \in {"login", "refresh", "ghost", "office"} : d # c => call'[d] = call[d]
    BY <1>5, <2>1
  <2>4. /\ call'["login"] = call["login"] /\ call'["refresh"] = call["refresh"]
        /\ call'["ghost"].op \in {"idle", call["ghost"].op} /\ call'["office"].op \in {"idle", call["office"].op}
    BY <2>3
  <2>5. LoginOK' /\ RefreshOK' /\ OfficeOK' /\ AppOK'
    BY <2>2, <2>4 DEF DriverInv, LoginOK, RefreshOK, OfficeOK, AppOK
  <2>6. StoresLast' /\ CarriesOwn'
    BY <1>1, <2>2, <2>4 DEF DriverInv, StoresLast, CarriesOwn
  <2> QED BY <1>0, <2>5, <2>6 DEF DriverInv
<1>12. ASSUME NEW c \in {"login", "refresh", "ghost", "office"}, Driver!Served(c) PROVE DriverInv'
  BY <1>12, DriverServes DEF Driver!Served
<1>13. CASE UNCHANGED Driver!driverVars
  <2>1. UNCHANGED <<token, call, stored, shown, lost, straddled>>
    BY <1>13 DEF Driver!driverVars
  <2>2. LoginOK' /\ RefreshOK' /\ OfficeOK' /\ AppOK' /\ StoresLast' /\ CarriesOwn'
    BY <1>1, <2>1 DEF DriverInv, LoginOK, RefreshOK, OfficeOK, AppOK, StoresLast, CarriesOwn
  <2> QED BY <1>0, <2>2 DEF DriverInv
<1> QED
  BY <1>3, <1>4, <1>6, <1>7, <1>8, <1>9, <1>10, <1>11, <1>12, <1>13 DEF Driver!DriverNext,
     Driver!DriverCalls

\* The driver's app keeps its session as long as no answer is lost, and never carries another driver's token but
\* after a sign-out during a refresh.
THEOREM AppKeepsSession == Spec => []AppKeepsItsSession
<1> DEFINE Inv == focus = "driver" => DriverInv
<1>1. Init => Inv
  <2> SUFFICES ASSUME Init, focus = "driver" PROVE DriverInv
    OBVIOUS
  <2>1. DriverOK
    BY ClientsInit
  <2>2. /\ \A c \in Places : call[c] = CallAs("idle", "nobody", 0)
        /\ stored = 0 /\ shown = "nobody" /\ lost = 0 /\ straddled = FALSE
    BY CallIdle DEF Init, Driver!DriverInit, Driver!ServerInit, Driver!NoUser
  <2>3. \A c \in {"login", "refresh", "ghost", "office"} : call[c].op = "idle"
    BY <2>2, DriverPlaces DEF CallAs
  <2> QED BY <2>1, <2>2, <2>3, DriversAreApart
          DEF DriverInv, AppOK, LoginOK, RefreshOK, OfficeOK, StoresLast, CarriesOwn, Presents
<1>2. Inv /\ [Next]_vars => Inv'
  BY TakesSteps, DriverNextInv
<1>3. Inv => AppKeepsItsSession
  <2> SUFFICES ASSUME DriverInv, stored # 0
               PROVE  /\ lost = 0 /\ call["refresh"].op = "idle" =>
                           \A i \in DOMAIN token : token[i].family = token[stored].family => i <= stored
                      /\ shown \in Drivers /\ ~straddled => token[stored].user = shown
    BY DEF AppKeepsItsSession, Driver!AppKeepsItsSession, Driver!Busy, Driver!Op, Driver!Refresh,
       Driver!OfFamily,
           Driver!Tokens
  <2>1. DOMAIN token = 1 .. Len(token)
    BY DEF DriverInv, DriverOK, ServerOK, RowsOK
  <2> QED BY <2>1 DEF DriverInv, StoresLast, CarriesOwn, Last
<1> QED BY <1>1, <1>2, <1>3, PTL DEF Spec

-----------------------------------------------------------------------------
(***************************************************************************)
(* The phone is watched for the newest operation of a screen that is       *)
(* there.                                                                  *)
(*                                                                         *)
(* The argument: an operation under way that is not aborted is the current *)
(* one of a mounted screen, and one that goes on to watch has shown a      *)
(* position, which is never taken back.                                    *)
(***************************************************************************)

Locating == [at : Location!Steps, ask : BOOLEAN, result : Location!Results \cup {"none"}]
Watching == {"watch permission", "watch services", "watch"}

LocationInv ==
  /\ operation \in [Location!Locates -> Locating]
  /\ view \in [position : Nat, error : Location!Failures \cup {"none"}, loading : BOOLEAN,
               permission : Location!Permissions]
  /\ phone \in [permission : Location!Permissions, gps : BOOLEAN]
  /\ \A o \in Location!Locates :
       /\ operation[o].at \notin {"none", "done"} /\ o \notin aborted => o = current /\ mounted
       /\ operation[o].at \in Watching => view.position # 0
  /\ \A o \in subscribed : o = current /\ mounted /\ view.position # 0

\* An operation takes a step.
LEMMA OperationMoves ==
  ASSUME LocationInv, NEW o \in Location!Locates,
         NEW at \in Location!Steps, NEW result \in Location!Results \cup {"none"}, NEW next,
         \/ next = [operation EXCEPT ![o].at = at]
         \/ next = [operation EXCEPT ![o].at = at, ![o].result = result]
  PROVE  /\ next \in [Location!Locates -> Locating]
         /\ next[o].at = at
         /\ \A p \in Location!Locates : p # o => next[p] = operation[p]
BY DEF LocationInv, Locating

LEMMA NobodyMoves ==
  ASSUME LocationInv, NEW o, o \notin Location!Locates, NEW next,
         next = [operation EXCEPT ![o].at = "located", ![o].result = "cancelled"]
  PROVE  next \in [Location!Locates -> Locating] /\ \A p \in Location!Locates : next[p] = operation[p]
<1>1. DOMAIN next = Location!Locates /\ next = [p \in Location!Locates |-> next[p]]
  BY DEF LocationInv
<1>2. \A p \in Location!Locates : next[p] = operation[p]
  BY DEF LocationInv
<1> QED BY <1>1, <1>2 DEF LocationInv

LEMMA LocationStep ==
  ASSUME LocationInv, NEW o \in Location!Locates, operation[o].at \notin {"none", "done"},
         NEW at \in Location!Steps, NEW result \in Location!Results \cup {"none"},
         \/ operation' = [operation EXCEPT ![o].at = at]
         \/ operation' = [operation EXCEPT ![o].at = at, ![o].result = result],
         at \in Watching => view'.position # 0,
         view' \in [position : Nat, error : Location!Failures \cup {"none"}, loading : BOOLEAN,
                    permission : Location!Permissions],
         phone' \in [permission : Location!Permissions, gps : BOOLEAN],
         view.position # 0 => view'.position # 0,
         UNCHANGED <<mounted, current, aborted>>,
         \A p \in subscribed' : p \in subscribed \/ (p = current /\ mounted /\ view'.position # 0)
  PROVE  LocationInv'
<1>1. PICK next \in [Location!Locates -> Locating] :
        /\ operation' = next
        /\ next[o].at = at
        /\ \A p \in Location!Locates : p # o => next[p] = operation[p]
  BY OperationMoves
<1>2. ASSUME NEW p \in Location!Locates
      PROVE  /\ operation'[p].at \notin {"none", "done"} /\ p \notin aborted' => p = current' /\ mounted'
             /\ operation'[p].at \in Watching => view'.position # 0
  BY <1>1 DEF LocationInv
<1>3. \A p \in subscribed' : p = current' /\ mounted' /\ view'.position # 0
  BY DEF LocationInv
<1> QED BY <1>1, <1>2, <1>3 DEF LocationInv, Location!Locates

\* A new operation takes the place of the current one.
LEMMA LocateStep ==
  ASSUME LocationInv, NEW o \in Location!Locates, NEW ask \in BOOLEAN, NEW from \in [Location!Locates -> Locating],
         \A p \in Location!Locates : from[p].at \in Watching \/ from[p].at \notin {"none", "done"} =>
           operation[p].at \notin {"none", "done"} /\ (from[p].at \in Watching => operation[p].at \in Watching),
         Location!Locate(o, ask, from), mounted, UNCHANGED <<phone, mounted>>,
         view' \in [position : Nat, error : Location!Failures \cup {"none"}, loading : BOOLEAN,
                    permission : Location!Permissions],
         view'.position = view.position
  PROVE  LocationInv'
<1>1. PICK new \in Locating : new = [at |-> "permission", ask |-> ask, result |-> "none"]
  BY DEF Locating, Location!Steps
<1>2. operation' = [from EXCEPT ![o] = new] /\ new.at = "permission"
  BY <1>1 DEF Location!Locate
<1>3. operation' \in [Location!Locates -> Locating] /\ operation'[o].at = "permission"
  BY <1>2
<1>4. \A p \in Location!Locates : p # o => operation'[p] = from[p]
  BY <1>2
<1>5. current' = o /\ aborted' = aborted \cup ({current} \ {0}) /\ subscribed' = subscribed \ {current}
  BY DEF Location!Locate, Location!Stop, Location!None
<1>6. subscribed' = {}
  BY <1>5 DEF LocationInv
<1>7. ASSUME NEW p \in Location!Locates
      PROVE  /\ operation'[p].at \notin {"none", "done"} /\ p \notin aborted' => p = current' /\ mounted'
             /\ operation'[p].at \in Watching => view'.position # 0
  <2>1. CASE p = o
    BY <1>3, <1>5, <2>1 DEF Watching
  <2>2. CASE p # o
    <3>1. p # 0
      BY DEF Location!Locates
    <3> QED BY <1>4, <1>5, <2>2, <3>1 DEF LocationInv
  <2> QED BY <2>1, <2>2
<1> QED BY <1>3, <1>6, <1>7 DEF LocationInv, Location!Locates

LEMMA CancelledMoves ==
  ASSUME LocationInv, NEW o
  PROVE  /\ Location!Cancelled(o) \in [Location!Locates -> Locating]
         /\ \A p \in Location!Locates :
              \/ Location!Cancelled(o)[p] = operation[p]
              \/ operation[p].at = "position" /\ Location!Cancelled(o)[p].at = "located"
<1>0. /\ "located" \in Location!Steps /\ "cancelled" \in Location!Results \cup {"none"}
      /\ Location!Cancelled(o) = IF operation[o].at = "position"
                                   THEN [operation EXCEPT ![o].at = "located", ![o].result = "cancelled"]
                                   ELSE operation
  BY DEF Location!Cancelled, Location!Steps, Location!Results, Location!Failures
<1>1. CASE operation[o].at # "position"
  BY <1>0, <1>1 DEF LocationInv
<1>2. CASE operation[o].at = "position"
  <2>1. PICK next : next = Location!Cancelled(o)
    OBVIOUS
  <2>2. next = [operation EXCEPT ![o].at = "located", ![o].result = "cancelled"]
    BY <1>0, <1>2, <2>1
  <2>3. CASE o \in Location!Locates
    <3>1. /\ next \in [Location!Locates -> Locating]
          /\ next[o].at = "located"
          /\ \A p \in Location!Locates : p # o => next[p] = operation[p]
      BY <1>0, <2>2, <2>3, OperationMoves
    <3> QED BY <1>2, <2>1, <3>1
  <2>4. CASE o \notin Location!Locates
    BY <2>1, <2>2, <2>4, NobodyMoves
  <2> QED BY <2>3, <2>4
<1> QED BY <1>1, <1>2

LEMMA LocationNext ==
  ASSUME LocationInv, [Location!Next]_(Location!vars)
  PROVE  LocationInv'
<1> DEFINE View == [position : Nat, error : Location!Failures \cup {"none"}, loading : BOOLEAN,
                    permission : Location!Permissions]
<1>0. /\ view \in View /\ \A o \in Location!Locates : o \in Nat /\ o # 0
      /\ Location!PermissionStates \subseteq Location!Permissions
  BY DEF LocationInv, Location!Locates, Location!PermissionStates, Location!Permissions
<1>1. CASE UNCHANGED Location!vars
  BY <1>1 DEF Location!vars, LocationInv, Location!Locates
<1>2. CASE Location!Mount
  <2>1. "mount" \in Location!Steps /\ "none" \in Location!Results \cup {"none"} /\ 1 \in Location!Locates
    BY LocateBounds DEF Location!Steps, Location!Locates
  <2>2. PICK next : next = [operation EXCEPT ![1].at = "mount"] /\ operation' = next
    BY <1>2 DEF Location!Mount
  <2>3. /\ next \in [Location!Locates -> Locating]
        /\ next[1].at = "mount"
        /\ \A p \in Location!Locates : p # 1 => next[p] = operation[p]
    <3>1. PICK one \in Location!Locates : one = 1
      BY <2>1
    <3>2. next = [operation EXCEPT ![one].at = "mount"]
      BY Zenon, <2>2, <3>1
    <3>3. /\ next \in [Location!Locates -> Locating]
          /\ next[one].at = "mount"
          /\ \A p \in Location!Locates : p # one => next[p] = operation[p]
      BY <2>1, <3>2 DEF LocationInv, Locating
    <3> QED BY <3>1, <3>3
  <2> HIDE DEF View
  <2> QED BY <1>2, <2>2, <2>3 DEF Location!Mount, LocationInv, Location!Locates, Watching
<1>3. CASE Location!Unmount
  <2>1. /\ Location!Cancelled(current) \in [Location!Locates -> Locating]
        /\ \A p \in Location!Locates :
             \/ Location!Cancelled(current)[p] = operation[p]
             \/ operation[p].at = "position" /\ Location!Cancelled(current)[p].at = "located"
    BY CancelledMoves
  <2>2. /\ operation' = Location!Cancelled(current) /\ aborted' = aborted \cup {1, current}
        /\ subscribed' = subscribed \ {current} /\ UNCHANGED <<phone, current, view>>
    BY <1>3 DEF Location!Unmount
  <2> HIDE DEF View
  <2> QED BY <2>1, <2>2 DEF LocationInv, Location!Locates, Watching
<1>4. CASE Location!SwitchGps
  <2>1. phone' \in [permission : Location!Permissions, gps : BOOLEAN]
    BY <1>4 DEF Location!SwitchGps, LocationInv
  <2> QED BY <1>4, <2>1 DEF Location!SwitchGps, LocationInv, Location!Locates
<1>5. ASSUME NEW o \in Location!Locates, NEW ask \in BOOLEAN, Location!Ask(o, ask) PROVE LocationInv'
  <2>0. PICK first \in View : first = [view EXCEPT !.loading = TRUE] /\ first.position = view.position
    <3>1. [view EXCEPT !.loading = TRUE] \in View /\ [view EXCEPT !.loading = TRUE].position = view.position
      BY <1>0
    <3> QED BY Zenon, <3>1
  <2>1. PICK next \in View : next = [view EXCEPT !.loading = TRUE, !.error = "none"] /\ next.position = view.position
    <3>1. PICK next \in View : next = [first EXCEPT !.error = "none"] /\ next.position = first.position
      <4>1. [first EXCEPT !.error = "none"] \in View /\ [first EXCEPT !.error = "none"].position = first.position
        BY <2>0
      <4> QED BY Zenon, <4>1
    <3>2. next = [view EXCEPT !.loading = TRUE, !.error = "none"]
      BY Zenon, <2>0, <3>1
    <3> QED BY <2>0, <3>1, <3>2
  <2>2. view' = next /\ mounted /\ Location!Locate(o, ask, Location!Cancelled(current)) /\ UNCHANGED <<phone, mounted>>
    BY <1>5, <2>1 DEF Location!Ask
  <2>3. PICK from \in [Location!Locates -> Locating] :
          /\ from = Location!Cancelled(current)
          /\ \A p \in Location!Locates : from[p] = operation[p] \/ (operation[p].at = "position" /\ from[p].at = "located")
    BY CancelledMoves
  <2>4. \A p \in Location!Locates : from[p].at \in Watching \/ from[p].at \notin {"none", "done"} =>
          operation[p].at \notin {"none", "done"} /\ (from[p].at \in Watching => operation[p].at \in Watching)
    BY <2>3 DEF Watching
  <2> QED BY <2>1, <2>2, <2>3, <2>4, LocateStep
<1>6. CASE Location!Mounted
  <2>1. PICK permission \in Location!PermissionStates, o \in Location!Locates :
    /\ operation[1].at = "mount"
    /\ IF Location!Wanted(1)
         THEN IF permission = "granted"
                THEN /\ Location!Locate(o, FALSE, [operation EXCEPT ![1].at = "done"])
                     /\ view' = [view EXCEPT !.permission = permission, !.loading = TRUE, !.error = "none"]
                ELSE /\ view' = [view EXCEPT !.permission = permission, !.loading = FALSE]
                     /\ Location!Goto(1, "done")
                     /\ UNCHANGED <<current, aborted, subscribed>>
         ELSE Location!Goto(1, "done") /\ UNCHANGED <<current, aborted, subscribed, view>>
    /\ UNCHANGED <<phone, mounted>>
    BY <1>6 DEF Location!Mounted
  <2>2. 1 \in Location!Locates
    BY LocateBounds, <2>1 DEF Location!Locates
  <2>3. CASE /\ Location!Wanted(1) /\ Location!Locate(o, FALSE, [operation EXCEPT ![1].at = "done"])
             /\ view' = [view EXCEPT !.permission = permission, !.loading = TRUE, !.error = "none"]
    <3>0. PICK first \in View : first = [view EXCEPT !.permission = permission] /\ first.position = view.position
      <4>1. /\ [view EXCEPT !.permission = permission] \in View
            /\ [view EXCEPT !.permission = permission].position = view.position
        BY <1>0
      <4> QED BY Zenon, <4>1
    <3>4. PICK second \in View : second = [first EXCEPT !.loading = TRUE] /\ second.position = view.position
      <4>1. [first EXCEPT !.loading = TRUE] \in View /\ [first EXCEPT !.loading = TRUE].position = view.position
        BY <3>0
      <4> QED BY Zenon, <4>1
    <3>5. PICK next \in View : next = [second EXCEPT !.error = "none"] /\ next.position = view.position
      <4>1. [second EXCEPT !.error = "none"] \in View /\ [second EXCEPT !.error = "none"].position = view.position
        BY <3>4
      <4> QED BY Zenon, <4>1
    <3>1. next = [view EXCEPT !.permission = permission, !.loading = TRUE, !.error = "none"]
      BY Zenon, <3>0, <3>4, <3>5
    <3>2. PICK from \in [Location!Locates -> Locating] :
            /\ from = [operation EXCEPT ![1].at = "done"]
            /\ \A p \in Location!Locates : from[p] = operation[p] \/ from[p].at = "done"
      <4>1. "done" \in Location!Steps /\ "none" \in Location!Results \cup {"none"}
        BY DEF Location!Steps
      <4>2. PICK from : from = [operation EXCEPT ![1].at = "done"]
        OBVIOUS
      <4>3. /\ from \in [Location!Locates -> Locating]
            /\ from[1].at = "done"
            /\ \A p \in Location!Locates : p # 1 => from[p] = operation[p]
        <5>1. PICK one \in Location!Locates : one = 1
          BY <2>2
        <5>2. from = [operation EXCEPT ![one].at = "done"]
          BY Zenon, <4>2, <5>1
        <5>3. /\ from \in [Location!Locates -> Locating]
              /\ from[one].at = "done"
              /\ \A p \in Location!Locates : p # one => from[p] = operation[p]
          BY <4>1, <5>2 DEF LocationInv, Locating
        <5> QED BY <5>1, <5>3
      <4> QED BY Zenon, <4>2, <4>3
    <3>3. \A p \in Location!Locates : from[p].at \in Watching \/ from[p].at \notin {"none", "done"} =>
            operation[p].at \notin {"none", "done"} /\ (from[p].at \in Watching => operation[p].at \in Watching)
      BY <3>2 DEF Watching
    <3> QED BY <2>1, <2>3, <3>1, <3>2, <3>3, <3>5, LocateStep DEF Location!Wanted
  <2>4. CASE /\ view' = [view EXCEPT !.permission = permission, !.loading = FALSE] \/ UNCHANGED view
             /\ Location!Goto(1, "done") /\ UNCHANGED <<current, aborted, subscribed>>
    <3>1. view' \in View /\ view'.position = view.position
      BY <1>0, <2>4
    <3>2. "done" \in Location!Steps /\ "none" \in Location!Results \cup {"none"} /\ "done" \notin Watching
      BY DEF Location!Steps, Watching
    <3>3. /\ operation[1].at \notin {"none", "done"} /\ UNCHANGED <<phone, mounted, current, aborted, subscribed>>
          /\ operation' = [operation EXCEPT ![1].at = "done"]
      BY <2>1, <2>4 DEF Location!Goto
    <3>4. phone' \in [permission : Location!Permissions, gps : BOOLEAN]
      BY <3>3 DEF LocationInv
    <3> QED BY <2>2, <3>1, <3>2, <3>3, <3>4, LocationStep
  <2> QED BY <2>1, <2>3, <2>4
<1>7. ASSUME NEW o \in Location!Locates, Location!Proceed(o) PROVE LocationInv'
  <2>1. CASE Location!Show(o)
    <3>1. PICK permission \in Location!PermissionStates :
            IF ~Location!Wanted(o) THEN Location!Goto(o, "done") /\ UNCHANGED view
            ELSE IF operation[o].result = "ok"
              THEN /\ view' = [position |-> o, error |-> "none", loading |-> FALSE, permission |-> permission]
                   /\ Location!Goto(o, "watch permission")
              ELSE /\ view' = [view EXCEPT !.error = operation[o].result, !.loading = FALSE,
                                           !.permission = permission]
                   /\ Location!Goto(o, "done")
      BY <2>1 DEF Location!Show
    <3>2. operation[o].at = "state" /\ UNCHANGED <<phone, mounted, current, aborted, subscribed>>
      BY <2>1 DEF Location!Show
    <3>3. PICK at \in Location!Steps :
            /\ Location!Goto(o, at) /\ view' \in View /\ (view.position # 0 => view'.position # 0)
            /\ at \in Watching => view'.position # 0
      <4>1. CASE Location!Goto(o, "done") /\ UNCHANGED view
        BY <1>0, <4>1 DEF Location!Steps, Watching
      <4>2. CASE /\ view' = [position |-> o, error |-> "none", loading |-> FALSE, permission |-> permission]
                 /\ Location!Goto(o, "watch permission")
        BY <1>0, <4>2 DEF Location!Steps
      <4>3. CASE /\ view' = [view EXCEPT !.error = operation[o].result, !.loading = FALSE, !.permission = permission]
                 /\ Location!Goto(o, "done") /\ operation[o].result # "ok"
        <5>1. operation[o].result \in Location!Failures \cup {"none"}
          BY <4>3 DEF LocationInv, Locating, Location!Results
        <5>2. view' \in View /\ view'.position = view.position
          BY <1>0, <4>3, <5>1
        <5> QED BY <4>3, <5>2 DEF Location!Steps, Watching
      <4> QED BY <3>1, <4>1, <4>2, <4>3
    <3> QED BY <3>2, <3>3, LocationStep DEF Location!Goto, Location!Results, LocationInv
  <2>2. CASE Location!Located(o) \/ Location!AnswerPermission(o) \/ Location!AnswerServices(o) \/ Location!AnswerPosition(o)
    <3>1. PICK at \in Location!Steps, result \in Location!Results :
            /\ at \notin Watching
            /\ \/ operation' = [operation EXCEPT ![o].at = at]
               \/ operation' = [operation EXCEPT ![o].at = at, ![o].result = result]
      BY <2>2 DEF Location!Located, Location!AnswerPermission, Location!AnswerServices,
         Location!AnswerPosition,
         Location!Goto, Location!Resolve, Location!Refused, Location!Results, Location!Failures, Location!Steps, Watching
    <3>2. operation[o].at \notin {"none", "done"} /\ UNCHANGED <<mounted, current, aborted, subscribed, view>>
      BY <2>2 DEF Location!Located, Location!AnswerPermission, Location!AnswerServices,
         Location!AnswerPosition
    <3>3. phone' \in [permission : Location!Permissions, gps : BOOLEAN]
      <4>1. CASE UNCHANGED phone
        BY <4>1 DEF LocationInv
      <4>2. CASE Location!AnswerPermission(o)
        <5>1. PICK answer \in Location!Permissions : phone' = [phone EXCEPT !.permission = answer]
          BY <4>2 DEF Location!AnswerPermission, LocationInv, Location!Permissions
        <5> QED BY <5>1 DEF LocationInv
      <4> QED BY <2>2, <4>1, <4>2 DEF Location!Located, Location!AnswerServices,
                 Location!AnswerPosition
    <3> HIDE DEF View
    <3> QED BY <1>0, <3>1, <3>2, <3>3, LocationStep DEF View
  <2> QED BY <1>7, <2>1, <2>2 DEF Location!Proceed
<1>8. ASSUME NEW o \in Location!Locates, Location!WatchPermission(o) \/ Location!WatchServices(o) \/ Location!Watch(o)
      PROVE  LocationInv'
  <2>1. PICK at \in Location!Steps : operation' = [operation EXCEPT ![o].at = at]
    BY <1>8 DEF Location!WatchPermission, Location!WatchServices, Location!Watch, Location!Goto,
       Location!Steps
  <2>2. /\ operation[o].at \in Watching /\ UNCHANGED <<phone, mounted, current, aborted, view>>
        /\ \A p \in subscribed' : p \in subscribed \/ (p = o /\ o \notin aborted)
    BY <1>8 DEF Location!WatchPermission, Location!WatchServices, Location!Watch, Watching
  <2>3. view.position # 0 /\ operation[o].at \notin {"none", "done"} /\ (o \notin aborted => o = current /\ mounted)
    BY <2>2 DEF LocationInv, Watching
  <2>4. \A p \in subscribed' : p \in subscribed \/ (p = current /\ mounted /\ view'.position # 0)
    BY <2>2, <2>3
  <2>5. view' \in View /\ phone' \in [permission : Location!Permissions, gps : BOOLEAN]
    BY <1>0, <2>2 DEF LocationInv
  <2>6. "none" \in Location!Results \cup {"none"}
    OBVIOUS
  <2> QED BY <2>1, <2>2, <2>3, <2>4, <2>5, <2>6, LocationStep
<1>9. ASSUME NEW o \in Location!Locates, Location!Move(o) PROVE LocationInv'
  <2>1. view' \in View /\ view'.position = o
    BY <1>0, <1>9 DEF Location!Move, Location!Permissions
  <2> QED BY <1>0, <1>9, <2>1 DEF Location!Move, LocationInv, Location!Locates
<1> QED BY <1>1, <1>2, <1>3, <1>4, <1>5, <1>6, <1>7, <1>8, <1>9 DEF Location!Next

LEMMA LocationStart ==
  ASSUME Location!Init PROVE LocationInv
<1>1. Location!NoOperation \in Locating /\ Location!NoOperation.at = "none"
  BY DEF Location!NoOperation, Locating, Location!Steps
<1>2. operation \in [Location!Locates -> Locating] /\ \A o \in Location!Locates : operation[o].at = "none"
  BY <1>1 DEF Location!Init
<1>3. view \in [position : Nat, error : Location!Failures \cup {"none"}, loading : BOOLEAN,
                permission : Location!Permissions]
  BY DEF Location!Init, Location!None, Location!Permissions
<1> QED BY <1>2, <1>3 DEF Location!Init, LocationInv, Watching

LEMMA WatchIsSeen == LocationInv => Location!WatchIsOwned
BY DEF LocationInv, Location!WatchIsOwned, Location!None

\* The map's screen alone, for any number of operations: it watches the phone for its newest operation only,
\* however operations, answers and the end of the screen meet.
THEOREM WatchBelongsToScreen == Location!Spec => []Location!WatchIsOwned
BY WatchIsSeen, LocationStart, LocationNext, PTL DEF Location!Spec

-----------------------------------------------------------------------------
(***************************************************************************)
(* The payment screens: a rule and a list of methods that rest are the     *)
(* backend's, and so is the wallet beside a payment shown as captured.     *)
(*                                                                         *)
(* The argument: a query that is not crossed ends with what the backend    *)
(* holds, unless a mutation of it is done and not yet answered.  Such an   *)
(* answer is the backend's as well when no other mutation of the query was *)
(* under way, and it invalidates or replaces what is shown.                *)
(***************************************************************************)

IsQuery(k) ==
  /\ DOMAIN k = {"shows", "at", "value", "stale", "crossed"}
  /\ k.at \in {"idle", "asked", "answered", "failed"} /\ k.stale \in BOOLEAN /\ k.crossed \in BOOLEAN
IsCall(c) ==
  /\ DOMAIN c = {"at", "value", "alone"}
  /\ c.at \in {"idle", "sent", "done", "settling"} /\ c.alone \in BOOLEAN

\* What the query will show when it rests is h, if it is not crossed; and whatever h is.
Safe(k, h) ==
  ~k.crossed => /\ k.at = "answered" => k.value = h
                /\ k.at = "idle" /\ ~k.stale /\ k.shows # <<>> => k.shows = h
Unsettled(k) == k.crossed \/ k.at \in {"asked", "failed"} \/ (k.at = "idle" /\ (k.stale \/ k.shows = <<>>))

WalletTypes ==
  /\ DOMAIN server = {"payment", "credited", "enabled", "methods"} /\ server.credited \in BOOLEAN
  /\ DOMAIN query = Wallet!Queries /\ \A q \in Wallet!Queries : IsQuery(query[q])
  /\ DOMAIN mutation = Wallet!Mutations /\ \A m \in Wallet!Mutations : IsCall(mutation[m])

\* A mutation of the rule that is alone is the only one, and its answer is what the backend holds.
LoneOrNot(m, n) == mutation[m].at # "idle" /\ mutation[m].alone => mutation[n].at = "idle"
AnswersRule(m) == mutation[m].at = "done" /\ mutation[m].alone => mutation[m].value = <<server.enabled>>
Written ==
  /\ LoneOrNot("save", "disable") /\ LoneOrNot("disable", "save")
  /\ AnswersRule("save") /\ AnswersRule("disable")
  /\ mutation["save"].at # "idle" => mutation["save"].value = <<mutation["save"].value[1]>>
  /\ mutation["cancel"].at = "done" => mutation["cancel"].value = <<"CANCELLED">>

\* Nothing is known of the payment before the Pix screen.
NoPix ==
  /\ server.payment = "none" \/ mutation["topUp"].at # "idle" =>
       /\ "pix" \notin opened /\ mutation["cancel"].at = "idle"
       /\ query["intent"].at = "idle" /\ query["intent"].shows = <<>>
  /\ mutation["topUp"].at \in {"done", "settling"} => server.payment # "none"

Captured ==
  \/ server.payment = "CAPTURED"
  \/ query["intent"].shows = <<"CAPTURED">> \/ query["intent"].value = <<"CAPTURED">>

RuleRests ==
  "rule" \notin unsure /\ mutation["save"].at # "done" /\ mutation["disable"].at # "done" =>
    Safe(query["rule"], <<server.enabled>>)
MethodsRest ==
  "methods" \notin unsure /\ mutation["change"].at # "done" => Safe(query["methods"], <<server.methods>>)
WalletRests ==
  "pix" \in opened /\ query["intent"].shows = <<"CAPTURED">> => Safe(query["wallet"], <<TRUE>>)

WalletInv ==
  /\ WalletTypes /\ Written /\ NoPix /\ RuleRests /\ MethodsRest /\ WalletRests
  /\ Captured => server.credited

LEMMA Tables ==
  /\ Wallet!Queries = {"wallet", "intent", "rule", "methods"}
  /\ Wallet!Mutations = {"topUp", "cancel", "save", "disable", "change"}
  /\ Wallet!Screens = {"wallet", "add", "pix", "rule", "methods"}
  /\ \A s \in Wallet!Screens : Wallet!Uses[s] \subseteq Wallet!Queries
  /\ \A s \in Wallet!Screens : "intent" \in Wallet!Uses[s] => s = "pix"
  /\ Wallet!Of["topUp"] = "wallet" /\ Wallet!Of["cancel"] = "intent" /\ Wallet!Of["save"] = "rule"
  /\ Wallet!Of["disable"] = "rule" /\ Wallet!Of["change"] = "methods"
BY DEF Wallet!Queries, Wallet!Mutations, Wallet!Screens, Wallet!Uses, Wallet!Of

LEMMA UnsettledIsSafe == ASSUME NEW k, NEW h, IsQuery(k), Unsettled(k) PROVE Safe(k, h)
BY DEF IsQuery, Unsettled, Safe

LEMMA WalletTrue == WalletInv => Wallet!ScreensAreTrue
<1> SUFFICES ASSUME WalletInv PROVE Wallet!ScreensAreTrue
  OBVIOUS
<1>1. ASSUME Wallet!Quiet("rule") PROVE query["rule"].shows = Wallet!Holds("rule")
  BY <1>1, Tables DEF WalletInv, RuleRests, Safe, Wallet!Quiet, Wallet!Known, Wallet!Unknown,
     Wallet!Holds
<1>2. ASSUME Wallet!Quiet("methods") PROVE query["methods"].shows = Wallet!Holds("methods")
  BY <1>2, Tables DEF WalletInv, MethodsRest, Safe, Wallet!Quiet, Wallet!Known, Wallet!Unknown,
     Wallet!Holds
<1>3. ASSUME "pix" \in opened, query["intent"].shows = <<"CAPTURED">>, Wallet!Quiet("wallet")
      PROVE query["wallet"].shows = <<TRUE>>
  BY <1>3 DEF WalletInv, WalletRests, Safe, Wallet!Quiet, Wallet!Known, Wallet!Unknown
<1> QED BY <1>1, <1>2, <1>3 DEF Wallet!ScreensAreTrue

LEMMA AskUnsettles ==
  ASSUME NEW k, IsQuery(k)
  PROVE  /\ IsQuery(Wallet!Ask(k)) /\ Unsettled(Wallet!Ask(k))
         /\ Wallet!Ask(k).shows = k.shows /\ Wallet!Ask(k).value = <<>>
BY DEF Wallet!Ask, Wallet!Unknown, IsQuery, Unsettled

LEMMA InvalidateUnsettles ==
  ASSUME NEW p, NEW queries, NEW k \in Wallet!Queries, IsQuery(queries[k]),
         NEW next, next = Wallet!Invalidate(p, queries)[k]
  PROVE  /\ IsQuery(next)
         /\ next.shows = queries[k].shows /\ (next.value = queries[k].value \/ next.value = <<>>)
         /\ IF k \in Wallet!Prefixed(p) THEN Unsettled(next) ELSE next = queries[k]
<1> DEFINE old == queries[k]
<1>0. IsQuery(old)
  OBVIOUS
<1>1. next = IF k \notin Wallet!Prefixed(p) THEN old
             ELSE IF ~Wallet!Active(k) THEN [old EXCEPT !.stale = TRUE, !.crossed = old.crossed \/ Wallet!UnderWay(old)]
             ELSE IF Wallet!UnderWay(old) /\ old.shows = <<>> THEN [old EXCEPT !.crossed = TRUE]
             ELSE Wallet!Ask(old)
  BY DEF Wallet!Invalidate, Wallet!Unknown
<1> HIDE DEF old
<1>2. CASE k \notin Wallet!Prefixed(p)
  BY <1>0, <1>1, <1>2 DEF old
<1>3. CASE k \in Wallet!Prefixed(p) /\ ~Wallet!Active(k)
  <2>1. PICK first : first = [old EXCEPT !.stale = TRUE]
    OBVIOUS
  <2>2. IsQuery(first) /\ first.stale /\ first.shows = old.shows /\ first.value = old.value /\ first.at = old.at
    BY <1>0, <2>1 DEF IsQuery
  <2>3. PICK b \in BOOLEAN : b = (old.crossed \/ Wallet!UnderWay(old))
    BY Zenon
  <2>4. next = [first EXCEPT !.crossed = b]
    BY Zenon, <1>1, <1>3, <2>1, <2>3
  <2>5. old.at \in {"asked", "answered"} => b
    BY <2>3 DEF Wallet!UnderWay
  <2>6. /\ IsQuery(next) /\ next.stale /\ next.crossed = b
        /\ next.shows = old.shows /\ next.value = old.value /\ next.at = old.at
    BY <2>2, <2>4 DEF IsQuery
  <2> QED BY <1>0, <1>3, <2>5, <2>6 DEF Unsettled, IsQuery, old
<1>4. CASE k \in Wallet!Prefixed(p) /\ Wallet!Active(k) /\ Wallet!UnderWay(old) /\ old.shows = <<>>
  <2>1. next = [old EXCEPT !.crossed = TRUE]
    BY <1>1, <1>4
  <2> QED BY <1>0, <1>4, <2>1 DEF Unsettled, IsQuery, old
<1>5. CASE k \in Wallet!Prefixed(p) /\ Wallet!Active(k) /\ ~(Wallet!UnderWay(old) /\ old.shows = <<>>)
  <2>1. next = Wallet!Ask(old)
    BY <1>1, <1>5
  <2> QED BY <1>0, <1>5, <2>1, AskUnsettles DEF old
<1> QED BY <1>2, <1>3, <1>4, <1>5

\* What keeps each part.
LEMMA RuleStays ==
  ASSUME RuleRests, IsQuery(query'["rule"]), query'["rule"] = query["rule"] \/ Unsettled(query'["rule"]),
         server'.enabled = server.enabled, unsure \subseteq unsure',
         \A m \in {"save", "disable"} : mutation[m].at = "done" => mutation'[m].at = "done" \/ "rule" \in unsure'
  PROVE  RuleRests'
BY UnsettledIsSafe DEF RuleRests, Safe, Unsettled, IsQuery

LEMMA MethodsStay ==
  ASSUME MethodsRest, IsQuery(query'["methods"]), query'["methods"] = query["methods"] \/ Unsettled(query'["methods"]),
         server'.methods = server.methods, unsure \subseteq unsure',
         mutation["change"].at = "done" => mutation'["change"].at = "done" \/ "methods" \in unsure'
  PROVE  MethodsRest'
BY DEF MethodsRest, Safe, Unsettled, IsQuery

LEMMA WalletStays ==
  ASSUME WalletRests, IsQuery(query'["wallet"]), query'["wallet"] = query["wallet"] \/ Unsettled(query'["wallet"]),
         "pix" \in opened' => "pix" \in opened \/ query'["intent"].shows # <<"CAPTURED">>,
         query'["intent"].shows = query["intent"].shows
  PROVE  WalletRests'
BY DEF WalletRests, Safe, Unsettled, IsQuery

\* Fetches begin or fail.
LEMMA FetchesChange ==
  ASSUME WalletInv, UNCHANGED <<server, mutation, unsure>>, "pix" \in opened' => "pix" \in opened,
         DOMAIN query' = Wallet!Queries,
         \A q \in Wallet!Queries :
           /\ IsQuery(query'[q]) /\ query'[q].shows = query[q].shows
           /\ query'[q].value = query[q].value \/ query'[q].value = <<>>
           /\ query'[q] = query[q] \/ Unsettled(query'[q]),
         query'["intent"] = query["intent"] \/ "pix" \in opened \/ query["intent"].at # "idle"
  PROVE  WalletInv'
<1>1. WalletTypes' /\ Written'
  BY DEF WalletInv, WalletTypes, Written, LoneOrNot, AnswersRule
<1>2. NoPix'
  BY Tables DEF WalletInv, NoPix
<1>4. Captured' => server'.credited
  <2>1. /\ query'["intent"].shows = query["intent"].shows
        /\ query'["intent"].value = query["intent"].value \/ query'["intent"].value = <<>>
    BY Tables
  <2>2. <<>> # <<"CAPTURED">>
    OBVIOUS
  <2> QED BY <2>1, <2>2 DEF WalletInv, Captured
<1>3. RuleRests' /\ MethodsRest' /\ WalletRests'
  BY Tables, RuleStays, MethodsStay, WalletStays DEF WalletInv
<1> QED BY <1>1, <1>2, <1>3, <1>4 DEF WalletInv

LEMMA FetchesBegin ==
  ASSUME WalletInv, NEW F, query' = [q \in Wallet!Queries |-> IF q \in F THEN Wallet!Ask(query[q]) ELSE query[q]],
         UNCHANGED <<server, mutation, unsure>>, "pix" \in opened' => "pix" \in opened,
         "intent" \in F => "pix" \in opened
  PROVE  WalletInv'
<1>1. DOMAIN query' = Wallet!Queries
  OBVIOUS
<1>2. ASSUME NEW q \in Wallet!Queries
      PROVE  /\ IsQuery(query'[q]) /\ query'[q].shows = query[q].shows
             /\ query'[q].value = query[q].value \/ query'[q].value = <<>>
             /\ query'[q] = query[q] \/ Unsettled(query'[q])
  BY AskUnsettles DEF WalletInv, WalletTypes
<1>3. query'["intent"] = query["intent"] \/ "pix" \in opened
  BY Tables
<1> QED BY <1>1, <1>2, <1>3, FetchesChange

LEMMA ReadsKeep == ASSUME WalletInv, NEW q \in Wallet!Queries, Wallet!Read(q) PROVE WalletInv'
<1>1. PICK next :
        /\ next = query'[q] /\ IsQuery(next) /\ next.at = "answered" /\ next.value = Wallet!Holds(q)
        /\ next.shows = query[q].shows
  <2>1. PICK h : h = Wallet!Holds(q)
    OBVIOUS
  <2>2. PICK first : first = [query[q] EXCEPT !.at = "answered"]
    OBVIOUS
  <2>3. PICK next : next = [first EXCEPT !.value = h]
    OBVIOUS
  <2>4. IsQuery(query[q])
    BY DEF WalletInv, WalletTypes
  <2>5. IsQuery(first) /\ first.at = "answered" /\ first.shows = query[q].shows
    BY <2>2, <2>4 DEF IsQuery
  <2>6. IsQuery(next) /\ next.at = "answered" /\ next.shows = query[q].shows /\ next.value = h
    BY <2>3, <2>5 DEF IsQuery
  <2>7. query' = [query EXCEPT ![q].at = "answered", ![q].value = h]
    BY <2>1 DEF Wallet!Read
  <2>8. query'[q] = next
    BY <2>2, <2>3, <2>7 DEF WalletInv, WalletTypes
  <2> QED BY <2>1, <2>6, <2>8
<1>2. /\ DOMAIN query' = Wallet!Queries /\ \A p \in Wallet!Queries : p # q => query'[p] = query[p]
      /\ query[q].at = "asked" /\ UNCHANGED <<server, mutation, unsure, opened>>
  BY DEF Wallet!Read, WalletInv, WalletTypes
<1>3. WalletTypes' /\ Written'
  BY <1>1, <1>2 DEF WalletInv, WalletTypes, Written, LoneOrNot, AnswersRule
<1>4. NoPix'
  BY <1>1, <1>2, Tables DEF WalletInv, NoPix
<1>5. Captured' => server'.credited
  BY <1>1, <1>2, Tables DEF WalletInv, Captured, Wallet!Holds
<1>6. RuleRests'
  BY <1>1, <1>2, Tables DEF WalletInv, RuleRests, Safe, Wallet!Holds
<1>7. MethodsRest'
  BY <1>1, <1>2, Tables DEF WalletInv, MethodsRest, Safe, Wallet!Holds
<1>8. WalletRests'
  <2>1. query'["intent"].shows = query["intent"].shows
    BY <1>1, <1>2, Tables
  <2>2. query["intent"].shows = <<"CAPTURED">> => server.credited = TRUE
    BY DEF WalletInv, WalletTypes, Captured
  <2>3. SUFFICES ASSUME WalletRests, "pix" \in opened, query["intent"].shows = <<"CAPTURED">>
                 PROVE Safe(query'["wallet"], <<TRUE>>)
    BY <1>2, <2>1 DEF WalletInv, WalletRests
  <2>4. CASE q = "wallet"
    BY <1>1, <2>2, <2>3, <2>4 DEF Safe, Wallet!Holds
  <2>5. CASE q # "wallet"
    BY <1>2, <2>3, <2>5, Tables DEF WalletRests
  <2> QED BY <2>4, <2>5
<1> QED BY <1>3, <1>4, <1>5, <1>6, <1>7, <1>8 DEF WalletInv

LEMMA ReceiptsKeep == ASSUME WalletInv, NEW q \in Wallet!Queries, Wallet!Receive(q) PROVE WalletInv'
<1> DEFINE k == query[q]
<1>0. IsQuery(k) /\ k.at = "answered" /\ UNCHANGED <<server, mutation, unsure, opened>>
  BY DEF Wallet!Receive, WalletInv, WalletTypes
<1>1. PICK next : next = [k EXCEPT !.shows = k.value, !.at = "idle", !.value = <<>>, !.stale = FALSE]
  OBVIOUS
<1>2. /\ IsQuery(next) /\ next.at = "idle" /\ next.shows = k.value /\ next.value = <<>>
      /\ ~next.stale /\ next.crossed = k.crossed
  BY <1>0, <1>1 DEF IsQuery
<1>3. PICK seen : seen = [query EXCEPT ![q] = next]
  OBVIOUS
<1>4. /\ DOMAIN seen = Wallet!Queries /\ seen[q] = next
      /\ \A p \in Wallet!Queries : p # q => seen[p] = query[p]
      /\ \A p \in Wallet!Queries : IsQuery(seen[p])
  BY <1>2, <1>3 DEF WalletInv, WalletTypes
<1>5. query' = IF q = "intent" /\ "pix" \in opened /\ k.value = <<"CAPTURED">> /\ k.shows # k.value
                 THEN Wallet!Invalidate("wallet", seen) ELSE seen
  BY <1>1, <1>3 DEF Wallet!Receive, Wallet!Unknown
<1> HIDE DEF k
<1>6. ASSUME WalletTypes', query'["intent"] = seen["intent"], query'["methods"] = seen["methods"],
             \A p \in {"wallet", "rule"} : query'[p] = seen[p] \/ Unsettled(query'[p]),
             q = "intent" /\ "pix" \in opened /\ k.value = <<"CAPTURED">> /\ k.shows # k.value => Unsettled(query'["wallet"])
      PROVE WalletInv'
  <2>1. Written'
    BY <1>0 DEF WalletInv, Written, LoneOrNot, AnswersRule
  <2>2. NoPix'
    BY <1>0, <1>2, <1>4, <1>6, Tables DEF WalletInv, NoPix, k
  <2>3. Captured' => server'.credited
    <3>1. CASE q = "intent"
      <4>1. /\ query'["intent"].shows = query["intent"].value /\ query'["intent"].value = <<>>
            /\ <<>> # <<"CAPTURED">>
        BY <1>2, <1>4, <1>6, <3>1 DEF k
      <4> QED BY <1>0, <4>1 DEF WalletInv, Captured
    <3>2. CASE q # "intent"
      BY <1>0, <1>4, <1>6, <3>2, Tables DEF WalletInv, Captured
    <3> QED BY <3>1, <3>2
  <2>4. RuleRests'
    <3>1. RuleRests => RuleRests' \/ Unsettled(query'["rule"])
      BY <1>0, <1>2, <1>4, <1>6, Tables DEF RuleRests, Safe, k
    <3> QED BY <1>6, <3>1, UnsettledIsSafe, Tables DEF WalletInv, WalletTypes, RuleRests
  <2>5. MethodsRest'
    BY <1>0, <1>2, <1>4, <1>6, Tables DEF WalletInv, MethodsRest, Safe, k
  <2>6. WalletRests'
    <3>1. CASE Unsettled(query'["wallet"])
      BY <1>6, <3>1, UnsettledIsSafe, Tables DEF WalletTypes, WalletRests
    <3>2. CASE query'["wallet"] = seen["wallet"] /\ ~Unsettled(query'["wallet"])
      <4>1. CASE q = "intent"
        BY <1>0, <1>2, <1>4, <1>6, <3>2, <4>1, Tables DEF WalletInv, WalletRests, k
      <4>2. CASE q # "intent"
        <5>1. query'["intent"] = query["intent"]
          BY <1>4, <1>6, <4>2, Tables
        <5>2. SUFFICES ASSUME WalletRests, "pix" \in opened, query["intent"].shows = <<"CAPTURED">>,
                              Safe(query["wallet"], <<TRUE>>)
                       PROVE Safe(query'["wallet"], <<TRUE>>)
          BY <1>0, <5>1 DEF WalletInv, WalletRests
        <5>3. CASE q = "wallet"
          BY <1>0, <1>2, <1>4, <3>2, <5>2, <5>3 DEF Safe, k
        <5>4. CASE q # "wallet"
          BY <1>4, <3>2, <5>2, <5>4, Tables
        <5> QED BY <5>3, <5>4
      <4> QED BY <4>1, <4>2
    <3> QED BY <1>6, <3>1, <3>2
  <2> QED BY <1>0, <1>6, <2>1, <2>2, <2>3, <2>4, <2>5, <2>6 DEF WalletInv
<1>7. CASE q = "intent" /\ "pix" \in opened /\ k.value = <<"CAPTURED">> /\ k.shows # k.value
  <2>1. DOMAIN query' = Wallet!Queries
    BY <1>5, <1>7 DEF Wallet!Invalidate
  <2>2. ASSUME NEW p \in Wallet!Queries
        PROVE /\ IsQuery(query'[p])
              /\ IF p \in Wallet!Prefixed("wallet") THEN Unsettled(query'[p]) ELSE query'[p] = seen[p]
    <3>1. PICK new : new = Wallet!Invalidate("wallet", seen)[p] /\ query'[p] = new
      BY <1>5, <1>7
    <3> QED BY <1>4, <3>1, InvalidateUnsettles
  <2>3. WalletTypes'
    BY <1>0, <2>1, <2>2 DEF WalletInv, WalletTypes
  <2> QED BY <1>6, <2>2, <2>3, Tables DEF Wallet!Prefixed
<1>8. CASE ~(q = "intent" /\ "pix" \in opened /\ k.value = <<"CAPTURED">> /\ k.shows # k.value)
  <2>1. query' = seen
    BY <1>5, <1>8
  <2>2. WalletTypes'
    BY <1>0, <1>4, <2>1 DEF WalletInv, WalletTypes
  <2> QED BY <1>6, <1>8, <2>1, <2>2
<1> QED BY <1>7, <1>8

\* What becomes of a mutation.
LEMMA MutationMoves ==
  ASSUME WalletTypes, NEW m \in Wallet!Mutations, NEW next, IsCall(next), mutation' = [mutation EXCEPT ![m] = next]
  PROVE  /\ DOMAIN mutation' = Wallet!Mutations /\ \A n \in Wallet!Mutations : IsCall(mutation'[n])
         /\ mutation'[m] = next /\ \A n \in Wallet!Mutations : n # m => mutation'[n] = mutation[n]
<1>1. DOMAIN mutation' = Wallet!Mutations /\ mutation'[m] = next
  BY DEF WalletTypes
<1>2. \A n \in Wallet!Mutations : n # m => mutation'[n] = mutation[n]
  BY DEF WalletTypes
<1> QED BY <1>1, <1>2 DEF WalletTypes

LEMMA MutationEnds == IsCall(Wallet!NoCall) /\ Wallet!NoCall.at = "idle"
BY DEF IsCall, Wallet!NoCall

LEMMA PressesKeep == ASSUME WalletInv, NEW m \in Wallet!Mutations, Wallet!Press(m) PROVE WalletInv'
<1> DEFINE value == IF m = "save" THEN <<form>> ELSE <<>>
           others == Wallet!Others(m)
           alone == others = {}
<1>1. /\ DOMAIN mutation' = Wallet!Mutations
      /\ mutation'[m] = [at |-> "sent", value |-> value, alone |-> alone]
      /\ \A n \in Wallet!Mutations : n # m =>
           mutation'[n] = IF n \in others THEN [mutation[n] EXCEPT !.alone = FALSE] ELSE mutation[n]
      /\ mutation[m].at = "idle" /\ UNCHANGED <<server, opened, query, unsure>>
  BY DEF Wallet!Press, Wallet!Unknown
<1>2. alone \in BOOLEAN /\ (m = "save" => value = <<value[1]>>)
  BY Zenon
<1>3. \A n \in Wallet!Mutations : n \in others <=> n # m /\ Wallet!Of[n] = Wallet!Of[m] /\ mutation[n].at # "idle"
  BY DEF Wallet!Others
<1> HIDE DEF value, others
<1>4. IsCall(mutation'[m]) /\ mutation'[m].at = "sent" /\ mutation'[m].value = value /\ (mutation'[m].alone <=> alone)
  <2>1. PICK flag \in BOOLEAN : flag = alone
    BY Zenon, <1>2
  <2>2. PICK next : next = [at |-> "sent", value |-> value, alone |-> flag]
    OBVIOUS
  <2>3. mutation'[m] = next
    BY Zenon, <1>1, <2>1, <2>2
  <2>4. IsCall(next) /\ next.at = "sent" /\ next.value = value /\ next.alone = flag
    BY <2>2 DEF IsCall
  <2> QED BY <2>1, <2>3, <2>4
<1>5. ASSUME NEW n \in Wallet!Mutations, n # m
      PROVE /\ IsCall(mutation'[n]) /\ mutation'[n].at = mutation[n].at /\ mutation'[n].value = mutation[n].value
            /\ IF n \in others THEN ~mutation'[n].alone ELSE mutation'[n] = mutation[n]
  BY <1>1, <1>5 DEF WalletInv, WalletTypes, IsCall
<1>6. WalletTypes'
  BY <1>1, <1>4, <1>5 DEF WalletInv, WalletTypes
<1>7. Written'
  <2>1. LoneOrNot("save", "disable")' /\ LoneOrNot("disable", "save")'
    <3>1. CASE m = "save"
      BY <1>3, <1>4, <1>5, <3>1, Tables DEF LoneOrNot
    <3>2. CASE m = "disable"
      BY <1>3, <1>4, <1>5, <3>2, Tables DEF LoneOrNot
    <3>3. CASE m \notin {"save", "disable"}
      <4>1. "save" \notin others /\ "disable" \notin others
        BY <1>3, <3>3, Tables
      <4> QED BY <1>5, <3>3, <4>1, Tables DEF WalletInv, Written, LoneOrNot
    <3> QED BY <3>1, <3>2, <3>3
  <2>2. AnswersRule("save")' /\ AnswersRule("disable")'
    <3>1. \A n \in {"save", "disable"} : mutation'[n].at = "done" /\ mutation'[n].alone => mutation'[n] = mutation[n]
      BY <1>4, <1>5, Tables
    <3> QED BY <1>1, <3>1 DEF WalletInv, Written, AnswersRule
  <2>3. mutation'["save"].at # "idle" => mutation'["save"].value = <<mutation'["save"].value[1]>>
    BY <1>2, <1>4, <1>5, Tables DEF WalletInv, Written
  <2>4. mutation'["cancel"].at = "done" => mutation'["cancel"].value = <<"CANCELLED">>
    BY <1>4, <1>5, Tables DEF WalletInv, Written
  <2> QED BY <2>1, <2>2, <2>3, <2>4 DEF Written
<1>8. NoPix'
  <2>1. m = "topUp" => server.payment = "none"
    BY DEF Wallet!Press, Wallet!Offered
  <2>2. m = "cancel" => "pix" \in opened
    BY DEF Wallet!Press, Wallet!Offered, Wallet!Ready
  <2> QED BY <1>1, <1>4, <1>5, <2>1, <2>2, Tables DEF WalletInv, NoPix
<1>9. Captured' => server'.credited
  BY <1>1 DEF WalletInv, Captured
<1>10. RuleRests' /\ MethodsRest' /\ WalletRests'
  BY <1>1, <1>5, Tables DEF WalletInv, RuleRests, MethodsRest, WalletRests
<1> QED BY <1>6, <1>7, <1>8, <1>9, <1>10 DEF WalletInv

LEMMA CommitsKeep == ASSUME WalletInv, NEW m \in Wallet!Mutations, Wallet!Commit(m) PROVE WalletInv'
<1>1. PICK value :
        /\ mutation' = [mutation EXCEPT ![m].at = "done", ![m].value = value]
        /\ m = "cancel" => value = <<"CANCELLED">>
        /\ m = "disable" => value = <<FALSE>>
        /\ m \notin {"cancel", "disable"} => value = mutation[m].value
  <2>1. PICK value : value = (CASE m = "cancel" -> <<"CANCELLED">>
                                [] m = "disable" -> <<FALSE>>
                                [] OTHER -> mutation[m].value)
    OBVIOUS
  <2>2. mutation' = [mutation EXCEPT ![m].at = "done", ![m].value = value]
    BY <2>1 DEF Wallet!Commit
  <2> QED BY <2>1, <2>2
<1>2. /\ mutation[m].at = "sent" /\ IsCall(mutation[m])
      /\ UNCHANGED <<opened, query, unsure>> /\ (m = "cancel" => server.payment = "PENDING")
  BY DEF Wallet!Commit, WalletInv, WalletTypes
<1>3. PICK first : first = [mutation[m] EXCEPT !.at = "done"]
  OBVIOUS
<1>4. PICK next : next = [first EXCEPT !.value = value]
  OBVIOUS
<1>5. IsCall(first) /\ first.at = "done" /\ first.alone = mutation[m].alone
  BY <1>2, <1>3 DEF IsCall
<1>6. IsCall(next) /\ next.at = "done" /\ next.alone = mutation[m].alone /\ next.value = value
  BY <1>4, <1>5 DEF IsCall
<1>7. mutation' = [mutation EXCEPT ![m] = next]
  BY <1>1, <1>3, <1>4 DEF WalletInv, WalletTypes
<1>8. /\ DOMAIN mutation' = Wallet!Mutations /\ \A n \in Wallet!Mutations : IsCall(mutation'[n])
      /\ mutation'[m] = next /\ \A n \in Wallet!Mutations : n # m => mutation'[n] = mutation[n]
  BY <1>6, <1>7, MutationMoves DEF WalletInv
<1>9. ASSUME WalletTypes', m = "topUp" => server'.payment # "none",
             server'.payment \in {"none", "CAPTURED"} => server'.payment = server.payment,
             server'.credited = server.credited,
             IF m \in {"save", "disable"} THEN value = <<server'.enabled>> ELSE server'.enabled = server.enabled,
             m # "change" => server'.methods = server.methods
      PROVE WalletInv'
  <2>1. Written'
    <3>1. LoneOrNot("save", "disable")' /\ LoneOrNot("disable", "save")'
      BY <1>2, <1>6, <1>8, Tables DEF WalletInv, Written, LoneOrNot
    <3>2. AnswersRule("save")' /\ AnswersRule("disable")'
      <4>1. CASE m = "save"
        BY <1>2, <1>6, <1>8, <1>9, <4>1, Tables DEF WalletInv, Written, LoneOrNot, AnswersRule
      <4>2. CASE m = "disable"
        BY <1>2, <1>6, <1>8, <1>9, <4>2, Tables DEF WalletInv, Written, LoneOrNot, AnswersRule
      <4>3. CASE m \notin {"save", "disable"}
        BY <1>8, <1>9, <4>3, Tables DEF WalletInv, Written, AnswersRule
      <4> QED BY <4>1, <4>2, <4>3
    <3>3. mutation'["save"].at # "idle" => mutation'["save"].value = <<mutation'["save"].value[1]>>
      BY <1>1, <1>2, <1>6, <1>8, Tables DEF WalletInv, Written
    <3>4. mutation'["cancel"].at = "done" => mutation'["cancel"].value = <<"CANCELLED">>
      BY <1>1, <1>6, <1>8, Tables DEF WalletInv, Written
    <3> QED BY <3>1, <3>2, <3>3, <3>4 DEF Written
  <2>2. NoPix'
    BY <1>2, <1>6, <1>8, <1>9, Tables DEF WalletInv, NoPix
  <2>3. Captured' => server'.credited
    BY <1>2, <1>9 DEF WalletInv, Captured
  <2>4. RuleRests' /\ MethodsRest'
    BY <1>2, <1>6, <1>8, <1>9, Tables DEF WalletInv, RuleRests, MethodsRest
  <2>5. WalletRests'
    BY <1>2 DEF WalletInv, WalletRests
  <2> QED BY <1>9, <2>1, <2>2, <2>3, <2>4, <2>5 DEF WalletInv
<1>10. WalletTypes /\ (DOMAIN query' = Wallet!Queries /\ \A q \in Wallet!Queries : IsQuery(query'[q]))
  BY <1>2 DEF WalletInv, WalletTypes
<1>11. CASE m = "topUp"
  <2>1. server' = [server EXCEPT !.payment = "PENDING"]
    BY <1>11 DEF Wallet!Commit
  <2> QED BY <1>8, <1>9, <1>10, <1>11, <2>1 DEF WalletTypes
<1>12. CASE m = "cancel"
  <2>1. server' = [server EXCEPT !.payment = "CANCELLED"]
    BY <1>12 DEF Wallet!Commit
  <2> QED BY <1>8, <1>9, <1>10, <1>12, <2>1 DEF WalletTypes
<1>13. CASE m = "save"
  <2>1. server' = [server EXCEPT !.enabled = mutation["save"].value[1]]
    BY <1>13 DEF Wallet!Commit
  <2>2. mutation["save"].value = <<mutation["save"].value[1]>>
    BY <1>2, <1>13 DEF WalletInv, Written
  <2> QED BY <1>1, <1>8, <1>9, <1>10, <1>13, <2>1, <2>2 DEF WalletTypes
<1>14. CASE m = "disable"
  <2>1. server' = [server EXCEPT !.enabled = FALSE]
    BY <1>14 DEF Wallet!Commit
  <2> QED BY <1>1, <1>8, <1>9, <1>10, <1>14, <2>1 DEF WalletTypes
<1>15. CASE m = "change"
  <2>1. PICK n : server' = [server EXCEPT !.methods = n]
    BY <1>15 DEF Wallet!Commit
  <2> QED BY <1>8, <1>9, <1>10, <1>15, <2>1 DEF WalletTypes
<1> QED BY <1>11, <1>12, <1>13, <1>14, <1>15, Tables

\* A mutation of which nobody waits for an answer any more.
LEMMA MutationsEnd ==
  ASSUME WalletTypes, NEW m \in Wallet!Mutations, mutation' = [mutation EXCEPT ![m] = Wallet!NoCall]
  PROVE  /\ DOMAIN mutation' = Wallet!Mutations /\ \A n \in Wallet!Mutations : IsCall(mutation'[n])
         /\ mutation'[m].at = "idle" /\ \A n \in Wallet!Mutations : n # m => mutation'[n] = mutation[n]
<1>1. PICK next : next = Wallet!NoCall
  OBVIOUS
<1> QED BY <1>1, MutationEnds, MutationMoves

\* Written of fewer mutations, or of mutations at a later step.
LEMMA WrittenStays ==
  ASSUME Written, server'.enabled = server.enabled, NEW m \in Wallet!Mutations,
         mutation'[m].at = "idle" \/ (mutation[m].at # "idle" /\ mutation'[m].at = "settling" /\
           mutation'[m].value = mutation[m].value /\ mutation'[m].alone = mutation[m].alone),
         \A n \in Wallet!Mutations : n # m => mutation'[n] = mutation[n]
  PROVE  Written'
BY Tables DEF Written, LoneOrNot, AnswersRule

LEMMA LossesKeep ==
  ASSUME WalletInv, NEW m \in Wallet!Mutations, Wallet!Lose(m) PROVE WalletInv'
<1>1. /\ mutation' = [mutation EXCEPT ![m] = Wallet!NoCall] /\ unsure' = unsure \cup {Wallet!Of[m]}
      /\ UNCHANGED <<server, opened, query>>
  BY DEF Wallet!Lose
<1>2. /\ DOMAIN mutation' = Wallet!Mutations /\ \A n \in Wallet!Mutations : IsCall(mutation'[n])
      /\ mutation'[m].at = "idle" /\ \A n \in Wallet!Mutations : n # m => mutation'[n] = mutation[n]
  BY <1>1, MutationsEnd DEF WalletInv
<1>3. WalletTypes' /\ Written'
  BY <1>1, <1>2, WrittenStays DEF WalletInv, WalletTypes
<1>4. NoPix' /\ (Captured' => server'.credited)
  BY <1>1, <1>2, Tables DEF WalletInv, NoPix, Captured
<1>5. RuleRests' /\ MethodsRest' /\ WalletRests'
  BY <1>1, <1>2, Tables DEF WalletInv, RuleRests, MethodsRest, WalletRests
<1> QED BY <1>3, <1>4, <1>5 DEF WalletInv

LEMMA RefusalKeeps == ASSUME WalletInv, Wallet!Refuse PROVE WalletInv'
<1>1. /\ mutation' = [mutation EXCEPT !["cancel"] = Wallet!NoCall] /\ UNCHANGED <<server, opened, query, unsure>>
      /\ "cancel" \in Wallet!Mutations
  BY Tables DEF Wallet!Refuse
<1>2. /\ DOMAIN mutation' = Wallet!Mutations /\ \A n \in Wallet!Mutations : IsCall(mutation'[n])
      /\ mutation'["cancel"].at = "idle" /\ \A n \in Wallet!Mutations : n # "cancel" => mutation'[n] = mutation[n]
  BY <1>1, MutationsEnd DEF WalletInv
<1>3. WalletTypes' /\ Written'
  BY <1>1, <1>2, WrittenStays DEF WalletInv, WalletTypes
<1>4. NoPix' /\ (Captured' => server'.credited)
  BY <1>1, <1>2, Tables DEF WalletInv, NoPix, Captured
<1>5. RuleRests' /\ MethodsRest' /\ WalletRests'
  BY <1>1, <1>2, Tables DEF WalletInv, RuleRests, MethodsRest, WalletRests
<1> QED BY <1>3, <1>4, <1>5 DEF WalletInv

LEMMA BackendKeeps == ASSUME WalletInv, Wallet!Pay \/ Wallet!Expire PROVE WalletInv'
<1>1. UNCHANGED <<opened, query, mutation, unsure>> /\ server.payment = "PENDING" /\ server.credited \in BOOLEAN
  BY DEF Wallet!Pay, Wallet!Expire, WalletInv, WalletTypes
<1>2. /\ DOMAIN server' = {"payment", "credited", "enabled", "methods"}
      /\ server'.enabled = server.enabled /\ server'.methods = server.methods /\ server'.credited \in BOOLEAN
      /\ server'.payment # "none" /\ (server.credited => server'.credited)
      /\ (server'.payment = "CAPTURED" => server'.credited)
  <2>1. CASE server' = [server EXCEPT !.payment = "CAPTURED"] /\ server.credited
    BY <1>1, <2>1 DEF WalletInv, WalletTypes
  <2>2. CASE server' = [server EXCEPT !.credited = TRUE]
    BY <1>1, <2>2 DEF WalletInv, WalletTypes
  <2>3. CASE server' = [server EXCEPT !.payment = "EXPIRED"]
    BY <1>1, <2>3 DEF WalletInv, WalletTypes
  <2> QED BY <2>1, <2>2, <2>3 DEF Wallet!Pay, Wallet!Expire
<1>3. WalletTypes' /\ Written'
  BY <1>1, <1>2 DEF WalletInv, WalletTypes, Written, LoneOrNot, AnswersRule
<1>4. NoPix' /\ (Captured' => server'.credited)
  BY <1>1, <1>2 DEF WalletInv, NoPix, Captured
<1>5. RuleRests' /\ MethodsRest' /\ WalletRests'
  BY <1>1, <1>2 DEF WalletInv, RuleRests, MethodsRest, WalletRests
<1> QED BY <1>3, <1>4, <1>5 DEF WalletInv

\* An answer is written into a query.
LEMMA SetShows ==
  ASSUME WalletTypes, NEW q \in Wallet!Queries, NEW m \in Wallet!Mutations, NEW next, next = Wallet!Set(q, m, query)
  PROVE  /\ DOMAIN next = Wallet!Queries /\ \A p \in Wallet!Queries : IsQuery(next[p])
         /\ \A p \in Wallet!Queries : p # q => next[p] = query[p]
         /\ next[q].shows = mutation[m].value /\ ~next[q].stale
         /\ next[q].at = query[q].at /\ next[q].value = query[q].value
         /\ ~next[q].crossed => mutation[m].alone /\ query[q].at # "answered"
<1> DEFINE old == query[q]
<1>1. IsQuery(old)
  BY DEF WalletTypes
<1>2. PICK b \in BOOLEAN : b = (Wallet!UnderWay(old) \/ ~mutation[m].alone)
  BY Zenon
<1>3. next = [query EXCEPT ![q].shows = mutation[m].value, ![q].stale = FALSE, ![q].crossed = b]
  BY Zenon, <1>2 DEF Wallet!Set
<1> HIDE DEF old
<1>4. PICK first : first = [old EXCEPT !.shows = mutation[m].value]
  OBVIOUS
<1>5. PICK second : second = [first EXCEPT !.stale = FALSE]
  OBVIOUS
<1>6. PICK third : third = [second EXCEPT !.crossed = b]
  OBVIOUS
<1>7. IsQuery(first) /\ first.shows = mutation[m].value /\ first.at = old.at /\ first.value = old.value
  BY <1>1, <1>4 DEF IsQuery
<1>8. /\ IsQuery(second) /\ second.shows = mutation[m].value /\ second.at = old.at /\ second.value = old.value
      /\ ~second.stale
  BY <1>5, <1>7 DEF IsQuery
<1>9. /\ IsQuery(third) /\ third.shows = mutation[m].value /\ third.at = old.at /\ third.value = old.value
      /\ ~third.stale /\ third.crossed = b
  BY <1>6, <1>8 DEF IsQuery
<1>10. next = [query EXCEPT ![q] = third]
  BY <1>3, <1>4, <1>5, <1>6 DEF old, WalletTypes
<1>11. /\ DOMAIN next = Wallet!Queries /\ next[q] = third
       /\ \A p \in Wallet!Queries : p # q => next[p] = query[p]
  BY <1>10 DEF WalletTypes
<1>12. ~b => mutation[m].alone /\ old.at # "answered"
  BY <1>2 DEF Wallet!UnderWay
<1> QED BY <1>9, <1>11, <1>12 DEF old, WalletTypes

\* What a success leaves of the mutation.
LEMMA SuccessEnds ==
  ASSUME WalletInv, NEW m \in Wallet!Mutations, Wallet!Succeed(m)
  PROVE  /\ DOMAIN mutation' = Wallet!Mutations /\ \A n \in Wallet!Mutations : IsCall(mutation'[n])
         /\ mutation[m].at = "done" /\ mutation'[m].at \in {"idle", "settling"}
         /\ m \in {"cancel", "disable"} => mutation'[m].at = "idle"
         /\ \A n \in Wallet!Mutations : n # m => mutation'[n] = mutation[n]
         /\ UNCHANGED <<server, opened, unsure>> /\ Written'
<1>0. /\ mutation[m].at = "done" /\ UNCHANGED <<server, opened, unsure>>
      /\ mutation' = [mutation EXCEPT ![m] = IF m \in {"cancel", "disable"} THEN Wallet!NoCall
                                             ELSE [mutation[m] EXCEPT !.at = "settling"]]
  BY DEF Wallet!Succeed
<1>1. CASE m \in {"cancel", "disable"}
  <2>1. mutation' = [mutation EXCEPT ![m] = Wallet!NoCall]
    BY <1>0, <1>1
  <2> QED BY <1>0, <2>1, MutationsEnd, WrittenStays DEF WalletInv
<1>2. CASE m \notin {"cancel", "disable"}
  <2>1. PICK next : next = [mutation[m] EXCEPT !.at = "settling"]
    OBVIOUS
  <2>2. /\ IsCall(next) /\ next.at = "settling"
        /\ next.value = mutation[m].value /\ next.alone = mutation[m].alone
    BY <2>1 DEF WalletInv, WalletTypes, IsCall
  <2>3. mutation' = [mutation EXCEPT ![m] = next]
    BY <1>0, <1>2, <2>1
  <2>4. /\ DOMAIN mutation' = Wallet!Mutations /\ \A n \in Wallet!Mutations : IsCall(mutation'[n])
        /\ mutation'[m] = next /\ \A n \in Wallet!Mutations : n # m => mutation'[n] = mutation[n]
    BY <2>2, <2>3, MutationMoves DEF WalletInv
  <2> QED BY <1>0, <1>2, <2>2, <2>4, WrittenStays DEF WalletInv
<1> QED BY <1>1, <1>2

LEMMA SuccessesKeep ==
  ASSUME WalletInv, NEW m \in Wallet!Mutations, Wallet!Succeed(m) PROVE WalletInv'
<1>1. /\ DOMAIN mutation' = Wallet!Mutations /\ \A n \in Wallet!Mutations : IsCall(mutation'[n])
      /\ mutation[m].at = "done" /\ mutation'[m].at \in {"idle", "settling"}
      /\ m \in {"cancel", "disable"} => mutation'[m].at = "idle"
      /\ \A n \in Wallet!Mutations : n # m => mutation'[n] = mutation[n]
      /\ UNCHANGED <<server, opened, unsure>> /\ Written'
  BY SuccessEnds
<1>2. ASSUME DOMAIN query' = Wallet!Queries, \A q \in Wallet!Queries : IsQuery(query'[q]),
             IF m = "cancel" THEN query'["intent"].shows = <<"CANCELLED">> /\ query'["intent"].value = query["intent"].value
                             ELSE query'["intent"] = query["intent"],
             query'["wallet"] = query["wallet"] \/ Unsettled(query'["wallet"]),
             IF m = "save" THEN Unsettled(query'["rule"])
             ELSE m = "disable" \/ query'["rule"] = query["rule"] \/ Unsettled(query'["rule"]),
             m = "disable" => RuleRests',
             IF m = "change" THEN Unsettled(query'["methods"]) ELSE query'["methods"] = query["methods"]
      PROVE WalletInv'
  <2>1. WalletTypes'
    BY <1>1, <1>2 DEF WalletInv, WalletTypes
  <2>2. NoPix'
    BY <1>1, <1>2, Tables DEF WalletInv, NoPix
  <2>3. Captured' => server'.credited
    <3>1. <<"CANCELLED">> # <<"CAPTURED">>
      OBVIOUS
    <3> QED BY <1>1, <1>2, <3>1 DEF WalletInv, Captured
  <2>4. RuleRests'
    <3>1. CASE m = "save"
      <4>1. PICK h : h = <<server'.enabled>>
        OBVIOUS
      <4>2. Safe(query'["rule"], h)
        BY <1>2, <3>1, UnsettledIsSafe, Tables
      <4> QED BY <4>1, <4>2 DEF RuleRests
    <3>2. CASE m \notin {"save", "disable"}
      BY <1>1, <1>2, <3>2, RuleStays, Tables DEF WalletInv
    <3> QED BY <1>2, <3>1, <3>2
  <2>5. MethodsRest'
    <3>1. CASE m = "change"
      <4>1. PICK h : h = <<server'.methods>>
        OBVIOUS
      <4>2. Safe(query'["methods"], h)
        BY <1>2, <3>1, UnsettledIsSafe, Tables
      <4> QED BY <4>1, <4>2 DEF MethodsRest
    <3>2. CASE m # "change"
      BY <1>1, <1>2, <3>2, MethodsStay, Tables DEF WalletInv
    <3> QED BY <3>1, <3>2
  <2>6. WalletRests'
    <3>1. CASE m = "cancel"
      <4>1. <<"CANCELLED">> # <<"CAPTURED">>
        OBVIOUS
      <4> QED BY <1>2, <3>1, <4>1 DEF WalletRests
    <3>2. CASE m # "cancel"
      BY <1>1, <1>2, <3>2, WalletStays, Tables DEF WalletInv
    <3> QED BY <3>1, <3>2
  <2> QED BY <1>1, <2>1, <2>2, <2>3, <2>4, <2>5, <2>6 DEF WalletInv
<1>3. WalletTypes
  BY DEF WalletInv
<1>4. CASE m \in {"topUp", "change"}
  <2>1. query' = Wallet!Invalidate(Wallet!Of[m], query)
    BY <1>4 DEF Wallet!Succeed
  <2>2. DOMAIN query' = Wallet!Queries
    BY <2>1 DEF Wallet!Invalidate
  <2>3. ASSUME NEW p \in Wallet!Queries
        PROVE /\ IsQuery(query'[p])
              /\ IF p \in Wallet!Prefixed(Wallet!Of[m]) THEN Unsettled(query'[p]) ELSE query'[p] = query[p]
    <3>1. PICK next : next = Wallet!Invalidate(Wallet!Of[m], query)[p] /\ query'[p] = next
      BY <2>1
    <3> QED BY <1>3, <3>1, InvalidateUnsettles DEF WalletTypes
  <2> QED BY <1>2, <1>4, <2>2, <2>3, Tables DEF Wallet!Prefixed
<1>5. CASE m = "save"
  <2>1. PICK seen : seen = Wallet!Set("rule", m, query)
    OBVIOUS
  <2>2. query' = Wallet!Invalidate("rule", seen)
    BY <1>5, <2>1 DEF Wallet!Succeed
  <2>3. /\ \A p \in Wallet!Queries : IsQuery(seen[p])
        /\ \A p \in Wallet!Queries : p # "rule" => seen[p] = query[p]
    BY <1>3, <2>1, SetShows, Tables
  <2>4. DOMAIN query' = Wallet!Queries
    BY <2>2 DEF Wallet!Invalidate
  <2>5. ASSUME NEW p \in Wallet!Queries
        PROVE /\ IsQuery(query'[p])
              /\ IF p \in Wallet!Prefixed("rule") THEN Unsettled(query'[p]) ELSE query'[p] = seen[p]
    <3>1. PICK next : next = Wallet!Invalidate("rule", seen)[p] /\ query'[p] = next
      BY <2>2
    <3> QED BY <2>3, <3>1, InvalidateUnsettles
  <2> QED BY <1>2, <1>5, <2>3, <2>4, <2>5, Tables DEF Wallet!Prefixed
<1>6. CASE m \in {"cancel", "disable"}
  <2>1. PICK next : next = Wallet!Set(Wallet!Of[m], m, query) /\ query' = next
    BY <1>6 DEF Wallet!Succeed
  <2>2. PICK q \in Wallet!Queries : q = Wallet!Of[m]
    BY <1>6, Tables
  <2>3. /\ DOMAIN next = Wallet!Queries /\ \A p \in Wallet!Queries : IsQuery(next[p])
        /\ \A p \in Wallet!Queries : p # q => next[p] = query[p]
        /\ next[q].shows = mutation[m].value /\ ~next[q].stale
        /\ next[q].at = query[q].at /\ next[q].value = query[q].value
        /\ ~next[q].crossed => mutation[m].alone /\ query[q].at # "answered"
    BY <1>3, <2>1, <2>2, SetShows
  <2>4. CASE m = "cancel"
    BY <1>1, <1>2, <2>1, <2>2, <2>3, <2>4, Tables DEF WalletInv, Written
  <2>5. CASE m = "disable"
    <3>1. Safe(next["rule"], <<server.enabled>>)
      BY <1>1, <2>2, <2>3, <2>5, Tables DEF WalletInv, Written, AnswersRule, Safe
    <3>2. RuleRests'
      BY <1>1, <2>1, <3>1 DEF RuleRests
    <3> QED BY <1>2, <2>1, <2>2, <2>3, <2>5, <3>2, Tables
  <2> QED BY <1>6, <2>4, <2>5
<1> QED BY <1>4, <1>5, <1>6, Tables

LEMMA SettlementsKeep ==
  ASSUME WalletInv, NEW m \in Wallet!Mutations, Wallet!Settle(m) PROVE WalletInv'
<1>1. /\ mutation[m].at = "settling" /\ mutation' = [mutation EXCEPT ![m] = Wallet!NoCall]
      /\ UNCHANGED <<server, unsure>>
  BY DEF Wallet!Settle
<1>2. /\ DOMAIN mutation' = Wallet!Mutations /\ \A n \in Wallet!Mutations : IsCall(mutation'[n])
      /\ mutation'[m].at = "idle" /\ \A n \in Wallet!Mutations : n # m => mutation'[n] = mutation[n]
  BY <1>1, MutationsEnd DEF WalletInv
<1>3. Written'
  BY <1>1, <1>2, WrittenStays DEF WalletInv
<1>4. CASE m = "topUp"
  <2>1. query' \in Wallet!Mounted("pix", query)
    BY <1>4 DEF Wallet!Settle
  <2>2. PICK F \in SUBSET Wallet!Uses["pix"] :
          query' = [q \in Wallet!Queries |-> IF q \in F THEN Wallet!Ask(query[q]) ELSE query[q]]
    BY <2>1 DEF Wallet!Mounted
  <2>3. F \subseteq {"intent"}
    BY DEF Wallet!Uses
  <2>4. /\ DOMAIN query' = Wallet!Queries /\ \A q \in Wallet!Queries : IsQuery(query'[q])
        /\ \A q \in Wallet!Queries : q # "intent" => query'[q] = query[q]
        /\ query'["intent"].shows = query["intent"].shows
        /\ query'["intent"].value = query["intent"].value \/ query'["intent"].value = <<>>
    BY <2>2, <2>3, AskUnsettles, Tables DEF WalletInv, WalletTypes
  <2>5. query["intent"].shows = <<>> /\ server.payment # "none" /\ <<>> # <<"CAPTURED">>
    BY <1>1, <1>4 DEF WalletInv, NoPix
  <2>6. WalletTypes' /\ NoPix'
    BY <1>1, <1>2, <1>4, <2>4, <2>5 DEF WalletInv, WalletTypes, NoPix
  <2>7. (Captured' => server'.credited) /\ WalletRests'
    BY <1>1, <2>4, <2>5 DEF WalletInv, Captured, WalletRests
  <2>8. RuleRests' /\ MethodsRest'
    BY <1>1, <1>2, <1>4, <2>4, Tables DEF WalletInv, RuleRests, MethodsRest
  <2> QED BY <1>3, <2>6, <2>7, <2>8 DEF WalletInv
<1>5. CASE m # "topUp"
  <2>1. UNCHANGED <<opened, query>>
    BY <1>5 DEF Wallet!Settle
  <2>2. WalletTypes' /\ NoPix'
    BY <1>1, <1>2, <1>5, <2>1, Tables DEF WalletInv, WalletTypes, NoPix
  <2>3. (Captured' => server'.credited) /\ WalletRests'
    BY <1>1, <2>1 DEF WalletInv, Captured, WalletRests
  <2>4. RuleRests' /\ MethodsRest'
    BY <1>1, <1>2, <2>1, Tables DEF WalletInv, RuleRests, MethodsRest
  <2> QED BY <1>3, <2>2, <2>3, <2>4 DEF WalletInv
<1> QED BY <1>4, <1>5

LEMMA WalletNext ==
  ASSUME WalletInv, [Wallet!Next]_(Wallet!vars) PROVE WalletInv'
<1>0. WalletTypes /\ \A q \in Wallet!Queries : IsQuery(query[q])
  BY DEF WalletInv, WalletTypes
<1>1. CASE UNCHANGED Wallet!vars \/ Wallet!Toggle \/ \E s \in Wallet!Screens : Wallet!Leave(s)
  <2>1. UNCHANGED <<server, query, mutation, unsure>> /\ opened' \subseteq opened
    BY <1>1 DEF Wallet!vars, Wallet!Toggle, Wallet!Leave
  <2> QED BY <1>0, <2>1, FetchesChange DEF WalletTypes
<1>2. ASSUME NEW s \in Wallet!Screens, Wallet!Open(s) PROVE WalletInv'
  <2>1. PICK F \in SUBSET Wallet!Uses[s] :
          query' = [q \in Wallet!Queries |-> IF q \in F THEN Wallet!Ask(query[q]) ELSE query[q]]
    BY <1>2 DEF Wallet!Open, Wallet!Mounted
  <2>2. s # "pix" /\ opened' = opened \cup {s} /\ UNCHANGED <<server, mutation, unsure>>
    BY <1>2 DEF Wallet!Open
  <2>3. "intent" \notin F
    BY <2>2, Tables
  <2> QED BY <2>1, <2>2, <2>3, FetchesBegin
<1>3. ASSUME NEW s \in Wallet!Screens, Wallet!Retry(s) PROVE WalletInv'
  <2>1. PICK F : F = Wallet!Uses[s]
    OBVIOUS
  <2>2. /\ query' = [q \in Wallet!Queries |-> IF q \in F THEN Wallet!Ask(query[q]) ELSE query[q]]
        /\ s \in opened /\ UNCHANGED <<server, opened, mutation, unsure>>
    BY <1>3, <2>1 DEF Wallet!Retry
  <2>3. "intent" \in F => "pix" \in opened
    BY <2>1, <2>2, Tables
  <2> QED BY <2>2, <2>3, FetchesBegin
<1>4. CASE Wallet!Poll
  <2>1. /\ query' = [query EXCEPT !["intent"] = Wallet!Ask(query["intent"])]
        /\ "pix" \in opened /\ UNCHANGED <<server, opened, mutation, unsure>>
    BY <1>4 DEF Wallet!Poll
  <2>2. /\ DOMAIN query' = Wallet!Queries /\ query'["intent"] = Wallet!Ask(query["intent"])
        /\ \A q \in Wallet!Queries : q # "intent" => query'[q] = query[q]
    BY <1>0, <2>1, Tables DEF WalletTypes
  <2>3. ASSUME NEW q \in Wallet!Queries
        PROVE  /\ IsQuery(query'[q]) /\ query'[q].shows = query[q].shows
               /\ query'[q].value = query[q].value \/ query'[q].value = <<>>
               /\ query'[q] = query[q] \/ Unsettled(query'[q])
    BY <1>0, <2>2, AskUnsettles
  <2> QED BY <2>1, <2>2, <2>3, FetchesChange
<1>5. ASSUME NEW q \in Wallet!Queries, Wallet!FetchFails(q) PROVE WalletInv'
  <2>1. /\ query' = [query EXCEPT ![q].at = "failed", ![q].value = <<>>]
        /\ query[q].at # "idle" /\ UNCHANGED <<server, opened, mutation, unsure>>
    BY <1>5 DEF Wallet!FetchFails, Wallet!UnderWay, Wallet!Unknown
  <2>2. PICK first : first = [query[q] EXCEPT !.at = "failed"]
    OBVIOUS
  <2>3. PICK next : next = [first EXCEPT !.value = <<>>]
    OBVIOUS
  <2>4. IsQuery(first) /\ first.at = "failed" /\ first.shows = query[q].shows
    BY <1>0, <2>2 DEF IsQuery
  <2>5. IsQuery(next) /\ next.at = "failed" /\ next.shows = query[q].shows /\ next.value = <<>>
    BY <2>3, <2>4 DEF IsQuery
  <2>6. /\ DOMAIN query' = Wallet!Queries /\ query'[q] = next
        /\ \A p \in Wallet!Queries : p # q => query'[p] = query[p]
    BY <1>0, <2>1, <2>2, <2>3 DEF WalletTypes
  <2>7. ASSUME NEW p \in Wallet!Queries
        PROVE  /\ IsQuery(query'[p]) /\ query'[p].shows = query[p].shows
               /\ query'[p].value = query[p].value \/ query'[p].value = <<>>
               /\ query'[p] = query[p] \/ Unsettled(query'[p])
    BY <1>0, <2>5, <2>6 DEF Unsettled
  <2>8. query'["intent"] = query["intent"] \/ query["intent"].at # "idle"
    BY <2>1, <2>6, Tables
  <2> QED BY <2>1, <2>6, <2>7, <2>8, FetchesChange
<1>6. ASSUME NEW q \in Wallet!Queries, Wallet!Read(q) \/ Wallet!Receive(q) PROVE WalletInv'
  BY <1>6, ReadsKeep, ReceiptsKeep
<1>7. ASSUME NEW m \in Wallet!Mutations,
             Wallet!Press(m) \/ Wallet!Commit(m) \/ Wallet!Succeed(m) \/ Wallet!Settle(m) \/ Wallet!Lose(m)
      PROVE WalletInv'
  BY <1>7, PressesKeep, CommitsKeep, SuccessesKeep, SettlementsKeep, LossesKeep
<1>8. CASE Wallet!Refuse \/ Wallet!Pay \/ Wallet!Expire
  BY <1>8, RefusalKeeps, BackendKeeps
<1> QED BY <1>1, <1>2, <1>3, <1>4, <1>5, <1>6, <1>7, <1>8 DEF Wallet!Next

LEMMA WalletStart == ASSUME Wallet!Init PROVE WalletInv
<1>1. /\ IsQuery(Wallet!NoQuery) /\ Wallet!NoQuery.at = "idle" /\ Wallet!NoQuery.shows = <<>>
      /\ Wallet!NoQuery.value = <<>> /\ Unsettled(Wallet!NoQuery)
  BY DEF Wallet!NoQuery, Wallet!Unknown, IsQuery, Unsettled
<1>2. /\ DOMAIN query = Wallet!Queries /\ \A q \in Wallet!Queries : query[q] = Wallet!NoQuery
      /\ DOMAIN mutation = Wallet!Mutations /\ \A m \in Wallet!Mutations : mutation[m] = Wallet!NoCall
      /\ opened = {}
  BY DEF Wallet!Init
<1>3. /\ DOMAIN server = {"payment", "credited", "enabled", "methods"}
      /\ server.payment = "none" /\ server.credited = FALSE
  BY DEF Wallet!Init
<1>4. WalletTypes /\ Written /\ NoPix
  BY <1>1, <1>2, <1>3, MutationEnds, Tables DEF WalletTypes, Written, NoPix, LoneOrNot, AnswersRule
<1>5. ~Captured
  <2>1. <<>> # <<"CAPTURED">>
    OBVIOUS
  <2>2. query["intent"].shows = <<>> /\ query["intent"].value = <<>>
    BY <1>1, <1>2, Tables
  <2> QED BY <1>3, <2>1, <2>2 DEF Captured
<1>6. RuleRests /\ MethodsRest /\ WalletRests
  BY <1>1, <1>2, UnsettledIsSafe, Tables DEF RuleRests, MethodsRest, WalletRests
<1> QED BY <1>4, <1>5, <1>6 DEF WalletInv

\* The payment screens alone, for any visits, mutations and failures: a rule and methods that rest are the
\* backend's, and a wallet beside a payment shown as captured shows its credit.
THEOREM RestingIsTrue == Wallet!Spec => []Wallet!ScreensAreTrue
BY WalletTrue, WalletStart, WalletNext, PTL DEF Wallet!Spec

\* Both, among the other clients.
THEOREM ScreensShowTruth == Spec => []ScreensAreTrue
<1> DEFINE Inv == (focus = "location" => LocationInv) /\ (focus = "wallet" => WalletInv)
<1>1. Init => Inv
  BY LocationStart, WalletStart DEF Init
<1>2. Inv /\ [Next]_vars => Inv'
  BY TakesSteps, LocationNext, WalletNext
<1>3. Inv => ScreensAreTrue
  BY WatchIsSeen, WalletTrue DEF ScreensAreTrue
<1> QED BY <1>1, <1>2, <1>3, PTL DEF Spec
=============================================================================
