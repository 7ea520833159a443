--------------------------- MODULE ServicesProofs ---------------------------
(***************************************************************************)
(* What the locks in Redis keep apart: the requests of one idempotency     *)
(* key, the runs of one scope of the reconciliation, and the evaluations   *)
(* of one rule of automatic recharge; and the demonstration: its seeded    *)
(* data, and the backend inside the driver's app.                          *)
(***************************************************************************)
EXTENDS MCServices, FiniteSetTheorems, SequenceTheorems, TLAPS

-----------------------------------------------------------------------------
(***************************************************************************)
(* What an idempotency key guarantees, for any finite number of requests   *)
(* and any faults.  A producer at work is paid for by the lock or by a     *)
(* fault: the lock lets one in, and each lock lost lets in one more.       *)
(***************************************************************************)

\* The cache and the answers know one session.
OneSession ==
  /\ result \in {Idempotency!NoSession, session}
  /\ \A r \in Requests :
       /\ call[r].answer \in {Idempotency!NoSession, session}
       /\ call[r].op = "answered" => call[r].answer # Idempotency!NoSession

\* Producers at work are no more than the faults and the lock.
ProducersArePaidFor == Cardinality(Idempotency!Running) <= faults + (IF lock THEN 1 ELSE 0)

IdempotencyInv == Idempotency!TypeOK /\ OneSession /\ ProducersArePaidFor

\* Requests that stop producing, or none, leave room.
LEMMA RunningIsFinite ==
  ASSUME IsFiniteSet(Requests)
  PROVE  IsFiniteSet(Idempotency!Running) /\ Cardinality(Idempotency!Running) \in Nat
<1>1. Idempotency!Running \subseteq Requests
  BY DEF Idempotency!Running
<1>2. IsFiniteSet(Idempotency!Running)
  BY <1>1, FS_Subset
<1> QED BY <1>2, FS_CardinalityType

LEMMA FewerRun ==
  ASSUME IsFiniteSet(Requests), ProducersArePaidFor,
         faults \in Nat, faults' = faults, lock' = lock, Idempotency!Running' \subseteq Idempotency!Running
  PROVE  ProducersArePaidFor'
<1>1. Cardinality(Idempotency!Running') <= Cardinality(Idempotency!Running) /\ Cardinality(Idempotency!Running') \in Nat
  BY RunningIsFinite, FS_Subset, FS_CardinalityType
<1> QED BY <1>1, RunningIsFinite DEF ProducersArePaidFor

LEMMA KeyInit == Idempotency!Init => IdempotencyInv
<1> SUFFICES ASSUME Idempotency!Init PROVE IdempotencyInv OBVIOUS
<1>1. lock \in BOOLEAN
  BY Zenon DEF Idempotency!Init
<1>2. {result, session, made, faults} \subseteq Nat /\ call \in [Requests -> Idempotency!Call] /\ OneSession
  BY DEF Idempotency!Init, Idempotency!Call, Idempotency!NoCall, Idempotency!NoSession,
         OneSession
<1>3. Idempotency!Running = {}
  BY DEF Idempotency!Init, Idempotency!Running, Idempotency!Op, Idempotency!NoCall
<1>4. ProducersArePaidFor
  BY <1>3, FS_EmptySet DEF Idempotency!Init, ProducersArePaidFor
<1> QED BY <1>1, <1>2, <1>4 DEF IdempotencyInv, Idempotency!TypeOK

\* The types and the session, which no step changes once it is there.
LEMMA SessionPreserved ==
  Idempotency!TypeOK /\ OneSession /\ [Idempotency!Next]_Idempotency!vars => Idempotency!TypeOK' /\ OneSession'
<1> SUFFICES ASSUME Idempotency!TypeOK, OneSession, [Idempotency!Next]_Idempotency!vars
             PROVE Idempotency!TypeOK' /\ OneSession' OBVIOUS
<1> USE DEF Idempotency!TypeOK, OneSession, Idempotency!NoSession
<1>1. CASE UNCHANGED Idempotency!vars
  BY <1>1 DEF Idempotency!vars
<1>2. ASSUME NEW r \in Requests, Idempotency!Get(r) PROVE Idempotency!TypeOK' /\ OneSession'
  BY <1>2 DEF Idempotency!Get, Idempotency!Call, Idempotency!NoCall
<1>3. ASSUME NEW r \in Requests, Idempotency!Acquire(r) PROVE Idempotency!TypeOK' /\ OneSession'
  BY <1>3 DEF Idempotency!Acquire, Idempotency!Goto, Idempotency!Call
<1>4. ASSUME NEW r \in Requests, Idempotency!Produce(r) PROVE Idempotency!TypeOK' /\ OneSession'
  <2>1. CASE session = Idempotency!NoSession
    BY <1>4, <2>1 DEF Idempotency!Produce, Idempotency!Call, Idempotency!Op
  <2>2. CASE session # Idempotency!NoSession
    BY <1>4, <2>2 DEF Idempotency!Produce, Idempotency!Goto, Idempotency!Call
  <2> QED BY <2>1, <2>2
<1>5. ASSUME NEW r \in Requests, Idempotency!ProducerThrows(r)
      PROVE Idempotency!TypeOK' /\ OneSession'
  BY <1>5 DEF Idempotency!ProducerThrows, Idempotency!Goto, Idempotency!Call
<1>6. ASSUME NEW r \in Requests, Idempotency!Store(r) PROVE Idempotency!TypeOK' /\ OneSession'
  BY <1>6 DEF Idempotency!Store, Idempotency!Goto, Idempotency!Call
<1>7. ASSUME NEW r \in Requests, Idempotency!Release(r) PROVE Idempotency!TypeOK' /\ OneSession'
  BY <1>7 DEF Idempotency!Release, Idempotency!Goto, Idempotency!Call
<1>8. ASSUME NEW r \in Requests, Idempotency!Retry(r) PROVE Idempotency!TypeOK' /\ OneSession'
  BY <1>8 DEF Idempotency!Retry, Idempotency!Call, Idempotency!NoCall
<1>9. CASE Idempotency!LockExpires
  <2>1. lock' \in BOOLEAN
    BY <1>9, Zenon DEF Idempotency!LockExpires
  <2>2. faults' = faults + 1 /\ UNCHANGED <<result, session, made, call>>
    BY <1>9, Zenon DEF Idempotency!LockExpires, Idempotency!Fault
  <2> QED BY <2>1, <2>2
<1>10. CASE Idempotency!Crash
  BY <1>10 DEF Idempotency!Crash, Idempotency!Fault, Idempotency!Call, Idempotency!NoCall
<1>11. CASE Idempotency!CacheLost
  <2>1. lock' \in BOOLEAN
    BY <1>11, Zenon DEF Idempotency!CacheLost
  <2>2. faults' = faults + 1 /\ result' = Idempotency!NoSession /\ UNCHANGED <<session, made, call>>
    BY <1>11, Zenon DEF Idempotency!CacheLost, Idempotency!Fault
  <2> QED BY <2>1, <2>2
<1> QED BY <1>1, <1>2, <1>3, <1>4, <1>5, <1>6, <1>7, <1>8, <1>9, <1>10, <1>11 DEF Idempotency!Next

LEMMA ProducersPreserved ==
  ASSUME IsFiniteSet(Requests)
  PROVE  Idempotency!TypeOK /\ ProducersArePaidFor /\ [Idempotency!Next]_Idempotency!vars => ProducersArePaidFor'
<1> SUFFICES ASSUME Idempotency!TypeOK, ProducersArePaidFor, [Idempotency!Next]_Idempotency!vars
             PROVE ProducersArePaidFor' OBVIOUS
<1>0. faults \in Nat /\ call \in [Requests -> Idempotency!Call] /\ lock \in BOOLEAN
      /\ IsFiniteSet(Idempotency!Running) /\ Cardinality(Idempotency!Running) \in Nat
  BY RunningIsFinite DEF Idempotency!TypeOK
<1>1. CASE UNCHANGED Idempotency!vars
  BY <1>0, <1>1, FewerRun DEF Idempotency!vars, Idempotency!Running, Idempotency!Op
<1>2. ASSUME NEW r \in Requests,
             Idempotency!Get(r) \/ Idempotency!Produce(r) \/ Idempotency!ProducerThrows(r) \/ Idempotency!Store(r) \/ Idempotency!Retry(r)
      PROVE  ProducersArePaidFor'
  <2>1. Idempotency!Running' \subseteq Idempotency!Running /\ faults' = faults /\ lock' = lock
    BY <1>0, <1>2 DEF Idempotency!Get, Idempotency!Produce, Idempotency!ProducerThrows,
                      Idempotency!Store, Idempotency!Retry, Idempotency!Goto, Idempotency!Running, Idempotency!Op, Idempotency!NoCall, Idempotency!Call
  <2> QED BY <1>0, <2>1, FewerRun
<1>3. ASSUME NEW r \in Requests, Idempotency!Acquire(r) PROVE ProducersArePaidFor'
  <2>1. CASE lock
    <3>1. Idempotency!Running' \subseteq Idempotency!Running /\ faults' = faults /\ lock' = lock
      BY <1>0, <1>3, <2>1 DEF Idempotency!Acquire, Idempotency!Goto, Idempotency!Running,
                              Idempotency!Op, Idempotency!Call
    <3> QED BY <1>0, <3>1, FewerRun
  <2>2. CASE ~lock
    <3>1. Idempotency!Running' \subseteq Idempotency!Running \cup {r} /\ faults' = faults /\ lock'
      BY <1>0, <1>3, <2>2 DEF Idempotency!Acquire, Idempotency!Goto, Idempotency!Running,
                              Idempotency!Op, Idempotency!Call
    <3>2. IsFiniteSet(Idempotency!Running \cup {r}) /\ Cardinality(Idempotency!Running \cup {r}) <= Cardinality(Idempotency!Running) + 1
          /\ Cardinality(Idempotency!Running \cup {r}) \in Nat
      <4>1. /\ IsFiniteSet(Idempotency!Running \cup {r})
            /\ Cardinality(Idempotency!Running \cup {r}) =
                 IF r \in Idempotency!Running THEN Cardinality(Idempotency!Running) ELSE Cardinality(Idempotency!Running) + 1
        BY <1>0, FS_AddElement
      <4> QED BY <1>0, <4>1
    <3>3. Cardinality(Idempotency!Running') <= Cardinality(Idempotency!Running) + 1 /\ Cardinality(Idempotency!Running') \in Nat
      BY <1>0, <3>1, <3>2, FS_Subset, FS_CardinalityType
    <3> QED BY <1>0, <2>2, <3>1, <3>3 DEF ProducersArePaidFor
  <2> QED BY <1>0, <2>1, <2>2
<1>4. ASSUME NEW r \in Requests, Idempotency!Release(r) PROVE ProducersArePaidFor'
  <2>1. r \in Idempotency!Running /\ Idempotency!Running' = Idempotency!Running \ {r} /\ faults' = faults /\ lock' = FALSE
    BY <1>0, <1>4 DEF Idempotency!Release, Idempotency!Goto, Idempotency!Running,
                      Idempotency!Op, Idempotency!Call, Idempotency!NoSession
  <2>2. Cardinality(Idempotency!Running') = Cardinality(Idempotency!Running) - 1
    BY <1>0, <2>1, FS_RemoveElement
  <2> QED BY <1>0, <2>1, <2>2 DEF ProducersArePaidFor
<1>5. CASE Idempotency!LockExpires
  <2>1. Idempotency!Running' = Idempotency!Running /\ faults' = faults + 1 /\ lock /\ lock' = FALSE
    BY <1>5 DEF Idempotency!LockExpires, Idempotency!Fault, Idempotency!Running, Idempotency!Op
  <2> QED BY <1>0, <2>1 DEF ProducersArePaidFor
<1>6. CASE Idempotency!Crash
  <2>1. Idempotency!Running' = {} /\ faults' = faults + 1 /\ lock' = lock
    BY <1>0, <1>6 DEF Idempotency!Crash, Idempotency!Fault, Idempotency!Running,
                      Idempotency!Op, Idempotency!NoCall, Idempotency!Call
  <2> QED BY <1>0, <2>1, FS_EmptySet DEF ProducersArePaidFor
<1>7. CASE Idempotency!CacheLost
  <2>1. Idempotency!Running' = Idempotency!Running /\ faults' = faults + 1 /\ lock' \in {lock, FALSE}
    BY <1>7 DEF Idempotency!CacheLost, Idempotency!Fault, Idempotency!Running, Idempotency!Op
  <2> QED BY <1>0, <2>1 DEF ProducersArePaidFor
<1> QED BY <1>1, <1>2, <1>3, <1>4, <1>5, <1>6, <1>7 DEF Idempotency!Next

LEMMA KeyNext ==
  ASSUME IsFiniteSet(Requests)
  PROVE  IdempotencyInv /\ [Idempotency!Next]_Idempotency!vars => IdempotencyInv'
BY SessionPreserved, ProducersPreserved DEF IdempotencyInv

LEMMA InvImpliesKeyIsHeld ==
  ASSUME IsFiniteSet(Requests)
  PROVE  IdempotencyInv => Idempotency!KeyIsHeld
<1> SUFFICES ASSUME IdempotencyInv PROVE Idempotency!KeyIsHeld OBVIOUS
<1>1. Cardinality(Idempotency!Running) <= 1 + faults
  BY RunningIsFinite DEF IdempotencyInv, Idempotency!TypeOK, ProducersArePaidFor
<1>2. Idempotency!Answers \subseteq {session}
  BY DEF IdempotencyInv, OneSession, Idempotency!Answers, Idempotency!Op
<1> QED BY <1>1, <1>2 DEF Idempotency!KeyIsHeld, Idempotency!Cardinality, Cardinality

\* Every variable has its type, for any requests.
THEOREM IdempotencyTypes == Idempotency!Spec => []Idempotency!TypeOK
<1>1. Idempotency!Init => Idempotency!TypeOK /\ OneSession
  BY KeyInit DEF IdempotencyInv
<1> QED BY <1>1, SessionPreserved, PTL DEF Idempotency!Spec

\* The services side by side: while the requests of the key run, so does their invariant.
LEMMA KeyBySide ==
  ASSUME IsFiniteSet(Requests)
  PROVE  /\ MCInit => (focus = "idempotency" => IdempotencyInv)
         /\ (focus = "idempotency" => IdempotencyInv) /\ [MCNext]_allVars
              => (focus = "idempotency" => IdempotencyInv)'
<1>1. MCInit /\ focus = "idempotency" => Idempotency!Init
  BY DEF MCInit
<1>2. [MCNext]_allVars => focus' = focus
  BY DEF MCNext, Rest, allVars
<1>3. [MCNext]_allVars /\ focus = "idempotency" => [Idempotency!Next]_Idempotency!vars
  BY DEF MCNext, Step, allVars, Idempotency!vars
<1> QED BY <1>1, <1>2, <1>3, KeyInit, KeyNext

\* However locks and results are lost, the answers are the one session there is,
\* and producers outnumber the lock only by what was lost (execute): for the component alone, and
\* among the other services.
THEOREM KeyHolds ==
  ASSUME IsFiniteSet(Requests)
  PROVE  /\ Idempotency!Spec => []Idempotency!KeyIsHeld
         /\ MCSpec => []KeyIsHeld
<1>1. IdempotencyInv /\ [Idempotency!Next]_Idempotency!vars => IdempotencyInv'
  BY KeyNext
<1>2. IdempotencyInv => Idempotency!KeyIsHeld
  BY InvImpliesKeyIsHeld
<1>3. Idempotency!Spec => []Idempotency!KeyIsHeld
  BY KeyInit, <1>1, <1>2, PTL DEF Idempotency!Spec
<1>4. MCSpec => []KeyIsHeld
  <2> DEFINE Inv == focus = "idempotency" => IdempotencyInv
  <2>1. MCInit => Inv
    BY KeyBySide
  <2>2. Inv /\ [MCNext]_allVars => Inv'
    BY KeyBySide
  <2>3. Inv => KeyIsHeld
    BY <1>2 DEF KeyIsHeld
  <2> QED BY <2>1, <2>2, <2>3, PTL DEF MCSpec
<1> QED BY <1>3, <1>4

-----------------------------------------------------------------------------
(***************************************************************************)
(* Runs of one scope whose locks have not expired are alone, for any       *)
(* number of runs: a run with its lease is the owner of its lock, and a    *)
(* lock has one owner.                                                     *)
(***************************************************************************)

Run == [scope : Reconciliation!Scopes \cup {"none"}, op : {"idle", "list", "reconcile"},
        left : SUBSET [id : Intents, status : Reconciliation!Listed], lease : BOOLEAN]

\* The locks and the runs have their types.
LocksTyped ==
  /\ lock \in [Reconciliation!Scopes -> Requests \cup {Reconciliation!Nobody}]
  /\ run \in [Requests -> Run]

\* A run that has not outlived its lock owns it.
LeaseIsOwned ==
  \A r \in Requests : run[r].lease => run[r].scope \in Reconciliation!Scopes /\ lock[run[r].scope] = r

LeaseInv == LocksTyped /\ LeaseIsOwned

LEMMA LeaseInit == Reconciliation!Init => LeaseInv
BY DEF Reconciliation!Init, LeaseInv, LocksTyped, LeaseIsOwned, Run, Reconciliation!NoRun

LEMMA LeaseNext ==
  ASSUME Reconciliation!Nobody \notin Requests
  PROVE  LeaseInv /\ [Reconciliation!Next]_Reconciliation!vars => LeaseInv'
<1> SUFFICES ASSUME LeaseInv, [Reconciliation!Next]_Reconciliation!vars PROVE LeaseInv' OBVIOUS
<1> USE DEF LeaseInv, LocksTyped
<1>1. CASE UNCHANGED Reconciliation!vars
  BY <1>1 DEF Reconciliation!vars, LeaseIsOwned
<1>2. ASSUME NEW r \in Requests, NEW s \in Reconciliation!Scopes, Reconciliation!Acquire(r, s)
      PROVE LeaseInv'
  <2>1. LocksTyped'
    BY <1>2 DEF Reconciliation!Acquire, Run
  <2>2. \A q \in Requests \ {r} : run[q].lease => run[q].scope # s
    BY <1>2 DEF Reconciliation!Acquire, LeaseIsOwned
  <2>3. LeaseIsOwned'
    BY <1>2, <2>2 DEF Reconciliation!Acquire, LeaseIsOwned
  <2> QED BY <2>1, <2>3
<1>3. ASSUME NEW r \in Requests, Reconciliation!List(r) PROVE LeaseInv'
  <2>1. {[id |-> i, status |-> intent[i].status] : i \in {j \in Intents : intent[j].status \in Reconciliation!Listed}}
          \in SUBSET [id : Intents, status : Reconciliation!Listed]
    OBVIOUS
  <2>2. PICK left \in SUBSET [id : Intents, status : Reconciliation!Listed] :
          run' = [run EXCEPT ![r].op = "reconcile", ![r].left = left]
    BY <1>3, <2>1 DEF Reconciliation!List
  <2>3. lock' = lock
    BY <1>3 DEF Reconciliation!List
  <2>4. LocksTyped'
    BY <2>2, <2>3 DEF Run
  <2>5. LeaseIsOwned'
    BY <2>2, <2>3 DEF LeaseIsOwned
  <2> QED BY <2>4, <2>5
<1>4. ASSUME NEW r \in Requests, Reconciliation!Reconcile(r) PROVE LeaseInv'
  <2>1. PICK e \in run[r].left : run' = [run EXCEPT ![r].left = @ \ {e}]
    BY <1>4 DEF Reconciliation!Reconcile
  <2>2. lock' = lock
    BY <1>4 DEF Reconciliation!Reconcile
  <2>3. LocksTyped'
    BY <2>1, <2>2 DEF Run
  <2>4. LeaseIsOwned'
    BY <2>1, <2>2 DEF LeaseIsOwned
  <2> QED BY <2>3, <2>4
<1>5. ASSUME NEW r \in Requests, Reconciliation!Release(r) PROVE LeaseInv'
  <2>1. LocksTyped'
    BY <1>5 DEF Reconciliation!Release, Reconciliation!ReleaseOwn, Run, Reconciliation!NoRun
  <2>2. LeaseIsOwned'
    BY <1>5 DEF Reconciliation!Release, Reconciliation!ReleaseOwn, Reconciliation!NoRun,
                LeaseIsOwned
  <2> QED BY <2>1, <2>2
<1>6. ASSUME NEW r \in Requests, Reconciliation!Expire(r) PROVE LeaseInv'
  <2>1. LocksTyped'
    BY <1>6 DEF Reconciliation!Expire, Run
  <2>2. \A q \in Requests \ {r} : run[q].lease => run[q].scope # run[r].scope
    BY <1>6 DEF Reconciliation!Expire, LeaseIsOwned
  <2>3. LeaseIsOwned'
    BY <1>6, <2>2 DEF Reconciliation!Expire, LeaseIsOwned
  <2> QED BY <2>1, <2>3
<1>7. ASSUME NEW i \in Intents, Reconciliation!IntentMoves(i) \/ Reconciliation!ProviderMoves(i)
      PROVE LeaseInv'
  BY <1>7 DEF Reconciliation!IntentMoves, Reconciliation!ProviderMoves, LeaseIsOwned
<1> QED BY <1>1, <1>2, <1>3, <1>4, <1>5, <1>6, <1>7 DEF Reconciliation!Next

LEMMA OwnersExclude == LeaseInv => Reconciliation!RunsAreAlone
BY DEF LeaseInv, LeaseIsOwned, Reconciliation!RunsAreAlone

\* Two runs of one scope are never under way at one time unless a lock expired
\* under one of them (run), for any intents and runs: for the component alone, and among the other
\* services.
THEOREM RunsExclude ==
  ASSUME Reconciliation!Nobody \notin Requests
  PROVE  /\ Reconciliation!Spec => []Reconciliation!RunsAreAlone
         /\ MCSpec => []RunsAreAlone
<1>1. LeaseInv /\ [Reconciliation!Next]_Reconciliation!vars => LeaseInv'
  BY LeaseNext
<1>2. Reconciliation!Spec => []Reconciliation!RunsAreAlone
  BY LeaseInit, <1>1, OwnersExclude, PTL DEF Reconciliation!Spec
<1>3. MCSpec => []RunsAreAlone
  <2> DEFINE Inv == focus = "reconciliation" => LeaseInv
  <2>1. MCInit => Inv
    BY LeaseInit DEF MCInit
  <2>2. Inv /\ [MCNext]_allVars => Inv'
    <3>1. [MCNext]_allVars => focus' = focus
      BY DEF MCNext, Rest, allVars
    <3>2. [MCNext]_allVars /\ focus = "reconciliation" => [Reconciliation!Next]_Reconciliation!vars
      BY DEF MCNext, Step, allVars, Reconciliation!vars
    <3> QED BY <1>1, <3>1, <3>2
  <2>3. Inv => RunsAreAlone
    BY OwnersExclude DEF RunsAreAlone
  <2> QED BY <2>1, <2>2, <2>3, PTL DEF MCSpec
<1> QED BY <1>2, <1>3

-----------------------------------------------------------------------------
(***************************************************************************)
(* Automatic recharges, for any finite numbers of evaluations and of       *)
(* sessions that spend, and any amounts and faults.                        *)
(*                                                                         *)
(* The argument: each step of an evaluation leaves what the next one       *)
(* relies on (Relies), and nobody takes that from it: the provider decides *)
(* on an hour once, a credit stays, and an intent leaves PENDING for good  *)
(* unless the charge was declined.  The version of an intent tells whether *)
(* it is PENDING, so a write that loses has lost against a capture or a    *)
(* review, and what was approved is credited or under review unless an     *)
(* evaluation still does it, or one was cut off by a crash or an error     *)
(* (Paid).  And as long as no evaluation outlives its lock, it runs alone, *)
(* so the balance it has read can only fall until it credits.              *)
(***************************************************************************)

\* What is asked of the constants.
RechargeBounds ==
  /\ "none" \notin Requests /\ LastHour \in Nat /\ RechargeFaults \in Nat
  /\ RechargeAmounts \subseteq Nat /\ \E a \in RechargeAmounts : \A b \in RechargeAmounts : b <= a

Deciding == {"read", "write"}
Moves == {<<"PENDING", "charge">>, <<"FAILED", "fail">>, <<"REQUIRES_REVIEW", "fail">>, <<"CAPTURED", "succeed">>}
IntentStates == {"NONE", "CREATED", "PENDING", "FAILED", "REQUIRES_REVIEW", "CAPTURED"}
Evaluation ==
  [op : {"idle", "rule", "balance", "create", "charge", "credit", "succeed", "fail", "release"} \cup Deciding,
   lease : BOOLEAN, bucket : AutoRecharge!Hours, failures : 0 .. 2, amount : RechargeAmounts \cup {0},
   target : {"none", "PENDING", "FAILED", "REQUIRES_REVIEW", "CAPTURED"},
   then : {"none", "charge", "fail", "succeed"}, seen : Nat]

RechargeTypes ==
  /\ wallet \in [{"purse"} -> [status : {"ACTIVE", "BLOCKED"}, available : Nat, reserved : Nat]]
  /\ DOMAIN journal = AutoRecharge!Ledger!Keys
  /\ rule \in [enabled : BOOLEAN, failures : 0 .. 3, cooling : BOOLEAN, amount : RechargeAmounts]
  /\ rule.enabled => rule.failures < 3
  /\ method \in {"ACTIVE", "REMOVED"}
  /\ intent \in [AutoRecharge!Hours -> [status : IntentStates, amount : RechargeAmounts \cup {0}, version : Nat]]
  /\ card \in [AutoRecharge!Hours -> AutoRecharge!Outcomes \cup {"NONE"}]
  /\ lock \in Requests \cup {"none"}
  /\ worker \in [Requests -> Evaluation]
  /\ \A w \in Requests : worker[w].lease => worker[w].op # "idle"
  /\ hour \in AutoRecharge!Hours /\ late \in 0 .. RechargeFaults /\ lost \in 0 .. RechargeFaults
  /\ crashes \in 0 .. RechargeFaults /\ errors \in 0 .. RechargeFaults

\* What an evaluation relies on, by where it is.
Relies(k) ==
  LET h == k.bucket IN
  /\ k.op \in Deciding => <<k.target, k.then>> \in Moves
  /\ k.op \in {"balance", "create", "charge", "credit"} \cup Deciding => k.amount \in RechargeAmounts
  /\ k.op \in {"charge", "credit"} \cup Deciding =>
       intent[h].status # "NONE" /\ intent[h].amount = k.amount
  /\ k.op \in {"charge", "credit"} \/ (k.op \in Deciding /\ k.target # "PENDING") =>
       intent[h].status # "CREATED"
  /\ k.op = "credit" => card[h] = "APPROVED"
  /\ k.op \in Deciding /\ k.target = "FAILED" => card[h] = "DECLINED"
  /\ k.op \in Deciding /\ k.target = "CAPTURED" => AutoRecharge!Credited(h)
  /\ k.op = "write" /\ card[h] # "DECLINED" =>
       IF k.target = "PENDING" THEN k.seen = 1 ELSE intent[h].status = "PENDING" => k.seen = 2

\* The rows of hour h.
RowsOf(h) ==
  /\ intent[h].status = "NONE" => intent[h] = AutoRecharge!NoIntent
  /\ intent[h].status = "FAILED" => card[h] = "DECLINED"
  /\ card[h] # "NONE" => intent[h].status \notin {"NONE", "CREATED"}
  /\ intent[h].status = "CAPTURED" => AutoRecharge!Credited(h)
  /\ AutoRecharge!Credited(h) =>
       /\ card[h] = "APPROVED" /\ intent[h].status # "NONE"
       /\ journal[<<"credit", h>>].amount = intent[h].amount
  /\ card[h] # "DECLINED" =>
       /\ intent[h].status = "CREATED" => intent[h].version = 1
       /\ intent[h].status = "PENDING" => intent[h].version = 2
       /\ intent[h].status \in {"REQUIRES_REVIEW", "CAPTURED"} => intent[h].version > 2

\* Evaluation k is about to credit hour h, or to ask for a review.
Pays(k, h) == k.bucket = h /\ (k.op = "credit" \/ (k.op \in Deciding /\ k.target = "REQUIRES_REVIEW"))

\* What was approved is credited or under review, or will be, unless a crash or an error prevents it.
Paid(h) ==
  card[h] = "APPROVED" /\ crashes = 0 /\ errors = 0 =>
    AutoRecharge!Credited(h) \/ intent[h].status = "REQUIRES_REVIEW" \/ \E w \in Requests : Pays(worker[w], h)

RechargeInv ==
  /\ RechargeTypes
  /\ \A w \in Requests : Relies(worker[w])
  /\ \A h \in AutoRecharge!Hours : RowsOf(h) /\ Paid(h)

-----------------------------------------------------------------------------
(* The steps of an evaluation *)

LEMMA Amounts ==
  ASSUME RechargeBounds
  PROVE  AutoRecharge!MaxAmount \in RechargeAmounts /\ AutoRecharge!MaxAmount \in Nat /\ \A b \in RechargeAmounts : b <= AutoRecharge!MaxAmount
BY DEF RechargeBounds, AutoRecharge!MaxAmount

LEMMA IdleEvaluation ==
  ASSUME RechargeBounds
  PROVE  AutoRecharge!Idle \in Evaluation /\ Relies(AutoRecharge!Idle) /\ AutoRecharge!Idle.op = "idle" /\ AutoRecharge!Idle.lease = FALSE
BY DEF RechargeBounds, AutoRecharge!Idle, Evaluation, Relies, AutoRecharge!Hours, Deciding

LEMMA AfterFinish ==
  ASSUME RechargeBounds, RechargeInv, NEW w \in Requests, AutoRecharge!Finish(w)
  PROVE  \E next \in Evaluation : /\ worker' = [worker EXCEPT ![w] = next]
                                  /\ next.op = "release" /\ next.lease = worker[w].lease
<1> DEFINE first == [AutoRecharge!Idle EXCEPT !.op = "release"]
           next == [first EXCEPT !.lease = worker[w].lease]
<1>1. worker' = [worker EXCEPT ![w] = next]
  BY Zenon DEF AutoRecharge!Finish
<1>2. worker[w].lease \in BOOLEAN
  BY DEF RechargeInv, RechargeTypes, Evaluation
<1>3. first \in Evaluation /\ first.op = "release"
  BY IdleEvaluation DEF Evaluation
<1> HIDE DEF first
<1>4. next \in Evaluation /\ next.op = "release" /\ next.lease = worker[w].lease
  BY <1>2, <1>3 DEF Evaluation
<1> HIDE DEF next
<1> QED BY <1>1, <1>4

LEMMA AfterGoto ==
  ASSUME RechargeBounds, RechargeInv, NEW w \in Requests,
         NEW op \in {"create", "charge", "credit"}, AutoRecharge!Goto(w, op)
  PROVE  \E next \in Evaluation :
           /\ worker' = [worker EXCEPT ![w] = next] /\ next.op = op
           /\ next.lease = worker[w].lease /\ next.bucket = worker[w].bucket
           /\ next.amount = worker[w].amount /\ next.target = worker[w].target
<1> DEFINE next == [worker[w] EXCEPT !.op = op]
<1>1. worker' = [worker EXCEPT ![w] = next]
  BY Zenon DEF AutoRecharge!Goto
<1>2. worker[w] \in Evaluation
  BY DEF RechargeInv, RechargeTypes
<1>3. /\ next \in Evaluation /\ next.op = op
      /\ next.lease = worker[w].lease /\ next.bucket = worker[w].bucket
      /\ next.amount = worker[w].amount /\ next.target = worker[w].target
  BY <1>2 DEF Evaluation
<1> HIDE DEF next
<1> QED BY <1>1, <1>3

LEMMA AfterTransition ==
  ASSUME RechargeBounds, RechargeInv, NEW w \in Requests, NEW target, NEW then,
         <<target, then>> \in Moves, AutoRecharge!Transition(w, target, then)
  PROVE  \E next \in Evaluation :
           /\ worker' = [worker EXCEPT ![w] = next] /\ next.op = "read"
           /\ next.lease = worker[w].lease /\ next.bucket = worker[w].bucket
           /\ next.amount = worker[w].amount /\ next.target = target /\ next.then = then
<1> DEFINE first == [worker[w] EXCEPT !.op = "read"]
           second == [first EXCEPT !.target = target]
           next == [second EXCEPT !.then = then]
<1>1. worker' = [worker EXCEPT ![w] = next]
  <2>1. worker' = [worker EXCEPT ![w].op = "read", ![w].target = target, ![w].then = then]
    BY DEF AutoRecharge!Transition
  <2> QED BY <2>1 DEF RechargeInv, RechargeTypes
<1>2. worker[w] \in Evaluation
  BY DEF RechargeInv, RechargeTypes
<1>3. /\ first \in Evaluation /\ first.op = "read" /\ first.lease = worker[w].lease
      /\ first.bucket = worker[w].bucket /\ first.amount = worker[w].amount
  BY <1>2 DEF Evaluation, Deciding
<1> HIDE DEF first
<1>4. /\ second \in Evaluation /\ second.op = "read" /\ second.lease = worker[w].lease
      /\ second.bucket = worker[w].bucket /\ second.amount = worker[w].amount
      /\ second.target = target
  BY <1>3 DEF Evaluation, Moves
<1> HIDE DEF second
<1>5. /\ next \in Evaluation /\ next.op = "read" /\ next.lease = worker[w].lease
      /\ next.bucket = worker[w].bucket /\ next.amount = worker[w].amount
      /\ next.target = target /\ next.then = then
  BY <1>4 DEF Evaluation, Moves
<1> HIDE DEF next
<1> QED BY <1>1, <1>5

LEMMA AfterResume ==
  ASSUME RechargeBounds, RechargeInv, NEW w \in Requests, worker[w].op \in Deciding, AutoRecharge!Resume(w)
  PROVE  \E next \in Evaluation :
           /\ worker' = [worker EXCEPT ![w] = next] /\ next.op = worker[w].then
           /\ next.lease = worker[w].lease /\ next.bucket = worker[w].bucket
           /\ next.amount = worker[w].amount /\ next.target = "none"
<1> DEFINE first == [worker[w] EXCEPT !.op = worker[w].then]
           second == [first EXCEPT !.target = "none"]
           third == [second EXCEPT !.then = "none"]
           next == [third EXCEPT !.seen = 0]
<1>1. worker' = [worker EXCEPT ![w] = next]
  <2>1. worker' = [worker EXCEPT ![w].op = worker[w].then,
                           ![w].target = "none", ![w].then = "none", ![w].seen = 0]
    BY DEF AutoRecharge!Resume
  <2> QED BY <2>1 DEF RechargeInv, RechargeTypes
<1>2. worker[w] \in Evaluation /\ worker[w].then \in {"charge", "fail", "succeed"}
  BY DEF RechargeInv, RechargeTypes, Relies, Moves
<1>3. /\ first \in Evaluation /\ first.op = worker[w].then /\ first.lease = worker[w].lease
      /\ first.bucket = worker[w].bucket /\ first.amount = worker[w].amount
  BY <1>2 DEF Evaluation
<1> HIDE DEF first
<1>4. /\ second \in Evaluation /\ second.op = worker[w].then /\ second.lease = worker[w].lease
      /\ second.bucket = worker[w].bucket /\ second.amount = worker[w].amount
      /\ second.target = "none"
  BY <1>3 DEF Evaluation
<1> HIDE DEF second
<1>5. /\ third \in Evaluation /\ third.op = worker[w].then /\ third.lease = worker[w].lease
      /\ third.bucket = worker[w].bucket /\ third.amount = worker[w].amount
      /\ third.target = "none"
  BY <1>4 DEF Evaluation
<1> HIDE DEF third
<1>6. /\ next \in Evaluation /\ next.op = worker[w].then /\ next.lease = worker[w].lease
      /\ next.bucket = worker[w].bucket /\ next.amount = worker[w].amount
      /\ next.target = "none"
  BY <1>5 DEF Evaluation
<1> HIDE DEF next
<1> QED BY <1>1, <1>6

\* What every step keeps of hour h.
Keeps(h) ==
  /\ intent[h].status # "NONE" => intent'[h].status # "NONE" /\ intent'[h].amount = intent[h].amount
  /\ intent[h].status \notin {"NONE", "CREATED"} => intent'[h].status \notin {"NONE", "CREATED"}
  /\ intent'[h].status = "PENDING" /\ card[h] # "DECLINED" =>
       intent[h].status \in {"CREATED", "PENDING", "FAILED"}
  /\ intent[h].status = "REQUIRES_REVIEW" /\ card[h] # "DECLINED" =>
       intent'[h].status = "REQUIRES_REVIEW" \/ AutoRecharge!Credited(h)'
  /\ card[h] # "NONE" => card'[h] = card[h]
  /\ AutoRecharge!Credited(h) => AutoRecharge!Credited(h)'

LEMMA OthersRely ==
  ASSUME RechargeInv, \A h \in AutoRecharge!Hours : Keeps(h), NEW k \in Evaluation, Relies(k)
  PROVE  Relies(k)'
<1> DEFINE h == k.bucket
<1>1. h \in AutoRecharge!Hours
  BY DEF Evaluation
<1>2. Keeps(h) /\ RowsOf(h)
  BY <1>1 DEF RechargeInv
<1>3. /\ k.op \in Deciding => <<k.target, k.then>> \in Moves
      /\ k.op \in {"balance", "create", "charge", "credit"} \cup Deciding => k.amount \in RechargeAmounts
  BY DEF Relies
<1>4. k.op \in {"charge", "credit"} \cup Deciding =>
        intent'[h].status # "NONE" /\ intent'[h].amount = k.amount
  BY <1>2 DEF Relies, Keeps
<1>5. k.op \in {"charge", "credit"} \/ (k.op \in Deciding /\ k.target # "PENDING") =>
        intent'[h].status # "CREATED"
  BY <1>2 DEF Relies, Keeps
<1>6. /\ k.op = "credit" => card'[h] = "APPROVED"
      /\ k.op \in Deciding /\ k.target = "FAILED" => card'[h] = "DECLINED"
      /\ k.op \in Deciding /\ k.target = "CAPTURED" => AutoRecharge!Credited(h)'
  BY <1>2 DEF Relies, Keeps
<1>7. k.op = "write" /\ card'[h] # "DECLINED" =>
        IF k.target = "PENDING" THEN k.seen = 1 ELSE intent'[h].status = "PENDING" => k.seen = 2
  BY <1>2 DEF Relies, Keeps, RowsOf, Deciding
<1> HIDE DEF h
<1> QED BY <1>3, <1>4, <1>5, <1>6, <1>7 DEF Relies, h

\* A step of evaluation w keeps the invariant if it leaves what its next step relies on, the rows
\* right, and what it had to pay paid.
LEMMA EvaluationSteps ==
  ASSUME RechargeInv, RechargeTypes', NEW w \in Requests, NEW next \in Evaluation,
         worker' = [worker EXCEPT ![w] = next], Relies(next)',
         \A h \in AutoRecharge!Hours : Keeps(h) /\ RowsOf(h)',
         crashes' = crashes, errors' = errors,
         \A h \in AutoRecharge!Hours :
           card'[h] = "APPROVED" /\ (card[h] # "APPROVED" \/ Pays(worker[w], h)) =>
             AutoRecharge!Credited(h)' \/ intent'[h].status = "REQUIRES_REVIEW" \/ Pays(next, h)
  PROVE  RechargeInv'
<1>1. worker \in [Requests -> Evaluation]
  BY DEF RechargeInv, RechargeTypes
<1>2. worker'[w] = next /\ \A v \in Requests \ {w} : worker'[v] = worker[v]
  BY <1>1
<1>3. ASSUME NEW v \in Requests PROVE Relies(worker[v])'
  <2>1. CASE v = w
    BY <1>2, <2>1 DEF Relies
  <2>2. CASE v # w
    <3>1. PICK k \in Evaluation : k = worker[v]
      BY <1>1
    <3>2. Relies(k)'
      BY <3>1, OthersRely DEF RechargeInv
    <3>3. worker'[v] = k
      BY <1>2, <2>2, <3>1
    <3> QED BY <3>2, <3>3 DEF Relies
  <2> QED BY <2>1, <2>2
<1>4. ASSUME NEW h \in AutoRecharge!Hours PROVE Paid(h)'
  <2> SUFFICES ASSUME card'[h] = "APPROVED", crashes' = 0, errors' = 0, ~AutoRecharge!Credited(h)',
                      intent'[h].status # "REQUIRES_REVIEW"
               PROVE  \E v \in Requests : Pays(worker'[v], h)
    BY DEF Paid, Pays
  <2>1. CASE card[h] # "APPROVED" \/ Pays(worker[w], h)
    <3>1. Pays(next, h)
      BY <2>1
    <3> QED BY <1>2, <3>1
  <2>2. CASE card[h] = "APPROVED" /\ ~Pays(worker[w], h)
    <3>1. Keeps(h) /\ Paid(h)
      BY DEF RechargeInv
    <3>2. PICK v \in Requests : Pays(worker[v], h)
      BY <2>2, <3>1 DEF Keeps, Paid
    <3>3. worker'[v] = worker[v]
      BY <1>2, <2>2, <3>2
    <3> QED BY <3>2, <3>3
  <2> QED BY <2>1, <2>2
<1> QED BY <1>3, <1>4 DEF RechargeInv

\* Steps that touch neither the payments nor the evaluations.
LEMMA NothingMoves ==
  ASSUME RechargeInv, RechargeTypes', UNCHANGED <<intent, card, worker, crashes, errors>>,
         \A h \in AutoRecharge!Hours : journal'[<<"credit", h>>] = journal[<<"credit", h>>]
  PROVE  RechargeInv'
<1>1. ASSUME NEW h \in AutoRecharge!Hours PROVE RowsOf(h)' /\ Paid(h)'
  <2>1. RowsOf(h) /\ Paid(h)
    BY DEF RechargeInv
  <2>2. AutoRecharge!Credited(h)' <=> AutoRecharge!Credited(h)
    BY DEF AutoRecharge!Credited, AutoRecharge!Ledger!Fresh
  <2>3. RowsOf(h)'
    BY <2>1, <2>2 DEF RowsOf
  <2>4. Paid(h)'
    BY <2>1, <2>2 DEF Paid, Pays
  <2> QED BY <2>3, <2>4
<1>2. ASSUME NEW v \in Requests PROVE Relies(worker[v])'
  <2>1. PICK k \in Evaluation : k = worker[v]
    BY DEF RechargeInv, RechargeTypes
  <2>2. Relies(k)
    BY <2>1 DEF RechargeInv
  <2>3. k.bucket \in AutoRecharge!Hours
    BY DEF Evaluation
  <2>4. AutoRecharge!Credited(k.bucket)' <=> AutoRecharge!Credited(k.bucket)
    BY <2>3 DEF AutoRecharge!Credited, AutoRecharge!Ledger!Fresh
  <2>5. Relies(k)'
    BY <2>2, <2>4 DEF Relies
  <2> QED BY <2>1, <2>5 DEF Relies
<1> QED BY <1>1, <1>2 DEF RechargeInv

\* An evaluation that goes on to next has its types.
LEMMA EvaluationTyped ==
  ASSUME RechargeInv, NEW w \in Requests, NEW next \in Evaluation, next.lease => next.op # "idle",
         worker' = [worker EXCEPT ![w] = next]
  PROVE  /\ worker' \in [Requests -> Evaluation]
         /\ \A v \in Requests : worker'[v].lease => worker'[v].op # "idle"
BY DEF RechargeInv, RechargeTypes

\* A step of evaluation w that touches no payment.
LEMMA OnlyEvaluationMoves ==
  ASSUME RechargeInv, RechargeTypes', NEW w \in Requests, NEW next \in Evaluation,
         worker' = [worker EXCEPT ![w] = next], Relies(next),
         UNCHANGED <<intent, card, journal, crashes, errors>>,
         \A h \in AutoRecharge!Hours : Pays(worker[w], h) /\ card[h] = "APPROVED" =>
           AutoRecharge!Credited(h) \/ intent[h].status = "REQUIRES_REVIEW" \/ Pays(next, h)
  PROVE  RechargeInv'
<1>1. \A h \in AutoRecharge!Hours : AutoRecharge!Credited(h)' <=> AutoRecharge!Credited(h)
  BY DEF AutoRecharge!Credited, AutoRecharge!Ledger!Fresh
<1>2. ASSUME NEW h \in AutoRecharge!Hours PROVE Keeps(h) /\ RowsOf(h)'
  <2>1. RowsOf(h)
    BY DEF RechargeInv
  <2>2. RowsOf(h)'
    BY <1>1, <2>1 DEF RowsOf
  <2>3. Keeps(h)
    BY <1>1 DEF Keeps
  <2> QED BY <2>2, <2>3
<1>3. Relies(next)'
  <2>1. next.bucket \in AutoRecharge!Hours
    BY DEF Evaluation
  <2> QED BY <1>1, <2>1 DEF Relies
<1>4. ASSUME NEW h \in AutoRecharge!Hours, card'[h] = "APPROVED", card[h] # "APPROVED" \/ Pays(worker[w], h)
      PROVE  AutoRecharge!Credited(h)' \/ intent'[h].status = "REQUIRES_REVIEW" \/ Pays(next, h)
  BY <1>1, <1>4
<1> QED BY <1>2, <1>3, <1>4, EvaluationSteps

LEMMA AcquireKeeps ==
  ASSUME RechargeBounds, RechargeInv, NEW w \in Requests, AutoRecharge!Acquire(w)
  PROVE  RechargeInv'
<1> DEFINE first == [AutoRecharge!Idle EXCEPT !.op = "rule"]
           next == [first EXCEPT !.lease = TRUE]
<1>1. worker' = [worker EXCEPT ![w] = next] /\ lock' = w /\ worker[w].op = "idle"
  BY Zenon DEF AutoRecharge!Acquire, AutoRecharge!At
<1>2. UNCHANGED <<wallet, journal, rule, method, intent, card, hour, late, lost, crashes, errors>>
  BY DEF AutoRecharge!Acquire, AutoRecharge!money, AutoRecharge!settings, AutoRecharge!payments,
     AutoRecharge!bounds
<1>3. first \in Evaluation /\ first.op = "rule"
  BY IdleEvaluation DEF Evaluation
<1> HIDE DEF first
<1>4. next \in Evaluation /\ next.op = "rule"
  BY <1>3 DEF Evaluation
<1> HIDE DEF next
<1>5. RechargeTypes'
  BY <1>1, <1>2, <1>4, EvaluationTyped DEF RechargeInv, RechargeTypes, AutoRecharge!Credited
<1>6. Relies(next)
  BY <1>4 DEF Relies, Deciding
<1> QED BY <1>1, <1>2, <1>4, <1>5, <1>6, OnlyEvaluationMoves DEF Pays, Deciding

\* The evaluation has ended, and the lock is given back.
LEMMA FinishKeeps ==
  ASSUME RechargeBounds, RechargeInv, NEW w \in Requests, AutoRecharge!Finish(w),
         rule' \in [enabled : BOOLEAN, failures : 0 .. 3, cooling : BOOLEAN, amount : RechargeAmounts],
         rule'.enabled => rule'.failures < 3,
         UNCHANGED <<wallet, journal, method, intent, card, lock, hour, late, lost, crashes, errors>>,
         \A h \in AutoRecharge!Hours : Pays(worker[w], h) /\ card[h] = "APPROVED" =>
           AutoRecharge!Credited(h) \/ intent[h].status = "REQUIRES_REVIEW"
  PROVE  RechargeInv'
<1>1. PICK next \in Evaluation : /\ worker' = [worker EXCEPT ![w] = next]
                                 /\ next.op = "release" /\ next.lease = worker[w].lease
  BY AfterFinish
<1>2. RechargeTypes'
  BY <1>1, EvaluationTyped DEF RechargeInv, RechargeTypes
<1>3. Relies(next)
  BY <1>1 DEF Relies, Deciding
<1> QED BY <1>1, <1>2, <1>3, OnlyEvaluationMoves

LEMMA ReadRuleKeeps ==
  ASSUME RechargeBounds, RechargeInv, NEW w \in Requests, AutoRecharge!ReadRule(w)
  PROVE  RechargeInv'
<1>1. /\ UNCHANGED <<wallet, journal, rule, method, intent, card, lock, hour, late, lost, crashes, errors>>
      /\ worker[w].op = "rule"
  BY DEF AutoRecharge!ReadRule, AutoRecharge!At, AutoRecharge!money, AutoRecharge!settings,
     AutoRecharge!payments, AutoRecharge!bounds
<1>2. \A h \in AutoRecharge!Hours : ~Pays(worker[w], h)
  BY <1>1 DEF Pays, Deciding
<1>3. CASE ~rule.enabled \/ rule.cooling
  <2>1. AutoRecharge!Finish(w)
    BY <1>3 DEF AutoRecharge!ReadRule
  <2> QED BY <1>1, <1>2, <2>1, FinishKeeps DEF RechargeInv, RechargeTypes
<1>4. CASE ~(~rule.enabled \/ rule.cooling)
  <2> DEFINE goes == IF method = "ACTIVE" THEN "balance" ELSE "fail"
             first == [worker[w] EXCEPT !.failures = rule.failures]
             second == [first EXCEPT !.amount = rule.amount]
             next == [second EXCEPT !.op = goes]
  <2>1. worker' = [worker EXCEPT ![w] = next]
    <3>1. worker' = [worker EXCEPT ![w].failures = rule.failures, ![w].amount = rule.amount, ![w].op = goes]
      BY <1>4 DEF AutoRecharge!ReadRule
    <3> QED BY <3>1 DEF RechargeInv, RechargeTypes
  <2>2. worker[w] \in Evaluation /\ rule.failures \in 0 .. 2 /\ rule.amount \in RechargeAmounts
    BY <1>4 DEF RechargeInv, RechargeTypes
  <2>3. first \in Evaluation
    BY <2>2 DEF Evaluation
  <2> HIDE DEF first
  <2>4. second \in Evaluation /\ second.amount \in RechargeAmounts
    BY <2>2, <2>3 DEF Evaluation
  <2> HIDE DEF second
  <2>5. goes \in {"balance", "fail"}
    OBVIOUS
  <2> HIDE DEF goes
  <2>6. next \in Evaluation /\ next.op \in {"balance", "fail"} /\ next.amount \in RechargeAmounts
    BY <2>4, <2>5 DEF Evaluation
  <2> HIDE DEF next
  <2>7. RechargeTypes'
    BY <1>1, <2>1, <2>6, EvaluationTyped DEF RechargeInv, RechargeTypes
  <2>8. Relies(next)
    BY <2>6 DEF Relies, Deciding
  <2> QED BY <1>1, <1>2, <2>1, <2>6, <2>7, <2>8, OnlyEvaluationMoves
<1> QED BY <1>3, <1>4

LEMMA ReadBalanceKeeps ==
  ASSUME RechargeBounds, RechargeInv, NEW w \in Requests, AutoRecharge!ReadBalance(w)
  PROVE  RechargeInv'
<1>1. /\ UNCHANGED <<wallet, journal, rule, method, intent, card, lock, hour, late, lost, crashes, errors>>
      /\ worker[w].op = "balance"
  BY DEF AutoRecharge!ReadBalance, AutoRecharge!At, AutoRecharge!money, AutoRecharge!settings,
     AutoRecharge!payments, AutoRecharge!bounds
<1>2. \A h \in AutoRecharge!Hours : ~Pays(worker[w], h)
  BY <1>1 DEF Pays, Deciding
<1>3. CASE AutoRecharge!Balance >= AutoRecharge!Minimum
  <2>1. AutoRecharge!Finish(w)
    BY <1>3 DEF AutoRecharge!ReadBalance
  <2> QED BY <1>1, <1>2, <2>1, FinishKeeps DEF RechargeInv, RechargeTypes
<1>4. CASE ~(AutoRecharge!Balance >= AutoRecharge!Minimum)
  <2>1. AutoRecharge!Goto(w, "create")
    BY <1>4 DEF AutoRecharge!ReadBalance
  <2>2. PICK next \in Evaluation :
           /\ worker' = [worker EXCEPT ![w] = next] /\ next.op = "create"
           /\ next.lease = worker[w].lease /\ next.bucket = worker[w].bucket
           /\ next.amount = worker[w].amount /\ next.target = worker[w].target
    BY <2>1, AfterGoto
  <2>3. RechargeTypes'
    BY <1>1, <2>2, EvaluationTyped DEF RechargeInv, RechargeTypes
  <2>4. Relies(worker[w])
    BY DEF RechargeInv
  <2>5. Relies(next)
    BY <1>1, <2>2, <2>4 DEF Relies, Deciding
  <2> QED BY <1>1, <1>2, <2>2, <2>3, <2>5, OnlyEvaluationMoves
<1> QED BY <1>3, <1>4

LEMMA CreateIntentKeeps ==
  ASSUME RechargeBounds, RechargeInv, NEW w \in Requests, AutoRecharge!CreateIntent(w)
  PROVE  RechargeInv'
<1> DEFINE amount == worker[w].amount
           old == intent[hour]
           fresh == [status |-> "CREATED", amount |-> amount, version |-> 1]
           new == IF old = AutoRecharge!NoIntent THEN fresh ELSE old
           asked == [worker[w] EXCEPT !.bucket = hour]
           reads == [asked EXCEPT !.op = "read"]
           marks == [reads EXCEPT !.target = "PENDING"]
           marked == [marks EXCEPT !.then = "charge"]
           charges == [asked EXCEPT !.op = "charge"]
<1>1. /\ UNCHANGED <<wallet, journal, rule, method, card, lock, hour, late, lost, crashes, errors>>
      /\ worker[w].op = "create" /\ intent' = [intent EXCEPT ![hour] = new]
  BY DEF AutoRecharge!CreateIntent, AutoRecharge!At, AutoRecharge!money, AutoRecharge!settings,
     AutoRecharge!bounds
<1>2. /\ hour \in AutoRecharge!Hours /\ worker[w] \in Evaluation /\ amount \in RechargeAmounts
      /\ old \in [status : IntentStates, amount : RechargeAmounts \cup {0}, version : Nat]
      /\ old.status = "NONE" => old = AutoRecharge!NoIntent
  BY <1>1 DEF RechargeInv, RechargeTypes, Relies, RowsOf
<1>3. \A h \in AutoRecharge!Hours : ~Pays(worker[w], h)
  BY <1>1 DEF Pays, Deciding
<1>4. \/ new.amount # amount \/ new.status = "CAPTURED"
      \/ new.amount = amount /\ new.status = "CREATED"
      \/ new.amount = amount /\ new.status \notin {"CREATED", "CAPTURED"}
  OBVIOUS
<1>5. CASE new.amount # amount \/ new.status = "CAPTURED"
  <2>1. AutoRecharge!Finish(w)
    BY <1>5, Zenon DEF AutoRecharge!CreateIntent
  <2>2. new = old
    BY <1>5
  <2>3. intent' = intent
    BY <1>1, <1>2, <2>2 DEF RechargeInv, RechargeTypes
  <2> QED BY <1>1, <1>3, <2>1, <2>3, FinishKeeps DEF RechargeInv, RechargeTypes
<1>6. asked \in Evaluation /\ asked.bucket = hour /\ asked.amount = amount
  BY <1>2 DEF Evaluation
<1>7. \A h \in AutoRecharge!Hours : AutoRecharge!Credited(h)' <=> AutoRecharge!Credited(h)
  BY <1>1 DEF AutoRecharge!Credited, AutoRecharge!Ledger!Fresh
<1>8. CASE new.amount = amount /\ new.status = "CREATED"
  <2>1. worker' = [worker EXCEPT ![w] = marked]
    <3>1. worker' = [worker EXCEPT ![w] =
             [asked EXCEPT !.op = "read", !.target = "PENDING", !.then = "charge"]]
      BY <1>8, Zenon DEF AutoRecharge!CreateIntent
    <3>2. [asked EXCEPT !.op = "read", !.target = "PENDING", !.then = "charge"] = marked
      BY <1>6 DEF Evaluation
    <3> QED BY <3>1, <3>2
  <2> HIDE DEF asked
  <2>2. reads \in Evaluation /\ reads.op = "read" /\ reads.bucket = hour /\ reads.amount = amount
    BY <1>6 DEF Evaluation, Deciding
  <2> HIDE DEF reads
  <2>3. /\ marks \in Evaluation /\ marks.op = "read" /\ marks.bucket = hour /\ marks.amount = amount
        /\ marks.target = "PENDING"
    BY <2>2 DEF Evaluation
  <2> HIDE DEF marks
  <2>4. /\ marked \in Evaluation /\ marked.op = "read" /\ marked.bucket = hour /\ marked.amount = amount
        /\ marked.target = "PENDING" /\ marked.then = "charge"
    BY <2>3 DEF Evaluation
  <2> HIDE DEF marked
  <2>5. new \in [status : IntentStates, amount : RechargeAmounts \cup {0}, version : Nat]
    BY <1>2 DEF IntentStates
  <2>6. intent' \in [AutoRecharge!Hours -> [status : IntentStates, amount : RechargeAmounts \cup {0}, version : Nat]]
    BY <1>1, <2>5 DEF RechargeInv, RechargeTypes
  <2>7. RechargeTypes'
    BY <1>1, <2>1, <2>4, <2>6, EvaluationTyped DEF RechargeInv, RechargeTypes
  <2>8. ASSUME NEW h \in AutoRecharge!Hours PROVE Keeps(h) /\ RowsOf(h)'
    <3>0. RowsOf(h)
      BY DEF RechargeInv
    <3>1. CASE h = hour /\ old = AutoRecharge!NoIntent
      <4>1. /\ intent[h].status = "NONE" /\ intent'[h].status = "CREATED"
            /\ intent'[h].version = 1
        BY <1>1, <3>1 DEF RechargeInv, RechargeTypes, AutoRecharge!NoIntent
      <4>2. ~AutoRecharge!Credited(h) /\ ~AutoRecharge!Credited(h)'
        BY <1>7, <3>0, <4>1 DEF RowsOf
      <4>3. Keeps(h)
        BY <1>1, <4>1, <4>2 DEF Keeps
      <4>4. card'[h] = "NONE"
        BY <1>1, <3>0, <4>1 DEF RowsOf
      <4>5. RowsOf(h)'
        BY <4>1, <4>2, <4>4 DEF RowsOf
      <4> QED BY <4>3, <4>5
    <3>2. CASE ~(h = hour /\ old = AutoRecharge!NoIntent)
      <4>1. intent'[h] = intent[h] /\ card'[h] = card[h]
        BY <1>1, <3>2 DEF RechargeInv, RechargeTypes
      <4>2. journal'[<<"credit", h>>] = journal[<<"credit", h>>]
        BY <1>1
      <4>3. Keeps(h)
        BY <1>7, <4>1 DEF Keeps
      <4>4. RowsOf(h)'
        BY <1>7, <3>0, <4>1, <4>2 DEF RowsOf
      <4> QED BY <4>3, <4>4
    <3> QED BY <3>1, <3>2
  <2>9. intent'[hour].status = "CREATED" /\ intent'[hour].amount = amount
    BY <1>1, <1>2, <1>8 DEF RechargeInv, RechargeTypes
  <2>10. PICK next \in Evaluation : next = marked
    BY <2>4
  <2>11. Relies(next)'
    BY <1>2, <2>4, <2>9, <2>10 DEF Relies, Deciding, Moves
  <2> QED BY <1>1, <1>3, <2>1, <2>7, <2>8, <2>10, <2>11, EvaluationSteps
<1>9. CASE new.amount = amount /\ new.status \notin {"CREATED", "CAPTURED"}
  <2>1. new = old
    BY <1>9
  <2>2. intent' = intent
    BY <1>1, <1>2, <2>1 DEF RechargeInv, RechargeTypes
  <2>3. worker' = [worker EXCEPT ![w] = charges]
    BY <1>9, Zenon DEF AutoRecharge!CreateIntent
  <2> HIDE DEF asked
  <2>4. charges \in Evaluation /\ charges.op = "charge" /\ charges.bucket = hour /\ charges.amount = amount
    BY <1>6 DEF Evaluation
  <2> HIDE DEF charges
  <2>5. RechargeTypes'
    BY <1>1, <2>2, <2>3, <2>4, EvaluationTyped DEF RechargeInv, RechargeTypes
  <2>6. old.status # "NONE" /\ old.amount = amount /\ old.status # "CREATED"
    BY <1>2, <1>9, <2>1 DEF AutoRecharge!NoIntent
  <2>7. Relies(charges)
    BY <1>2, <2>4, <2>6 DEF Relies, Deciding
  <2> QED BY <1>1, <1>3, <2>2, <2>3, <2>4, <2>5, <2>7, OnlyEvaluationMoves
<1> QED BY <1>4, <1>5, <1>8, <1>9

\* What may be asked of an intent that nobody left uncreated.
LEMMA LegalMoves ==
  ASSUME NEW from \in IntentStates, from # "NONE", NEW to \in {"PENDING", "FAILED", "REQUIRES_REVIEW", "CAPTURED"}
  PROVE  /\ to = "REQUIRES_REVIEW" /\ from # "CREATED" => AutoRecharge!LegalIntentMove(from, to)
         /\ to = "PENDING" /\ AutoRecharge!LegalIntentMove(from, to) => from \in {"CREATED", "PENDING", "FAILED"}
BY DEF IntentStates, AutoRecharge!LegalIntentMove, AutoRecharge!IntentTransitions

LEMMA ReadIntentKeeps ==
  ASSUME RechargeBounds, RechargeInv, NEW w \in Requests, AutoRecharge!ReadIntent(w)
  PROVE  RechargeInv'
<1> DEFINE k == worker[w]
           h == k.bucket
<1>1. /\ UNCHANGED <<wallet, journal, rule, method, intent, card, lock, hour, late, lost, crashes, errors>>
      /\ k.op = "read"
  BY DEF AutoRecharge!ReadIntent, AutoRecharge!At, AutoRecharge!money, AutoRecharge!settings,
     AutoRecharge!payments, AutoRecharge!bounds
<1>2. /\ k \in Evaluation /\ h \in AutoRecharge!Hours /\ Relies(k) /\ RowsOf(h)
      /\ intent[h] \in [status : IntentStates, amount : RechargeAmounts \cup {0}, version : Nat]
  BY DEF RechargeInv, RechargeTypes, Evaluation
<1>3. /\ k.target \in {"PENDING", "FAILED", "REQUIRES_REVIEW", "CAPTURED"}
      /\ intent[h].status # "NONE" /\ k.op \in Deciding
  BY <1>1, <1>2 DEF Relies, Deciding, Moves
<1>4. k.target = "REQUIRES_REVIEW" => AutoRecharge!LegalIntentMove(intent[h].status, k.target)
  BY <1>1, <1>2, <1>3, LegalMoves DEF Relies, Deciding
<1>5. CASE ~AutoRecharge!LegalIntentMove(intent[h].status, k.target)
  <2>1. AutoRecharge!Finish(w)
    <3>1. ~AutoRecharge!LegalIntentMove(AutoRecharge!Intent(w).status, AutoRecharge!Target(w))
      BY <1>5, Zenon DEF AutoRecharge!Intent, AutoRecharge!Bucket, AutoRecharge!Target
    <3>2. AutoRecharge!Intent(w).status # AutoRecharge!Target(w)
      BY <3>1 DEF AutoRecharge!LegalIntentMove
    <3> QED BY <3>1, <3>2, Zenon DEF AutoRecharge!ReadIntent
  <2>2. \A g \in AutoRecharge!Hours : ~Pays(k, g)
    BY <1>1, <1>4, <1>5 DEF Pays
  <2> QED BY <1>1, <2>1, <2>2, FinishKeeps DEF RechargeInv, RechargeTypes
<1>6. CASE AutoRecharge!LegalIntentMove(intent[h].status, k.target) /\ intent[h].status = k.target
  <2>1. AutoRecharge!Resume(w)
    BY <1>6, Zenon DEF AutoRecharge!ReadIntent, AutoRecharge!Intent, AutoRecharge!Bucket,
       AutoRecharge!Target
  <2>2. PICK next \in Evaluation :
           /\ worker' = [worker EXCEPT ![w] = next] /\ next.op = worker[w].then
           /\ next.lease = worker[w].lease /\ next.bucket = worker[w].bucket
           /\ next.amount = worker[w].amount /\ next.target = "none"
    BY <1>3, <2>1, AfterResume
  <2>3. next.op \in {"charge", "fail", "succeed"} /\ (next.op = "charge" => k.target = "PENDING")
    BY <1>2, <1>3, <2>2 DEF Relies, Moves
  <2>4. RechargeTypes'
    BY <1>1, <2>2, <2>3, EvaluationTyped DEF RechargeInv, RechargeTypes
  <2>5. Relies(next)
    BY <1>2, <1>3, <1>6, <2>2, <2>3 DEF Relies, Deciding
  <2>6. \A g \in AutoRecharge!Hours : Pays(k, g) => intent[g].status = "REQUIRES_REVIEW"
    BY <1>1, <1>6 DEF Pays
  <2> QED BY <1>1, <2>2, <2>4, <2>5, <2>6, OnlyEvaluationMoves
<1>7. CASE AutoRecharge!LegalIntentMove(intent[h].status, k.target) /\ intent[h].status # k.target
  <2> DEFINE first == [k EXCEPT !.seen = intent[h].version]
             next == [first EXCEPT !.op = "write"]
  <2>1. worker' = [worker EXCEPT ![w] = next]
    <3>1. worker' = [worker EXCEPT ![w].seen = intent[h].version, ![w].op = "write"]
      BY <1>7, Zenon DEF AutoRecharge!ReadIntent, AutoRecharge!Intent, AutoRecharge!Bucket,
         AutoRecharge!Target
    <3> QED BY <3>1 DEF RechargeInv, RechargeTypes
  <2>2. /\ first \in Evaluation /\ first.bucket = h /\ first.amount = k.amount
        /\ first.target = k.target /\ first.then = k.then /\ first.seen = intent[h].version
    BY <1>2 DEF Evaluation
  <2> HIDE DEF first
  <2>3. /\ next \in Evaluation /\ next.bucket = h /\ next.amount = k.amount /\ next.op = "write"
        /\ next.target = k.target /\ next.then = k.then /\ next.seen = intent[h].version
    BY <2>2 DEF Evaluation, Deciding
  <2> HIDE DEF next
  <2>4. RechargeTypes'
    BY <1>1, <2>1, <2>3, EvaluationTyped DEF RechargeInv, RechargeTypes
  <2>5. card[h] # "DECLINED" =>
          IF k.target = "PENDING" THEN intent[h].version = 1
          ELSE intent[h].status = "PENDING" => intent[h].version = 2
    <3>1. k.target = "PENDING" => intent[h].status \in {"CREATED", "FAILED"}
      BY <1>2, <1>3, <1>7, LegalMoves
    <3> QED BY <1>2, <3>1 DEF RowsOf
  <2>6. Relies(next)
    BY <1>2, <1>3, <2>3, <2>5 DEF Relies, Deciding
  <2>7. \A g \in AutoRecharge!Hours : Pays(k, g) => Pays(next, g)
    BY <1>1, <2>3 DEF Pays, Deciding
  <2> QED BY <1>1, <2>1, <2>3, <2>4, <2>6, <2>7, OnlyEvaluationMoves
<1> QED BY <1>5, <1>6, <1>7

\* An evaluation whose write loses has lost against a capture, a review, or what it wants itself.
LEMMA LostWrite ==
  ASSUME RechargeInv, NEW w \in Requests, worker[w].op = "write",
         intent[worker[w].bucket].version # worker[w].seen,
         worker[w].target = "REQUIRES_REVIEW", card[worker[w].bucket] = "APPROVED"
  PROVE  \/ intent[worker[w].bucket].status = "REQUIRES_REVIEW"
         \/ AutoRecharge!Credited(worker[w].bucket)
<1> DEFINE k == worker[w]
           h == k.bucket
<1>1. /\ k \in Evaluation /\ h \in AutoRecharge!Hours /\ Relies(k) /\ RowsOf(h)
      /\ intent[h] \in [status : IntentStates, amount : RechargeAmounts \cup {0}, version : Nat]
  BY DEF RechargeInv, RechargeTypes, Evaluation
<1>2. intent[h].status \notin {"NONE", "CREATED"}
  BY <1>1 DEF Relies, Deciding
<1>3. intent[h].status # "PENDING"
  BY <1>1 DEF Relies, RowsOf, Deciding
<1>4. intent[h].status \in {"REQUIRES_REVIEW", "CAPTURED"}
  BY <1>1, <1>2, <1>3 DEF RowsOf, IntentStates
<1> QED BY <1>1, <1>4 DEF RowsOf

LEMMA WriteIntentKeeps ==
  ASSUME RechargeBounds, RechargeInv, NEW w \in Requests, AutoRecharge!WriteIntent(w)
  PROVE  RechargeInv'
<1>0. PICK k \in Evaluation : k = worker[w]
  BY DEF RechargeInv, RechargeTypes
<1> DEFINE h == k.bucket
<1>1. /\ UNCHANGED <<wallet, journal, rule, method, card, lock, hour, late, lost, crashes, errors>>
      /\ k.op = "write"
  BY <1>0 DEF AutoRecharge!WriteIntent, AutoRecharge!At, AutoRecharge!money, AutoRecharge!settings,
     AutoRecharge!bounds
<1>2. /\ k \in Evaluation /\ h \in AutoRecharge!Hours /\ Relies(k) /\ RowsOf(h)
      /\ intent[h] \in [status : IntentStates, amount : RechargeAmounts \cup {0}, version : Nat]
  BY <1>0 DEF RechargeInv, RechargeTypes, Evaluation
<1>3. /\ k.target \in {"PENDING", "FAILED", "REQUIRES_REVIEW", "CAPTURED"}
      /\ intent[h].status # "NONE" /\ k.op \in Deciding /\ intent[h].amount = k.amount
      /\ k.amount \in RechargeAmounts
      /\ k.target # "PENDING" => intent[h].status # "CREATED"
      /\ k.then \in {"charge", "fail", "succeed"} /\ (k.then = "charge" => k.target = "PENDING")
  BY <1>1, <1>2 DEF Relies, Deciding, Moves
<1>4. CASE AutoRecharge!Resume(w) /\ (intent'[h].status = k.target \/ (intent' = intent /\ intent[h].status = k.target))
           /\ intent' = [intent EXCEPT ![h] = intent'[h]]
           /\ intent'[h] \in [status : IntentStates, amount : RechargeAmounts \cup {0}, version : Nat]
           /\ Keeps(h) /\ RowsOf(h)'
  <2>1. PICK next \in Evaluation :
           /\ worker' = [worker EXCEPT ![w] = next] /\ next.op = worker[w].then
           /\ next.lease = worker[w].lease /\ next.bucket = worker[w].bucket
           /\ next.amount = worker[w].amount /\ next.target = "none"
    BY <1>0, <1>1, <1>3, <1>4, AfterResume
  <2>2. intent' \in [AutoRecharge!Hours -> [status : IntentStates, amount : RechargeAmounts \cup {0}, version : Nat]]
    BY <1>2, <1>4 DEF RechargeInv, RechargeTypes
  <2>3. RechargeTypes'
    BY <1>0, <1>1, <1>3, <2>1, <2>2, EvaluationTyped DEF RechargeInv, RechargeTypes
  <2>4. ASSUME NEW g \in AutoRecharge!Hours PROVE Keeps(g) /\ RowsOf(g)'
    <3>1. CASE g = h
      BY <1>4, <3>1
    <3>2. CASE g # h
      <4>1. intent'[g] = intent[g] /\ card'[g] = card[g] /\ RowsOf(g)
            /\ journal'[<<"credit", g>>] = journal[<<"credit", g>>]
        BY <1>1, <1>4, <3>2 DEF RechargeInv, RechargeTypes
      <4>2. AutoRecharge!Credited(g)' <=> AutoRecharge!Credited(g)
        BY <1>1 DEF AutoRecharge!Credited, AutoRecharge!Ledger!Fresh
      <4> QED BY <4>1, <4>2 DEF Keeps, RowsOf
    <3> QED BY <3>1, <3>2
  <2>5. intent'[h].status = k.target /\ intent'[h].amount = k.amount
    BY <1>3, <1>4 DEF Keeps
  <2>6. Relies(next)'
    <3>1. next.op \in {"charge", "fail", "succeed"} /\ (next.op = "charge" => k.target = "PENDING")
      BY <1>0, <1>3, <2>1
    <3> QED BY <1>0, <1>3, <2>1, <2>5, <3>1 DEF Relies, Deciding
  <2>7. \A g \in AutoRecharge!Hours : Pays(k, g) => intent'[g].status = "REQUIRES_REVIEW"
    BY <1>1, <2>5 DEF Pays
  <2> QED BY <1>0, <1>1, <2>1, <2>3, <2>4, <2>6, <2>7, EvaluationSteps
<1>5. AutoRecharge!Credited(h)' <=> AutoRecharge!Credited(h)
  BY <1>1 DEF AutoRecharge!Credited, AutoRecharge!Ledger!Fresh
<1>6. CASE intent[h].version = k.seen
  <2> DEFINE first == [intent[h] EXCEPT !.status = k.target]
             new == [first EXCEPT !.version = intent[h].version + 1]
  <2>1. AutoRecharge!Resume(w)
    BY <1>0, <1>6, Zenon DEF AutoRecharge!WriteIntent, AutoRecharge!Intent, AutoRecharge!Bucket
  <2>2. intent' = [intent EXCEPT ![h] = new]
    <3>1. intent' = [intent EXCEPT ![h].status = k.target, ![h].version = @ + 1]
      BY <1>0, <1>6, Zenon DEF AutoRecharge!WriteIntent, AutoRecharge!Intent, AutoRecharge!Bucket,
         AutoRecharge!Target
    <3> QED BY <3>1 DEF RechargeInv, RechargeTypes
  <2>3. /\ first \in [status : IntentStates, amount : RechargeAmounts \cup {0}, version : Nat]
        /\ first.status = k.target /\ first.amount = intent[h].amount
    BY <1>2, <1>3 DEF IntentStates
  <2> HIDE DEF first
  <2>4. /\ new \in [status : IntentStates, amount : RechargeAmounts \cup {0}, version : Nat]
        /\ new.status = k.target /\ new.amount = intent[h].amount
        /\ new.version = intent[h].version + 1
    BY <1>2, <2>3
  <2> HIDE DEF new
  <2>5. intent'[h] = new
    BY <1>2, <2>2 DEF RechargeInv, RechargeTypes
  <2>6. card[h] # "DECLINED" /\ k.target = "PENDING" => intent[h].status = "CREATED"
    BY <1>1, <1>2, <1>3, <1>6 DEF Relies, RowsOf, Deciding, IntentStates
  <2>7. Keeps(h)
    <3>1. intent[h].status = "REQUIRES_REVIEW" /\ card[h] # "DECLINED" =>
            k.target = "REQUIRES_REVIEW" \/ AutoRecharge!Credited(h)
      BY <1>1, <1>2, <1>3, <2>6 DEF Relies, Deciding
    <3> QED BY <1>1, <1>3, <1>5, <2>4, <2>5, <2>6, <3>1 DEF Keeps
  <2>8. RowsOf(h)'
    BY <1>1, <1>2, <1>3, <1>5, <2>4, <2>5, <2>6 DEF RowsOf, Relies, Deciding, IntentStates
  <2>9. intent' = [intent EXCEPT ![h] = intent'[h]]
    BY <2>2, <2>5
  <2> QED BY <1>4, <2>1, <2>4, <2>5, <2>7, <2>8, <2>9
<1>7. CASE intent[h].version # k.seen /\ intent[h].status = k.target
  <2>1. AutoRecharge!Resume(w) /\ intent' = intent
    BY <1>0, <1>7, Zenon DEF AutoRecharge!WriteIntent, AutoRecharge!Intent, AutoRecharge!Bucket,
       AutoRecharge!Target
  <2>2. Keeps(h) /\ RowsOf(h)'
    BY <1>1, <1>2, <1>5, <2>1 DEF Keeps, RowsOf
  <2>3. intent' = [intent EXCEPT ![h] = intent'[h]]
    BY <2>1 DEF RechargeInv, RechargeTypes
  <2> QED BY <1>2, <1>4, <1>7, <2>1, <2>2, <2>3
<1>8. CASE intent[h].version # k.seen /\ intent[h].status # k.target
  <2>1. AutoRecharge!Finish(w) /\ intent' = intent
    BY <1>0, <1>8, Zenon DEF AutoRecharge!WriteIntent, AutoRecharge!Intent, AutoRecharge!Bucket,
       AutoRecharge!Target
  <2>2. ASSUME NEW g \in AutoRecharge!Hours, Pays(k, g), card[g] = "APPROVED"
        PROVE  AutoRecharge!Credited(g) \/ intent[g].status = "REQUIRES_REVIEW"
    BY <1>0, <1>1, <1>8, <2>2, LostWrite DEF Pays
  <2> QED BY <1>0, <1>1, <2>1, <2>2, FinishKeeps DEF RechargeInv, RechargeTypes
<1> QED BY <1>6, <1>7, <1>8

LEMMA ChargeKeeps ==
  ASSUME RechargeBounds, RechargeInv, NEW w \in Requests, AutoRecharge!CreateCardAuthorization(w)
  PROVE  RechargeInv'
<1>0. PICK k \in Evaluation : k = worker[w]
  BY DEF RechargeInv, RechargeTypes
<1> DEFINE h == k.bucket
<1>1. /\ UNCHANGED <<wallet, journal, rule, method, intent, lock, hour, late, crashes, errors>>
      /\ k.op = "charge"
  BY <1>0 DEF AutoRecharge!CreateCardAuthorization, AutoRecharge!At, AutoRecharge!money,
     AutoRecharge!settings
<1>2. /\ h \in AutoRecharge!Hours /\ Relies(k) /\ \A g \in AutoRecharge!Hours : RowsOf(g)
      /\ card \in [AutoRecharge!Hours -> AutoRecharge!Outcomes \cup {"NONE"}]
  BY <1>0 DEF RechargeInv, RechargeTypes, Evaluation
<1>3. /\ k.amount \in RechargeAmounts /\ intent[h].amount = k.amount
      /\ intent[h].status # "NONE" /\ intent[h].status # "CREATED"
  BY <1>1, <1>2 DEF Relies
<1>4. PICK outcome \in AutoRecharge!Outcomes :
        /\ IF card[h] = "NONE" THEN card' = [card EXCEPT ![h] = outcome] ELSE card' = card
        /\ card'[h] = outcome
        /\ AutoRecharge!Answered(w, outcome) \/ AutoRecharge!Lost(w)
        /\ lost' \in 0 .. RechargeFaults
  <2> DEFINE moves == IF card[h] = "NONE" THEN {[card EXCEPT ![h] = o] : o \in AutoRecharge!Outcomes} ELSE {card}
  <2>1. /\ card' \in moves
        /\ \/ AutoRecharge!Answered(w, card'[h]) /\ UNCHANGED lost
           \/ AutoRecharge!Faults < RechargeFaults /\ AutoRecharge!Lost(w) /\ lost' = lost + 1
    BY <1>0, Zenon DEF AutoRecharge!CreateCardAuthorization, AutoRecharge!Bucket
  <2>2. lost' \in 0 .. RechargeFaults
    BY <2>1 DEF AutoRecharge!Faults, RechargeInv, RechargeTypes, RechargeBounds
  <2>3. CASE card[h] = "NONE"
    <3>1. PICK o \in AutoRecharge!Outcomes : card' = [card EXCEPT ![h] = o]
      BY <2>1, <2>3
    <3>2. card'[h] = o
      BY <1>2, <3>1
    <3> QED BY <2>1, <2>2, <2>3, <3>1, <3>2
  <2>4. CASE card[h] # "NONE"
    <3>1. card' = card /\ card[h] \in AutoRecharge!Outcomes
      BY <1>2, <2>1, <2>4
    <3> QED BY <2>1, <2>2, <2>4, <3>1
  <2> QED BY <2>3, <2>4
<1>5. \A g \in AutoRecharge!Hours : AutoRecharge!Credited(g)' <=> AutoRecharge!Credited(g)
  BY <1>1 DEF AutoRecharge!Credited, AutoRecharge!Ledger!Fresh
<1>6. card' \in [AutoRecharge!Hours -> AutoRecharge!Outcomes \cup {"NONE"}]
  BY <1>2, <1>4
<1>7. \A g \in AutoRecharge!Hours : card[g] # "NONE" \/ g # h => card'[g] = card[g]
  BY <1>2, <1>4
<1>8. ASSUME NEW g \in AutoRecharge!Hours PROVE Keeps(g) /\ RowsOf(g)'
  <2>1. Keeps(g)
    BY <1>1, <1>5, <1>7 DEF Keeps
  <2>2. RowsOf(g)'
    BY <1>1, <1>2, <1>3, <1>5, <1>7 DEF RowsOf
  <2> QED BY <2>1, <2>2
<1>9. ASSUME NEW target, NEW then, <<target, then>> \in Moves, AutoRecharge!Transition(w, target, then),
             target = "REQUIRES_REVIEW" \/ (target = "FAILED" /\ outcome = "DECLINED")
      PROVE  RechargeInv'
  <2>1. PICK next \in Evaluation :
           /\ worker' = [worker EXCEPT ![w] = next] /\ next.op = "read"
           /\ next.lease = worker[w].lease /\ next.bucket = worker[w].bucket
           /\ next.amount = worker[w].amount /\ next.target = target /\ next.then = then
    BY <1>9, AfterTransition
  <2>2. RechargeTypes'
    BY <1>1, <1>4, <1>6, <2>1, EvaluationTyped DEF RechargeInv, RechargeTypes
  <2>3. Relies(next)'
    BY <1>0, <1>1, <1>3, <1>4, <1>9, <2>1 DEF Relies, Deciding
  <2>4. ASSUME NEW g \in AutoRecharge!Hours, card'[g] = "APPROVED", card[g] # "APPROVED" \/ Pays(worker[w], g)
        PROVE  AutoRecharge!Credited(g)' \/ intent'[g].status = "REQUIRES_REVIEW" \/ Pays(next, g)
    <3>1. g = h
      BY <1>0, <1>1, <1>7, <2>4 DEF Pays, Deciding
    <3> QED BY <1>0, <1>4, <1>9, <2>1, <2>4, <3>1 DEF Pays, Deciding
  <2> QED BY <1>1, <1>8, <2>1, <2>2, <2>3, <2>4, EvaluationSteps
<1>10. CASE outcome = "APPROVED" /\ AutoRecharge!Answered(w, outcome)
  <2>0. AutoRecharge!Goto(w, "credit")
    BY <1>10, Zenon DEF AutoRecharge!Answered
  <2>1. PICK next \in Evaluation :
           /\ worker' = [worker EXCEPT ![w] = next] /\ next.op = "credit"
           /\ next.lease = worker[w].lease /\ next.bucket = worker[w].bucket
           /\ next.amount = worker[w].amount /\ next.target = worker[w].target
    BY <2>0, AfterGoto
  <2>2. RechargeTypes'
    BY <1>1, <1>4, <1>6, <2>1, EvaluationTyped DEF RechargeInv, RechargeTypes
  <2>3. Relies(next)'
    BY <1>0, <1>1, <1>3, <1>4, <1>10, <2>1 DEF Relies, Deciding
  <2>4. ASSUME NEW g \in AutoRecharge!Hours, card'[g] = "APPROVED", card[g] # "APPROVED" \/ Pays(worker[w], g)
        PROVE  AutoRecharge!Credited(g)' \/ intent'[g].status = "REQUIRES_REVIEW" \/ Pays(next, g)
    <3>1. g = h
      BY <1>0, <1>1, <1>7, <2>4 DEF Pays, Deciding
    <3> QED BY <1>0, <2>1, <3>1 DEF Pays
  <2> QED BY <1>1, <1>8, <2>1, <2>2, <2>3, <2>4, EvaluationSteps
<1>11. CASE outcome = "DECLINED" /\ AutoRecharge!Answered(w, outcome)
  <2>1. AutoRecharge!Transition(w, "FAILED", "fail")
    BY <1>11, Zenon DEF AutoRecharge!Answered
  <2> QED BY <1>9, <1>11, <2>1 DEF Moves
<1>12. CASE outcome = "REQUIRES_REVIEW" /\ AutoRecharge!Answered(w, outcome)
  <2>1. AutoRecharge!Transition(w, "REQUIRES_REVIEW", "fail")
    BY <1>12, Zenon DEF AutoRecharge!Answered
  <2> QED BY <1>9, <2>1 DEF Moves
<1>13. CASE AutoRecharge!Lost(w)
  <2>1. AutoRecharge!Transition(w, "REQUIRES_REVIEW", "fail")
    BY <1>13 DEF AutoRecharge!Lost
  <2> QED BY <1>9, <2>1 DEF Moves
<1> QED BY <1>4, <1>10, <1>11, <1>12, <1>13 DEF AutoRecharge!Outcomes

\* The keys of credits.
LEMMA CreditKeys ==
  \A h \in AutoRecharge!Hours : <<"credit", h>> \in AutoRecharge!Ledger!Keys
BY DEF AutoRecharge!Ledger!Keys

LEMMA CreditKeeps ==
  ASSUME RechargeBounds, RechargeInv, NEW w \in Requests, AutoRecharge!Credit(w)
  PROVE  RechargeInv'
<1>0. PICK k \in Evaluation : k = worker[w]
  BY DEF RechargeInv, RechargeTypes
<1> DEFINE h == k.bucket
<1>1. /\ UNCHANGED <<rule, method, intent, card, lock, hour, late, lost, crashes, errors>>
      /\ k.op = "credit" /\ AutoRecharge!Transition(w, "CAPTURED", "succeed")
  BY <1>0 DEF AutoRecharge!Credit, AutoRecharge!At, AutoRecharge!settings, AutoRecharge!payments,
     AutoRecharge!bounds
<1>2. h \in AutoRecharge!Hours /\ Relies(k) /\ \A g \in AutoRecharge!Hours : RowsOf(g)
  BY <1>0 DEF RechargeInv, RechargeTypes, Evaluation
<1>3. /\ k.amount \in RechargeAmounts /\ intent[h].amount = k.amount
      /\ intent[h].status # "NONE" /\ intent[h].status # "CREATED" /\ card[h] = "APPROVED"
  BY <1>1, <1>2 DEF Relies
<1>4. /\ wallet' \in [{"purse"} -> [status : {"ACTIVE", "BLOCKED"}, available : Nat, reserved : Nat]]
      /\ DOMAIN journal' = AutoRecharge!Ledger!Keys
      /\ AutoRecharge!Credited(h)' /\ (~AutoRecharge!Credited(h) => journal'[<<"credit", h>>].amount = k.amount)
      /\ \A g \in AutoRecharge!Hours : g # h \/ AutoRecharge!Credited(g) => journal'[<<"credit", g>>] = journal[<<"credit", g>>]
  <2>1. CASE AutoRecharge!Credited(h)
    <3>1. UNCHANGED <<wallet, journal>>
      BY <1>0, <2>1, Zenon DEF AutoRecharge!Credit, AutoRecharge!money, AutoRecharge!Bucket
    <3>2. AutoRecharge!Credited(h)'
      BY <2>1, <3>1 DEF AutoRecharge!Credited, AutoRecharge!Ledger!Fresh
    <3> QED BY <2>1, <3>1, <3>2 DEF RechargeInv, RechargeTypes
  <2>2. CASE ~AutoRecharge!Credited(h)
    <3> DEFINE key == <<"credit", h>>
               posting == AutoRecharge!Ledger!Posting(AutoRecharge!Ledger!Clearing, AutoRecharge!Ledger!Available("purse"), k.amount)
    <3>1. AutoRecharge!Ledger!Credit("purse", h, k.amount)
      BY <1>0, <2>2, Zenon DEF AutoRecharge!Credit, AutoRecharge!Bucket
    <3>2. /\ k.amount > 0 /\ journal' = [journal EXCEPT ![key] = posting]
          /\ wallet' = [wallet EXCEPT !["purse"].available = @ + k.amount]
      BY <3>1 DEF AutoRecharge!Ledger!Credit, AutoRecharge!Ledger!Post, AutoRecharge!Ledger!Posted
    <3>3. key \in DOMAIN journal /\ DOMAIN journal = AutoRecharge!Ledger!Keys /\ k.amount \in Nat
      BY <1>2, <1>3, CreditKeys DEF RechargeInv, RechargeTypes, RechargeBounds
    <3>4. wallet' \in [{"purse"} -> [status : {"ACTIVE", "BLOCKED"}, available : Nat, reserved : Nat]]
      BY <3>2, <3>3 DEF RechargeInv, RechargeTypes
    <3>5. posting.amount = k.amount
      BY DEF AutoRecharge!Ledger!Posting
    <3> HIDE DEF posting
    <3>6. DOMAIN journal' = AutoRecharge!Ledger!Keys /\ journal'[key] = posting
      BY <3>2, <3>3
    <3>7. \A g \in AutoRecharge!Hours : g # h => journal'[<<"credit", g>>] = journal[<<"credit", g>>]
      BY <3>2, <3>3, CreditKeys
    <3>8. AutoRecharge!Credited(h)'
      BY <3>2, <3>5, <3>6 DEF AutoRecharge!Credited, AutoRecharge!Ledger!Fresh,
         AutoRecharge!Ledger!NoPosting, AutoRecharge!Ledger!Posting
    <3> QED BY <2>2, <3>4, <3>5, <3>6, <3>7, <3>8
  <2> QED BY <2>1, <2>2
<1>5. PICK next \in Evaluation :
         /\ worker' = [worker EXCEPT ![w] = next] /\ next.op = "read"
         /\ next.lease = worker[w].lease /\ next.bucket = worker[w].bucket
         /\ next.amount = worker[w].amount /\ next.target = "CAPTURED" /\ next.then = "succeed"
  BY <1>1, AfterTransition DEF Moves
<1>6. RechargeTypes'
  BY <1>1, <1>4, <1>5, EvaluationTyped DEF RechargeInv, RechargeTypes
<1>7. \A g \in AutoRecharge!Hours : AutoRecharge!Credited(g)' <=> AutoRecharge!Credited(g) \/ g = h
  BY <1>4 DEF AutoRecharge!Credited, AutoRecharge!Ledger!Fresh
<1>8. ASSUME NEW g \in AutoRecharge!Hours PROVE Keeps(g) /\ RowsOf(g)'
  <2>1. Keeps(g)
    BY <1>1, <1>7 DEF Keeps
  <2>2. RowsOf(g)'
    BY <1>1, <1>2, <1>3, <1>4, <1>7 DEF RowsOf
  <2> QED BY <2>1, <2>2
<1>9. Relies(next)'
  BY <1>0, <1>1, <1>3, <1>4, <1>5 DEF Relies, Deciding, Moves
<1>10. ASSUME NEW g \in AutoRecharge!Hours, card'[g] = "APPROVED", card[g] # "APPROVED" \/ Pays(worker[w], g)
       PROVE  AutoRecharge!Credited(g)'
  BY <1>0, <1>1, <1>7, <1>10 DEF Pays, Deciding
<1> QED BY <1>1, <1>5, <1>6, <1>8, <1>9, <1>10, EvaluationSteps

LEMMA SucceedKeeps ==
  ASSUME RechargeBounds, RechargeInv, NEW w \in Requests, AutoRecharge!Succeed(w)
  PROVE  RechargeInv'
<1>1. /\ UNCHANGED <<wallet, journal, method, intent, card, lock, hour, late, lost, crashes, errors>>
      /\ worker[w].op = "succeed" /\ AutoRecharge!Finish(w) /\ rule' = [rule EXCEPT !.failures = 0]
  BY DEF AutoRecharge!Succeed, AutoRecharge!At, AutoRecharge!money, AutoRecharge!payments,
     AutoRecharge!bounds
<1>2. /\ rule' \in [enabled : BOOLEAN, failures : 0 .. 3, cooling : BOOLEAN, amount : RechargeAmounts]
      /\ rule'.enabled => rule'.failures < 3
  BY <1>1 DEF RechargeInv, RechargeTypes
<1> QED BY <1>1, <1>2, FinishKeeps DEF Pays, Deciding

LEMMA FailRuleKeeps ==
  ASSUME RechargeBounds, RechargeInv, NEW w \in Requests, AutoRecharge!FailRule(w)
  PROVE  RechargeInv'
<1> DEFINE failures == worker[w].failures + 1
           first == [rule EXCEPT !.cooling = TRUE]
           second == [first EXCEPT !.enabled = failures < 3]
           third == [second EXCEPT !.failures = failures]
           Rules == [enabled : BOOLEAN, failures : 0 .. 3, cooling : BOOLEAN, amount : RechargeAmounts]
<1>1. /\ UNCHANGED <<wallet, journal, method, intent, card, lock, hour, late, lost, crashes, errors>>
      /\ worker[w].op = "fail" /\ AutoRecharge!Finish(w)
  BY DEF AutoRecharge!FailRule, AutoRecharge!At, AutoRecharge!money, AutoRecharge!payments,
     AutoRecharge!bounds
<1>2. rule' = third
  <2>1. rule' = [rule EXCEPT !.cooling = TRUE, !.enabled = failures < 3, !.failures = failures]
    BY Zenon DEF AutoRecharge!FailRule
  <2> QED BY <2>1 DEF RechargeInv, RechargeTypes
<1>3. failures \in 1 .. 3 /\ (failures < 3) \in BOOLEAN
  BY DEF RechargeInv, RechargeTypes, Evaluation
<1>4. first \in Rules
  BY DEF RechargeInv, RechargeTypes
<1> HIDE DEF first
<1>5. second \in Rules /\ (second.enabled <=> failures < 3)
  BY <1>3, <1>4
<1> HIDE DEF second
<1>6. third \in Rules /\ (third.enabled => third.failures < 3)
  BY <1>3, <1>5
<1> HIDE DEF third
<1> QED BY <1>1, <1>2, <1>6, FinishKeeps DEF Pays, Deciding

LEMMA ReleaseKeeps ==
  ASSUME RechargeBounds, RechargeInv, NEW w \in Requests, AutoRecharge!Release(w)
  PROVE  RechargeInv'
<1>1. /\ UNCHANGED <<wallet, journal, rule, method, intent, card, hour, late, lost, crashes, errors>>
      /\ worker[w].op = "release" /\ worker' = [worker EXCEPT ![w] = AutoRecharge!Idle]
      /\ lock' \in {lock, "none"}
  BY DEF AutoRecharge!Release, AutoRecharge!At, AutoRecharge!money, AutoRecharge!settings,
     AutoRecharge!payments, AutoRecharge!bounds
<1>2. /\ worker' \in [Requests -> Evaluation]
      /\ \A v \in Requests : worker'[v].lease => worker'[v].op # "idle"
  BY <1>1, IdleEvaluation DEF RechargeInv, RechargeTypes
<1>3. RechargeTypes'
  BY <1>1, <1>2 DEF RechargeInv, RechargeTypes
<1>4. PICK next \in Evaluation : next = AutoRecharge!Idle /\ Relies(next)
  BY IdleEvaluation
<1> QED BY <1>1, <1>3, <1>4, OnlyEvaluationMoves DEF Pays, Deciding

LEMMA LeaseExpiresKeeps ==
  ASSUME RechargeBounds, RechargeInv, NEW w \in Requests, AutoRecharge!LeaseExpires(w)
  PROVE  RechargeInv'
<1> DEFINE k == worker[w]
           next == [k EXCEPT !.lease = FALSE]
<1>1. /\ UNCHANGED <<wallet, journal, rule, method, intent, card, hour, lost, crashes, errors>>
      /\ worker' = [worker EXCEPT ![w] = next] /\ lock' = "none" /\ late' \in 0 .. RechargeFaults
  <2>1. worker' = [worker EXCEPT ![w].lease = FALSE] /\ lock' = "none" /\ late' = late + 1
    BY DEF AutoRecharge!LeaseExpires
  <2>2. late' \in 0 .. RechargeFaults
    BY <2>1 DEF AutoRecharge!LeaseExpires, AutoRecharge!Faults, RechargeInv, RechargeTypes,
       RechargeBounds
  <2>3. worker' = [worker EXCEPT ![w] = next]
    BY <2>1 DEF RechargeInv, RechargeTypes
  <2> QED BY <2>1, <2>2, <2>3 DEF AutoRecharge!LeaseExpires, AutoRecharge!money,
             AutoRecharge!settings, AutoRecharge!payments
<1>2. k \in Evaluation /\ Relies(k)
  BY DEF RechargeInv, RechargeTypes
<1>3. /\ next \in Evaluation /\ next.op = k.op /\ next.bucket = k.bucket /\ next.amount = k.amount
      /\ next.target = k.target /\ next.then = k.then /\ next.seen = k.seen /\ ~next.lease
  BY <1>2 DEF Evaluation
<1> HIDE DEF next
<1>4. RechargeTypes'
  BY <1>1, <1>3, EvaluationTyped DEF RechargeInv, RechargeTypes
<1>5. Relies(next)
  BY <1>2, <1>3 DEF Relies
<1>6. \A g \in AutoRecharge!Hours : Pays(k, g) => Pays(next, g)
  BY <1>3 DEF Pays
<1> QED BY <1>1, <1>3, <1>4, <1>5, <1>6, OnlyEvaluationMoves

\* Where an evaluation goes that throws.
LEMMA AfterThrow ==
  ASSUME RechargeBounds, RechargeInv, NEW w \in Requests, AutoRecharge!Throw(w)
  PROVE  /\ UNCHANGED <<wallet, journal, rule, method, intent, card, lock, hour, late, lost, crashes>>
         /\ worker[w].op # "idle" /\ errors' \in 0 .. RechargeFaults /\ errors' # 0
         /\ \E next \in Evaluation : /\ worker' = [worker EXCEPT ![w] = next]
                                     /\ \/ next.op = "release" /\ next.lease = worker[w].lease
                                        \/ next.op = "idle" /\ ~next.lease
<1>1. /\ UNCHANGED <<wallet, journal, rule, method, intent, card, lock, hour, late, lost, crashes>>
      /\ worker[w].op # "idle" /\ errors' = errors + 1 /\ AutoRecharge!Faults < RechargeFaults
  BY DEF AutoRecharge!Throw, AutoRecharge!money, AutoRecharge!settings, AutoRecharge!payments
<1>2. errors' \in 0 .. RechargeFaults /\ errors' # 0
  BY <1>1 DEF AutoRecharge!Faults, RechargeInv, RechargeTypes, RechargeBounds
<1>3. CASE AutoRecharge!Finish(w)
  BY <1>1, <1>2, <1>3, AfterFinish
<1>4. CASE worker' = [worker EXCEPT ![w] = AutoRecharge!Idle]
  BY <1>1, <1>2, <1>4, IdleEvaluation
<1> QED BY <1>3, <1>4 DEF AutoRecharge!Throw

\* What an error cuts off, an evaluation of the same hour may take up.
LEMMA ThrowKeeps ==
  ASSUME RechargeBounds, RechargeInv, NEW w \in Requests, AutoRecharge!Throw(w)
  PROVE  RechargeInv'
<1>1. PICK next \in Evaluation : /\ worker' = [worker EXCEPT ![w] = next]
                                 /\ next.op \in {"release", "idle"} /\ (next.lease => next.op # "idle")
  BY AfterThrow
<1>2. /\ UNCHANGED <<wallet, journal, rule, method, intent, card, lock, hour, late, lost, crashes>>
      /\ errors' \in 0 .. RechargeFaults /\ errors' # 0
  BY AfterThrow
<1>3. RechargeTypes'
  BY <1>1, <1>2, EvaluationTyped DEF RechargeInv, RechargeTypes
<1>4. \A g \in AutoRecharge!Hours : AutoRecharge!Credited(g)' <=> AutoRecharge!Credited(g)
  BY <1>2 DEF AutoRecharge!Credited, AutoRecharge!Ledger!Fresh
<1>5. ASSUME NEW g \in AutoRecharge!Hours PROVE Keeps(g) /\ RowsOf(g)' /\ Paid(g)'
  <2>1. RowsOf(g)
    BY DEF RechargeInv
  <2>2. RowsOf(g)'
    BY <1>2, <1>4, <2>1 DEF RowsOf
  <2>3. Keeps(g)
    BY <1>2, <1>4 DEF Keeps
  <2> QED BY <1>2, <2>2, <2>3 DEF Paid
<1>6. ASSUME NEW v \in Requests PROVE Relies(worker[v])'
  <2>0. worker \in [Requests -> Evaluation]
    BY DEF RechargeInv, RechargeTypes
  <2>1. CASE v = w
    <3>1. worker'[v].op \in {"release", "idle"}
      BY <1>1, <2>0, <2>1
    <3> QED BY <3>1 DEF Relies, Deciding
  <2>2. CASE v # w
    <3>1. PICK k \in Evaluation : k = worker[v]
      BY <2>0
    <3>2. Relies(k)'
      BY <1>5, <3>1, OthersRely DEF RechargeInv
    <3>3. worker'[v] = k
      BY <1>1, <2>0, <2>2, <3>1
    <3> QED BY <3>2, <3>3 DEF Relies
  <2> QED BY <2>1, <2>2
<1> QED BY <1>3, <1>5, <1>6 DEF RechargeInv

LEMMA CrashKeeps ==
  ASSUME RechargeBounds, RechargeInv, AutoRecharge!Crash
  PROVE  RechargeInv'
<1>1. /\ UNCHANGED <<wallet, journal, rule, method, intent, card, lock, hour, late, lost, errors>>
      /\ worker' = [w \in Requests |-> AutoRecharge!Idle]
      /\ crashes' \in 0 .. RechargeFaults /\ crashes' # 0
  BY DEF AutoRecharge!Crash, AutoRecharge!money, AutoRecharge!settings, AutoRecharge!payments,
     AutoRecharge!Faults, RechargeInv, RechargeTypes, RechargeBounds
<1>2. RechargeTypes'
  BY <1>1, IdleEvaluation DEF RechargeInv, RechargeTypes
<1>3. ASSUME NEW v \in Requests PROVE Relies(worker[v])'
  BY <1>1 DEF Relies, AutoRecharge!Idle, Deciding
<1>4. ASSUME NEW h \in AutoRecharge!Hours PROVE RowsOf(h)' /\ Paid(h)'
  <2>1. RowsOf(h)
    BY DEF RechargeInv
  <2>2. AutoRecharge!Credited(h)' <=> AutoRecharge!Credited(h)
    BY <1>1 DEF AutoRecharge!Credited, AutoRecharge!Ledger!Fresh
  <2>3. RowsOf(h)'
    BY <1>1, <2>1, <2>2 DEF RowsOf
  <2> QED BY <1>1, <2>3 DEF Paid
<1> QED BY <1>2, <1>3, <1>4 DEF RechargeInv

\* What the driver, other services, time and the lock change on their own.
LEMMA OthersKeep ==
  ASSUME RechargeBounds, RechargeInv,
         \/ \E enabled \in BOOLEAN, amount \in RechargeAmounts : AutoRecharge!Update(enabled, amount)
         \/ AutoRecharge!Disable \/ AutoRecharge!RemoveMethod \/ AutoRecharge!OrphanExpires \/ AutoRecharge!Tick
         \/ \E s \in Spendings : AutoRecharge!Spend(s)
  PROVE  RechargeInv'
<1> USE DEF RechargeInv, RechargeTypes, AutoRecharge!money, AutoRecharge!settings, AutoRecharge!payments, AutoRecharge!bounds
<1>1. ASSUME NEW enabled \in BOOLEAN, NEW amount \in RechargeAmounts, AutoRecharge!Update(enabled, amount)
      PROVE  RechargeInv'
  <2>1. RechargeTypes'
    BY <1>1 DEF AutoRecharge!Update
  <2> QED BY <1>1, <2>1, NothingMoves DEF AutoRecharge!Update
<1>2. CASE AutoRecharge!Disable
  <2>1. RechargeTypes'
    BY <1>2 DEF AutoRecharge!Disable
  <2> QED BY <1>2, <2>1, NothingMoves DEF AutoRecharge!Disable
<1>3. CASE AutoRecharge!RemoveMethod
  <2>1. RechargeTypes'
    BY <1>3 DEF AutoRecharge!RemoveMethod
  <2> QED BY <1>3, <2>1, NothingMoves DEF AutoRecharge!RemoveMethod
<1>4. CASE AutoRecharge!OrphanExpires
  <2>1. RechargeTypes'
    BY <1>4 DEF AutoRecharge!OrphanExpires
  <2> QED BY <1>4, <2>1, NothingMoves DEF AutoRecharge!OrphanExpires
<1>5. CASE AutoRecharge!Tick
  <2>1. hour' \in AutoRecharge!Hours
    BY <1>5 DEF AutoRecharge!Tick, AutoRecharge!Hours, RechargeBounds
  <2>2. RechargeTypes'
    BY <1>5, <2>1 DEF AutoRecharge!Tick
  <2> QED BY <1>5, <2>2, NothingMoves DEF AutoRecharge!Tick
<1>6. ASSUME NEW s \in Spendings, AutoRecharge!Spend(s) PROVE RechargeInv'
  <2> DEFINE balance == wallet["purse"].available
             kept == wallet["purse"].reserved
             first == [wallet["purse"] EXCEPT !.available = balance - balance]
             next == [first EXCEPT !.reserved = kept + balance]
  <2>1. /\ \E posting : journal' = [journal EXCEPT ![<<"reserve", s>>] = posting]
        /\ wallet' = [wallet EXCEPT !["purse"] = next]
        /\ UNCHANGED <<rule, method, intent, card, lock, worker, hour, late, lost, crashes, errors>>
    <3>1. AutoRecharge!Ledger!Reserve("purse", s, balance)
      BY <1>6 DEF AutoRecharge!Spend, AutoRecharge!Balance
    <3>2. wallet' = [wallet EXCEPT !["purse"].available = balance - balance, !["purse"].reserved = kept + balance]
      BY <3>1 DEF AutoRecharge!Ledger!Reserve
    <3>3. \E posting : journal' = [journal EXCEPT ![<<"reserve", s>>] = posting]
      BY <3>1 DEF AutoRecharge!Ledger!Reserve, AutoRecharge!Ledger!Post, AutoRecharge!Ledger!Posted
    <3> QED BY <1>6, <3>2, <3>3 DEF AutoRecharge!Spend
  <2>2. first \in [status : {"ACTIVE", "BLOCKED"}, available : Nat, reserved : Nat] /\ first.reserved = kept
    OBVIOUS
  <2> HIDE DEF first
  <2>3. next \in [status : {"ACTIVE", "BLOCKED"}, available : Nat, reserved : Nat]
    BY <2>2
  <2> HIDE DEF next
  <2>4. wallet' \in [{"purse"} -> [status : {"ACTIVE", "BLOCKED"}, available : Nat, reserved : Nat]]
    BY <2>1, <2>3
  <2>5. DOMAIN journal' = AutoRecharge!Ledger!Keys
    BY <2>1
  <2>6. \A h \in AutoRecharge!Hours : journal'[<<"credit", h>>] = journal[<<"credit", h>>]
    BY <2>1, CreditKeys
  <2>7. RechargeTypes'
    BY <2>1, <2>4, <2>5
  <2> QED BY <2>1, <2>6, <2>7, NothingMoves
<1> QED BY <1>1, <1>2, <1>3, <1>4, <1>5, <1>6

LEMMA RechargeInit == RechargeBounds /\ AutoRecharge!Init => RechargeInv
<1> SUFFICES ASSUME RechargeBounds, AutoRecharge!Init PROVE RechargeInv OBVIOUS
<1>1. RechargeTypes
  <2>1. /\ wallet \in [{"purse"} -> [status : {"ACTIVE", "BLOCKED"}, available : Nat, reserved : Nat]]
        /\ DOMAIN journal = AutoRecharge!Ledger!Keys
    BY DEF AutoRecharge!Init, AutoRecharge!Ledger!Init
  <2>2. /\ rule \in [enabled : BOOLEAN, failures : 0 .. 3, cooling : BOOLEAN, amount : RechargeAmounts]
        /\ rule.failures < 3
    <3>1. PICK a \in RechargeAmounts :
            rule = [enabled |-> TRUE, failures |-> 1, cooling |-> FALSE, amount |-> a]
      BY Zenon DEF AutoRecharge!Init
    <3> QED BY <3>1
  <2>3. /\ intent \in [AutoRecharge!Hours -> [status : IntentStates, amount : RechargeAmounts \cup {0}, version : Nat]]
        /\ card \in [AutoRecharge!Hours -> AutoRecharge!Outcomes \cup {"NONE"}]
    BY DEF AutoRecharge!Init, AutoRecharge!NoIntent, IntentStates
  <2>4. /\ worker \in [Requests -> Evaluation]
        /\ \A w \in Requests : worker[w].lease => worker[w].op # "idle"
    BY IdleEvaluation DEF AutoRecharge!Init
  <2>5. /\ hour \in AutoRecharge!Hours /\ late \in 0 .. RechargeFaults /\ lost \in 0 .. RechargeFaults
        /\ crashes \in 0 .. RechargeFaults /\ errors \in 0 .. RechargeFaults
    BY DEF AutoRecharge!Init, AutoRecharge!Hours, RechargeBounds
  <2> QED BY <2>1, <2>2, <2>3, <2>4, <2>5 DEF AutoRecharge!Init, RechargeTypes
<1>2. ASSUME NEW h \in AutoRecharge!Hours PROVE RowsOf(h) /\ Paid(h)
  BY CreditKeys DEF AutoRecharge!Init, AutoRecharge!Ledger!Init, AutoRecharge!Credited,
     AutoRecharge!Ledger!Fresh, AutoRecharge!NoIntent, RowsOf, Paid
<1> QED BY <1>1, <1>2, IdleEvaluation DEF AutoRecharge!Init, RechargeInv

LEMMA RechargeNext ==
  RechargeBounds /\ RechargeInv /\ [AutoRecharge!Next]_(AutoRecharge!vars) => RechargeInv'
<1> SUFFICES ASSUME RechargeBounds, RechargeInv, [AutoRecharge!Next]_(AutoRecharge!vars) PROVE RechargeInv' OBVIOUS
<1>1. CASE UNCHANGED AutoRecharge!vars
  <2>1. RechargeTypes'
    BY <1>1 DEF AutoRecharge!vars, AutoRecharge!money, AutoRecharge!settings,
       AutoRecharge!payments, AutoRecharge!bounds, RechargeInv, RechargeTypes
  <2> QED BY <1>1, <2>1, NothingMoves DEF AutoRecharge!vars, AutoRecharge!money,
             AutoRecharge!settings, AutoRecharge!payments, AutoRecharge!bounds
<1>2. ASSUME NEW w \in Requests, AutoRecharge!Step(w) PROVE RechargeInv'
  BY <1>2, ReadRuleKeeps, ReadBalanceKeeps, CreateIntentKeeps, ReadIntentKeeps, WriteIntentKeeps,
     ChargeKeeps, CreditKeeps, SucceedKeeps, FailRuleKeeps, ReleaseKeeps DEF AutoRecharge!Step
<1> QED BY <1>1, <1>2, AcquireKeeps, LeaseExpiresKeeps, ThrowKeeps, CrashKeeps, OthersKeep DEF AutoRecharge!Next

LEMMA ChargesAreCredited == RechargeInv => AutoRecharge!ChargedIsCredited
<1> SUFFICES ASSUME RechargeInv, NEW h \in AutoRecharge!Hours
             PROVE  /\ AutoRecharge!Credited(h) => card[h] = "APPROVED" /\ journal[<<"credit", h>>].amount = intent[h].amount
                    /\ intent[h].status = "CAPTURED" => AutoRecharge!Credited(h)
                    /\ card[h] = "APPROVED" /\ ~AutoRecharge!Credited(h) =>
                         \/ intent[h].status = "REQUIRES_REVIEW"
                         \/ /\ intent[h].status = "PENDING"
                            /\ \/ crashes + errors > 0
                               \/ \E w \in Requests : AutoRecharge!Running(w) /\ AutoRecharge!Bucket(w) = h
  BY Zenon DEF AutoRecharge!ChargedIsCredited
<1>1. RowsOf(h) /\ Paid(h) /\ intent[h].status \in IntentStates
      /\ crashes \in Nat /\ errors \in Nat
  BY DEF RechargeInv, RechargeTypes
<1>2. ASSUME NEW w \in Requests, Pays(worker[w], h)
      PROVE  AutoRecharge!Running(w) /\ AutoRecharge!Bucket(w) = h
  BY <1>2 DEF Pays, AutoRecharge!Running, AutoRecharge!Bucket, AutoRecharge!At, Deciding
<1>3. card[h] = "APPROVED" /\ ~AutoRecharge!Credited(h) => intent[h].status \in {"REQUIRES_REVIEW", "PENDING"}
  BY <1>1 DEF RowsOf, IntentStates
<1>4. crashes + errors > 0 \/ (crashes = 0 /\ errors = 0)
  BY <1>1
<1> QED BY <1>1, <1>2, <1>3, <1>4 DEF RowsOf, Paid

-----------------------------------------------------------------------------
(* Recharges do not pile up *)

\* An evaluation that is about to charge, or to credit.
Charging(k) == k.op \in {"create", "charge", "credit"} \/ (k.op \in Deciding /\ k.target = "PENDING")

\* As long as no evaluation outlived its lock, the one that runs owns the lock, and the balance it
\* saw below the minimum can only have fallen.
PileInv ==
  /\ RechargeInv
  /\ late = 0 =>
       /\ \A w \in Requests : worker[w].op # "idle" => worker[w].lease /\ lock = w
       /\ \A w \in Requests : Charging(worker[w]) => AutoRecharge!Balance < AutoRecharge!Minimum
       /\ AutoRecharge!Balance < AutoRecharge!Minimum + AutoRecharge!MaxAmount

\* A step of a running evaluation that leaves the lock and the balance.
LEMMA EvaluationStaysAlone ==
  ASSUME PileInv, RechargeInv', NEW w \in Requests, worker[w].op # "idle", NEW next \in Evaluation,
         worker' = [worker EXCEPT ![w] = next], next.lease = worker[w].lease,
         UNCHANGED <<wallet, lock, late>>,
         Charging(next) => Charging(worker[w]) \/ AutoRecharge!Balance < AutoRecharge!Minimum
  PROVE  PileInv'
<1>1. worker'[w] = next /\ \A v \in Requests \ {w} : worker'[v] = worker[v]
  BY DEF PileInv, RechargeInv, RechargeTypes
<1>2. AutoRecharge!Balance' = AutoRecharge!Balance /\ AutoRecharge!Minimum' = AutoRecharge!Minimum
  BY DEF AutoRecharge!Balance, AutoRecharge!Minimum
<1>3. ASSUME late = 0 PROVE /\ \A v \in Requests : worker'[v].op # "idle" => worker'[v].lease /\ lock' = v
                           /\ \A v \in Requests : Charging(worker[v])' => AutoRecharge!Balance < AutoRecharge!Minimum
  <2>1. ASSUME NEW v \in Requests, worker'[v].op # "idle" PROVE worker'[v].lease /\ lock' = v
    BY <1>1, <1>3, <2>1 DEF PileInv
  <2>2. ASSUME NEW v \in Requests, Charging(worker[v])' PROVE AutoRecharge!Balance < AutoRecharge!Minimum
    BY <1>1, <1>3, <2>2 DEF PileInv, Charging
  <2> QED BY <2>1, <2>2
<1> QED BY <1>2, <1>3 DEF PileInv

\* Nobody is running who was not, and the balance has not grown.
LEMMA FewerEvaluations ==
  ASSUME RechargeBounds, PileInv, RechargeInv',
         late' = 0 => late = 0,
         late' = 0 => \A w \in Requests : worker'[w].op # "idle" => worker'[w] = worker[w] /\ lock' = lock,
         AutoRecharge!Balance' <= AutoRecharge!Balance
  PROVE  PileInv'
<1>1. AutoRecharge!Balance \in Nat /\ AutoRecharge!Balance' \in Nat /\ AutoRecharge!MaxAmount \in Nat
  BY Amounts DEF PileInv, RechargeInv, RechargeTypes, AutoRecharge!Balance
<1>2. \A w \in Requests : Charging(worker[w])' => worker'[w].op # "idle"
  BY DEF Charging, Deciding
<1>3. ASSUME late' = 0, NEW w \in Requests, Charging(worker[w])' PROVE AutoRecharge!Balance' < AutoRecharge!Minimum
  <2>1. worker'[w] = worker[w]
    BY <1>2, <1>3
  <2>2. Charging(worker[w])
    BY <1>3, <2>1 DEF Charging
  <2> QED BY <1>1, <1>3, <2>2 DEF PileInv, AutoRecharge!Minimum
<1>4. ASSUME late' = 0, NEW w \in Requests, worker'[w].op # "idle" PROVE worker'[w].lease /\ lock' = w
  BY <1>4 DEF PileInv
<1>5. late' = 0 => AutoRecharge!Balance' < AutoRecharge!Minimum + AutoRecharge!MaxAmount
  BY <1>1 DEF PileInv, AutoRecharge!Minimum
<1> QED BY <1>3, <1>4, <1>5 DEF PileInv, AutoRecharge!Minimum

LEMMA CreditStaysLow ==
  ASSUME RechargeBounds, PileInv, RechargeInv', NEW w \in Requests, AutoRecharge!Credit(w)
  PROVE  PileInv'
<1>1. /\ worker[w].op = "credit" /\ lock' = lock /\ late' = late
      /\ AutoRecharge!Transition(w, "CAPTURED", "succeed")
  BY DEF AutoRecharge!Credit, AutoRecharge!At, AutoRecharge!bounds
<1>2. PICK next \in Evaluation :
         /\ worker' = [worker EXCEPT ![w] = next] /\ next.op = "read"
         /\ next.lease = worker[w].lease /\ next.bucket = worker[w].bucket
         /\ next.amount = worker[w].amount /\ next.target = "CAPTURED" /\ next.then = "succeed"
  BY <1>1, AfterTransition DEF Moves, PileInv
<1>3. worker'[w] = next /\ \A v \in Requests \ {w} : worker'[v] = worker[v]
  BY <1>2 DEF PileInv, RechargeInv, RechargeTypes
<1>4. worker[w].amount \in RechargeAmounts
  BY <1>1 DEF PileInv, RechargeInv, Relies
<1>5. worker[w].amount \in Nat /\ worker[w].amount <= AutoRecharge!MaxAmount /\ AutoRecharge!MaxAmount \in Nat
  BY <1>4, Amounts DEF RechargeBounds
<1>6. AutoRecharge!Balance' = AutoRecharge!Balance \/ AutoRecharge!Balance' = AutoRecharge!Balance + worker[w].amount
  BY DEF AutoRecharge!Credit, AutoRecharge!money, AutoRecharge!Ledger!Credit, AutoRecharge!Balance,
     PileInv, RechargeInv, RechargeTypes
<1>7. AutoRecharge!Balance \in Nat
  BY DEF PileInv, RechargeInv, RechargeTypes, AutoRecharge!Balance
<1>8. ASSUME late = 0
      PROVE  /\ \A v \in Requests : worker'[v].op # "idle" => worker'[v].lease /\ lock' = v
             /\ \A v \in Requests : ~Charging(worker[v])'
             /\ AutoRecharge!Balance' < AutoRecharge!Minimum + AutoRecharge!MaxAmount
  <2>1. Charging(worker[w]) /\ worker[w].op # "idle"
    BY <1>1 DEF Charging
  <2>2. AutoRecharge!Balance < AutoRecharge!Minimum /\ lock = w /\ worker[w].lease
    BY <1>8, <2>1 DEF PileInv
  <2>3. \A v \in Requests \ {w} : worker'[v].op = "idle"
    BY <1>3, <1>8, <2>2 DEF PileInv
  <2>4. \A v \in Requests : worker'[v].op # "idle" => worker'[v].lease /\ lock' = v
    BY <1>1, <1>2, <1>3, <2>2, <2>3
  <2>5. ASSUME NEW v \in Requests PROVE ~Charging(worker[v])'
    BY <1>2, <1>3, <2>3 DEF Charging, Deciding
  <2>6. AutoRecharge!Balance' < AutoRecharge!Minimum + AutoRecharge!MaxAmount
    BY <1>5, <1>6, <1>7, <2>2 DEF AutoRecharge!Minimum
  <2> QED BY <2>4, <2>5, <2>6
<1> QED BY <1>1, <1>8 DEF PileInv

\* Every other step of an evaluation.
LEMMA StepsStayLow ==
  ASSUME RechargeBounds, PileInv, RechargeInv', NEW w \in Requests, AutoRecharge!Step(w), ~AutoRecharge!Credit(w), ~AutoRecharge!Release(w)
  PROVE  PileInv'
<1> DEFINE k == worker[w]
<1>1. /\ UNCHANGED <<wallet, lock, late>> /\ k.op # "idle"
  BY DEF AutoRecharge!Step, AutoRecharge!ReadRule, AutoRecharge!ReadBalance,
     AutoRecharge!CreateIntent, AutoRecharge!ReadIntent, AutoRecharge!WriteIntent, AutoRecharge!At,
         AutoRecharge!CreateCardAuthorization, AutoRecharge!Succeed, AutoRecharge!FailRule, AutoRecharge!money, AutoRecharge!settings, AutoRecharge!payments, AutoRecharge!bounds
<1>2. RechargeInv /\ k \in Evaluation /\ Relies(k)
  BY DEF PileInv, RechargeInv, RechargeTypes
<1>3. CASE AutoRecharge!Finish(w)
  <2>1. PICK next \in Evaluation : /\ worker' = [worker EXCEPT ![w] = next]
                                   /\ next.op = "release" /\ next.lease = worker[w].lease
    BY <1>2, <1>3, AfterFinish
  <2> QED BY <1>1, <2>1, EvaluationStaysAlone DEF Charging, Deciding
<1>4. CASE AutoRecharge!Resume(w) /\ k.op \in Deciding
  <2>1. PICK next \in Evaluation :
           /\ worker' = [worker EXCEPT ![w] = next] /\ next.op = worker[w].then
           /\ next.lease = worker[w].lease /\ next.bucket = worker[w].bucket
           /\ next.amount = worker[w].amount /\ next.target = "none"
    BY <1>2, <1>4, AfterResume
  <2>2. Charging(next) => Charging(k)
    BY <1>2, <1>4, <2>1 DEF Charging, Relies, Deciding, Moves
  <2> QED BY <1>1, <2>1, <2>2, EvaluationStaysAlone
<1>5. ASSUME NEW op \in {"create", "charge", "credit"}, AutoRecharge!Goto(w, op), Charging(k) \/ AutoRecharge!Balance < AutoRecharge!Minimum
      PROVE  PileInv'
  <2>1. PICK next \in Evaluation :
           /\ worker' = [worker EXCEPT ![w] = next] /\ next.op = op
           /\ next.lease = worker[w].lease /\ next.bucket = worker[w].bucket
           /\ next.amount = worker[w].amount /\ next.target = worker[w].target
    BY <1>2, <1>5, AfterGoto
  <2> QED BY <1>1, <1>5, <2>1, EvaluationStaysAlone
<1>6. ASSUME NEW target, NEW then, <<target, then>> \in Moves, AutoRecharge!Transition(w, target, then), target # "PENDING"
      PROVE  PileInv'
  <2>1. PICK next \in Evaluation :
           /\ worker' = [worker EXCEPT ![w] = next] /\ next.op = "read"
           /\ next.lease = worker[w].lease /\ next.bucket = worker[w].bucket
           /\ next.amount = worker[w].amount /\ next.target = target /\ next.then = then
    BY <1>2, <1>6, AfterTransition
  <2> QED BY <1>1, <1>6, <2>1, EvaluationStaysAlone DEF Charging, Deciding
<1>7. CASE AutoRecharge!ReadRule(w) /\ ~AutoRecharge!Finish(w)
  <2>1. worker' = [worker EXCEPT ![w].failures = rule.failures, ![w].amount = rule.amount,
                                 ![w].op = IF method = "ACTIVE" THEN "balance" ELSE "fail"]
    BY <1>7, Zenon DEF AutoRecharge!ReadRule
  <2>2. worker' = [worker EXCEPT ![w] = worker'[w]]
    BY <2>1 DEF PileInv, RechargeInv, RechargeTypes
  <2>3. worker'[w].op \in {"balance", "fail"} /\ worker'[w].lease = k.lease
    BY <1>2, <2>1 DEF PileInv, RechargeInv, RechargeTypes, Evaluation
  <2>4. PICK next \in Evaluation : next = worker'[w]
    BY DEF RechargeInv, RechargeTypes
  <2> QED BY <1>1, <2>2, <2>3, <2>4, EvaluationStaysAlone DEF Charging, Deciding
<1>8. CASE AutoRecharge!ReadBalance(w)
  <2>1. AutoRecharge!Finish(w) \/ (AutoRecharge!Goto(w, "create") /\ ~(AutoRecharge!Balance >= AutoRecharge!Minimum))
    BY <1>8 DEF AutoRecharge!ReadBalance
  <2>2. ~(AutoRecharge!Balance >= AutoRecharge!Minimum) => AutoRecharge!Balance < AutoRecharge!Minimum
    BY DEF PileInv, RechargeInv, RechargeTypes, AutoRecharge!Balance, AutoRecharge!Minimum
  <2> QED BY <1>3, <1>5, <2>1, <2>2
<1>9. CASE AutoRecharge!CreateIntent(w) /\ ~AutoRecharge!Finish(w)
  <2> DEFINE asked == [worker[w] EXCEPT !.bucket = hour]
  <2>1. k.op = "create"
    BY <1>9 DEF AutoRecharge!CreateIntent, AutoRecharge!At
  <2>2. \/ worker' = [worker EXCEPT ![w] = [asked EXCEPT !.op = "read", !.target = "PENDING", !.then = "charge"]]
        \/ worker' = [worker EXCEPT ![w] = [asked EXCEPT !.op = "charge"]]
    BY <1>9, Zenon DEF AutoRecharge!CreateIntent
  <2>3. asked \in Evaluation /\ asked.lease = k.lease
    BY <1>2 DEF Evaluation, RechargeInv, RechargeTypes
  <2>4. worker' = [worker EXCEPT ![w] = worker'[w]]
    BY <2>2 DEF PileInv, RechargeInv, RechargeTypes
  <2>5. worker'[w].lease = k.lease
    <3> HIDE DEF asked
    <3>1. /\ [asked EXCEPT !.op = "read", !.target = "PENDING", !.then = "charge"].lease = asked.lease
          /\ [asked EXCEPT !.op = "charge"].lease = asked.lease
      BY <2>3 DEF Evaluation
    <3>2. \/ worker'[w] = [asked EXCEPT !.op = "read", !.target = "PENDING", !.then = "charge"]
          \/ worker'[w] = [asked EXCEPT !.op = "charge"]
      BY <2>2 DEF PileInv, RechargeInv, RechargeTypes
    <3> QED BY <2>3, <3>1, <3>2
  <2>6. PICK next \in Evaluation : next = worker'[w]
    BY DEF RechargeInv, RechargeTypes
  <2>7. Charging(k)
    BY <2>1 DEF Charging
  <2> QED BY <1>1, <2>4, <2>5, <2>6, <2>7, EvaluationStaysAlone
<1>10. CASE AutoRecharge!ReadIntent(w) /\ ~AutoRecharge!Finish(w)
  <2>1. k.op = "read"
    BY <1>10 DEF AutoRecharge!ReadIntent, AutoRecharge!At
  <2>2. AutoRecharge!Resume(w) \/ worker' = [worker EXCEPT ![w].seen = AutoRecharge!Intent(w).version, ![w].op = "write"]
    BY <1>10, Zenon DEF AutoRecharge!ReadIntent
  <2>3. CASE worker' = [worker EXCEPT ![w].seen = AutoRecharge!Intent(w).version, ![w].op = "write"]
    <3>1. worker' = [worker EXCEPT ![w] = worker'[w]]
      BY <2>3 DEF PileInv, RechargeInv, RechargeTypes
    <3>2. /\ worker'[w].lease = k.lease /\ worker'[w].op = "write" /\ worker'[w].target = k.target
      BY <1>2, <2>3 DEF PileInv, RechargeInv, RechargeTypes, Evaluation
    <3>3. PICK next \in Evaluation : next = worker'[w]
      BY DEF RechargeInv, RechargeTypes
    <3> QED BY <1>1, <2>1, <3>1, <3>2, <3>3, EvaluationStaysAlone DEF Charging, Deciding
  <2> QED BY <1>4, <2>1, <2>2, <2>3 DEF Deciding
<1>11. CASE AutoRecharge!WriteIntent(w)
  BY <1>3, <1>4, <1>11 DEF AutoRecharge!WriteIntent, AutoRecharge!At, Deciding
<1>12. CASE AutoRecharge!CreateCardAuthorization(w)
  <2>1. Charging(k)
    BY <1>12 DEF AutoRecharge!CreateCardAuthorization, AutoRecharge!At, Charging
  <2>2. AutoRecharge!Answered(w, card'[k.bucket]) \/ AutoRecharge!Lost(w)
    BY <1>12, Zenon DEF AutoRecharge!CreateCardAuthorization, AutoRecharge!Bucket
  <2>3. k.bucket \in AutoRecharge!Hours /\ (AutoRecharge!Answered(w, card'[k.bucket]) => card'[k.bucket] \in AutoRecharge!Outcomes)
    <3>1. k.bucket \in AutoRecharge!Hours
      BY <1>2 DEF Evaluation
    <3>2. card' \in IF card[k.bucket] = "NONE" THEN {[card EXCEPT ![k.bucket] = o] : o \in AutoRecharge!Outcomes} ELSE {card}
      BY <1>12, Zenon DEF AutoRecharge!CreateCardAuthorization, AutoRecharge!Bucket
    <3>3. card'[k.bucket] \in AutoRecharge!Outcomes
      BY <3>1, <3>2 DEF PileInv, RechargeInv, RechargeTypes
    <3> QED BY <3>1, <3>3
  <2>4. \/ AutoRecharge!Goto(w, "credit") \/ AutoRecharge!Transition(w, "FAILED", "fail")
        \/ AutoRecharge!Transition(w, "REQUIRES_REVIEW", "fail")
    BY <2>2, <2>3 DEF AutoRecharge!Answered, AutoRecharge!Lost, AutoRecharge!Outcomes
  <2> QED BY <1>5, <1>6, <2>1, <2>4 DEF Moves
<1>13. CASE AutoRecharge!Succeed(w) \/ AutoRecharge!FailRule(w)
  BY <1>3, <1>13 DEF AutoRecharge!Succeed, AutoRecharge!FailRule
<1> QED BY <1>3, <1>7, <1>8, <1>9, <1>10, <1>11, <1>12, <1>13 DEF AutoRecharge!Step

LEMMA PileInit == RechargeBounds /\ AutoRecharge!Init => PileInv
<1> SUFFICES ASSUME RechargeBounds, AutoRecharge!Init PROVE PileInv OBVIOUS
<1>1. RechargeInv
  BY RechargeInit
<1>2. AutoRecharge!Balance = 0 /\ AutoRecharge!MaxAmount \in Nat
  BY Amounts DEF AutoRecharge!Init, AutoRecharge!Ledger!Init, AutoRecharge!Balance
<1>3. \A w \in Requests : worker[w].op = "idle"
  BY DEF AutoRecharge!Init, AutoRecharge!Idle
<1> QED BY <1>1, <1>2, <1>3 DEF PileInv, AutoRecharge!Minimum, Charging, Deciding

LEMMA PileNext ==
  RechargeBounds /\ PileInv /\ [AutoRecharge!Next]_(AutoRecharge!vars) => PileInv'
<1> SUFFICES ASSUME RechargeBounds, PileInv, [AutoRecharge!Next]_(AutoRecharge!vars) PROVE PileInv' OBVIOUS
<1>1. RechargeInv' /\ worker \in [Requests -> Evaluation] /\ AutoRecharge!Balance \in Nat /\ late \in Nat
  BY RechargeNext DEF PileInv, RechargeInv, RechargeTypes, AutoRecharge!Balance
<1> USE DEF AutoRecharge!money, AutoRecharge!settings, AutoRecharge!payments, AutoRecharge!bounds, AutoRecharge!Balance
<1>2. CASE UNCHANGED AutoRecharge!vars
  BY <1>1, <1>2, FewerEvaluations DEF AutoRecharge!vars
<1>3. ASSUME NEW w \in Requests, AutoRecharge!Acquire(w) PROVE PileInv'
  <2>1. /\ UNCHANGED <<wallet, late>> /\ lock = "none" /\ lock' = w
        /\ \A v \in Requests \ {w} : worker'[v] = worker[v]
    BY <1>1, <1>3 DEF AutoRecharge!Acquire
  <2>2. worker'[w].op = "rule" /\ worker'[w].lease
    <3> DEFINE first == [AutoRecharge!Idle EXCEPT !.op = "rule"]
               next == [first EXCEPT !.lease = TRUE]
    <3>1. worker' = [worker EXCEPT ![w] = next]
      BY <1>3, Zenon DEF AutoRecharge!Acquire
    <3>2. first \in Evaluation /\ first.op = "rule"
      BY IdleEvaluation DEF Evaluation
    <3> HIDE DEF first
    <3>3. next.op = "rule" /\ next.lease
      BY <3>2 DEF Evaluation
    <3> HIDE DEF next
    <3> QED BY <1>1, <3>1, <3>3
  <2>3. late = 0 => \A v \in Requests \ {w} : worker'[v].op = "idle"
    BY <2>1 DEF PileInv, RechargeBounds
  <2>4. late = 0 => \A v \in Requests : ~Charging(worker[v])'
    BY <2>2, <2>3 DEF Charging, Deciding
  <2>5. late = 0 => \A v \in Requests : worker'[v].op # "idle" => worker'[v].lease /\ lock' = v
    BY <2>1, <2>2, <2>3
  <2> QED BY <1>1, <2>1, <2>4, <2>5 DEF PileInv, AutoRecharge!Minimum
<1>4. ASSUME NEW w \in Requests, AutoRecharge!Release(w) PROVE PileInv'
  <2>1. /\ UNCHANGED <<wallet, late>> /\ worker[w].op = "release"
        /\ worker'[w].op = "idle" /\ \A v \in Requests \ {w} : worker'[v] = worker[v]
    BY <1>1, <1>4, IdleEvaluation DEF AutoRecharge!Release, AutoRecharge!At
  <2>2. late = 0 => \A v \in Requests : worker'[v].op = "idle"
    BY <2>1 DEF PileInv
  <2> QED BY <1>1, <2>1, <2>2, FewerEvaluations
<1>5. ASSUME NEW w \in Requests, AutoRecharge!LeaseExpires(w) PROVE PileInv'
  <2>1. late' # 0 /\ wallet' = wallet
    BY <1>1, <1>5 DEF AutoRecharge!LeaseExpires
  <2> QED BY <1>1, <2>1, FewerEvaluations
<1>6. CASE AutoRecharge!OrphanExpires
  <2>1. /\ UNCHANGED <<wallet, worker, late>>
        /\ ~(lock \in Requests /\ worker[lock].lease)
    BY <1>6 DEF AutoRecharge!OrphanExpires
  <2>2. late = 0 => \A v \in Requests : worker'[v].op = "idle"
    BY <2>1 DEF PileInv
  <2> QED BY <1>1, <2>1, <2>2, FewerEvaluations
<1>7. CASE AutoRecharge!Crash
  <2>1. UNCHANGED <<wallet, late>> /\ \A v \in Requests : worker'[v].op = "idle"
    BY <1>7, IdleEvaluation DEF AutoRecharge!Crash
  <2> QED BY <1>1, <2>1, FewerEvaluations
<1>8. ASSUME NEW s \in Spendings, AutoRecharge!Spend(s) PROVE PileInv'
  <2>1. UNCHANGED <<lock, worker, late>>
    BY <1>8 DEF AutoRecharge!Spend
  <2>2. AutoRecharge!Balance' <= AutoRecharge!Balance
    BY <1>1, <1>8 DEF AutoRecharge!Spend, AutoRecharge!Ledger!Reserve, PileInv, RechargeInv,
       RechargeTypes
  <2> QED BY <1>1, <2>1, <2>2, FewerEvaluations
<1>9. CASE \/ \E enabled \in BOOLEAN, amount \in RechargeAmounts : AutoRecharge!Update(enabled, amount)
           \/ AutoRecharge!Disable \/ AutoRecharge!RemoveMethod \/ AutoRecharge!Tick
  <2>1. UNCHANGED <<wallet, lock, worker, late>>
    BY <1>9 DEF AutoRecharge!Update, AutoRecharge!Disable, AutoRecharge!RemoveMethod,
       AutoRecharge!Tick
  <2> QED BY <1>1, <2>1, FewerEvaluations
<1>10. ASSUME NEW w \in Requests, AutoRecharge!Step(w) PROVE PileInv'
  BY <1>1, <1>4, <1>10, CreditStaysLow, StepsStayLow
<1>11. ASSUME NEW w \in Requests, AutoRecharge!Throw(w) PROVE PileInv'
  <2>1. PICK next \in Evaluation : /\ worker' = [worker EXCEPT ![w] = next]
                                   /\ \/ next.op = "release" /\ next.lease = worker[w].lease
                                      \/ next.op = "idle" /\ ~next.lease
    BY <1>11, AfterThrow DEF PileInv
  <2>2. UNCHANGED <<wallet, lock, late>> /\ worker[w].op # "idle"
    BY <1>11, AfterThrow DEF PileInv
  <2>3. CASE next.op = "release" /\ next.lease = worker[w].lease
    BY <1>1, <2>1, <2>2, <2>3, EvaluationStaysAlone DEF Charging, Deciding
  <2>4. CASE next.op = "idle"
    <3>1. worker'[w].op = "idle" /\ \A v \in Requests \ {w} : worker'[v] = worker[v]
      BY <1>1, <2>1, <2>4
    <3>2. late = 0 => \A v \in Requests : worker'[v].op = "idle"
      BY <2>2, <3>1 DEF PileInv
    <3> QED BY <1>1, <2>2, <3>2, FewerEvaluations
  <2> QED BY <2>1, <2>3, <2>4
<1> QED BY <1>2, <1>3, <1>5, <1>6, <1>7, <1>8, <1>9, <1>10, <1>11 DEF AutoRecharge!Next

\* What an automatic recharge charges is credited once and in full, or is under review, or is PENDING
\* with an evaluation of its hour at work, or was cut off by a crash or an error of the database and
\* left PENDING; it is never recorded as failed, and nothing else is credited, whatever evaluations
\* overlap, answers are lost and rules change.  And the balance stays below one recharge above the
\* minimum as long as no evaluation outlives its lock, whatever throws (evaluate,
\* WalletService.credit, serializableTransaction): alone, and among the other services.
THEOREM RechargesAreRight ==
  ASSUME RechargeBounds
  PROVE  /\ AutoRecharge!Spec => [](AutoRecharge!ChargedIsCredited /\ AutoRecharge!RechargesDoNotPileUp)
         /\ MCSpec => [](ChargedIsCredited /\ RechargesDoNotPileUp)
<1>1. PileInv => AutoRecharge!ChargedIsCredited /\ AutoRecharge!RechargesDoNotPileUp
  BY ChargesAreCredited DEF PileInv, AutoRecharge!RechargesDoNotPileUp
<1>2. AutoRecharge!Spec => [](AutoRecharge!ChargedIsCredited /\ AutoRecharge!RechargesDoNotPileUp)
  BY PileInit, PileNext, <1>1, PTL DEF AutoRecharge!Spec
<1> DEFINE Inv == focus = "recharge" => PileInv
<1>3. MCInit => Inv
  BY PileInit, Zenon DEF MCInit
<1>4. Inv /\ [MCNext]_allVars => Inv'
  <2> SUFFICES ASSUME Inv, [MCNext]_allVars PROVE Inv' OBVIOUS
  <2>1. focus' = focus
    BY DEF MCNext, Rest, allVars
  <2>2. focus = "recharge" => [AutoRecharge!Next]_(AutoRecharge!vars)
    BY DEF MCNext, Step, allVars, AutoRecharge!vars, AutoRecharge!money, AutoRecharge!settings,
       AutoRecharge!payments, AutoRecharge!bounds
  <2> QED BY <2>1, <2>2, PileNext
<1>5. Inv => ChargedIsCredited /\ RechargesDoNotPileUp
  BY <1>1 DEF ChargedIsCredited, RechargesDoNotPileUp
<1> HIDE DEF Inv
<1>6. MCSpec => [](ChargedIsCredited /\ RechargesDoNotPileUp)
  BY <1>3, <1>4, <1>5, PTL DEF MCSpec
<1> QED BY <1>2, <1>6

\* Among the other services, recharges never pile up: as long as no evaluation outlives its lock,
\* the balance they lead to stays below one recharge above the minimum (evaluate).
THEOREM RechargesStayFew ==
  ASSUME RechargeBounds
  PROVE  MCSpec => []RechargesDoNotPileUp
<1>1. MCSpec => [](ChargedIsCredited /\ RechargesDoNotPileUp)
  BY RechargesAreRight
<1> QED BY <1>1, PTL

-----------------------------------------------------------------------------
(***************************************************************************)
(* The books of the demonstration data agree whenever the API starts,      *)
(* wherever the starts before were cut off.                                *)
(*                                                                         *)
(* The argument: a start passes the wallet, and no statement after it      *)
(* touches the balance; and it passes a ledger transaction only once that  *)
(* exists, so that all of them do when the API runs.                       *)
(***************************************************************************)

\* The names of the transactions, and what the seed is at.
Booked == {"topUp", "authorization", "capture", "release", "refund"}

LEMMA OrderOfSeed ==
  /\ Seed!ToSet(Seed!Transactions) = Booked
  /\ Len(Seed!Order) = 15
  /\ Seed!Order[6] = "wallet"
  /\ \A i \in 1 .. 15 : i # 6 => Seed!Order[i] # "wallet"
  /\ Seed!Order[11] = "topUp" /\ Seed!Order[12] = "authorization" /\ Seed!Order[13] = "capture"
  /\ Seed!Order[14] = "release" /\ Seed!Order[15] = "refund"
  /\ \A i \in 1 .. 10 : Seed!Order[i] \notin Booked
<1> DEFINE first == <<"driver", "admins", "vehicle", "stations", "tariffs", "wallet", "session", "method",
                      "intents", "receipt">>
<1>1. /\ Len(first) = 10 /\ Len(Seed!Transactions) = 5
      /\ Seed!Order = first \o Seed!Transactions
  BY DEF Seed!Order, Seed!Transactions
<1>2. \A i \in 1 .. 10 : Seed!Order[i] = first[i]
  BY <1>1 DEF Seed!Transactions
<1>3. \A i \in 11 .. 15 : Seed!Order[i] = Seed!Transactions[i - 10]
  BY <1>1 DEF Seed!Transactions
<1>4. Len(Seed!Order) = 15
  BY <1>1 DEF Seed!Transactions
<1>5. \A i \in 1 .. 10 : (first[i] = "wallet" <=> i = 6) /\ first[i] \notin Booked
  BY DEF Booked
<1>6. /\ Seed!Transactions[1] = "topUp" /\ Seed!Transactions[2] = "authorization"
      /\ Seed!Transactions[3] = "capture" /\ Seed!Transactions[4] = "release"
      /\ Seed!Transactions[5] = "refund"
  BY DEF Seed!Transactions
<1>7. Seed!ToSet(Seed!Transactions) = Booked
  BY <1>1, <1>6 DEF Seed!ToSet, Booked, Seed!Transactions
<1> HIDE DEF first
<1>8. /\ Seed!Order[11] = "topUp" /\ Seed!Order[12] = "authorization" /\ Seed!Order[13] = "capture"
      /\ Seed!Order[14] = "release" /\ Seed!Order[15] = "refund"
  BY <1>3, <1>6
<1>9. \A i \in 1 .. 15 : i # 6 => Seed!Order[i] # "wallet"
  <2> SUFFICES ASSUME NEW i \in 1 .. 15, i # 6 PROVE Seed!Order[i] # "wallet" OBVIOUS
  <2>1. CASE i \in 1 .. 10
    BY <1>2, <1>5, <2>1
  <2>2. CASE i \in {11, 12, 13, 14, 15}
    BY <1>8, <2>2
  <2> QED BY <2>1, <2>2
<1> QED BY <1>2, <1>4, <1>5, <1>7, <1>8, <1>9

\* While it seeds or the API runs, the wallet is as seeded once it has been passed, and so are the transactions there.
SeedInv ==
  /\ place \in {"seeding", "api", "stopped", "failed"}
  /\ step \in 1 .. 16 /\ moved \in Nat
  /\ "wallet" \in DOMAIN demo
  /\ entries \in [Booked -> {"none", "PENDING", "POSTED"}]
  /\ place = "api" => step = 16
  /\ place \in {"seeding", "api"} /\ step > 6 /\ moved = 0 => demo.wallet = Seed!SeededBalance
  /\ \A i \in 11 .. 15 : step > i => entries[Seed!Order[i]] # "none"

LEMMA SeedInit == Seed!Init => SeedInv
BY OrderOfSeed DEF Seed!Init, SeedInv, Seed!NoRows

\* A statement that leaves the ledger alone, at any place but the wallet's.
LEMMA StatementKeeps ==
  ASSUME SeedInv, NEW i \in 1 .. 10, step = i, place = "seeding", step' = step + 1,
         "wallet" \in DOMAIN demo',
         demo'.wallet = IF i = 6 THEN Seed!SeededBalance ELSE demo.wallet,
         UNCHANGED <<place, entries, moved>>
  PROVE  SeedInv'
BY DEF SeedInv

LEMMA AtIsPlace ==
  ASSUME SeedInv, NEW name, Seed!At(name)
  PROVE  place = "seeding" /\ step \in 1 .. 15 /\ Seed!Order[step] = name
BY OrderOfSeed DEF SeedInv, Seed!At

LEMMA RowKeeps ==
  ASSUME SeedInv, NEW name, Seed!At(name), name \notin Booked, NEW written, Seed!Write(written),
         "wallet" \in DOMAIN written,
         written.wallet = IF name = "wallet" THEN Seed!SeededBalance ELSE demo.wallet
  PROVE  SeedInv'
<1>1. place = "seeding" /\ step \in 1 .. 15 /\ Seed!Order[step] = name
  BY AtIsPlace
<1>2. step \in 1 .. 10
  BY <1>1, OrderOfSeed DEF Booked
<1>3. name = "wallet" <=> step = 6
  BY <1>1, OrderOfSeed
<1>4. demo' = written /\ step' = step + 1 /\ UNCHANGED <<place, entries, moved>>
  BY DEF Seed!Write
<1> QED BY <1>1, <1>2, <1>3, <1>4, StatementKeeps

\* An operation of the application.
LEMMA OperationKeeps ==
  ASSUME SeedInv, NEW written, NEW amount \in Nat, Seed!Application(written, amount),
         "wallet" \in DOMAIN written, moved + amount = 0 => written.wallet = demo.wallet
  PROVE  SeedInv'
BY DEF Seed!Application, SeedInv

LEMMA SeedNext == SeedInv /\ [Seed!Next]_Seed!vars => SeedInv'
<1> SUFFICES ASSUME SeedInv, [Seed!Next]_Seed!vars PROVE SeedInv' OBVIOUS
<1>1. "wallet" \in DOMAIN demo
  BY DEF SeedInv
<1>2. CASE UNCHANGED Seed!vars
  BY <1>2 DEF Seed!vars, SeedInv
<1>3. CASE Seed!Fail
  BY <1>3 DEF Seed!Fail, SeedInv
<1>4. CASE Seed!SeedDriver
  BY <1>1, <1>4, RowKeeps DEF Seed!SeedDriver, Booked
<1>5. CASE Seed!SeedAdmins
  BY <1>1, <1>5, RowKeeps DEF Seed!SeedAdmins, Booked
<1>6. CASE Seed!SeedVehicle
  BY <1>1, <1>3, <1>6, RowKeeps DEF Seed!SeedVehicle, Booked
<1>7. CASE Seed!SeedStations
  BY <1>1, <1>7, RowKeeps DEF Seed!SeedStations, Booked
<1>8. CASE Seed!SeedTariffs
  BY <1>1, <1>8, RowKeeps DEF Seed!SeedTariffs, Booked
<1>9. CASE Seed!SeedWallet
  BY <1>1, <1>9, RowKeeps DEF Seed!SeedWallet, Booked
<1>10. CASE Seed!SeedSession
  BY <1>1, <1>10, RowKeeps DEF Seed!SeedSession, Booked
<1>11. CASE Seed!SeedMethod
  BY <1>1, <1>3, <1>11, RowKeeps DEF Seed!SeedMethod, Booked
<1>12. CASE Seed!SeedIntents
  BY <1>1, <1>12, RowKeeps DEF Seed!SeedIntents, Booked
<1>13. CASE Seed!SeedReceipt
  BY <1>1, <1>13, RowKeeps DEF Seed!SeedReceipt, Booked
<1>14. ASSUME NEW t \in Booked, Seed!SeedLedgerTransaction(t) \/ Seed!PostLedgerTransaction(t)
       PROVE  SeedInv'
  <2>1. place = "seeding" /\ step \in 1 .. 15 /\ Seed!Order[step] = t
    BY <1>14, AtIsPlace DEF Seed!SeedLedgerTransaction, Seed!PostLedgerTransaction
  <2>2. step \in 11 .. 15
    BY <2>1, OrderOfSeed
  <2>3. UNCHANGED <<place, demo, moved>> /\ step' \in {step, step + 1}
    BY <1>14 DEF Seed!SeedLedgerTransaction, Seed!PostLedgerTransaction
  <2>4. /\ entries' \in [Booked -> {"none", "PENDING", "POSTED"}]
        /\ \A u \in Booked : entries[u] # "none" => entries'[u] # "none"
        /\ step' = step + 1 => entries'[t] # "none"
    BY <1>14, <2>2 DEF Seed!SeedLedgerTransaction, Seed!PostLedgerTransaction, SeedInv
  <2>5. ASSUME NEW i \in 11 .. 15, step' > i PROVE entries'[Seed!Order[i]] # "none"
    <3>1. Seed!Order[i] \in Booked
      <4>1. i \in {11, 12, 13, 14, 15}
        OBVIOUS
      <4> QED BY <4>1, OrderOfSeed DEF Booked
    <3>2. CASE step > i
      BY <2>4, <3>1, <3>2 DEF SeedInv
    <3>3. CASE step = i /\ step' = step + 1
      BY <2>1, <2>4, <3>3
    <3> QED BY <2>2, <2>3, <2>5, <3>2, <3>3
  <2> QED BY <2>1, <2>2, <2>3, <2>4, <2>5 DEF SeedInv
<1>15. CASE Seed!StartApi
  BY <1>15, OrderOfSeed DEF Seed!StartApi, SeedInv
<1>16. CASE Seed!Stop \/ Seed!Start
  BY <1>16 DEF Seed!Stop, Seed!Start, SeedInv
<1>17. CASE Seed!PayPix
  <2>1. PICK amount : amount = IF moved = 0 THEN Seed!PixAmount ELSE 0
    OBVIOUS
  <2>2. PICK written : written = [demo EXCEPT !.pix = "CAPTURED", !.wallet = demo.wallet + amount]
    OBVIOUS
  <2>3. "wallet" \in DOMAIN written
    BY <1>1, <2>2
  <2>4. amount \in Nat /\ moved + amount # 0
    BY <2>1 DEF Seed!PixAmount, SeedInv
  <2>5. Seed!Application(written, amount)
    BY <1>17, <2>1, <2>2 DEF Seed!PayPix
  <2> QED BY <2>3, <2>4, <2>5, OperationKeeps
<1>18. CASE Seed!SetDefaultVehicle
  BY <1>1, <1>18, OperationKeeps DEF Seed!SetDefaultVehicle
<1>19. CASE Seed!SetDefaultMethod
  BY <1>1, <1>19, OperationKeeps DEF Seed!SetDefaultMethod
<1>20. CASE Seed!DisableOperator
  BY <1>1, <1>20, OperationKeeps DEF Seed!DisableOperator
<1>21. CASE Seed!PublishTariff
  BY <1>1, <1>21, OperationKeeps DEF Seed!PublishTariff
<1>22. CASE Seed!Occupy
  BY <1>1, <1>22, OperationKeeps DEF Seed!Occupy
<1> QED BY <1>2, <1>4, <1>5, <1>6, <1>7, <1>8, <1>9, <1>10, <1>11, <1>12, <1>13, <1>14, <1>15,
           <1>16,
           <1>17, <1>18, <1>19,
           <1>20, <1>21, <1>22, OrderOfSeed DEF Seed!Next, Seed!Operate

LEMMA SeedBalances == SeedInv => Seed!FreshBooksAgree
<1> SUFFICES ASSUME SeedInv, place = "api", moved = 0 PROVE demo.wallet = Seed!Balance
  BY DEF Seed!FreshBooksAgree
<1>1. demo.wallet = 29266
  BY DEF SeedInv, Seed!SeededBalance
<1>2. \A i \in 11 .. 15 : entries[Seed!Order[i]] # "none"
  BY DEF SeedInv
<1>3. \A t \in Booked : Seed!Posted(t)
  BY <1>2, OrderOfSeed DEF Booked, Seed!Posted
<1>4. /\ Seed!Worth("topUp") = 30000 /\ Seed!Worth("authorization") = -5000
      /\ Seed!Worth("capture") = 0 /\ Seed!Worth("release") = 3766 /\ Seed!Worth("refund") = 500
  BY <1>3 DEF Booked, Seed!Worth, Seed!Ledger
<1> QED BY <1>1, <1>4 DEF Seed!Balance

\* Until the application changes something, the wallet has what the ledger gives it whenever the API runs,
\* wherever starts before were cut off, however many (main, seedLedgerTransaction): alone, and among the
\* other services.
THEOREM FreshBooksAlwaysAgree ==
  /\ Seed!Spec => []Seed!FreshBooksAgree
  /\ MCSpec => []FreshBooksAgree
<1>1. Seed!Spec => []Seed!FreshBooksAgree
  BY SeedInit, SeedNext, SeedBalances, PTL DEF Seed!Spec
<1> DEFINE Inv == focus = "seed" => SeedInv
<1>2. MCInit => Inv
  BY SeedInit, Zenon DEF MCInit
<1>3. Inv /\ [MCNext]_allVars => Inv'
  <2> SUFFICES ASSUME Inv, [MCNext]_allVars PROVE Inv' OBVIOUS
  <2>1. focus' = focus
    BY DEF MCNext, Rest, allVars
  <2>2. focus = "seed" => [Seed!Next]_Seed!vars
    BY DEF MCNext, Step, allVars, vars, Seed!vars
  <2> QED BY <2>1, <2>2, SeedNext
<1>4. Inv => FreshBooksAgree
  BY SeedBalances DEF FreshBooksAgree
<1> HIDE DEF Inv
<1>5. MCSpec => []FreshBooksAgree
  BY <1>2, <1>3, <1>4, PTL DEF MCSpec
<1> QED BY <1>1, <1>5

-----------------------------------------------------------------------------
(***************************************************************************)
(* The demonstration mode keeps what the backend keeps, for any calls of   *)
(* the screens at one time.                                                *)
(*                                                                         *)
(* The argument: ids are distinct, so that a call finds one row at most;   *)
(* of the vehicles exactly one is the main one, whoever is taken away; a   *)
(* top-up is listed and counted in the step that captures it, and only a   *)
(* pending one is captured; and sessions are numbered as they start, and   *)
(* only the active one, which has not been stopped, is stopped.            *)
(***************************************************************************)

MockVehicle == [id : Nat, plate : MockBackend!Plates, main : BOOLEAN, version : Nat]
MockMethod == [id : Nat, main : BOOLEAN]

\* Rows of ids made so far, all different.
HaveIds(rows, last) ==
  /\ \A i \in DOMAIN rows : rows[i].id \in 1 .. last
  /\ \A i, j \in DOMAIN rows : i # j => rows[i].id # rows[j].id

PlatesDiffer(rows) ==
  \A i, j \in DOMAIN rows : i # j => rows[i].plate = "-" \/ rows[i].plate # rows[j].plate

\* The main row is that of an index, or there is none.
MainAt(rows, i) == \A j \in DOMAIN rows : rows[j].main <=> j = i
HasMain(rows) == DOMAIN rows # {} => \E i \in DOMAIN rows : MainAt(rows, i)
OneMainAtMost(rows) == \A i, j \in DOMAIN rows : rows[i].main /\ rows[j].main => i = j

GoodGarage ==
  /\ DOMAIN garage = {"made", "rows"} /\ garage.made \in Nat
  /\ garage.rows \in Seq(MockVehicle)
  /\ HaveIds(garage.rows, garage.made)
  /\ PlatesDiffer(garage.rows) /\ HasMain(garage.rows)

GoodMethods ==
  /\ DOMAIN methods = {"made", "rows"} /\ methods.made \in Nat
  /\ methods.rows \in Seq(MockMethod)
  /\ HaveIds(methods.rows, methods.made)
  /\ OneMainAtMost(methods.rows)

\* What a call in flight may ask for.
CallIsGood(r) ==
  /\ r.op = "create" => r.plate \in MockBackend!Plates /\ r.main \in BOOLEAN
  /\ r.op = "update" => r.plate \in MockBackend!Plates /\ r.main \in {"yes", "no", "-"}
  /\ r.op = "method" => r.main \in {"yes", "no", "-"}
  /\ r.op = "top-up" => r.key \in MockBackend!Keys /\ r.amount \in MockBackend!Amounts
  /\ r.op \in {"poll", "cancel"} => r.id \in DOMAIN intents
  /\ r.op \in {"start", "stop"} => r.key \in MockBackend!Keys
  /\ r.op = "stop" => r.id # MockBackend!None

CallsAreGood == \A r \in DOMAIN requests : CallIsGood(r)

MockIntent == [key : MockBackend!Keys, amount : MockBackend!Amounts, polls : Nat, credited : BOOLEAN,
               status : {"PENDING", "FAILED", "CAPTURED", "CANCELLED"}]

\* A captured payment, and no other, has been credited.
GoodIntents ==
  /\ intents \in Seq(MockIntent)
  /\ \A i \in DOMAIN intents : intents[i].credited <=> intents[i].status = "CAPTURED"

GoodPurse ==
  /\ DOMAIN purse = {"available", "rows"} /\ purse.rows \in Seq(Nat)
  /\ IsFiniteSet(MockBackend!Units)
  /\ purse.available = Cardinality(MockBackend!Units)
  /\ MockBackend!IsInjective(purse.rows)
  /\ MockBackend!Range(purse.rows) = MockBackend!Captured

GoodCharging ==
  /\ DOMAIN charging = {"active", "started", "stopped"}
  /\ charging.started \in [MockBackend!Keys -> Nat] /\ charging.stopped \in [MockBackend!Keys -> Nat]
  /\ IsFiniteSet(MockBackend!Started)
  /\ MockBackend!Started \subseteq 1 .. Cardinality(MockBackend!Started)
  /\ MockBackend!Stopped \subseteq MockBackend!Started
  /\ charging.active \in MockBackend!Started \cup {MockBackend!None}
  /\ charging.active \notin MockBackend!Stopped
  /\ \A k, l \in MockBackend!Keys : k # l =>
       /\ charging.started[k] = charging.started[l] => charging.started[k] = MockBackend!None
       /\ charging.stopped[k] = charging.stopped[l] => charging.stopped[k] = MockBackend!None

MockInv == GoodGarage /\ GoodMethods /\ CallsAreGood /\ GoodIntents /\ GoodPurse /\ GoodCharging

\* The bags of calls.
LEMMA CallIsAdded ==
  ASSUME NEW r, MockBackend!Send(r)
  PROVE  DOMAIN requests' = DOMAIN requests \cup {r}
BY DEF MockBackend!Send, MockBackend!(+), MockBackend!SetToBag

LEMMA CallIsOver ==
  ASSUME NEW r, MockBackend!Answer(r)
  PROVE  DOMAIN requests' \subseteq DOMAIN requests
BY DEF MockBackend!Answer, MockBackend!(-), MockBackend!SetToBag

LEMMA CallsStayGood ==
  ASSUME MockInv, NEW S, \A r \in S : CallIsGood(r),
         DOMAIN requests' \subseteq DOMAIN requests \cup S, DOMAIN intents \subseteq DOMAIN intents'
  PROVE  CallsAreGood'
BY DEF MockInv, CallsAreGood, CallIsGood

\* A sequence of rows by its indices.
LEMMA RowsAreSeq ==
  ASSUME NEW S, NEW n \in Nat, NEW rows, rows = [i \in 1 .. n |-> rows[i]],
         \A i \in 1 .. n : rows[i] \in S
  PROVE  rows \in Seq(S) /\ DOMAIN rows = 1 .. n
<1>1. rows \in [1 .. n -> S]
  OBVIOUS
<1> QED BY <1>1

\* What a row is without its id: the rows before it and those after it, one place further down.
LEMMA WithoutRow ==
  ASSUME NEW S, NEW rows \in Seq(S), NEW last, HaveIds(rows, last), NEW p \in DOMAIN rows
  PROVE  /\ MockBackend!Position(rows, rows[p].id) = p
         /\ MockBackend!Row(rows, rows[p].id) = rows[p]
         /\ MockBackend!Without(rows, rows[p].id) \in Seq(S)
         /\ DOMAIN MockBackend!Without(rows, rows[p].id) = 1 .. Len(rows) - 1
         /\ \A i \in 1 .. Len(rows) - 1 :
              MockBackend!Without(rows, rows[p].id)[i] = IF i < p THEN rows[i] ELSE rows[i + 1]
<1>1. MockBackend!Position(rows, rows[p].id) = p
  BY DEF MockBackend!Position, HaveIds
<1>2. rows[p].id \in MockBackend!Ids(rows)
  BY DEF MockBackend!Ids
<1>3. MockBackend!Without(rows, rows[p].id) = SubSeq(rows, 1, p - 1) \o SubSeq(rows, p + 1, Len(rows))
  BY <1>1, <1>2 DEF MockBackend!Without, MockBackend!RemoveAt
<1>4. p \in 1 .. Len(rows) /\ Len(rows) \in Nat /\ \A i \in 1 .. Len(rows) : rows[i] \in S
  OBVIOUS
<1>5. PICK before : before = SubSeq(rows, 1, p - 1)
  OBVIOUS
<1>6. PICK after : after = SubSeq(rows, p + 1, Len(rows))
  OBVIOUS
<1>7. before \in Seq(S) /\ Len(before) = p - 1 /\ \A i \in 1 .. p - 1 : before[i] = rows[i]
  <2>1. 1 \in Int /\ p - 1 \in Int /\ \A i \in 1 .. p - 1 : rows[i] \in S
    BY <1>4
  <2>2. /\ SubSeq(rows, 1, p - 1) \in Seq(S)
        /\ Len(SubSeq(rows, 1, p - 1)) = IF 1 <= p - 1 THEN (p - 1) - 1 + 1 ELSE 0
        /\ \A i \in 1 .. (p - 1) - 1 + 1 : SubSeq(rows, 1, p - 1)[i] = rows[1 + i - 1]
    BY <2>1, SubSeqProperties
  <2> QED BY <1>4, <1>5, <2>2
<1>8. /\ after \in Seq(S) /\ Len(after) = Len(rows) - p
      /\ \A i \in 1 .. Len(rows) - p : after[i] = rows[p + i]
  <2>1. p + 1 \in Int /\ Len(rows) \in Int /\ \A i \in p + 1 .. Len(rows) : rows[i] \in S
    BY <1>4
  <2>2. /\ SubSeq(rows, p + 1, Len(rows)) \in Seq(S)
        /\ Len(SubSeq(rows, p + 1, Len(rows))) = IF p + 1 <= Len(rows) THEN Len(rows) - (p + 1) + 1 ELSE 0
        /\ \A i \in 1 .. Len(rows) - (p + 1) + 1 :
             SubSeq(rows, p + 1, Len(rows))[i] = rows[(p + 1) + i - 1]
    BY <2>1, SubSeqProperties
  <2> QED BY <1>4, <1>6, <2>2
<1>9. PICK rest : rest = before \o after
  OBVIOUS
<1>10. /\ rest \in Seq(S) /\ Len(rest) = Len(rows) - 1
       /\ \A i \in 1 .. Len(rows) - 1 :
            rest[i] = IF i <= p - 1 THEN before[i] ELSE after[i - (p - 1)]
  <2>1. /\ before \o after \in Seq(S) /\ Len(before \o after) = Len(before) + Len(after)
        /\ \A i \in 1 .. Len(before) + Len(after) :
             (before \o after)[i] = IF i <= Len(before) THEN before[i] ELSE after[i - Len(before)]
    BY <1>7, <1>8, ConcatProperties
  <2>2. Len(before) + Len(after) = Len(rows) - 1
    BY <1>4, <1>7, <1>8
  <2> QED BY <1>7, <1>9, <2>1, <2>2
<1>11. ASSUME NEW i \in 1 .. Len(rows) - 1
       PROVE  rest[i] = IF i < p THEN rows[i] ELSE rows[i + 1]
  <2>1. CASE i < p
    BY <1>4, <1>7, <1>10, <2>1
  <2>2. CASE ~(i < p)
    <3>1. rest[i] = after[i - (p - 1)]
      BY <1>4, <1>10, <2>2
    <3>2. after[i - (p - 1)] = rows[p + (i - (p - 1))]
      BY <1>4, <1>8, <2>2
    <3>3. p + (i - (p - 1)) = i + 1
      BY <1>4
    <3> QED BY <2>2, <3>1, <3>2, <3>3
  <2> QED BY <2>1, <2>2
<1>12. MockBackend!Without(rows, rows[p].id) = rest
  BY <1>3, <1>5, <1>6, <1>9
<1>13. DOMAIN rest = 1 .. Len(rows) - 1
  BY <1>10
<1> QED BY <1>1, <1>10, <1>11, <1>12, <1>13 DEF MockBackend!Row

\* The others keep their ids, and what is said of every pair of them.
LEMMA OthersRemainApart ==
  ASSUME NEW S, NEW rows \in Seq(S), NEW last, HaveIds(rows, last), NEW p \in DOMAIN rows
  PROVE  /\ HaveIds(MockBackend!Without(rows, rows[p].id), last)
         /\ OneMainAtMost(rows) => OneMainAtMost(MockBackend!Without(rows, rows[p].id))
         /\ PlatesDiffer(rows) => PlatesDiffer(MockBackend!Without(rows, rows[p].id))
         /\ \A q \in DOMAIN rows : MainAt(rows, q) => IF q = p
              THEN \A i \in DOMAIN MockBackend!Without(rows, rows[p].id) :
                     ~MockBackend!Without(rows, rows[p].id)[i].main
              ELSE HasMain(MockBackend!Without(rows, rows[p].id))
<1>1. PICK rest : rest = MockBackend!Without(rows, rows[p].id)
  OBVIOUS
<1>2. /\ DOMAIN rest = 1 .. Len(rows) - 1
      /\ \A i \in 1 .. Len(rows) - 1 : rest[i] = IF i < p THEN rows[i] ELSE rows[i + 1]
  BY <1>1, WithoutRow
<1>3. DOMAIN rows = 1 .. Len(rows) /\ Len(rows) \in Nat /\ p \in 1 .. Len(rows)
  OBVIOUS
<1>4. PICK Back : Back = [i \in 1 .. Len(rows) - 1 |-> IF i < p THEN i ELSE i + 1]
  OBVIOUS
<1>5. \A i \in DOMAIN rest : Back[i] \in DOMAIN rows /\ Back[i] # p /\ rest[i] = rows[Back[i]]
  BY <1>2, <1>3, <1>4
<1>6. \A i, j \in DOMAIN rest : i # j => Back[i] # Back[j]
  BY <1>2, <1>3, <1>4
<1>7. HaveIds(rest, last)
  BY <1>5, <1>6 DEF HaveIds
<1>8. OneMainAtMost(rows) => OneMainAtMost(rest)
  BY <1>5, <1>6 DEF OneMainAtMost
<1>9. PlatesDiffer(rows) => PlatesDiffer(rest)
  BY <1>5, <1>6 DEF PlatesDiffer
<1>10. ASSUME NEW q \in DOMAIN rows, MainAt(rows, q)
       PROVE  IF q = p THEN \A i \in DOMAIN rest : ~rest[i].main ELSE HasMain(rest)
  <2>1. CASE q = p
    BY <1>5, <1>10, <2>1 DEF MainAt
  <2>2. CASE q # p
    <3>1. PICK k : k = IF q < p THEN q ELSE q - 1
      OBVIOUS
    <3>2. k \in DOMAIN rest /\ Back[k] = q
      BY <1>2, <1>3, <1>4, <2>2, <3>1
    <3>3. MainAt(rest, k)
      <4>1. ASSUME NEW j \in DOMAIN rest PROVE rest[j].main <=> j = k
        <5>1. rest[j].main <=> Back[j] = q
          BY <1>5, <1>10, <4>1 DEF MainAt
        <5> QED BY <1>6, <3>2, <4>1, <5>1
      <4> QED BY <4>1 DEF MainAt
    <3> QED BY <2>2, <3>2, <3>3 DEF HasMain
  <2> QED BY <2>1, <2>2
<1> QED BY <1>1, <1>7, <1>8, <1>9, <1>10

\* A row that is not the main one.
LEMMA NotMainRow ==
  ASSUME NEW S \in {MockVehicle, MockMethod}, NEW one \in S
  PROVE  /\ MockBackend!NotMain(one) \in S
         /\ MockBackend!NotMain(one).id = one.id
         /\ ~MockBackend!NotMain(one).main
         /\ S = MockVehicle => MockBackend!NotMain(one).plate = one.plate
<1>1. CASE S = MockVehicle
  BY <1>1 DEF MockVehicle, MockBackend!NotMain
<1>2. CASE S = MockMethod
  <2>1. /\ MockBackend!NotMain(one) \in S
        /\ MockBackend!NotMain(one).id = one.id
        /\ ~MockBackend!NotMain(one).main
    BY <1>2 DEF MockMethod, MockBackend!NotMain
  <2>2. MockMethod # MockVehicle
    <3>1. [id |-> 0, main |-> TRUE] \in MockMethod
      BY DEF MockMethod
    <3>2. [id |-> 0, main |-> TRUE] \notin MockVehicle
      BY DEF MockVehicle
    <3> QED BY <3>1, <3>2
  <2> QED BY <1>2, <2>1, <2>2
<1> QED BY <1>1, <1>2

\* Nobody is the main one.
LEMMA NobodyIsMain ==
  ASSUME NEW S \in {MockVehicle, MockMethod}, NEW rows \in Seq(S)
  PROVE  /\ MockBackend!Map(rows, MockBackend!NotMain) \in Seq(S)
         /\ Len(MockBackend!Map(rows, MockBackend!NotMain)) = Len(rows)
         /\ \A i \in 1 .. Len(rows) :
              /\ MockBackend!Map(rows, MockBackend!NotMain)[i].id = rows[i].id
              /\ ~MockBackend!Map(rows, MockBackend!NotMain)[i].main
              /\ S = MockVehicle =>
                   MockBackend!Map(rows, MockBackend!NotMain)[i].plate = rows[i].plate
<1>1. PICK all : all = MockBackend!Map(rows, MockBackend!NotMain)
  OBVIOUS
<1>2. DOMAIN rows = 1 .. Len(rows) /\ Len(rows) \in Nat /\ \A i \in 1 .. Len(rows) : rows[i] \in S
  OBVIOUS
<1>3. all = [i \in 1 .. Len(rows) |-> MockBackend!NotMain(rows[i])]
  BY <1>1, <1>2 DEF MockBackend!Map
<1>4. \A one \in S : /\ MockBackend!NotMain(one) \in S
                     /\ MockBackend!NotMain(one).id = one.id
                     /\ ~MockBackend!NotMain(one).main
                     /\ S = MockVehicle => MockBackend!NotMain(one).plate = one.plate
  BY NotMainRow
<1>5. \A i \in 1 .. Len(rows) : all[i] \in S /\ all[i] = MockBackend!NotMain(rows[i])
  BY <1>2, <1>3, <1>4
<1>6. all \in Seq(S) /\ DOMAIN all = 1 .. Len(rows)
  BY <1>2, <1>3, <1>5, RowsAreSeq
<1>7. Len(all) = Len(rows)
  BY <1>2, <1>6
<1> QED BY <1>1, <1>2, <1>4, <1>5, <1>6, <1>7

-----------------------------------------------------------------------------
(* Vehicles of the demonstration *)

LEMMA VehicleIsCreated ==
  ASSUME MockInv, NEW r \in DOMAIN requests, MockBackend!CreateVehicle(r)
  PROVE  GoodGarage'
<1>1. GoodGarage /\ CallIsGood(r) /\ r.op = "create"
  BY DEF MockInv, CallsAreGood, MockBackend!CreateVehicle, MockBackend!Serves
<1>2. CASE UNCHANGED garage
  BY <1>1, <1>2 DEF GoodGarage
<1>3. CASE ~UNCHANGED garage
  <2>1. PICK main \in BOOLEAN : main = (r.main \/ garage.rows = <<>>)
    BY Zenon
  <2>2. PICK new : new = [id |-> garage.made + 1, plate |-> r.plate, main |-> main, version |-> 1]
    OBVIOUS
  <2>3. /\ new \in MockVehicle /\ new.id = garage.made + 1 /\ new.plate = r.plate
        /\ new.main = main
    BY <1>1, <2>2 DEF MockVehicle, GoodGarage, CallIsGood
  <2>4. PICK base : base = IF main THEN MockBackend!Map(garage.rows, MockBackend!NotMain) ELSE garage.rows
    OBVIOUS
  <2>5. ~MockBackend!Duplicates(r.plate, MockBackend!None)
    BY <1>3 DEF MockBackend!CreateVehicle
  <2>6. garage' = [made |-> garage.made + 1, rows |-> Append(base, new)]
    BY <1>3, <2>1, <2>2, <2>4, <2>5, Zenon DEF MockBackend!CreateVehicle, MockBackend!Fresh
  <2>7. PICK n \in Nat : n = Len(garage.rows)
    BY <1>1 DEF GoodGarage
  <2>8. /\ base \in Seq(MockVehicle) /\ Len(base) = n
        /\ \A i \in 1 .. n : base[i].id = garage.rows[i].id /\ base[i].plate = garage.rows[i].plate
        /\ main => \A i \in 1 .. n : ~base[i].main
        /\ ~main => base = garage.rows
    BY <1>1, <2>4, <2>7, NobodyIsMain DEF GoodGarage
  <2>9. PICK rows : rows = Append(base, new)
    OBVIOUS
  <2>10. /\ rows \in Seq(MockVehicle) /\ DOMAIN rows = 1 .. n + 1
         /\ rows[n + 1] = new /\ \A i \in 1 .. n : rows[i] = base[i]
    BY <2>3, <2>8, <2>9
  <2>11. /\ DOMAIN garage.rows = 1 .. n
         /\ \A i \in 1 .. n : garage.rows[i].id \in 1 .. garage.made
         /\ garage.made \in Nat
    BY <1>1, <2>7 DEF GoodGarage, HaveIds
  <2>12. HaveIds(rows, garage.made + 1)
    <3>1. \A i \in 1 .. n : rows[i].id = garage.rows[i].id
      BY <2>8, <2>10
    <3>2. \A i \in 1 .. n : rows[i].id \in 1 .. garage.made /\ rows[i].id # rows[n + 1].id
      BY <2>3, <2>10, <2>11, <3>1
    <3>3. \A i, j \in 1 .. n : i # j => rows[i].id # rows[j].id
      BY <1>1, <2>11, <3>1 DEF GoodGarage, HaveIds
    <3>4. rows[n + 1].id \in 1 .. garage.made + 1 /\ 1 .. garage.made \subseteq 1 .. garage.made + 1
      BY <2>3, <2>10, <2>11
    <3>5. \A i \in 1 .. n + 1 : i = n + 1 \/ i \in 1 .. n
      OBVIOUS
    <3>6. \A i \in 1 .. n + 1 : rows[i].id \in 1 .. garage.made + 1
      BY <3>2, <3>4, <3>5
    <3>7. \A i, j \in 1 .. n + 1 : i # j => rows[i].id # rows[j].id
      BY <3>2, <3>3, <3>5
    <3> QED BY <2>10, <3>6, <3>7 DEF HaveIds
  <2>13. PlatesDiffer(rows)
    <3>1. \A i \in 1 .. n : rows[i].plate = garage.rows[i].plate
      BY <2>8, <2>10
    <3>2. new.plate = "-" \/ \A i \in 1 .. n : garage.rows[i].plate # new.plate
      <4>1. \A i \in 1 .. n : garage.rows[i].id # MockBackend!None
        BY <2>11 DEF MockBackend!None
      <4> QED BY <2>3, <2>5, <2>11, <4>1 DEF MockBackend!Duplicates
    <3> QED BY <1>1, <2>10, <2>11, <3>1, <3>2 DEF GoodGarage, PlatesDiffer
  <2>14. HasMain(rows)
    <3>1. CASE main
      <4>1. MainAt(rows, n + 1)
        <5>1. rows[n + 1].main
          BY <2>3, <2>10, <3>1
        <5>2. \A j \in 1 .. n : ~rows[j].main /\ j # n + 1
          BY <2>8, <2>10, <3>1
        <5>3. \A j \in 1 .. n + 1 : j = n + 1 \/ j \in 1 .. n
          OBVIOUS
        <5> QED BY <2>10, <5>1, <5>2, <5>3 DEF MainAt
      <4> QED BY <2>10, <4>1 DEF HasMain
    <3>2. CASE ~main
      <4>1. DOMAIN garage.rows # {}
        <5>1. garage.rows # <<>>
          BY <2>1, <3>2
        <5>2. Len(garage.rows) \in Nat \ {0}
          BY <1>1, <5>1, EmptySeq DEF GoodGarage
        <5> QED BY <2>7, <2>11, <5>2
      <4>2. PICK i \in 1 .. n : MainAt(garage.rows, i)
        BY <1>1, <2>11, <4>1 DEF GoodGarage, HasMain
      <4>3. MainAt(rows, i)
        BY <2>3, <2>8, <2>10, <2>11, <3>2, <4>2 DEF MainAt
      <4> QED BY <2>10, <4>3 DEF HasMain
    <3> QED BY <3>1, <3>2
  <2>15. DOMAIN garage' = {"made", "rows"} /\ garage'.made = garage.made + 1 /\ garage'.rows = rows
    BY <2>6, <2>9
  <2> QED BY <2>10, <2>11, <2>12, <2>13, <2>14, <2>15 DEF GoodGarage
<1> QED BY <1>2, <1>3

\* A row with what the input says of it, and one that is no longer the main one.
Rewritten(one, main, plate) ==
  [one EXCEPT !.main = main, !.plate = plate, !.version = one.version + 1]

LEMMA RowIsWritten ==
  ASSUME NEW one \in MockVehicle, NEW main \in BOOLEAN, NEW plate \in MockBackend!Plates
  PROVE  /\ Rewritten(one, main, plate) \in MockVehicle
         /\ Rewritten(one, main, plate).id = one.id
         /\ Rewritten(one, main, plate).main = main
         /\ Rewritten(one, main, plate).plate = plate
<1>1. PICK first : first = [one EXCEPT !.main = main]
  OBVIOUS
<1>2. first \in MockVehicle /\ first.id = one.id /\ first.main = main
  BY <1>1 DEF MockVehicle
<1>3. PICK second : second = [first EXCEPT !.plate = plate]
  OBVIOUS
<1>4. second \in MockVehicle /\ second.id = one.id /\ second.main = main /\ second.plate = plate
  BY <1>2, <1>3 DEF MockVehicle
<1>5. PICK new : new = [second EXCEPT !.version = one.version + 1]
  OBVIOUS
<1>6. new \in MockVehicle /\ new.id = one.id /\ new.main = main /\ new.plate = plate
  BY <1>4, <1>5 DEF MockVehicle
<1>7. new = Rewritten(one, main, plate)
  BY <1>1, <1>3, <1>5 DEF MockVehicle, Rewritten
<1> QED BY <1>6, <1>7

LEMMA RowIsReplaced ==
  ASSUME NEW one \in MockVehicle
  PROVE  /\ [MockBackend!NotMain(one) EXCEPT !.version = @ + 1] \in MockVehicle
         /\ [MockBackend!NotMain(one) EXCEPT !.version = @ + 1].id = one.id
         /\ [MockBackend!NotMain(one) EXCEPT !.version = @ + 1].plate = one.plate
         /\ ~[MockBackend!NotMain(one) EXCEPT !.version = @ + 1].main
<1>1. PICK other \in MockVehicle :
        /\ other = MockBackend!NotMain(one)
        /\ other.id = one.id /\ other.plate = one.plate /\ ~other.main
  BY NotMainRow
<1>2. /\ [other EXCEPT !.version = @ + 1] \in MockVehicle
      /\ [other EXCEPT !.version = @ + 1].id = other.id
      /\ [other EXCEPT !.version = @ + 1].plate = other.plate
      /\ [other EXCEPT !.version = @ + 1].main = other.main
  BY DEF MockVehicle
<1> QED BY <1>1, <1>2

\* The row of an index, and the main row with it.
LEMMA VehicleIsUpdated ==
  ASSUME MockInv, NEW r \in DOMAIN requests, MockBackend!UpdateVehicle(r)
  PROVE  GoodGarage'
<1>1. GoodGarage /\ CallIsGood(r) /\ r.op = "update"
  BY DEF MockInv, CallsAreGood, MockBackend!UpdateVehicle, MockBackend!Serves
<1>2. CASE UNCHANGED garage
  BY <1>1, <1>2 DEF GoodGarage
<1>3. CASE ~UNCHANGED garage
  <2>1. PICK rows \in Seq(MockVehicle) : rows = garage.rows
    BY <1>1 DEF GoodGarage
  <2>2. PICK n \in Nat : n = Len(rows) /\ DOMAIN rows = 1 .. n
    OBVIOUS
  <2>3. /\ MockBackend!IsCurrent(r)
        /\ ~(MockBackend!Row(rows, r.id).main /\ r.main = "no")
        /\ ~MockBackend!Duplicates(r.plate, r.id)
    BY <1>3, <2>1 DEF MockBackend!UpdateVehicle
  <2>4. PICK p \in 1 .. n : rows[p].id = r.id
    BY <2>1, <2>2, <2>3 DEF MockBackend!IsCurrent, MockBackend!Ids
  <2>5. HaveIds(rows, garage.made) /\ PlatesDiffer(rows) /\ HasMain(rows)
    BY <1>1, <2>1 DEF GoodGarage
  <2>6. ~(rows[p].main /\ r.main = "no")
    BY <2>2, <2>3, <2>4, <2>5, WithoutRow
  <2>7. rows[p] \in MockVehicle
    BY <2>2
  <2>8. PICK main \in BOOLEAN : main = IF r.main = "-" THEN rows[p].main ELSE r.main = "yes"
    <3>1. rows[p].main \in BOOLEAN
      BY <2>7 DEF MockVehicle
    <3> QED BY <3>1, Zenon
  <2>9. PICK plate \in MockBackend!Plates : plate = IF r.plate = "-" THEN rows[p].plate ELSE r.plate
    <3>1. rows[p].plate \in MockBackend!Plates /\ r.plate \in MockBackend!Plates
      BY <1>1, <2>7 DEF CallIsGood, MockVehicle
    <3> QED BY <3>1, Zenon
  <2>10. PICK new \in MockVehicle :
          /\ new = Rewritten(rows[p], main, plate)
          /\ new.id = rows[p].id /\ new.main = main /\ new.plate = plate
    BY <2>7, <2>8, <2>9, RowIsWritten
  <2>11. PICK others : others =
           [i \in 1 .. n |-> IF r.main = "yes" THEN [MockBackend!NotMain(rows[i]) EXCEPT !.version = @ + 1]
                             ELSE rows[i]]
    OBVIOUS
  <2>12. \A i \in 1 .. n :
           /\ others[i] \in MockVehicle
           /\ others[i].id = rows[i].id /\ others[i].plate = rows[i].plate
           /\ IF r.main = "yes" THEN ~others[i].main ELSE others[i] = rows[i]
    BY <2>2, <2>11, RowIsReplaced
  <2>13. PICK written : written = [i \in 1 .. n |-> IF i = p THEN new ELSE others[i]]
    OBVIOUS
  <2>14. garage' = [garage EXCEPT !.rows = written]
    <3>1. garage' = [garage EXCEPT !.rows =
             [i \in 1 .. n |->
                IF rows[i].id = r.id
                  THEN [rows[i] EXCEPT !.main = IF r.main = "-" THEN @ ELSE r.main = "yes",
                                       !.plate = IF r.plate = "-" THEN @ ELSE r.plate,
                                       !.version = @ + 1]
                ELSE IF r.main = "yes" THEN [MockBackend!NotMain(rows[i]) EXCEPT !.version = @ + 1]
                ELSE rows[i]]]
      BY <1>3, <2>1, <2>2 DEF MockBackend!UpdateVehicle, MockBackend!Map
    <3>2. \A i \in 1 .. n : rows[i].id = r.id <=> i = p
      BY <2>2, <2>4, <2>5 DEF HaveIds
    <3>3. [rows[p] EXCEPT !.main = IF r.main = "-" THEN @ ELSE r.main = "yes",
                          !.plate = IF r.plate = "-" THEN @ ELSE r.plate,
                          !.version = @ + 1] = new
      BY <2>8, <2>9, <2>10, Zenon DEF Rewritten
    <3> QED BY <2>11, <2>13, <3>1, <3>2, <3>3
  <2>15. written \in Seq(MockVehicle) /\ DOMAIN written = 1 .. n
    <3>1. written = [i \in 1 .. n |-> written[i]] /\ \A i \in 1 .. n : written[i] \in MockVehicle
      BY <2>10, <2>12, <2>13
    <3> QED BY <3>1, RowsAreSeq
  <2>16. \A i \in 1 .. n : written[i].id = rows[i].id
    BY <2>10, <2>12, <2>13
  <2>17. HaveIds(written, garage.made)
    BY <2>2, <2>5, <2>15, <2>16 DEF HaveIds
  <2>18. PlatesDiffer(written)
    <3>1. \A i \in 1 .. n : written[i].plate = IF i = p THEN plate ELSE rows[i].plate
      BY <2>10, <2>12, <2>13
    <3>2. \A i \in 1 .. n : i # p => plate = "-" \/ plate # rows[i].plate
      <4>1. CASE r.plate = "-"
        BY <2>2, <2>5, <2>9, <4>1 DEF PlatesDiffer
      <4>2. CASE r.plate # "-"
        <5>1. \A i \in 1 .. n : i # p => rows[i].id # r.id
          BY <2>2, <2>4, <2>5 DEF HaveIds
        <5>2. \A i \in 1 .. n : i # p => rows[i].plate # r.plate
          BY <2>1, <2>2, <2>3, <4>2, <5>1 DEF MockBackend!Duplicates
        <5> QED BY <2>9, <4>2, <5>2
      <4> QED BY <4>1, <4>2
    <3> QED BY <2>2, <2>5, <2>15, <3>1, <3>2 DEF PlatesDiffer
  <2>19. HasMain(written)
    <3>1. CASE r.main = "yes"
      <4>1. main
        BY <2>8, <3>1
      <4>2. MainAt(written, p)
        BY <2>10, <2>12, <2>13, <2>15, <3>1, <4>1 DEF MainAt
      <4> QED BY <2>15, <4>2 DEF HasMain
    <3>2. CASE r.main # "yes"
      <4>1. PICK q \in 1 .. n : MainAt(rows, q)
        BY <2>2, <2>5 DEF HasMain
      <4>2. main <=> rows[p].main
        <5>1. CASE r.main = "-"
          BY <2>8, <5>1
        <5>2. CASE r.main = "no"
          BY <2>6, <2>8, <5>2
        <5> QED BY <1>1, <3>2, <5>1, <5>2 DEF CallIsGood
      <4>3. \A i \in 1 .. n : written[i].main <=> rows[i].main
        BY <2>10, <2>12, <2>13, <3>2, <4>2
      <4>4. MainAt(written, q)
        BY <2>2, <2>15, <4>1, <4>3 DEF MainAt
      <4> QED BY <2>15, <4>4 DEF HasMain
    <3> QED BY <3>1, <3>2
  <2>20. DOMAIN garage' = {"made", "rows"} /\ garage'.made = garage.made /\ garage'.rows = written
    BY <1>1, <2>14 DEF GoodGarage
  <2> QED BY <1>1, <2>15, <2>17, <2>18, <2>19, <2>20 DEF GoodGarage
<1> QED BY <1>2, <1>3

\* The first of the others takes the place of the main one.
LEMMA VehicleIsRemoved ==
  ASSUME MockInv, NEW r \in DOMAIN requests, MockBackend!RemoveVehicle(r)
  PROVE  GoodGarage'
<1>1. GoodGarage
  BY DEF MockInv
<1>2. CASE UNCHANGED garage
  BY <1>1, <1>2 DEF GoodGarage
<1>3. CASE ~UNCHANGED garage
  <2>1. PICK rows \in Seq(MockVehicle) : rows = garage.rows
    BY <1>1 DEF GoodGarage
  <2>2. PICK n \in Nat : n = Len(rows) /\ DOMAIN rows = 1 .. n
    OBVIOUS
  <2>3. HaveIds(rows, garage.made) /\ PlatesDiffer(rows) /\ HasMain(rows)
    BY <1>1, <2>1 DEF GoodGarage
  <2>4. MockBackend!IsCurrent(r)
    BY <1>3 DEF MockBackend!RemoveVehicle
  <2>5. PICK p \in 1 .. n : rows[p].id = r.id
    BY <2>1, <2>2, <2>4 DEF MockBackend!IsCurrent, MockBackend!Ids
  <2>6. PICK rest : rest = MockBackend!Without(rows, rows[p].id)
    OBVIOUS
  <2>7. /\ rest \in Seq(MockVehicle) /\ DOMAIN rest = 1 .. n - 1
        /\ MockBackend!Row(rows, r.id) = rows[p]
    BY <2>2, <2>3, <2>5, <2>6, WithoutRow
  <2>8. HaveIds(rest, garage.made) /\ PlatesDiffer(rest)
    BY <2>2, <2>3, <2>6, OthersRemainApart
  <2>9. PICK q \in 1 .. n : MainAt(rows, q)
    BY <2>2, <2>3 DEF HasMain
  <2>10. IF q = p THEN \A i \in DOMAIN rest : ~rest[i].main ELSE HasMain(rest)
    BY <2>2, <2>3, <2>6, <2>9, OthersRemainApart
  <2>11. rows[p].main <=> q = p
    BY <2>2, <2>9 DEF MainAt
  <2>12. PICK promoted : promoted = IF rest = <<>> THEN rest
                           ELSE [rest EXCEPT ![1].main = TRUE, ![1].version = @ + 1]
    OBVIOUS
  <2>13. garage' = [garage EXCEPT !.rows = IF rows[p].main THEN promoted ELSE rest]
    BY <1>3, <2>1, <2>4, <2>5, <2>6, <2>7, <2>12 DEF MockBackend!RemoveVehicle
  <2>14. CASE ~rows[p].main
    <3>1. DOMAIN garage' = {"made", "rows"} /\ garage'.made = garage.made /\ garage'.rows = rest
      BY <1>1, <2>13, <2>14 DEF GoodGarage
    <3> QED BY <1>1, <2>7, <2>8, <2>10, <2>11, <2>14, <3>1 DEF GoodGarage
  <2>15. CASE rows[p].main
    <3>1. DOMAIN garage' = {"made", "rows"} /\ garage'.made = garage.made /\ garage'.rows = promoted
      BY <1>1, <2>13, <2>15 DEF GoodGarage
    <3>2. CASE rest = <<>>
      <4>1. promoted = rest /\ DOMAIN rest = {}
        BY <2>12, <3>2
      <4> QED BY <1>1, <2>7, <2>8, <3>1, <4>1 DEF GoodGarage, HasMain
    <3>3. CASE rest # <<>>
      <4>1. 1 \in 1 .. n - 1
        <5>1. Len(rest) \in Nat \ {0}
          BY <2>7, <3>3, EmptySeq
        <5>2. DOMAIN rest = 1 .. Len(rest)
          BY <2>7
        <5>3. 1 \in DOMAIN rest
          BY <5>1, <5>2
        <5> QED BY <2>7, <5>3
      <4>2. PICK first \in MockVehicle : first = rest[1]
        BY <2>7, <4>1
      <4>3. PICK second : second = [first EXCEPT !.main = TRUE]
        OBVIOUS
      <4>4. /\ second \in MockVehicle /\ second.id = first.id /\ second.plate = first.plate
            /\ second.main
        BY <4>3 DEF MockVehicle
      <4>5. PICK third : third = [second EXCEPT !.version = @ + 1]
        OBVIOUS
      <4>6. /\ third \in MockVehicle /\ third.id = first.id /\ third.plate = first.plate /\ third.main
        BY <4>4, <4>5 DEF MockVehicle
      <4>7. promoted = [rest EXCEPT ![1] = third]
        <5>1. promoted = [rest EXCEPT ![1].main = TRUE, ![1].version = @ + 1]
          BY <2>12, <3>3
        <5> QED BY <2>7, <4>1, <4>2, <4>3, <4>5, <5>1
      <4>8. /\ promoted \in Seq(MockVehicle) /\ DOMAIN promoted = 1 .. n - 1
            /\ promoted[1] = third
            /\ \A i \in 1 .. n - 1 : i # 1 => promoted[i] = rest[i]
        BY <2>7, <4>1, <4>6, <4>7
      <4>9. \A i \in 1 .. n - 1 : promoted[i].id = rest[i].id /\ promoted[i].plate = rest[i].plate
        BY <4>2, <4>6, <4>8
      <4>10. HaveIds(promoted, garage.made)
        BY <2>7, <2>8, <4>8, <4>9 DEF HaveIds
      <4>11. PlatesDiffer(promoted)
        BY <2>7, <2>8, <4>8, <4>9 DEF PlatesDiffer
      <4>12. MainAt(promoted, 1)
        BY <2>7, <2>10, <2>11, <2>15, <4>6, <4>8 DEF MainAt
      <4>13. HasMain(promoted)
        BY <4>1, <4>8, <4>12 DEF HasMain
      <4> QED BY <1>1, <3>1, <4>8, <4>10, <4>11, <4>13 DEF GoodGarage
    <3> QED BY <3>2, <3>3
  <2> QED BY <2>14, <2>15
<1> QED BY <1>2, <1>3
-----------------------------------------------------------------------------
(* Payment methods of the demonstration *)

\* The new one comes first; where it is the default, it is alone in that.
LEMMA MethodIsCreated ==
  ASSUME MockInv, NEW r \in DOMAIN requests, MockBackend!CreateMethod(r)
  PROVE  GoodMethods'
<1>1. GoodMethods /\ CallIsGood(r) /\ r.op = "method"
  BY DEF MockInv, CallsAreGood, MockBackend!CreateMethod, MockBackend!Serves
<1>2. PICK rows \in Seq(MockMethod) : rows = methods.rows
  BY <1>1 DEF GoodMethods
<1>3. PICK n \in Nat : n = Len(rows) /\ DOMAIN rows = 1 .. n
  OBVIOUS
<1>4. PICK main \in BOOLEAN : main = (r.main = "yes" \/ (r.main = "-" /\ methods.rows = <<>>))
  BY Zenon
<1>5. PICK new : new = [id |-> methods.made + 1, main |-> main]
  OBVIOUS
<1>6. new \in MockMethod /\ new.id = methods.made + 1 /\ new.main = main
  BY <1>1, <1>5 DEF MockMethod, GoodMethods
<1>7. PICK base : base = IF main THEN MockBackend!Map(rows, MockBackend!NotMain) ELSE rows
  OBVIOUS
<1>8. methods' = [made |-> methods.made + 1, rows |-> <<new>> \o base]
  BY <1>2, <1>4, <1>5, <1>7, Zenon DEF MockBackend!CreateMethod, MockBackend!Fresh
<1>9. /\ base \in Seq(MockMethod) /\ Len(base) = n
      /\ \A i \in 1 .. n : base[i].id = rows[i].id
      /\ main => \A i \in 1 .. n : ~base[i].main
      /\ ~main => base = rows
  BY <1>3, <1>7, NobodyIsMain
<1>10. PICK next : next = <<new>> \o base
  OBVIOUS
<1>11. /\ next \in Seq(MockMethod) /\ DOMAIN next = 1 .. n + 1
       /\ next[1] = new /\ \A i \in 2 .. n + 1 : next[i] = base[i - 1]
  BY <1>3, <1>6, <1>9, <1>10
<1>12. HaveIds(rows, methods.made) /\ OneMainAtMost(rows) /\ methods.made \in Nat
  BY <1>1, <1>2 DEF GoodMethods
<1>13. PICK Back : Back = [i \in 2 .. n + 1 |-> i - 1]
  OBVIOUS
<1>14. /\ \A i \in 2 .. n + 1 : Back[i] \in 1 .. n /\ next[i].id = rows[Back[i]].id
                                 /\ next[i] = base[Back[i]]
       /\ \A i, j \in 2 .. n + 1 : i # j => Back[i] # Back[j]
       /\ \A i \in 1 .. n + 1 : i = 1 \/ i \in 2 .. n + 1
  <2>1. \A i \in 2 .. n + 1 : Back[i] = i - 1
    BY <1>13
  <2>2. \A i \in 2 .. n + 1 : Back[i] \in 1 .. n
    BY <2>1
  <2>3. \A i \in 2 .. n + 1 : next[i] = base[Back[i]]
    BY <1>11, <2>1
  <2>4. \A i \in 2 .. n + 1 : next[i].id = rows[Back[i]].id
    BY <1>9, <2>2, <2>3
  <2>5. \A i, j \in 2 .. n + 1 : i # j => Back[i] # Back[j]
    BY <2>1
  <2>6. \A i \in 1 .. n + 1 : i = 1 \/ i \in 2 .. n + 1
    OBVIOUS
  <2> QED BY <2>2, <2>3, <2>4, <2>5, <2>6
<1>15. HaveIds(next, methods.made + 1)
  <2>1. \A i \in 2 .. n + 1 : next[i].id \in 1 .. methods.made
    BY <1>3, <1>12, <1>14 DEF HaveIds
  <2>2. \A i, j \in 2 .. n + 1 : i # j => next[i].id # next[j].id
    <3>1. \A k, l \in DOMAIN rows : k # l => rows[k].id # rows[l].id
      BY <1>12 DEF HaveIds
    <3>2. ASSUME NEW i \in 2 .. n + 1, NEW j \in 2 .. n + 1, i # j PROVE next[i].id # next[j].id
      <4>1. Back[i] \in DOMAIN rows /\ Back[j] \in DOMAIN rows /\ Back[i] # Back[j]
        BY <1>3, <1>14, <3>2
      <4>2. rows[Back[i]].id # rows[Back[j]].id
        BY <3>1, <4>1
      <4>3. next[i].id = rows[Back[i]].id /\ next[j].id = rows[Back[j]].id
        BY <1>14, <3>2
      <4> QED BY <4>2, <4>3
    <3> QED BY <3>2
  <2>3. next[1].id = methods.made + 1
    BY <1>6, <1>11
  <2>4. \A i \in 2 .. n + 1 : next[i].id # next[1].id /\ next[i].id \in 1 .. methods.made + 1
    BY <1>12, <2>1, <2>3
  <2>5. next[1].id \in 1 .. methods.made + 1
    BY <1>12, <2>3
  <2> QED BY <1>11, <1>14, <2>2, <2>4, <2>5 DEF HaveIds
<1>16. OneMainAtMost(next)
  <2>1. CASE main
    <3>1. \A i \in 2 .. n + 1 : ~next[i].main
      BY <1>9, <1>14, <2>1
    <3> QED BY <1>11, <1>14, <3>1 DEF OneMainAtMost
  <2>2. CASE ~main
    <3>1. ~next[1].main
      BY <1>6, <1>11, <2>2
    <3>2. \A i, j \in 2 .. n + 1 : next[i].main /\ next[j].main => i = j
      <4>1. \A i \in 2 .. n + 1 : next[i] = rows[Back[i]]
        BY <1>9, <1>14, <2>2
      <4> QED BY <1>3, <1>12, <1>14, <4>1 DEF OneMainAtMost
    <3> QED BY <1>11, <1>14, <3>1, <3>2 DEF OneMainAtMost
  <2> QED BY <2>1, <2>2
<1>17. DOMAIN methods' = {"made", "rows"} /\ methods'.made = methods.made + 1 /\ methods'.rows = next
  BY <1>8, <1>10
<1> QED BY <1>11, <1>12, <1>15, <1>16, <1>17 DEF GoodMethods

\* The row of the id becomes the default, and no other is.
LEMMA MethodIsChosen ==
  ASSUME MockInv, NEW r \in DOMAIN requests, MockBackend!SetDefaultMethod(r)
  PROVE  GoodMethods'
<1>1. GoodMethods
  BY DEF MockInv
<1>2. PICK rows \in Seq(MockMethod) : rows = methods.rows
  BY <1>1 DEF GoodMethods
<1>3. PICK n \in Nat : n = Len(rows) /\ DOMAIN rows = 1 .. n
  OBVIOUS
<1>4. HaveIds(rows, methods.made) /\ methods.made \in Nat
  BY <1>1, <1>2 DEF GoodMethods
<1>5. PICK next : next = [i \in 1 .. n |-> [rows[i] EXCEPT !.main = rows[i].id = r.id]]
  OBVIOUS
<1>6. methods' = [methods EXCEPT !.rows = next]
  BY <1>2, <1>3, <1>5 DEF MockBackend!SetDefaultMethod, MockBackend!Map
<1>7. ASSUME NEW one \in MockMethod
      PROVE  /\ [one EXCEPT !.main = one.id = r.id] \in MockMethod
             /\ [one EXCEPT !.main = one.id = r.id].id = one.id
             /\ [one EXCEPT !.main = one.id = r.id].main => one.id = r.id
  <2>1. PICK chosen \in BOOLEAN : chosen = (one.id = r.id)
    BY Zenon
  <2>2. PICK two : two = [one EXCEPT !.main = chosen]
    OBVIOUS
  <2>3. two \in MockMethod /\ two.id = one.id /\ two.main = chosen
    BY <2>2 DEF MockMethod
  <2> QED BY <2>1, <2>2, <2>3, Zenon
<1>8. \A i \in 1 .. n : /\ next[i] \in MockMethod /\ next[i].id = rows[i].id
                        /\ next[i].main => rows[i].id = r.id
  <2>1. ASSUME NEW i \in 1 .. n
        PROVE  next[i] \in MockMethod /\ next[i].id = rows[i].id /\ (next[i].main => rows[i].id = r.id)
    <3>1. PICK one \in MockMethod : one = rows[i]
      BY <1>3
    <3>2. next[i] = [one EXCEPT !.main = one.id = r.id]
      BY <1>5, <3>1
    <3> QED BY <1>7, <3>1, <3>2
  <2> QED BY <2>1
<1>9. next \in Seq(MockMethod) /\ DOMAIN next = 1 .. n
  <2>1. next = [i \in 1 .. n |-> next[i]] /\ \A i \in 1 .. n : next[i] \in MockMethod
    BY <1>5, <1>8
  <2> QED BY <2>1, RowsAreSeq
<1>10. HaveIds(next, methods.made) /\ OneMainAtMost(next)
  BY <1>3, <1>4, <1>8, <1>9 DEF HaveIds, OneMainAtMost
<1>11. DOMAIN methods' = {"made", "rows"} /\ methods'.made = methods.made /\ methods'.rows = next
  BY <1>1, <1>6 DEF GoodMethods
<1> QED BY <1>4, <1>9, <1>10, <1>11 DEF GoodMethods

LEMMA MethodIsRemoved ==
  ASSUME MockInv, NEW r \in DOMAIN requests, MockBackend!RemoveMethod(r)
  PROVE  GoodMethods'
<1>1. GoodMethods
  BY DEF MockInv
<1>2. PICK rows \in Seq(MockMethod) : rows = methods.rows
  BY <1>1 DEF GoodMethods
<1>3. HaveIds(rows, methods.made) /\ OneMainAtMost(rows) /\ methods.made \in Nat
  BY <1>1, <1>2 DEF GoodMethods
<1>4. PICK next : next = MockBackend!Without(rows, r.id)
  OBVIOUS
<1>5. methods' = [methods EXCEPT !.rows = next]
  BY <1>2, <1>4 DEF MockBackend!RemoveMethod
<1>6. next \in Seq(MockMethod) /\ HaveIds(next, methods.made) /\ OneMainAtMost(next)
  <2>1. CASE r.id \notin MockBackend!Ids(rows)
    BY <1>3, <1>4, <2>1 DEF MockBackend!Without
  <2>2. CASE r.id \in MockBackend!Ids(rows)
    <3>1. PICK p \in DOMAIN rows : rows[p].id = r.id
      BY <2>2 DEF MockBackend!Ids
    <3>2. MockBackend!Without(rows, rows[p].id) \in Seq(MockMethod)
      BY <1>3, WithoutRow
    <3>3. /\ HaveIds(MockBackend!Without(rows, rows[p].id), methods.made)
          /\ OneMainAtMost(MockBackend!Without(rows, rows[p].id))
      BY <1>3, OthersRemainApart
    <3> QED BY <1>4, <3>1, <3>2, <3>3
  <2> QED BY <2>1, <2>2
<1>7. DOMAIN methods' = {"made", "rows"} /\ methods'.made = methods.made /\ methods'.rows = next
  BY <1>1, <1>5 DEF GoodMethods
<1> QED BY <1>3, <1>6, <1>7 DEF GoodMethods
-----------------------------------------------------------------------------
(* Top-ups of the demonstration *)

LEMMA MockCardinality == \A S : MockBackend!Cardinality(S) = Cardinality(S)
BY DEF MockBackend!Cardinality, Cardinality

LEMMA UnitsOfPayments ==
  /\ \A u : u \in MockBackend!Units <=>
       \E c \in MockBackend!Captured, a \in MockBackend!Amounts : u = <<c, a>> /\ a <= intents[c].amount
  /\ \A c, a : <<c, a>> \in MockBackend!Units <=>
       c \in MockBackend!Captured /\ a \in MockBackend!Amounts /\ a <= intents[c].amount
BY DEF MockBackend!Units

\* A captured payment stays what it is, and no other becomes one.
LEMMA PaymentsKept ==
  ASSUME MockInv, UNCHANGED purse, MockBackend!Captured' = MockBackend!Captured,
         \A c \in MockBackend!Captured : intents'[c].amount = intents[c].amount
  PROVE  GoodPurse'
<1>1. MockBackend!Units' = MockBackend!Units
  BY DEF MockBackend!Units
<1> QED BY <1>1 DEF MockInv, GoodPurse

LEMMA TopUpIsCreated ==
  ASSUME MockInv, NEW r \in DOMAIN requests, MockBackend!CreateTopUp(r)
  PROVE  GoodIntents' /\ GoodPurse' /\ DOMAIN intents \subseteq DOMAIN intents'
<1>1. GoodIntents /\ CallIsGood(r) /\ r.op = "top-up" /\ UNCHANGED purse
  BY DEF MockInv, CallsAreGood, MockBackend!CreateTopUp, MockBackend!Serves
<1>2. CASE UNCHANGED intents
  BY <1>1, <1>2 DEF GoodIntents, GoodPurse, MockInv, MockBackend!Units, MockBackend!Captured
<1>3. CASE ~UNCHANGED intents
  <2>1. PICK status : status = IF r.declined THEN "FAILED" ELSE "PENDING"
    OBVIOUS
  <2>2. PICK new : new = [key |-> r.key, amount |-> r.amount, polls |-> 0, credited |-> FALSE,
                          status |-> status]
    OBVIOUS
  <2>3. new \in MockIntent /\ ~new.credited /\ new.status # "CAPTURED"
    BY <1>1, <2>1, <2>2 DEF MockIntent, CallIsGood
  <2>4. intents' = Append(intents, new)
    BY <1>3, <2>1, <2>2, Zenon DEF MockBackend!CreateTopUp
  <2>5. PICK n \in Nat : n = Len(intents) /\ DOMAIN intents = 1 .. n
    BY <1>1 DEF GoodIntents
  <2>6. /\ intents' \in Seq(MockIntent) /\ DOMAIN intents' = 1 .. n + 1
        /\ intents'[n + 1] = new /\ \A i \in 1 .. n : intents'[i] = intents[i]
    BY <1>1, <2>3, <2>4, <2>5 DEF GoodIntents
  <2>7. \A i \in 1 .. n + 1 : i = n + 1 \/ i \in 1 .. n
    OBVIOUS
  <2>8. GoodIntents'
    <3>1. \A i \in DOMAIN intents' : intents'[i].credited <=> intents'[i].status = "CAPTURED"
      BY <1>1, <2>3, <2>5, <2>6, <2>7 DEF GoodIntents
    <3> QED BY <2>6, <3>1 DEF GoodIntents
  <2>9. MockBackend!Captured' = MockBackend!Captured
    <3>1. \A i : i \in MockBackend!Captured' <=> i \in MockBackend!Captured
      BY <2>3, <2>5, <2>6, <2>7 DEF MockBackend!Captured
    <3> QED BY <3>1
  <2>10. \A c \in MockBackend!Captured : intents'[c].amount = intents[c].amount
    BY <2>5, <2>6 DEF MockBackend!Captured
  <2> QED BY <1>1, <2>5, <2>6, <2>8, <2>9, <2>10, PaymentsKept
<1> QED BY <1>2, <1>3

\* A payment that is not captured is written, and is not captured after.
LEMMA PaymentIsTouched ==
  ASSUME MockInv, NEW i \in DOMAIN intents, NEW next \in MockIntent, intents' = [intents EXCEPT ![i] = next],
         next.amount = intents[i].amount, next.credited <=> intents[i].credited,
         next.status = "CAPTURED" <=> intents[i].status = "CAPTURED", UNCHANGED purse
  PROVE  GoodIntents' /\ GoodPurse' /\ DOMAIN intents' = DOMAIN intents
<1>1. GoodIntents
  BY DEF MockInv
<1>2. /\ intents' \in Seq(MockIntent) /\ DOMAIN intents' = DOMAIN intents
      /\ intents'[i] = next /\ \A j \in DOMAIN intents : j # i => intents'[j] = intents[j]
  BY <1>1 DEF GoodIntents
<1>3. GoodIntents'
  <2>1. \A j \in DOMAIN intents' : intents'[j].credited <=> intents'[j].status = "CAPTURED"
    BY <1>1, <1>2 DEF GoodIntents
  <2> QED BY <1>2, <2>1 DEF GoodIntents
<1>4. \A j \in DOMAIN intents : /\ intents'[j].status = "CAPTURED" <=> intents[j].status = "CAPTURED"
                                /\ intents'[j].amount = intents[j].amount
  BY <1>2
<1>5. MockBackend!Captured' = MockBackend!Captured
  BY <1>2, <1>4 DEF MockBackend!Captured
<1>6. \A c \in MockBackend!Captured : intents'[c].amount = intents[c].amount
  BY <1>4 DEF MockBackend!Captured
<1> QED BY <1>2, <1>3, <1>5, <1>6, PaymentsKept

LEMMA PaymentIsCancelled ==
  ASSUME MockInv, NEW r \in DOMAIN requests, MockBackend!CancelPayment(r)
  PROVE  GoodIntents' /\ GoodPurse' /\ DOMAIN intents \subseteq DOMAIN intents'
<1>1. GoodIntents /\ CallIsGood(r) /\ r.op = "cancel" /\ UNCHANGED purse
  BY DEF MockInv, CallsAreGood, MockBackend!CancelPayment, MockBackend!Serves
<1>2. CASE UNCHANGED intents
  BY <1>1, <1>2 DEF GoodIntents, GoodPurse, MockInv, MockBackend!Units, MockBackend!Captured
<1>3. CASE ~UNCHANGED intents
  <2>1. PICK i \in DOMAIN intents : i = r.id
    BY <1>1 DEF CallIsGood
  <2>2. PICK one \in MockIntent : one = intents[i]
    BY <1>1 DEF GoodIntents
  <2>3. intents[i].status = "PENDING" /\ intents' = [intents EXCEPT ![i].status = "CANCELLED"]
    BY <1>3, <2>1 DEF MockBackend!CancelPayment
  <2>4. PICK next : next = [one EXCEPT !.status = "CANCELLED"]
    OBVIOUS
  <2>5. /\ next \in MockIntent /\ next.amount = one.amount /\ next.credited = one.credited
        /\ next.status = "CANCELLED"
    BY <2>4 DEF MockIntent
  <2>6. intents' = [intents EXCEPT ![i] = next]
    BY <2>2, <2>3, <2>4
  <2>7. /\ next.amount = intents[i].amount /\ (next.credited <=> intents[i].credited)
        /\ (next.status = "CAPTURED" <=> intents[i].status = "CAPTURED")
    BY <2>2, <2>3, <2>5
  <2> QED BY <1>1, <2>5, <2>6, <2>7, PaymentIsTouched
<1> QED BY <1>2, <1>3
-----------------------------------------------------------------------------
LEMMA PollIsCounted ==
  ASSUME NEW n \in Nat
  PROVE  MockBackend!Min({n, 2}) \in Nat
<1>1. \E x \in {n, 2} : \A y \in {n, 2} : x <= y
  OBVIOUS
<1>2. MockBackend!Min({n, 2}) \in {n, 2}
  BY <1>1 DEF MockBackend!Min
<1> QED BY <1>2

\* The second poll books what the payment is worth; any other only counts.
LEMMA TopUpIsPolled ==
  ASSUME MockInv, NEW r \in DOMAIN requests, MockBackend!GetTopUp(r)
  PROVE  GoodIntents' /\ GoodPurse' /\ DOMAIN intents \subseteq DOMAIN intents'
<1>1. GoodIntents /\ GoodPurse /\ CallIsGood(r) /\ r.op = "poll"
  BY DEF MockInv, CallsAreGood, MockBackend!GetTopUp, MockBackend!Serves
<1>2. PICK i \in DOMAIN intents : i = r.id
  BY <1>1 DEF CallIsGood
<1>3. PICK one \in MockIntent : one = intents[i]
  BY <1>1, <1>2 DEF GoodIntents
<1>4. CASE ~(intents[i].status = "PENDING" /\ intents[i].polls >= 1)
  <2>1. PICK polls \in Nat : polls = MockBackend!Min({one.polls + 1, 2})
    <3>1. one.polls + 1 \in Nat
      BY <1>3 DEF MockIntent
    <3> QED BY <3>1, PollIsCounted
  <2>2. intents' = [intents EXCEPT ![i].polls = polls] /\ UNCHANGED purse
    BY <1>2, <1>3, <1>4, <2>1 DEF MockBackend!GetTopUp
  <2>3. PICK next : next = [one EXCEPT !.polls = polls]
    OBVIOUS
  <2>4. /\ next \in MockIntent /\ next.amount = one.amount /\ next.credited = one.credited
        /\ next.status = one.status
    BY <2>1, <2>3 DEF MockIntent
  <2>5. intents' = [intents EXCEPT ![i] = next]
    BY <1>3, <2>2, <2>3
  <2>6. /\ next.amount = intents[i].amount /\ (next.credited <=> intents[i].credited)
        /\ (next.status = "CAPTURED" <=> intents[i].status = "CAPTURED")
    BY <1>3, <2>4
  <2>7. GoodIntents' /\ GoodPurse' /\ DOMAIN intents' = DOMAIN intents
    BY <2>2, <2>4, <2>5, <2>6, PaymentIsTouched
  <2> QED BY <2>7
<1>5. CASE intents[i].status = "PENDING" /\ intents[i].polls >= 1
  <2>1. /\ intents' = [intents EXCEPT ![i].polls = 2, ![i].status = "CAPTURED", ![i].credited = TRUE]
        /\ IF intents[i].credited THEN UNCHANGED purse
           ELSE purse' = [available |-> purse.available + intents[i].amount,
                          rows |-> <<i>> \o purse.rows]
    BY <1>2, <1>5 DEF MockBackend!GetTopUp
  <2>2. ~intents[i].credited
    BY <1>1, <1>2, <1>5 DEF GoodIntents
  <2>3. PICK first : first = [one EXCEPT !.polls = 2]
    OBVIOUS
  <2>4. first \in MockIntent /\ first.amount = one.amount
    BY <2>3 DEF MockIntent
  <2>5. PICK second : second = [first EXCEPT !.status = "CAPTURED"]
    OBVIOUS
  <2>6. second \in MockIntent /\ second.amount = one.amount /\ second.status = "CAPTURED"
    BY <2>4, <2>5 DEF MockIntent
  <2>7. PICK next : next = [second EXCEPT !.credited = TRUE]
    OBVIOUS
  <2>8. /\ next \in MockIntent /\ next.amount = one.amount /\ next.status = "CAPTURED"
        /\ next.credited
    BY <2>6, <2>7 DEF MockIntent
  <2>9. intents' = [intents EXCEPT ![i] = next]
    BY <1>1, <1>2, <1>3, <2>1, <2>3, <2>5, <2>7 DEF GoodIntents
  <2>10. /\ intents' \in Seq(MockIntent) /\ DOMAIN intents' = DOMAIN intents
         /\ intents'[i] = next /\ \A j \in DOMAIN intents : j # i => intents'[j] = intents[j]
    BY <1>1, <1>2, <2>8, <2>9 DEF GoodIntents
  <2>11. GoodIntents'
    <3>1. \A j \in DOMAIN intents' : intents'[j].credited <=> intents'[j].status = "CAPTURED"
      BY <1>1, <2>8, <2>10 DEF GoodIntents
    <3> QED BY <2>10, <3>1 DEF GoodIntents
  <2>12. i \notin MockBackend!Captured
    BY <1>5 DEF MockBackend!Captured
  <2>13. MockBackend!Captured' = MockBackend!Captured \cup {i}
    <3>1. \A j : j \in MockBackend!Captured' <=> j \in MockBackend!Captured \/ j = i
      BY <1>2, <2>8, <2>10 DEF MockBackend!Captured
    <3> QED BY <3>1
  <2>14. PICK amount \in {1, 2} : amount = one.amount
    BY <1>3 DEF MockIntent, MockBackend!Amounts
  <2>15. MockBackend!Units' =
           IF amount = 1 THEN MockBackend!Units \cup {<<i, 1>>}
           ELSE (MockBackend!Units \cup {<<i, 1>>}) \cup {<<i, 2>>}
    <3>1. \A u : u \in MockBackend!Units' <=>
            \E c \in MockBackend!Captured', a \in {1, 2} : u = <<c, a>> /\ a <= intents'[c].amount
      BY DEF MockBackend!Units, MockBackend!Amounts
    <3>2. \A c \in MockBackend!Captured : intents'[c].amount = intents[c].amount
      BY <2>10, <2>12 DEF MockBackend!Captured
    <3>3. intents'[i].amount = amount
      BY <2>8, <2>10, <2>14
    <3>4. \A u : u \in MockBackend!Units' <=>
            \/ u \in MockBackend!Units
            \/ \E a \in {1, 2} : u = <<i, a>> /\ a <= amount
      BY <2>13, <3>1, <3>2, <3>3, UnitsOfPayments DEF MockBackend!Amounts
    <3>5. CASE amount = 1
      BY <3>4, <3>5
    <3>6. CASE amount = 2
      BY <3>4, <3>6
    <3> QED BY <2>14, <3>5, <3>6
  <2>16. /\ <<i, 1>> \notin MockBackend!Units
         /\ <<i, 2>> \notin MockBackend!Units \cup {<<i, 1>>}
    BY <2>12, UnitsOfPayments
  <2>17. PICK units : units = MockBackend!Units
    OBVIOUS
  <2>18. /\ IsFiniteSet(MockBackend!Units')
         /\ Cardinality(MockBackend!Units') = purse.available + amount
    <3>1. IsFiniteSet(units) /\ purse.available = Cardinality(units)
      BY <1>1, <2>17 DEF GoodPurse
    <3>2. /\ IsFiniteSet(units \cup {<<i, 1>>})
          /\ Cardinality(units \cup {<<i, 1>>}) = Cardinality(units) + 1
      BY <2>16, <2>17, <3>1, FS_AddElement
    <3>3. /\ IsFiniteSet((units \cup {<<i, 1>>}) \cup {<<i, 2>>})
          /\ Cardinality((units \cup {<<i, 1>>}) \cup {<<i, 2>>}) = Cardinality(units \cup {<<i, 1>>}) + 1
      BY <2>16, <2>17, <3>2, FS_AddElement
    <3>4. Cardinality(units) \in Nat
      BY <3>1, FS_CardinalityType
    <3> QED BY <2>14, <2>15, <2>17, <3>1, <3>2, <3>3, <3>4
  <2>19. /\ DOMAIN purse' = {"available", "rows"}
         /\ purse'.available = purse.available + amount
         /\ purse'.rows = <<i>> \o purse.rows
    BY <1>3, <2>1, <2>2, <2>14
  <2>20. PICK listed \in Seq(Nat) : listed = purse.rows
    BY <1>1 DEF GoodPurse
  <2>21. PICK n \in Nat : n = Len(listed) /\ DOMAIN listed = 1 .. n
    OBVIOUS
  <2>22. PICK extended : extended = <<i>> \o listed
    OBVIOUS
  <2>23. i \in Nat
    BY <1>1, <1>2 DEF GoodIntents
  <2>24. /\ extended \in Seq(Nat) /\ DOMAIN extended = 1 .. n + 1 /\ extended[1] = i
         /\ \A k \in 2 .. n + 1 : extended[k] = listed[k - 1]
    BY <2>21, <2>22, <2>23
  <2>25. /\ \A k, l \in DOMAIN listed : listed[k] = listed[l] => k = l
         /\ {listed[k] : k \in DOMAIN listed} = MockBackend!Captured
    BY <1>1, <2>20 DEF GoodPurse, MockBackend!IsInjective, MockBackend!Range
  <2>26. \A k \in 1 .. n + 1 : k = 1 \/ (k - 1 \in 1 .. n /\ k \in 2 .. n + 1)
    OBVIOUS
  <2>27. \A k \in 2 .. n + 1 : \E j \in 1 .. n : extended[k] = listed[j]
    <3>1. ASSUME NEW k \in 2 .. n + 1 PROVE \E j \in 1 .. n : extended[k] = listed[j]
      <4>1. PICK j \in 1 .. n : j = k - 1
        OBVIOUS
      <4> QED BY <2>24, <4>1
    <3> QED BY <3>1
  <2>28. \A j \in 1 .. n : j + 1 \in 2 .. n + 1 /\ extended[j + 1] = listed[j]
    <3>1. ASSUME NEW j \in 1 .. n PROVE j + 1 \in 2 .. n + 1 /\ extended[j + 1] = listed[j]
      <4>1. PICK k \in 2 .. n + 1 : k = j + 1
        OBVIOUS
      <4>2. extended[k] = listed[k - 1] /\ k - 1 = j
        BY <2>24, <4>1
      <4> QED BY <4>1, <4>2
    <3> QED BY <3>1
  <2>29. \A k \in 1 .. n : listed[k] # i
    BY <2>12, <2>21, <2>25
  <2>30. \A k, l \in DOMAIN extended : extended[k] = extended[l] => k = l
    <3>1. ASSUME NEW k \in 2 .. n + 1, NEW l \in 2 .. n + 1, extended[k] = extended[l] PROVE k = l
      <4>1. k - 1 \in 1 .. n /\ l - 1 \in 1 .. n /\ listed[k - 1] = listed[l - 1]
        BY <2>24, <3>1
      <4>2. k - 1 = l - 1
        BY <2>21, <2>25, <4>1
      <4> QED BY <4>2
    <3>2. \A k \in 2 .. n + 1 : extended[k] # extended[1]
      BY <2>24, <2>27, <2>29
    <3> QED BY <2>24, <2>26, <3>1, <3>2
  <2>31. {extended[k] : k \in DOMAIN extended} = MockBackend!Captured \cup {i}
    <3>1. \A k \in DOMAIN extended : extended[k] \in MockBackend!Captured \cup {i}
      <4>1. \A k \in 2 .. n + 1 : extended[k] \in MockBackend!Captured
        <5>1. \A j \in 1 .. n : listed[j] \in MockBackend!Captured
          BY <2>21, <2>25
        <5> QED BY <2>27, <5>1
      <4> QED BY <2>24, <2>26, <4>1
    <3>2. i \in {extended[k] : k \in DOMAIN extended}
      <4>1. 1 \in DOMAIN extended /\ extended[1] = i
        BY <2>24
      <4> QED BY <4>1
    <3>3. ASSUME NEW c \in MockBackend!Captured PROVE c \in {extended[k] : k \in DOMAIN extended}
      <4>1. PICK k \in 1 .. n : listed[k] = c
        BY <2>21, <2>25
      <4>2. k + 1 \in 2 .. n + 1 /\ extended[k + 1] = c
        BY <2>28, <4>1
      <4>3. k + 1 \in DOMAIN extended
        BY <2>24, <4>2
      <4> QED BY <4>2, <4>3
    <3> QED BY <3>1, <3>2, <3>3
  <2>32. MockBackend!IsInjective(extended) /\ MockBackend!Range(extended) = MockBackend!Captured'
    BY <2>13, <2>30, <2>31 DEF MockBackend!IsInjective, MockBackend!Range
  <2>33. purse'.rows = extended
    BY <2>19, <2>20, <2>22
  <2>34. GoodPurse'
    BY <2>18, <2>19, <2>24, <2>32, <2>33 DEF GoodPurse
  <2> QED BY <2>10, <2>11, <2>34
<1> QED BY <1>4, <1>5
-----------------------------------------------------------------------------
(* Sessions of the demonstration *)

\* Sessions are numbered as they start.
LEMMA SessionIsStarted ==
  ASSUME MockInv, NEW r \in DOMAIN requests, MockBackend!StartCharging(r)
  PROVE  GoodCharging'
<1>1. GoodCharging /\ CallIsGood(r) /\ r.op = "start"
  BY DEF MockInv, CallsAreGood, MockBackend!StartCharging, MockBackend!Serves
<1>2. CASE UNCHANGED charging
  BY <1>1, <1>2 DEF GoodCharging, MockBackend!Started, MockBackend!Stopped
<1>3. CASE ~UNCHANGED charging
  <2>1. PICK k \in MockBackend!Keys : k = r.key
    BY <1>1 DEF CallIsGood
  <2>2. PICK s : s = Cardinality(MockBackend!Started) + 1
    OBVIOUS
  <2>3. /\ charging.started[k] = MockBackend!None /\ charging.active = MockBackend!None
        /\ charging' = [charging EXCEPT !.active = s, !.started[k] = s]
    BY <1>3, <2>1, <2>2, MockCardinality DEF MockBackend!StartCharging, MockBackend!Fresh
  <2>4. PICK first : first = [charging EXCEPT !.active = s]
    OBVIOUS
  <2>5. DOMAIN first = {"active", "started", "stopped"} /\ first.active = s
        /\ first.started = charging.started /\ first.stopped = charging.stopped
    BY <1>1, <2>4 DEF GoodCharging
  <2>6. PICK started : started = [charging.started EXCEPT ![k] = s]
    OBVIOUS
  <2>7. PICK second : second = [first EXCEPT !.started = started]
    OBVIOUS
  <2>8. DOMAIN second = {"active", "started", "stopped"} /\ second.active = s
        /\ second.started = started /\ second.stopped = charging.stopped
    BY <2>5, <2>7
  <2>9. charging' = second
    BY <2>3, <2>4, <2>5, <2>6, <2>7
  <2>10. PICK old : old = MockBackend!Started
    OBVIOUS
  <2>11. IsFiniteSet(old) /\ old \subseteq 1 .. Cardinality(old) /\ Cardinality(old) \in Nat
    BY <1>1, <2>10, FS_CardinalityType DEF GoodCharging
  <2>12. s \in Nat /\ s # MockBackend!None /\ s \notin old /\ s = Cardinality(old) + 1
    BY <2>2, <2>10, <2>11 DEF MockBackend!None
  <2>13. /\ started \in [MockBackend!Keys -> Nat] /\ started[k] = s
         /\ \A l \in MockBackend!Keys : l # k => started[l] = charging.started[l]
    BY <1>1, <2>6, <2>12 DEF GoodCharging
  <2>14. MockBackend!Started' = old \cup {s}
    <3>1. MockBackend!Started' = {started[l] : l \in MockBackend!Keys} \ {MockBackend!None}
      BY <2>8, <2>9 DEF MockBackend!Started
    <3>2. old = {charging.started[l] : l \in MockBackend!Keys} \ {MockBackend!None}
      BY <2>10 DEF MockBackend!Started
    <3>3. \A x : x \in old \cup {s} <=> x \in {started[l] : l \in MockBackend!Keys} \ {MockBackend!None}
      BY <2>3, <2>12, <2>13, <3>2
    <3> QED BY <3>1, <3>3
  <2>15. /\ IsFiniteSet(old \cup {s}) /\ Cardinality(old \cup {s}) = s
    BY <2>11, <2>12, FS_AddElement
  <2>16. old \cup {s} \subseteq 1 .. s
    BY <2>11, <2>12
  <2>17. MockBackend!Stopped' = MockBackend!Stopped
    BY <2>8, <2>9 DEF MockBackend!Stopped
  <2>18. MockBackend!Stopped \subseteq old
    BY <1>1, <2>10 DEF GoodCharging
  <2>19. \A l \in MockBackend!Keys : l # k => started[l] # s
    <3>1. \A l \in MockBackend!Keys : charging.started[l] # s
      BY <2>10, <2>12 DEF MockBackend!Started
    <3> QED BY <2>13, <3>1
  <2>20. \A x, y \in MockBackend!Keys : x # y =>
           /\ started[x] = started[y] => started[x] = MockBackend!None
           /\ charging.stopped[x] = charging.stopped[y] => charging.stopped[x] = MockBackend!None
    BY <1>1, <2>13, <2>19 DEF GoodCharging
  <2>21. DOMAIN charging' = {"active", "started", "stopped"} /\ charging'.active = s
         /\ charging'.started = started /\ charging'.stopped = charging.stopped
    BY <2>8, <2>9
  <2>22. /\ IsFiniteSet(MockBackend!Started')
         /\ MockBackend!Started' \subseteq 1 .. Cardinality(MockBackend!Started')
    BY <2>14, <2>15, <2>16
  <2>23. /\ MockBackend!Stopped' \subseteq MockBackend!Started'
         /\ s \in MockBackend!Started' /\ s \notin MockBackend!Stopped'
    BY <2>12, <2>14, <2>17, <2>18
  <2>24. charging.stopped \in [MockBackend!Keys -> Nat]
    BY <1>1 DEF GoodCharging
  <2> QED BY <2>13, <2>20, <2>21, <2>22, <2>23, <2>24 DEF GoodCharging
<1> QED BY <1>2, <1>3

\* Only the active session is stopped, and it has not been stopped before.
LEMMA SessionIsStopped ==
  ASSUME MockInv, NEW r \in DOMAIN requests, MockBackend!StopCharging(r)
  PROVE  GoodCharging'
<1>1. GoodCharging /\ CallIsGood(r) /\ r.op = "stop"
  BY DEF MockInv, CallsAreGood, MockBackend!StopCharging, MockBackend!Serves
<1>2. CASE UNCHANGED charging
  BY <1>1, <1>2 DEF GoodCharging, MockBackend!Started, MockBackend!Stopped
<1>3. CASE ~UNCHANGED charging
  <2>1. PICK k \in MockBackend!Keys : k = r.key
    BY <1>1 DEF CallIsGood
  <2>2. PICK s : s = charging.active
    OBVIOUS
  <2>3. /\ charging.stopped[k] = MockBackend!None /\ s = r.id /\ s # MockBackend!None
        /\ charging' = [charging EXCEPT !.active = MockBackend!None, !.stopped[k] = s]
    BY <1>1, <1>3, <2>1, <2>2 DEF MockBackend!StopCharging, CallIsGood
  <2>4. PICK first : first = [charging EXCEPT !.active = MockBackend!None]
    OBVIOUS
  <2>5. /\ DOMAIN first = {"active", "started", "stopped"} /\ first.active = MockBackend!None
        /\ first.started = charging.started /\ first.stopped = charging.stopped
    BY <1>1, <2>4 DEF GoodCharging
  <2>6. PICK stopped : stopped = [charging.stopped EXCEPT ![k] = s]
    OBVIOUS
  <2>7. PICK second : second = [first EXCEPT !.stopped = stopped]
    OBVIOUS
  <2>8. /\ DOMAIN second = {"active", "started", "stopped"} /\ second.active = MockBackend!None
        /\ second.started = charging.started /\ second.stopped = stopped
    BY <2>5, <2>7
  <2>9. charging' = second
    BY <2>3, <2>4, <2>5, <2>6, <2>7
  <2>10. s \in MockBackend!Started /\ s \notin MockBackend!Stopped /\ s \in Nat
    BY <1>1, <2>2, <2>3 DEF GoodCharging
  <2>11. /\ stopped \in [MockBackend!Keys -> Nat] /\ stopped[k] = s
         /\ \A l \in MockBackend!Keys : l # k => stopped[l] = charging.stopped[l]
    BY <1>1, <2>6, <2>10 DEF GoodCharging
  <2>12. MockBackend!Started' = MockBackend!Started
    BY <2>8, <2>9 DEF MockBackend!Started
  <2>13. MockBackend!Stopped' = {stopped[l] : l \in MockBackend!Keys} \ {MockBackend!None}
    BY <2>8, <2>9 DEF MockBackend!Stopped
  <2>14. MockBackend!Stopped' \subseteq MockBackend!Started
    <3>1. \A l \in MockBackend!Keys : stopped[l] = s \/ stopped[l] = charging.stopped[l]
      BY <2>11
    <3>2. \A l \in MockBackend!Keys : charging.stopped[l] \in MockBackend!Stopped \cup {MockBackend!None}
      BY DEF MockBackend!Stopped
    <3> QED BY <1>1, <2>10, <2>13, <3>1, <3>2 DEF GoodCharging
  <2>15. \A l \in MockBackend!Keys : charging.stopped[l] # s
    BY <2>3, <2>10 DEF MockBackend!Stopped
  <2>16. \A x, y \in MockBackend!Keys : x # y =>
           /\ charging.started[x] = charging.started[y] => charging.started[x] = MockBackend!None
           /\ stopped[x] = stopped[y] => stopped[x] = MockBackend!None
    BY <1>1, <2>11, <2>15 DEF GoodCharging
  <2>17. MockBackend!None \notin MockBackend!Stopped'
    BY <2>13
  <2> QED BY <1>1, <2>8, <2>9, <2>11, <2>12, <2>14, <2>16, <2>17 DEF GoodCharging
<1> QED BY <1>2, <1>3
-----------------------------------------------------------------------------
(* Calls *)

\* What the screens ask for.
LEMMA CallsAreSent ==
  ASSUME MockInv,
         MockBackend!SendAccount \/ MockBackend!SendGarage \/ MockBackend!SendWallet \/ MockBackend!SendCharge
  PROVE  CallsAreGood' /\ UNCHANGED <<MockBackend!account, MockBackend!money, charging>>
<1>1. ASSUME NEW r, MockBackend!Send(r), CallIsGood(r)
      PROVE  CallsAreGood' /\ UNCHANGED <<MockBackend!account, MockBackend!money, charging>>
  <2>1. DOMAIN requests' = DOMAIN requests \cup {r}
    BY <1>1, CallIsAdded
  <2>2. UNCHANGED <<MockBackend!account, MockBackend!money, charging>>
    BY <1>1 DEF MockBackend!Send
  <2>3. DOMAIN intents \subseteq DOMAIN intents'
    BY <2>2 DEF MockBackend!money
  <2>4. \A x \in {r} : CallIsGood(x)
    BY <1>1
  <2>5. DOMAIN requests' \subseteq DOMAIN requests \cup {r}
    BY <2>1
  <2>6. PICK S : S = {r}
    OBVIOUS
  <2>7. (\A x \in S : CallIsGood(x)) /\ DOMAIN requests' \subseteq DOMAIN requests \cup S
    BY <2>4, <2>5, <2>6
  <2> QED BY <2>2, <2>3, <2>7, CallsStayGood
<1>2. CASE MockBackend!SendAccount
  <2>1. ASSUME NEW email \in MockBackend!Plates,
               MockBackend!Send([op |-> "register", email |-> email])
        PROVE  CallsAreGood' /\ UNCHANGED <<MockBackend!account, MockBackend!money, charging>>
    BY <2>1, <1>1 DEF CallIsGood
  <2>2. ASSUME NEW email \in MockBackend!Plates,
               MockBackend!Send([op |-> "profile", email |-> email, version |-> identity.version])
        PROVE  CallsAreGood' /\ UNCHANGED <<MockBackend!account, MockBackend!money, charging>>
    BY <2>2, <1>1 DEF CallIsGood
  <2>3. ASSUME MockBackend!Send([op |-> "deletion", version |-> identity.version])
        PROVE  CallsAreGood' /\ UNCHANGED <<MockBackend!account, MockBackend!money, charging>>
    BY <2>3, <1>1 DEF CallIsGood
  <2>4. ASSUME NEW enabled \in BOOLEAN, NEW consent \in BOOLEAN,
               MockBackend!Send([op |-> "rule", enabled |-> enabled, consent |-> consent])
        PROVE  CallsAreGood' /\ UNCHANGED <<MockBackend!account, MockBackend!money, charging>>
    BY <2>4, <1>1 DEF CallIsGood
  <2>5. ASSUME MockBackend!Send([op |-> "no rule"])
        PROVE  CallsAreGood' /\ UNCHANGED <<MockBackend!account, MockBackend!money, charging>>
    BY <2>5, <1>1 DEF CallIsGood
  <2> QED BY <1>2, <2>1, <2>2, <2>3, <2>4, <2>5 DEF MockBackend!SendAccount
<1>3. CASE MockBackend!SendGarage
  <2>1. ASSUME NEW plate \in MockBackend!Plates, NEW main \in BOOLEAN,
               MockBackend!Send([op |-> "create", plate |-> plate, main |-> main])
        PROVE  CallsAreGood' /\ UNCHANGED <<MockBackend!account, MockBackend!money, charging>>
    BY <2>1, <1>1 DEF CallIsGood
  <2>2. ASSUME NEW v, NEW input \in MockBackend!Inputs,
               MockBackend!Send([op |-> "update", id |-> v.id, version |-> v.version,
                                 plate |-> input.plate, main |-> input.main])
        PROVE  CallsAreGood' /\ UNCHANGED <<MockBackend!account, MockBackend!money, charging>>
    <3>1. input.plate \in MockBackend!Plates /\ input.main \in {"yes", "no", "-"}
      BY DEF MockBackend!Inputs, MockBackend!Plates
    <3> QED BY <2>2, <3>1, <1>1 DEF CallIsGood
  <2>3. ASSUME NEW v, MockBackend!Send([op |-> "duplicate", id |-> v.id, version |-> v.version])
        PROVE  CallsAreGood' /\ UNCHANGED <<MockBackend!account, MockBackend!money, charging>>
    BY <2>3, <1>1 DEF CallIsGood
  <2>4. ASSUME NEW v, MockBackend!Send([op |-> "remove", id |-> v.id, version |-> v.version])
        PROVE  CallsAreGood' /\ UNCHANGED <<MockBackend!account, MockBackend!money, charging>>
    BY <2>4, <1>1 DEF CallIsGood
  <2> QED BY <1>3, <2>1, <2>2, <2>3, <2>4 DEF MockBackend!SendGarage
<1>4. CASE MockBackend!SendWallet
  <2>1. ASSUME NEW key \in MockBackend!Keys, NEW declined \in BOOLEAN, NEW amount \in MockBackend!Amounts,
               MockBackend!Send([op |-> "top-up", key |-> key, amount |-> amount, declined |-> declined])
        PROVE  CallsAreGood' /\ UNCHANGED <<MockBackend!account, MockBackend!money, charging>>
    BY <2>1, <1>1 DEF CallIsGood
  <2>2. ASSUME NEW i \in DOMAIN intents, NEW op \in {"poll", "cancel"},
               MockBackend!Send([op |-> op, id |-> i])
        PROVE  CallsAreGood' /\ UNCHANGED <<MockBackend!account, MockBackend!money, charging>>
    BY <2>2, <1>1 DEF CallIsGood
  <2> QED BY <1>4, <2>1, <2>2 DEF MockBackend!SendWallet
<1>5. CASE MockBackend!SendCharge
  <2>1. ASSUME NEW main \in {"yes", "no", "-"}, MockBackend!Send([op |-> "method", main |-> main])
        PROVE  CallsAreGood' /\ UNCHANGED <<MockBackend!account, MockBackend!money, charging>>
    BY <2>1, <1>1 DEF CallIsGood
  <2>2. ASSUME NEW id, NEW op \in {"default", "forget"}, MockBackend!Send([op |-> op, id |-> id])
        PROVE  CallsAreGood' /\ UNCHANGED <<MockBackend!account, MockBackend!money, charging>>
    BY <2>2, <1>1 DEF CallIsGood
  <2>3. ASSUME NEW id, NEW k \in MockBackend!Keys,
               MockBackend!Send([op |-> "start", method |-> id, key |-> k])
        PROVE  CallsAreGood' /\ UNCHANGED <<MockBackend!account, MockBackend!money, charging>>
    BY <2>3, <1>1 DEF CallIsGood
  <2>4. ASSUME NEW s \in MockBackend!Started, NEW k \in MockBackend!Keys,
               MockBackend!Send([op |-> "stop", id |-> s, key |-> k])
        PROVE  CallsAreGood' /\ UNCHANGED <<MockBackend!account, MockBackend!money, charging>>
    <3>1. s # MockBackend!None
      BY DEF MockBackend!Started
    <3> QED BY <2>4, <3>1, <1>1 DEF CallIsGood
  <2> QED BY <1>5, <2>1, <2>2, <2>3, <2>4 DEF MockBackend!SendCharge
<1> QED BY <1>2, <1>3, <1>4, <1>5

\* The copy is asked for without a plate.
LEMMA CopyIsAsked ==
  ASSUME MockInv, NEW r \in DOMAIN requests, MockBackend!DuplicateVehicle(r)
  PROVE  CallsAreGood' /\ UNCHANGED <<MockBackend!account, MockBackend!money, charging>>
<1>1. PICK copy : copy = [op |-> "create", plate |-> "-", main |-> FALSE]
  OBVIOUS
<1>2. CallIsGood(copy)
  BY <1>1 DEF CallIsGood, MockBackend!Plates
<1>3. UNCHANGED <<MockBackend!account, MockBackend!money, charging>>
  BY DEF MockBackend!DuplicateVehicle
<1>4. DOMAIN requests' \subseteq DOMAIN requests \cup {copy}
  <2>1. \/ requests' = MockBackend!(+)(MockBackend!(-)(requests, MockBackend!SetToBag({r})),
                                       MockBackend!SetToBag({copy}))
        \/ requests' = MockBackend!(+)(MockBackend!(-)(requests, MockBackend!SetToBag({r})),
                                       MockBackend!EmptyBag)
    BY <1>1 DEF MockBackend!DuplicateVehicle
  <2> QED BY <2>1 DEF MockBackend!(+), MockBackend!(-), MockBackend!SetToBag, MockBackend!EmptyBag
<1>5. DOMAIN intents \subseteq DOMAIN intents'
  BY <1>3 DEF MockBackend!money
<1>6. PICK S : S = {copy}
  OBVIOUS
<1>7. (\A x \in S : CallIsGood(x)) /\ DOMAIN requests' \subseteq DOMAIN requests \cup S
  BY <1>2, <1>4, <1>6
<1> QED BY <1>3, <1>5, <1>7, CallsStayGood

\* Whatever else a call does, it is over, and the others ask for what they asked for.
LEMMA OthersAskTheSame ==
  ASSUME MockInv, NEW r \in DOMAIN requests, MockBackend!Answer(r), DOMAIN intents \subseteq DOMAIN intents'
  PROVE  CallsAreGood'
<1>1. PICK S : S = {}
  OBVIOUS
<1>2. (\A x \in S : CallIsGood(x)) /\ DOMAIN requests' \subseteq DOMAIN requests \cup S
  BY <1>1, CallIsOver
<1> QED BY <1>2, CallsStayGood

LEMMA MockFrames ==
  ASSUME MockInv
  PROVE  /\ UNCHANGED garage => GoodGarage'
         /\ UNCHANGED methods => GoodMethods'
         /\ UNCHANGED intents => GoodIntents' /\ DOMAIN intents \subseteq DOMAIN intents'
         /\ UNCHANGED <<intents, purse>> => GoodPurse'
         /\ UNCHANGED charging => GoodCharging'
<1>1. UNCHANGED garage => GoodGarage'
  BY DEF MockInv, GoodGarage
<1>2. UNCHANGED methods => GoodMethods'
  BY DEF MockInv, GoodMethods
<1>3. UNCHANGED intents => GoodIntents' /\ DOMAIN intents \subseteq DOMAIN intents'
  BY DEF MockInv, GoodIntents
<1>4. UNCHANGED <<intents, purse>> => GoodPurse'
  BY DEF MockInv, GoodPurse, MockBackend!Units, MockBackend!Captured
<1>5. UNCHANGED charging => GoodCharging'
  BY DEF MockInv, GoodCharging, MockBackend!Started, MockBackend!Stopped
<1> QED BY <1>1, <1>2, <1>3, <1>4, <1>5
-----------------------------------------------------------------------------
LEMMA MockInit == MockBackend!Init => MockInv
<1> SUFFICES ASSUME MockBackend!Init PROVE MockInv OBVIOUS
<1>1. PICK v : v = [id |-> 1, plate |-> "p", main |-> TRUE, version |-> 1]
  OBVIOUS
<1>2. PICK w : w = [id |-> 2, plate |-> "-", main |-> FALSE, version |-> 1]
  OBVIOUS
<1>3. /\ v \in MockVehicle /\ v.id = 1 /\ v.main /\ v.plate = "p"
      /\ w \in MockVehicle /\ w.id = 2 /\ ~w.main /\ w.plate = "-"
  BY <1>1, <1>2 DEF MockVehicle, MockBackend!Plates
<1>4. garage = [made |-> 2, rows |-> <<v, w>>]
  BY <1>1, <1>2 DEF MockBackend!Init
<1>5. PICK rows : rows = <<v, w>>
  OBVIOUS
<1>6. rows \in Seq(MockVehicle) /\ DOMAIN rows = {1, 2} /\ rows[1] = v /\ rows[2] = w
  BY <1>3, <1>5
<1>7. GoodGarage
  <2>1. HaveIds(rows, 2)
    BY <1>3, <1>6 DEF HaveIds
  <2>2. PlatesDiffer(rows)
    BY <1>3, <1>6 DEF PlatesDiffer
  <2>3. MainAt(rows, 1)
    BY <1>3, <1>6 DEF MainAt
  <2>4. HasMain(rows)
    BY <1>6, <2>3 DEF HasMain
  <2>5. DOMAIN garage = {"made", "rows"} /\ garage.made = 2 /\ garage.rows = rows
    BY <1>4, <1>5
  <2> QED BY <1>6, <2>1, <2>2, <2>4, <2>5 DEF GoodGarage
<1>8. GoodMethods
  <2>1. PICK m : m = [id |-> 1, main |-> TRUE]
    OBVIOUS
  <2>2. PICK o : o = [id |-> 2, main |-> FALSE]
    OBVIOUS
  <2>3. m \in MockMethod /\ m.id = 1 /\ m.main /\ o \in MockMethod /\ o.id = 2 /\ ~o.main
    BY <2>1, <2>2 DEF MockMethod
  <2>4. methods = [made |-> 2, rows |-> <<m, o>>]
    BY <2>1, <2>2 DEF MockBackend!Init
  <2>5. PICK stored : stored = <<m, o>>
    OBVIOUS
  <2>6. stored \in Seq(MockMethod) /\ DOMAIN stored = {1, 2} /\ stored[1] = m /\ stored[2] = o
    BY <2>3, <2>5
  <2>7. HaveIds(stored, 2) /\ OneMainAtMost(stored)
    BY <2>3, <2>6 DEF HaveIds, OneMainAtMost
  <2>8. DOMAIN methods = {"made", "rows"} /\ methods.made = 2 /\ methods.rows = stored
    BY <2>4, <2>5
  <2> QED BY <2>6, <2>7, <2>8 DEF GoodMethods
<1>9. CallsAreGood
  <2>1. DOMAIN requests = {}
    BY DEF MockBackend!Init, MockBackend!EmptyBag, MockBackend!SetToBag
  <2> QED BY <2>1 DEF CallsAreGood
<1>10. intents = <<>> /\ DOMAIN intents = {}
  BY DEF MockBackend!Init
<1>11. GoodIntents
  BY <1>10 DEF GoodIntents
<1>12. GoodPurse
  <2>1. MockBackend!Captured = {}
    BY <1>10 DEF MockBackend!Captured
  <2>2. MockBackend!Units = {}
    BY <2>1 DEF MockBackend!Units
  <2>3. DOMAIN purse = {"available", "rows"} /\ purse.available = 0 /\ purse.rows = <<>>
    BY DEF MockBackend!Init
  <2>4. MockBackend!IsInjective(<<>>) /\ MockBackend!Range(<<>>) = {}
    BY DEF MockBackend!IsInjective, MockBackend!Range
  <2>5. <<>> \in Seq(Nat)
    OBVIOUS
  <2> QED BY <2>1, <2>2, <2>3, <2>4, <2>5, FS_EmptySet DEF GoodPurse
<1>13. GoodCharging
  <2>1. PICK none : none = [k \in MockBackend!Keys |-> MockBackend!None]
    OBVIOUS
  <2>2. none \in [MockBackend!Keys -> Nat] /\ \A k \in MockBackend!Keys : none[k] = MockBackend!None
    BY <2>1 DEF MockBackend!None
  <2>3. /\ DOMAIN charging = {"active", "started", "stopped"} /\ charging.active = MockBackend!None
        /\ charging.started = none /\ charging.stopped = none
    BY <2>1 DEF MockBackend!Init
  <2>4. MockBackend!Started = {} /\ MockBackend!Stopped = {}
    BY <2>2, <2>3 DEF MockBackend!Started, MockBackend!Stopped
  <2> QED BY <2>2, <2>3, <2>4, FS_EmptySet DEF GoodCharging
<1> QED BY <1>7, <1>8, <1>9, <1>11, <1>12, <1>13 DEF MockInv

LEMMA MockNext == MockInv /\ [MockBackend!Next]_MockBackend!vars => MockInv'
<1> SUFFICES ASSUME MockInv, [MockBackend!Next]_MockBackend!vars PROVE MockInv' OBVIOUS
<1> USE DEF MockBackend!account, MockBackend!money
<1>1. CASE UNCHANGED MockBackend!vars
  BY <1>1, MockFrames DEF MockInv, MockBackend!vars, CallsAreGood, CallIsGood
<1>2. CASE MockBackend!SendAccount \/ MockBackend!SendGarage \/ MockBackend!SendWallet \/ MockBackend!SendCharge
  BY <1>2, CallsAreSent, MockFrames DEF MockInv
<1>3. ASSUME NEW r \in DOMAIN requests,
             \/ MockBackend!Register(r) \/ MockBackend!UpdateProfile(r) \/ MockBackend!RequestDeletion(r)
             \/ MockBackend!UpdateAutoRecharge(r) \/ MockBackend!DisableAutoRecharge(r)
      PROVE  MockInv'
  <2>1. MockBackend!Answer(r) /\ UNCHANGED <<garage, methods, purse, intents, charging>>
    BY <1>3 DEF MockBackend!Register, MockBackend!UpdateProfile, MockBackend!RequestDeletion,
                MockBackend!UpdateAutoRecharge, MockBackend!DisableAutoRecharge
  <2> QED BY <2>1, MockFrames, OthersAskTheSame DEF MockInv
<1>4. ASSUME NEW r \in DOMAIN requests,
             MockBackend!CreateVehicle(r) \/ MockBackend!UpdateVehicle(r) \/ MockBackend!RemoveVehicle(r)
      PROVE  MockInv'
  <2>1. MockBackend!Answer(r) /\ UNCHANGED <<methods, purse, intents, charging>>
    BY <1>4 DEF MockBackend!CreateVehicle, MockBackend!UpdateVehicle, MockBackend!RemoveVehicle
  <2>2. GoodGarage'
    BY <1>4, VehicleIsCreated, VehicleIsUpdated, VehicleIsRemoved
  <2> QED BY <2>1, <2>2, MockFrames, OthersAskTheSame DEF MockInv
<1>5. ASSUME NEW r \in DOMAIN requests, MockBackend!DuplicateVehicle(r)
      PROVE  MockInv'
  BY <1>5, CopyIsAsked, MockFrames DEF MockInv
<1>6. ASSUME NEW r \in DOMAIN requests,
             MockBackend!CreateTopUp(r) \/ MockBackend!GetTopUp(r) \/ MockBackend!CancelPayment(r)
      PROVE  MockInv'
  <2>1. MockBackend!Answer(r) /\ UNCHANGED <<garage, methods, charging>>
    BY <1>6 DEF MockBackend!CreateTopUp, MockBackend!GetTopUp, MockBackend!CancelPayment
  <2>2. GoodIntents' /\ GoodPurse' /\ DOMAIN intents \subseteq DOMAIN intents'
    BY <1>6, TopUpIsCreated, TopUpIsPolled, PaymentIsCancelled
  <2> QED BY <2>1, <2>2, MockFrames, OthersAskTheSame DEF MockInv
<1>7. ASSUME NEW r \in DOMAIN requests,
             MockBackend!CreateMethod(r) \/ MockBackend!SetDefaultMethod(r) \/ MockBackend!RemoveMethod(r)
      PROVE  MockInv'
  <2>1. MockBackend!Answer(r) /\ UNCHANGED <<garage, purse, intents, charging>>
    BY <1>7 DEF MockBackend!CreateMethod, MockBackend!SetDefaultMethod, MockBackend!RemoveMethod
  <2>2. GoodMethods'
    BY <1>7, MethodIsCreated, MethodIsChosen, MethodIsRemoved
  <2> QED BY <2>1, <2>2, MockFrames, OthersAskTheSame DEF MockInv
<1>8. ASSUME NEW r \in DOMAIN requests, MockBackend!StartCharging(r) \/ MockBackend!StopCharging(r)
      PROVE  MockInv'
  <2>1. MockBackend!Answer(r) /\ UNCHANGED <<garage, methods, purse, intents>>
    BY <1>8 DEF MockBackend!StartCharging, MockBackend!StopCharging
  <2>2. GoodCharging'
    BY <1>8, SessionIsStarted, SessionIsStopped
  <2> QED BY <2>1, <2>2, MockFrames, OthersAskTheSame DEF MockInv
<1>9. MockBackend!BagToSet(requests) = DOMAIN requests
  BY DEF MockBackend!BagToSet
<1> QED BY <1>1, <1>2, <1>3, <1>4, <1>5, <1>6, <1>7, <1>8, <1>9 DEF MockBackend!Next

LEMMA MockPromises ==
  MockInv => MockBackend!OneMain /\ MockBackend!BalanceIsPaid /\ MockBackend!ChargesOnce
<1> SUFFICES ASSUME MockInv
             PROVE  MockBackend!OneMain /\ MockBackend!BalanceIsPaid /\ MockBackend!ChargesOnce
  OBVIOUS
<1>1. MockBackend!OneMain
  <2>1. PICK mains : mains = {i \in DOMAIN garage.rows : garage.rows[i].main}
    OBVIOUS
  <2>2. ASSUME garage.rows # <<>> PROVE Cardinality(mains) = 1
    <3>1. DOMAIN garage.rows # {}
      <4>1. Len(garage.rows) \in Nat \ {0} /\ DOMAIN garage.rows = 1 .. Len(garage.rows)
        BY <2>2, EmptySeq DEF MockInv, GoodGarage
      <4> QED BY <4>1
    <3>2. PICK i \in DOMAIN garage.rows : MainAt(garage.rows, i)
      BY <3>1 DEF MockInv, GoodGarage, HasMain
    <3>3. mains = {i}
      BY <2>1, <3>2 DEF MainAt
    <3> QED BY <3>3, FS_Singleton
  <2>3. PICK chosen : chosen = {i \in DOMAIN methods.rows : methods.rows[i].main}
    OBVIOUS
  <2>4. Cardinality(chosen) <= 1
    <3>1. CASE chosen = {}
      <4>1. Cardinality({}) = 0
        BY FS_EmptySet
      <4> QED BY <3>1, <4>1
    <3>2. CASE chosen # {}
      <4>1. PICK i : i \in chosen
        BY <3>2
      <4>2. chosen = {i}
        BY <2>3, <4>1 DEF MockInv, GoodMethods, OneMainAtMost
      <4>3. Cardinality({i}) = 1
        BY FS_Singleton
      <4> QED BY <4>2, <4>3
    <3> QED BY <3>1, <3>2
  <2>5. MockBackend!Quantify(DOMAIN garage.rows, LAMBDA i : garage.rows[i].main) = Cardinality(mains)
    BY <2>1, MockCardinality DEF MockBackend!Quantify
  <2>6. MockBackend!Quantify(DOMAIN methods.rows, LAMBDA i : methods.rows[i].main) = Cardinality(chosen)
    BY <2>3, MockCardinality DEF MockBackend!Quantify
  <2>7. PlatesDiffer(garage.rows)
    BY DEF MockInv, GoodGarage
  <2> QED BY <2>2, <2>4, <2>5, <2>6, <2>7 DEF MockBackend!OneMain, PlatesDiffer
<1>2. MockBackend!BalanceIsPaid
  BY MockCardinality DEF MockInv, GoodPurse, MockBackend!BalanceIsPaid
<1>3. MockBackend!ChargesOnce
  BY DEF MockInv, GoodCharging, MockBackend!ChargesOnce
<1> QED BY <1>1, <1>2, <1>3

\* The demonstration mode keeps its promises however the calls of the screens meet (MockVehiclesApi,
\* MockPaymentsApi, MockChargingApi): a garage with vehicles has one main vehicle, the balance is what the
\* captured top-ups were worth, and a session is started and stopped once: alone, and among the services.
THEOREM DemonstrationIsSound ==
  /\ MockBackend!Spec => [](MockBackend!OneMain /\ MockBackend!BalanceIsPaid /\ MockBackend!ChargesOnce)
  /\ MCSpec => []MockIsSound
<1>1. MockBackend!Spec => [](MockBackend!OneMain /\ MockBackend!BalanceIsPaid /\ MockBackend!ChargesOnce)
  BY MockInit, MockNext, MockPromises, PTL DEF MockBackend!Spec
<1> DEFINE Inv == focus = "mock" => MockInv
<1>2. MCInit => Inv
  BY MockInit, Zenon DEF MCInit
<1>3. Inv /\ [MCNext]_allVars => Inv'
  <2> SUFFICES ASSUME Inv, [MCNext]_allVars PROVE Inv' OBVIOUS
  <2>1. focus' = focus
    BY DEF MCNext, Rest, allVars
  <2>2. focus = "mock" => [MockBackend!Next]_MockBackend!vars
    BY DEF MCNext, Step, allVars, vars, MockBackend!vars, MockBackend!account, MockBackend!money
  <2> QED BY <2>1, <2>2, MockNext
<1>4. Inv => MockIsSound
  BY MockPromises DEF MockIsSound
<1> HIDE DEF Inv
<1>5. MCSpec => []MockIsSound
  BY <1>2, <1>3, <1>4, PTL DEF MCSpec
<1> QED BY <1>1, <1>5
==============================================================================
