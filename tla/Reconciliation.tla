--------------------------- MODULE Reconciliation ---------------------------
(***************************************************************************)
(* Reconciliation of payment intents with the provider                     *)
(* (payments/reconciliation/payment-reconciliation.service.ts): a run      *)
(* takes the lock of its tenant, or the global one, reads the intents that *)
(* are not settled, and records for each what the provider says of it.     *)
(* Intents and provider go on meanwhile.                                   *)
(***************************************************************************)
EXTENDS Integers, FiniteSets

CONSTANTS
  Intents,      \* payment intents of one tenant
  Runs,         \* runs of reconciliation
  MaxExpired    \* bound on locks that expire under their run

VARIABLES
  intent,       \* payment_intents: the local status, and whether there is a reference to the
                \* provider's payment and its amount agrees
  remote,       \* the status at the provider
  lock,         \* the owner of each lock
  run,          \* what each run does
  recorded      \* payment_reconciliations: the last one of each intent

vars == <<intent, remote, lock, run, recorded>>

-----------------------------------------------------------------------------
(* Data *)

Scopes == {"tenant", "global"}
Nobody == "nobody"
Listed == {"PENDING", "PROCESSING", "AUTHORIZED", "REQUIRES_REVIEW"}

\* The ways of an intent that has a run's attention: PaymentIntentService has them all.
Steps == [PENDING |-> {"PROCESSING"}, PROCESSING |-> {"AUTHORIZED", "REQUIRES_REVIEW"},
          AUTHORIZED |-> {"CAPTURED"}, REQUIRES_REVIEW |-> {"AUTHORIZED", "FAILED"},
          CAPTURED |-> {}, FAILED |-> {}]

\* statusMatches: PROCESSING and REQUIRES_REVIEW match nothing.
Expected == [PENDING |-> {"PENDING"}, AUTHORIZED |-> {"APPROVED"}, CAPTURED |-> {"APPROVED"},
             FAILED |-> {"DECLINED"}, PROCESSING |-> {}, REQUIRES_REVIEW |-> {}]

\* left: intents of the list still to come, with the status they had in it.
NoRun == [scope |-> "none", op |-> "idle", left |-> {}, lease |-> FALSE]

Op(r) == run[r].op

-----------------------------------------------------------------------------
(* A run *)

\* SET NX: a run that finds the lock taken does nothing.
Acquire(r, s) ==
  /\ Op(r) = "idle" /\ lock[s] = Nobody
  /\ lock' = [lock EXCEPT ![s] = r]
  /\ run' = [run EXCEPT ![r] = [scope |-> s, op |-> "list", left |-> {}, lease |-> TRUE]]
  /\ UNCHANGED <<intent, remote, recorded>>

List(r) ==
  /\ Op(r) = "list"
  /\ run' = [run EXCEPT ![r].op = "reconcile",
               ![r].left = {[id |-> i, status |-> intent[i].status] :
                              i \in {j \in Intents : intent[j].status \in Listed}}]
  /\ UNCHANGED <<intent, remote, lock, recorded>>

\* The status of the row: of what the list said, and of the provider's answer, if there is one.
Outcome(e, answered) ==
  IF ~intent[e.id].reference \/ ~answered THEN "MISSING_AT_PROVIDER"
  ELSE IF ~intent[e.id].agrees THEN "AMOUNT_MISMATCH"
  ELSE IF remote[e.id] \in Expected[e.status] THEN "MATCHED"
  ELSE "STATUS_MISMATCH"

Reconcile(r) ==
  /\ Op(r) = "reconcile"
  /\ \E e \in run[r].left, answered \in BOOLEAN :
       /\ recorded' = [recorded EXCEPT ![e.id] = Outcome(e, answered)]
       /\ run' = [run EXCEPT ![r].left = @ \ {e}]
  /\ UNCHANGED <<intent, remote, lock>>

\* Faulty variant: the lock is deleted, whoever set it.
ReleaseAny(r) == lock' = [lock EXCEPT ![run[r].scope] = Nobody]

\* The script deletes the lock if it is this run's.
ReleaseOwn(r) ==
  lock' = [s \in Scopes |-> IF s = run[r].scope /\ lock[s] = r THEN Nobody ELSE lock[s]]

\* At the end of the list, or at a failure of the database.
Release(r) ==
  /\ Op(r) \in {"list", "reconcile"}
  /\ ReleaseOwn(r)
  /\ run' = [run EXCEPT ![r] = NoRun]
  /\ UNCHANGED <<intent, remote, recorded>>

Expire(r) ==
  /\ run[r].lease
  /\ Cardinality({q \in Runs : Op(q) \in {"list", "reconcile"} /\ ~run[q].lease}) < MaxExpired
  /\ lock' = [lock EXCEPT ![run[r].scope] = Nobody]
  /\ run' = [run EXCEPT ![r].lease = FALSE]
  /\ UNCHANGED <<intent, remote, recorded>>

-----------------------------------------------------------------------------
(* What goes on meanwhile *)

IntentMoves(i) ==
  /\ \E s \in Steps[intent[i].status] : intent' = [intent EXCEPT ![i].status = s]
  /\ UNCHANGED <<remote, lock, run, recorded>>

ProviderMoves(i) ==
  /\ remote[i] = "PENDING"
  /\ \E s \in {"APPROVED", "DECLINED"} : remote' = [remote EXCEPT ![i] = s]
  /\ UNCHANGED <<intent, lock, run, recorded>>

-----------------------------------------------------------------------------

Init ==
  /\ intent \in [Intents -> [status : {"PENDING"}, reference : BOOLEAN, agrees : BOOLEAN]]
  /\ remote = [i \in Intents |-> "PENDING"]
  /\ lock = [s \in Scopes |-> Nobody]
  /\ run = [r \in Runs |-> NoRun]
  /\ recorded = [i \in Intents |-> "none"]

Next ==
  \/ \E r \in Runs : \/ \E s \in Scopes : Acquire(r, s)
                     \/ List(r) \/ Reconcile(r) \/ Release(r) \/ Expire(r)
  \/ \E i \in Intents : IntentMoves(i) \/ ProviderMoves(i)

Spec == Init /\ [][Next]_vars

-----------------------------------------------------------------------------
(* Properties *)

\* Every variable has its type.
TypeOK ==
  /\ \A i \in Intents : intent[i].status \in DOMAIN Steps
  /\ lock \in [Scopes -> Runs \cup {Nobody}]
  /\ run \in [Runs -> [scope : Scopes \cup {"none"}, op : {"idle", "list", "reconcile"},
                       left : SUBSET [id : Intents, status : Listed], lease : BOOLEAN]]
  /\ recorded \in [Intents -> {"none", "MATCHED", "STATUS_MISMATCH", "AMOUNT_MISMATCH",
                               "MISSING_AT_PROVIDER"}]

\* Two runs of one scope whose locks have not expired are never under way at one time, because a
\* run that outlived its lock does not delete the lock of the next (run).
RunsAreAlone ==
  \A r, q \in Runs :
    run[r].lease /\ run[q].lease /\ run[r].scope = run[q].scope => r = q
=============================================================================
