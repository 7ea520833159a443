---------------------------- MODULE AutoRecharge ----------------------------
(***************************************************************************)
(* Automatic recharge of a wallet                                          *)
(* (payments/auto-recharge/auto-recharge.service.ts).                      *)
(*                                                                         *)
(* After each capture the rule of the driver is evaluated: under a lock in *)
(* Redis, and if the balance is below the minimum, a card is charged and   *)
(* the wallet credited, under an idempotency key made of the rule and the  *)
(* hour.  The lock expires after a minute, evaluation or not; the driver   *)
(* may change or disable the rule meanwhile.  Each step of an evaluation   *)
(* is one call of Redis, of the database or of the provider.               *)
(***************************************************************************)
EXTENDS Integers, FiniteSets, Lifecycles

CONSTANTS
  Workers,      \* evaluations at one time
  Driver,       \* the wallet recharged
  RechargeAmounts,      \* rechargeAmountMinor the driver may choose
  Spendings,    \* charging sessions that may be paid from the wallet
  LastHour,     \* bound on time
  MaxFaults     \* bound on evaluations that outlive their lock, lost answers of the
                \* provider, calls that throw and crashes of the backend, together

VARIABLES
  wallet, reservation, journal,  \* the state of WalletLedger
  rule,       \* auto_recharge_rules: enabled, failureCount, amount, and
              \* whether cooldownUntil is to come
  method,     \* payment_methods: whether the method of the rule is ACTIVE
  intent,     \* payment_intents by hour
  card,       \* what the provider decided on the charge of each hour
  lock,       \* payments:auto-recharge:*: its owner
  worker,     \* where each evaluation is
  hour,       \* the clock
  late,       \* evaluations that outlived their lock so far
  lost,       \* answers lost so far
  crashes,    \* crashes so far
  errors      \* calls of the database or of Redis that threw so far

money == <<wallet, reservation, journal>>
settings == <<rule, method>>
payments == <<intent, card>>
bounds == <<late, lost, crashes, errors>>
vars == <<money, settings, payments, lock, worker, hour, bounds>>

Hours == 0 .. LastHour

MaxAmount == CHOOSE a \in RechargeAmounts : \A b \in RechargeAmounts : b <= a

Ledger == INSTANCE WalletLedger
            WITH Wallets <- {Driver}, Sessions <- Spendings, CreditKeys <- Hours,
                 RefundKeys <- {}, MaxMinor <- MaxAmount * (LastHour + 1)

-----------------------------------------------------------------------------
(* Data *)

\* The minimum balance of the rule: a wallet with less is recharged.
Minimum == 1

Outcomes == {"APPROVED", "DECLINED", "REQUIRES_REVIEW"}

NoIntent == [status |-> "NONE", amount |-> 0, version |-> 0]

\* lease: the lock this evaluation took has not expired.  bucket: the hour of its
\* key.  failures, amount: the rule as it was read.  target, then: the transition
\* under way and what comes after it.  seen: the version of the intent it read.
Idle == [op |-> "idle", lease |-> FALSE, bucket |-> 0, failures |-> 0, amount |-> 0,
         target |-> "none", then |-> "none", seen |-> 0]

At(w, op)   == worker[w].op = op
Running(w)  == ~At(w, "idle")
Bucket(w)   == worker[w].bucket
Target(w)   == worker[w].target
Intent(w)   == intent[Bucket(w)]
Credited(h) == ~Ledger!Fresh(<<"credit", h>>)
Balance     == wallet[Driver].available
Faults      == late + lost + crashes + errors

Goto(w, op) == worker' = [worker EXCEPT ![w].op = op]

\* The finally block comes next, and needs nothing of what was read.
Finish(w) ==
  worker' = [worker EXCEPT ![w] = [Idle EXCEPT !.op = "release", !.lease = worker[w].lease]]

\* After a transition of the intent the evaluation goes on with `then'.
Transition(w, target, then) ==
  worker' = [worker EXCEPT ![w].op = "read", ![w].target = target, ![w].then = then]

Resume(w) ==
  worker' = [worker EXCEPT ![w].op = worker[w].then,
                           ![w].target = "none", ![w].then = "none", ![w].seen = 0]

-----------------------------------------------------------------------------
(* The driver: update and disable, each one transaction, and other services *)

Update(enabled, amount) ==
  /\ method = "ACTIVE"
  /\ rule' = [enabled |-> enabled, failures |-> 0, cooling |-> FALSE, amount |-> amount]
  /\ UNCHANGED <<money, method, payments, lock, worker, hour, bounds>>

Disable ==
  /\ rule' = [rule EXCEPT !.enabled = FALSE]
  /\ UNCHANGED <<money, method, payments, lock, worker, hour, bounds>>

\* PaymentMethodService.remove leaves the rule alone.
RemoveMethod ==
  /\ method' = "REMOVED"
  /\ UNCHANGED <<money, rule, payments, lock, worker, hour, bounds>>

\* A charging session reserves what the wallet has (and will capture it).
Spend(s) ==
  /\ Ledger!Reserve(Driver, s, Balance)
  /\ UNCHANGED <<settings, payments, lock, worker, hour, bounds>>

-----------------------------------------------------------------------------
(* evaluate *)

\* Faulty variant: SET without NX.
AcquireAnyway(w) ==
  /\ At(w, "idle")
  /\ lock' = w
  /\ worker' = [worker EXCEPT ![w] = [Idle EXCEPT !.op = "rule", !.lease = TRUE]]
  /\ UNCHANGED <<money, settings, payments, hour, bounds>>

\* SET NX PX; an evaluation that finds the lock taken ends.
Acquire(w) ==
  /\ At(w, "idle") /\ lock = "none"
  /\ lock' = w
  /\ worker' = [worker EXCEPT ![w] = [Idle EXCEPT !.op = "rule", !.lease = TRUE]]
  /\ UNCHANGED <<money, settings, payments, hour, bounds>>

ReadRule(w) ==
  /\ At(w, "rule")
  /\ IF ~rule.enabled \/ rule.cooling
       THEN Finish(w)
       ELSE worker' = [worker EXCEPT
              ![w].failures = rule.failures, ![w].amount = rule.amount,
              ![w].op = IF method = "ACTIVE" THEN "balance" ELSE "fail"]
  /\ UNCHANGED <<money, settings, payments, lock, hour, bounds>>

ReadBalance(w) ==
  /\ At(w, "balance")
  /\ IF Balance >= Minimum THEN Finish(w) ELSE Goto(w, "create")
  /\ UNCHANGED <<money, settings, payments, lock, hour, bounds>>

\* The key is of this hour.  An intent of the key for another amount is a conflict
\* and ends the evaluation; one that is captured is the answer.
CreateIntent(w) ==
  LET old == intent[hour]
      new == IF old = NoIntent
               THEN [status |-> "CREATED", amount |-> worker[w].amount, version |-> 1]
               ELSE old
      next == [worker[w] EXCEPT !.bucket = hour]
  IN
  /\ At(w, "create")
  /\ intent' = [intent EXCEPT ![hour] = new]
  /\ CASE new.amount # worker[w].amount \/ new.status = "CAPTURED" -> Finish(w)
       [] new.amount = worker[w].amount /\ new.status = "CREATED" ->
            worker' = [worker EXCEPT ![w] =
              [next EXCEPT !.op = "read", !.target = "PENDING", !.then = "charge"]]
       [] OTHER -> worker' = [worker EXCEPT ![w] = [next EXCEPT !.op = "charge"]]
  /\ UNCHANGED <<money, settings, card, lock, hour, bounds>>

\* PaymentIntentService.transition: a read ...
ReadIntent(w) ==
  /\ At(w, "read")
  /\ CASE ~LegalIntentMove(Intent(w).status, Target(w)) -> Finish(w)
       [] Intent(w).status = Target(w) -> Resume(w)
       [] OTHER -> worker' = [worker EXCEPT ![w].seen = Intent(w).version, ![w].op = "write"]
  /\ UNCHANGED <<money, settings, payments, lock, hour, bounds>>

\* ... and a write, if the row still has the version that was read.
WriteIntent(w) ==
  /\ At(w, "write")
  /\ IF Intent(w).version = worker[w].seen
       THEN /\ intent' = [intent EXCEPT ![Bucket(w)].status = Target(w),
                                        ![Bucket(w)].version = @ + 1]
            /\ Resume(w)
       ELSE /\ IF Intent(w).status = Target(w) THEN Resume(w) ELSE Finish(w)
            /\ UNCHANGED intent
  /\ UNCHANGED <<money, settings, card, lock, hour, bounds>>

\* The provider decides once on a key, and an answer may be lost: then the result
\* is unknown.
\* Faulty variant: an answer that asks for a review is taken as an approval.
ReviewIsApproved(w, outcome) ==
  IF outcome = "DECLINED" THEN Transition(w, "FAILED", "fail") ELSE Goto(w, "credit")

Answered(w, outcome) ==
  CASE outcome = "APPROVED"        -> Goto(w, "credit")
    [] outcome = "DECLINED"        -> Transition(w, "FAILED", "fail")
    [] outcome = "REQUIRES_REVIEW" -> Transition(w, "REQUIRES_REVIEW", "fail")

Lost(w) == Transition(w, "REQUIRES_REVIEW", "fail")

CreateCardAuthorization(w) ==
  LET h == Bucket(w) IN
  /\ At(w, "charge")
  /\ card' \in IF card[h] = "NONE" THEN {[card EXCEPT ![h] = o] : o \in Outcomes} ELSE {card}
  /\ \/ Answered(w, card'[h]) /\ UNCHANGED lost
     \/ Faults < MaxFaults /\ Lost(w) /\ lost' = lost + 1
  /\ UNCHANGED <<money, settings, intent, lock, hour, late, crashes, errors>>

\* A key already posted is not posted again.
Credit(w) ==
  /\ At(w, "credit")
  /\ IF Credited(Bucket(w))
       THEN UNCHANGED money
       ELSE Ledger!Credit(Driver, Bucket(w), worker[w].amount)
  /\ Transition(w, "CAPTURED", "succeed")
  /\ UNCHANGED <<settings, payments, lock, hour, bounds>>

Succeed(w) ==
  /\ At(w, "succeed")
  /\ rule' = [rule EXCEPT !.failures = 0]
  /\ Finish(w)
  /\ UNCHANGED <<money, method, payments, lock, hour, bounds>>

\* failRule writes from the rule that was read, whatever it is now.
FailRule(w) ==
  LET failures == worker[w].failures + 1 IN
  /\ At(w, "fail")
  /\ rule' = [rule EXCEPT !.cooling = TRUE, !.enabled = failures < 3,
                          !.failures = failures]
  /\ Finish(w)
  /\ UNCHANGED <<money, method, payments, lock, hour, bounds>>

Release(w) ==
  /\ At(w, "release")
  /\ lock' = IF lock = w THEN "none" ELSE lock
  /\ worker' = [worker EXCEPT ![w] = Idle]
  /\ UNCHANGED <<money, settings, payments, hour, bounds>>

\* A call of the database or of Redis throws and is rolled back (serializableTransaction throws at
\* its third conflict): nothing but the finally block catches it, so that a charge may have been
\* approved and not be credited.  A release that throws leaves the lock to expire; a provider that
\* throws is Lost.
Throw(w) ==
  /\ worker[w].op \notin {"idle", "charge"}
  /\ Faults < MaxFaults
  /\ errors' = errors + 1
  /\ IF At(w, "release") THEN worker' = [worker EXCEPT ![w] = Idle] ELSE Finish(w)
  /\ UNCHANGED <<money, settings, payments, lock, hour, late, lost, crashes>>

-----------------------------------------------------------------------------
(* Time and crashes *)

\* A cooldown is an hour: it ends in the hour that follows.
Tick ==
  /\ hour < LastHour
  /\ hour' = hour + 1
  /\ rule' = [rule EXCEPT !.cooling = FALSE]
  /\ UNCHANGED <<money, method, payments, lock, worker, bounds>>

\* A lock expires that a crash left behind, or whose evaluation takes too long.
OrphanExpires ==
  /\ lock # "none" /\ ~(lock \in Workers /\ worker[lock].lease)
  /\ lock' = "none"
  /\ UNCHANGED <<money, settings, payments, worker, hour, bounds>>

LeaseExpires(w) ==
  /\ worker[w].lease /\ lock = w
  /\ Faults < MaxFaults
  /\ late' = late + 1
  /\ lock' = "none"
  /\ worker' = [worker EXCEPT ![w].lease = FALSE]
  /\ UNCHANGED <<money, settings, payments, hour, lost, crashes, errors>>

Crash ==
  /\ Faults < MaxFaults
  /\ crashes' = crashes + 1
  /\ worker' = [w \in Workers |-> Idle]
  /\ UNCHANGED <<money, settings, payments, lock, hour, late, lost, errors>>

-----------------------------------------------------------------------------

\* The driver has enabled the rule, and it has failed once since, in an earlier hour.
Init ==
  /\ Ledger!Init
  /\ rule \in {[enabled |-> TRUE, failures |-> 1, cooling |-> FALSE, amount |-> a] : a \in RechargeAmounts}
  /\ method = "ACTIVE"
  /\ intent = [h \in Hours |-> NoIntent]
  /\ card = [h \in Hours |-> "NONE"]
  /\ lock = "none"
  /\ worker = [w \in Workers |-> Idle]
  /\ hour = 0 /\ late = 0 /\ lost = 0 /\ crashes = 0 /\ errors = 0

Step(w) ==
  \/ ReadRule(w) \/ ReadBalance(w) \/ CreateIntent(w) \/ ReadIntent(w) \/ WriteIntent(w)
  \/ CreateCardAuthorization(w) \/ Credit(w) \/ Succeed(w) \/ FailRule(w) \/ Release(w)

Next ==
  \/ \E enabled \in BOOLEAN, amount \in RechargeAmounts : Update(enabled, amount)
  \/ Disable
  \/ RemoveMethod
  \/ \E s \in Spendings : Spend(s)
  \/ \E w \in Workers : Acquire(w) \/ Step(w) \/ Throw(w) \/ LeaseExpires(w)
  \/ OrphanExpires \/ Tick \/ Crash

Spec == Init /\ [][Next]_vars

-----------------------------------------------------------------------------
(* Properties *)

\* Every variable has its type; a rule that failed three times in a row is disabled
\* (failRule, update).
TypeOK ==
  /\ Ledger!TypeOK
  /\ rule \in [enabled : BOOLEAN, failures : 0 .. 3, cooling : BOOLEAN,
               amount : RechargeAmounts]
  /\ rule.enabled => rule.failures < 3
  /\ method \in {"ACTIVE", "REMOVED"}
  /\ intent \in [Hours -> [status : IntentStatus \cup {"NONE"},
                           amount : RechargeAmounts \cup {0}, version : Nat]]
  /\ card \in [Hours -> Outcomes \cup {"NONE"}]
  /\ lock \in Workers \cup {"none"}
  /\ \A w \in Workers :
       /\ worker[w].op \in {"idle", "rule", "balance", "create", "read", "write", "charge",
                            "credit", "succeed", "fail", "release"}
       /\ worker[w].lease => Running(w)
  /\ hour \in Hours /\ late \in 0 .. MaxFaults /\ lost \in 0 .. MaxFaults
  /\ crashes \in 0 .. MaxFaults /\ errors \in 0 .. MaxFaults

\* The charge at the provider, the intent and the credit of an hour agree, whatever evaluations
\* overlap, throw or crash: what is credited was approved, in the amount of the intent, and an
\* intent is captured only after that.  What was approved and is not credited is never recorded as
\* failed: it is under review, or still PENDING for an evaluation that has not ended; only one that
\* a crash or an error of the database cut off leaves it so, with nobody to credit it but another
\* evaluation of the same hour (evaluate, WalletService.credit, serializableTransaction).
ChargedIsCredited ==
  \A h \in Hours :
    /\ Credited(h) => card[h] = "APPROVED" /\ journal[<<"credit", h>>].amount = intent[h].amount
    /\ intent[h].status = "CAPTURED" => Credited(h)
    /\ card[h] = "APPROVED" /\ ~Credited(h) =>
         \/ intent[h].status = "REQUIRES_REVIEW"
         \/ /\ intent[h].status = "PENDING"
            /\ (crashes + errors > 0 \/ \E w \in Workers : Running(w) /\ Bucket(w) = h)

\* As long as no evaluation outlives its lock, recharges do not pile up: the balance
\* stays below one recharge above the minimum, over crashes, concurrent evaluations
\* and turns of the hour (evaluate: lock, balance check, key).
RechargesDoNotPileUp == late = 0 => Balance < Minimum + MaxAmount

\* A disabled rule is enabled again only by the driver's request, which carries the
\* consent (update; docs/architecture/payments-wallet-phase5.md:64-72).
ConsentStands ==
  [][~rule.enabled /\ rule'.enabled => \E amount \in RechargeAmounts : Update(TRUE, amount)]_vars
=============================================================================
