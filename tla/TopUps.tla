------------------------------- MODULE TopUps -------------------------------
(***************************************************************************)
(* Topping up a wallet by Pix                                              *)
(* (payments/topups/top-up.service.ts,                                     *)
(* payments/webhooks/payment-webhook.service.ts).                          *)
(*                                                                         *)
(* A request creates an intent, a charge at the payment provider, and      *)
(* moves the intent to PENDING.  The driver may cancel it.  What became of *)
(* the charge the provider tells by webhooks, delivered at any time and    *)
(* any number of times.  Each step of a handler is one call of the         *)
(* database or of the provider; nothing but the credit is a transaction.   *)
(***************************************************************************)
EXTENDS Integers, FiniteSets, Lifecycles

CONSTANTS
  Workers,      \* requests and webhooks handled at one time
  TopUpKeys,    \* idempotency keys of top-up requests
  Driver,       \* the wallet topped up
  Payloads,     \* bodies a webhook comes with: "exact", or "altered" (another amount)
  MaxFailures,  \* bound on calls that fail
  MaxCrashes    \* bound on crashes of the backend

ASSUME TopUpAssumption ==
  /\ IsFiniteSet(TopUpKeys)
  /\ "exact" \in Payloads /\ Payloads \subseteq {"exact", "altered"}
  /\ MaxFailures \in Nat
  /\ MaxCrashes \in Nat

VARIABLES
  wallet, reservation, journal,  \* the state of WalletLedger
  intent,    \* payment_intents by key: status, version, whether it has a reference
  event,     \* payment_webhook_events by top-up and outcome
  charge,    \* what the provider knows of the charge
  sent,      \* outcomes the provider has a webhook for: any may be delivered (again)
  worker,    \* where each handler is
  failures,  \* calls that failed so far
  crashes    \* crashes so far

money == <<wallet, reservation, journal>>
rows == <<intent, event>>
provider == <<charge, sent>>
bounds == <<failures, crashes>>
vars == <<money, rows, provider, worker, bounds>>

\* Every top-up is of one unit: amounts play no part but for the altered ones.
Ledger == INSTANCE WalletLedger
            WITH Wallets <- {Driver}, Sessions <- {}, CreditKeys <- TopUpKeys,
                 RefundKeys <- {}, MaxMinor <- Cardinality(TopUpKeys)

-----------------------------------------------------------------------------
(* Data *)

Outcomes == {"APPROVED", "DECLINED", "EXPIRED", "REQUIRES_REVIEW"}

ChargeStatus == Outcomes \cup {"NONE", "PENDING", "CANCELLED"}

NoIntent == [status |-> "NONE", version |-> 0, ref |-> FALSE]

NoEvent == [status |-> "NONE", payload |-> "exact"]

\* flow: create, cancel or webhook.  target: the transition under way.  pix:
\* the status of the charge createPixCharge returned.  seen, version: the
\* intent as it was read.
Idle == [op |-> "idle", flow |-> "none", key |-> "none", outcome |-> "none",
         payload |-> "exact", target |-> "none", pix |-> "none",
         seen |-> "none", version |-> 0]

At(w, op)  == worker[w].op = op
Key(w)     == worker[w].key
Intent(w)  == intent[Key(w)]
Target(w)  == worker[w].target
Event(w)   == <<Key(w), worker[w].outcome>>
Credited(k) == ~Ledger!Fresh(<<"credit", k>>)

\* A handler that ends forgets what it read.
Goto(w, op) ==
  worker' = [worker EXCEPT ![w] = IF op = "idle" THEN Idle ELSE [@ EXCEPT !.op = op]]

Transition(w, target) ==
  worker' = [worker EXCEPT ![w].op = "read", ![w].target = target]

\* An exception ends a request; it marks the event of a webhook as failed.
Throw(w) == Goto(w, IF worker[w].flow = "webhook" THEN "failed" ELSE "idle")

\* What the final status of a new charge makes of its intent.
IntentOf(pix) ==
  CASE pix = "DECLINED"        -> "FAILED"
    [] pix = "EXPIRED"         -> "EXPIRED"
    [] pix = "REQUIRES_REVIEW" -> "REQUIRES_REVIEW"

\* After a transition: a creation that has moved to PENDING may move on.
Proceed(w) ==
  CASE worker[w].flow = "webhook" -> Goto(w, "processed")
    [] worker[w].flow = "create" /\ Target(w) = "PENDING"
         /\ worker[w].pix \in {"DECLINED", "EXPIRED", "REQUIRES_REVIEW"}
           -> Transition(w, IntentOf(worker[w].pix))
    [] OTHER -> Goto(w, "idle")

-----------------------------------------------------------------------------
(* The provider and the driver, outside of the backend *)

\* The driver pays: the code to pay with is shown once the intent is PENDING.
\* The payment of a charge that expired, or whose status is unknown, may still
\* arrive.
Pay(k) ==
  /\ intent[k].ref
  /\ charge[k] \in {"PENDING", "EXPIRED", "REQUIRES_REVIEW"}
  /\ charge' = [charge EXCEPT ![k] = "APPROVED"]
  /\ sent' = [sent EXCEPT ![k] = @ \cup {"APPROVED"}]
  /\ UNCHANGED <<money, rows, worker, bounds>>

Expire(k) ==
  /\ charge[k] = "PENDING"
  /\ charge' = [charge EXCEPT ![k] = "EXPIRED"]
  /\ sent' = [sent EXCEPT ![k] = @ \cup {"EXPIRED"}]
  /\ UNCHANGED <<money, rows, worker, bounds>>

-----------------------------------------------------------------------------
(* PaymentIntentService.transition: a read, and a write if the row still has
   the version that was read. *)

ReadIntent(w) ==
  /\ At(w, "read")
  /\ IF ~LegalIntentMove(Intent(w).status, Target(w))
       THEN Throw(w)
       ELSE IF Intent(w).status = Target(w)
              THEN Proceed(w)
              ELSE worker' = [worker EXCEPT ![w].op = "write",
                                ![w].seen = Intent(w).status,
                                ![w].version = Intent(w).version]
  /\ UNCHANGED <<money, rows, provider, bounds>>

Unchanged(w) ==
  /\ worker[w].seen = Intent(w).status
  /\ worker[w].version = Intent(w).version

WriteIntent(w) ==
  /\ At(w, "write")
  /\ \/ /\ Unchanged(w)
        /\ intent' = [intent EXCEPT ![Key(w)] =
             [status |-> Target(w), version |-> @.version + 1,
              ref |-> @.ref \/ Target(w) = "PENDING"]]
        /\ Proceed(w)
     \/ /\ ~Unchanged(w)
        /\ IF Intent(w).status = Target(w) THEN Proceed(w) ELSE Throw(w)
        /\ UNCHANGED intent
  /\ UNCHANGED <<money, event, provider, bounds>>

-----------------------------------------------------------------------------
(* TopUpService.create and cancel *)

\* The intent of the key is created or found; only one still CREATED goes on,
\* any other is the answer.
Create(w, k) ==
  /\ At(w, "idle")
  /\ IF intent[k].status \in {"NONE", "CREATED"}
       THEN /\ intent' = [intent EXCEPT ![k].status = "CREATED"]
            /\ worker' = [worker EXCEPT ![w] =
                 [Idle EXCEPT !.op = "charge", !.flow = "create", !.key = k]]
       ELSE UNCHANGED <<intent, worker>>
  /\ UNCHANGED <<money, event, provider, bounds>>

\* The provider knows a charge by its key.  Its answer may be lost.
CreatePixCharge(w) ==
  LET k == Key(w) IN
  /\ At(w, "charge")
  /\ \/ /\ charge[k] = "NONE"
        /\ \E status \in {"PENDING", "DECLINED", "EXPIRED", "REQUIRES_REVIEW"} :
             charge' = [charge EXCEPT ![k] = status]
        /\ sent' = [sent EXCEPT ![k] = @ \cup ({charge'[k]} \ {"PENDING"})]
     \/ /\ charge[k] # "NONE"
        /\ UNCHANGED provider
  /\ \/ /\ worker' = [worker EXCEPT ![w].op = "read", ![w].target = "PENDING",
                                    ![w].pix = charge'[k]]
        /\ UNCHANGED failures
     \/ /\ failures < MaxFailures
        /\ failures' = failures + 1
        /\ Throw(w)
  /\ UNCHANGED <<money, rows, crashes>>

\* cancel reads the intent and rejects all but a pending one.
Cancel(w, k) ==
  /\ At(w, "idle")
  /\ intent[k].status \in {"PENDING", "REQUIRES_ACTION"}
  /\ intent[k].ref
  /\ worker' = [worker EXCEPT ![w] =
       [Idle EXCEPT !.op = "cancel", !.flow = "cancel", !.key = k]]
  /\ UNCHANGED <<money, rows, provider, bounds>>

\* The provider answers, whether or not there was anything left to cancel.
CancelPixCharge(w) ==
  /\ At(w, "cancel")
  /\ charge' = [charge EXCEPT ![Key(w)] = IF @ = "PENDING" THEN "CANCELLED" ELSE @]
  /\ Transition(w, "CANCELLED")
  /\ UNCHANGED <<money, rows, sent, bounds>>

-----------------------------------------------------------------------------
(* PaymentWebhookService.handle: what is stored of the event *)

Receive(w, e, payload, op) ==
  worker' = [worker EXCEPT ![w] =
    [Idle EXCEPT !.op = op, !.flow = "webhook", !.key = e[1], !.outcome = e[2],
                 !.payload = payload]]

\* The first delivery stores the event.
FirstDelivery(w, e, payload) ==
  /\ event[e] = NoEvent
  /\ event' = [event EXCEPT ![e] = [status |-> "RECEIVED", payload |-> payload]]
  /\ Receive(w, e, payload, "received")

\* Faulty variant: every repetition is a duplicate, failed or not.
OnceOnly(w, e, payload) ==
  event[e] # NoEvent /\ event[e].payload = payload /\ UNCHANGED <<event, worker>>

\* A repeated one claims an event that failed; any other is answered as done.
RepeatedDelivery(w, e, payload) ==
  /\ event[e] # NoEvent /\ event[e].payload = payload
  /\ IF event[e].status = "FAILED"
       THEN /\ event' = [event EXCEPT ![e].status = "PROCESSING"]
            /\ Receive(w, e, payload, "apply")
       ELSE UNCHANGED <<event, worker>>

\* The same event with another payload is left to a human.
ConflictingDelivery(e, payload) ==
  /\ event[e] # NoEvent /\ event[e].payload # payload
  /\ event' = [event EXCEPT ![e].status = "REQUIRES_REVIEW"]
  /\ UNCHANGED worker

Deliver(w, k, outcome, payload) ==
  LET e == <<k, outcome>> IN
  /\ At(w, "idle")
  /\ outcome \in sent[k]
  /\ \/ FirstDelivery(w, e, payload)
     \/ RepeatedDelivery(w, e, payload)
     \/ ConflictingDelivery(e, payload)
  /\ UNCHANGED <<money, intent, provider, bounds>>

MarkEvent(w, from, status, op) ==
  /\ At(w, from)
  /\ event' = [event EXCEPT ![Event(w)].status = status]
  /\ Goto(w, op)
  /\ UNCHANGED <<money, intent, provider, bounds>>

MarkProcessing(w) == MarkEvent(w, "received", "PROCESSING", "apply")
MarkProcessed(w)  == MarkEvent(w, "processed", "PROCESSED", "idle")
MarkFailed(w)     == MarkEvent(w, "failed", "FAILED", "idle")

-----------------------------------------------------------------------------
(* TopUpService.applyWebhook *)

\* Which way an event goes, from one read of the intent.
Apply(w) ==
  LET outcome == worker[w].outcome IN
  /\ At(w, "apply")
  /\ CASE ~Intent(w).ref -> Throw(w)
       [] Intent(w).ref /\ worker[w].payload = "altered" -> Goto(w, "review")
       [] Intent(w).ref /\ worker[w].payload = "exact" ->
            CASE outcome = "APPROVED" ->
                   Goto(w, CASE Intent(w).status = "CAPTURED" -> "processed"
                             [] Intent(w).status \in {"CANCELLED", "EXPIRED"} -> "review"
                             [] OTHER -> "credit")
              [] outcome = "DECLINED" -> Transition(w, "FAILED")
              [] outcome = "EXPIRED" -> Transition(w, "EXPIRED")
              [] outcome = "REQUIRES_REVIEW" -> Goto(w, "review")
  /\ UNCHANGED <<money, rows, provider, bounds>>

\* wallet.credit posts once per intent.
Credit(w) ==
  /\ At(w, "credit")
  /\ \/ Ledger!Credit(Driver, Key(w), 1)
     \/ /\ Credited(Key(w))
        /\ UNCHANGED money
  /\ Transition(w, "CAPTURED")
  /\ UNCHANGED <<rows, provider, bounds>>

\* The only write that asks for neither a version nor a legal transition.
MarkReview(w) ==
  /\ At(w, "review")
  /\ intent' = [intent EXCEPT ![Key(w)].status = "REQUIRES_REVIEW",
                              ![Key(w)].version = @ + 1]
  /\ Goto(w, "processed")
  /\ UNCHANGED <<money, event, provider, bounds>>

-----------------------------------------------------------------------------
(* Failures *)

\* A call of the database or of the provider fails without effect.  (A failure
\* to store what became of an event has the effect of a crash.)
CallFails(w) ==
  /\ worker[w].op \notin {"idle", "received", "failed"}
  /\ failures < MaxFailures
  /\ failures' = failures + 1
  /\ Throw(w)
  /\ UNCHANGED <<money, rows, provider, crashes>>

Crash ==
  /\ crashes < MaxCrashes
  /\ crashes' = crashes + 1
  /\ worker' = [w \in Workers |-> Idle]
  /\ UNCHANGED <<money, rows, provider, failures>>

-----------------------------------------------------------------------------

Init ==
  /\ Ledger!Init
  /\ intent = [k \in TopUpKeys |-> NoIntent]
  /\ event = [e \in TopUpKeys \X Outcomes |-> NoEvent]
  /\ charge = [k \in TopUpKeys |-> "NONE"]
  /\ sent = [k \in TopUpKeys |-> {}]
  /\ worker = [w \in Workers |-> Idle]
  /\ failures = 0
  /\ crashes = 0

Handle(w) ==
  \/ ReadIntent(w) \/ WriteIntent(w)
  \/ CreatePixCharge(w) \/ CancelPixCharge(w)
  \/ MarkProcessing(w) \/ MarkProcessed(w) \/ MarkFailed(w)
  \/ Apply(w) \/ Credit(w) \/ MarkReview(w)

Next ==
  \/ \E w \in Workers :
       \/ Handle(w) \/ CallFails(w)
       \/ \E k \in TopUpKeys :
            \/ Create(w, k) \/ Cancel(w, k)
            \/ \E outcome \in Outcomes, p \in Payloads : Deliver(w, k, outcome, p)
  \/ \E k \in TopUpKeys : Pay(k) \/ Expire(k)
  \/ Crash

Spec == Init /\ [][Next]_vars

\* A handler runs to its end, and the provider repeats the webhook of a
\* payment.
Redeliver(k) == \E w \in Workers : Deliver(w, k, "APPROVED", "exact")

FairSpec ==
  /\ Spec
  /\ \A w \in Workers : WF_vars(Handle(w))
  /\ \A k \in TopUpKeys : SF_vars(Redeliver(k))

-----------------------------------------------------------------------------
(* Properties *)

TypeOK ==
  /\ Ledger!TypeOK
  /\ wallet[Driver].available <= Cardinality(TopUpKeys)
  /\ intent \in [TopUpKeys -> [status : IntentStatus \cup {"NONE"},
                               version : Nat, ref : BOOLEAN]]
  /\ event \in [TopUpKeys \X Outcomes ->
                  [status : {"NONE", "RECEIVED", "PROCESSING", "PROCESSED",
                             "FAILED", "REQUIRES_REVIEW"},
                   payload : {"exact", "altered"}]]
  /\ charge \in [TopUpKeys -> ChargeStatus]
  /\ sent \in [TopUpKeys -> SUBSET Outcomes]

\* "Somente um webhook confirmado chama wallet.credit": money comes in only for
\* a charge that was paid, once, whatever is lost, repeated or reordered.
CreditedIsPaid ==
  /\ \A k \in TopUpKeys : Credited(k) => charge[k] = "APPROVED"
  /\ wallet[Driver].available = Cardinality({k \in TopUpKeys : Credited(k)})

\* An intent shows a payment only after the money is in the wallet, and the event of a payment is
\* done with only if that is so or a human is asked to look, though creations, cancellations and
\* repeated webhooks decide on old reads (applyWebhook, PaymentWebhookService.handle).
ShownIsCredited ==
  \A k \in TopUpKeys :
    /\ intent[k].status = "CAPTURED" => Credited(k)
    /\ event[<<k, "APPROVED">>].status = "PROCESSED" =>
         \/ Credited(k) /\ intent[k].status = "CAPTURED"
         \/ intent[k].status = "REQUIRES_REVIEW"

\* The payment is in the wallet and shown by the intent, or a human is asked to
\* look.
Settled(k) ==
  \/ Credited(k) /\ intent[k].status = "CAPTURED"
  \/ intent[k].status = "REQUIRES_REVIEW"
  \/ event[<<k, "APPROVED">>].status = "REQUIRES_REVIEW"

\* A payment whose webhook is repeated is settled, whatever calls fail and
\* whatever creations and cancellations race it, unless the backend dies.
PaidIsSettled ==
  \A k \in TopUpKeys : charge[k] = "APPROVED" ~> Settled(k) \/ crashes > 0

\* phase5.md: repeating a webhook produces the one posting, also after a crash.
RepeatedWebhookSettles ==
  \A k \in TopUpKeys : charge[k] = "APPROVED" ~> Settled(k)
=============================================================================
