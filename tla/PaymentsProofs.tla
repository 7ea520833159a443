---------------------------- MODULE PaymentsProofs ----------------------------
(***************************************************************************)
(* Proofs about the money that comes in (TopUps) and the money that goes   *)
(* back (Refunds), for any number of handlers and keys and any failures.   *)
(***************************************************************************)
EXTENDS MCPayments, FiniteSetTheorems, TLAPS

-----------------------------------------------------------------------------
(***************************************************************************)
(* Top-ups.  What a handler decided on an old read stays true, because     *)
(* what the provider says of a charge is final once it is paid or          *)
(* declined, a posting is never taken back, and an intent that shows a     *)
(* payment leaves CAPTURED only for a human's review.                      *)
(***************************************************************************)

WebhookOps == {"received", "apply", "credit", "review", "processed", "failed"}

TopUpOps == {"idle", "charge", "cancel", "read", "write"} \cup WebhookOps

Targets == {"PENDING", "FAILED", "EXPIRED", "REQUIRES_REVIEW", "CANCELLED", "CAPTURED"}

Handlers == [op : TopUpOps, flow : {"none", "create", "cancel", "webhook"},
             key : TopUpKeys \cup {"none"}, outcome : Outcomes \cup {"none"},
             payload : {"exact", "altered"}, target : Targets \cup {"none"},
             pix : ChargeStatus \cup {"none"}, seen : IntentStatus \cup {"NONE", "none"},
             version : Nat]

TopUpTypes == TypeOK /\ worker \in [Workers -> Handlers]

\* A payment the handlers are done with.
Shown(k) == (Credited(k) /\ intent[k].status = "CAPTURED") \/ intent[k].status = "REQUIRES_REVIEW"

\* What the rows of top-up k say together.
TopUpCoherent(k) ==
  /\ "APPROVED" \in sent[k] => charge[k] = "APPROVED"
  /\ "DECLINED" \in sent[k] => charge[k] = "DECLINED"
  /\ Credited(k) => charge[k] = "APPROVED"
  /\ intent[k].status = "CAPTURED" => Credited(k)
  /\ event[<<k, "APPROVED">>].status = "PROCESSED" => charge[k] = "APPROVED" /\ Shown(k)

\* What a handler relies on: h is the handler's record.
Relies(h) ==
  h.op # "idle" =>
    /\ h.key \in TopUpKeys
    /\ h.op \in WebhookOps => h.flow = "webhook"
    /\ h.op = "charge" => h.flow = "create"
    /\ h.op = "cancel" => h.flow = "cancel"
    /\ h.flow = "webhook" => h.outcome \in Outcomes /\ h.outcome \in sent[h.key]
    /\ h.op = "credit" => h.outcome = "APPROVED"
    /\ h.op \in {"read", "write"} =>
         /\ h.target \in Targets
         /\ h.flow = "webhook" /\ h.outcome = "APPROVED" => h.target = "CAPTURED"
         /\ h.target = "CAPTURED" => Credited(h.key)
         /\ h.target = "FAILED" => charge[h.key] = "DECLINED"
         /\ h.flow = "create" /\ h.pix = "DECLINED" => charge[h.key] = "DECLINED"
    /\ h.op = "write" => LegalIntentMove(h.seen, h.target)
    /\ h.op = "processed" /\ h.outcome = "APPROVED" => Shown(h.key)

Paid == {k \in TopUpKeys : Credited(k)}

TopUpInv ==
  /\ TopUpTypes
  /\ \A k \in TopUpKeys : TopUpCoherent(k)
  /\ \A w \in Workers : Relies(worker[w])
  /\ wallet[Driver].available = Cardinality(Paid)

\* What a step leaves of what other handlers rely on.
Keeps(k) ==
  /\ charge[k] \in {"APPROVED", "DECLINED"} => charge'[k] = charge[k]
  /\ sent[k] \subseteq sent'[k]
  /\ Credited(k) => Credited(k)'
  /\ charge[k] = "APPROVED" /\ Shown(k) => Shown(k)'

\* The statuses of an intent.
LEMMA IntentStatuses ==
  IntentStatus = {"CREATED", "PENDING", "REQUIRES_ACTION", "AUTHORIZED", "PROCESSING",
                  "CAPTURED", "CANCELLED", "EXPIRED", "FAILED", "REQUIRES_REVIEW",
                  "REFUNDED", "PARTIALLY_REFUNDED"}
BY DEF IntentStatus, IntentTransitions

\* Where an intent that shows a payment, or a review, may go.
LEMMA ShownMoves ==
  ASSUME NEW target \in Targets
  PROVE  /\ LegalIntentMove("CAPTURED", target) => target \in {"CAPTURED", "REQUIRES_REVIEW"}
         /\ LegalIntentMove("REQUIRES_REVIEW", target)
              => target \in {"REQUIRES_REVIEW", "CAPTURED", "FAILED"}
BY DEF LegalIntentMove, IntentTransitions, Targets

\* The keys of the ledger are those of the top-ups.
LEMMA CreditKeys ==
  /\ \A k \in TopUpKeys : <<"credit", k>> \in Ledger!Keys
  /\ Ledger!Keys = {"credit"} \X TopUpKeys
BY DEF Ledger!Keys

-----------------------------------------------------------------------------
(* Steps of a handler *)

\* A handler at rest is a handler, and relies on nothing.
LEMMA IdleIsHandler == Idle \in Handlers /\ Relies(Idle)
BY DEF Idle, Handlers, TopUpOps, Relies

\* Going to an operation.
LEMMA GoesTo ==
  ASSUME TopUpTypes, NEW w \in Workers, NEW op \in TopUpOps, Goto(w, op)
  PROVE  /\ worker' \in [Workers -> Handlers]
         /\ \A v \in Workers : v # w => worker'[v] = worker[v]
         /\ op = "idle" => worker'[w] = Idle
         /\ op # "idle" => /\ worker'[w].op = op
                           /\ worker'[w].key = worker[w].key
                           /\ worker'[w].flow = worker[w].flow
                           /\ worker'[w].outcome = worker[w].outcome
                           /\ worker'[w].target = worker[w].target
                           /\ worker'[w].pix = worker[w].pix
                           /\ worker'[w].seen = worker[w].seen
<1> DEFINE next == IF op = "idle" THEN Idle ELSE [worker[w] EXCEPT !.op = op]
<1>1. worker' = [worker EXCEPT ![w] = next]
  BY DEF Goto
<1>2. worker \in [Workers -> Handlers] /\ worker[w] \in Handlers
  BY DEF TopUpTypes
<1>3. next \in Handlers
  BY <1>2, IdleIsHandler DEF Handlers
<1>4. /\ op = "idle" => next = Idle
      /\ op # "idle" => /\ next.op = op /\ next.key = worker[w].key
                        /\ next.flow = worker[w].flow /\ next.outcome = worker[w].outcome
                        /\ next.target = worker[w].target /\ next.pix = worker[w].pix
                        /\ next.seen = worker[w].seen
  BY <1>2 DEF Handlers
<1> HIDE DEF next
<1> QED BY <1>1, <1>2, <1>3, <1>4

\* Beginning a transition.
LEMMA TransitionBegins ==
  ASSUME TopUpTypes, NEW w \in Workers, NEW target \in Targets, Transition(w, target)
  PROVE  /\ worker' \in [Workers -> Handlers]
         /\ \A v \in Workers : v # w => worker'[v] = worker[v]
         /\ worker'[w].op = "read" /\ worker'[w].target = target
         /\ worker'[w].key = worker[w].key
         /\ worker'[w].flow = worker[w].flow
         /\ worker'[w].outcome = worker[w].outcome
         /\ worker'[w].pix = worker[w].pix
<1>1. worker \in [Workers -> Handlers] /\ worker[w] \in Handlers
  BY DEF TopUpTypes
<1>2. worker' = [worker EXCEPT ![w] = [worker[w] EXCEPT !.op = "read", !.target = target]]
  BY DEF Transition
<1>3. [worker[w] EXCEPT !.op = "read", !.target = target] \in Handlers
  BY <1>1 DEF Handlers, TopUpOps
<1> QED BY <1>1, <1>2, <1>3 DEF Handlers

\* A handler that takes no step relies on what is still so.
LEMMA OthersRely ==
  ASSUME TopUpTypes, \A k \in TopUpKeys : TopUpCoherent(k) /\ Keeps(k),
         NEW h \in Handlers, Relies(h)
  PROVE  Relies(h)'
<1> SUFFICES ASSUME h.op # "idle" PROVE Relies(h)'
  BY DEF Relies
<1>1. h.key \in TopUpKeys /\ TopUpCoherent(h.key) /\ Keeps(h.key)
  BY DEF Relies
<1>2. h.op = "processed" => h.flow = "webhook"
  BY DEF Relies, WebhookOps
<1> QED BY <1>1, <1>2 DEF Relies, TopUpCoherent, Keeps

\* It is enough to look at the rows, and at the handler that takes the step.
LEMMA StepPreserves ==
  ASSUME TopUpInv, TopUpTypes',
         \A k \in TopUpKeys : Keeps(k) /\ TopUpCoherent(k)',
         \A v \in Workers : worker'[v] = worker[v] \/ Relies(worker[v])',
         wallet'[Driver].available = Cardinality(Paid')
  PROVE  TopUpInv'
<1>1. ASSUME NEW v \in Workers PROVE Relies(worker[v])'
  <2>1. worker[v] \in Handlers /\ Relies(worker[v])
    BY DEF TopUpInv, TopUpTypes
  <2>2. PICK h : h = worker[v]
    OBVIOUS
  <2>3. Relies(h)'
    BY <2>1, <2>2, OthersRely DEF TopUpInv
  <2>4. CASE worker'[v] = worker[v]
    BY <2>2, <2>3, <2>4 DEF Relies
  <2> QED BY <2>4
<1> QED BY <1>1 DEF TopUpInv

\* A step that posts nothing leaves the books as they are.
LEMMA BooksStay ==
  ASSUME TopUpInv, UNCHANGED money
  PROVE  /\ Ledger!TypeOK' /\ wallet'[Driver].available <= Cardinality(TopUpKeys)
         /\ wallet'[Driver].available = Cardinality(Paid')
         /\ \A k \in TopUpKeys : Credited(k)' <=> Credited(k)
<1>1. /\ wallet' = wallet /\ reservation' = reservation /\ journal' = journal
  BY DEF money
<1>2. \A k \in TopUpKeys : Credited(k)' <=> Credited(k)
  BY <1>1 DEF Credited, Ledger!Fresh
<1>3. Paid' = Paid
  BY <1>2 DEF Paid
<1>4. Ledger!TypeOK'
  BY <1>1 DEF TopUpInv, TopUpTypes, TypeOK, Ledger!TypeOK
<1> QED BY <1>1, <1>2, <1>3, <1>4 DEF TopUpInv, TopUpTypes, TypeOK

\* A step of a handler that changes neither the rows nor the provider.
LEMMA HandlerMoves ==
  ASSUME TopUpInv, NEW w \in Workers, UNCHANGED <<money, intent, event, provider>>,
         worker' \in [Workers -> Handlers],
         \A v \in Workers : v # w => worker'[v] = worker[v],
         \A h \in Handlers : h = worker'[w] => Relies(h)
  PROVE  TopUpInv'
<1>1. /\ \A k \in TopUpKeys : Credited(k)' <=> Credited(k)
      /\ wallet'[Driver].available = Cardinality(Paid')
      /\ Ledger!TypeOK' /\ wallet'[Driver].available <= Cardinality(TopUpKeys)
  BY BooksStay DEF money
<1>2. intent' = intent /\ event' = event /\ charge' = charge /\ sent' = sent
  BY DEF provider
<1>3. TopUpTypes'
  BY <1>1, <1>2 DEF TopUpInv, TopUpTypes, TypeOK
<1>4. \A k \in TopUpKeys : Keeps(k) /\ TopUpCoherent(k)'
  BY <1>1, <1>2 DEF TopUpInv, Keeps, TopUpCoherent, Shown
<1>5. worker'[w] \in Handlers
  OBVIOUS
<1>6. PICK h \in Handlers : h = worker'[w]
  BY <1>5
<1>7. Relies(h)'
  BY <1>4, <1>6, OthersRely DEF TopUpInv
<1>8. Relies(worker[w])'
  BY <1>6, <1>7 DEF Relies
<1> QED BY <1>1, <1>3, <1>4, <1>8, StepPreserves

\* An exception leaves a handler idle, or with the event of its webhook to mark.
LEMMA Throws ==
  ASSUME TopUpInv, NEW w \in Workers, worker[w].op # "idle", Throw(w)
  PROVE  /\ worker' \in [Workers -> Handlers]
         /\ \A v \in Workers : v # w => worker'[v] = worker[v]
         /\ \A h \in Handlers : h = worker'[w] => Relies(h)
<1> DEFINE op == IF worker[w].flow = "webhook" THEN "failed" ELSE "idle"
<1>1. TopUpTypes /\ Relies(worker[w])
  BY DEF TopUpInv
<1>2. op \in TopUpOps /\ Goto(w, op)
  BY DEF Throw, TopUpOps, WebhookOps
<1>3. /\ worker' \in [Workers -> Handlers]
      /\ \A v \in Workers : v # w => worker'[v] = worker[v]
  BY <1>1, <1>2, GoesTo
<1>4. CASE worker[w].flow = "webhook"
  <2>1. /\ worker'[w].op = "failed" /\ worker'[w].key = worker[w].key
        /\ worker'[w].flow = "webhook" /\ worker'[w].outcome = worker[w].outcome
    BY <1>1, <1>2, <1>4, GoesTo
  <2> QED BY <1>1, <1>3, <1>4, <2>1 DEF Relies
<1>5. CASE worker[w].flow # "webhook"
  <2>1. worker'[w] = Idle
    BY <1>1, <1>2, <1>5, GoesTo
  <2> QED BY <1>3, <2>1, IdleIsHandler
<1> QED BY <1>3, <1>4, <1>5

\* What a handler does once its transition is made.
LEMMA Proceeds ==
  ASSUME TopUpInv, NEW w \in Workers, worker[w].op \in {"read", "write"}, Proceed(w)
  PROVE  /\ worker' \in [Workers -> Handlers]
         /\ \A v \in Workers : v # w => worker'[v] = worker[v]
         /\ \/ worker'[w] = Idle
            \/ /\ worker'[w].op = "processed"
               /\ worker'[w].flow = "webhook" /\ worker[w].flow = "webhook"
               /\ worker'[w].key = worker[w].key
               /\ worker'[w].outcome = worker[w].outcome
            \/ /\ worker'[w].op = "read"
               /\ worker'[w].flow = "create" /\ worker[w].flow = "create"
               /\ worker'[w].key = worker[w].key
               /\ worker'[w].pix = worker[w].pix
               /\ worker'[w].target \in {"FAILED", "EXPIRED", "REQUIRES_REVIEW"}
               /\ worker'[w].target = "FAILED" => worker[w].pix = "DECLINED"
<1>1. TopUpTypes /\ {"processed", "idle"} \subseteq TopUpOps
  BY DEF TopUpInv, TopUpOps, WebhookOps
<1>2. CASE worker[w].flow = "webhook"
  <2>1. Goto(w, "processed")
    BY <1>2 DEF Proceed
  <2> QED BY <1>1, <1>2, <2>1, GoesTo
<1>3. CASE /\ worker[w].flow = "create" /\ Target(w) = "PENDING"
           /\ worker[w].pix \in {"DECLINED", "EXPIRED", "REQUIRES_REVIEW"}
  <2> DEFINE target == IntentOf(worker[w].pix)
  <2>1. /\ target \in {"FAILED", "EXPIRED", "REQUIRES_REVIEW"}
        /\ target = "FAILED" => worker[w].pix = "DECLINED"
    BY <1>3 DEF IntentOf
  <2>2. Transition(w, target)
    BY <1>3, worker[w].flow # "webhook" DEF Proceed
  <2>3. target \in Targets
    BY <2>1 DEF Targets
  <2> QED BY <1>1, <1>3, <2>1, <2>2, <2>3, TransitionBegins
<1>4. CASE /\ worker[w].flow # "webhook"
           /\ ~(/\ worker[w].flow = "create" /\ Target(w) = "PENDING"
                /\ worker[w].pix \in {"DECLINED", "EXPIRED", "REQUIRES_REVIEW"})
  <2>1. Goto(w, "idle")
    BY <1>4 DEF Proceed
  <2> QED BY <1>1, <2>1, GoesTo
<1> QED BY <1>2, <1>3, <1>4

\* Which it may rely on, when an intent that is to show a payment does.
LEMMA ProceedRelies ==
  ASSUME TopUpInv, NEW w \in Workers, worker[w].op \in {"read", "write"}, Proceed(w),
         worker[w].target = "CAPTURED" => Shown(worker[w].key)
  PROVE  \A h \in Handlers : h = worker'[w] => Relies(h)
<1>1. Relies(worker[w]) /\ worker[w].op # "idle"
  BY DEF TopUpInv
<1> QED BY <1>1, Proceeds, IdleIsHandler DEF Relies, WebhookOps, Targets

-----------------------------------------------------------------------------
(* The actions *)

LEMMA ReadIntentKeeps == ASSUME TopUpInv, NEW w \in Workers, ReadIntent(w) PROVE TopUpInv'
<1>1. /\ TopUpTypes /\ Relies(worker[w]) /\ worker[w] \in Handlers
      /\ worker[w].op = "read" /\ worker[w].key \in TopUpKeys
      /\ TopUpCoherent(worker[w].key)
  BY DEF TopUpInv, TopUpTypes, ReadIntent, At, Relies
<1>2. UNCHANGED <<money, intent, event, provider>>
  BY DEF ReadIntent, rows
<1>3. CASE ~LegalIntentMove(Intent(w).status, Target(w))
  <2>1. Throw(w)
    BY <1>3 DEF ReadIntent
  <2> QED BY <1>1, <1>2, <2>1, Throws, HandlerMoves
<1>4. CASE LegalIntentMove(Intent(w).status, Target(w)) /\ Intent(w).status = Target(w)
  <2>1. Proceed(w)
    BY <1>4 DEF ReadIntent
  <2>2. worker[w].target = "CAPTURED" => Shown(worker[w].key)
    BY <1>1, <1>4 DEF Relies, Shown, Intent, Target, Key
  <2> QED BY <1>1, <1>2, <2>1, <2>2, Proceeds, ProceedRelies, HandlerMoves
<1>5. CASE LegalIntentMove(Intent(w).status, Target(w)) /\ Intent(w).status # Target(w)
  <2> DEFINE next == [worker[w] EXCEPT !.op = "write", !.seen = Intent(w).status,
                                       !.version = Intent(w).version]
  <2>1. worker' = [worker EXCEPT ![w] = next]
    BY <1>5 DEF ReadIntent
  <2>2. next \in Handlers
    BY ZenonT(20), <1>1 DEF TopUpTypes, TypeOK, Intent, Key, Handlers, TopUpOps
  <2>3. /\ next.op = "write" /\ next.key = worker[w].key /\ next.flow = worker[w].flow
        /\ next.outcome = worker[w].outcome /\ next.target = worker[w].target
        /\ next.pix = worker[w].pix /\ next.seen = Intent(w).status
    BY <1>1 DEF Handlers
  <2> HIDE DEF next
  <2>4. Relies(next)
    BY <1>1, <1>5, <2>3 DEF Relies, Target, WebhookOps
  <2>5. worker \in [Workers -> Handlers]
    BY <1>1 DEF TopUpTypes
  <2> QED BY <1>2, <2>1, <2>2, <2>4, <2>5, HandlerMoves
<1> QED BY <1>3, <1>4, <1>5

\* What a handler at work and its top-up satisfy.
LEMMA AtWork ==
  ASSUME TopUpInv, NEW w \in Workers, worker[w].op # "idle"
  PROVE  /\ TopUpTypes /\ worker \in [Workers -> Handlers] /\ worker[w] \in Handlers
         /\ Relies(worker[w]) /\ worker[w].key \in TopUpKeys
         /\ TopUpCoherent(worker[w].key)
BY DEF TopUpInv, TopUpTypes, Relies

\* A step that writes the intent of top-up k.
LEMMA IntentMoves ==
  ASSUME TopUpInv, NEW k \in TopUpKeys, UNCHANGED <<money, event, provider>>,
         NEW row \in [status : IntentStatus \cup {"NONE"}, version : Nat, ref : BOOLEAN],
         intent' = [intent EXCEPT ![k] = row],
         row.status = "CAPTURED" => Credited(k),
         charge[k] = "APPROVED" /\ Shown(k) => row.status \in {"CAPTURED", "REQUIRES_REVIEW"},
         worker' \in [Workers -> Handlers],
         \A v \in Workers : worker'[v] = worker[v] \/ Relies(worker[v])'
  PROVE  TopUpInv'
<1>1. /\ \A l \in TopUpKeys : Credited(l)' <=> Credited(l)
      /\ wallet'[Driver].available = Cardinality(Paid')
      /\ Ledger!TypeOK' /\ wallet'[Driver].available <= Cardinality(TopUpKeys)
  BY BooksStay DEF money
<1>2. /\ event' = event /\ charge' = charge /\ sent' = sent
      /\ intent \in [TopUpKeys -> [status : IntentStatus \cup {"NONE"}, version : Nat,
                                   ref : BOOLEAN]]
  BY DEF provider, TopUpInv, TopUpTypes, TypeOK
<1>3. /\ intent' \in [TopUpKeys -> [status : IntentStatus \cup {"NONE"}, version : Nat,
                                    ref : BOOLEAN]]
      /\ intent'[k] = row
      /\ \A l \in TopUpKeys : l # k => intent'[l] = intent[l]
  BY <1>2
<1>4. TopUpTypes'
  BY <1>1, <1>2, <1>3 DEF TopUpInv, TopUpTypes, TypeOK
<1>5. charge[k] = "APPROVED" /\ Shown(k) => Shown(k)'
  BY <1>1, <1>3 DEF Shown
<1>6. ASSUME NEW l \in TopUpKeys PROVE Keeps(l) /\ TopUpCoherent(l)'
  <2>1. TopUpCoherent(l)
    BY DEF TopUpInv
  <2>2. CASE l = k
    BY <1>1, <1>2, <1>3, <1>5, <2>1, <2>2 DEF Keeps, TopUpCoherent
  <2>3. CASE l # k
    BY <1>1, <1>2, <1>3, <2>1, <2>3 DEF Keeps, TopUpCoherent, Shown
  <2> QED BY <2>2, <2>3
<1> QED BY <1>1, <1>4, <1>6, StepPreserves

LEMMA WriteIntentKeeps == ASSUME TopUpInv, NEW w \in Workers, WriteIntent(w) PROVE TopUpInv'
<1>1. worker[w].op = "write" /\ worker[w].op # "idle"
  BY DEF WriteIntent, At
<1>2. /\ TopUpTypes /\ worker[w] \in Handlers /\ Relies(worker[w])
      /\ worker[w].key \in TopUpKeys /\ TopUpCoherent(worker[w].key)
      /\ worker[w].target \in Targets
  BY <1>1, AtWork DEF Relies
<1>3. CASE ~Unchanged(w)
  <2>1. UNCHANGED <<money, intent, event, provider>>
    BY <1>3 DEF WriteIntent
  <2>2. CASE Intent(w).status = Target(w)
    <3>1. Proceed(w)
      BY <1>3, <2>2 DEF WriteIntent
    <3>2. worker[w].target = "CAPTURED" => Shown(worker[w].key)
      BY <1>1, <1>2, <2>2 DEF Relies, Shown, Intent, Target, Key
    <3> QED BY <1>1, <2>1, <3>1, <3>2, Proceeds, ProceedRelies, HandlerMoves
  <2>3. CASE Intent(w).status # Target(w)
    <3>1. Throw(w)
      BY <1>3, <2>3 DEF WriteIntent
    <3> QED BY <1>1, <2>1, <3>1, Throws, HandlerMoves
  <2> QED BY <2>2, <2>3
<1>4. CASE Unchanged(w)
  <2>1. PICK k \in TopUpKeys, target \in Targets :
               k = worker[w].key /\ target = worker[w].target
    BY <1>2
  <2>2. PICK row : row = [status |-> target, version |-> intent[k].version + 1,
                          ref |-> intent[k].ref \/ target = "PENDING"]
    OBVIOUS
  <2>3. /\ intent' = [intent EXCEPT ![k] = row]
        /\ Proceed(w) /\ UNCHANGED <<money, event, provider>>
    BY <1>4, <2>1, <2>2 DEF WriteIntent, Key, Target
  <2>4. row \in [status : IntentStatus \cup {"NONE"}, version : Nat, ref : BOOLEAN]
        /\ row.status = target
    <3>1. intent[k].version \in Nat /\ target \in IntentStatus
      BY <1>2, IntentStatuses DEF TopUpTypes, TypeOK, Targets
    <3>2. (intent[k].ref \/ target = "PENDING") \in BOOLEAN
      OBVIOUS
    <3> QED BY <2>2, <3>1, <3>2
  <2>5. LegalIntentMove(intent[k].status, target) /\ (target = "CAPTURED" => Credited(k))
    BY <1>1, <1>2, <1>4, <2>1 DEF Relies, Unchanged, Intent, Key
  <2>6. charge[k] = "APPROVED" /\ Shown(k) => target \in {"CAPTURED", "REQUIRES_REVIEW"}
    BY <1>1, <1>2, <2>1, <2>5, ShownMoves DEF Shown, Relies
  <2>7. PICK h \in Handlers : h = worker'[w]
    BY <1>1, <2>3, Proceeds
  <2>8. Relies(h)'
    <3>1. intent'[k].status = target
      BY <1>2, <2>3, <2>4 DEF TopUpTypes, TypeOK
    <3>2. target = "CAPTURED" => Shown(k)'
      BY <2>3, <2>5, <3>1, BooksStay DEF Shown
    <3>3. charge' = charge /\ sent' = sent
      BY <2>3 DEF provider
    <3>4. worker[w].flow = "webhook" =>
            /\ worker[w].outcome \in Outcomes /\ worker[w].outcome \in sent'[k]
            /\ worker[w].outcome = "APPROVED" => target = "CAPTURED"
      BY <1>1, <1>2, <2>1, <3>3 DEF Relies
    <3>5. worker[w].flow = "create" /\ worker[w].pix = "DECLINED" => charge'[k] = "DECLINED"
      BY <1>1, <1>2, <2>1, <3>3 DEF Relies
    <3>6. \/ h = Idle
          \/ /\ h.op = "processed" /\ h.flow = "webhook" /\ worker[w].flow = "webhook"
             /\ h.key = k /\ h.outcome = worker[w].outcome
          \/ /\ h.op = "read" /\ h.flow = "create" /\ worker[w].flow = "create"
             /\ h.key = k /\ h.pix = worker[w].pix
             /\ h.target \in {"FAILED", "EXPIRED", "REQUIRES_REVIEW"}
             /\ h.target = "FAILED" => worker[w].pix = "DECLINED"
      BY <1>1, <2>1, <2>3, <2>7, Proceeds
    <3>7. h = Idle => Relies(h)'
      BY DEF Relies, Idle
    <3>8. h # Idle => Relies(h)'
      BY <3>2, <3>4, <3>5, <3>6 DEF Relies, WebhookOps, Targets
    <3> QED BY <3>7, <3>8
  <2>9. Relies(worker[w])'
    BY <2>7, <2>8 DEF Relies
  <2>10. /\ worker' \in [Workers -> Handlers]
         /\ \A v \in Workers : v # w => worker'[v] = worker[v]
    BY <1>1, <2>3, Proceeds
  <2> QED BY <2>3, <2>4, <2>5, <2>6, <2>9, <2>10, IntentMoves
<1> QED BY <1>3, <1>4

LEMMA ApplyKeeps == ASSUME TopUpInv, NEW w \in Workers, Apply(w) PROVE TopUpInv'
<1>1. worker[w].op = "apply" /\ worker[w].op # "idle"
  BY DEF Apply, At
<1>2. /\ TopUpTypes /\ worker[w] \in Handlers /\ Relies(worker[w])
      /\ worker[w].key \in TopUpKeys /\ TopUpCoherent(worker[w].key)
  BY <1>1, AtWork
<1>3. worker[w].flow = "webhook" /\ worker[w].outcome \in sent[worker[w].key]
  BY <1>1, <1>2 DEF Relies, WebhookOps
<1>4. UNCHANGED <<money, intent, event, provider>>
  BY DEF Apply, rows
<1>5. ASSUME NEW op \in {"processed", "review", "credit"}, Goto(w, op),
             op = "processed" => Intent(w).status = "CAPTURED",
             op = "credit" => worker[w].outcome = "APPROVED"
      PROVE  TopUpInv'
  <2>1. op \in TopUpOps /\ op # "idle"
    BY DEF TopUpOps, WebhookOps
  <2>2. op = "processed" => Shown(worker[w].key)
    BY <1>2, <1>5 DEF Shown, TopUpCoherent, Intent, Key
  <2>3. /\ worker' \in [Workers -> Handlers]
        /\ \A v \in Workers : v # w => worker'[v] = worker[v]
        /\ worker'[w].op = op /\ worker'[w].key = worker[w].key
        /\ worker'[w].flow = worker[w].flow
        /\ worker'[w].outcome = worker[w].outcome
    BY <1>2, <1>5, <2>1, GoesTo
  <2>4. \A h \in Handlers : h = worker'[w] => Relies(h)
    BY <1>1, <1>2, <1>3, <1>5, <2>2, <2>3 DEF Relies
  <2> QED BY <1>4, <2>3, <2>4, HandlerMoves
<1>6. ASSUME NEW target \in {"FAILED", "EXPIRED"}, Transition(w, target),
             worker[w].outcome # "APPROVED",
             target = "FAILED" => worker[w].outcome = "DECLINED"
      PROVE  TopUpInv'
  <2>1. target \in Targets
    BY DEF Targets
  <2>2. target = "FAILED" => charge[worker[w].key] = "DECLINED"
    BY <1>2, <1>3, <1>6 DEF TopUpCoherent
  <2>3. /\ worker' \in [Workers -> Handlers]
        /\ \A v \in Workers : v # w => worker'[v] = worker[v]
        /\ worker'[w].op = "read" /\ worker'[w].target = target
        /\ worker'[w].key = worker[w].key
        /\ worker'[w].flow = worker[w].flow
        /\ worker'[w].outcome = worker[w].outcome
    BY <1>2, <1>6, <2>1, TransitionBegins
  <2>4. \A h \in Handlers : h = worker'[w] => Relies(h)
    BY <1>1, <1>2, <1>3, <1>6, <2>1, <2>2, <2>3 DEF Relies, WebhookOps
  <2> QED BY <1>4, <2>3, <2>4, HandlerMoves
<1>7. CASE ~Intent(w).ref
  <2>1. Throw(w)
    BY <1>7 DEF Apply
  <2> QED BY <1>1, <1>4, <2>1, Throws, HandlerMoves
<1>8. CASE Intent(w).ref /\ worker[w].payload = "altered"
  <2>1. Goto(w, "review")
    BY <1>8 DEF Apply
  <2> QED BY <1>5, <2>1
<1>9. CASE Intent(w).ref /\ worker[w].payload = "exact"
  <2>1. CASE worker[w].outcome = "APPROVED"
    <3> DEFINE op == CASE Intent(w).status = "CAPTURED" -> "processed"
                       [] Intent(w).status \in {"CANCELLED", "EXPIRED"} -> "review"
                       [] OTHER -> "credit"
    <3>1. Goto(w, op)
      BY <1>9, <2>1 DEF Apply
    <3>2. /\ op \in {"processed", "review", "credit"}
          /\ op = "processed" => Intent(w).status = "CAPTURED"
      OBVIOUS
    <3> HIDE DEF op
    <3> QED BY <1>5, <2>1, <3>1, <3>2
  <2>2. CASE worker[w].outcome = "DECLINED"
    <3>1. Transition(w, "FAILED")
      BY <1>9, <2>2 DEF Apply
    <3> QED BY <1>6, <2>2, <3>1
  <2>3. CASE worker[w].outcome = "EXPIRED"
    <3>1. Transition(w, "EXPIRED")
      BY <1>9, <2>3 DEF Apply
    <3> QED BY <1>6, <2>3, <3>1
  <2>4. CASE worker[w].outcome = "REQUIRES_REVIEW"
    <3>1. Goto(w, "review")
      BY <1>9, <2>4 DEF Apply
    <3> QED BY <1>5, <3>1
  <2>5. worker[w].outcome \in Outcomes
    BY <1>1, <1>2, <1>3 DEF Relies
  <2> QED BY <2>1, <2>2, <2>3, <2>4, <2>5 DEF Outcomes
<1>10. worker[w].payload \in {"exact", "altered"}
  BY <1>2 DEF Handlers
<1> QED BY <1>7, <1>8, <1>9, <1>10

LEMMA CallFailsKeeps == ASSUME TopUpInv, NEW w \in Workers, CallFails(w) PROVE TopUpInv'
<1>1. worker[w].op # "idle" /\ Throw(w) /\ UNCHANGED <<money, intent, event, provider>>
  BY DEF CallFails, rows
<1> QED BY <1>1, Throws, HandlerMoves

LEMMA CancelKeeps ==
  ASSUME TopUpInv, NEW w \in Workers, NEW k \in TopUpKeys, Cancel(w, k)
  PROVE  TopUpInv'
<1> DEFINE next == [Idle EXCEPT !.op = "cancel", !.flow = "cancel", !.key = k]
<1>1. worker' = [worker EXCEPT ![w] = next] /\ UNCHANGED <<money, intent, event, provider>>
  BY DEF Cancel, rows
<1>2. next \in Handlers /\ Relies(next)
  BY DEF Idle, Handlers, TopUpOps, Relies, WebhookOps
<1>3. worker \in [Workers -> Handlers]
  BY DEF TopUpInv, TopUpTypes
<1> HIDE DEF next
<1> QED BY <1>1, <1>2, <1>3, HandlerMoves

\* A step that writes an event, of a handler or of a delivery.
LEMMA EventWritten ==
  ASSUME TopUpInv, NEW w \in Workers, UNCHANGED <<money, intent, provider>>,
         event' \in [TopUpKeys \X Outcomes ->
                      [status : {"NONE", "RECEIVED", "PROCESSING", "PROCESSED",
                                 "FAILED", "REQUIRES_REVIEW"},
                       payload : {"exact", "altered"}]],
         \A k \in TopUpKeys : \/ event'[<<k, "APPROVED">>] = event[<<k, "APPROVED">>]
                              \/ event'[<<k, "APPROVED">>].status # "PROCESSED"
                              \/ charge[k] = "APPROVED" /\ Shown(k),
         worker' \in [Workers -> Handlers],
         \A v \in Workers : v # w => worker'[v] = worker[v],
         \A h \in Handlers : h = worker'[w] => Relies(h)
  PROVE  TopUpInv'
<1>1. /\ \A k \in TopUpKeys : Credited(k)' <=> Credited(k)
      /\ wallet'[Driver].available = Cardinality(Paid')
      /\ Ledger!TypeOK' /\ wallet'[Driver].available <= Cardinality(TopUpKeys)
  BY BooksStay DEF money
<1>2. intent' = intent /\ charge' = charge /\ sent' = sent
  BY DEF provider
<1>3. TopUpTypes'
  BY <1>1, <1>2 DEF TopUpInv, TopUpTypes, TypeOK
<1>4. \A k \in TopUpKeys : Keeps(k)
  BY <1>1, <1>2 DEF Keeps, Shown
<1>5. \A k \in TopUpKeys : TopUpCoherent(k)'
  BY ZenonT(20), <1>1, <1>2 DEF TopUpInv, TopUpCoherent, Shown
<1>6. PICK h \in Handlers : h = worker'[w]
  OBVIOUS
<1>7. Relies(h)'
  BY <1>4, <1>6, OthersRely DEF TopUpInv
<1>8. Relies(worker[w])'
  BY <1>6, <1>7 DEF Relies
<1> QED BY <1>1, <1>3, <1>4, <1>5, <1>8, StepPreserves

LEMMA MarkEventKeeps ==
  ASSUME TopUpInv, NEW w \in Workers,
         MarkProcessing(w) \/ MarkProcessed(w) \/ MarkFailed(w)
  PROVE  TopUpInv'
<1>1. ASSUME NEW from \in WebhookOps, NEW status \in {"PROCESSING", "PROCESSED", "FAILED"},
             NEW op \in {"apply", "idle"}, MarkEvent(w, from, status, op),
             status = "PROCESSED" => from = "processed"
      PROVE  TopUpInv'
  <2>1. worker[w].op = from /\ worker[w].op # "idle"
    BY <1>1 DEF MarkEvent, At, WebhookOps
  <2>2. /\ TopUpTypes /\ worker[w] \in Handlers /\ Relies(worker[w])
        /\ worker[w].key \in TopUpKeys /\ TopUpCoherent(worker[w].key)
    BY <2>1, AtWork
  <2>3. worker[w].flow = "webhook" /\ worker[w].outcome \in sent[worker[w].key]
        /\ worker[w].outcome \in Outcomes
    BY <2>1, <2>2 DEF Relies, WebhookOps
  <2>4. /\ event' = [event EXCEPT ![Event(w)].status = status] /\ Goto(w, op)
        /\ UNCHANGED <<money, intent, provider>>
    BY <1>1 DEF MarkEvent
  <2>5. Event(w) = <<worker[w].key, worker[w].outcome>> /\ Event(w) \in TopUpKeys \X Outcomes
    BY <2>2, <2>3 DEF Event, Key
  <2>6. /\ event' \in [TopUpKeys \X Outcomes ->
                        [status : {"NONE", "RECEIVED", "PROCESSING", "PROCESSED",
                                   "FAILED", "REQUIRES_REVIEW"},
                         payload : {"exact", "altered"}]]
        /\ event'[Event(w)].status = status
        /\ \A e \in TopUpKeys \X Outcomes : e # Event(w) => event'[e] = event[e]
    BY <2>2, <2>4, <2>5 DEF TopUpTypes, TypeOK
  <2>7. status = "PROCESSED" /\ worker[w].outcome = "APPROVED" =>
          charge[worker[w].key] = "APPROVED" /\ Shown(worker[w].key)
    BY <1>1, <2>1, <2>2, <2>3 DEF Relies, TopUpCoherent
  <2>8. ASSUME NEW k \in TopUpKeys
        PROVE  \/ event'[<<k, "APPROVED">>] = event[<<k, "APPROVED">>]
               \/ event'[<<k, "APPROVED">>].status # "PROCESSED"
               \/ charge[k] = "APPROVED" /\ Shown(k)
    <3>1. <<k, "APPROVED">> \in TopUpKeys \X Outcomes
      BY DEF Outcomes
    <3>2. CASE <<k, "APPROVED">> = Event(w)
      BY <2>5, <2>6, <2>7, <3>2
    <3>3. CASE <<k, "APPROVED">> # Event(w)
      BY <2>6, <3>1, <3>3
    <3> QED BY <3>2, <3>3
  <2>9. /\ worker' \in [Workers -> Handlers]
        /\ \A v \in Workers : v # w => worker'[v] = worker[v]
        /\ \A h \in Handlers : h = worker'[w] => Relies(h)
    <3>1. op \in TopUpOps
      BY DEF TopUpOps, WebhookOps
    <3>2. CASE op = "idle"
      BY <2>2, <2>4, <3>1, <3>2, GoesTo, IdleIsHandler
    <3>3. CASE op = "apply"
      BY <2>2, <2>3, <2>4, <3>1, <3>3, GoesTo DEF Relies
    <3> QED BY <3>2, <3>3
  <2> QED BY <2>4, <2>6, <2>8, <2>9, EventWritten
<1>2. CASE MarkProcessing(w)
  BY <1>1, <1>2 DEF MarkProcessing, WebhookOps
<1>3. CASE MarkProcessed(w)
  BY <1>1, <1>3 DEF MarkProcessed, WebhookOps
<1>4. CASE MarkFailed(w)
  BY <1>1, <1>4 DEF MarkFailed, WebhookOps
<1> QED BY <1>2, <1>3, <1>4

LEMMA DeliverKeeps ==
  ASSUME TopUpInv, NEW w \in Workers, NEW k \in TopUpKeys, NEW outcome \in Outcomes,
         NEW p \in Payloads, Deliver(w, k, outcome, p)
  PROVE  TopUpInv'
<1> DEFINE e == <<k, outcome>>
<1>1. /\ TopUpTypes /\ e \in TopUpKeys \X Outcomes /\ outcome \in sent[k]
      /\ p \in {"exact", "altered"}
      /\ \A l \in TopUpKeys : <<l, "APPROVED">> \in TopUpKeys \X Outcomes
      /\ UNCHANGED <<money, intent, provider>>
      /\ FirstDelivery(w, e, p) \/ RepeatedDelivery(w, e, p) \/ ConflictingDelivery(e, p)
  BY TopUpAssumption DEF TopUpInv, Deliver, Outcomes
<1>2. /\ event \in [TopUpKeys \X Outcomes ->
                     [status : {"NONE", "RECEIVED", "PROCESSING", "PROCESSED",
                                "FAILED", "REQUIRES_REVIEW"},
                      payload : {"exact", "altered"}]]
      /\ worker \in [Workers -> Handlers]
  BY <1>1 DEF TopUpTypes, TypeOK
<1>3. \A v \in Workers : \A h \in Handlers : h = worker[v] => Relies(h)
  BY DEF TopUpInv
<1>4. ASSUME NEW op \in {"received", "apply"}, Receive(w, e, p, op)
      PROVE  /\ worker' \in [Workers -> Handlers]
             /\ \A v \in Workers : v # w => worker'[v] = worker[v]
             /\ \A h \in Handlers : h = worker'[w] => Relies(h)
  <2> DEFINE next == [Idle EXCEPT !.op = op, !.flow = "webhook", !.key = k,
                                  !.outcome = outcome, !.payload = p]
  <2>1. worker' = [worker EXCEPT ![w] = next]
    BY <1>4 DEF Receive
  <2>2. next \in Handlers
    BY <1>1 DEF Idle, Handlers, TopUpOps, WebhookOps
  <2>3. next.op = op /\ next.flow = "webhook" /\ next.key = k /\ next.outcome = outcome
    BY DEF Idle
  <2> HIDE DEF next
  <2>4. Relies(next)
    BY <1>1, <2>3 DEF Relies
  <2> QED BY <1>2, <2>1, <2>2, <2>4
<1>5. CASE UNCHANGED <<event, worker>>
  BY <1>1, <1>2, <1>3, <1>5, EventWritten
<1>6. CASE FirstDelivery(w, e, p)
  <2>1. /\ event' = [event EXCEPT ![e] = [status |-> "RECEIVED", payload |-> p]]
        /\ Receive(w, e, p, "received")
    BY <1>6 DEF FirstDelivery
  <2>2. event' \in [TopUpKeys \X Outcomes ->
                     [status : {"NONE", "RECEIVED", "PROCESSING", "PROCESSED",
                                "FAILED", "REQUIRES_REVIEW"},
                      payload : {"exact", "altered"}]]
    BY <1>1, <1>2, <2>1
  <2>3. \A l \in TopUpKeys : \/ event'[<<l, "APPROVED">>] = event[<<l, "APPROVED">>]
                             \/ event'[<<l, "APPROVED">>].status # "PROCESSED"
    BY <1>1, <1>2, <2>1
  <2> QED BY <1>1, <1>4, <2>1, <2>2, <2>3, EventWritten
<1>7. CASE RepeatedDelivery(w, e, p)
  <2>1. CASE event[e].status = "FAILED"
    <3>1. /\ event' = [event EXCEPT ![e].status = "PROCESSING"]
          /\ Receive(w, e, p, "apply")
      BY <1>7, <2>1 DEF RepeatedDelivery
    <3>2. event' \in [TopUpKeys \X Outcomes ->
                       [status : {"NONE", "RECEIVED", "PROCESSING", "PROCESSED",
                                  "FAILED", "REQUIRES_REVIEW"},
                        payload : {"exact", "altered"}]]
      BY <1>1, <1>2, <3>1
    <3>3. \A l \in TopUpKeys : \/ event'[<<l, "APPROVED">>] = event[<<l, "APPROVED">>]
                               \/ event'[<<l, "APPROVED">>].status # "PROCESSED"
      BY <1>1, <1>2, <3>1
    <3> QED BY <1>1, <1>4, <3>1, <3>2, <3>3, EventWritten
  <2>2. CASE event[e].status # "FAILED"
    BY <1>5, <1>7, <2>2 DEF RepeatedDelivery
  <2> QED BY <2>1, <2>2
<1>8. CASE ConflictingDelivery(e, p)
  <2>1. event' = [event EXCEPT ![e].status = "REQUIRES_REVIEW"] /\ worker' = worker
    BY <1>8 DEF ConflictingDelivery
  <2>2. event' \in [TopUpKeys \X Outcomes ->
                     [status : {"NONE", "RECEIVED", "PROCESSING", "PROCESSED",
                                "FAILED", "REQUIRES_REVIEW"},
                      payload : {"exact", "altered"}]]
    BY <1>1, <1>2, <2>1
  <2>3. \A l \in TopUpKeys : \/ event'[<<l, "APPROVED">>] = event[<<l, "APPROVED">>]
                             \/ event'[<<l, "APPROVED">>].status # "PROCESSED"
    BY <1>1, <1>2, <2>1
  <2> QED BY <1>1, <1>2, <1>3, <2>1, <2>2, <2>3, EventWritten
<1> QED BY <1>1, <1>6, <1>7, <1>8

\* A step of the provider's, about top-up k.
LEMMA ChargeMoves ==
  ASSUME TopUpInv, NEW k \in TopUpKeys, UNCHANGED <<money, intent, event>>,
         charge' \in [TopUpKeys -> ChargeStatus],
         sent' \in [TopUpKeys -> SUBSET Outcomes],
         \A l \in TopUpKeys : l # k => charge'[l] = charge[l] /\ sent'[l] = sent[l],
         charge[k] \in {"APPROVED", "DECLINED"} => charge'[k] = charge[k],
         sent[k] \subseteq sent'[k],
         sent'[k] \cap {"APPROVED", "DECLINED"} \subseteq {charge'[k]},
         worker' \in [Workers -> Handlers],
         \A v \in Workers : worker'[v] = worker[v] \/ Relies(worker[v])'
  PROVE  TopUpInv'
<1>1. /\ \A l \in TopUpKeys : Credited(l)' <=> Credited(l)
      /\ wallet'[Driver].available = Cardinality(Paid')
      /\ Ledger!TypeOK' /\ wallet'[Driver].available <= Cardinality(TopUpKeys)
  BY BooksStay DEF money
<1>2. TopUpTypes'
  BY <1>1 DEF TopUpInv, TopUpTypes, TypeOK
<1>3. ASSUME NEW l \in TopUpKeys PROVE Keeps(l) /\ TopUpCoherent(l)'
  <2>1. TopUpCoherent(l)
    BY DEF TopUpInv
  <2>2. Keeps(l)
    BY <1>1 DEF Keeps, Shown
  <2>3. TopUpCoherent(l)'
    <3>1. CASE l = k
      BY <1>1, <2>1, <3>1 DEF TopUpCoherent, Shown
    <3>2. CASE l # k
      BY <1>1, <2>1, <3>2 DEF TopUpCoherent, Shown
    <3> QED BY <3>1, <3>2
  <2> QED BY <2>2, <2>3
<1> QED BY <1>1, <1>2, <1>3, StepPreserves

LEMMA PayKeeps == ASSUME TopUpInv, NEW k \in TopUpKeys, Pay(k) PROVE TopUpInv'
<1>1. /\ charge \in [TopUpKeys -> ChargeStatus] /\ sent \in [TopUpKeys -> SUBSET Outcomes]
      /\ worker \in [Workers -> Handlers]
      /\ TopUpCoherent(k)
  BY DEF TopUpInv, TopUpTypes, TypeOK
<1>2. /\ charge' = [charge EXCEPT ![k] = "APPROVED"]
      /\ sent' = [sent EXCEPT ![k] = @ \cup {"APPROVED"}]
      /\ charge[k] \in {"PENDING", "EXPIRED", "REQUIRES_REVIEW"}
      /\ UNCHANGED <<money, intent, event, worker>>
  BY DEF Pay, rows
<1>3. "APPROVED" \in ChargeStatus /\ "APPROVED" \in Outcomes
  BY DEF ChargeStatus, Outcomes
<1>4. charge' \in [TopUpKeys -> ChargeStatus] /\ sent' \in [TopUpKeys -> SUBSET Outcomes]
  BY <1>1, <1>2, <1>3
<1>5. sent'[k] \cap {"APPROVED", "DECLINED"} \subseteq {charge'[k]} /\ sent[k] \subseteq sent'[k]
  BY <1>1, <1>2 DEF TopUpCoherent
<1> QED BY <1>1, <1>2, <1>4, <1>5, ChargeMoves

LEMMA ExpireKeeps == ASSUME TopUpInv, NEW k \in TopUpKeys, Expire(k) PROVE TopUpInv'
<1>1. /\ charge \in [TopUpKeys -> ChargeStatus] /\ sent \in [TopUpKeys -> SUBSET Outcomes]
      /\ worker \in [Workers -> Handlers]
      /\ TopUpCoherent(k)
  BY DEF TopUpInv, TopUpTypes, TypeOK
<1>2. /\ charge' = [charge EXCEPT ![k] = "EXPIRED"]
      /\ sent' = [sent EXCEPT ![k] = @ \cup {"EXPIRED"}]
      /\ charge[k] = "PENDING"
      /\ UNCHANGED <<money, intent, event, worker>>
  BY DEF Expire, rows
<1>3. "EXPIRED" \in ChargeStatus /\ "EXPIRED" \in Outcomes
  BY DEF ChargeStatus, Outcomes
<1>4. charge' \in [TopUpKeys -> ChargeStatus] /\ sent' \in [TopUpKeys -> SUBSET Outcomes]
  BY <1>1, <1>2, <1>3
<1>5. sent'[k] \cap {"APPROVED", "DECLINED"} \subseteq {charge'[k]} /\ sent[k] \subseteq sent'[k]
  BY <1>1, <1>2 DEF TopUpCoherent
<1> QED BY <1>1, <1>2, <1>4, <1>5, ChargeMoves

LEMMA CancelPixChargeKeeps ==
  ASSUME TopUpInv, NEW w \in Workers, CancelPixCharge(w) PROVE TopUpInv'
<1>1. worker[w].op = "cancel" /\ worker[w].op # "idle"
  BY DEF CancelPixCharge, At
<1>2. /\ TopUpTypes /\ worker[w] \in Handlers /\ Relies(worker[w])
      /\ worker[w].key \in TopUpKeys /\ TopUpCoherent(worker[w].key)
  BY <1>1, AtWork
<1>3. PICK k \in TopUpKeys : k = worker[w].key
  BY <1>2
<1>4. /\ charge \in [TopUpKeys -> ChargeStatus] /\ sent \in [TopUpKeys -> SUBSET Outcomes]
      /\ worker \in [Workers -> Handlers]
  BY <1>2 DEF TopUpTypes, TypeOK
<1>5. /\ charge' = [charge EXCEPT ![k] = IF charge[k] = "PENDING" THEN "CANCELLED"
                                         ELSE charge[k]]
      /\ Transition(w, "CANCELLED") /\ sent' = sent /\ UNCHANGED <<money, intent, event>>
  BY <1>3 DEF CancelPixCharge, Key, rows
<1>6. "CANCELLED" \in ChargeStatus /\ "CANCELLED" \in Targets
  BY DEF ChargeStatus, Targets
<1>7. charge' \in [TopUpKeys -> ChargeStatus]
  BY <1>4, <1>5, <1>6
<1>8. sent'[k] \cap {"APPROVED", "DECLINED"} \subseteq {charge'[k]}
  BY <1>2, <1>3, <1>4, <1>5 DEF TopUpCoherent
<1>9. /\ worker' \in [Workers -> Handlers]
      /\ \A v \in Workers : v # w => worker'[v] = worker[v]
      /\ worker'[w].op = "read" /\ worker'[w].target = "CANCELLED"
      /\ worker'[w].key = k
      /\ worker'[w].flow = worker[w].flow
      /\ worker'[w].outcome = worker[w].outcome
      /\ worker'[w].pix = worker[w].pix
  BY <1>2, <1>3, <1>5, <1>6, TransitionBegins

<1>10. PICK h \in Handlers : h = worker'[w]
  BY <1>9
<1>11. Relies(h)'
  BY <1>1, <1>2, <1>6, <1>9, <1>10 DEF Relies, WebhookOps
<1>12. Relies(worker[w])'
  BY <1>10, <1>11 DEF Relies
<1>13. \A l \in TopUpKeys : l # k => charge'[l] = charge[l] /\ sent'[l] = sent[l]
  BY <1>4, <1>5
<1>14. charge[k] \in {"APPROVED", "DECLINED"} => charge'[k] = charge[k]
  BY <1>4, <1>5
<1> QED BY <1>4, <1>5, <1>7, <1>8, <1>9, <1>12, <1>13, <1>14, ChargeMoves

LEMMA CreatePixChargeKeeps ==
  ASSUME TopUpInv, NEW w \in Workers, CreatePixCharge(w) PROVE TopUpInv'
<1>1. worker[w].op = "charge" /\ worker[w].op # "idle"
  BY DEF CreatePixCharge, At
<1>2. /\ TopUpTypes /\ worker[w] \in Handlers /\ Relies(worker[w])
      /\ worker[w].key \in TopUpKeys /\ TopUpCoherent(worker[w].key)
      /\ worker[w].flow = "create"
  BY <1>1, AtWork DEF Relies
<1>3. PICK k \in TopUpKeys : k = worker[w].key
  BY <1>2
<1>4. /\ charge \in [TopUpKeys -> ChargeStatus] /\ sent \in [TopUpKeys -> SUBSET Outcomes]
      /\ worker \in [Workers -> Handlers]
  BY <1>2 DEF TopUpTypes, TypeOK
<1>5. /\ charge' \in [TopUpKeys -> ChargeStatus] /\ sent' \in [TopUpKeys -> SUBSET Outcomes]
      /\ \A l \in TopUpKeys : l # k => charge'[l] = charge[l] /\ sent'[l] = sent[l]
      /\ charge[k] \in {"APPROVED", "DECLINED"} => charge'[k] = charge[k]
      /\ sent[k] \subseteq sent'[k]
      /\ sent'[k] \cap {"APPROVED", "DECLINED"} \subseteq {charge'[k]}
  <2>1. CASE charge[k] = "NONE"
    <3>1. PICK status \in {"PENDING", "DECLINED", "EXPIRED", "REQUIRES_REVIEW"} :
            charge' = [charge EXCEPT ![k] = status]
      BY <1>3, <2>1 DEF CreatePixCharge, Key
    <3>2. sent' = [sent EXCEPT ![k] = sent[k] \cup ({charge'[k]} \ {"PENDING"})]
      BY <1>3, <2>1 DEF CreatePixCharge, Key
    <3>3. charge'[k] = status /\ status \in ChargeStatus /\ {status} \ {"PENDING"} \subseteq Outcomes
      BY <1>4, <3>1 DEF ChargeStatus, Outcomes
    <3>4. sent[k] \cap {"APPROVED", "DECLINED"} = {}
      BY <1>2, <1>3, <2>1 DEF TopUpCoherent
    <3> QED BY <1>4, <2>1, <3>1, <3>2, <3>3, <3>4
  <2>2. CASE charge[k] # "NONE"
    <3>1. charge' = charge /\ sent' = sent
      BY <1>3, <2>2 DEF CreatePixCharge, Key, provider
    <3> QED BY <1>2, <1>3, <1>4, <3>1 DEF TopUpCoherent
  <2> QED BY <2>1, <2>2
<1>6. UNCHANGED <<money, intent, event>>
  BY DEF CreatePixCharge, rows
<1>7. CASE worker' = [worker EXCEPT ![w].op = "read", ![w].target = "PENDING",
                                    ![w].pix = charge'[k]]
  <2>1. PICK pix \in ChargeStatus : pix = charge'[k]
    BY <1>5
  <2> DEFINE next == [worker[w] EXCEPT !.op = "read", !.target = "PENDING", !.pix = pix]
  <2>2. worker' = [worker EXCEPT ![w] = next]
    BY <1>7, <2>1
  <2>3. next \in Handlers
    BY <1>2 DEF Handlers, TopUpOps, Targets
  <2>4. /\ next.op = "read" /\ next.target = "PENDING" /\ next.pix = pix
        /\ next.key = k /\ next.flow = "create"
    BY <1>2, <1>3 DEF Handlers
  <2> HIDE DEF next
  <2>5. worker' \in [Workers -> Handlers] /\ worker'[w] = next
        /\ \A v \in Workers : v # w => worker'[v] = worker[v]
    BY <1>4, <2>2, <2>3
  <2>6. PICK h \in Handlers : h = next
    BY <2>3
  <2>7. Relies(h)'
    BY <2>1, <2>4, <2>6 DEF Relies, Targets, WebhookOps
  <2>8. Relies(worker[w])'
    BY <2>5, <2>6, <2>7 DEF Relies
  <2> QED BY <1>5, <1>6, <2>5, <2>8, ChargeMoves
<1>8. CASE Throw(w)
  <2>1. worker' \in [Workers -> Handlers]
        /\ \A v \in Workers : v # w => worker'[v] = worker[v]
    BY <1>1, <1>8, Throws
  <2>2. worker'[w] = Idle
    <3>1. Goto(w, "idle")
      BY <1>2, <1>8 DEF Throw
    <3> QED BY <1>2, <3>1, GoesTo DEF TopUpOps
  <2>3. Relies(worker[w])'
    BY <2>2 DEF Relies, Idle
  <2> QED BY <1>5, <1>6, <2>1, <2>3, ChargeMoves
<1>9. worker' = [worker EXCEPT ![w].op = "read", ![w].target = "PENDING", ![w].pix = charge'[k]]
      \/ Throw(w)
  BY <1>3 DEF CreatePixCharge, Key
<1> QED BY <1>7, <1>8, <1>9

LEMMA CreateKeeps ==
  ASSUME TopUpInv, NEW w \in Workers, NEW k \in TopUpKeys, Create(w, k)
  PROVE  TopUpInv'
<1>1. /\ TopUpTypes /\ worker \in [Workers -> Handlers]
      /\ intent \in [TopUpKeys -> [status : IntentStatus \cup {"NONE"}, version : Nat,
                                   ref : BOOLEAN]]
      /\ \A v \in Workers : Relies(worker[v])
  BY DEF TopUpInv, TopUpTypes, TypeOK
<1>2. CASE intent[k].status \in {"NONE", "CREATED"}
  <2>1. PICK row : row = [intent[k] EXCEPT !.status = "CREATED"]
    OBVIOUS
  <2>2. intent' = [intent EXCEPT ![k] = row] /\ UNCHANGED <<money, event, provider>>
    BY <1>2, <2>1 DEF Create
  <2>3. row \in [status : IntentStatus \cup {"NONE"}, version : Nat, ref : BOOLEAN]
        /\ row.status = "CREATED"
    <3>1. intent[k] \in [status : IntentStatus \cup {"NONE"}, version : Nat, ref : BOOLEAN]
          /\ "CREATED" \in IntentStatus
      BY <1>1, IntentStatuses
    <3> QED BY <2>1, <3>1
  <2> DEFINE next == [Idle EXCEPT !.op = "charge", !.flow = "create", !.key = k]
  <2>4. worker' = [worker EXCEPT ![w] = next]
    BY <1>2 DEF Create
  <2>5. next \in Handlers /\ next.op = "charge" /\ next.flow = "create" /\ next.key = k
    BY DEF Idle, Handlers, TopUpOps
  <2> HIDE DEF next
  <2>6. PICK h \in Handlers : h = next
    BY <2>5
  <2>7. Relies(h)'
    BY <2>5, <2>6 DEF Relies, WebhookOps
  <2>8. /\ worker' \in [Workers -> Handlers] /\ worker'[w] = h
        /\ \A v \in Workers : v # w => worker'[v] = worker[v]
    BY <1>1, <2>4, <2>5, <2>6
  <2>9. Relies(worker[w])'
    BY <2>7, <2>8 DEF Relies
  <2>10. ~Shown(k)
    BY <1>2 DEF Shown
  <2> QED BY <2>2, <2>3, <2>8, <2>9, <2>10, IntentMoves
<1>3. CASE intent[k].status \notin {"NONE", "CREATED"}
  BY <1>1, <1>3, HandlerMoves DEF Create
<1> QED BY <1>2, <1>3

LEMMA MarkReviewKeeps == ASSUME TopUpInv, NEW w \in Workers, MarkReview(w) PROVE TopUpInv'
<1>1. worker[w].op = "review" /\ worker[w].op # "idle"
  BY DEF MarkReview, At
<1>2. /\ TopUpTypes /\ worker \in [Workers -> Handlers] /\ worker[w] \in Handlers
      /\ Relies(worker[w]) /\ worker[w].key \in TopUpKeys
      /\ intent \in [TopUpKeys -> [status : IntentStatus \cup {"NONE"}, version : Nat,
                                   ref : BOOLEAN]]
  BY <1>1, AtWork DEF TopUpTypes, TypeOK
<1>3. PICK k \in TopUpKeys : k = worker[w].key
  BY <1>2
<1>4. PICK row : row = [intent[k] EXCEPT !.status = "REQUIRES_REVIEW",
                                        !.version = intent[k].version + 1]
  OBVIOUS
<1>5. intent' = [intent EXCEPT ![k] = row] /\ Goto(w, "processed")
      /\ UNCHANGED <<money, event, provider>>
  BY <1>3, <1>4 DEF MarkReview, Key
<1>6. row \in [status : IntentStatus \cup {"NONE"}, version : Nat, ref : BOOLEAN]
      /\ row.status = "REQUIRES_REVIEW"
  <2>1. intent[k] \in [status : IntentStatus \cup {"NONE"}, version : Nat, ref : BOOLEAN]
        /\ "REQUIRES_REVIEW" \in IntentStatus
    BY <1>2, IntentStatuses
  <2>2. intent[k].version + 1 \in Nat
    BY <2>1
  <2> QED BY <1>4, <2>1, <2>2
<1>7. /\ worker' \in [Workers -> Handlers]
      /\ \A v \in Workers : v # w => worker'[v] = worker[v]
      /\ worker'[w].op = "processed" /\ worker'[w].key = k
      /\ worker'[w].flow = "webhook" /\ worker'[w].outcome = worker[w].outcome
      /\ worker[w].outcome \in Outcomes /\ worker[w].outcome \in sent[k]
  BY <1>1, <1>2, <1>3, <1>5, GoesTo DEF Relies, TopUpOps, WebhookOps
<1>8. PICK h \in Handlers : h = worker'[w]
  BY <1>7
<1>9. Shown(k)' /\ sent' = sent
  BY <1>2, <1>5, <1>6 DEF Shown, provider
<1>10. Relies(h)'
  BY <1>7, <1>8, <1>9 DEF Relies
<1>11. Relies(worker[w])'
  BY <1>8, <1>10 DEF Relies
<1> QED BY <1>5, <1>6, <1>7, <1>11, IntentMoves

\* What a credit of the wallet changes.
LEMMA CreditPosts ==
  ASSUME TopUpInv, NEW k \in TopUpKeys, Ledger!Credit(Driver, k, 1)
  PROVE  /\ Ledger!TypeOK' /\ wallet'[Driver].available <= Cardinality(TopUpKeys)
         /\ wallet'[Driver].available = Cardinality(Paid')
         /\ Credited(k)'
         /\ \A l \in TopUpKeys : l # k => (Credited(l)' <=> Credited(l))
<1> DEFINE c == <<"credit", k>>
           posting == Ledger!Posting(Ledger!Clearing, Ledger!Available(Driver), 1)
<1>1. Ledger!TypeOK /\ wallet[Driver].available = Cardinality(Paid)
  BY DEF TopUpInv, TopUpTypes, TypeOK
<1>2. /\ journal' = [journal EXCEPT ![c] = posting] /\ reservation' = reservation
      /\ wallet' = [wallet EXCEPT ![Driver].available = @ + 1]
      /\ ~Credited(k)
  BY DEF Ledger!Credit, Ledger!Post, Ledger!Posted, Credited
<1>3. c \in Ledger!Keys /\ \A l \in TopUpKeys : <<"credit", l>> \in Ledger!Keys
  BY CreditKeys
<1>4. IsFiniteSet(Paid) /\ k \notin Paid /\ Paid \subseteq TopUpKeys
      /\ Cardinality(Paid) \in Nat
  <2>1. IsFiniteSet(Paid)
    BY TopUpAssumption, FS_Subset DEF Paid
  <2> QED BY <1>2, <2>1, FS_CardinalityType DEF Paid
<1>5. DOMAIN journal = Ledger!Keys
  BY <1>1 DEF Ledger!TypeOK
<1>6. posting # Ledger!NoPosting /\ posting.amount = 1
  BY DEF Ledger!Posting, Ledger!NoPosting
<1>7. Credited(k)' /\ \A l \in TopUpKeys : l # k => (Credited(l)' <=> Credited(l))
  <2>1. /\ journal'[c] = posting
        /\ \A l \in TopUpKeys : l # k => journal'[<<"credit", l>>] = journal[<<"credit", l>>]
    BY <1>2, <1>3, <1>5
  <2> QED BY <1>6, <2>1 DEF Credited, Ledger!Fresh
<1>8. Paid' = Paid \cup {k}
  BY <1>7 DEF Paid
<1>9. Cardinality(Paid') = Cardinality(Paid) + 1 /\ Cardinality(Paid') <= Cardinality(TopUpKeys)
      /\ Cardinality(TopUpKeys) \in Nat
  <2>1. Cardinality(Paid \cup {k}) = Cardinality(Paid) + 1
    BY <1>4, FS_AddElement
  <2>2. Cardinality(Paid \cup {k}) <= Cardinality(TopUpKeys)
    BY <1>4, TopUpAssumption, FS_Subset
  <2> QED BY <1>8, <2>1, <2>2, TopUpAssumption, FS_CardinalityType
<1>10. wallet'[Driver].available = wallet[Driver].available + 1
       /\ wallet' \in [{Driver} -> [status : Ledger!WalletStatus, available : Nat, reserved : Nat]]
  BY <1>1, <1>2 DEF Ledger!TypeOK
<1>11. posting \in [debit : Ledger!Accounts \cup {Ledger!NoAccount},
                    credit : Ledger!Accounts \cup {Ledger!NoAccount}, amount : Ledger!Money]
  <2>1. 1 \in Ledger!Money
    BY <1>4, <1>9 DEF Ledger!Money
  <2>2. Ledger!Clearing \in Ledger!Accounts /\ Ledger!Available(Driver) \in Ledger!Accounts
    BY DEF Ledger!Accounts, Ledger!Available
  <2> QED BY <2>1, <2>2 DEF Ledger!Posting
<1> HIDE DEF c, posting
<1>12. Ledger!TypeOK'
  BY <1>1, <1>2, <1>3, <1>10, <1>11 DEF Ledger!TypeOK
<1> QED BY <1>1, <1>7, <1>9, <1>10, <1>12

LEMMA CreditKeeps == ASSUME TopUpInv, NEW w \in Workers, Credit(w) PROVE TopUpInv'
<1>1. worker[w].op = "credit" /\ worker[w].op # "idle"
  BY DEF Credit, At
<1>2. /\ TopUpTypes /\ worker \in [Workers -> Handlers] /\ worker[w] \in Handlers
      /\ Relies(worker[w]) /\ worker[w].key \in TopUpKeys
      /\ TopUpCoherent(worker[w].key)
      /\ worker[w].flow = "webhook" /\ worker[w].outcome = "APPROVED"
  BY <1>1, AtWork DEF Relies, WebhookOps
<1>3. PICK k \in TopUpKeys : k = worker[w].key
  BY <1>2
<1>4. "APPROVED" \in sent[k] /\ charge[k] = "APPROVED"
  BY <1>1, <1>2, <1>3 DEF Relies, TopUpCoherent
<1>5. /\ Ledger!TypeOK' /\ wallet'[Driver].available <= Cardinality(TopUpKeys)
      /\ wallet'[Driver].available = Cardinality(Paid')
      /\ Credited(k)'
      /\ \A l \in TopUpKeys : l # k => (Credited(l)' <=> Credited(l))
  <2>1. CASE Ledger!Credit(Driver, k, 1)
    BY <2>1, CreditPosts
  <2>2. CASE Credited(k) /\ UNCHANGED money
    BY <2>2, BooksStay
  <2> QED BY <1>3, <2>1, <2>2 DEF Credit, Key
<1>6. /\ intent' = intent /\ event' = event /\ charge' = charge /\ sent' = sent
      /\ Transition(w, "CAPTURED")
  BY DEF Credit, rows, provider
<1>7. /\ worker' \in [Workers -> Handlers]
      /\ \A v \in Workers : v # w => worker'[v] = worker[v]
      /\ worker'[w].op = "read" /\ worker'[w].target = "CAPTURED"
      /\ worker'[w].key = k
      /\ worker'[w].flow = "webhook" /\ worker'[w].outcome = "APPROVED"
  BY <1>2, <1>3, <1>6, TransitionBegins DEF Targets
<1>8. TopUpTypes'
  BY <1>2, <1>5, <1>6, <1>7 DEF TopUpTypes, TypeOK
<1>9. ASSUME NEW l \in TopUpKeys PROVE Keeps(l) /\ TopUpCoherent(l)'
  <2>1. TopUpCoherent(l)
    BY DEF TopUpInv
  <2>2. Credited(l) => Credited(l)'
    BY <1>5
  <2>3. Credited(l)' => charge'[l] = "APPROVED"
    BY <1>4, <1>5, <1>6, <2>1 DEF TopUpCoherent
  <2> QED BY <1>6, <2>1, <2>2, <2>3 DEF Keeps, TopUpCoherent, Shown
<1>10. PICK h \in Handlers : h = worker'[w]
  BY <1>7
<1>11. Relies(h)'
  BY <1>4, <1>5, <1>6, <1>7, <1>10 DEF Relies, Targets, WebhookOps, Outcomes
<1>12. Relies(worker[w])'
  BY <1>10, <1>11 DEF Relies
<1> QED BY <1>5, <1>7, <1>8, <1>9, <1>12, StepPreserves

LEMMA CrashKeeps == ASSUME TopUpInv, Crash PROVE TopUpInv'
<1>1. /\ worker' = [w \in Workers |-> Idle] /\ UNCHANGED <<money, intent, event, provider>>
      /\ intent' = intent /\ event' = event /\ charge' = charge /\ sent' = sent
  BY DEF Crash, rows, provider
<1>2. /\ \A k \in TopUpKeys : Credited(k)' <=> Credited(k)
      /\ wallet'[Driver].available = Cardinality(Paid')
      /\ Ledger!TypeOK' /\ wallet'[Driver].available <= Cardinality(TopUpKeys)
  BY <1>1, BooksStay DEF money
<1>3. TopUpTypes'
  BY <1>1, <1>2, IdleIsHandler DEF TopUpInv, TopUpTypes, TypeOK
<1>4. \A k \in TopUpKeys : Keeps(k) /\ TopUpCoherent(k)'
  BY <1>1, <1>2 DEF TopUpInv, Keeps, TopUpCoherent, Shown
<1>5. \A v \in Workers : Relies(worker[v])'
  BY <1>1 DEF Relies, Idle
<1> QED BY <1>2, <1>3, <1>4, <1>5, StepPreserves

LEMMA TopUpInit == Init => TopUpInv
<1> SUFFICES ASSUME Init PROVE TopUpInv
  OBVIOUS
<1>1. \A k \in TopUpKeys : ~Credited(k)
  BY CreditKeys DEF Init, Ledger!Init, Credited, Ledger!Fresh
<1>2. Paid = {} /\ Cardinality(Paid) = 0
  BY <1>1, FS_EmptySet DEF Paid
<1>3. wallet[Driver].available = 0
  BY DEF Init, Ledger!Init
<1>4. Cardinality(TopUpKeys) \in Nat
  BY TopUpAssumption, FS_CardinalityType
<1>5. Ledger!TypeOK
  BY <1>4
  DEF Init, Ledger!Init, Ledger!TypeOK, Ledger!WalletStatus, Ledger!NoPosting, Ledger!Posting,
      Ledger!Money
<1>6. intent \in [TopUpKeys -> [status : IntentStatus \cup {"NONE"}, version : Nat,
                                ref : BOOLEAN]]
  BY DEF Init, NoIntent
<1>7. TypeOK
  BY <1>3, <1>4, <1>5, <1>6 DEF Init, TypeOK, NoEvent, ChargeStatus
<1>8. TopUpTypes /\ \A w \in Workers : Relies(worker[w])
  BY <1>7, IdleIsHandler DEF Init, TopUpTypes
<1>9. \A k \in TopUpKeys : TopUpCoherent(k)
  BY <1>1 DEF Init, TopUpCoherent, NoIntent, NoEvent, Outcomes
<1> QED BY <1>2, <1>3, <1>8, <1>9 DEF TopUpInv

LEMMA TopUpStep == TopUpInv /\ [Next]_vars => TopUpInv'
<1> SUFFICES ASSUME TopUpInv, [Next]_vars PROVE TopUpInv'
  OBVIOUS
<1>1. CASE UNCHANGED vars
  <2>1. UNCHANGED <<money, intent, event, provider>>
        /\ intent' = intent /\ event' = event /\ charge' = charge /\ sent' = sent /\ worker' = worker
    BY <1>1 DEF vars, rows, provider
  <2>2. /\ \A k \in TopUpKeys : Credited(k)' <=> Credited(k)
        /\ wallet'[Driver].available = Cardinality(Paid')
        /\ Ledger!TypeOK' /\ wallet'[Driver].available <= Cardinality(TopUpKeys)
    BY <2>1, BooksStay
  <2>3. TopUpTypes'
    BY <2>1, <2>2 DEF TopUpInv, TopUpTypes, TypeOK
  <2>4. \A k \in TopUpKeys : Keeps(k) /\ TopUpCoherent(k)'
    BY <2>1, <2>2 DEF TopUpInv, Keeps, TopUpCoherent, Shown
  <2> QED BY <2>1, <2>2, <2>3, <2>4, StepPreserves
<1>2. ASSUME NEW w \in Workers, Handle(w) PROVE TopUpInv'
  BY <1>2, ReadIntentKeeps, WriteIntentKeeps, CreatePixChargeKeeps, CancelPixChargeKeeps,
     MarkEventKeeps, ApplyKeeps, CreditKeeps, MarkReviewKeeps DEF Handle
<1>3. CASE Next
  BY <1>2, <1>3, CallFailsKeeps, CreateKeeps, CancelKeeps, DeliverKeeps, PayKeeps, ExpireKeeps,
     CrashKeeps DEF Next
<1> QED BY <1>1, <1>3

\* The properties of the runs follow.
LEMMA TopUpSafe == TopUpInv => TypeOK /\ CreditedIsPaid /\ ShownIsCredited
BY DEF TopUpInv, TopUpTypes, TopUpCoherent, CreditedIsPaid, ShownIsCredited, Shown, Paid

-----------------------------------------------------------------------------
(***************************************************************************)
(* Refunds.  A row and its posting bear one amount, which a handler that   *)
(* joins the row has as well; the row is completed after the posting.      *)
(***************************************************************************)

\* The bounds of the code: a payment is of a positive amount of Money.
RefundBounds == IsFiniteSet(Requests) /\ MaxMinor \in Nat /\ Captured \in 1 .. MaxMinor

Refunding == {"credit", "claim", "book"}

RefundHandlers == [op : {"idle", "create"} \cup Refunding, key : Requests \cup {"none"},
                   amount : 0 .. Captured, booked : 0 .. Captured]

RefundTypes == Refunds!TypeOK /\ worker \in [RefundWorkers -> RefundHandlers]

RefundFresh(k) == Refunds!Ledger!Fresh(<<"refund", k>>)

\* What the row and the posting of request k say together.
RefundCoherent(k) ==
  /\ refund[k].status = "NONE" => refund[k] = Refunds!NoRefund /\ RefundFresh(k)
  /\ refund[k].status # "NONE" => refund[k].amount \in 1 .. Captured
  /\ ~RefundFresh(k) => Refunds!Refunded(k) = refund[k].amount
  /\ refund[k].status = "COMPLETED" => ~RefundFresh(k)

\* What a handler of refunds relies on.
RefundRelies(h) ==
  h.op # "idle" =>
    /\ h.key \in Requests
    /\ h.amount \in 1 .. Captured
    /\ h.op \in Refunding => refund[h.key].status # "NONE" /\ refund[h.key].amount = h.amount
    /\ h.op \in {"claim", "book"} => ~RefundFresh(h.key)

RefundInv ==
  /\ RefundTypes
  /\ \A k \in Requests : RefundCoherent(k)
  /\ \A w \in RefundWorkers : RefundRelies(worker[w])
  /\ Refunds!WalletHoldsRefunds
  /\ Refunds!ReceiptShowsRefunds

\* What a step leaves of what other handlers rely on.
RefundKeeps(k) ==
  /\ refund[k].status # "NONE" =>
       refund'[k].status # "NONE" /\ refund'[k].amount = refund[k].amount
  /\ ~RefundFresh(k) => ~RefundFresh(k)'

-----------------------------------------------------------------------------
(* The sum of the postings *)

\* The lemmas about sums, for the ledger of the refunds.
Sums == INSTANCE WalletLedgerProofs
          WITH Wallets <- {Driver}, Sessions <- {}, CreditKeys <- {}, RefundKeys <- Requests

\* What they assume holds here.
LEMMA SumsAssumptions ==
  ASSUME RefundBounds
  PROVE  Sums!IsFiniteSet({}) /\ Sums!IsFiniteSet(Requests) /\ MaxMinor \in Nat
<1>1. \A S : IsFiniteSet(S) => Sums!IsFiniteSet(S)
  BY DEF IsFiniteSet, Sums!IsFiniteSet
<1> QED BY <1>1, FS_EmptySet DEF RefundBounds

LEMMA SameSums ==
  /\ \A S, f : Refunds!Ledger!Total(S, f) = Sums!Total(S, f)
  /\ Sums!Money = 0 .. MaxMinor
<1>1. \A S : Refunds!Ledger!Cardinality(S) = Sums!Cardinality(S)
  BY DEF Refunds!Ledger!Cardinality, Sums!Cardinality
<1> QED BY <1>1 DEF Refunds!Ledger!Total, Sums!Total, Refunds!Ledger!Units, Sums!Units, Sums!Money

\* Raising one term from zero raises the sum by as much.
LEMMA SumRaised ==
  ASSUME RefundBounds, NEW k \in Requests, NEW f, NEW g, f[k] = 0, NEW a \in 1 .. Captured,
         g[k] = a, \A l \in Requests \ {k} : g[l] = f[l]
  PROVE  /\ Refunds!Ledger!Total(Requests, g) = Refunds!Ledger!Total(Requests, f) + a
         /\ Refunds!Ledger!Total(Requests, f) \in Nat
<1>1. f[k] \in Sums!Money /\ g[k] \in Sums!Money
  BY SameSums DEF RefundBounds
<1>2. Sums!IsFiniteSet({}) /\ Sums!IsFiniteSet(Requests) /\ MaxMinor \in Nat
  BY SumsAssumptions
<1>3. /\ Sums!Total(Requests \ {k}, f) = Sums!Total(Requests, f) - f[k]
      /\ Sums!Total(Requests \ {k}, g) = Sums!Total(Requests, g) - g[k]
  BY <1>1, <1>2, Sums!TotalRemove
<1>4. Sums!Total(Requests \ {k}, f) = Sums!Total(Requests \ {k}, g)
  BY <1>2, Sums!TotalSame
<1>5. Sums!Total(Requests, f) \in Nat /\ Sums!Total(Requests, g) \in Nat
  BY <1>2, Sums!TotalType
<1> QED BY <1>3, <1>4, <1>5, SameSums

\* A sum of zeros, and the sum of one term.
LEMMA SumOfNothing ==
  ASSUME RefundBounds, NEW f, \A k \in Requests : f[k] = 0
  PROVE  Refunds!Ledger!Total(Requests, f) = 0
<1>1. Sums!Units(Requests, f) = {}
  BY DEF Sums!Units
<1>2. Sums!Units({}, f) = {}
  BY DEF Sums!Units
<1>3. Sums!IsFiniteSet({}) /\ Sums!IsFiniteSet(Requests) /\ MaxMinor \in Nat
  BY SumsAssumptions
<1>4. Sums!Total({}, f) = 0
  BY <1>3, Sums!TotalEmpty
<1> QED BY <1>1, <1>2, <1>4, SameSums DEF Sums!Total

LEMMA SumOfOne ==
  ASSUME RefundBounds, NEW k, Requests = {k}, NEW f, f[k] \in 0 .. Captured
  PROVE  /\ Refunds!Ledger!Total({k}, f) = f[k]
         /\ Refunds!Ledger!Total({}, f) = 0
<1>1. f[k] \in Sums!Money /\ k \in Requests /\ {k} \ {k} = {}
  BY SameSums DEF RefundBounds
<1>2. Sums!IsFiniteSet({}) /\ Sums!IsFiniteSet({k}) /\ MaxMinor \in Nat
  BY SumsAssumptions
<1>3. Sums!Total({k} \ {k}, f) = Sums!Total({k}, f) - f[k]
  BY <1>1, <1>2, Sums!TotalRemove
<1>4. Sums!Total({}, f) = 0 /\ Sums!Total({k}, f) \in Nat
  BY <1>2, Sums!TotalEmpty, Sums!TotalType
<1>5. Sums!Total({k} \ {k}, f) = 0
  BY <1>1, <1>4
<1>6. f[k] \in Int
  BY DEF RefundBounds
<1>7. Sums!Total({k}, f) = f[k]
  BY <1>3, <1>4, <1>5, <1>6
<1> QED BY <1>4, <1>7, SameSums

-----------------------------------------------------------------------------
(* Steps of a handler of refunds *)

LEMMA SameStatuses == Refunds!IntentStatus = IntentStatus
BY DEF IntentStatus, IntentTransitions, Refunds!IntentStatus, Refunds!IntentTransitions

LEMMA IdleRefund ==
  ASSUME RefundBounds
  PROVE  Refunds!Idle \in RefundHandlers /\ Refunds!Idle.op = "idle"
BY DEF Refunds!Idle, RefundHandlers, Refunding, Refunds!NoRequest, RefundBounds

LEMMA RefundGoesTo ==
  ASSUME RefundBounds, RefundTypes, NEW w \in RefundWorkers,
         NEW op \in {"idle", "create"} \cup Refunding, Refunds!Goto(w, op)
  PROVE  /\ worker' \in [RefundWorkers -> RefundHandlers]
         /\ \A v \in RefundWorkers : v # w => worker'[v] = worker[v]
         /\ worker'[w].op = op
         /\ op # "idle" => worker'[w].key = worker[w].key /\ worker'[w].amount = worker[w].amount
<1> DEFINE next == IF op = "idle" THEN Refunds!Idle ELSE [worker[w] EXCEPT !.op = op]
<1>1. worker' = [worker EXCEPT ![w] = next]
  BY DEF Refunds!Goto
<1>2. worker \in [RefundWorkers -> RefundHandlers] /\ worker[w] \in RefundHandlers
  BY DEF RefundTypes
<1>3. next \in RefundHandlers /\ next.op = op
      /\ (op # "idle" => next.key = worker[w].key /\ next.amount = worker[w].amount)
  BY <1>2, IdleRefund DEF RefundHandlers
<1> HIDE DEF next
<1> QED BY <1>1, <1>2, <1>3

\* A step that posts nothing, of refunds.
LEMMA RefundBooksStay ==
  ASSUME RefundInv, UNCHANGED <<wallet, reservation, journal>>
  PROVE  /\ Refunds!Ledger!TypeOK' /\ Refunds!WalletHoldsRefunds'
         /\ \A k \in Requests : /\ RefundFresh(k)' <=> RefundFresh(k)
                               /\ Refunds!Refunded(k)' = Refunds!Refunded(k)
<1>1. Refunds!Ledger!TypeOK'
  BY DEF RefundInv, RefundTypes, Refunds!TypeOK, Refunds!Ledger!TypeOK
<1>2. Refunds!WalletHoldsRefunds'
  BY DEF RefundInv, Refunds!WalletHoldsRefunds, Refunds!Refunded
<1> QED BY <1>1, <1>2 DEF RefundFresh, Refunds!Ledger!Fresh, Refunds!Refunded

\* It is enough to look at the rows, and at the handler that takes the step.
LEMMA RefundStepPreserves ==
  ASSUME RefundInv, RefundTypes',
         \A k \in Requests : RefundKeeps(k) /\ RefundCoherent(k)',
         \A v \in RefundWorkers : worker'[v] = worker[v] \/ RefundRelies(worker[v])',
         Refunds!WalletHoldsRefunds', Refunds!ReceiptShowsRefunds'
  PROVE  RefundInv'
<1>1. ASSUME NEW v \in RefundWorkers PROVE RefundRelies(worker[v])'
  <2>1. worker[v] \in RefundHandlers /\ RefundRelies(worker[v])
    BY DEF RefundInv, RefundTypes
  <2>2. PICK h : h = worker[v]
    OBVIOUS
  <2>3. RefundRelies(h)'
    <3>1. SUFFICES ASSUME h.op # "idle" PROVE RefundRelies(h)'
      BY DEF RefundRelies
    <3>2. RefundRelies(h) /\ h.key \in Requests /\ RefundKeeps(h.key)
      BY <2>1, <2>2, <3>1 DEF RefundRelies
    <3> QED BY <3>2 DEF RefundRelies, RefundKeeps
  <2>4. CASE worker'[v] = worker[v]
    BY <2>2, <2>3, <2>4 DEF RefundRelies
  <2> QED BY <2>4
<1> QED BY <1>1 DEF RefundInv

\* A step of a handler that changes no row.
LEMMA RefundHandlerMoves ==
  ASSUME RefundInv, UNCHANGED <<wallet, reservation, journal, intent, refund, receipt>>,
         worker' \in [RefundWorkers -> RefundHandlers],
         \A v \in RefundWorkers :
           worker'[v] = worker[v]
             \/ \A h \in RefundHandlers : h = worker'[v] => RefundRelies(h)
  PROVE  RefundInv'
<1>1. /\ Refunds!Ledger!TypeOK' /\ Refunds!WalletHoldsRefunds'
      /\ \A k \in Requests : /\ RefundFresh(k)' <=> RefundFresh(k)
                            /\ Refunds!Refunded(k)' = Refunds!Refunded(k)
  BY RefundBooksStay
<1>2. \A k \in Requests : RefundKeeps(k) /\ RefundCoherent(k)'
  BY <1>1 DEF RefundInv, RefundKeeps, RefundCoherent
<1>3. RefundTypes' /\ Refunds!WalletHoldsRefunds' /\ Refunds!ReceiptShowsRefunds'
  <2>1. Refunds!TypeOK'
    <3>1. \A w \in RefundWorkers : worker'[w] \in RefundHandlers
      OBVIOUS
    <3>2. \A w \in RefundWorkers :
            worker'[w].op \in {"idle", "create", "credit", "claim", "book"}
      BY <3>1 DEF RefundHandlers, Refunding
    <3> QED BY <1>1, <3>2 DEF RefundInv, RefundTypes, Refunds!TypeOK
  <2>2. Refunds!ReceiptShowsRefunds'
    BY DEF RefundInv, Refunds!ReceiptShowsRefunds
  <2> QED BY <1>1, <2>1, <2>2 DEF RefundTypes
<1>4. ASSUME NEW v \in RefundWorkers PROVE worker'[v] = worker[v] \/ RefundRelies(worker[v])'
  <2>1. SUFFICES ASSUME worker'[v] # worker[v] PROVE RefundRelies(worker[v])'
    OBVIOUS
  <2>2. PICK h \in RefundHandlers : h = worker'[v] /\ RefundRelies(h)
    BY <2>1
  <2>3. RefundRelies(h)'
    BY <1>1, <2>2 DEF RefundRelies
  <2> QED BY <2>2, <2>3 DEF RefundRelies
<1> QED BY <1>2, <1>3, <1>4, RefundStepPreserves

-----------------------------------------------------------------------------
(* The actions of refunds *)

LEMMA BeginKeeps ==
  ASSUME RefundBounds, RefundInv, NEW w \in RefundWorkers, NEW k \in Requests,
         Refunds!Begin(w, k)
  PROVE  RefundInv'
<1>1. PICK next : next = [op |-> "create", key |-> k, amount |-> Captured - intent.refunded,
                          booked |-> 0]
  OBVIOUS
<1>2. /\ worker' = [worker EXCEPT ![w] = next]
      /\ UNCHANGED <<wallet, reservation, journal, intent, refund, receipt>>
      /\ intent.refunded < Captured
  BY <1>1 DEF Refunds!Begin, Refunds!money, Refunds!Eligible
<1>3. intent.refunded \in 0 .. Captured /\ worker \in [RefundWorkers -> RefundHandlers]
  BY DEF RefundInv, RefundTypes, Refunds!TypeOK
<1>4. Captured - intent.refunded \in 1 .. Captured /\ 0 \in 0 .. Captured
  BY <1>2, <1>3 DEF RefundBounds
<1>5. next \in RefundHandlers /\ RefundRelies(next)
  BY <1>1, <1>4 DEF RefundHandlers, RefundRelies, Refunding
<1> QED BY <1>2, <1>3, <1>5, RefundHandlerMoves

\* A handler of refunds at work.
LEMMA AtRefund ==
  ASSUME RefundInv, NEW w \in RefundWorkers, worker[w].op # "idle"
  PROVE  /\ RefundTypes /\ worker \in [RefundWorkers -> RefundHandlers]
         /\ worker[w] \in RefundHandlers /\ RefundRelies(worker[w])
         /\ worker[w].key \in Requests /\ RefundCoherent(worker[w].key)
         /\ worker[w].amount \in 1 .. Captured
BY DEF RefundInv, RefundTypes, RefundRelies

LEMMA ClaimKeeps ==
  ASSUME RefundBounds, RefundInv, NEW w \in RefundWorkers, Refunds!Claim(w)
  PROVE  RefundInv'
<1>1. worker[w].op = "claim" /\ worker[w].op # "idle"
      /\ UNCHANGED <<wallet, reservation, journal, intent, refund, receipt>>
  BY DEF Refunds!Claim, Refunds!At, Refunds!money
<1>2. /\ RefundTypes /\ worker \in [RefundWorkers -> RefundHandlers]
      /\ worker[w] \in RefundHandlers /\ RefundRelies(worker[w])
  BY <1>1, AtRefund
<1>3. CASE refund[Refunds!Key(w)].status = "PROCESSING"
  <2> DEFINE next == [worker[w] EXCEPT !.op = "book", !.booked = intent.refunded]
  <2>1. worker' = [worker EXCEPT ![w] = next]
    BY <1>3 DEF Refunds!Claim
  <2>2. intent.refunded \in 0 .. Captured
    BY DEF RefundInv, RefundTypes, Refunds!TypeOK
  <2>3. next \in RefundHandlers /\ RefundRelies(next)
    BY <1>1, <1>2, <2>2 DEF RefundHandlers, RefundRelies, Refunding
  <2> HIDE DEF next
  <2> QED BY <1>1, <1>2, <2>1, <2>3, RefundHandlerMoves
<1>4. CASE refund[Refunds!Key(w)].status # "PROCESSING"
  <2>1. Refunds!Goto(w, "idle")
    BY <1>4 DEF Refunds!Claim
  <2> QED BY <1>1, <1>2, <2>1, RefundGoesTo, RefundHandlerMoves DEF RefundRelies
<1> QED BY <1>3, <1>4

LEMMA CreateRefundKeeps ==
  ASSUME RefundBounds, RefundInv, NEW w \in RefundWorkers, Refunds!CreateRefund(w)
  PROVE  RefundInv'
<1>1. worker[w].op = "create" /\ worker[w].op # "idle"
      /\ UNCHANGED <<wallet, reservation, journal, intent, receipt>>
  BY DEF Refunds!CreateRefund, Refunds!At, Refunds!money
<1>2. /\ RefundTypes /\ worker \in [RefundWorkers -> RefundHandlers]
      /\ worker[w] \in RefundHandlers /\ RefundRelies(worker[w])
      /\ worker[w].key \in Requests /\ RefundCoherent(worker[w].key)
      /\ worker[w].amount \in 1 .. Captured
  BY <1>1, AtRefund
<1>3. PICK k \in Requests, a \in 1 .. Captured : k = worker[w].key /\ a = worker[w].amount
  BY <1>2
<1>4. refund \in [Requests -> [status : {"NONE", "PROCESSING", "COMPLETED"},
                               amount : 0 .. Captured]]
  BY <1>2 DEF RefundTypes, Refunds!TypeOK
<1>5. CASE Refunds!Goto(w, "idle") /\ refund' = refund
  BY <1>1, <1>2, <1>5, RefundGoesTo, RefundHandlerMoves DEF RefundRelies
<1>6. CASE /\ refund[k].status = "PROCESSING" /\ refund[k].amount = a
           /\ Refunds!Goto(w, "credit") /\ refund' = refund
  <2>1. /\ worker' \in [RefundWorkers -> RefundHandlers]
        /\ \A v \in RefundWorkers : v # w => worker'[v] = worker[v]
        /\ worker'[w].op = "credit" /\ worker'[w].key = k /\ worker'[w].amount = a
    BY <1>2, <1>3, <1>6, RefundGoesTo DEF Refunding
  <2> QED BY <1>1, <1>6, <2>1, RefundHandlerMoves DEF RefundRelies
<1>7. CASE /\ refund[k] = Refunds!NoRefund /\ Refunds!Goto(w, "credit")
           /\ refund' = [refund EXCEPT ![k] = [status |-> "PROCESSING", amount |-> a]]
  <2>1. /\ worker' \in [RefundWorkers -> RefundHandlers]
        /\ \A v \in RefundWorkers : v # w => worker'[v] = worker[v]
        /\ worker'[w].op = "credit" /\ worker'[w].key = k /\ worker'[w].amount = a
    BY <1>2, <1>3, <1>7, RefundGoesTo DEF Refunding
  <2>2. /\ refund'[k].status = "PROCESSING" /\ refund'[k].amount = a
        /\ \A l \in Requests : l # k => refund'[l] = refund[l]
        /\ refund' \in [Requests -> [status : {"NONE", "PROCESSING", "COMPLETED"},
                                     amount : 0 .. Captured]]
    <3>1. [status |-> "PROCESSING", amount |-> a]
            \in [status : {"NONE", "PROCESSING", "COMPLETED"}, amount : 0 .. Captured]
      BY DEF RefundBounds
    <3> QED BY <1>4, <1>7, <3>1
  <2>3. /\ Refunds!Ledger!TypeOK' /\ Refunds!WalletHoldsRefunds'
        /\ \A l \in Requests : /\ RefundFresh(l)' <=> RefundFresh(l)
                              /\ Refunds!Refunded(l)' = Refunds!Refunded(l)
    BY <1>1, RefundBooksStay
  <2>4. refund[k].status = "NONE" /\ RefundFresh(k)
    BY <1>2, <1>3, <1>7 DEF Refunds!NoRefund, RefundCoherent
  <2>5. ASSUME NEW l \in Requests PROVE RefundKeeps(l) /\ RefundCoherent(l)'
    <3>1. RefundCoherent(l)
      BY DEF RefundInv
    <3>2. CASE l = k
      BY <2>2, <2>3, <2>4, <3>2 DEF RefundKeeps, RefundCoherent
    <3>3. CASE l # k
      BY <2>2, <2>3, <3>1, <3>3 DEF RefundKeeps, RefundCoherent
    <3> QED BY <3>2, <3>3
  <2>6. RefundTypes' /\ Refunds!WalletHoldsRefunds' /\ Refunds!ReceiptShowsRefunds'
    BY <1>1, <2>1, <2>2, <2>3 DEF RefundInv, RefundTypes, Refunds!TypeOK,
       Refunds!ReceiptShowsRefunds
  <2>7. PICK h \in RefundHandlers : h = worker'[w]
    BY <2>1
  <2>8. RefundRelies(h)'
    BY <2>1, <2>2, <2>7 DEF RefundRelies, Refunding
  <2>9. RefundRelies(worker[w])'
    BY <2>7, <2>8 DEF RefundRelies
  <2> QED BY <2>1, <2>5, <2>6, <2>9, RefundStepPreserves
<1> QED BY <1>3, <1>5, <1>6, <1>7 DEF Refunds!CreateRefund, Refunds!Key, Refunds!Amount

\* What crediting a refund to the wallet changes.
LEMMA RefundPosts ==
  ASSUME RefundBounds, RefundInv, NEW k \in Requests, NEW a \in 1 .. Captured,
         Refunds!Ledger!Refund(Driver, k, a)
  PROVE  /\ Refunds!Ledger!TypeOK' /\ Refunds!WalletHoldsRefunds'
         /\ ~RefundFresh(k)' /\ Refunds!Refunded(k)' = a
         /\ \A l \in Requests : l # k => /\ RefundFresh(l)' <=> RefundFresh(l)
                                         /\ Refunds!Refunded(l)' = Refunds!Refunded(l)
<1> DEFINE c == <<"refund", k>>
           posting == Refunds!Ledger!Posting(Refunds!Ledger!RefundAcc,
                                             Refunds!Ledger!Available(Driver), a)
<1>1. Refunds!Ledger!TypeOK /\ Refunds!WalletHoldsRefunds
  BY DEF RefundInv, RefundTypes, Refunds!TypeOK
<1>2. /\ journal' = [journal EXCEPT ![c] = posting] /\ reservation' = reservation
      /\ wallet' = [wallet EXCEPT ![Driver].available = @ + a]
      /\ RefundFresh(k)
  BY DEF Refunds!Ledger!Refund, Refunds!Ledger!Post, Refunds!Ledger!Posted, RefundFresh
<1>3. c \in Refunds!Ledger!Keys /\ \A l \in Requests : <<"refund", l>> \in Refunds!Ledger!Keys
  BY DEF Refunds!Ledger!Keys
<1>4. DOMAIN journal = Refunds!Ledger!Keys
  BY <1>1 DEF Refunds!Ledger!TypeOK
<1>5. a \in Nat /\ a > 0 /\ a \in Refunds!Ledger!Money
  BY DEF RefundBounds, Refunds!Ledger!Money
<1>6. posting # Refunds!Ledger!NoPosting /\ posting.amount = a
  BY <1>5 DEF Refunds!Ledger!Posting, Refunds!Ledger!NoPosting
<1>7. /\ journal'[c] = posting
      /\ \A l \in Requests : l # k => journal'[<<"refund", l>>] = journal[<<"refund", l>>]
  BY <1>2, <1>3, <1>4
<1>8. /\ ~RefundFresh(k)' /\ Refunds!Refunded(k)' = a
      /\ \A l \in Requests : l # k => /\ RefundFresh(l)' <=> RefundFresh(l)
                                      /\ Refunds!Refunded(l)' = Refunds!Refunded(l)
  BY <1>6, <1>7 DEF RefundFresh, Refunds!Ledger!Fresh, Refunds!Refunded
<1>9. posting \in [debit : Refunds!Ledger!Accounts \cup {Refunds!Ledger!NoAccount},
                   credit : Refunds!Ledger!Accounts \cup {Refunds!Ledger!NoAccount},
                   amount : Refunds!Ledger!Money]
  <2>1. /\ Refunds!Ledger!RefundAcc \in Refunds!Ledger!Accounts
        /\ Refunds!Ledger!Available(Driver) \in Refunds!Ledger!Accounts
    BY DEF Refunds!Ledger!Accounts, Refunds!Ledger!Available
  <2> QED BY <1>5, <2>1 DEF Refunds!Ledger!Posting
<1>10. wallet'[Driver].available = wallet[Driver].available + a
       /\ wallet' \in [{Driver} -> [status : Refunds!Ledger!WalletStatus, available : Nat,
                                    reserved : Nat]]
  BY <1>1, <1>2, <1>5 DEF Refunds!Ledger!TypeOK
<1> HIDE DEF c, posting
<1>11. Refunds!Ledger!TypeOK'
  BY <1>1, <1>2, <1>3, <1>9, <1>10 DEF Refunds!Ledger!TypeOK
<1>12. Refunds!WalletHoldsRefunds'
  <2>1. PICK f : f = [l \in Requests |-> Refunds!Refunded(l)]
    OBVIOUS
  <2>2. PICK g : g = [l \in Requests |-> Refunds!Refunded(l)']
    OBVIOUS
  <2>3. f[k] = 0
    BY <1>2, <2>1 DEF RefundFresh, Refunds!Ledger!Fresh, Refunds!Refunded,
                      Refunds!Ledger!NoPosting, Refunds!Ledger!Posting
  <2>4. g[k] = a /\ \A l \in Requests \ {k} : g[l] = f[l]
    BY <1>8, <2>1, <2>2
  <2>5. Refunds!Ledger!Total(Requests, g) = Refunds!Ledger!Total(Requests, f) + a
    BY <2>3, <2>4, SumRaised
  <2>6. wallet[Driver].available = Refunds!Ledger!Total(Requests, f)
    BY <1>1, <2>1 DEF Refunds!WalletHoldsRefunds
  <2>7. wallet'[Driver].available = Refunds!Ledger!Total(Requests, g)
    BY <1>10, <2>5, <2>6
  <2> QED BY <2>2, <2>7 DEF Refunds!WalletHoldsRefunds
<1> QED BY <1>8, <1>11, <1>12

LEMMA CreditWalletKeeps ==
  ASSUME RefundBounds, RefundInv, NEW w \in RefundWorkers, Refunds!CreditWallet(w)
  PROVE  RefundInv'
<1>1. /\ worker[w].op = "credit" /\ worker[w].op # "idle" /\ Refunds!Goto(w, "claim")
      /\ intent' = intent /\ refund' = refund /\ receipt' = receipt
  BY DEF Refunds!CreditWallet, Refunds!At
<1>2. /\ RefundTypes /\ worker \in [RefundWorkers -> RefundHandlers]
      /\ worker[w] \in RefundHandlers /\ RefundRelies(worker[w])
      /\ worker[w].key \in Requests
      /\ worker[w].amount \in 1 .. Captured
  BY <1>1, AtRefund
<1>3. PICK k \in Requests, a \in 1 .. Captured : k = worker[w].key /\ a = worker[w].amount
  BY <1>2
<1>4. refund[k].status # "NONE" /\ refund[k].amount = a
  BY <1>1, <1>2, <1>3 DEF RefundRelies, Refunding
<1>5. /\ worker' \in [RefundWorkers -> RefundHandlers]
      /\ \A v \in RefundWorkers : v # w => worker'[v] = worker[v]
      /\ worker'[w].op = "claim" /\ worker'[w].key = k /\ worker'[w].amount = a
  BY <1>1, <1>2, <1>3, RefundGoesTo DEF Refunding
<1>6. /\ Refunds!Ledger!TypeOK' /\ Refunds!WalletHoldsRefunds'
      /\ ~RefundFresh(k)'
      /\ Refunds!Refunded(k)' = a
      /\ \A l \in Requests : l # k => /\ RefundFresh(l)' <=> RefundFresh(l)
                                      /\ Refunds!Refunded(l)' = Refunds!Refunded(l)
  <2>1. CASE Refunds!Ledger!Refund(Driver, k, a)
    BY <2>1, RefundPosts
  <2>2. CASE ~RefundFresh(k) /\ UNCHANGED <<wallet, reservation, journal>>
    BY <1>4, <2>2, RefundBooksStay DEF RefundInv, RefundCoherent
  <2> QED BY <1>3, <2>1, <2>2 DEF Refunds!CreditWallet, Refunds!Key, Refunds!Amount,
                                  Refunds!money, RefundFresh
<1>7. RefundTypes' /\ Refunds!ReceiptShowsRefunds'
  <2>1. \A v \in RefundWorkers :
          worker'[v].op \in {"idle", "create", "credit", "claim", "book"}
    BY <1>5 DEF RefundHandlers, Refunding
  <2>2. Refunds!TypeOK'
    BY <1>1, <1>2, <1>6, <2>1 DEF RefundTypes, Refunds!TypeOK
  <2>3. Refunds!ReceiptShowsRefunds'
    BY <1>1 DEF RefundInv, Refunds!ReceiptShowsRefunds
  <2> QED BY <1>5, <2>2, <2>3 DEF RefundTypes
<1>8. ASSUME NEW l \in Requests PROVE RefundKeeps(l) /\ RefundCoherent(l)'
  <2>1. RefundCoherent(l)
    BY DEF RefundInv
  <2>2. CASE l = k
    BY <1>1, <1>4, <1>6, <2>1, <2>2 DEF RefundKeeps, RefundCoherent
  <2>3. CASE l # k
    BY <1>1, <1>6, <2>1, <2>3 DEF RefundKeeps, RefundCoherent
  <2> QED BY <2>2, <2>3
<1>9. PICK h \in RefundHandlers : h = worker'[w]
  BY <1>5
<1>10. RefundRelies(h)'
  BY <1>1, <1>4, <1>5, <1>6, <1>9 DEF RefundRelies, Refunding
<1>11. RefundRelies(worker[w])'
  BY <1>9, <1>10 DEF RefundRelies
<1> QED BY <1>5, <1>6, <1>7, <1>8, <1>11, RefundStepPreserves

LEMMA BookKeeps ==
  ASSUME RefundBounds, RefundInv, NEW w \in RefundWorkers, Refunds!Book(w)
  PROVE  RefundInv'
<1>1. /\ worker[w].op = "book" /\ worker[w].op # "idle" /\ Refunds!Goto(w, "idle")
      /\ UNCHANGED <<wallet, reservation, journal>>
  BY DEF Refunds!Book, Refunds!At, Refunds!money
<1>2. /\ RefundTypes /\ worker \in [RefundWorkers -> RefundHandlers]
      /\ worker[w] \in RefundHandlers /\ RefundRelies(worker[w])
      /\ worker[w].key \in Requests
      /\ worker[w].amount \in 1 .. Captured
  BY <1>1, AtRefund
<1>3. /\ worker' \in [RefundWorkers -> RefundHandlers]
      /\ \A v \in RefundWorkers : v # w => worker'[v] = worker[v]
      /\ worker'[w].op = "idle"
  BY <1>1, <1>2, RefundGoesTo
<1>4. PICK k \in Requests : k = worker[w].key
  BY <1>2
<1>5. refund[k].status # "NONE" /\ ~RefundFresh(k)
  BY <1>1, <1>2, <1>4 DEF RefundRelies, Refunding
<1>6. PICK refunded \in Nat : refunded = worker[w].booked + worker[w].amount /\ refunded > 0
  <2>1. worker[w].booked \in Nat /\ worker[w].amount \in Nat /\ worker[w].amount > 0
    BY <1>2 DEF RefundHandlers
  <2> QED BY <2>1
<1>7. CASE refunded > Captured
  <2>1. UNCHANGED <<intent, refund, receipt>>
    BY <1>6, <1>7 DEF Refunds!Book, Refunds!Amount
  <2> QED BY <1>1, <1>3, <2>1, RefundHandlerMoves DEF RefundRelies
<1>8. CASE ~(refunded > Captured)
  <2>1. PICK status \in {"REFUNDED", "PARTIALLY_REFUNDED"} :
          status = IF refunded = Captured THEN "REFUNDED" ELSE "PARTIALLY_REFUNDED"
    OBVIOUS
  <2>2. /\ refund' = [refund EXCEPT ![k].status = "COMPLETED"]
        /\ intent' = [status |-> status, refunded |-> refunded]
        /\ receipt' = status
    BY <1>4, <1>6, <1>8, <2>1 DEF Refunds!Book, Refunds!Amount, Refunds!Key
  <2>3. /\ refund \in [Requests -> [status : {"NONE", "PROCESSING", "COMPLETED"},
                                    amount : 0 .. Captured]]
        /\ refunded \in 0 .. Captured /\ status \in IntentStatus
    BY <1>2, <1>8, IntentStatuses DEF RefundTypes, Refunds!TypeOK, RefundBounds
  <2>4. /\ refund'[k].status = "COMPLETED" /\ refund'[k].amount = refund[k].amount
        /\ \A l \in Requests : l # k => refund'[l] = refund[l]
        /\ refund' \in [Requests -> [status : {"NONE", "PROCESSING", "COMPLETED"},
                                     amount : 0 .. Captured]]
    BY <2>2, <2>3
  <2>5. /\ Refunds!Ledger!TypeOK' /\ Refunds!WalletHoldsRefunds'
        /\ \A l \in Requests : /\ RefundFresh(l)' <=> RefundFresh(l)
                               /\ Refunds!Refunded(l)' = Refunds!Refunded(l)
    BY <1>1, RefundBooksStay
  <2>6. Refunds!ReceiptShowsRefunds'
    BY <2>1, <2>2 DEF Refunds!ReceiptShowsRefunds
  <2>7. RefundTypes'
    <3>1. \A v \in RefundWorkers :
            worker'[v].op \in {"idle", "create", "credit", "claim", "book"}
      BY <1>3 DEF RefundHandlers, Refunding
    <3>2. intent' \in [status : IntentStatus, refunded : 0 .. Captured]
      BY <2>2, <2>3
    <3>3. receipt' \in {"ISSUED", "REFUNDED", "PARTIALLY_REFUNDED"}
      BY <2>1, <2>2
    <3> QED BY <1>3, <2>4, <2>5, <3>1, <3>2, <3>3, SameStatuses DEF RefundTypes, Refunds!TypeOK
  <2>8. ASSUME NEW l \in Requests PROVE RefundKeeps(l) /\ RefundCoherent(l)'
    <3>1. RefundCoherent(l)
      BY DEF RefundInv
    <3>2. CASE l = k
      BY <1>5, <2>4, <2>5, <3>1, <3>2 DEF RefundKeeps, RefundCoherent
    <3>3. CASE l # k
      BY <2>4, <2>5, <3>1, <3>3 DEF RefundKeeps, RefundCoherent
    <3> QED BY <3>2, <3>3
  <2>9. RefundRelies(worker[w])'
    BY <1>3 DEF RefundRelies
  <2> QED BY <1>3, <2>5, <2>6, <2>7, <2>8, <2>9, RefundStepPreserves
<1> QED BY <1>7, <1>8

LEMMA RefundCrashKeeps ==
  ASSUME RefundBounds, RefundInv, Refunds!Crash PROVE RefundInv'
<1>1. worker' = [w \in RefundWorkers |-> Refunds!Idle]
      /\ UNCHANGED <<wallet, reservation, journal, intent, refund, receipt>>
  BY DEF Refunds!Crash, Refunds!money
<1> QED BY <1>1, IdleRefund, RefundHandlerMoves DEF RefundRelies

LEMMA RefundInit == RefundBounds /\ Refunds!Init => RefundInv
<1> SUFFICES ASSUME RefundBounds, Refunds!Init PROVE RefundInv
  OBVIOUS
<1>1. \A k \in Requests : /\ RefundFresh(k) /\ Refunds!Refunded(k) = 0
                          /\ <<"refund", k>> \in Refunds!Ledger!Keys
  BY DEF Refunds!Init, Refunds!Ledger!Init, RefundFresh, Refunds!Ledger!Fresh,
         Refunds!Refunded, Refunds!Ledger!Keys, Refunds!Ledger!NoPosting, Refunds!Ledger!Posting
<1>2. wallet[Driver].available = 0
  BY DEF Refunds!Init, Refunds!Ledger!Init
<1>3. Refunds!Ledger!TypeOK
  BY DEF RefundBounds, Refunds!Init, Refunds!Ledger!Init, Refunds!Ledger!TypeOK,
         Refunds!Ledger!WalletStatus, Refunds!Ledger!NoPosting, Refunds!Ledger!Posting,
         Refunds!Ledger!Money
<1>4. \A k \in Requests : refund[k] = Refunds!NoRefund
  BY DEF Refunds!Init
<1>5. Refunds!TypeOK
  <2>1. "CAPTURED" \in IntentStatus /\ 0 \in 0 .. Captured
    BY IntentStatuses DEF RefundBounds
  <2>2. intent \in [status : IntentStatus, refunded : 0 .. Captured]
    BY <2>1 DEF Refunds!Init
  <2>3. refund \in [Requests -> [status : {"NONE", "PROCESSING", "COMPLETED"},
                                 amount : 0 .. Captured]]
    BY <2>1 DEF Refunds!Init, Refunds!NoRefund
  <2>4. receipt = "ISSUED" /\ \A w \in RefundWorkers : worker[w].op = "idle"
    BY IdleRefund DEF Refunds!Init
  <2> QED BY <1>3, <2>2, <2>3, <2>4, SameStatuses DEF Refunds!TypeOK
<1>6. RefundTypes /\ \A w \in RefundWorkers : RefundRelies(worker[w])
  BY <1>5, IdleRefund DEF Refunds!Init, RefundTypes, RefundRelies
<1>7. Refunds!WalletHoldsRefunds
  <2>1. PICK f : f = [k \in Requests |-> Refunds!Refunded(k)]
    OBVIOUS
  <2>2. Refunds!Ledger!Total(Requests, f) = 0
    BY <1>1, <2>1, SumOfNothing
  <2> QED BY <1>2, <2>1, <2>2 DEF Refunds!WalletHoldsRefunds
<1>8. Refunds!ReceiptShowsRefunds
  BY DEF RefundBounds, Refunds!Init, Refunds!ReceiptShowsRefunds
<1>9. ASSUME NEW k \in Requests PROVE RefundCoherent(k)
  <2>1. RefundFresh(k) /\ refund[k] = Refunds!NoRefund
    BY <1>1, <1>4
  <2>2. refund[k].status = "NONE"
    BY <2>1 DEF Refunds!NoRefund
  <2> QED BY <2>1, <2>2 DEF RefundCoherent
<1> QED BY <1>6, <1>7, <1>8, <1>9 DEF RefundInv

LEMMA RefundStep == RefundBounds /\ RefundInv /\ [Refunds!Next]_(Refunds!vars) => RefundInv'
<1> SUFFICES ASSUME RefundBounds, RefundInv, [Refunds!Next]_(Refunds!vars) PROVE RefundInv'
  OBVIOUS
<1>1. CASE UNCHANGED Refunds!vars
  <2>1. worker' = worker /\ UNCHANGED <<wallet, reservation, journal, intent, refund, receipt>>
    BY <1>1 DEF Refunds!vars, Refunds!money
  <2>2. worker \in [RefundWorkers -> RefundHandlers]
    BY DEF RefundInv, RefundTypes
  <2> QED BY <2>1, <2>2, RefundHandlerMoves
<1>2. ASSUME NEW w \in RefundWorkers, Refunds!Answer(w) PROVE RefundInv'
  BY <1>1, <1>2 DEF Refunds!Answer
<1>3. ASSUME NEW w \in RefundWorkers, Refunds!Handle(w) PROVE RefundInv'
  BY <1>3, CreateRefundKeeps, CreditWalletKeeps, ClaimKeeps, BookKeeps DEF Refunds!Handle
<1>4. CASE Refunds!Next
  BY <1>2, <1>3, <1>4, BeginKeeps, RefundCrashKeeps DEF Refunds!Next
<1> QED BY <1>1, <1>4

-----------------------------------------------------------------------------
(***************************************************************************)
(* One idempotency key.  Requests of two keys read the intent at one time  *)
(* and both refund what is left of it, so that what the intent shows and   *)
(* what the wallet may receive is proved for the requests of one key.      *)
(***************************************************************************)

OneRefund(k) ==
  /\ intent.refunded = IF refund[k].status = "COMPLETED" THEN Captured ELSE 0
  /\ refund[k].status # "NONE" => refund[k].amount = Captured
  /\ \A w \in RefundWorkers :
       /\ worker[w].op # "idle" => worker[w].amount = Captured
       /\ worker[w].op = "book" => worker[w].booked = 0

LEMMA OneRefundInit ==
  ASSUME RefundBounds, NEW k, Requests = {k}, Refunds!Init
  PROVE  OneRefund(k)
<1>1. refund[k].status = "NONE" /\ intent.refunded = 0
  BY DEF Refunds!Init, Refunds!NoRefund
<1>2. \A w \in RefundWorkers : worker[w].op = "idle"
  BY IdleRefund DEF Refunds!Init
<1> QED BY <1>1, <1>2 DEF OneRefund

LEMMA OneRefundStep ==
  ASSUME RefundBounds, RefundInv, NEW k, Requests = {k}, OneRefund(k),
         [Refunds!Next]_(Refunds!vars)
  PROVE  OneRefund(k)'
<1>1. /\ worker \in [RefundWorkers -> RefundHandlers]
      /\ refund \in [Requests -> [status : {"NONE", "PROCESSING", "COMPLETED"},
                                  amount : 0 .. Captured]]
      /\ k \in Requests /\ \A l \in Requests : l = k
      /\ Captured \in Nat /\ Captured > 0
      /\ Refunds!Idle.op = "idle"
  BY IdleRefund DEF RefundInv, RefundTypes, Refunds!TypeOK, RefundBounds
<1>2. \A w \in RefundWorkers : worker[w].op # "idle" => worker[w].key = k
  BY <1>1 DEF RefundInv, RefundRelies
<1>3. CASE UNCHANGED Refunds!vars
  BY <1>3 DEF Refunds!vars, OneRefund
<1>4. ASSUME NEW w \in RefundWorkers, NEW op \in {"idle", "create"} \cup Refunding,
             Refunds!Goto(w, op), worker[w].op # "idle", op # "book"
      PROVE  \A v \in RefundWorkers :
               /\ worker'[v].op # "idle" => worker'[v].amount = Captured
               /\ worker'[v].op = "book" => worker'[v].booked = 0
  <2>1. /\ \A v \in RefundWorkers : v # w => worker'[v] = worker[v]
        /\ worker'[w].op = op
        /\ op # "idle" => worker'[w].amount = worker[w].amount
    BY <1>4, RefundGoesTo DEF RefundInv
  <2> QED BY <1>4, <2>1 DEF OneRefund
<1>5. ASSUME NEW w \in RefundWorkers, Refunds!Begin(w, k) PROVE OneRefund(k)'
  <2>1. PICK next : next = [op |-> "create", key |-> k, amount |-> Captured - intent.refunded,
                            booked |-> 0]
    OBVIOUS
  <2>2. worker' = [worker EXCEPT ![w] = next] /\ intent' = intent /\ refund' = refund
        /\ intent.refunded < Captured
    BY <1>5, <2>1 DEF Refunds!Begin, Refunds!Eligible
  <2>3. next.amount = Captured /\ next.op = "create"
    BY <1>1, <2>1, <2>2 DEF OneRefund
  <2>4. worker'[w] = next /\ \A v \in RefundWorkers : v # w => worker'[v] = worker[v]
    BY <1>1, <2>2
  <2> QED BY <2>2, <2>3, <2>4 DEF OneRefund
<1>6. ASSUME NEW w \in RefundWorkers, Refunds!CreateRefund(w) PROVE OneRefund(k)'
  <2>1. worker[w].op = "create" /\ worker[w].key = k /\ intent' = intent
        /\ worker[w].amount = Captured
    BY <1>2, <1>6 DEF Refunds!CreateRefund, Refunds!At, OneRefund
  <2>2. \/ refund' = refund
        \/ /\ refund[k].status = "NONE"
           /\ refund'[k] = [status |-> "PROCESSING", amount |-> Captured]
    BY <1>1, <1>6, <2>1 DEF Refunds!CreateRefund, Refunds!Key, Refunds!Amount, Refunds!NoRefund
  <2>3. PICK op \in {"idle", "credit"} : Refunds!Goto(w, op)
    BY <1>6 DEF Refunds!CreateRefund
  <2>4. op \in {"idle", "create"} \cup Refunding /\ op # "book"
    BY DEF Refunding
  <2> QED BY <1>4, <2>1, <2>2, <2>3, <2>4 DEF OneRefund
<1>7. ASSUME NEW w \in RefundWorkers, Refunds!CreditWallet(w) PROVE OneRefund(k)'
  BY <1>4, <1>7 DEF Refunds!CreditWallet, Refunds!At, Refunding, OneRefund
<1>8. ASSUME NEW w \in RefundWorkers, Refunds!Claim(w) PROVE OneRefund(k)'
  <2>1. worker[w].op = "claim" /\ worker[w].key = k /\ intent' = intent /\ refund' = refund
        /\ worker[w].amount = Captured
    BY <1>2, <1>8 DEF Refunds!Claim, Refunds!At, OneRefund
  <2>2. CASE refund[k].status = "PROCESSING"
    <3>1. PICK next : next = [worker[w] EXCEPT !.op = "book", !.booked = intent.refunded]
      OBVIOUS
    <3>2. worker' = [worker EXCEPT ![w] = next]
      BY <1>8, <2>1, <2>2, <3>1 DEF Refunds!Claim, Refunds!Key
    <3>3. next.amount = Captured /\ next.booked = 0
      BY <1>1, <2>1, <2>2, <3>1 DEF OneRefund, RefundHandlers
    <3>4. worker'[w] = next /\ \A v \in RefundWorkers : v # w => worker'[v] = worker[v]
      BY <1>1, <3>2
    <3> QED BY <2>1, <3>3, <3>4 DEF OneRefund
  <2>3. CASE refund[k].status # "PROCESSING"
    <3>1. Refunds!Goto(w, "idle")
      BY <1>8, <2>1, <2>3 DEF Refunds!Claim, Refunds!Key
    <3> QED BY <1>4, <2>1, <3>1 DEF OneRefund
  <2> QED BY <2>2, <2>3
<1>9. ASSUME NEW w \in RefundWorkers, Refunds!Book(w) PROVE OneRefund(k)'
  <2>1. worker[w].op = "book" /\ worker[w].key = k /\ worker[w].amount = Captured
        /\ worker[w].booked = 0 /\ Refunds!Goto(w, "idle")
    BY <1>2, <1>9 DEF Refunds!Book, Refunds!At, OneRefund
  <2>2. PICK refunded : refunded = worker[w].booked + worker[w].amount
    OBVIOUS
  <2>3. refunded = Captured
    BY <1>1, <2>1, <2>2
  <2>4. refund' = [refund EXCEPT ![k].status = "COMPLETED"]
        /\ intent' = [status |-> "REFUNDED", refunded |-> refunded]
    BY <1>1, <1>9, <2>1, <2>2, <2>3 DEF Refunds!Book, Refunds!Amount, Refunds!Key
  <2>5. refund'[k].status = "COMPLETED" /\ refund'[k].amount = refund[k].amount
    BY <1>1, <2>4
  <2>6. refund[k].status # "NONE"
    BY <1>1, <2>1 DEF RefundInv, RefundRelies, Refunding
  <2> QED BY <1>4, <2>1, <2>3, <2>4, <2>5, <2>6 DEF OneRefund
<1>10. CASE Refunds!Crash
  BY <1>1, <1>10 DEF Refunds!Crash, OneRefund
<1>11. ASSUME NEW w \in RefundWorkers, Refunds!Answer(w) PROVE OneRefund(k)'
  BY <1>3, <1>11 DEF Refunds!Answer
<1>12. CASE Refunds!Next
  BY <1>1, <1>5, <1>6, <1>7, <1>8, <1>9, <1>10, <1>11, <1>12 DEF Refunds!Next, Refunds!Handle
<1> QED BY <1>3, <1>12

LEMMA RowsHold ==
  ASSUME RefundBounds, RefundInv
  PROVE  Refunds!RowsAgree
<1> SUFFICES ASSUME NEW k \in Requests
             PROVE  /\ Refunds!Refunded(k) \in {0, refund[k].amount}
                    /\ refund[k].status = "COMPLETED" => Refunds!Refunded(k) = refund[k].amount
  BY DEF Refunds!RowsAgree
<1>1. RefundFresh(k) => Refunds!Refunded(k) = 0
  BY DEF RefundFresh, Refunds!Ledger!Fresh, Refunds!Refunded, Refunds!Ledger!NoPosting,
         Refunds!Ledger!Posting
<1> QED BY <1>1 DEF RefundInv, RefundCoherent

LEMMA OneRefundBalances ==
  ASSUME RefundBounds, RefundInv, NEW k, Requests = {k}, OneRefund(k)
  PROVE  Refunds!WithinCaptured /\ Refunds!BooksBalance
<1>1. /\ Refunds!RowsAgree /\ Refunds!WalletHoldsRefunds /\ Refunds!ReceiptShowsRefunds
      /\ k \in Requests /\ refund[k].amount \in 0 .. Captured
  BY RowsHold DEF RefundInv, RefundTypes, Refunds!TypeOK
<1>2. Refunds!Refunded(k) \in 0 .. Captured
  BY <1>1 DEF Refunds!RowsAgree, RefundBounds
<1>3. wallet[Driver].available = Refunds!Refunded(k)
  <2>1. PICK f : f = [l \in Requests |-> Refunds!Refunded(l)]
    OBVIOUS
  <2>2. f[k] = Refunds!Refunded(k)
    BY <1>1, <2>1
  <2>3. Refunds!Ledger!Total({k}, f) = f[k]
    BY <1>2, <2>2, SumOfOne
  <2> QED BY <1>1, <2>1, <2>2, <2>3 DEF Refunds!WalletHoldsRefunds
<1>4. Refunds!IntentShowsRefunds
  <2>1. PICK f : f = [l \in Requests |-> refund[l].amount]
    OBVIOUS
  <2>2. f[k] = refund[k].amount
    BY <1>1, <2>1
  <2>3. Refunds!Ledger!Total({k}, f) = f[k] /\ Refunds!Ledger!Total({}, f) = 0
    BY <1>1, <2>2, SumOfOne
  <2>4. CASE refund[k].status = "COMPLETED"
    <3>1. Refunds!Completed = {k}
      BY <2>4 DEF Refunds!Completed
    <3> QED BY <2>1, <2>2, <2>3, <2>4, <3>1 DEF OneRefund, Refunds!IntentShowsRefunds
  <2>5. CASE refund[k].status # "COMPLETED"
    <3>1. Refunds!Completed = {}
      BY <2>5 DEF Refunds!Completed
    <3> QED BY <2>1, <2>3, <2>5, <3>1 DEF OneRefund, Refunds!IntentShowsRefunds
  <2> QED BY <2>4, <2>5
<1>5. Refunds!WithinCaptured
  BY <1>2, <1>3 DEF Refunds!WithinCaptured, RefundBounds
<1> QED BY <1>1, <1>4, <1>5 DEF Refunds!BooksBalance

-----------------------------------------------------------------------------
(* The theorems *)

\* One component moves at a time, and never gives the floor to the other.
LEMMA PaymentsInit ==
  /\ MCInit /\ focus = "topups" => Init
  /\ MCInit /\ focus = "refunds" => Refunds!Init
BY DEF MCInit

LEMMA PaymentsStep ==
  ASSUME [MCNext]_allVars
  PROVE  /\ focus' = focus
         /\ focus = "topups" => [Next]_vars
         /\ focus = "refunds" => [Refunds!Next]_(Refunds!vars)
<1>1. CASE UNCHANGED allVars
  <2>1. UNCHANGED vars /\ UNCHANGED <<focus, refund, receipt>>
    BY <1>1 DEF allVars
  <2>2. UNCHANGED Refunds!vars
    BY <2>1 DEF vars, money, rows, bounds, Refunds!vars, Refunds!money
  <2> QED BY <2>1, <2>2
<1>2. CASE MCNext
  BY <1>2 DEF MCNext, RestOfTopUps, RestOfRefunds
<1> QED BY <1>1, <1>2

\* Money comes in only for a charge that was paid, once; an intent shows a payment only after
\* the money is in the wallet, and a payment's event is done with only then or after a human was
\* asked to look, whatever is lost, repeated, raced or crashed (TopUpService,
\* PaymentWebhookService): of top-ups alone, with the types of their rows, and next to refunds.
THEOREM PaymentsAreCredited ==
  /\ Spec => [](TypeOK /\ CreditedIsPaid /\ ShownIsCredited)
  /\ MCSpec => []PaymentIsCredited
<1>1. Spec => []TopUpInv
  BY TopUpInit, TopUpStep, PTL DEF Spec
<1> DEFINE Inv == focus = "topups" => TopUpInv
<1>2. MCInit => Inv
  BY PaymentsInit, TopUpInit
<1>3. Inv /\ [MCNext]_allVars => Inv'
  BY PaymentsStep, TopUpStep
<1>4. Inv => PaymentIsCredited
  BY TopUpSafe DEF PaymentIsCredited
<1> HIDE DEF Inv
<1>5. MCSpec => []PaymentIsCredited
  BY <1>2, <1>3, <1>4, PTL DEF MCSpec
<1> QED BY <1>1, <1>5, TopUpSafe, PTL

\* The ledger that top-ups work with is the wallets' ledger: each of their steps is one of its
\* steps (a credit) or leaves it alone.
THEOREM TopUpsUseLedger == Spec => Ledger!Spec
<1>1. Init => Ledger!Init
  BY DEF Init
<1>2. TopUpInv /\ [Next]_vars => [Ledger!Next]_(Ledger!vars)
  <2> SUFFICES ASSUME TopUpInv, [Next]_vars PROVE [Ledger!Next]_(Ledger!vars)
    OBVIOUS
  <2>1. ASSUME NEW w \in Workers, Credit(w) PROVE [Ledger!Next]_(Ledger!vars)
    <3>1. worker[w].op = "credit" /\ worker[w].op # "idle"
      BY <2>1 DEF Credit, At
    <3>2. Key(w) \in TopUpKeys
      BY <3>1, AtWork DEF Key
    <3>3. CASE Ledger!Credit(Driver, Key(w), 1)
      <4>1. 1 \in Ledger!Money
        <5>1. Cardinality(TopUpKeys) \in Nat /\ Cardinality(TopUpKeys) # 0
          BY <3>2, TopUpAssumption, FS_CardinalityType, FS_EmptySet
        <5> QED BY <5>1 DEF Ledger!Money
      <4> QED BY <3>2, <3>3, <4>1 DEF Ledger!Next, Ledger!WalletStep
    <3>4. CASE UNCHANGED money
      BY <3>4 DEF money, Ledger!vars
    <3> QED BY <2>1, <3>3, <3>4 DEF Credit
  <2>2. CASE UNCHANGED money
    BY <2>2 DEF money, Ledger!vars
  <2>3. CASE UNCHANGED vars
    BY <2>2, <2>3 DEF vars
  <2>4. ASSUME NEW w \in Workers, Handle(w) PROVE UNCHANGED money \/ Credit(w)
    BY <2>4 DEF Handle, ReadIntent, WriteIntent, CreatePixCharge, CancelPixCharge,
       MarkProcessing, MarkProcessed, MarkFailed, MarkEvent, Apply, MarkReview
  <2>5. Next => UNCHANGED money \/ \E w \in Workers : Credit(w)
    BY <2>4 DEF Next, CallFails, Create, Cancel, Deliver, Pay, Expire, Crash
  <2> QED BY <2>1, <2>2, <2>3, <2>5
<1>3. Spec => []TopUpInv
  BY TopUpInit, TopUpStep, PTL DEF Spec
<1> QED BY <1>1, <1>2, <1>3, PTL DEF Spec, Ledger!Spec

\* Whatever requests, of however many keys, are made, repeated and interrupted: the wallet has
\* received what the ledger says, a refund row at most its own amount and exactly that once it is
\* completed, and the receipt says REFUNDED exactly when the intent does (refundCapturedPayment).
THEOREM RefundsAgree ==
  ASSUME RefundBounds
  PROVE  Refunds!Spec =>
           [](/\ Refunds!TypeOK /\ Refunds!WalletHoldsRefunds
              /\ Refunds!RowsAgree /\ Refunds!ReceiptShowsRefunds)
<1>1. Refunds!Spec => []RefundInv
  BY RefundInit, RefundStep, PTL DEF Refunds!Spec
<1>2. RefundInv => /\ Refunds!TypeOK /\ Refunds!WalletHoldsRefunds
                   /\ Refunds!RowsAgree /\ Refunds!ReceiptShowsRefunds
  BY RowsHold DEF RefundInv, RefundTypes
<1> QED BY <1>1, <1>2, PTL

\* For the requests of one key the wallet, the rows and the intent agree, and no more is refunded
\* than was captured: of refunds alone, and next to top-ups.
THEOREM RefundsBalance ==
  ASSUME RefundBounds, NEW k, Requests = {k}
  PROVE  /\ Refunds!Spec => [](Refunds!WithinCaptured /\ Refunds!BooksBalance)
         /\ MCSpec => []BooksBalance
<1> DEFINE One == RefundInv /\ OneRefund(k)
<1>1. Refunds!Init => One
  BY RefundInit, OneRefundInit
<1>2. One /\ [Refunds!Next]_(Refunds!vars) => One'
  BY RefundStep, OneRefundStep
<1>3. One => Refunds!WithinCaptured /\ Refunds!BooksBalance
  BY OneRefundBalances
<1> DEFINE Inv == focus = "refunds" => One
<1> HIDE DEF One
<1>4. MCInit => Inv
  BY <1>1, PaymentsInit
<1>5. Inv /\ [MCNext]_allVars => Inv'
  BY <1>2, PaymentsStep
<1>6. Inv => BooksBalance
  BY <1>3 DEF BooksBalance
<1> HIDE DEF Inv
<1>7. MCSpec => []BooksBalance
  BY <1>4, <1>5, <1>6, PTL DEF MCSpec
<1>8. Refunds!Spec => [](Refunds!WithinCaptured /\ Refunds!BooksBalance)
  BY <1>1, <1>2, <1>3, PTL DEF Refunds!Spec
<1> QED BY <1>7, <1>8

\* The ledger that refunds work with is the wallets' ledger too.
THEOREM RefundsUseLedger ==
  ASSUME RefundBounds
  PROVE  Refunds!Spec => Refunds!Ledger!Spec
<1>1. Refunds!Init => Refunds!Ledger!Init
  BY DEF Refunds!Init
<1>2. RefundInv /\ [Refunds!Next]_(Refunds!vars) => [Refunds!Ledger!Next]_(Refunds!Ledger!vars)
  <2> SUFFICES ASSUME RefundInv, [Refunds!Next]_(Refunds!vars)
               PROVE [Refunds!Ledger!Next]_(Refunds!Ledger!vars)
    OBVIOUS
  <2>1. ASSUME NEW w \in RefundWorkers, Refunds!CreditWallet(w)
        PROVE  [Refunds!Ledger!Next]_(Refunds!Ledger!vars)
    <3>1. worker[w].op = "credit" /\ worker[w].op # "idle"
      BY <2>1 DEF Refunds!CreditWallet, Refunds!At
    <3>2. Refunds!Key(w) \in Requests /\ Refunds!Amount(w) \in 1 .. Captured
      BY <3>1, AtRefund DEF Refunds!Key, Refunds!Amount
    <3>3. CASE Refunds!Ledger!Refund(Driver, Refunds!Key(w), Refunds!Amount(w))
      <4>1. Refunds!Amount(w) \in Refunds!Ledger!Money
        BY <3>2 DEF RefundBounds, Refunds!Ledger!Money
      <4> QED BY <3>2, <3>3, <4>1 DEF Refunds!Ledger!Next, Refunds!Ledger!WalletStep
    <3>4. CASE UNCHANGED Refunds!money
      BY <3>4 DEF Refunds!money, Refunds!Ledger!vars
    <3> QED BY <2>1, <3>3, <3>4 DEF Refunds!CreditWallet
  <2>2. CASE UNCHANGED Refunds!money
    BY <2>2 DEF Refunds!money, Refunds!Ledger!vars
  <2>3. UNCHANGED Refunds!vars => UNCHANGED Refunds!money
    BY DEF Refunds!vars
  <2>4. Refunds!Next => UNCHANGED Refunds!money \/ \E w \in RefundWorkers : Refunds!CreditWallet(w)
    BY <2>3 DEF Refunds!Next, Refunds!Handle, Refunds!CreateRefund, Refunds!Claim, Refunds!Book,
       Refunds!Answer, Refunds!Begin, Refunds!Crash
  <2> QED BY <2>1, <2>2, <2>3, <2>4
<1>3. Refunds!Spec => []RefundInv
  BY RefundInit, RefundStep, PTL DEF Refunds!Spec
<1> QED BY <1>1, <1>2, <1>3, PTL DEF Refunds!Spec, Refunds!Ledger!Spec
=============================================================================
