------------------------------ MODULE Refunds ------------------------------
(***************************************************************************)
(* Refunding a captured payment                                            *)
(* (payments/refunds/refund.service.ts, called by the administration).     *)
(*                                                                         *)
(* One payment intent, captured in full.  A request carries an idempotency *)
(* key; it reads the intent, creates the refund row of its key, credits    *)
(* the wallet under the key of that row, and books the refund on the       *)
(* intent and the receipt in a last transaction.  Only the wallet's part   *)
(* is serializable.  What captured the payment lies before the initial     *)
(* state: the wallet starts empty.                                         *)
(***************************************************************************)
EXTENDS Integers, FiniteSets, Lifecycles

CONSTANTS
  Workers,     \* requests handled at one time
  Requests,    \* idempotency keys of refund requests
  Driver,      \* the wallet of the payment's user
  Captured,    \* intent.capturedAmountMinor
  MaxMinor,    \* environment.maximumMoneyMinor
  MaxCrashes   \* bound on crashes of the backend

VARIABLES
  wallet, reservation, journal,  \* the state of WalletLedger
  intent,   \* status and refundedAmountMinor of the payment intent
  refund,   \* refunds: status and amount, by idempotency key
  receipt,  \* receipts.status
  worker,   \* where each handler is
  crashes   \* crashes so far

money == <<wallet, reservation, journal>>
vars == <<money, intent, refund, receipt, worker, crashes>>

Ledger == INSTANCE WalletLedger
            WITH Wallets <- {Driver}, Sessions <- {}, CreditKeys <- {},
                 RefundKeys <- Requests

-----------------------------------------------------------------------------
(* Data *)

NoRequest == "none"

NoRefund == [status |-> "NONE", amount |-> 0]

\* amount: what the handler computed from its read of the intent.  booked: the
\* refunded amount it found in the last transaction.
Idle == [op |-> "idle", key |-> NoRequest, amount |-> 0, booked |-> 0]

Refundable == {"CAPTURED", "PARTIALLY_REFUNDED"}

At(w, op) == worker[w].op = op
Key(w)    == worker[w].key
Amount(w) == worker[w].amount

Goto(w, op) ==
  worker' = [worker EXCEPT ![w] = IF op = "idle" THEN Idle ELSE [@ EXCEPT !.op = op]]

-----------------------------------------------------------------------------
(* The steps of refundCapturedPayment *)

Eligible == intent.status \in Refundable /\ intent.refunded < Captured

\* A payment with nothing left to refund: the request is answered from its
\* refund row or rejected, and changes nothing.
Answer(w) ==
  /\ At(w, "idle")
  /\ ~Eligible
  /\ UNCHANGED vars

Begin(w, k) ==
  /\ At(w, "idle")
  /\ Eligible
  /\ worker' = [worker EXCEPT ![w] =
       [op |-> "create", key |-> k, amount |-> Captured - intent.refunded,
        booked |-> 0]]
  /\ UNCHANGED <<money, intent, refund, receipt, crashes>>

\* Faulty variant: the key of a row, in whatever state, is refused.
CreateRefuses(w) ==
  /\ At(w, "create")
  /\ IF refund[Key(w)] = NoRefund
       THEN /\ refund' = [refund EXCEPT ![Key(w)] =
                 [status |-> "PROCESSING", amount |-> Amount(w)]]
            /\ Goto(w, "credit")
       ELSE Goto(w, "idle") /\ UNCHANGED refund
  /\ UNCHANGED <<money, intent, receipt, crashes>>

\* Faulty variant: a request that joins a row takes its credit for granted.
CreateTrusts(w) ==
  /\ At(w, "create")
  /\ IF refund[Key(w)] = NoRefund
       THEN /\ refund' = [refund EXCEPT ![Key(w)] =
                 [status |-> "PROCESSING", amount |-> Amount(w)]]
            /\ Goto(w, "credit")
       ELSE Goto(w, "claim") /\ UNCHANGED refund
  /\ UNCHANGED <<money, intent, receipt, crashes>>

\* The row of the key is created, or the request joins it: unless its payload
\* differs or it is completed.
CreateRefund(w) ==
  /\ At(w, "create")
  /\ \/ /\ refund[Key(w)] = NoRefund
        /\ refund' = [refund EXCEPT ![Key(w)] =
             [status |-> "PROCESSING", amount |-> Amount(w)]]
        /\ Goto(w, "credit")
     \/ /\ refund[Key(w)].status = "PROCESSING"
        /\ refund[Key(w)].amount = Amount(w)
        /\ Goto(w, "credit")
        /\ UNCHANGED refund
     \/ /\ \/ refund[Key(w)].status = "COMPLETED"
           \/ refund[Key(w)] # NoRefund /\ refund[Key(w)].amount # Amount(w)
        /\ Goto(w, "idle")
        /\ UNCHANGED refund
  /\ UNCHANGED <<money, intent, receipt, crashes>>

\* wallet.refund posts once per refund row.
CreditWallet(w) ==
  /\ At(w, "credit")
  /\ \/ Ledger!Refund(Driver, Key(w), Amount(w))
     \/ /\ ~Ledger!Fresh(<<"refund", Key(w)>>)
        /\ UNCHANGED money
  /\ Goto(w, "claim")
  /\ UNCHANGED <<intent, refund, receipt, crashes>>

\* The last transaction: it claims the row (and holds its lock to the end),
\* then reads the intent, which nothing locks.  Of several handlers of one key
\* the first that commits has the row; the others find it completed.
Claim(w) ==
  /\ At(w, "claim")
  /\ ~\E v \in Workers : At(v, "book") /\ Key(v) = Key(w)
  /\ IF refund[Key(w)].status = "PROCESSING"
       THEN worker' = [worker EXCEPT ![w].op = "book", ![w].booked = intent.refunded]
       ELSE Goto(w, "idle")
  /\ UNCHANGED <<money, intent, refund, receipt, crashes>>

\* It commits what it computed from that read, or is rolled back.
Book(w) ==
  LET refunded == worker[w].booked + Amount(w)
      status   == IF refunded = Captured THEN "REFUNDED" ELSE "PARTIALLY_REFUNDED"
  IN
  /\ At(w, "book")
  /\ IF refunded > Captured
       THEN UNCHANGED <<intent, refund, receipt>>
       ELSE /\ refund' = [refund EXCEPT ![Key(w)].status = "COMPLETED"]
            /\ intent' = [status |-> status, refunded |-> refunded]
            /\ receipt' = status
  /\ Goto(w, "idle")
  /\ UNCHANGED <<money, crashes>>

\* The backend dies; open transactions are rolled back.
Crash ==
  /\ crashes < MaxCrashes
  /\ crashes' = crashes + 1
  /\ worker' = [w \in Workers |-> Idle]
  /\ UNCHANGED <<money, intent, refund, receipt>>

Init ==
  /\ Ledger!Init
  /\ intent = [status |-> "CAPTURED", refunded |-> 0]
  /\ refund = [k \in Requests |-> NoRefund]
  /\ receipt = "ISSUED"
  /\ worker = [w \in Workers |-> Idle]
  /\ crashes = 0

Handle(w) == CreateRefund(w) \/ CreditWallet(w) \/ Claim(w) \/ Book(w)

Next ==
  \/ \E w \in Workers : Handle(w) \/ Answer(w) \/ \E k \in Requests : Begin(w, k)
  \/ Crash

Spec == Init /\ [][Next]_vars

\* Handlers run to their end, and the administrator repeats a request that
\* was not answered.
Repeated(k) == \E w \in Workers : Begin(w, k)

FairSpec ==
  /\ Spec
  /\ \A w \in Workers : WF_vars(Handle(w))
  /\ \A k \in Requests : SF_vars(Repeated(k))

-----------------------------------------------------------------------------
(* Properties *)

TypeOK ==
  /\ Ledger!TypeOK
  /\ intent \in [status : IntentStatus, refunded : 0 .. Captured]
  /\ refund \in [Requests -> [status : {"NONE", "PROCESSING", "COMPLETED"},
                              amount : 0 .. Captured]]
  /\ receipt \in {"ISSUED", "REFUNDED", "PARTIALLY_REFUNDED"}
  /\ \A w \in Workers :
       worker[w].op \in {"idle", "create", "credit", "claim", "book"}

Refunded(k) == journal[<<"refund", k>>].amount

\* docs/admin/payments-and-refunds.md: a refund is bound by the eligible
\* amount.  The wallet never receives more than was captured.
WithinCaptured == wallet[Driver].available <= Captured

\* Whatever requests, repetitions and crashes come together, the three books agree: the wallet has
\* received what the ledger says (WalletHoldsRefunds), a refund row at most its own amount and
\* exactly that once it is completed (RowsAgree), and the intent shows the sum of the completed
\* rows (IntentShowsRefunds), its receipt with it (refundCapturedPayment, WalletService.refund).
WalletHoldsRefunds ==
  wallet[Driver].available = Ledger!Total(Requests, [k \in Requests |-> Refunded(k)])

RowsAgree ==
  \A k \in Requests :
    /\ Refunded(k) \in {0, refund[k].amount}
    /\ refund[k].status = "COMPLETED" => Refunded(k) = refund[k].amount

Completed == {k \in Requests : refund[k].status = "COMPLETED"}

IntentShowsRefunds ==
  intent.refunded = Ledger!Total(Completed, [k \in Requests |-> refund[k].amount])

ReceiptShowsRefunds == receipt = "REFUNDED" <=> intent.refunded = Captured

BooksBalance ==
  WalletHoldsRefunds /\ RowsAgree /\ IntentShowsRefunds /\ ReceiptShowsRefunds

\* A request that is repeated until it is answered completes its refund, even
\* if the backend died in the middle.
RepeatedIsBooked ==
  \A k \in Requests : refund[k].status = "PROCESSING" ~> refund[k].status = "COMPLETED"
=============================================================================
