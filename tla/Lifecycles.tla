----------------------------- MODULE Lifecycles -----------------------------
(***************************************************************************)
(* The two state machines that guard every status write: charging sessions *)
(* (charging/domain/charging-session-state-machine.ts) and payment intents *)
(* (payments/intents/payment-intent-state-machine.ts).                     *)
(***************************************************************************)

\* Where a charging session may go from each status.
SessionTransitions ==
  [PENDING    |-> {"AUTHORIZED", "FAILED", "CANCELLED"},
   AUTHORIZED |-> {"STARTING", "FAILED", "CANCELLED"},
   STARTING   |-> {"CHARGING", "FAILED", "CANCELLED"},
   CHARGING   |-> {"STOPPING", "FAILED"},
   STOPPING   |-> {"COMPLETED", "FAILED"},
   COMPLETED  |-> {},
   FAILED     |-> {},
   CANCELLED  |-> {}]

SessionStatus == DOMAIN SessionTransitions

TerminalSession(status) == SessionTransitions[status] = {}

\* assertChargingSessionTransition: staying is always legal.
LegalSessionMove(from, to) == from = to \/ to \in SessionTransitions[from]

\* Where a payment intent may go from each status.
IntentTransitions ==
  [CREATED            |-> {"PENDING", "CANCELLED", "FAILED"},
   PENDING            |-> {"REQUIRES_ACTION", "AUTHORIZED", "PROCESSING",
                           "CAPTURED", "CANCELLED", "EXPIRED", "FAILED",
                           "REQUIRES_REVIEW"},
   REQUIRES_ACTION    |-> {"PENDING", "PROCESSING", "CAPTURED", "CANCELLED",
                           "EXPIRED", "FAILED"},
   AUTHORIZED         |-> {"PROCESSING", "CAPTURED", "CANCELLED", "FAILED",
                           "REQUIRES_REVIEW"},
   PROCESSING         |-> {"CAPTURED", "FAILED", "REQUIRES_REVIEW"},
   CAPTURED           |-> {"PARTIALLY_REFUNDED", "REFUNDED", "REQUIRES_REVIEW"},
   CANCELLED          |-> {},
   EXPIRED            |-> {},
   FAILED             |-> {"PENDING", "REQUIRES_REVIEW"},
   REQUIRES_REVIEW    |-> {"PROCESSING", "CAPTURED", "FAILED",
                           "PARTIALLY_REFUNDED", "REFUNDED"},
   REFUNDED           |-> {},
   PARTIALLY_REFUNDED |-> {"REFUNDED", "REQUIRES_REVIEW"}]

IntentStatus == DOMAIN IntentTransitions

\* assertPaymentIntentTransition
LegalIntentMove(from, to) == from = to \/ to \in IntentTransitions[from]

=============================================================================
