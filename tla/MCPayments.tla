----------------------------- MODULE MCPayments -----------------------------
(***************************************************************************)
(* Money that comes in and money that goes back, side by side: focus names *)
(* top-ups or refunds, and the variables of the other are at rest.         *)
(*                                                                         *)
(* One top-up with two handlers: a creation, a cancellation and webhooks   *)
(* in any pair.  Refunds with three handlers of one idempotency key.         *)
(***************************************************************************)
EXTENDS TopUps

CONSTANTS
  wkr1, wkr2, wkr3, key1, purse,                          \* model values
  RefundWorkers, Requests, Captured, MaxMinor, RefundCrashes  \* the constants of Refunds

VARIABLES focus, refund, receipt

MCWorkers == {wkr1, wkr2}
MCKeys == {key1}
MCRefundWorkers == MCWorkers \cup {wkr3}

Refunds == INSTANCE Refunds WITH Workers <- RefundWorkers, MaxCrashes <- RefundCrashes

ofTopUps == <<event, charge, sent, failures>>
allVars == <<focus, refund, receipt, vars>>

AtRest == "at rest"

MCInit ==
  \/ focus = "topups" /\ Init /\ refund = AtRest /\ receipt = AtRest
  \/ /\ focus = "refunds" /\ Refunds!Init
     /\ event = AtRest /\ charge = AtRest /\ sent = AtRest /\ failures = AtRest

RestOfTopUps  == UNCHANGED <<focus, refund, receipt>>
RestOfRefunds == UNCHANGED <<focus, ofTopUps>>

MCNext ==
  \/ focus = "topups" /\ Next /\ RestOfTopUps
  \/ focus = "refunds" /\ Refunds!Next /\ RestOfRefunds

MCSpec == MCInit /\ [][MCNext]_allVars

\* The fairness of TopUps and of Refunds.
MCFairness ==
  /\ \A w \in Workers : WF_allVars(focus = "topups" /\ Handle(w) /\ RestOfTopUps)
  /\ \A w \in RefundWorkers : WF_allVars(focus = "refunds" /\ Refunds!Handle(w) /\ RestOfRefunds)
  /\ \A k \in TopUpKeys : SF_allVars(focus = "topups" /\ Redeliver(k) /\ RestOfTopUps)
  /\ \A k \in Requests : SF_allVars(focus = "refunds" /\ Refunds!Repeated(k) /\ RestOfRefunds)

MCFairSpec == MCSpec /\ MCFairness

PaymentIsCredited == focus = "topups" => CreditedIsPaid /\ ShownIsCredited
BooksBalance      == focus = "refunds" => Refunds!WithinCaptured /\ Refunds!BooksBalance
RepeatedIsBooked ==
  \A k \in Requests :
    (focus = "refunds" /\ refund[k].status = "PROCESSING")
      ~> (focus = "refunds" /\ refund[k].status = "COMPLETED")
PaymentIsSettled ==
  \A k \in TopUpKeys :
    (focus = "topups" /\ charge[k] = "APPROVED")
      ~> (focus = "topups" /\ (Settled(k) \/ crashes > 0))
=============================================================================
