------------------------- MODULE SettlementContract -------------------------
(***************************************************************************)
(* What the platform promises a driver about the money of a charging       *)
(* session, without handlers, intents, versions or receipts: money is held *)
(* only for an open session, it stays held until the session has ended,    *)
(* it is then settled once, and what is charged is the price of a          *)
(* completed session and never more than what was held.                    *)
(*                                                                         *)
(* ChargingSettlement implements it (ContractSpec there).                  *)
(***************************************************************************)
EXTENDS Naturals

CONSTANTS
  Sessions,  \* session ids
  Hold,      \* what is held for a session
  Prices     \* what a session may cost

VARIABLE bill  \* by session: phase, price, money, paid

Phase == {"open", "completed", "failed"}

OpenBill == [phase |-> "open", price |-> 0, money |-> "none", paid |-> 0]

Init == bill = [s \in Sessions |-> OpenBill]

HoldMoney(s) ==
  /\ bill[s] = OpenBill
  /\ bill' = [bill EXCEPT ![s].money = "held"]

Finish(s, price) ==
  /\ bill[s].phase = "open"
  /\ bill[s].money = "held"
  /\ bill' = [bill EXCEPT ![s].phase = "completed", ![s].price = price]

Abort(s) ==
  /\ bill[s].phase = "open"
  /\ bill' = [bill EXCEPT ![s].phase = "failed"]

Charge(s) ==
  /\ bill[s].phase = "completed"
  /\ bill[s].money = "held"
  /\ bill[s].price <= Hold
  /\ bill' = [bill EXCEPT ![s].money = "charged", ![s].paid = bill[s].price]

GiveBack(s) ==
  /\ bill[s].phase # "open"
  /\ bill[s].money = "held"
  /\ bill' = [bill EXCEPT ![s].money = "returned"]

Next ==
  \E s \in Sessions :
    \/ HoldMoney(s)
    \/ \E price \in Prices : Finish(s, price)
    \/ Abort(s)
    \/ Charge(s)
    \/ GiveBack(s)

Spec == Init /\ [][Next]_bill
=============================================================================
