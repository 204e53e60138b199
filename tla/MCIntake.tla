------------------------------- MODULE MCIntake ------------------------------
(* Instances of PurchaseIntake. *)
EXTENDS PurchaseIntake, TLC

\* A shop sends more than one mail about an order: the two have one order.
SameOrder == [r \in Receipts |-> CHOOSE o \in Orders : TRUE]
=============================================================================
