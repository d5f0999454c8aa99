------------------------------ MODULE Lifecycle ------------------------------
(***************************************************************************)
(* The durable life of an order intent (domain/lifecycle.py) and the reading*)
(* of a broker order as an intent state (execution/coordinator.py).  These  *)
(* are the definitions every module about orders shares: no variables.      *)
(***************************************************************************)
EXTENDS Naturals

CONSTANT Qty        \* the ordered quantity, in units the broker fills one by one

ASSUME QtyAssumption == Qty \in Nat \ {0}

IntentStates ==
  {"RISK_APPROVED", "ORDER_CREATED", "SUBMITTING", "SUBMISSION_UNKNOWN",
   "BROKER_ACCEPTED", "PARTIALLY_FILLED", "CANCEL_PENDING",
   "FILLED", "REJECTED", "CANCELLED", "EXPIRED", "ERROR"}

\* States from which no POST can have been attempted, and those in which one
\* may have been but no acknowledgement is durable.
PreSend == {"RISK_APPROVED", "ORDER_CREATED"}
Uncertain == {"SUBMITTING", "SUBMISSION_UNKNOWN"}

\* The broker-reported ends of an order; ERROR is the local one.
Settled == {"FILLED", "CANCELLED", "EXPIRED", "REJECTED"}

Successors(s) ==
  CASE s = "RISK_APPROVED"      -> {"ORDER_CREATED", "ERROR"}
    [] s = "ORDER_CREATED"      -> {"SUBMITTING", "CANCELLED", "ERROR"}
    [] s = "SUBMITTING"         -> {"BROKER_ACCEPTED", "REJECTED", "SUBMISSION_UNKNOWN", "ERROR"}
    [] s = "SUBMISSION_UNKNOWN" -> {"SUBMITTING", "BROKER_ACCEPTED", "REJECTED", "ERROR"}
    [] s = "BROKER_ACCEPTED"    -> {"PARTIALLY_FILLED", "FILLED", "REJECTED", "CANCEL_PENDING",
                                    "CANCELLED", "EXPIRED", "ERROR"}
    [] s = "PARTIALLY_FILLED"   -> {"FILLED", "CANCEL_PENDING", "CANCELLED", "EXPIRED", "ERROR"}
    [] s = "CANCEL_PENDING"     -> {"CANCELLED", "PARTIALLY_FILLED", "FILLED", "ERROR"}
    [] OTHER                    -> {}

\* transition_order: repeating a state is idempotent, anything else is listed.
Allowed(from, to) == from = to \/ to \in Successors(from)

(***************************************************************************)
(* A broker order, as a poll or an acknowledgement reports it: its status   *)
(* and how much of it has been filled.  Status "none" is no order at all.   *)
(***************************************************************************)
OrderStatuses == {"none", "open", "filled", "canceled", "expired", "rejected"}
Snapshots == [status : OrderStatuses, filled : 0..Qty]

NoOrder == [status |-> "none", filled |-> 0]
NewOrder == [status |-> "open", filled |-> 0]

IsOpen(o) == o.status = "open"
Ended(o) == o.status \in {"filled", "canceled", "expired", "rejected"}

\* Variant: any fill counts as the whole order.
AckTargetAnyFill(o) ==
  CASE o.status = "rejected"                      -> "REJECTED"
    [] o.filled > 0 \/ o.status = "filled"        -> "FILLED"
    [] o.status = "canceled"                      -> "CANCELLED"
    [] o.status = "expired"                       -> "EXPIRED"
    [] OTHER                                      -> "none"

\* _ack_terminal_target; "none" stands for the code's None.
AckTarget(o) ==
  CASE o.status = "rejected"                      -> "REJECTED"
    [] o.filled = Qty \/ o.status = "filled"      -> "FILLED"
    [] o.status = "canceled"                      -> "CANCELLED"
    [] o.status = "expired"                       -> "EXPIRED"
    [] o.status = "open" /\ o.filled > 0          -> "PARTIALLY_FILLED"
    [] OTHER                                      -> "none"

(***************************************************************************)
(* Adoption of a snapshot by an intent in state s: an uncertain intent is   *)
(* first accepted, a settled one keeps its state, and otherwise the         *)
(* snapshot's target applies -- where the lifecycle allows it.              *)
(***************************************************************************)
AcceptedFrom(s) == IF s \in Uncertain THEN "BROKER_ACCEPTED" ELSE s

AdoptedState(s, o) ==
  IF AckTarget(o) = "none" \/ AcceptedFrom(s) \in Settled
    THEN AcceptedFrom(s)
    ELSE AckTarget(o)

\* transition_order accepts both moves of AdoptedState.
AdoptionAllowed(s, o) == Allowed(AcceptedFrom(s), AdoptedState(s, o))
=============================================================================
