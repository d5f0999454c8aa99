-------------------------- MODULE MCRequestBudget --------------------------
(* A guardian and a trader of one host; the shares scaled down.            *)
EXTENDS RequestBudget, TLC

CONSTANTS guardian, trader
RoleOf == (guardian :> "guardian") @@ (trader :> "trader")
Limits == [guardian |-> 2, trader |-> 1]
=============================================================================
