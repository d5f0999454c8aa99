------------------------------- MODULE Outbox --------------------------------
(***************************************************************************)
(* What the order outbox promises the rest of the system: an intent is held,*)
(* then possibly sent, or void.  Only a possibly sent intent can get an     *)
(* order, a void one never does, and nothing leaves void.  Reservations,    *)
(* risk and protection may forget an intent exactly when it is void.        *)
(***************************************************************************)
CONSTANT Intents

VARIABLES
  phase,        \* "held", "sent" (possibly) or "void", per intent
  ordered       \* intents for which the broker has an order

TypeOK ==
  /\ phase \in [Intents -> {"held", "sent", "void"}]
  /\ ordered \subseteq Intents

Init ==
  /\ phase = [i \in Intents |-> "held"]
  /\ ordered = {}

Send(i) ==
  /\ phase[i] = "held"
  /\ phase' = [phase EXCEPT ![i] = "sent"]
  /\ UNCHANGED ordered

\* A sent intent becomes void only on proof that the send stayed local.
Void(i) ==
  /\ phase[i] \in {"held", "sent"}
  /\ i \notin ordered
  /\ phase' = [phase EXCEPT ![i] = "void"]
  /\ UNCHANGED ordered

Appear(i) ==
  /\ phase[i] = "sent"
  /\ i \notin ordered
  /\ ordered' = ordered \cup {i}
  /\ UNCHANGED phase

Next == \E i \in Intents : Send(i) \/ Void(i) \/ Appear(i)

Spec == Init /\ [][Next]_<<phase, ordered>>
=============================================================================
