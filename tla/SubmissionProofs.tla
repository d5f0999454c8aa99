--------------------------- MODULE SubmissionProofs --------------------------
(***************************************************************************)
(* Proofs about Submission for any number of intents, senders, importers    *)
(* and retries: its typing; the inductive invariant IInv and from it that a *)
(* released intent is never sent and POSTs stay bounded; the invariant      *)
(* RecordInv and from it that what the store records of an order is true;   *)
(* and that the protocol implements the outbox of module Outbox.            *)
(***************************************************************************)
EXTENDS Submission, TLAPS

-----------------------------------------------------------------------------
(* Operators of Lifecycle.                                                 *)

\* Adoption yields an intent state.
LEMMA AdoptedStateType ==
  ASSUME NEW s \in IntentStates, NEW o \in Snapshots
  PROVE  AdoptedState(s, o) \in IntentStates
BY DEF AdoptedState, AcceptedFrom, AckTarget, IntentStates, Snapshots, OrderStatuses

\* The records a call or a cycle starts from are typed.
LEMMA ConstantTypes ==
  /\ NoOrder \in Snapshots /\ NewOrder \in Snapshots
  /\ IdleCall \in Calls
  /\ NoEvent \in OrderEvents
  /\ IdleCycle \in Cycles
BY QtyAssumption DEF NoOrder, NewOrder, Snapshots, OrderStatuses, IdleCall, Calls, CallPoints,
   IntentStates, NoEvent, OrderEvents, IdleCycle, Cycles

-----------------------------------------------------------------------------
(* Typing.                                                                 *)

LEMMA TypeInit == Init => TypeOK
BY ConstantTypes DEF Init, TypeOK, IntentStates

\* The shared helpers keep their part of the typing.
LEMMA StopType ==
  ASSUME TypeOK, NEW p \in Senders, Stop(p)
  PROVE  call' \in [Senders -> Calls]
BY ConstantTypes DEF TypeOK, Stop

LEMMA GotoType ==
  ASSUME TypeOK, NEW p \in Senders, NEW point \in CallPoints, Goto(p, point)
  PROVE  call' \in [Senders -> Calls]
BY DEF TypeOK, Goto, Calls

LEMMA SetType ==
  ASSUME TypeOK, NEW i \in Intents, NEW s \in IntentStates, Set(i, s)
  PROVE  istate' \in [Intents -> IntentStates]
BY DEF TypeOK, Set

\* A compare-and-set of a call is typed when its target and next point are.
LEMMA CasType ==
  ASSUME TypeOK, NEW p \in Senders, NEW i \in Intents,
         NEW from \in IntentStates, NEW to \in IntentStates, NEW point \in CallPoints,
         Cas(p, i, from, to, point)
  PROVE  istate' \in [Intents -> IntentStates] /\ call' \in [Senders -> Calls]
BY StopType, GotoType, SetType DEF Cas, TypeOK

\* A call that is under way has an intent.
JobOK == \A p \in Senders : call[p].pc # "idle" => call[p].job \in Intents

\* Sender steps preserve the typing.
LEMMA TypeSender ==
  ASSUME TypeOK, JobOK, NEW p \in Senders, SenderStep(p) \/ Crash(p)
  PROVE  TypeOK'
<1> DEFINE i == call[p].job
<1> USE DEF durable, outside
<1>0. /\ call[p] \in Calls
      /\ call[p].pc # "idle" => i \in Intents
  BY DEF TypeOK, JobOK
<1>1. ASSUME NEW k \in Intents, Begin(p, k) PROVE TypeOK'
  <2>1. istate[k] \in IntentStates
    BY DEF TypeOK
  <2>2. [IdleCall EXCEPT !.pc = IF istate[k] \in PreSend THEN "begin" ELSE "recover",
                         !.job = k, !.seen = istate[k]] \in Calls
    BY <2>1, ConstantTypes DEF Calls, CallPoints, IdleCall
  <2> QED
    BY <1>1, <2>2 DEF Begin, TypeOK
<1>2. CASE Claim(p)
  <2>1. i \in Intents /\ istate[i] \in IntentStates
    BY <1>0, <1>2 DEF Claim, TypeOK
  <2>2. [call[p] EXCEPT !.seen = "ORDER_CREATED"] \in Calls
    BY <1>0 DEF Calls, IntentStates
  <2>3. CASE istate[i] = "RISK_APPROVED"
    <3>1. /\ Set(i, "ORDER_CREATED")
          /\ call' = [call EXCEPT ![p] = [@ EXCEPT !.seen = "ORDER_CREATED"]]
      BY <1>2, <2>3 DEF Claim
    <3>2. istate' \in [Intents -> IntentStates]
      BY <2>1, <3>1, SetType DEF IntentStates
    <3>3. call' \in [Senders -> Calls]
      BY <2>2, <3>1 DEF TypeOK
    <3> QED
      BY <1>2, <3>2, <3>3 DEF Claim, TypeOK
  <2>4. CASE istate[i] # "RISK_APPROVED"
    BY <1>2, <2>4, StopType DEF Claim, TypeOK
  <2> QED
    BY <2>3, <2>4
<1>3. CASE Reread(p)
  <2>1. call' \in [Senders -> Calls]
    BY <1>0, <1>3, StopType, GotoType DEF Reread, TypeOK, Calls, CallPoints, Uncertain
  <2> QED
    BY <1>3, <2>1 DEF Reread, TypeOK
<1>4. CASE SendAllowed(p)
  <2>1. call' \in [Senders -> Calls] /\ istate' \in [Intents -> IntentStates]
    BY <1>0, <1>4, GotoType, SetType DEF SendAllowed, CallPoints, IntentStates
  <2> QED
    BY <1>4, <2>1 DEF SendAllowed, TypeOK
<1>5. CASE SendRefused(p)
  <2>1. call' \in [Senders -> Calls] /\ istate' \in [Intents -> IntentStates]
    BY <1>0, <1>5, StopType, SetType DEF SendRefused, Refuse, IntentStates
  <2> QED
    BY <1>0, <1>5, <2>1 DEF SendRefused, Refuse, TypeOK, Marks
<1>6. CASE SendConflict(p)
  BY <1>6, StopType DEF SendConflict, TypeOK
<1>7. CASE Post(p)
  <2>1. i \in Intents /\ posts[i] \in Nat /\ wire[i] \in SUBSET Nat
    BY <1>0, <1>7 DEF Post, TypeOK
  <2> DEFINE m == posts[i] + 1
  <2>2. m \in Nat
    BY <2>1
  <2>3. call' = [call EXCEPT ![p].pc = "wait", ![p].req = m]
    BY <1>7 DEF Post
  <2> HIDE DEF m
  <2>4. call' \in [Senders -> Calls]
    BY <1>0, <2>2, <2>3 DEF TypeOK, Calls, CallPoints
  <2> QED
    BY <1>7, <2>1, <2>4 DEF Post, TypeOK
<1>8. CASE PostWithheld(p)
  <2>0. i \in Intents
    BY <1>0, <1>8 DEF PostWithheld
  <2>1. call' \in [Senders -> Calls] /\ istate' \in [Intents -> IntentStates]
    <3>1. CASE Cas(p, i, "SUBMITTING", "REJECTED", "note")
      BY <2>0, <3>1, CasType DEF CallPoints, IntentStates
    <3>2. CASE Cas(p, i, "SUBMITTING", "SUBMISSION_UNKNOWN", "lookup")
      BY <2>0, <3>2, CasType DEF CallPoints, IntentStates
    <3> QED
      BY <1>8, <3>1, <3>2 DEF PostWithheld
  <2> QED
    BY <1>8, <2>1 DEF PostWithheld, TypeOK
<1>9. CASE NoteNotAttempted(p)
  <2>1. call' \in [Senders -> Calls]
    BY <1>0, <1>9, StopType DEF NoteNotAttempted
  <2> QED
    BY <1>0, <1>9, <2>1 DEF NoteNotAttempted, TypeOK, Marks
<1>10. CASE Timeout(p)
  <2>1. i \in Intents /\ orders[i] \in Snapshots
    BY <1>0, <1>10 DEF Timeout, TypeOK
  <2>2. call' \in [Senders -> Calls]
    BY <1>0, <1>10, <2>1, GotoType DEF Timeout, TypeOK, Calls, CallPoints
  <2> QED
    BY <1>10, <2>2 DEF Timeout, TypeOK
<1>11. CASE Adopt(p)
  <2>1. i \in Intents /\ call[p].reply \in Snapshots /\ istate[i] \in IntentStates
    BY <1>0, <1>11 DEF Adopt, TypeOK, Calls
  <2>2. AdoptedState(istate[i], call[p].reply) \in IntentStates
    BY <2>1, AdoptedStateType
  <2>3. istate' \in [Intents -> IntentStates] /\ stored' \in [Intents -> Snapshots]
    BY <1>11, <2>1, <2>2, SetType DEF Adopt, TypeOK
  <2> QED
    BY <1>11, <2>3, StopType DEF Adopt, TypeOK
<1>12. CASE OnDenied(p)
  <2>0. i \in Intents
    BY <1>0, <1>12 DEF OnDenied
  <2>1. call' \in [Senders -> Calls] /\ istate' \in [Intents -> IntentStates]
    <3>1. CASE Cas(p, i, "SUBMITTING", "REJECTED", "idle")
      BY <2>0, <3>1, CasType DEF CallPoints, IntentStates
    <3>2. CASE Cas(p, i, "SUBMITTING", "SUBMISSION_UNKNOWN", "lookup")
      BY <2>0, <3>2, CasType DEF CallPoints, IntentStates
    <3> QED
      BY <1>12, <3>1, <3>2 DEF OnDenied
  <2> QED
    BY <1>12, <2>1 DEF OnDenied, TypeOK
<1>13. CASE OnUncertain(p)
  <2>0. i \in Intents /\ Cas(p, i, "SUBMITTING", "SUBMISSION_UNKNOWN", "lookup")
    BY <1>0, <1>13 DEF OnUncertain
  <2>1. call' \in [Senders -> Calls] /\ istate' \in [Intents -> IntentStates]
    BY <2>0, CasType DEF CallPoints, IntentStates
  <2> QED
    BY <1>13, <2>1 DEF OnUncertain, TypeOK
<1>14. CASE OnGarbled(p)
  <2>1. call' \in [Senders -> Calls] /\ istate' \in [Intents -> IntentStates]
    BY <1>0, <1>14, StopType, SetType DEF OnGarbled, IntentStates, TypeOK
  <2> QED
    BY <1>14, <2>1 DEF OnGarbled, TypeOK
<1>15. CASE Lookup(p)
  <2>1. i \in Intents /\ orders[i] \in Snapshots
    BY <1>0, <1>15 DEF Lookup, TypeOK
  <2>2. call' \in [Senders -> Calls]
    BY <1>0, <1>15, <2>1, GotoType, StopType DEF Lookup, TypeOK, Calls, CallPoints
  <2> QED
    BY <1>15, <2>2 DEF Lookup, TypeOK
<1>16. CASE OnAbsent(p)
  <2>1. call' \in [Senders -> Calls] /\ istate' \in [Intents -> IntentStates]
    BY <1>0, <1>16, StopType, SetType
    DEF OnAbsent, IntentStates, TypeOK, Calls, CallPoints
  <2> QED
    BY <1>16, <2>1 DEF OnAbsent, TypeOK
<1>17. CASE OnUnrecovered(p)
  <2>1. call' \in [Senders -> Calls] /\ istate' \in [Intents -> IntentStates]
    BY <1>0, <1>17, StopType, SetType DEF OnUnrecovered, IntentStates, TypeOK
  <2> QED
    BY <1>17, <2>1 DEF OnUnrecovered, TypeOK
<1>18. CASE Crash(p)
  BY <1>18, StopType DEF Crash, TypeOK
<1> QED
  BY <1>1, <1>2, <1>3, <1>4, <1>5, <1>6, <1>7, <1>8, <1>9, <1>10, <1>11, <1>12, <1>13,
     <1>14, <1>15, <1>16, <1>17, <1>18 DEF SenderStep

\* Importer steps preserve the typing.
LEMMA TypeImporter ==
  ASSUME TypeOK, NEW r \in Importers, ImporterStep(r) \/ CycleFails(r)
  PROVE  TypeOK'
<1> USE DEF durable, outside
<1>0. cycle[r] \in Cycles /\ IdleCycle \in Cycles
  BY ConstantTypes DEF TypeOK
<1>1. CASE ReadIntents(r)
  <2>1. cycle' \in [Importers -> Cycles]
    BY <1>0, <1>1 DEF ReadIntents, TypeOK, Cycles
  <2> QED
    BY <1>1, <2>1 DEF ReadIntents, TypeOK
<1>2. CASE PollOrders(r)
  <2>1. PICK complete \in [Intents -> BOOLEAN] :
          cycle' = [cycle EXCEPT
            ![r].pc = "import",
            ![r].events = [i \in Intents |->
               IF istate[i] \in PreSend \/ DefinitivelyUnsent(i) \/ orders[i] = NoOrder
                 THEN NoEvent
                 ELSE [order |-> orders[i], complete |-> complete[i]]]]
    BY <1>2 DEF PollOrders
  <2> DEFINE ev == [i \in Intents |->
               IF istate[i] \in PreSend \/ DefinitivelyUnsent(i) \/ orders[i] = NoOrder
                 THEN NoEvent
                 ELSE [order |-> orders[i], complete |-> complete[i]]]
  <2>2. ev \in [Intents -> OrderEvents]
    BY ConstantTypes DEF TypeOK, OrderEvents
  <2>3. cycle' = [cycle EXCEPT ![r].pc = "import", ![r].events = ev]
    BY <2>1
  <2> HIDE DEF ev
  <2>4. cycle' \in [Importers -> Cycles]
    BY <1>0, <2>2, <2>3 DEF TypeOK, Cycles
  <2> QED
    BY <1>2, <2>4 DEF PollOrders, TypeOK
<1>3. CASE Import(r)
  <2>0. ASSUME NEW i \in Intents
        PROVE  /\ cycle[r].events[i] \in OrderEvents
               /\ cycle[r].events[i].order \in Snapshots
               /\ AdoptedState(istate[i], cycle[r].events[i].order) \in IntentStates
    <3>1. cycle[r].events[i] \in OrderEvents /\ istate[i] \in IntentStates
      BY <1>0 DEF Cycles, TypeOK
    <3>2. cycle[r].events[i].order \in Snapshots
      BY <3>1 DEF OrderEvents
    <3> QED
      BY <3>1, <3>2, AdoptedStateType
  <2>1. IdleCycle.events \in [Intents -> OrderEvents]
    BY <1>0 DEF Cycles
  <2>2. cycle' \in [Importers -> Cycles]
    <3>1. CASE cycle' = [cycle EXCEPT ![r].pc = "mark", ![r].events = IdleCycle.events]
      BY <1>0, <2>1, <3>1 DEF TypeOK, Cycles
    <3>2. CASE cycle' = [cycle EXCEPT ![r] = IdleCycle]
      BY <1>0, <3>2 DEF TypeOK
    <3> QED
      BY <1>3, <3>1, <3>2 DEF Import
  <2>3. istate' \in [Intents -> IntentStates]
    BY <1>3, <2>0 DEF Import, TypeOK
  <2>4. stored' \in [Intents -> Snapshots]
    BY <1>3, <2>0 DEF Import, TypeOK
  <2>5. sources' \in [Intents -> SUBSET OrderEvents]
    <3>1. ASSUME NEW i \in Intents
          PROVE  sources[i] \cup {cycle[r].events[i]} \in SUBSET OrderEvents
      BY <2>0 DEF TypeOK
    <3> QED
      BY <1>3, <3>1 DEF Import, TypeOK
  <2> QED
    BY <1>3, <2>2, <2>3, <2>4, <2>5 DEF Import, TypeOK
<1>4. CASE MarkUnknown(r)
  <2>1. istate' \in [Intents -> IntentStates]
    BY <1>4 DEF MarkUnknown, TypeOK, IntentStates
  <2> QED
    BY <1>0, <1>4, <2>1 DEF MarkUnknown, TypeOK
<1>5. CASE CycleFails(r)
  BY <1>0, <1>5 DEF CycleFails, TypeOK
<1> QED
  BY <1>1, <1>2, <1>3, <1>4, <1>5 DEF ImporterStep

\* An answer reaches only the call that waits for it, as a typed reply.
LEMMA AnswerType ==
  ASSUME TypeOK, NEW i \in Intents, NEW n, NEW point \in CallPoints, NEW o \in Snapshots,
         Answer(i, n, point, o)
  PROVE  call' \in [Senders -> Calls]
BY DEF Answer, TypeOK, Calls

\* Steps of the broker, of time and of retirement preserve the typing.
LEMMA TypeOutside ==
  ASSUME TypeOK, NEW i \in Intents, Expire(i) \/ Retire(i) \/ BrokerStep(i)
  PROVE  TypeOK'
<1> USE DEF durable, outside
<1>0. orders[i] \in Snapshots /\ wire[i] \in SUBSET Nat /\ NoOrder \in Snapshots /\ NewOrder \in Snapshots
  BY ConstantTypes DEF TypeOK
<1>1. CASE Expire(i)
  BY <1>1 DEF Expire, TypeOK
<1>2. CASE Retire(i)
  <2>1. istate' \in [Intents -> IntentStates]
    BY <1>2, SetType DEF Retire, Refuse, IntentStates
  <2> QED
    BY <1>2, <2>1 DEF Retire, Refuse, TypeOK, Marks
<1>3. ASSUME NEW n \in wire[i], BrokerAccept(i, n) PROVE TypeOK'
  <2>1. call' \in [Senders -> Calls]
    BY <1>0, <1>3, AnswerType DEF BrokerAccept, CallPoints, TypeOK
  <2> QED
    BY <1>0, <1>3, <2>1 DEF BrokerAccept, TypeOK
<1>4. ASSUME NEW n \in wire[i], BrokerDeny(i, n) PROVE TypeOK'
  <2>1. call' \in [Senders -> Calls]
    BY <1>0, <1>4, AnswerType DEF BrokerDeny, CallPoints, TypeOK
  <2> QED
    BY <1>0, <1>4, <2>1 DEF BrokerDeny, TypeOK
<1>5. CASE BrokerFill(i)
  <2> DEFINE o == [status |-> IF orders[i].filled + 1 = Qty THEN "filled" ELSE "open",
                   filled |-> orders[i].filled + 1]
  <2>1. orders[i].filled \in 0..Qty /\ orders[i].filled < Qty
    BY <1>0, <1>5 DEF Snapshots, BrokerFill
  <2>2. o \in Snapshots
    BY <2>1, QtyAssumption DEF Snapshots, OrderStatuses
  <2>3. orders' = [orders EXCEPT ![i] = o]
    BY <1>5 DEF BrokerFill
  <2> HIDE DEF o
  <2> QED
    BY <1>5, <2>2, <2>3 DEF BrokerFill, TypeOK
<1>6. ASSUME NEW s \in {"canceled", "expired", "rejected"}, BrokerEnd(i, s) PROVE TypeOK'
  <2>1. [orders[i] EXCEPT !.status = s] \in Snapshots
    BY <1>0 DEF Snapshots, OrderStatuses
  <2> QED
    BY <1>6, <2>1 DEF BrokerEnd, TypeOK
<1> QED
  BY <1>1, <1>2, <1>3, <1>4, <1>5, <1>6 DEF BrokerStep

-----------------------------------------------------------------------------
(* Steps of a call that several actions share.                             *)

\* A call that ends, or crashes, without having changed anything.
LEMMA StopKeeps ==
  ASSUME IInv, TypeOK', NEW p \in Senders, Stop(p),
         UNCHANGED <<durable, outside, cycle>>
  PROVE  IInv'
<1>0. call[p] \in Calls
  BY DEF IInv, TypeOK
<1>1. CallsInv'
  BY MaxRetriesAssumption DEF IInv, Stop, IdleCall, outside, CallsInv
<1>2. OneOwner'
  BY DEF IInv, Stop, IdleCall, Owns, OwnerPoints, OneOwner
<1>3. PostsInv'
  BY DEF IInv, outside, PostsInv
<1>4. TriesInv'
  BY DEF IInv, Stop, IdleCall, outside, Owns, OwnerPoints, TriesInv
<1>5. PreSendInv'
  BY DEF IInv, Stop, IdleCall, durable, outside, Owns, OwnerPoints, PreSendInv
<1>6. RejectedInv'
  BY DEF IInv, Stop, IdleCall, durable, outside, Owns, OwnerPoints, RejectedInv
<1>7. RefusedInv'
  BY DEF IInv, Stop, IdleCall, durable, outside, Owns, OwnerPoints, RefusedInv
<1>8. EvidenceInv'
  BY DEF IInv, durable, outside, EvidenceInv
<1> QED
  BY TypeOK', <1>1, <1>2, <1>3, <1>4, <1>5, <1>6, <1>7, <1>8 DEF IInv

\* The owner of an intent gives its send up as uncertain and looks it up.
LEMMA UncertainKeeps ==
  ASSUME IInv, TypeOK', NEW p \in Senders, NEW i \in Intents, i = call[p].job,
         Owns(p, i), istate[i] = "SUBMITTING",
         Set(i, "SUBMISSION_UNKNOWN"), Goto(p, "lookup"),
         UNCHANGED <<stored, marks, sources, outside, cycle>>
  PROVE  IInv'
<1>0. call[p] \in Calls
  BY DEF IInv, TypeOK
<1>1. CallsInv'
  BY DEF IInv, Goto, outside, CallsInv
<1>2. OneOwner'
  BY DEF IInv, Goto, Owns, OneOwner
<1>3. PostsInv'
  BY DEF IInv, outside, PostsInv
<1>4. TriesInv'
  BY DEF IInv, Goto, outside, Owns, TriesInv
<1>5. PreSendInv'
  BY DEF IInv, Goto, Set, outside, Owns, PreSend, PreSendInv
<1>6. RejectedInv'
  BY DEF IInv, Goto, Set, outside, Owns, RejectedInv
<1>7. RefusedInv'
  BY DEF IInv, Goto, Set, outside, Owns, RefusedInv
<1>8. EvidenceInv'
  BY DEF IInv, outside, EvidenceInv
<1> QED
  BY TypeOK', <1>1, <1>2, <1>3, <1>4, <1>5, <1>6, <1>7, <1>8 DEF IInv

\* The owner rejects an intent that has neither an order nor a request under way.
LEMMA RejectKeeps ==
  ASSUME IInv, TypeOK', NEW p \in Senders, NEW i \in Intents, i = call[p].job,
         NEW point \in {"note", "idle"},
         Owns(p, i), istate[i] = "SUBMITTING", orders[i] = NoOrder, wire[i] = {},
         Set(i, "REJECTED"), Goto(p, point),
         UNCHANGED <<stored, marks, sources, outside, cycle>>
  PROVE  IInv'
<1>0. call[p] \in Calls
  BY DEF IInv, TypeOK
<1>1. CallsInv'
  BY DEF IInv, Goto, outside, CallsInv
<1>2. OneOwner'
  BY DEF IInv, Goto, Owns, OneOwner
<1>3. PostsInv'
  BY DEF IInv, outside, PostsInv
<1>4. TriesInv'
  BY DEF IInv, Goto, outside, Owns, TriesInv
<1>5. PreSendInv'
  BY DEF IInv, Goto, Set, outside, Owns, PreSend, PreSendInv
<1>6. RejectedInv'
  BY DEF IInv, Goto, Set, outside, TypeOK, Owns, OwnerPoints, OneOwner, RejectedInv
<1>7. RefusedInv'
  BY DEF IInv, Goto, Set, outside, Owns, RefusedInv
<1>8. EvidenceInv'
  BY DEF IInv, outside, EvidenceInv
<1> QED
  BY TypeOK', <1>1, <1>2, <1>3, <1>4, <1>5, <1>6, <1>7, <1>8 DEF IInv

\* A call that owns nothing reads the intent and moves on.
LEMMA ReadKeeps ==
  ASSUME IInv, TypeOK', NEW p \in Senders, NEW i \in Intents, i = call[p].job,
         NEW point \in CallPoints \ (OwnerPoints \cup {"found", "begin"}), NEW s \in IntentStates,
         point = "gate" => call[p].pc = "begin",
         call' = [call EXCEPT ![p].pc = point, ![p].seen = s],
         UNCHANGED <<durable, outside, cycle>>
  PROVE  IInv'
<1>0. call[p] \in Calls
  BY DEF IInv, TypeOK
<1>1. CallsInv'
  BY DEF IInv, outside, TypeOK, OwnerPoints, CallsInv
<1>2. OneOwner'
  BY DEF IInv, TypeOK, Owns, OneOwner
<1>3. PostsInv'
  BY DEF IInv, outside, PostsInv
<1>4. TriesInv'
  BY DEF IInv, outside, TypeOK, Owns, TriesInv
<1>5. PreSendInv'
  BY DEF IInv, durable, outside, TypeOK, Owns, PreSendInv
<1>6. RejectedInv'
  BY DEF IInv, durable, outside, TypeOK, Owns, RejectedInv
<1>7. RefusedInv'
  BY DEF IInv, durable, outside, TypeOK, Owns, RefusedInv
<1>8. EvidenceInv'
  BY DEF IInv, durable, outside, EvidenceInv
<1> QED
  BY TypeOK', <1>1, <1>2, <1>3, <1>4, <1>5, <1>6, <1>7, <1>8 DEF IInv

\* A call takes the broker's order as its answer.
LEMMA ReplyKeeps ==
  ASSUME IInv, TypeOK', NEW p \in Senders, NEW i \in Intents, i = call[p].job,
         NEW point \in {"acked", "found"},
         call[p].pc # "idle", point = "acked" => call[p].pc = "wait", orders[i] # NoOrder,
         call' = [call EXCEPT ![p].pc = point, ![p].reply = orders[i]],
         UNCHANGED <<durable, outside, cycle>>
  PROVE  IInv'
<1>0. call[p] \in Calls
  BY DEF IInv, TypeOK
<1>1. CallsInv'
  BY DEF IInv, outside, TypeOK, CallsInv
<1>2. OneOwner'
  BY DEF IInv, TypeOK, Owns, OwnerPoints, OneOwner
<1>3. PostsInv'
  BY DEF IInv, outside, PostsInv
<1>4. TriesInv'
  BY DEF IInv, outside, TypeOK, Owns, OwnerPoints, TriesInv
<1>5. PreSendInv'
  BY DEF IInv, durable, outside, TypeOK, Owns, PostsInv, PreSendInv
<1>6. RejectedInv'
  BY DEF IInv, durable, outside, TypeOK, Owns, RejectedInv
<1>7. RefusedInv'
  BY DEF IInv, durable, outside, TypeOK, Owns, PostsInv, RefusedInv
<1>8. EvidenceInv'
  BY DEF IInv, durable, outside, EvidenceInv
<1> QED
  BY TypeOK', <1>1, <1>2, <1>3, <1>4, <1>5, <1>6, <1>7, <1>8 DEF IInv

\* The owner learns nothing, or that its answer is unusable.
LEMMA OwnerMoves ==
  ASSUME IInv, TypeOK', NEW p \in Senders, NEW i \in Intents, i = call[p].job,
         NEW point \in {"uncertain", "garbled", "absent"},
         Owns(p, i), call[p].pc # "note", Goto(p, point),
         UNCHANGED <<durable, outside, cycle>>
  PROVE  IInv'
<1>0. call[p] \in Calls
  BY DEF IInv, TypeOK
<1>1. CallsInv'
  BY DEF IInv, Goto, outside, CallsInv
<1>2. OneOwner'
  BY DEF IInv, Goto, Owns, OneOwner
<1>3. PostsInv'
  BY DEF IInv, outside, PostsInv
<1>4. TriesInv'
  BY DEF IInv, Goto, outside, Owns, TriesInv
<1>5. PreSendInv'
  BY DEF IInv, Goto, durable, outside, Owns, PreSendInv
<1>6. RejectedInv'
  BY DEF IInv, Goto, durable, outside, Owns, RejectedInv
<1>7. RefusedInv'
  BY DEF IInv, Goto, durable, outside, Owns, RefusedInv
<1>8. EvidenceInv'
  BY DEF IInv, durable, outside, EvidenceInv
<1> QED
  BY TypeOK', <1>1, <1>2, <1>3, <1>4, <1>5, <1>6, <1>7, <1>8 DEF IInv

\* Adoption never leads back to a state before the send.
LEMMA AdoptedNotPreSend ==
  ASSUME NEW s \in IntentStates \ PreSend, NEW o \in Snapshots
  PROVE  AdoptedState(s, o) \notin PreSend
BY DEF AdoptedState, AcceptedFrom, AckTarget, PreSend

-----------------------------------------------------------------------------
(* The inductive invariant, actor by actor.                                *)

\* Nothing is sent, known or recorded at the start.
LEMMA InitIInv == Init => IInv
<1> SUFFICES ASSUME Init PROVE IInv
  OBVIOUS
<1>1. TypeOK
  BY TypeInit
<1>2. ASSUME NEW r \in Importers, NEW i \in Intents PROVE cycle[r].events[i].order = NoOrder
  BY DEF Init, IdleCycle, NoEvent
<1> QED
  BY <1>1, <1>2, MaxRetriesAssumption
 DEF Init, IInv, IdleCall, Owns, OwnerPoints, PreSend, CallsInv, OneOwner, PostsInv, TriesInv,
      PreSendInv, RejectedInv, RefusedInv, EvidenceInv

\* Every step of a call of submit_durable, and its crash.
LEMMA SenderKeeps ==
  ASSUME IInv, TypeOK', NEW p \in Senders, SenderStep(p) \/ Crash(p)
  PROVE  IInv'
<1> DEFINE i == call[p].job
<1> USE DEF durable, outside
<1>0. JobOK /\ TypeOK /\ call[p] \in Calls /\ MaxRetries \in Nat
  BY MaxRetriesAssumption DEF JobOK, IInv, CallsInv, TypeOK
<1>1. ASSUME NEW k \in Intents, Begin(p, k) PROVE IInv'
  <2>1. CallsInv'
    BY <1>0, <1>1 DEF IInv, Begin, IdleCall, CallsInv
  <2>2. OneOwner'
    BY <1>1 DEF IInv, Begin, Owns, OwnerPoints, OneOwner
  <2>3. PostsInv'
    BY <1>1 DEF IInv, Begin, PostsInv
  <2>4. TriesInv'
    BY <1>1 DEF IInv, Begin, Owns, OwnerPoints, TriesInv
  <2>5. PreSendInv'
    BY <1>1 DEF IInv, Begin, Owns, OwnerPoints, PreSendInv
  <2>6. RejectedInv'
    BY <1>1 DEF IInv, Begin, Owns, PreSend, Uncertain, RejectedInv
  <2>7. RefusedInv'
    BY <1>1 DEF IInv, Begin, Owns, PreSend, Uncertain, RefusedInv
  <2>8. EvidenceInv'
    BY <1>1 DEF IInv, Begin, EvidenceInv
  <2> QED
    BY TypeOK', <2>1, <2>2, <2>3, <2>4, <2>5, <2>6, <2>7, <2>8 DEF IInv
<1>2. CASE Claim(p)
  <2>0. i \in Intents /\ istate[i] \in IntentStates
    BY <1>0, <1>2 DEF JobOK, Claim, TypeOK
  <2>0a. ASSUME NEW q \in Senders
         PROVE  \/ call'[q] = IdleCall
                \/ /\ call'[q].pc = call[q].pc /\ call'[q].job = call[q].job
                   /\ call'[q].tries = call[q].tries /\ call'[q].reply = call[q].reply
    BY <1>0, <1>2 DEF Claim, Stop, TypeOK, Calls
  <2>1. CallsInv'
    BY <1>2, <2>0a DEF IInv, Claim, CallsInv, IdleCall, outside
  <2>2. OneOwner'
    BY <2>0a DEF IInv, OneOwner, Owns, OwnerPoints, IdleCall
  <2>3. PostsInv'
    BY <1>2 DEF IInv, Claim, PostsInv
  <2>4. TriesInv'
    BY <1>2, <2>0a DEF IInv, Claim, TriesInv, Owns, OwnerPoints, IdleCall, outside
  <2>5. PreSendInv'
    <3>1. ASSUME NEW j \in Intents, istate'[j] \in PreSend PROVE istate[j] \in PreSend
      BY <1>0, <1>2, <2>0, <3>1 DEF Claim, Set, PreSend, TypeOK
    <3> QED
      BY <1>2, <2>0a, <3>1 DEF IInv, Claim, PreSendInv, Owns, OwnerPoints, IdleCall, outside
  <2>6. RejectedInv'
    <3> SUFFICES ASSUME NEW j \in Intents, istate'[j] = "REJECTED", stored'[j] = NoOrder
                 PROVE  /\ wire'[j] = {} /\ orders'[j] = NoOrder
                        /\ \A q \in Senders : Owns(q, j)' => call'[q].pc = "note"
      BY DEF RejectedInv
    <3>1. istate[j] = "REJECTED" /\ stored[j] = NoOrder
      BY <1>0, <1>2 DEF Claim, TypeOK, Set
    <3>2. ASSUME NEW q \in Senders, Owns(q, j)' PROVE Owns(q, j) /\ call'[q].pc = call[q].pc
      BY <1>0, <1>2, <3>2 DEF Claim, TypeOK, Owns, OwnerPoints, Stop, IdleCall, Calls
    <3> QED
      BY <1>2, <3>1, <3>2 DEF Claim, IInv, RejectedInv
  <2>7. RefusedInv'
    BY <1>2, <2>0 DEF IInv, Claim, Stop, Set, IdleCall, TypeOK, Calls, Owns, OwnerPoints,
         IntentStates, RefusedInv
  <2>8. EvidenceInv'
    BY <1>2 DEF IInv, Claim, EvidenceInv
  <2> QED
    BY TypeOK', <2>1, <2>2, <2>3, <2>4, <2>5, <2>6, <2>7, <2>8 DEF IInv
<1>3. CASE Reread(p)
  <2>0. i \in Intents /\ istate[i] \in IntentStates
    BY <1>0, <1>3 DEF JobOK, Reread, TypeOK
  <2>1. CASE Stop(p)
    BY <1>3, <2>1, StopKeeps DEF Reread
  <2>2. CASE istate[i] \in Uncertain /\ call' = [call EXCEPT ![p].pc = "recover", ![p].seen = istate[i]]
    BY <1>3, <2>0, <2>2, ReadKeeps DEF Reread, CallPoints, OwnerPoints
  <2>3. CASE Goto(p, "gate")
    <3>1. call' = [call EXCEPT ![p].pc = "gate", ![p].seen = call[p].seen]
      BY <1>0, <2>3 DEF Goto, TypeOK, Calls
    <3> QED
      BY <1>3, <1>0, <2>0, <2>3, <3>1, ReadKeeps DEF Reread, Calls, CallPoints, OwnerPoints
  <2> QED
    BY <1>3, <2>1, <2>2, <2>3 DEF Reread
<1>4. CASE SendAllowed(p)
  <2>0. i \in Intents /\ istate[i] \in IntentStates
    BY <1>0, <1>4 DEF JobOK, SendAllowed, TypeOK
  <2>1. CallsInv'
    BY <1>4 DEF IInv, SendAllowed, Goto, CallsInv
  <2>2. OneOwner'
    BY <1>4 DEF IInv, SendAllowed, Goto, Owns, PreSend, OneOwner, PreSendInv
  <2>3. PostsInv'
    BY <1>4 DEF IInv, SendAllowed, PostsInv
  <2>4. TriesInv'
    BY <1>4 DEF IInv, SendAllowed, Goto, Owns, PreSend, CallsInv, TriesInv, PreSendInv
  <2>5. PreSendInv'
    BY <1>4 DEF IInv, SendAllowed, Goto, Set, TypeOK, Owns, PreSend, PreSendInv
  <2>6. RejectedInv'
    BY <1>4 DEF IInv, SendAllowed, Goto, Set, Owns, RejectedInv
  <2>7. RefusedInv'
    BY <1>4 DEF IInv, SendAllowed, Goto, Set, Owns, RefusedInv
  <2>8. EvidenceInv'
    BY <1>4 DEF IInv, SendAllowed, EvidenceInv
  <2> QED
    BY TypeOK', <2>1, <2>2, <2>3, <2>4, <2>5, <2>6, <2>7, <2>8 DEF IInv
<1>5. CASE SendRefused(p)
  <2>0. i \in Intents /\ istate[i] \in IntentStates
    BY <1>0, <1>5 DEF JobOK, SendRefused, TypeOK
  <2>1. CallsInv'
    BY <1>5 DEF IInv, SendRefused, Stop, IdleCall, CallsInv
  <2>2. OneOwner'
    BY <1>5 DEF IInv, SendRefused, Stop, IdleCall, Owns, OwnerPoints, OneOwner
  <2>3. PostsInv'
    BY <1>5 DEF IInv, SendRefused, PostsInv
  <2>4. TriesInv'
    BY <1>5 DEF IInv, SendRefused, Stop, IdleCall, Owns, OwnerPoints, TriesInv
  <2>5. PreSendInv'
    BY <1>5 DEF IInv, SendRefused, Stop, Set, IdleCall, Refuse, TypeOK, Owns, OwnerPoints, PreSend,
         PreSendInv
  <2>6. RejectedInv'
    BY <1>5 DEF IInv, SendRefused, Stop, Set, IdleCall, Refuse, Owns, OwnerPoints, RejectedInv
  <2>7. RefusedInv'
    BY <1>5 DEF IInv, SendRefused, Stop, Set, IdleCall, Refuse, TypeOK, Owns, OwnerPoints, PreSend,
         PreSendInv, RefusedInv
  <2>8. EvidenceInv'
    BY <1>5 DEF IInv, SendRefused, EvidenceInv
  <2> QED
    BY TypeOK', <2>1, <2>2, <2>3, <2>4, <2>5, <2>6, <2>7, <2>8 DEF IInv
<1>6. CASE SendConflict(p)
  BY <1>6, StopKeeps DEF SendConflict
<1>7. CASE Post(p)
  <2>0. i \in Intents /\ istate[i] \in IntentStates
    BY <1>0, <1>7 DEF JobOK, Post, TypeOK
  <2>1. CallsInv'
    BY <1>7 DEF IInv, Post, TypeOK, CallsInv
  <2>2. OneOwner'
    BY <1>7 DEF IInv, Post, TypeOK, Owns, OwnerPoints, OneOwner
  <2>3. PostsInv'
    BY <1>0, <1>7 DEF IInv, Post, TypeOK, Calls, Owns, OwnerPoints, CallsInv, PostsInv, TriesInv
  <2>4. TriesInv'
    BY <1>7 DEF IInv, Post, TypeOK, Calls, Owns, OwnerPoints, OneOwner, TriesInv, RefusedInv
  <2>5. PreSendInv'
    BY <1>7 DEF IInv, Post, TypeOK, Owns, OwnerPoints, PreSendInv
  <2>6. RejectedInv'
    BY <1>7 DEF IInv, Post, TypeOK, Owns, OwnerPoints, RejectedInv
  <2>7. RefusedInv'
    BY <1>7 DEF IInv, Post, TypeOK, Owns, OwnerPoints, RefusedInv
  <2>8. EvidenceInv'
    BY <1>7 DEF IInv, Post, EvidenceInv
  <2> QED
    BY TypeOK', <2>1, <2>2, <2>3, <2>4, <2>5, <2>6, <2>7, <2>8 DEF IInv
<1>8. CASE PostWithheld(p)
  <2>0. i \in Intents /\ istate[i] \in IntentStates
    BY <1>0, <1>8 DEF JobOK, PostWithheld, TypeOK
  <2>1. CASE istate[i] # "SUBMITTING"
    BY <1>8, <2>1, StopKeeps DEF PostWithheld, Cas
  <2>2. CASE istate[i] = "SUBMITTING" /\ call[p].tries = 0
    <3>1. orders[i] = NoOrder /\ wire[i] = {}
      BY <1>0, <1>8, <2>0, <2>2
     DEF IInv, PostsInv, TriesInv, Owns, OwnerPoints, PostWithheld, TypeOK, Calls
    <3> QED
      BY <1>8, <2>0, <2>2, <3>1, RejectKeeps DEF PostWithheld, Cas, Owns, OwnerPoints
  <2>3. CASE istate[i] = "SUBMITTING" /\ call[p].tries # 0
    BY <1>8, <1>0, <2>0, <2>3, UncertainKeeps DEF PostWithheld, Cas, Owns, OwnerPoints, Calls
  <2> QED
    BY <2>1, <2>2, <2>3
<1>9. CASE NoteNotAttempted(p)
  <2>0. i \in Intents /\ istate[i] \in IntentStates
    BY <1>0, <1>9 DEF JobOK, NoteNotAttempted, TypeOK
  <2>1. CallsInv'
    BY <1>0, <1>9 DEF IInv, NoteNotAttempted, Stop, IdleCall, CallsInv
  <2>2. OneOwner'
    BY <1>9 DEF IInv, NoteNotAttempted, Stop, IdleCall, Owns, OwnerPoints, OneOwner
  <2>3. PostsInv'
    BY <1>9 DEF IInv, NoteNotAttempted, PostsInv
  <2>4. TriesInv'
    BY <1>9 DEF IInv, NoteNotAttempted, Stop, IdleCall, Owns, OwnerPoints, TriesInv
  <2>5. PreSendInv'
    BY <1>9 DEF IInv, NoteNotAttempted, Stop, IdleCall, Owns, OwnerPoints, PreSendInv
  <2>6. RejectedInv'
    BY <1>9 DEF IInv, NoteNotAttempted, Stop, IdleCall, Owns, OwnerPoints, RejectedInv
  <2>7. RefusedInv'
    BY <1>9 DEF IInv, NoteNotAttempted, Stop, IdleCall, Owns, OwnerPoints, RefusedInv
  <2>8. EvidenceInv'
    BY <1>9 DEF IInv, NoteNotAttempted, EvidenceInv
  <2> QED
    BY TypeOK', <2>1, <2>2, <2>3, <2>4, <2>5, <2>6, <2>7, <2>8 DEF IInv
<1>10. CASE Timeout(p)
  <2>0. i \in Intents /\ istate[i] \in IntentStates
    BY <1>0, <1>10 DEF JobOK, Timeout, TypeOK
  <2> QED
    BY <1>10, <2>0, ReplyKeeps, OwnerMoves DEF Timeout, Owns, OwnerPoints
<1>11. CASE Adopt(p)
  <2>0. i \in Intents /\ istate[i] \in IntentStates
    BY <1>0, <1>11 DEF JobOK, Adopt, TypeOK
  <2>1. CallsInv'
    BY <1>0, <1>11 DEF IInv, Adopt, Stop, IdleCall, CallsInv
  <2>2. OneOwner'
    BY <1>11 DEF IInv, Adopt, Stop, IdleCall, Owns, OwnerPoints, OneOwner
  <2>3. PostsInv'
    BY <1>11 DEF IInv, Adopt, PostsInv
  <2>4. TriesInv'
    BY <1>11 DEF IInv, Adopt, Stop, IdleCall, Owns, OwnerPoints, TriesInv
  <2>5. PreSendInv'
    <3>1. /\ orders[i] # NoOrder /\ istate[i] \in IntentStates \ PreSend
          /\ call[p].reply \in Snapshots
      BY <1>0, <1>11, <2>0 DEF IInv, CallsInv, PostsInv, PreSendInv, Adopt, TypeOK, Calls
    <3>2. AdoptedState(istate[i], call[p].reply) \notin PreSend
      BY <3>1, AdoptedNotPreSend
    <3>3. ASSUME NEW j \in Intents, istate'[j] \in PreSend
          PROVE  j # i /\ istate[j] \in PreSend /\ stored'[j] = stored[j]
      BY <1>0, <1>11, <2>0, <3>1, <3>2, <3>3 DEF Adopt, TypeOK, Set
    <3>4. ASSUME NEW q \in Senders, NEW j \in Intents, Owns(q, j)' PROVE Owns(q, j)
      BY <1>0, <1>11, <3>4 DEF Adopt, Stop, TypeOK, Owns, OwnerPoints, IdleCall
    <3> QED
      BY <1>11, <3>3, <3>4 DEF Adopt, IInv, PreSendInv
  <2>6. RejectedInv'
    BY <1>11 DEF IInv, Adopt, Goto, Stop, Set, IdleCall, durable, outside, TypeOK, Owns, OwnerPoints,
         CallsInv, RejectedInv
  <2>7. RefusedInv'
    BY <1>11 DEF IInv, Adopt, Stop, Set, IdleCall, Refuse, durable, TypeOK, Owns, OwnerPoints,
         CallsInv, PostsInv, RefusedInv
  <2>8. EvidenceInv'
    BY <1>11 DEF IInv, Adopt, TypeOK, CallsInv, EvidenceInv
  <2> QED
    BY TypeOK', <2>1, <2>2, <2>3, <2>4, <2>5, <2>6, <2>7, <2>8 DEF IInv
<1>12. CASE OnDenied(p)
  <2>0. i \in Intents /\ istate[i] \in IntentStates
    BY <1>0, <1>12 DEF JobOK, OnDenied, TypeOK
  <2>1. CASE istate[i] # "SUBMITTING"
    BY <1>12, <2>1, StopKeeps DEF OnDenied, Cas
  <2>2. CASE istate[i] = "SUBMITTING" /\ call[p].tries = 0
    <3>1. orders[i] = NoOrder /\ wire[i] = {}
      BY <1>12, <2>0, <2>2 DEF IInv, TriesInv, Owns, OwnerPoints, OnDenied
    <3> QED
      BY <1>12, <2>0, <2>2, <3>1, RejectKeeps DEF OnDenied, Cas, Owns, OwnerPoints
  <2>3. CASE istate[i] = "SUBMITTING" /\ call[p].tries # 0
    BY <1>12, <1>0, <2>0, <2>3, UncertainKeeps DEF OnDenied, Cas, Owns, OwnerPoints, Calls
  <2> QED
    BY <2>1, <2>2, <2>3
<1>13. CASE OnUncertain(p)
  <2>0. i \in Intents /\ istate[i] \in IntentStates
    BY <1>0, <1>13 DEF JobOK, OnUncertain, TypeOK
  <2> QED
    BY <1>13, <2>0, StopKeeps, UncertainKeeps DEF OnUncertain, Cas, Owns, OwnerPoints
<1>14. CASE OnGarbled(p)
  <2>0. i \in Intents /\ istate[i] \in IntentStates
    BY <1>0, <1>14 DEF JobOK, OnGarbled, TypeOK
  <2>1. CallsInv'
    BY <1>0, <1>14 DEF IInv, OnGarbled, Stop, IdleCall, CallsInv
  <2>2. OneOwner'
    BY <1>14 DEF IInv, OnGarbled, Stop, IdleCall, Owns, OwnerPoints, OneOwner
  <2>3. PostsInv'
    BY <1>14 DEF IInv, OnGarbled, PostsInv
  <2>4. TriesInv'
    BY <1>14 DEF IInv, OnGarbled, Stop, IdleCall, Owns, OwnerPoints, TriesInv
  <2>5. PreSendInv'
    BY <1>14 DEF IInv, OnGarbled, Stop, Set, IdleCall, TypeOK, Owns, OwnerPoints, PreSend, PreSendInv
  <2>6. RejectedInv'
    BY <1>14 DEF IInv, OnGarbled, Stop, Set, IdleCall, TypeOK, Owns, OwnerPoints, RejectedInv
  <2>7. RefusedInv'
    BY <1>14 DEF IInv, OnGarbled, Stop, Set, IdleCall, TypeOK, Owns, OwnerPoints, RefusedInv
  <2>8. EvidenceInv'
    BY <1>14 DEF IInv, OnGarbled, EvidenceInv
  <2> QED
    BY TypeOK', <2>1, <2>2, <2>3, <2>4, <2>5, <2>6, <2>7, <2>8 DEF IInv
<1>15. CASE Lookup(p)
  <2>0. i \in Intents /\ istate[i] \in IntentStates
    BY <1>0, <1>15 DEF JobOK, Lookup, TypeOK
  <2>1. CASE Stop(p)
    BY <1>15, <2>1, StopKeeps DEF Lookup
  <2>2. CASE orders[i] # NoOrder /\ call' = [call EXCEPT ![p].pc = "found", ![p].reply = orders[i]]
    BY <1>15, <2>0, <2>2, ReplyKeeps DEF Lookup
  <2>3. CASE call[p].pc = "lookup" /\ Goto(p, "absent")
    BY <1>15, <2>0, <2>3, OwnerMoves DEF Lookup, Owns, OwnerPoints
  <2>4. CASE call[p].pc = "recover" /\ Goto(p, "unrecovered")
    <3>1. call' = [call EXCEPT ![p].pc = "unrecovered", ![p].seen = call[p].seen]
      BY <1>0, <2>4 DEF Goto, TypeOK, Calls
    <3>2. /\ "unrecovered" \in CallPoints \ (OwnerPoints \cup {"found", "begin"})
          /\ call[p].seen \in IntentStates
      BY <1>0 DEF CallPoints, OwnerPoints, Calls
    <3> QED
      BY <1>15, <2>0, <3>1, <3>2, ReadKeeps DEF Lookup
  <2> QED
    BY <1>15, <2>1, <2>2, <2>3, <2>4 DEF Lookup
<1>16. CASE OnAbsent(p)
  <2>0. i \in Intents /\ istate[i] \in IntentStates
    BY <1>0, <1>16 DEF JobOK, OnAbsent, TypeOK
  <2>0a. ASSUME NEW q \in Senders, NEW j \in Intents, Owns(q, j)' PROVE Owns(q, j)
    BY <1>0, <1>16, <2>0, <2>0a DEF OnAbsent, Stop, IdleCall, Owns, OwnerPoints, TypeOK, Calls
  <2>1. CallsInv'
    BY <1>0, <1>16 DEF IInv, OnAbsent, Stop, IdleCall, TypeOK, Calls, CallsInv
  <2>2. OneOwner'
    BY <2>0a DEF IInv, OneOwner, Owns, OwnerPoints
  <2>3. PostsInv'
    BY <1>16 DEF IInv, OnAbsent, PostsInv
  <2>4. TriesInv'
    BY <1>0, <1>16 DEF IInv, OnAbsent, Stop, IdleCall, TypeOK, Calls, Owns, OwnerPoints,
         IntentStates, TriesInv
  <2>5. PreSendInv'
    <3>1. ASSUME NEW j \in Intents, istate'[j] \in PreSend PROVE istate[j] \in PreSend
      BY <1>0, <1>16, <2>0, <3>1 DEF TypeOK, OnAbsent, Set, PreSend
    <3> QED
      BY <1>16, <2>0a, <3>1 DEF OnAbsent, IInv, PreSendInv, Owns
  <2>6. RejectedInv'
    <3> SUFFICES ASSUME NEW j \in Intents, istate'[j] = "REJECTED", stored'[j] = NoOrder
                 PROVE  /\ wire'[j] = {} /\ orders'[j] = NoOrder
                        /\ \A q \in Senders : Owns(q, j)' => call'[q].pc = "note"
      BY DEF RejectedInv
    <3>1. istate[j] = "REJECTED" /\ stored[j] = NoOrder
      BY <1>0, <1>16 DEF OnAbsent, TypeOK, Set
    <3>2. ASSUME NEW q \in Senders, Owns(q, j)' PROVE Owns(q, j) /\ call'[q].pc = call[q].pc
      <4>1. CASE q # p
        BY <1>0, <1>16, <3>2, <4>1 DEF OnAbsent, TypeOK, Owns, Stop
      <4>2. CASE q = p
        <5>1. ~Stop(p)
          BY <1>0, <3>2, <4>2 DEF TypeOK, Owns, OwnerPoints, Stop, IdleCall
        <5>2. j = i /\ istate'[i] = "SUBMITTING"
          BY <1>0, <1>16, <5>1, <4>2, <3>2, <2>0 DEF OnAbsent, TypeOK, Owns, Set, Calls
        <5> QED
          BY <5>2
      <4> QED
        BY <4>1, <4>2
    <3> QED
      BY <1>16, <3>1, <3>2 DEF OnAbsent, IInv, RejectedInv
  <2>7. RefusedInv'
    BY <1>0, <1>16, <2>0 DEF IInv, OnAbsent, Stop, Set, IdleCall, TypeOK, Calls, Owns, OwnerPoints,
         RefusedInv
  <2>8. EvidenceInv'
    BY <1>16 DEF IInv, OnAbsent, EvidenceInv
  <2> QED
    BY TypeOK', <2>1, <2>2, <2>3, <2>4, <2>5, <2>6, <2>7, <2>8 DEF IInv
<1>17. CASE OnUnrecovered(p)
  <2>0. i \in Intents /\ istate[i] \in IntentStates
    BY <1>0, <1>17 DEF JobOK, OnUnrecovered, TypeOK
  <2>1. CallsInv'
    BY <1>0, <1>17 DEF IInv, OnUnrecovered, Stop, IdleCall, CallsInv
  <2>2. OneOwner'
    BY <1>17 DEF IInv, OnUnrecovered, Stop, IdleCall, Owns, OwnerPoints, OneOwner
  <2>3. PostsInv'
    BY <1>17 DEF IInv, OnUnrecovered, PostsInv
  <2>4. TriesInv'
    BY <1>17 DEF IInv, OnUnrecovered, Stop, IdleCall, Owns, OwnerPoints, TriesInv
  <2>5. PreSendInv'
    BY <1>17 DEF IInv, OnUnrecovered, Stop, Set, IdleCall, TypeOK, Owns, OwnerPoints, PreSend,
         PreSendInv
  <2>6. RejectedInv'
    BY <1>17 DEF IInv, OnUnrecovered, Stop, Set, IdleCall, TypeOK, Owns, OwnerPoints, RejectedInv
  <2>7. RefusedInv'
    BY <1>17 DEF IInv, OnUnrecovered, Stop, Set, IdleCall, TypeOK, Owns, OwnerPoints, RefusedInv
  <2>8. EvidenceInv'
    BY <1>17 DEF IInv, OnUnrecovered, EvidenceInv
  <2> QED
    BY TypeOK', <2>1, <2>2, <2>3, <2>4, <2>5, <2>6, <2>7, <2>8 DEF IInv
<1>18. CASE Crash(p)
  BY <1>18, StopKeeps DEF Crash
<1> QED
  BY <1>1, <1>2, <1>3, <1>4, <1>5, <1>6, <1>7, <1>8, <1>9, <1>10, <1>11, <1>12, <1>13, <1>14, <1>15,
       <1>16, <1>17, <1>18
 DEF SenderStep

\* Every step of an importer, and its failure.
LEMMA ImporterKeeps ==
  ASSUME IInv, TypeOK', NEW r \in Importers, ImporterStep(r) \/ CycleFails(r)
  PROVE  IInv'
<1> USE DEF durable, outside
<1>0. TypeOK /\ cycle[r] \in Cycles
  BY DEF IInv, TypeOK
<1>1. CASE ReadIntents(r)
  <2>1. CallsInv'
    BY <1>1 DEF IInv, ReadIntents, CallsInv
  <2>2. OneOwner'
    BY <1>1 DEF IInv, ReadIntents, Owns, OneOwner
  <2>3. PostsInv'
    BY <1>1 DEF IInv, ReadIntents, PostsInv
  <2>4. TriesInv'
    BY <1>1 DEF IInv, ReadIntents, Owns, TriesInv
  <2>5. PreSendInv'
    BY <1>1 DEF IInv, ReadIntents, Owns, PreSendInv
  <2>6. RejectedInv'
    BY <1>1 DEF IInv, ReadIntents, Owns, RejectedInv
  <2>7. RefusedInv'
    BY <1>1 DEF IInv, ReadIntents, Owns, RefusedInv
  <2>8. EvidenceInv'
    BY <1>1 DEF IInv, ReadIntents, TypeOK, EvidenceInv
  <2> QED
    BY TypeOK', <2>1, <2>2, <2>3, <2>4, <2>5, <2>6, <2>7, <2>8 DEF IInv
<1>2. CASE PollOrders(r)
  <2>0. ASSUME NEW q \in Importers, NEW i \in Intents
        PROVE  cycle'[q].events[i].order \in {cycle[q].events[i].order, NoOrder, orders[i]}
    <3>1. PICK complete \in [Intents -> BOOLEAN] :
            cycle' = [cycle EXCEPT
              ![r].pc = "import",
              ![r].events = [j \in Intents |->
                 IF istate[j] \in PreSend \/ DefinitivelyUnsent(j) \/ orders[j] = NoOrder
                   THEN NoEvent
                   ELSE [order |-> orders[j], complete |-> complete[j]]]]
      BY <1>2 DEF PollOrders
    <3> QED
      BY <1>0, <3>1 DEF TypeOK, Cycles, NoEvent
  <2>1. CallsInv'
    BY <1>2 DEF IInv, PollOrders, Owns, CallsInv
  <2>2. OneOwner'
    BY <1>2 DEF IInv, PollOrders, Owns, OneOwner
  <2>3. PostsInv'
    BY <1>2 DEF IInv, PollOrders, Owns, PostsInv
  <2>4. TriesInv'
    BY <1>2 DEF IInv, PollOrders, Owns, TriesInv
  <2>5. PreSendInv'
    BY <1>2 DEF IInv, PollOrders, Owns, PreSendInv
  <2>6. RejectedInv'
    BY <1>2 DEF IInv, PollOrders, Owns, RejectedInv
  <2>7. RefusedInv'
    BY <1>2 DEF IInv, PollOrders, Owns, RefusedInv
  <2>8. EvidenceInv'
    BY <1>2, <2>0 DEF IInv, PollOrders, EvidenceInv
  <2> QED
    BY TypeOK', <2>1, <2>2, <2>3, <2>4, <2>5, <2>6, <2>7, <2>8 DEF IInv
<1>3. CASE Import(r)
  <2>0. ASSUME NEW i \in Intents
        PROVE  \/ istate'[i] = istate[i] /\ stored'[i] = stored[i]
               \/ orders[i] # NoOrder /\ stored'[i] # NoOrder
    BY <1>0, <1>3 DEF Import, TypeOK, IInv, EvidenceInv
  <2>9. ASSUME NEW q \in Importers, NEW i \in Intents
        PROVE  cycle'[q].events[i] = cycle[q].events[i] \/ cycle'[q].events[i].order = NoOrder
    <3>1. IdleCycle.events[i].order = NoOrder
      BY DEF IdleCycle, NoEvent
    <3>2. CASE cycle' = [cycle EXCEPT ![r].pc = "mark", ![r].events = IdleCycle.events]
      BY <1>0, <3>1, <3>2 DEF TypeOK, Cycles
    <3>3. CASE cycle' = [cycle EXCEPT ![r] = IdleCycle]
      BY <1>0, <3>1, <3>3 DEF TypeOK, Cycles
    <3> QED
      BY <1>3, <3>2, <3>3 DEF Import
  <2>1. CallsInv'
    BY <1>3 DEF IInv, Import, CallsInv
  <2>2. OneOwner'
    BY <1>3 DEF IInv, Import, Owns, OneOwner
  <2>3. PostsInv'
    BY <1>3 DEF IInv, Import, PostsInv
  <2>4. TriesInv'
    BY <1>3 DEF IInv, Import, Owns, TriesInv
  <2>5. PreSendInv'
    <3>1. ASSUME NEW i \in Intents, orders[i] # NoOrder PROVE istate'[i] \notin PreSend
      <4>1. istate[i] \in IntentStates \ PreSend
        BY <1>0, <3>1 DEF IInv, PreSendInv, PostsInv, TypeOK
      <4>2. cycle[r].events[i].order \in Snapshots
        BY <1>0 DEF Cycles, OrderEvents
      <4> QED
        BY <1>3, <4>1, <4>2, AdoptedNotPreSend DEF Import
    <3> QED
      BY <1>3, <2>0, <3>1 DEF IInv, Import, PreSendInv, Owns
  <2>6. RejectedInv'
    BY <1>3, <2>0 DEF IInv, Import, RejectedInv, Owns
  <2>7. RefusedInv'
    <3>1. ASSUME NEW i \in Intents, "refused" \in marks[i] PROVE istate'[i] = "ERROR"
      <4>1. istate[i] = "ERROR" /\ posts[i] = 0
        BY <3>1 DEF IInv, RefusedInv
      <4>2. orders[i] = NoOrder
        BY <4>1 DEF IInv, PostsInv
      <4>3. cycle[r].events[i].order = NoOrder
        BY <4>2 DEF IInv, EvidenceInv
      <4> QED
        BY <1>3, <4>1, <4>3 DEF Import
    <3>2. UNCHANGED <<marks, posts, call>>
      BY <1>3 DEF Import
    <3> QED
      BY <3>1, <3>2 DEF IInv, RefusedInv, Owns
  <2>8. EvidenceInv'
    BY <1>3, <2>0, <2>9 DEF IInv, Import, EvidenceInv
  <2> QED
    BY TypeOK', <2>1, <2>2, <2>3, <2>4, <2>5, <2>6, <2>7, <2>8 DEF IInv
<1>4. CASE MarkUnknown(r)
  <2>1. CallsInv'
    BY <1>4 DEF IInv, MarkUnknown, CallsInv
  <2>2. OneOwner'
    BY <1>4 DEF IInv, MarkUnknown, Owns, OneOwner
  <2>3. PostsInv'
    BY <1>4 DEF IInv, MarkUnknown, PostsInv
  <2>4. TriesInv'
    BY <1>4 DEF IInv, MarkUnknown, Owns, TriesInv
  <2>5. PreSendInv'
    BY <1>4 DEF IInv, MarkUnknown, Owns, PreSend, PreSendInv
  <2>6. RejectedInv'
    BY <1>4 DEF IInv, MarkUnknown, Owns, RejectedInv
  <2>7. RefusedInv'
    BY <1>4 DEF IInv, MarkUnknown, Owns, RefusedInv
  <2>8. EvidenceInv'
    BY <1>4 DEF IInv, MarkUnknown, IdleCycle, NoEvent, EvidenceInv
  <2> QED
    BY TypeOK', <2>1, <2>2, <2>3, <2>4, <2>5, <2>6, <2>7, <2>8 DEF IInv
<1>5. CASE CycleFails(r)
  <2>1. CallsInv'
    BY <1>5 DEF IInv, CycleFails, CallsInv
  <2>2. OneOwner'
    BY <1>5 DEF IInv, CycleFails, Owns, OneOwner
  <2>3. PostsInv'
    BY <1>5 DEF IInv, CycleFails, PostsInv
  <2>4. TriesInv'
    BY <1>5 DEF IInv, CycleFails, Owns, TriesInv
  <2>5. PreSendInv'
    BY <1>5 DEF IInv, CycleFails, Owns, PreSendInv
  <2>6. RejectedInv'
    BY <1>5 DEF IInv, CycleFails, Owns, RejectedInv
  <2>7. RefusedInv'
    BY <1>5 DEF IInv, CycleFails, Owns, RefusedInv
  <2>8. EvidenceInv'
    BY <1>5 DEF IInv, CycleFails, IdleCycle, NoEvent, EvidenceInv
  <2> QED
    BY TypeOK', <2>1, <2>2, <2>3, <2>4, <2>5, <2>6, <2>7, <2>8 DEF IInv
<1> QED
  BY <1>1, <1>2, <1>3, <1>4, <1>5 DEF ImporterStep

\* What an answer, or its loss, does to a call.
LEMMA AnswerEffect ==
  ASSUME TypeOK, NEW i \in Intents, NEW n, NEW point \in CallPoints, NEW o \in Snapshots,
         Answer(i, n, point, o), NEW q \in Senders
  PROVE  \/ call'[q] = call[q]
         \/ /\ call[q].pc = "wait" /\ call[q].job = i
            /\ call'[q].job = i /\ call'[q].tries = call[q].tries
            /\ call'[q].pc = point /\ call'[q].reply = o
<1>1. call[q] \in Calls
  BY DEF TypeOK
<1>2. CASE call[q].pc = "wait" /\ call[q].job = i /\ call[q].req = n
  <2>1. call'[q] = [call[q] EXCEPT !.pc = point, !.reply = o]
    BY <1>2 DEF Answer
  <2> QED
    BY <1>1, <1>2, <2>1 DEF Calls
<1>3. CASE ~(call[q].pc = "wait" /\ call[q].job = i /\ call[q].req = n)
  BY <1>3 DEF Answer
<1> QED
  BY <1>2, <1>3

\* Steps of the broker, of time and of retirement.
LEMMA OutsideKeeps ==
  ASSUME IInv, TypeOK', NEW i \in Intents, Expire(i) \/ Retire(i) \/ BrokerStep(i)
  PROVE  IInv'
<1> USE DEF durable, outside
<1>0. TypeOK
  BY DEF IInv
<1>1. CASE Expire(i)
  <2>1. CallsInv'
    BY <1>1 DEF IInv, Expire, CallsInv
  <2>2. OneOwner'
    BY <1>1 DEF IInv, Expire, Owns, OneOwner
  <2>3. PostsInv'
    BY <1>1 DEF IInv, Expire, PostsInv
  <2>4. TriesInv'
    BY <1>1 DEF IInv, Expire, Owns, TriesInv
  <2>5. PreSendInv'
    BY <1>1 DEF IInv, Expire, Owns, PreSendInv
  <2>6. RejectedInv'
    BY <1>1 DEF IInv, Expire, Owns, RejectedInv
  <2>7. RefusedInv'
    BY <1>1 DEF IInv, Expire, Owns, RefusedInv
  <2>8. EvidenceInv'
    BY <1>1 DEF IInv, Expire, EvidenceInv
  <2> QED
    BY TypeOK', <2>1, <2>2, <2>3, <2>4, <2>5, <2>6, <2>7, <2>8 DEF IInv
<1>2. CASE Retire(i)
  <2>1. CallsInv'
    BY <1>2 DEF IInv, Retire, CallsInv
  <2>2. OneOwner'
    BY <1>2 DEF IInv, Retire, Owns, OneOwner
  <2>3. PostsInv'
    BY <1>2 DEF IInv, Retire, PostsInv
  <2>4. TriesInv'
    BY <1>2 DEF IInv, Retire, Owns, TriesInv
  <2>5. PreSendInv'
    BY <1>2 DEF IInv, Retire, Refuse, Set, TypeOK, Owns, PreSend, PreSendInv
  <2>6. RejectedInv'
    BY <1>2 DEF IInv, Retire, Refuse, Set, Owns, RejectedInv
  <2>7. RefusedInv'
    BY <1>2 DEF IInv, Retire, Refuse, Set, TypeOK, Owns, PreSendInv, RefusedInv
  <2>8. EvidenceInv'
    BY <1>2 DEF IInv, Retire, EvidenceInv
  <2> QED
    BY TypeOK', <2>1, <2>2, <2>3, <2>4, <2>5, <2>6, <2>7, <2>8 DEF IInv
<1>3. ASSUME NEW n \in wire[i], BrokerAccept(i, n) PROVE IInv'
  <2>9. ASSUME NEW q \in Senders
        PROVE  \/ call'[q] = call[q]
               \/ /\ call[q].pc = "wait" /\ call[q].job = i
                  /\ call'[q].job = i /\ call'[q].tries = call[q].tries
                  /\ \/ call'[q].pc = "garbled"
                     \/ call'[q].pc = "acked" /\ call'[q].reply = NewOrder
    <3>1. CASE UNCHANGED call
      BY <3>1
    <3>2. CASE Answer(i, n, "acked", NewOrder)
      BY <1>0, <3>2, ConstantTypes, AnswerEffect DEF CallPoints
    <3>3. CASE Answer(i, n, "garbled", NoOrder)
      <4>1. NoOrder \in Snapshots /\ "garbled" \in CallPoints
        BY ConstantTypes DEF CallPoints
      <4> QED
        BY <1>0, <3>3, <4>1, AnswerEffect
    <3> QED
      BY <1>3, <3>1, <3>2, <3>3 DEF BrokerAccept
  <2>10. posts[i] \in Nat /\ n \in 1..posts[i] /\ wire[i] \subseteq 1..posts[i]
    BY <1>0 DEF IInv, PostsInv, TypeOK
  <2>11. wire'[i] = wire[i] \ {n} /\ \A j \in Intents \ {i} : wire'[j] = wire[j]
    BY <1>0, <1>3 DEF BrokerAccept, TypeOK
  <2>12. /\ NewOrder # NoOrder /\ orders'[i] = NewOrder
         /\ \A j \in Intents \ {i} : orders'[j] = orders[j]
    BY <1>0, <1>3 DEF BrokerAccept, TypeOK, NewOrder, NoOrder
  <2>1. CallsInv'
    BY <1>0, <1>3, <2>9, <2>10, <2>11, <2>12 DEF IInv, BrokerAccept, Owns, OwnerPoints, PreSendInv,
         PostsInv, CallsInv
  <2>2. OneOwner'
    BY <1>0, <1>3, <2>9, <2>10, <2>11, <2>12 DEF IInv, BrokerAccept, Owns, OwnerPoints, PreSendInv,
         PostsInv, OneOwner
  <2>3. PostsInv'
    BY <1>0, <1>3, <2>9, <2>10, <2>11, <2>12 DEF IInv, BrokerAccept, Owns, OwnerPoints, PreSendInv,
         PostsInv
  <2>4. TriesInv'
    BY <1>0, <1>3, <2>9, <2>10, <2>11, <2>12 DEF IInv, BrokerAccept, Owns, OwnerPoints, PreSendInv,
         PostsInv, TriesInv
  <2>5. PreSendInv'
    BY <1>0, <1>3, <2>9, <2>10, <2>11, <2>12 DEF IInv, BrokerAccept, Owns, OwnerPoints, PreSendInv,
         PostsInv
  <2>6. RejectedInv'
    BY <1>0, <1>3, <2>9, <2>10, <2>11, <2>12 DEF IInv, BrokerAccept, Owns, OwnerPoints, PreSendInv,
         PostsInv, RejectedInv
  <2>7. RefusedInv'
    BY <1>0, <1>3, <2>9, <2>10, <2>11, <2>12 DEF IInv, BrokerAccept, Owns, OwnerPoints, PreSendInv,
         PostsInv, RefusedInv
  <2>8. EvidenceInv'
    BY <1>0, <1>3, <2>9, <2>10, <2>11, <2>12 DEF IInv, BrokerAccept, Owns, OwnerPoints, PreSendInv,
         PostsInv, EvidenceInv
  <2> QED
    BY TypeOK', <2>1, <2>2, <2>3, <2>4, <2>5, <2>6, <2>7, <2>8 DEF IInv
<1>4. ASSUME NEW n \in wire[i], BrokerDeny(i, n) PROVE IInv'
  <2>9. ASSUME NEW q \in Senders
        PROVE  \/ call'[q] = call[q]
               \/ /\ call[q].pc = "wait" /\ call[q].job = i
                  /\ call'[q].job = i /\ call'[q].tries = call[q].tries
                  /\ call'[q].pc = "denied"
    BY <1>0, <1>4, ConstantTypes, AnswerEffect DEF BrokerDeny, CallPoints
  <2>10. posts[i] \in Nat /\ n \in 1..posts[i] /\ wire[i] \subseteq 1..posts[i]
    BY <1>0 DEF IInv, PostsInv, TypeOK
  <2>11. wire'[i] = wire[i] \ {n} /\ \A j \in Intents \ {i} : wire'[j] = wire[j]
    BY <1>0, <1>4 DEF BrokerDeny, TypeOK
  <2>1. CallsInv'
    BY <1>0, <1>4, <2>9, <2>10, <2>11 DEF IInv, BrokerDeny, Owns, OwnerPoints, PreSendInv, PostsInv,
         CallsInv
  <2>2. OneOwner'
    BY <1>0, <1>4, <2>9, <2>10, <2>11 DEF IInv, BrokerDeny, Owns, OwnerPoints, PreSendInv, PostsInv,
         OneOwner
  <2>3. PostsInv'
    BY <1>0, <1>4, <2>9, <2>10, <2>11 DEF IInv, BrokerDeny, Owns, OwnerPoints, PreSendInv, PostsInv
  <2>4. TriesInv'
    BY <1>0, <1>4, <2>9, <2>10, <2>11 DEF IInv, BrokerDeny, Owns, OwnerPoints, PreSendInv, PostsInv,
         TriesInv
  <2>5. PreSendInv'
    BY <1>0, <1>4, <2>9, <2>10, <2>11 DEF IInv, BrokerDeny, Owns, OwnerPoints, PreSendInv, PostsInv
  <2>6. RejectedInv'
    BY <1>0, <1>4, <2>9, <2>10, <2>11 DEF IInv, BrokerDeny, Owns, OwnerPoints, PreSendInv, PostsInv,
         RejectedInv
  <2>7. RefusedInv'
    BY <1>0, <1>4, <2>9, <2>10, <2>11 DEF IInv, BrokerDeny, Owns, OwnerPoints, PreSendInv, PostsInv,
         RefusedInv
  <2>8. EvidenceInv'
    BY <1>0, <1>4, <2>9, <2>10, <2>11 DEF IInv, BrokerDeny, Owns, OwnerPoints, PreSendInv, PostsInv,
         EvidenceInv
  <2> QED
    BY TypeOK', <2>1, <2>2, <2>3, <2>4, <2>5, <2>6, <2>7, <2>8 DEF IInv
<1>5. CASE BrokerFill(i)
  <2>1. CallsInv'
    BY <1>5 DEF IInv, BrokerFill, NoOrder, CallsInv
  <2>2. OneOwner'
    BY <1>5 DEF IInv, BrokerFill, Owns, OneOwner
  <2>3. PostsInv'
    BY <1>5 DEF IInv, BrokerFill, NoOrder, IsOpen, PostsInv
  <2>4. TriesInv'
    BY <1>5 DEF IInv, BrokerFill, NoOrder, IsOpen, Owns, TriesInv
  <2>5. PreSendInv'
    BY <1>5 DEF IInv, BrokerFill, Owns, PreSendInv
  <2>6. RejectedInv'
    BY <1>5 DEF IInv, BrokerFill, NoOrder, IsOpen, Owns, RejectedInv
  <2>7. RefusedInv'
    BY <1>5 DEF IInv, BrokerFill, Owns, RefusedInv
  <2>8. EvidenceInv'
    BY <1>5 DEF IInv, BrokerFill, NoOrder, EvidenceInv
  <2> QED
    BY TypeOK', <2>1, <2>2, <2>3, <2>4, <2>5, <2>6, <2>7, <2>8 DEF IInv
<1>6. ASSUME NEW s \in {"canceled", "expired", "rejected"}, BrokerEnd(i, s) PROVE IInv'
  <2>1. CallsInv'
    BY <1>6 DEF IInv, BrokerEnd, NoOrder, CallsInv
  <2>2. OneOwner'
    BY <1>6 DEF IInv, BrokerEnd, Owns, OneOwner
  <2>3. PostsInv'
    BY <1>6 DEF IInv, BrokerEnd, NoOrder, IsOpen, PostsInv
  <2>4. TriesInv'
    BY <1>6 DEF IInv, BrokerEnd, NoOrder, IsOpen, Owns, TriesInv
  <2>5. PreSendInv'
    BY <1>6 DEF IInv, BrokerEnd, Owns, PreSendInv
  <2>6. RejectedInv'
    BY <1>6 DEF IInv, BrokerEnd, NoOrder, IsOpen, Owns, RejectedInv
  <2>7. RefusedInv'
    BY <1>6 DEF IInv, BrokerEnd, Owns, RefusedInv
  <2>8. EvidenceInv'
    BY <1>6 DEF IInv, BrokerEnd, NoOrder, EvidenceInv
  <2> QED
    BY TypeOK', <2>1, <2>2, <2>3, <2>4, <2>5, <2>6, <2>7, <2>8 DEF IInv
<1> QED
  BY <1>1, <1>2, <1>3, <1>4, <1>5, <1>6 DEF BrokerStep

-----------------------------------------------------------------------------
(* The theorems.                                                           *)

\* A step that changes no variable keeps the invariant.
LEMMA StutterKeeps == IInv /\ UNCHANGED vars => IInv'
<1> SUFFICES ASSUME IInv, UNCHANGED vars PROVE IInv'
  OBVIOUS
<1> USE DEF vars, durable, outside
<1>1. TypeOK' /\ CallsInv' /\ OneOwner' /\ PostsInv' /\ TriesInv'
  BY DEF IInv, TypeOK, CallsInv, OneOwner, PostsInv, TriesInv, Owns
<1>2. PreSendInv' /\ RejectedInv' /\ RefusedInv' /\ EvidenceInv'
  BY DEF IInv, PreSendInv, RejectedInv, RefusedInv, EvidenceInv, Owns
<1> QED
  BY <1>1, <1>2 DEF IInv

\* The invariant of the run submission_retry holds of every number of intents,
\* senders, importers and retries: durable states, requests, answers being
\* applied and evidence stay consistent over all interleavings and crashes.
THEOREM InductiveInvariant == Spec => []IInv
<1>1. IInv /\ [Next]_vars => IInv'
  <2> SUFFICES ASSUME IInv, [Next]_vars PROVE IInv'
    OBVIOUS
  <2>1. TypeOK /\ JobOK
    BY DEF IInv, CallsInv, JobOK
  <2>2. ASSUME NEW p \in Senders, SenderStep(p) \/ Crash(p) PROVE IInv'
    BY <2>1, <2>2, TypeSender, SenderKeeps
  <2>3. ASSUME NEW i \in Intents, Expire(i) \/ Retire(i) \/ BrokerStep(i) PROVE IInv'
    BY <2>1, <2>3, TypeOutside, OutsideKeeps
  <2>4. ASSUME NEW r \in Importers, ImporterStep(r) \/ CycleFails(r) PROVE IInv'
    BY <2>1, <2>4, TypeImporter, ImporterKeeps
  <2> QED
    BY <2>2, <2>3, <2>4, StutterKeeps DEF Next
<1> QED
  BY <1>1, InitIInv, PTL DEF Spec

\* Every variable keeps its type.
THEOREM TypeCorrect == Spec => []TypeOK
<1>1. IInv => TypeOK
  BY DEF IInv
<1> QED
  BY <1>1, InductiveInvariant, PTL

\* What definitively_unsent releases has no order and no way to get one.
LEMMA IInvSafe == IInv => UnsentForGood
<1> SUFFICES ASSUME IInv, NEW i \in Intents, DefinitivelyUnsent(i)
             PROVE  orders[i] = NoOrder /\ ~MaySend(i)
  BY DEF UnsentForGood
<1>1. CASE istate[i] = "ERROR" /\ "refused" \in marks[i]
  <2>1. posts[i] = 0 /\ \A p \in Senders : ~Owns(p, i)
    BY <1>1 DEF IInv, RefusedInv
  <2>2. orders[i] = NoOrder /\ wire[i] = {}
    BY <2>1 DEF IInv, PostsInv
  <2> QED
    BY <1>1, <2>1, <2>2 DEF MaySend, Owns, OwnerPoints, PreSend
<1>2. CASE istate[i] = "REJECTED" /\ stored[i] = NoOrder
  BY <1>2 DEF IInv, RejectedInv, MaySend, Owns, OwnerPoints, PreSend
<1> QED
  BY <1>1, <1>2 DEF DefinitivelyUnsent

\* settlement.definitively_unsent is a proof: whatever the interleaving, an
\* intent it releases has no broker order and can never get one.
THEOREM UnsentIsSafe == Spec => []UnsentForGood
BY IInvSafe, InductiveInvariant, PTL

\* A rejection without a broker order is conclusive: no delayed copy of the
\* POST becomes an order and nobody sends again.
THEOREM RejectionIsConclusive == Spec => []RejectionIsFinal
<1>1. IInv => RejectionIsFinal
  BY DEF IInv, RejectedInv, RejectionIsFinal, MaySend, Owns, OwnerPoints, PreSend
<1> QED
  BY <1>1, InductiveInvariant, PTL

\* Crashes, restarts and competing calls never add a POST: one per intent and
\* one per configured same-identity retry.
THEOREM PostsAreBounded == Spec => []PostsBounded
<1>1. IInv => PostsBounded
  BY DEF IInv, PostsInv, PostsBounded
<1> QED
  BY <1>1, InductiveInvariant, PTL

-----------------------------------------------------------------------------
(* Records: what the store knows of an order.                              *)

\* A snapshot was true of the broker's order when it was read, and an ended order stays
\* as it is.
TrueOf(s, i) ==
  s = NoOrder \/ /\ Ended(s) \/ s.filled < Qty
                 /\ s.filled <= orders[i].filled
                 /\ Ended(s) => s = orders[i]

(* Snapshots that are stored, being adopted or being imported are true of   *)
(* the order; an intent has a stored order exactly from its adoption.       *)
SnapshotsInv ==
  /\ \A i \in Intents : Ended(orders[i]) \/ orders[i].filled < Qty
  /\ \A i \in Intents : TrueOf(stored[i], i)
  /\ \A p \in Senders : call[p].pc \in {"acked", "found"} => TrueOf(call[p].reply, call[p].job)
  /\ \A r \in Importers, i \in Intents : TrueOf(cycle[r].events[i].order, i)

AdoptedInv ==
  \A i \in Intents :
    IF stored[i] = NoOrder THEN istate[i] \in PreSend \cup Uncertain \cup {"REJECTED", "ERROR"}
    ELSE istate[i] \notin PreSend \cup Uncertain

RecordInv == SnapshotsInv /\ AdoptedInv /\ SettledIsTrue

\* Adoption leaves an intent in a state with an order.
LEMMA AdoptedIs ==
  ASSUME NEW s \in IntentStates \ PreSend, NEW o \in Snapshots
  PROVE  AdoptedState(s, o) \in IntentStates \ (PreSend \cup Uncertain)
BY DEF AdoptedState, AcceptedFrom, AckTarget, PreSend, Uncertain, IntentStates

\* The broker's orders only come into being, fill and end.
LEMMA OrdersMove ==
  ASSUME IInv, SnapshotsInv, [Next]_vars, NEW i \in Intents
  PROVE  /\ orders[i] \in Snapshots /\ orders'[i] \in Snapshots
         /\ orders[i].filled <= orders'[i].filled
         /\ Ended(orders[i]) => orders'[i] = orders[i]
         /\ Ended(orders'[i]) \/ orders'[i].filled < Qty
         /\ orders[i] # NoOrder => orders'[i] # NoOrder
<1> USE QtyAssumption
<1>1. orders \in [Intents -> Snapshots] /\ (Ended(orders[i]) \/ orders[i].filled < Qty)
  BY DEF IInv, TypeOK, SnapshotsInv
<1>2. /\ orders[i] \in Snapshots /\ orders[i].filled \in 0..Qty
      /\ orders[i] = [status |-> orders[i].status, filled |-> orders[i].filled]
  BY <1>1 DEF Snapshots
<1>3. CASE orders'[i] = orders[i]
  BY <1>1, <1>2, <1>3
<1>4. ASSUME NEW j \in Intents, NEW n \in wire[j], BrokerAccept(j, n), orders'[i] # orders[i]
      PROVE  orders[i] = NoOrder /\ orders'[i] = NewOrder
  BY <1>1, <1>4 DEF BrokerAccept
<1>5. ASSUME NEW j \in Intents, BrokerFill(j), orders'[i] # orders[i]
      PROVE  /\ IsOpen(orders[i]) /\ orders[i].filled < Qty
             /\ orders'[i] = [status |-> IF orders[i].filled + 1 = Qty THEN "filled" ELSE "open",
                              filled |-> orders[i].filled + 1]
  BY <1>1, <1>5 DEF BrokerFill
<1>6. ASSUME NEW j \in Intents, NEW s \in {"canceled", "expired", "rejected"}, BrokerEnd(j, s),
             orders'[i] # orders[i]
      PROVE  IsOpen(orders[i]) /\ orders'[i] = [status |-> s, filled |-> orders[i].filled]
  BY <1>1, <1>6 DEF BrokerEnd, Snapshots
<1>7. CASE orders[i] = NoOrder /\ orders'[i] = NewOrder
  BY <1>2, <1>7, ConstantTypes DEF NoOrder, NewOrder, Ended
<1>8. CASE /\ IsOpen(orders[i]) /\ orders[i].filled < Qty
           /\ orders'[i] = [status |-> IF orders[i].filled + 1 = Qty THEN "filled" ELSE "open",
                            filled |-> orders[i].filled + 1]
  BY <1>2, <1>8 DEF Snapshots, OrderStatuses, IsOpen, Ended, NoOrder
<1>9. CASE /\ IsOpen(orders[i])
           /\ \E s \in {"canceled", "expired", "rejected"} :
                orders'[i] = [status |-> s, filled |-> orders[i].filled]
  BY <1>2, <1>9 DEF Snapshots, OrderStatuses, IsOpen, Ended, NoOrder
<1>10. ASSUME ~UNCHANGED orders
       PROVE  \E j \in Intents : \/ \E n \in wire[j] : BrokerAccept(j, n)
                                 \/ BrokerFill(j)
                                 \/ \E s \in {"canceled", "expired", "rejected"} : BrokerEnd(j, s)
  <2>1. ASSUME NEW p \in Senders, SenderStep(p) \/ Crash(p) PROVE UNCHANGED orders
    BY <2>1, ZenonT(60)
    DEF SenderStep, Crash, Begin, Claim, Reread, SendAllowed, SendRefused, SendConflict, Post,
        PostWithheld, NoteNotAttempted, Timeout, Adopt, OnDenied, OnUncertain, OnGarbled, Lookup,
        OnAbsent, OnUnrecovered, outside
  <2>2. ASSUME NEW r \in Importers, ImporterStep(r) \/ CycleFails(r) PROVE UNCHANGED orders
    BY <2>2 DEF ImporterStep, CycleFails, ReadIntents, PollOrders, Import, MarkUnknown, outside
  <2>3. ASSUME NEW j \in Intents, Expire(j) \/ Retire(j) PROVE UNCHANGED orders
    BY <2>3 DEF Expire, Retire, outside
  <2>4. ASSUME NEW j \in Intents, NEW n \in wire[j], BrokerDeny(j, n) PROVE UNCHANGED orders
    BY <2>4 DEF BrokerDeny
  <2> QED BY <1>10, <2>1, <2>2, <2>3, <2>4 DEF Next, BrokerStep, vars, outside
<1> QED BY <1>3, <1>4, <1>5, <1>6, <1>7, <1>8, <1>9, <1>10

\* What was true of an order stays true of it.
LEMMA TrueStays ==
  ASSUME IInv, SnapshotsInv, [Next]_vars, NEW i \in Intents, NEW s \in Snapshots, TrueOf(s, i)
  PROVE  TrueOf(s, i)'
<1>1. s.filled \in 0..Qty /\ orders[i].filled \in 0..Qty /\ orders'[i].filled \in 0..Qty
  BY OrdersMove DEF Snapshots
<1> QED BY <1>1, OrdersMove, QtyAssumption DEF TrueOf

\* A poll of now is true.
LEMMA NowIsTrue ==
  ASSUME IInv, SnapshotsInv, NEW i \in Intents
  PROVE  TrueOf(orders[i], i) /\ TrueOf(NoOrder, i)
BY QtyAssumption DEF IInv, TypeOK, Snapshots, SnapshotsInv, TrueOf

\* The intent's state and stored order move together.
Moves(i) ==
  \/ /\ stored'[i] = stored[i]
     /\ \/ istate'[i] = istate[i]
        \/ /\ istate[i] \in PreSend \cup Uncertain
           /\ istate'[i] \in {"ORDER_CREATED", "SUBMITTING", "SUBMISSION_UNKNOWN", "REJECTED", "ERROR"}
           /\ istate'[i] = "ORDER_CREATED" => istate[i] = "RISK_APPROVED"
  \/ \E o \in Snapshots :
       /\ o # NoOrder /\ TrueOf(o, i) /\ orders[i] # NoOrder
       /\ o.filled >= stored[i].filled
       /\ stored'[i] = o /\ istate'[i] = AdoptedState(istate[i], o)

LEMMA StateMoves ==
  ASSUME IInv, SnapshotsInv, [Next]_vars, NEW i \in Intents
  PROVE  Moves(i) /\ marks[i] \subseteq marks'[i]
<1>1. /\ istate \in [Intents -> IntentStates] /\ stored \in [Intents -> Snapshots]
      /\ marks \in [Intents -> SUBSET Marks] /\ orders \in [Intents -> Snapshots]
  BY DEF IInv, TypeOK
<1>2. ASSUME UNCHANGED <<istate, stored, marks>> PROVE Moves(i) /\ marks[i] \subseteq marks'[i]
  BY <1>2 DEF Moves
<1> DEFINE Early == {"ORDER_CREATED", "SUBMITTING", "SUBMISSION_UNKNOWN", "REJECTED", "ERROR"}
<1>3. ASSUME NEW j \in Intents, UNCHANGED <<stored, marks>>, istate[j] \in PreSend \cup Uncertain,
             NEW s \in Early, s = "ORDER_CREATED" => istate[j] = "RISK_APPROVED", Set(j, s)
      PROVE  Moves(i) /\ marks[i] \subseteq marks'[i]
  BY <1>1, <1>3 DEF Moves, Set
<1>4. ASSUME NEW p \in Senders, Claim(p) \/ SendAllowed(p) \/ SendRefused(p)
      PROVE  Moves(i) /\ marks[i] \subseteq marks'[i]
  <2>1. call[p].job \in Intents
    BY <1>4 DEF Claim, SendAllowed, SendRefused, IInv, CallsInv
  <2>2. CASE Claim(p)
    <3>1. CASE Set(call[p].job, "ORDER_CREATED") /\ istate[call[p].job] = "RISK_APPROVED"
      BY <2>1, <2>2, <3>1, <1>3 DEF Claim, PreSend
    <3>2. CASE UNCHANGED istate
      BY <1>2, <2>2, <3>2 DEF Claim
    <3> QED BY <2>2, <3>1, <3>2 DEF Claim
  <2>3. CASE SendAllowed(p)
    BY <2>1, <2>3, <1>3 DEF SendAllowed, PreSend
  <2>4. CASE SendRefused(p)
    BY <1>1, <2>1, <2>4 DEF SendRefused, Refuse, Set, PreSend, Moves
  <2> QED BY <1>4, <2>2, <2>3, <2>4
<1>5. ASSUME NEW p \in Senders, NEW from, NEW to \in {"REJECTED", "SUBMISSION_UNKNOWN"}, NEW point,
             Cas(p, call[p].job, "SUBMITTING", to, point), call[p].job \in Intents,
             UNCHANGED <<stored, marks>>
      PROVE  Moves(i) /\ marks[i] \subseteq marks'[i]
  BY <1>2, <1>3, <1>5 DEF Cas, Uncertain
<1>6. ASSUME NEW p \in Senders, PostWithheld(p) \/ OnDenied(p) \/ OnUncertain(p)
      PROVE  Moves(i) /\ marks[i] \subseteq marks'[i]
  <2>1. call[p].job \in Intents
    BY <1>6 DEF PostWithheld, OnDenied, OnUncertain, IInv, CallsInv
  <2> QED BY <1>5, <1>6, <2>1 DEF PostWithheld, OnDenied, OnUncertain
<1>7. ASSUME NEW p \in Senders, OnGarbled(p) \/ OnAbsent(p) \/ OnUnrecovered(p)
      PROVE  Moves(i) /\ marks[i] \subseteq marks'[i]
  <2>1. call[p].job \in Intents
    BY <1>7 DEF OnGarbled, OnAbsent, OnUnrecovered, IInv, CallsInv
  <2>2. \/ UNCHANGED istate
        \/ \E s \in {"ERROR", "SUBMITTING", "SUBMISSION_UNKNOWN"} :
             Set(call[p].job, s) /\ istate[call[p].job] \in Uncertain
    BY <1>7 DEF OnGarbled, OnAbsent, OnUnrecovered, Uncertain
  <2>3. UNCHANGED <<stored, marks>>
    BY <1>7 DEF OnGarbled, OnAbsent, OnUnrecovered
  <2> QED BY <1>2, <1>3, <2>1, <2>2, <2>3
<1>8. ASSUME NEW p \in Senders, NoteNotAttempted(p)
      PROVE  Moves(i) /\ marks[i] \subseteq marks'[i]
  BY <1>1, <1>8 DEF NoteNotAttempted, Moves
<1>9. ASSUME NEW p \in Senders, Adopt(p) PROVE Moves(i) /\ marks[i] \subseteq marks'[i]
  <2>1. /\ call[p].job \in Intents /\ call[p].reply \in Snapshots
        /\ call[p].reply # NoOrder /\ orders[call[p].job] # NoOrder
        /\ TrueOf(call[p].reply, call[p].job)
    BY <1>9 DEF Adopt, IInv, CallsInv, TypeOK, Calls, SnapshotsInv
  <2>2. CASE UNCHANGED <<stored, istate>>
    BY <1>2, <1>9, <2>2 DEF Adopt
  <2>3. CASE /\ CanAdopt(call[p].job, call[p].reply)
             /\ stored' = [stored EXCEPT ![call[p].job] = call[p].reply]
             /\ Set(call[p].job, AdoptedState(istate[call[p].job], call[p].reply))
    <3>1. UNCHANGED marks
      BY <1>9 DEF Adopt
    <3>2. CASE i = call[p].job
      BY <1>1, <2>1, <2>3, <3>1, <3>2 DEF Moves, Set, CanAdopt
    <3>3. CASE i # call[p].job
      BY <1>1, <2>1, <2>3, <3>1, <3>3 DEF Moves, Set
    <3> QED BY <3>2, <3>3
  <2> QED BY <1>9, <2>2, <2>3 DEF Adopt
<1>10. ASSUME NEW p \in Senders, SenderStep(p) \/ Crash(p)
       PROVE  Moves(i) /\ marks[i] \subseteq marks'[i]
  <2>1. CASE \/ \E k \in Intents : Begin(p, k)
             \/ Reread(p) \/ SendConflict(p) \/ Post(p) \/ Timeout(p) \/ Lookup(p) \/ Crash(p)
    BY <1>2, <2>1 DEF Begin, Reread, SendConflict, Post, Timeout, Lookup, Crash, durable
  <2> QED BY <1>4, <1>6, <1>7, <1>8, <1>9, <1>10, <2>1 DEF SenderStep
<1>11. ASSUME NEW j \in Intents, Retire(j) PROVE Moves(i) /\ marks[i] \subseteq marks'[i]
  BY <1>1, <1>11 DEF Retire, Refuse, Set, PreSend, Moves
<1>12. ASSUME NEW j \in Intents, Expire(j) \/ BrokerStep(j)
       PROVE  Moves(i) /\ marks[i] \subseteq marks'[i]
  BY <1>2, <1>12 DEF Expire, BrokerStep, BrokerAccept, BrokerDeny, BrokerFill, BrokerEnd, durable
<1>13. ASSUME NEW r \in Importers, Import(r) PROVE Moves(i) /\ marks[i] \subseteq marks'[i]
  <2> DEFINE o == cycle[r].events[i].order
  <2>1. o \in Snapshots /\ TrueOf(o, i) /\ (o # NoOrder => orders[i] # NoOrder)
    BY DEF IInv, TypeOK, Cycles, OrderEvents, EvidenceInv, SnapshotsInv
  <2>2. /\ UNCHANGED marks
        /\ \/ istate'[i] = istate[i] /\ stored'[i] = stored[i]
           \/ /\ o # NoOrder /\ CanAdopt(i, o)
              /\ istate'[i] = AdoptedState(istate[i], o) /\ stored'[i] = o
    BY <1>13 DEF Import
  <2> HIDE DEF o
  <2> QED BY <2>1, <2>2 DEF Moves, CanAdopt
<1>14. ASSUME NEW r \in Importers, MarkUnknown(r) PROVE Moves(i) /\ marks[i] \subseteq marks'[i]
  BY <1>14 DEF MarkUnknown, Moves, Uncertain
<1>15. ASSUME NEW r \in Importers, ReadIntents(r) \/ PollOrders(r) \/ CycleFails(r)
       PROVE  Moves(i) /\ marks[i] \subseteq marks'[i]
  BY <1>2, <1>15 DEF ReadIntents, PollOrders, CycleFails, durable
<1>16. CASE UNCHANGED vars
  BY <1>2, <1>16 DEF vars, durable
<1> QED BY <1>10, <1>11, <1>12, <1>13, <1>14, <1>15, <1>16 DEF Next, ImporterStep

\* The replies a call may adopt are kept, or are the order of now.
LEMMA RepliesMove ==
  ASSUME IInv, [Next]_vars, NEW q \in Senders, call'[q].pc \in {"acked", "found"}
  PROVE  /\ call'[q].job = call[q].job /\ call[q].job \in Intents
         /\ \/ call[q].pc \in {"acked", "found"} /\ call'[q].reply = call[q].reply
            \/ call'[q].reply = orders'[call[q].job]
<1> DEFINE Goal == /\ call'[q].job = call[q].job /\ call[q].job \in Intents
                   /\ \/ call[q].pc \in {"acked", "found"} /\ call'[q].reply = call[q].reply
                      \/ call'[q].reply = orders'[call[q].job]
<1>1. /\ TypeOK /\ call[q] \in Calls
      /\ call[q].pc # "idle" => call[q].job \in Intents
  BY DEF IInv, TypeOK, CallsInv
<1>2. ASSUME call'[q] = call[q] PROVE Goal
  BY <1>1, <1>2
<1>3. ASSUME NEW p \in Senders, SenderStep(p) \/ Crash(p), p # q PROVE Goal
  <2>1. call'[q] = call[q]
    BY <1>1, <1>3, ZenonT(60)
    DEF SenderStep, Crash, Begin, Claim, Reread, SendAllowed, SendRefused, SendConflict, Post,
        PostWithheld, NoteNotAttempted, Timeout, Adopt, OnDenied, OnUncertain, OnGarbled, Lookup,
        OnAbsent, OnUnrecovered, Cas, Goto, Stop, TypeOK
  <2> QED BY <1>2, <2>1
<1> DEFINE Reading == {"acked", "found"}
<1>4. ~Stop(q)
  BY <1>1 DEF Stop, IdleCall, TypeOK
<1>5. ASSUME NEW point, point \notin Reading PROVE ~Goto(q, point)
  BY <1>1, <1>5 DEF Goto, TypeOK, Calls
<1>6. ASSUME NEW k \in Intents, Begin(q, k) PROVE Goal
  BY <1>1, <1>6 DEF Begin, IdleCall, TypeOK
<1>7. ASSUME Claim(q) \/ Reread(q) PROVE Goal
  <2>1. \/ call' = [call EXCEPT ![q].seen = "ORDER_CREATED"] /\ call[q].pc = "begin"
        \/ call' = [call EXCEPT ![q].pc = "recover", ![q].seen = istate[call[q].job]]
    BY <1>4, <1>5, <1>7 DEF Claim, Reread
  <2> QED BY <1>1, <2>1 DEF TypeOK, Calls
<1>8. ~(SendAllowed(q) \/ SendRefused(q) \/ SendConflict(q) \/ NoteNotAttempted(q))
  BY <1>4, <1>5 DEF SendAllowed, SendRefused, SendConflict, NoteNotAttempted
<1>9. ~Post(q)
  BY <1>1 DEF Post, TypeOK, Calls
<1>10. ~(PostWithheld(q) \/ OnDenied(q) \/ OnUncertain(q))
  BY <1>4, <1>5 DEF PostWithheld, OnDenied, OnUncertain, Cas
<1>11. ~(Adopt(q) \/ OnGarbled(q) \/ OnUnrecovered(q) \/ Crash(q))
  BY <1>4 DEF Adopt, OnGarbled, OnUnrecovered, Crash
<1>12. ~OnAbsent(q)
  <2>1. ~(call' = [call EXCEPT ![q].pc = "post", ![q].tries = @ + 1])
    BY <1>1 DEF TypeOK, Calls
  <2> QED BY <1>4, <2>1 DEF OnAbsent
<1>13. ASSUME Timeout(q) \/ Lookup(q) PROVE Goal
  <2>1. \E point \in Reading : call' = [call EXCEPT ![q].pc = point, ![q].reply = orders[call[q].job]]
    BY <1>4, <1>5, <1>13 DEF Timeout, Lookup
  <2>2. call'[q].job = call[q].job /\ call'[q].reply = orders[call[q].job]
    BY <1>1, <2>1 DEF TypeOK, Calls
  <2>3. call[q].pc # "idle" /\ UNCHANGED orders
    BY <1>13 DEF Timeout, Lookup, outside
  <2> QED BY <1>1, <2>2, <2>3
<1>14. ASSUME NEW i \in Intents, NEW n \in wire[i], BrokerAccept(i, n) PROVE Goal
  <2>1. orders'[i] = NewOrder
    BY <1>1, <1>14 DEF BrokerAccept, TypeOK
  <2>2. CASE UNCHANGED call
    BY <1>2, <2>2
  <2>3. CASE Answer(i, n, "acked", NewOrder)
    <3>1. "acked" \in CallPoints /\ NewOrder \in Snapshots
      BY ConstantTypes DEF CallPoints
    <3>2. \/ call'[q] = call[q]
          \/ call[q].job = i /\ call'[q].job = i /\ call'[q].reply = NewOrder
      BY <1>1, <2>3, <3>1, AnswerEffect
    <3> QED BY <1>2, <2>1, <3>2
  <2>4. CASE Answer(i, n, "garbled", NoOrder)
    <3>1. call'[q] = call[q] \/ call'[q].pc = "garbled"
      BY <1>1, <2>4 DEF Answer, Calls
    <3> QED BY <1>2, <3>1
  <2> QED BY <1>14, <2>2, <2>3, <2>4 DEF BrokerAccept
<1>15. ASSUME NEW i \in Intents, NEW n \in wire[i], BrokerDeny(i, n) PROVE Goal
  <2>1. call'[q] = call[q] \/ call'[q].pc = "denied"
    BY <1>1, <1>15 DEF BrokerDeny, Answer, Calls
  <2> QED BY <1>2, <2>1
<1>16. ASSUME NEW i \in Intents, Expire(i) \/ Retire(i) \/ BrokerFill(i)
              \/ \E s \in {"canceled", "expired", "rejected"} : BrokerEnd(i, s)
       PROVE  Goal
  BY <1>2, <1>16 DEF Expire, Retire, BrokerFill, BrokerEnd
<1>17. ASSUME NEW r \in Importers, ImporterStep(r) \/ CycleFails(r) PROVE Goal
  BY <1>2, <1>17 DEF ImporterStep, CycleFails, ReadIntents, PollOrders, Import, MarkUnknown
<1>18. ASSUME UNCHANGED vars PROVE Goal
  BY <1>2, <1>18 DEF vars
<1> HIDE DEF Goal
<1>19. ASSUME NEW p \in Senders, SenderStep(p) \/ Crash(p) PROVE Goal
  BY <1>3, <1>6, <1>7, <1>8, <1>9, <1>10, <1>11, <1>12, <1>13, <1>19 DEF SenderStep
<1>20. Goal
  BY <1>14, <1>15, <1>16, <1>17, <1>18, <1>19 DEF Next, BrokerStep
<1> QED BY <1>20 DEF Goal

\* Polled orders are kept, are the order of now, or are forgotten.
LEMMA EventsMove ==
  ASSUME IInv, [Next]_vars, NEW q \in Importers, NEW i \in Intents
  PROVE  cycle'[q].events[i].order \in {cycle[q].events[i].order, orders'[i], NoOrder}
<1> DEFINE Goal == cycle'[q].events[i].order \in {cycle[q].events[i].order, orders'[i], NoOrder}
<1>1. cycle \in [Importers -> Cycles] /\ IdleCycle.events[i].order = NoOrder
  BY DEF IInv, TypeOK, IdleCycle, NoEvent
<1>2. ASSUME cycle'[q] = cycle[q] PROVE Goal
  BY <1>2
<1>3. ASSUME NEW p \in Senders, SenderStep(p) \/ Crash(p) PROVE Goal
  <2>1. UNCHANGED cycle
    BY <1>3, ZenonT(60)
    DEF SenderStep, Crash, Begin, Claim, Reread, SendAllowed, SendRefused, SendConflict, Post,
        PostWithheld, NoteNotAttempted, Timeout, Adopt, OnDenied, OnUncertain, OnGarbled, Lookup,
        OnAbsent, OnUnrecovered
  <2> QED BY <1>2, <2>1
<1>4. ASSUME NEW j \in Intents, Expire(j) \/ Retire(j) \/ BrokerStep(j) PROVE Goal
  BY <1>2, <1>4 DEF Expire, Retire, BrokerStep, BrokerAccept, BrokerDeny, BrokerFill, BrokerEnd
<1>5. ASSUME NEW r \in Importers, ImporterStep(r) \/ CycleFails(r) PROVE Goal
  <2>1. CASE r # q
    BY <1>1, <1>2, <1>5, <2>1
    DEF ImporterStep, CycleFails, ReadIntents, PollOrders, Import, MarkUnknown
  <2>2. CASE r = q /\ ReadIntents(q)
    BY <1>1, <2>2 DEF ReadIntents, Cycles
  <2>3. CASE r = q /\ PollOrders(q)
    <3>1. UNCHANGED orders
      BY <2>3 DEF PollOrders, outside
    <3>2. PICK complete \in [Intents -> BOOLEAN] :
            cycle' = [cycle EXCEPT
              ![q].pc = "import",
              ![q].events = [k \in Intents |->
                 IF istate[k] \in PreSend \/ DefinitivelyUnsent(k) \/ orders[k] = NoOrder
                   THEN NoEvent
                   ELSE [order |-> orders[k], complete |-> complete[k]]]]
      BY <2>3 DEF PollOrders
    <3>3. cycle'[q].events[i] = IF istate[i] \in PreSend \/ DefinitivelyUnsent(i) \/ orders[i] = NoOrder
                   THEN NoEvent
                   ELSE [order |-> orders[i], complete |-> complete[i]]
      BY <1>1, <3>2 DEF Cycles
    <3> QED BY <3>1, <3>3 DEF NoEvent
  <2>4. CASE r = q /\ Import(q)
    <3>1. CASE cycle' = [cycle EXCEPT ![q].pc = "mark", ![q].events = IdleCycle.events]
      BY <1>1, <3>1 DEF Cycles
    <3>2. CASE cycle' = [cycle EXCEPT ![q] = IdleCycle]
      BY <1>1, <3>2
    <3> QED BY <2>4, <3>1, <3>2 DEF Import
  <2>5. CASE r = q /\ (MarkUnknown(q) \/ CycleFails(q))
    BY <1>1, <2>5 DEF MarkUnknown, CycleFails
  <2> QED BY <1>5, <2>1, <2>2, <2>3, <2>4, <2>5 DEF ImporterStep
<1>6. CASE UNCHANGED vars
  BY <1>2, <1>6 DEF vars
<1> QED BY <1>3, <1>4, <1>5, <1>6 DEF Next

\* Only an ended order settles the intent that adopts it.
LEMMA SettledByAdoption ==
  ASSUME NEW s \in IntentStates \ Settled, NEW o \in Snapshots,
         Ended(o) \/ o.filled < Qty, AdoptedState(s, o) \in Settled
  PROVE  Ended(o) /\ AdoptedState(s, o) = AckTarget(o)
BY DEF AdoptedState, AcceptedFrom, AckTarget, Settled, Ended, Snapshots, OrderStatuses,
       IntentStates

LEMMA RecordStep ==
  ASSUME IInv, RecordInv, [Next]_vars
  PROVE  RecordInv'
<1>0. SnapshotsInv /\ AdoptedInv /\ SettledIsTrue /\ TypeOK
  BY DEF RecordInv, IInv
<1>1. ASSUME NEW i \in Intents
      PROVE  /\ Ended(orders'[i]) \/ orders'[i].filled < Qty
             /\ TrueOf(orders[i], i)' /\ TrueOf(NoOrder, i)'
  <2>1. orders'[i] \in Snapshots /\ (Ended(orders'[i]) \/ orders'[i].filled < Qty)
    BY <1>0, OrdersMove
  <2>2. orders'[i].filled \in 0..Qty
    BY <2>1 DEF Snapshots
  <2> QED BY <2>1, <2>2, QtyAssumption DEF TrueOf
<1>2. ASSUME NEW i \in Intents PROVE TrueOf(stored[i], i)'
  <2>1. PICK s \in Snapshots : s = stored'[i] /\ TrueOf(s, i)
    <3>1. stored[i] \in Snapshots /\ TrueOf(stored[i], i)
      BY <1>0 DEF TypeOK, SnapshotsInv
    <3> QED BY <1>0, <3>1, StateMoves DEF Moves
  <2>2. TrueOf(s, i)'
    BY <1>0, <2>1, TrueStays
  <2> QED BY <2>1, <2>2 DEF TrueOf
<1>3. ASSUME NEW q \in Senders, call'[q].pc \in {"acked", "found"}
      PROVE  TrueOf(call[q].reply, call[q].job)'
  <2>1. PICK j \in Intents : /\ j = call[q].job /\ call'[q].job = j
                             /\ \/ call[q].pc \in {"acked", "found"} /\ call'[q].reply = call[q].reply
                                \/ call'[q].reply = orders'[j]
    BY <1>3, RepliesMove
  <2>2. CASE call[q].pc \in {"acked", "found"} /\ call'[q].reply = call[q].reply
    <3>1. PICK s \in Snapshots : s = call[q].reply /\ TrueOf(s, j)
      BY <1>0, <2>1, <2>2 DEF TypeOK, Calls, SnapshotsInv
    <3>2. TrueOf(s, j)'
      BY <1>0, <3>1, TrueStays
    <3> QED BY <2>1, <2>2, <3>1, <3>2 DEF TrueOf
  <2>3. CASE call'[q].reply = orders'[j]
    BY <1>1, <2>1, <2>3 DEF TrueOf
  <2> QED BY <2>1, <2>2, <2>3
<1>4. ASSUME NEW r \in Importers, NEW i \in Intents PROVE TrueOf(cycle[r].events[i].order, i)'
  <2>1. CASE cycle'[r].events[i].order = cycle[r].events[i].order
    <3>1. PICK s \in Snapshots : s = cycle[r].events[i].order /\ TrueOf(s, i)
      BY <1>0 DEF TypeOK, Cycles, OrderEvents, SnapshotsInv
    <3>2. TrueOf(s, i)'
      BY <1>0, <3>1, TrueStays
    <3> QED BY <2>1, <3>1, <3>2 DEF TrueOf
  <2>2. CASE \/ cycle'[r].events[i].order = orders'[i]
             \/ cycle'[r].events[i].order = NoOrder
    BY <1>1, <2>2 DEF TrueOf
  <2> QED BY <2>1, <2>2, EventsMove
<1>5. SnapshotsInv'
  BY <1>1, <1>2, <1>3, <1>4 DEF SnapshotsInv
<1> DEFINE Adopts(i, o) == /\ o # NoOrder /\ TrueOf(o, i) /\ orders[i] # NoOrder
                           /\ stored'[i] = o /\ istate'[i] = AdoptedState(istate[i], o)
<1>6. ASSUME NEW i \in Intents
      PROVE  \/ UNCHANGED <<istate[i], stored[i]>>
             \/ /\ stored[i] = NoOrder /\ stored'[i] = NoOrder
                /\ istate'[i] \in PreSend \cup Uncertain \cup {"REJECTED", "ERROR"}
             \/ \E o \in Snapshots : Adopts(i, o)
  BY <1>0, StateMoves DEF Moves, AdoptedInv, PreSend, Uncertain
<1>7. ASSUME NEW i \in Intents, orders[i] # NoOrder PROVE istate[i] \in IntentStates \ PreSend
  BY <1>0, <1>7 DEF IInv, PreSendInv, PostsInv, TypeOK
<1>8. AdoptedInv'
  <2>1. ASSUME NEW i \in Intents, NEW o \in Snapshots, Adopts(i, o)
        PROVE  stored'[i] # NoOrder /\ istate'[i] \notin PreSend \cup Uncertain
    BY <1>7, <2>1, AdoptedIs
  <2> QED BY <1>0, <1>6, <2>1 DEF AdoptedInv
<1>9. SettledIsTrue'
  <2> SUFFICES ASSUME NEW i \in Intents, istate'[i] \in Settled, stored'[i] # NoOrder
               PROVE  Ended(orders'[i]) /\ istate'[i] = AckTarget(orders'[i])
    BY DEF SettledIsTrue
  <2>1. Ended(orders[i]) => orders'[i] = orders[i]
    BY <1>0, OrdersMove
  <2>2. CASE UNCHANGED <<istate[i], stored[i]>>
    BY <1>0, <2>1, <2>2 DEF SettledIsTrue
  <2>3. ASSUME NEW o \in Snapshots, Adopts(i, o) PROVE Ended(orders[i]) /\ istate'[i] = AckTarget(orders[i])
    <3>1. istate[i] \in IntentStates \ PreSend
      BY <1>7, <2>3
    <3>2. CASE istate[i] \in Settled
      <4>1. stored[i] # NoOrder
        BY <1>0, <2>3, <3>2 DEF AdoptedInv, Settled, PreSend, Uncertain, IInv, RejectedInv
      <4>2. istate'[i] = istate[i]
        BY <2>3, <3>2 DEF AdoptedState, AcceptedFrom, Settled, Uncertain
      <4> QED BY <1>0, <3>2, <4>1, <4>2 DEF SettledIsTrue
    <3>3. CASE istate[i] \notin Settled
      <4>1. Ended(o) \/ o.filled < Qty
        BY <2>3 DEF TrueOf
      <4>2. Ended(o) /\ istate'[i] = AckTarget(o)
        BY <2>3, <3>1, <3>3, <4>1, SettledByAdoption
      <4> QED BY <2>3, <4>2 DEF TrueOf
    <3> QED BY <3>2, <3>3
  <2> HIDE DEF Adopts
  <2> QED BY <1>6, <2>1, <2>2, <2>3
<1> QED BY <1>5, <1>8, <1>9 DEF RecordInv

LEMMA RecordInit == Init => RecordInv
<1> SUFFICES ASSUME Init PROVE RecordInv
  OBVIOUS
<1>1. SnapshotsInv
  BY QtyAssumption DEF Init, SnapshotsInv, TrueOf, NoOrder, IdleCall, IdleCycle, NoEvent
<1>2. AdoptedInv /\ SettledIsTrue
  BY DEF Init, AdoptedInv, SettledIsTrue, PreSend
<1> QED BY <1>1, <1>2 DEF RecordInv

\* The store's records stay true of the broker's orders in every behaviour.
THEOREM RecordsAreTrue == Spec => []RecordInv
<1>1. IInv /\ RecordInv /\ [Next]_vars => RecordInv'
  BY RecordStep
<1> QED BY <1>1, RecordInit, InductiveInvariant, PTL DEF Spec

\* A durable settled state is what the broker's order really came to, however late and out
\* of order acknowledgements and polls were applied.
THEOREM SettlementIsTrue == Spec => []SettledIsTrue
<1>1. RecordInv => SettledIsTrue
  BY DEF RecordInv
<1> QED BY <1>1, RecordsAreTrue, PTL

\* No order at the broker is hidden: recovery asks for it, the store has it, or an operator
\* was called.
THEOREM NoOrderIsOrphaned == Spec => []NoOrphanOrder
<1>1. IInv /\ RecordInv => NoOrphanOrder
  <2> SUFFICES ASSUME IInv, RecordInv, NEW i \in Intents, orders[i] # NoOrder, stored[i] = NoOrder
               PROVE  istate[i] \in Uncertain \/ (istate[i] = "ERROR" /\ "refused" \notin marks[i])
    BY DEF NoOrphanOrder
  <2>1. istate[i] \in PreSend \cup Uncertain \cup {"REJECTED", "ERROR"}
    BY DEF RecordInv, AdoptedInv
  <2>2. posts[i] \in Nat /\ posts[i] >= 1
    BY DEF IInv, PostsInv, TypeOK
  <2> QED BY <2>1, <2>2 DEF IInv, PreSendInv, RejectedInv, RefusedInv
<1> QED BY <1>1, InductiveInvariant, RecordsAreTrue, PTL

\* Whatever order acknowledgements and polls arrive in, recorded fills only grow.
THEOREM FillsOnlyGrow == Spec => FillsNeverRegress
<1>1. IInv /\ RecordInv /\ [Next]_vars =>
        [\A i \in Intents : stored[i].filled <= stored'[i].filled]_vars
  <2> SUFFICES ASSUME IInv, RecordInv, [Next]_vars, NEW i \in Intents
               PROVE  stored[i].filled <= stored'[i].filled
    OBVIOUS
  <2>1. stored[i] \in Snapshots
    BY DEF IInv, TypeOK
  <2>2. stored[i].filled \in Nat
    BY <2>1, QtyAssumption DEF Snapshots
  <2>3. stored'[i] = stored[i] \/ \E o \in Snapshots : stored'[i] = o /\ o.filled >= stored[i].filled
    BY StateMoves DEF RecordInv, Moves
  <2>4. ASSUME NEW o \in Snapshots, stored'[i] = o, o.filled >= stored[i].filled
        PROVE  stored[i].filled <= stored'[i].filled
    BY <2>2, <2>4, QtyAssumption DEF Snapshots
  <2> QED BY <2>2, <2>3, <2>4
<1> QED BY <1>1, InductiveInvariant, RecordsAreTrue, PTL DEF Spec, FillsNeverRegress
-----------------------------------------------------------------------------
(* Refinement of the outbox.                                               *)

\* The view of an intent keeps its type, and depends only on its own records.
LEMMA PhaseIs ==
  ASSUME NEW i \in Intents
  PROVE  /\ Phase(i) \in {"held", "sent", "void"}
         /\ UNCHANGED <<istate[i], stored[i], marks[i]>> => Phase(i)' = Phase(i)
BY DEF Phase, DefinitivelyUnsent

\* An intent with an order is sent.
LEMMA OrderedIsSent ==
  ASSUME IInv, NEW i \in Intents, orders[i] # NoOrder
  PROVE  Phase(i) = "sent"
<1>1. ~DefinitivelyUnsent(i)
  BY IInvSafe DEF UnsentForGood
<1>2. posts[i] \in Nat /\ posts[i] >= 1
  BY DEF IInv, PostsInv, TypeOK
<1> QED BY <1>1, <1>2 DEF Phase, IInv, PreSendInv

\* The same of the next state.
LEMMA OrderedIsSentNext ==
  ASSUME IInv', NEW i \in Intents, orders'[i] # NoOrder
  PROVE  Phase(i)' = "sent"
<1>1. ~DefinitivelyUnsent(i)'
  BY DEF DefinitivelyUnsent, IInv, RefusedInv, RejectedInv, PostsInv
<1>2. posts'[i] \in Nat /\ posts'[i] >= 1
  BY DEF IInv, PostsInv, TypeOK
<1> QED BY <1>1, <1>2 DEF Phase, IInv, PreSendInv

\* A release is never taken back, and a possible send never forgotten.
LEMMA PhaseMoves ==
  ASSUME IInv, RecordInv, [Next]_vars, NEW i \in Intents
  PROVE  /\ Phase(i) = "void" => Phase(i)' = "void"
         /\ Phase(i) = "sent" => Phase(i)' # "held"
<1>1. Moves(i) /\ marks[i] \subseteq marks'[i]
  BY StateMoves DEF RecordInv
<1>2. ASSUME Phase(i) = "void" PROVE Phase(i)' = "void"
  <2>1. DefinitivelyUnsent(i)
    BY <1>2 DEF Phase
  <2>2. orders[i] = NoOrder /\ istate[i] \in {"ERROR", "REJECTED"}
    BY <2>1, IInvSafe DEF UnsentForGood, DefinitivelyUnsent
  <2>3. stored'[i] = stored[i] /\ istate'[i] = istate[i]
    BY <1>1, <2>2 DEF Moves, PreSend, Uncertain
  <2>4. DefinitivelyUnsent(i)'
    BY <1>1, <2>1, <2>3 DEF DefinitivelyUnsent
  <2> QED BY <2>4 DEF Phase
<1>3. ASSUME Phase(i) = "sent" PROVE Phase(i)' # "held"
  <2>1. istate[i] \in IntentStates \ PreSend
    BY <1>3 DEF Phase, IInv, TypeOK
  <2>2. istate'[i] \notin PreSend
    BY <1>1, <2>1, AdoptedIs DEF Moves, PreSend
  <2> QED BY <2>2 DEF Phase
<1> QED BY <1>2, <1>3

\* A call changes the records of its own intent only, and no order.
LEMMA SenderMovesOne ==
  ASSUME TypeOK, NEW p \in Senders, SenderStep(p) \/ Crash(p)
  PROVE  /\ UNCHANGED orders
         /\ \A i \in Intents \ {call[p].job} : UNCHANGED <<istate[i], stored[i], marks[i]>>
<1>1. UNCHANGED orders
  BY ZenonT(60)
  DEF SenderStep, Crash, Begin, Claim, Reread, SendAllowed, SendRefused, SendConflict, Post,
      PostWithheld, NoteNotAttempted, Timeout, Adopt, OnDenied, OnUncertain, OnGarbled, Lookup,
      OnAbsent, OnUnrecovered, outside
<1>2. UNCHANGED istate \/ \E s : Set(call[p].job, s)
  BY ZenonT(60)
  DEF SenderStep, Crash, Begin, Claim, Reread, SendAllowed, SendRefused, SendConflict, Post,
      PostWithheld, NoteNotAttempted, Timeout, Adopt, OnDenied, OnUncertain, OnGarbled, Lookup,
      OnAbsent, OnUnrecovered, Cas, Refuse, durable
<1>3. UNCHANGED stored \/ \E o : stored' = [stored EXCEPT ![call[p].job] = o]
  BY ZenonT(60)
  DEF SenderStep, Crash, Begin, Claim, Reread, SendAllowed, SendRefused, SendConflict, Post,
      PostWithheld, NoteNotAttempted, Timeout, Adopt, OnDenied, OnUncertain, OnGarbled, Lookup,
      OnAbsent, OnUnrecovered, durable
<1>4. UNCHANGED marks \/ \E m : marks' = [marks EXCEPT ![call[p].job] = m]
  BY ZenonT(60)
  DEF SenderStep, Crash, Begin, Claim, Reread, SendAllowed, SendRefused, SendConflict, Post,
      PostWithheld, NoteNotAttempted, Timeout, Adopt, OnDenied, OnUncertain, OnGarbled, Lookup,
      OnAbsent, OnUnrecovered, Refuse, durable
<1> QED BY <1>1, <1>2, <1>3, <1>4 DEF TypeOK, Set

\* An importer's batch shows the outbox nothing: it moves possibly sent intents only.
LEMMA ImporterHidden ==
  ASSUME IInv, IInv', RecordInv, NEW r \in Importers, ImporterStep(r) \/ CycleFails(r)
  PROVE  UNCHANGED orders /\ \A i \in Intents : Phase(i)' = Phase(i)
<1>1. UNCHANGED orders
  BY DEF ImporterStep, CycleFails, ReadIntents, PollOrders, Import, MarkUnknown, outside
<1>2. ASSUME UNCHANGED <<istate, stored, marks>>, NEW i \in Intents PROVE Phase(i)' = Phase(i)
  BY <1>2, PhaseIs
<1>3. ASSUME Import(r), NEW i \in Intents PROVE Phase(i)' = Phase(i)
  <2>1. CASE orders[i] # NoOrder
    BY <1>1, <2>1, OrderedIsSent, OrderedIsSentNext
  <2>2. CASE orders[i] = NoOrder
    <3>1. cycle[r].events[i].order = NoOrder
      BY <2>2 DEF IInv, EvidenceInv
    <3>2. UNCHANGED <<istate[i], stored[i], marks[i]>>
      BY <1>3, <3>1 DEF Import
    <3> QED BY <3>2, PhaseIs
  <2> QED BY <2>1, <2>2
<1>4. ASSUME MarkUnknown(r), NEW i \in Intents PROVE Phase(i)' = Phase(i)
  <2>1. UNCHANGED <<stored, marks>>
    BY <1>4 DEF MarkUnknown
  <2>2. \/ istate'[i] = istate[i]
        \/ istate[i] = "SUBMITTING" /\ istate'[i] = "SUBMISSION_UNKNOWN"
    BY <1>4 DEF MarkUnknown
  <2> QED BY <2>1, <2>2 DEF Phase, DefinitivelyUnsent, PreSend
<1>5. CASE ReadIntents(r) \/ PollOrders(r) \/ CycleFails(r)
  BY <1>1, <1>2, <1>5 DEF ReadIntents, PollOrders, CycleFails, durable
<1> QED BY <1>1, <1>3, <1>4, <1>5 DEF ImporterStep

\* A step shows the outbox at most one intent: its records move, or its order appears.
LEMMA OneIntentMoves ==
  ASSUME IInv, IInv', RecordInv, [Next]_vars
  PROVE  \/ /\ UNCHANGED orders
            /\ \E j : \A i \in Intents \ {j} : Phase(i)' = Phase(i)
         \/ /\ \A i \in Intents : Phase(i)' = Phase(i)
            /\ \E j \in Intents : \A i \in Intents \ {j} : orders'[i] = orders[i]
<1>0. TypeOK
  BY DEF IInv
<1>1. ASSUME NEW p \in Senders, SenderStep(p) \/ Crash(p)
      PROVE  UNCHANGED orders /\ \E j : \A i \in Intents \ {j} : Phase(i)' = Phase(i)
  <2>1. \A i \in Intents \ {call[p].job} : Phase(i)' = Phase(i)
    BY <1>0, <1>1, SenderMovesOne, PhaseIs
  <2> QED BY <1>0, <1>1, <2>1, SenderMovesOne
<1>2. ASSUME NEW k \in Intents, Expire(k) \/ Retire(k)
      PROVE  UNCHANGED orders /\ \E j : \A i \in Intents \ {j} : Phase(i)' = Phase(i)
  <2>1. UNCHANGED <<orders, stored>>
    BY <1>2 DEF Expire, Retire, outside, durable
  <2>2. \A i \in Intents \ {k} : UNCHANGED <<istate[i], marks[i]>>
    BY <1>0, <1>2 DEF Expire, Retire, Refuse, Set, durable, TypeOK
  <2>3. \A i \in Intents \ {k} : Phase(i)' = Phase(i)
    BY <2>1, <2>2, PhaseIs
  <2> QED BY <2>1, <2>3
<1>3. ASSUME NEW k \in Intents, BrokerStep(k)
      PROVE  /\ \A i \in Intents : Phase(i)' = Phase(i)
             /\ \E j \in Intents : \A i \in Intents \ {j} : orders'[i] = orders[i]
  <2>1. UNCHANGED <<istate, stored, marks>>
    BY <1>3 DEF BrokerStep, BrokerAccept, BrokerDeny, BrokerFill, BrokerEnd, durable
  <2>2. \A i \in Intents : Phase(i)' = Phase(i)
    BY <2>1, PhaseIs
  <2>3. \A i \in Intents \ {k} : orders'[i] = orders[i]
    BY <1>0, <1>3 DEF BrokerStep, BrokerAccept, BrokerDeny, BrokerFill, BrokerEnd, TypeOK
  <2> QED BY <2>2, <2>3
<1>4. ASSUME NEW r \in Importers, ImporterStep(r) \/ CycleFails(r)
      PROVE  UNCHANGED orders /\ \E j : \A i \in Intents \ {j} : Phase(i)' = Phase(i)
  BY <1>4, ImporterHidden
<1>5. CASE UNCHANGED vars
  <2>1. UNCHANGED <<istate, stored, marks, orders>>
    BY <1>5 DEF vars, durable, outside
  <2>2. \A i \in Intents : Phase(i)' = Phase(i)
    BY <2>1, PhaseIs
  <2> QED BY <2>1, <2>2
<1> QED BY <1>1, <1>2, <1>3, <1>4, <1>5 DEF Next

\* Every initial state shows the outbox its initial state.
LEMMA PromiseInit == Init => Promise!Init
BY DEF Init, Promise!Init, Phase, DefinitivelyUnsent, PreSend

\* Every step is one of the outbox or invisible to it.
LEMMA PromiseStep ==
  ASSUME IInv, IInv', RecordInv, [Next]_vars
  PROVE  [Promise!Next]_<<[i \in Intents |-> Phase(i)], {i \in Intents : orders[i] # NoOrder}>>
<1> DEFINE phase == [i \in Intents |-> Phase(i)]
           ordered == {i \in Intents : orders[i] # NoOrder}
<1>1. \A i \in Intents : phase[i] = Phase(i) /\ phase'[i] = Phase(i)'
  OBVIOUS
<1>2. CASE /\ UNCHANGED orders
           /\ \E j : \A i \in Intents \ {j} : Phase(i)' = Phase(i)
  <2>1. PICK j : \A i \in Intents \ {j} : Phase(i)' = Phase(i)
    BY <1>2
  <2>2. UNCHANGED ordered
    BY <1>2
  <2>3. CASE \A i \in Intents : Phase(i)' = Phase(i)
    <3>1. UNCHANGED phase
      BY <2>3
    <3> QED BY <2>2, <3>1
  <2>4. CASE ~ \A i \in Intents : Phase(i)' = Phase(i)
    <3>1. j \in Intents /\ Phase(j)' # Phase(j)
      BY <2>1, <2>4
    <3>2. phase' = [phase EXCEPT ![j] = Phase(j)']
      <4>1. PICK v : v = Phase(j)'
        OBVIOUS
      <4>2. phase' = [i \in Intents |-> IF i = j THEN v ELSE Phase(i)]
        BY <2>1, <4>1
      <4>3. [phase EXCEPT ![j] = v] = [i \in Intents |-> IF i = j THEN v ELSE Phase(i)]
        BY <3>1, Zenon
      <4> QED BY <4>1, <4>2, <4>3
    <3>3. Phase(j) \in {"held", "sent", "void"} /\ Phase(j)' \in {"held", "sent", "void"}
      BY <3>1 DEF Phase
    <3>4. CASE Phase(j) = "held" /\ Phase(j)' = "sent"
      BY <2>2, <3>1, <3>2, <3>4 DEF Promise!Next, Promise!Send
    <3>5. CASE Phase(j) \in {"held", "sent"} /\ Phase(j)' = "void"
      <4>1. j \notin ordered
        BY <1>2, <3>1, <3>5, OrderedIsSentNext
      <4> QED BY <2>2, <3>1, <3>2, <3>5, <4>1 DEF Promise!Next, Promise!Void
    <3> QED BY <3>1, <3>3, <3>4, <3>5, PhaseMoves
  <2> QED BY <2>3, <2>4
<1>3. CASE /\ \A i \in Intents : Phase(i)' = Phase(i)
           /\ \E j \in Intents : \A i \in Intents \ {j} : orders'[i] = orders[i]
  <2>1. PICK j \in Intents : \A i \in Intents \ {j} : orders'[i] = orders[i]
    BY <1>3
  <2>2. UNCHANGED phase
    BY <1>3
  <2>3. CASE (orders[j] # NoOrder) = (orders'[j] # NoOrder)
    <3>1. UNCHANGED ordered
      BY <2>1, <2>3
    <3> QED BY <2>2, <3>1
  <2>4. CASE orders[j] = NoOrder /\ orders'[j] # NoOrder
    <3>1. Phase(j) = "sent"
      BY <1>3, <2>4, OrderedIsSentNext
    <3>2. j \notin ordered /\ ordered' = ordered \cup {j}
      BY <2>1, <2>4
    <3> QED BY <2>2, <3>1, <3>2 DEF Promise!Next, Promise!Appear
  <2>5. orders[j] # NoOrder => orders'[j] # NoOrder
    BY OrdersMove DEF RecordInv
  <2> QED BY <2>3, <2>4, <2>5
<1> QED BY <1>2, <1>3, OneIntentMoves

\* The submission protocol implements the outbox: no order without a possible send, none
\* after a release, and no release taken back, whatever senders, importers and crashes do.
THEOREM OutboxIsImplemented == Spec => ImplementsOutbox
<1>1. IInv /\ IInv' /\ RecordInv /\ [Next]_vars
        => [Promise!Next]_<<[i \in Intents |-> Phase(i)], {i \in Intents : orders[i] # NoOrder}>>
  BY PromiseStep
<1> QED BY <1>1, PromiseInit, InductiveInvariant, RecordsAreTrue, PTL
        DEF Spec, ImplementsOutbox, Promise!Spec
=============================================================================
