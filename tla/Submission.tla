------------------------------ MODULE Submission -----------------------------
(***************************************************************************)
(* One order intent from its durable claim to its broker order: the outbox  *)
(* of CoreExecutionCoordinator (paper_core/runtime.py over                  *)
(* execution/coordinator.py), the refusal latch of paper_core/send_guard.py,*)
(* and the event importer of paper_core/outcomes.py that every role runs.   *)
(*                                                                         *)
(* Senders are calls of submit_durable; importers are calls of              *)
(* recover_intents.  A step is what happens between two awaits or inside    *)
(* one writer transaction.  A crash loses a call's local variables, never   *)
(* the durable ones nor a POST already on the wire.                         *)
(***************************************************************************)
EXTENDS Lifecycle, FiniteSets

CONSTANTS
  Intents,      \* order intents, each with one immutable client order id
  NoIntent,     \* the job of an idle sender
  Senders,      \* concurrent or successive calls of submit_durable
  Importers,    \* roles running recover_intents
  MaxRetries,   \* SubmissionPolicy.max_not_found_retries (0 in the core)
  MayGarble     \* can the broker acknowledge with terms that do not match?

ASSUME MaxRetriesAssumption == MaxRetries \in Nat
ASSUME NoIntentAssumption == NoIntent \notin Intents
ASSUME MayGarbleAssumption == MayGarble \in BOOLEAN

VARIABLES
  \* durable, in the shared SQLite store
  istate,       \* order_intents.state
  stored,       \* broker_orders row of the intent, NoOrder when there is none
  marks,        \* proofs that no POST was attempted, as order events
  sources,      \* imported order events: what core_broker_event_sources holds
  expired,      \* the decision's or the plan's lifetime has passed
  \* outside: the network and the broker
  wire,         \* numbers of the POST requests still on their way
  posts,        \* how many POSTs were ever issued for the intent
  orders,       \* the broker's own order for the client order id
  \* volatile
  call,         \* per sender
  cycle         \* per importer

durable == <<istate, stored, marks, sources>>
outside == <<wire, posts, orders>>
vars == <<durable, expired, outside, call, cycle>>

CallPoints ==
  {"idle", "begin", "gate", "post", "wait",           \* on the way to an answer
   "acked", "denied", "uncertain", "garbled", "note", \* the answer being applied
   "lookup", "found", "absent",                       \* the loop's lookup
   "recover", "unrecovered"}                          \* recovery of an earlier send

Calls == [pc : CallPoints, job : Intents \cup {NoIntent}, seen : IntentStates,
          tries : Nat, req : Nat, reply : Snapshots]
IdleCall == [pc |-> "idle", job |-> NoIntent, seen |-> "RISK_APPROVED",
             tries |-> 0, req |-> 0, reply |-> NoOrder]

\* One order event: the polled order and whether its activities were complete.
OrderEvents == [order : Snapshots, complete : BOOLEAN]
NoEvent == [order |-> NoOrder, complete |-> FALSE]

Cycles == [pc : {"idle", "poll", "import", "mark"},
           seen : [Intents -> IntentStates],
           events : [Intents -> OrderEvents]]
IdleCycle == [pc |-> "idle", seen |-> [i \in Intents |-> "RISK_APPROVED"],
              events |-> [i \in Intents |-> NoEvent]]

Marks == {"refused", "not_attempted"}

TypeOK ==
  /\ istate \in [Intents -> IntentStates]
  /\ stored \in [Intents -> Snapshots]
  /\ marks \in [Intents -> SUBSET Marks]
  /\ sources \in [Intents -> SUBSET OrderEvents]
  /\ expired \in [Intents -> BOOLEAN]
  /\ wire \in [Intents -> SUBSET Nat]
  /\ posts \in [Intents -> Nat]
  /\ orders \in [Intents -> Snapshots]
  /\ call \in [Senders -> Calls]
  /\ cycle \in [Importers -> Cycles]

\* Claims are durable as RISK_APPROVED before anything is sent.
Init ==
  /\ istate = [i \in Intents |-> "RISK_APPROVED"]
  /\ stored = [i \in Intents |-> NoOrder]
  /\ marks = [i \in Intents |-> {}]
  /\ sources = [i \in Intents |-> {}]
  /\ expired = [i \in Intents |-> FALSE]
  /\ wire = [i \in Intents |-> {}]
  /\ posts = [i \in Intents |-> 0]
  /\ orders = [i \in Intents |-> NoOrder]
  /\ call = [p \in Senders |-> IdleCall]
  /\ cycle = [r \in Importers |-> IdleCycle]

-----------------------------------------------------------------------------
(* Helpers.                                                                *)

\* The call moves on, or ends (returns or raises).
Goto(p, point) == call' = [call EXCEPT ![p].pc = point]
Stop(p) == call' = [call EXCEPT ![p] = IdleCall]

\* transition_order_intent: compare-and-set on the durable state.
Set(i, to) == istate' = [istate EXCEPT ![i] = to]

\* The compare-and-set of a call: it moves on to point, or a conflict ends it.
Cas(p, i, from, to, point) ==
  \/ istate[i] = from /\ Set(i, to) /\ Goto(p, point)
  \/ istate[i] # from /\ UNCHANGED istate /\ Stop(p)

\* settlement.definitively_unsent: the only proof that releases a reservation.
DefinitivelyUnsent(i) ==
  /\ stored[i] = NoOrder
  /\ \/ istate[i] = "ERROR" /\ "refused" \in marks[i]
     \/ istate[i] = "REJECTED" /\ "not_attempted" \in marks[i]

\* record_pre_send_refusal, in the transaction that also sets ERROR.
Refuse(i) ==
  /\ Set(i, "ERROR")
  /\ marks' = [marks EXCEPT ![i] = IF stored[i] = NoOrder THEN @ \cup {"refused"} ELSE @]

\* Variant: the filled quantity of a stale snapshot is not compared.
CanAdoptAnyFill(i, o) == AdoptionAllowed(istate[i], o)

\* outcomes._adopt accepts a snapshot unless the filled quantity regressed
\* or the lifecycle forbids the move.
CanAdopt(i, o) ==
  /\ o.filled >= stored[i].filled
  /\ AdoptionAllowed(istate[i], o)

-----------------------------------------------------------------------------
(* Senders: submit_durable up to the POST.                                 *)

Begin(p, i) ==
  /\ call[p].pc = "idle"
  /\ istate[i] \in PreSend \cup Uncertain
  /\ call' = [call EXCEPT ![p] =
                [IdleCall EXCEPT !.pc = IF istate[i] \in PreSend THEN "begin" ELSE "recover",
                                 !.job = i, !.seen = istate[i]]]
  /\ UNCHANGED <<durable, expired, outside, cycle>>

\* RISK_APPROVED is first moved to ORDER_CREATED; the state is then read again.
Claim(p) ==
  LET i == call[p].job IN
  /\ call[p].pc = "begin"
  /\ call[p].seen = "RISK_APPROVED"
  /\ \/ /\ istate[i] = "RISK_APPROVED"
        /\ Set(i, "ORDER_CREATED")
        /\ call' = [call EXCEPT ![p].seen = "ORDER_CREATED"]
     \/ istate[i] # "RISK_APPROVED" /\ UNCHANGED istate /\ Stop(p)
  /\ UNCHANGED <<stored, marks, sources, expired, outside, cycle>>

Reread(p) ==
  LET i == call[p].job IN
  /\ call[p].pc = "begin"
  /\ call[p].seen = "ORDER_CREATED"
  /\ \/ istate[i] = "ORDER_CREATED" /\ Goto(p, "gate")
     \/ /\ istate[i] \in Uncertain
        /\ call' = [call EXCEPT ![p].pc = "recover", ![p].seen = istate[i]]
     \/ istate[i] \notin {"ORDER_CREATED"} \cup Uncertain /\ Stop(p)
  /\ UNCHANGED <<durable, expired, outside, cycle>>

\* Variant: the send state is set without comparing the current one.
SendWithoutCompare(p) ==
  LET i == call[p].job IN
  /\ call[p].pc = "gate"
  /\ ~expired[i]
  /\ Set(i, "SUBMITTING")
  /\ Goto(p, "post")
  /\ UNCHANGED <<stored, marks, sources, expired, outside, cycle>>

\* The send fence: authority check and ORDER_CREATED -> SUBMITTING in one
\* writer transaction, after the last await before the POST.
SendAllowed(p) ==
  LET i == call[p].job IN
  /\ call[p].pc = "gate"
  /\ istate[i] = "ORDER_CREATED"
  /\ ~expired[i]
  /\ "refused" \notin marks[i]
  /\ Set(i, "SUBMITTING")
  /\ Goto(p, "post")
  /\ UNCHANGED <<stored, marks, sources, expired, outside, cycle>>

\* Any gate, lease, health, kill-switch or lifetime objection: latch and ERROR.
SendRefused(p) ==
  LET i == call[p].job IN
  /\ call[p].pc = "gate"
  /\ istate[i] = "ORDER_CREATED"
  /\ Refuse(i)
  /\ Stop(p)
  /\ UNCHANGED <<stored, sources, expired, outside, cycle>>

\* Another process moved the intent first: the transaction rolls back.
SendConflict(p) ==
  /\ call[p].pc = "gate"
  /\ istate[call[p].job] # "ORDER_CREATED"
  /\ Stop(p)
  /\ UNCHANGED <<durable, expired, outside, cycle>>

Post(p) ==
  LET i == call[p].job
      n == posts[i] + 1 IN
  /\ call[p].pc = "post"
  /\ posts' = [posts EXCEPT ![i] = n]
  /\ wire' = [wire EXCEPT ![i] = @ \cup {n}]
  /\ call' = [call EXCEPT ![p].pc = "wait", ![p].req = n]
  /\ UNCHANGED <<durable, expired, orders, cycle>>

\* The request budget refuses before any I/O (LocalRequestBudgetRefusal, 429):
\* on the first attempt a rejection that the call will note as never attempted.
PostWithheld(p) ==
  LET i == call[p].job IN
  /\ call[p].pc = "post"
  /\ \/ call[p].tries = 0 /\ Cas(p, i, "SUBMITTING", "REJECTED", "note")
     \/ call[p].tries > 0 /\ Cas(p, i, "SUBMITTING", "SUBMISSION_UNKNOWN", "lookup")
  /\ UNCHANGED <<stored, marks, sources, expired, outside, cycle>>

\* A separate transaction records CORE_LOCAL_SEND_NOT_ATTEMPTED.
NoteNotAttempted(p) ==
  LET i == call[p].job IN
  /\ call[p].pc = "note"
  /\ marks' = [marks EXCEPT ![i] =
                 IF istate[i] = "REJECTED" /\ stored[i] = NoOrder
                   THEN @ \cup {"not_attempted"} ELSE @]
  /\ Stop(p)
  /\ UNCHANGED <<istate, stored, sources, expired, outside, cycle>>

-----------------------------------------------------------------------------
(* Senders: the answer, the same-identity lookup, the bounded retry.       *)

\* No usable answer (timeout, transport error, 5xx): the adapter looks the
\* client order id up once itself, without learning that no order will come.
Timeout(p) ==
  LET o == orders[call[p].job] IN
  /\ call[p].pc = "wait"
  /\ \/ o # NoOrder /\ call' = [call EXCEPT ![p].pc = "acked", ![p].reply = o]
     \/ Goto(p, "uncertain")
     \/ MayGarble /\ o # NoOrder /\ Goto(p, "garbled")
  /\ UNCHANGED <<durable, expired, outside, cycle>>

\* Variant: the cumulative filled quantity is added up like a fill.
AdoptAsDelta(p) ==
  LET i == call[p].job
      o == [call[p].reply EXCEPT !.filled = @ + stored[i].filled] IN
  /\ call[p].pc \in {"acked", "found"}
  /\ stored' = [stored EXCEPT ![i] = o]
  /\ Set(i, AdoptedState(istate[i], call[p].reply))
  /\ Stop(p)
  /\ UNCHANGED <<marks, sources, expired, outside, cycle>>

\* Adoption of the acknowledgement or of an order found by lookup, against the
\* state the intent has by now; a conflict leaves everything to the importers.
Adopt(p) ==
  LET i == call[p].job
      o == call[p].reply IN
  /\ call[p].pc \in {"acked", "found"}
  /\ IF CanAdopt(i, o)
       THEN /\ stored' = [stored EXCEPT ![i] = o]
            /\ Set(i, AdoptedState(istate[i], o))
       ELSE UNCHANGED <<stored, istate>>
  /\ Stop(p)
  /\ UNCHANGED <<marks, sources, expired, outside, cycle>>

\* Variant: every 4xx answer is a rejection, also of a retry.
OnDeniedAlways(p) ==
  /\ call[p].pc = "denied"
  /\ Cas(p, call[p].job, "SUBMITTING", "REJECTED", "idle")
  /\ UNCHANGED <<stored, marks, sources, expired, outside, cycle>>

\* A 4xx answer is a rejection only for the first attempt: a retry may be
\* refused as a duplicate of the attempt that did arrive.
OnDenied(p) ==
  LET i == call[p].job IN
  /\ call[p].pc = "denied"
  /\ IF call[p].tries = 0
       THEN Cas(p, i, "SUBMITTING", "REJECTED", "idle")
       ELSE Cas(p, i, "SUBMITTING", "SUBMISSION_UNKNOWN", "lookup")
  /\ UNCHANGED <<stored, marks, sources, expired, outside, cycle>>

\* Variant: no answer is taken for a rejection.
OnUncertainRejects(p) ==
  /\ call[p].pc = "uncertain"
  /\ Cas(p, call[p].job, "SUBMITTING", "REJECTED", "idle")
  /\ UNCHANGED <<stored, marks, sources, expired, outside, cycle>>

OnUncertain(p) ==
  /\ call[p].pc = "uncertain"
  /\ Cas(p, call[p].job, "SUBMITTING", "SUBMISSION_UNKNOWN", "lookup")
  /\ UNCHANGED <<stored, marks, sources, expired, outside, cycle>>

OnGarbled(p) ==
  LET i == call[p].job IN
  /\ call[p].pc = "garbled"
  /\ IF istate[i] = "SUBMITTING" THEN Set(i, "ERROR") ELSE UNCHANGED istate
  /\ Stop(p)
  /\ UNCHANGED <<stored, marks, sources, expired, outside, cycle>>

\* get_order_by_client_id from the retry loop or from recovery: found, not
\* found (the POST may still be on the wire), or failed.
Lookup(p) ==
  LET o == orders[call[p].job] IN
  /\ call[p].pc \in {"lookup", "recover"}
  /\ \/ o # NoOrder /\ call' = [call EXCEPT ![p].pc = "found", ![p].reply = o]
     \/ Goto(p, IF call[p].pc = "lookup" THEN "absent" ELSE "unrecovered")
     \/ Stop(p)
  /\ UNCHANGED <<durable, expired, outside, cycle>>

\* Not found: retry the same client order id, or give up as uncertain.
OnAbsent(p) ==
  LET i == call[p].job IN
  /\ call[p].pc = "absent"
  /\ \/ call[p].tries >= MaxRetries /\ UNCHANGED istate /\ Stop(p)
     \/ /\ call[p].tries < MaxRetries
        /\ istate[i] = "SUBMISSION_UNKNOWN"
        /\ Set(i, "SUBMITTING")
        /\ call' = [call EXCEPT ![p].pc = "post", ![p].tries = @ + 1]
     \/ /\ call[p].tries < MaxRetries
        /\ istate[i] # "SUBMISSION_UNKNOWN"
        /\ UNCHANGED istate
        /\ Stop(p)
  /\ UNCHANGED <<stored, marks, sources, expired, outside, cycle>>

\* Variant: recovery sends again when the lookup finds nothing.
OnUnrecoveredResends(p) ==
  LET i == call[p].job IN
  /\ call[p].pc = "unrecovered"
  /\ IF istate[i] \in Uncertain
       THEN Set(i, "SUBMITTING") /\ Goto(p, "post")
       ELSE UNCHANGED istate /\ Stop(p)
  /\ UNCHANGED <<stored, marks, sources, expired, outside, cycle>>

\* Recovery of an earlier send never POSTs: not found only means unknown.
OnUnrecovered(p) ==
  LET i == call[p].job IN
  /\ call[p].pc = "unrecovered"
  /\ IF call[p].seen = "SUBMITTING" /\ istate[i] = "SUBMITTING"
       THEN Set(i, "SUBMISSION_UNKNOWN") ELSE UNCHANGED istate
  /\ Stop(p)
  /\ UNCHANGED <<stored, marks, sources, expired, outside, cycle>>

Crash(p) ==
  /\ call[p].pc # "idle"
  /\ Stop(p)
  /\ UNCHANGED <<durable, expired, outside, cycle>>

-----------------------------------------------------------------------------
(* Retirement of entries whose lifetime passed before any send.            *)

Expire(i) ==
  /\ ~expired[i]
  /\ expired' = [expired EXCEPT ![i] = TRUE]
  /\ UNCHANGED <<durable, outside, call, cycle>>

\* Variant: a send whose outcome is unknown is retired too.
RetireUncertain(i) ==
  /\ istate[i] \in PreSend \cup Uncertain
  /\ stored[i] = NoOrder
  /\ expired[i]
  /\ Refuse(i)
  /\ UNCHANGED <<stored, sources, expired, outside, call, cycle>>

Retire(i) ==
  /\ istate[i] \in PreSend
  /\ stored[i] = NoOrder
  /\ expired[i]
  /\ Refuse(i)
  /\ UNCHANGED <<stored, sources, expired, outside, call, cycle>>

-----------------------------------------------------------------------------
(* Importers: recover_intents.                                             *)

ReadIntents(r) ==
  /\ cycle[r].pc = "idle"
  /\ cycle' = [cycle EXCEPT ![r].pc = "poll", ![r].seen = istate]
  /\ UNCHANGED <<durable, expired, outside, call>>

\* Variant: only orders that are already stored are polled.
PollKnownOrders(r) ==
  /\ cycle[r].pc = "poll"
  /\ cycle' = [cycle EXCEPT
       ![r].pc = "import",
       ![r].events = [i \in Intents |->
          IF stored[i] = NoOrder THEN NoEvent ELSE [order |-> orders[i], complete |-> TRUE]]]
  /\ UNCHANGED <<durable, expired, outside, call>>

\* Bulk order reads; intents that cannot have an order are left out.
PollOrders(r) ==
  /\ cycle[r].pc = "poll"
  /\ \E complete \in [Intents -> BOOLEAN] :
       cycle' = [cycle EXCEPT
         ![r].pc = "import",
         ![r].events = [i \in Intents |->
            IF istate[i] \in PreSend \/ DefinitivelyUnsent(i) \/ orders[i] = NoOrder
              THEN NoEvent
              ELSE [order |-> orders[i], complete |-> complete[i]]]]
  /\ UNCHANGED <<durable, expired, outside, call>>

\* import_broker_events: one transaction.  An event already imported is skipped;
\* one that cannot be adopted rolls the whole batch back and ends the cycle.
Import(r) ==
  LET fresh == {i \in Intents : /\ cycle[r].events[i].order # NoOrder
                                /\ cycle[r].events[i] \notin sources[i]}
      order(i) == cycle[r].events[i].order
  IN
  /\ cycle[r].pc = "import"
  /\ \/ /\ \A i \in fresh : CanAdopt(i, order(i))
        /\ istate' = [i \in Intents |->
             IF i \in fresh THEN AdoptedState(istate[i], order(i)) ELSE istate[i]]
        /\ stored' = [i \in Intents |-> IF i \in fresh THEN order(i) ELSE stored[i]]
        /\ sources' = [i \in Intents |->
             IF i \in fresh THEN sources[i] \cup {cycle[r].events[i]} ELSE sources[i]]
        /\ cycle' = [cycle EXCEPT ![r].pc = "mark", ![r].events = IdleCycle.events]
     \/ /\ \E i \in fresh : ~CanAdopt(i, order(i))
        /\ cycle' = [cycle EXCEPT ![r] = IdleCycle]
        /\ UNCHANGED <<istate, stored, sources>>
  /\ UNCHANGED <<marks, expired, outside, call>>

\* Sends without an order become unknown, by the states read at the start.
MarkUnknown(r) ==
  LET lost == {i \in Intents : stored[i] = NoOrder /\ cycle[r].seen[i] = "SUBMITTING"} IN
  /\ cycle[r].pc = "mark"
  /\ istate' = IF \A i \in lost : istate[i] = "SUBMITTING"
                 THEN [i \in Intents |-> IF i \in lost THEN "SUBMISSION_UNKNOWN" ELSE istate[i]]
                 ELSE istate
  /\ cycle' = [cycle EXCEPT ![r] = IdleCycle]
  /\ UNCHANGED <<stored, marks, sources, expired, outside, call>>

\* A read times out, the store is busy, or the role restarts mid-cycle.
CycleFails(r) ==
  /\ cycle[r].pc # "idle"
  /\ cycle' = [cycle EXCEPT ![r] = IdleCycle]
  /\ UNCHANGED <<durable, expired, outside, call>>

-----------------------------------------------------------------------------
(* The broker and the network (external).                                  *)

\* Whoever still waits for request n of i goes to point with reply o.
Answer(i, n, point, o) ==
  call' = [p \in Senders |->
    IF call[p].pc = "wait" /\ call[p].job = i /\ call[p].req = n
      THEN [call[p] EXCEPT !.pc = point, !.reply = o]
      ELSE call[p]]

\* Accepted; the answer may arrive, be lost, or not match the intent.
BrokerAccept(i, n) ==
  /\ n \in wire[i]
  /\ orders[i] = NoOrder
  /\ wire' = [wire EXCEPT ![i] = @ \ {n}]
  /\ orders' = [orders EXCEPT ![i] = NewOrder]
  /\ \/ Answer(i, n, "acked", NewOrder)
     \/ UNCHANGED call
     \/ MayGarble /\ Answer(i, n, "garbled", NoOrder)
  /\ UNCHANGED <<durable, expired, posts, cycle>>

\* Refused with a 4xx: invalid, or the client order id is taken.
BrokerDeny(i, n) ==
  /\ n \in wire[i]
  /\ wire' = [wire EXCEPT ![i] = @ \ {n}]
  /\ \/ Answer(i, n, "denied", NoOrder)
     \/ UNCHANGED call
  /\ UNCHANGED <<durable, expired, posts, orders, cycle>>

BrokerFill(i) ==
  /\ IsOpen(orders[i])
  /\ orders[i].filled < Qty
  /\ orders' = [orders EXCEPT ![i] =
       [status |-> IF @.filled + 1 = Qty THEN "filled" ELSE "open", filled |-> @.filled + 1]]
  /\ UNCHANGED <<durable, expired, wire, posts, call, cycle>>

BrokerEnd(i, s) ==
  /\ IsOpen(orders[i])
  /\ s = "rejected" => orders[i].filled = 0
  /\ orders' = [orders EXCEPT ![i].status = s]
  /\ UNCHANGED <<durable, expired, wire, posts, call, cycle>>

-----------------------------------------------------------------------------

SenderStep(p) ==
  \/ \E i \in Intents : Begin(p, i)
  \/ Claim(p) \/ Reread(p)
  \/ SendAllowed(p) \/ SendRefused(p) \/ SendConflict(p)
  \/ Post(p) \/ PostWithheld(p) \/ NoteNotAttempted(p)
  \/ Timeout(p) \/ Adopt(p) \/ OnDenied(p) \/ OnUncertain(p) \/ OnGarbled(p)
  \/ Lookup(p) \/ OnAbsent(p) \/ OnUnrecovered(p)

ImporterStep(r) == ReadIntents(r) \/ PollOrders(r) \/ Import(r) \/ MarkUnknown(r)

BrokerStep(i) ==
  \/ \E n \in wire[i] : BrokerAccept(i, n) \/ BrokerDeny(i, n)
  \/ BrokerFill(i)
  \/ \E s \in {"canceled", "expired", "rejected"} : BrokerEnd(i, s)

Next ==
  \/ \E p \in Senders : SenderStep(p) \/ Crash(p)
  \/ \E i \in Intents : Expire(i) \/ Retire(i) \/ BrokerStep(i)
  \/ \E r \in Importers : ImporterStep(r) \/ CycleFails(r)

Spec == Init /\ [][Next]_vars

\* Every role repeats its cycle, and its broker reads and transactions succeed
\* again and again; senders, the broker and time promise nothing.
FairSpec ==
  /\ Spec
  /\ \A r \in Importers : /\ WF_vars(ImporterStep(r))
                          /\ SF_vars(PollOrders(r))
                          /\ SF_vars(Import(r))

-----------------------------------------------------------------------------
(* Safety.                                                                 *)

\* Somebody could still bring an order of i into being.
MaySend(i) ==
  \/ wire[i] # {}
  \/ istate[i] \in PreSend
  \/ \E p \in Senders : call[p].job = i /\ call[p].pc = "post"

\* What the portfolio relies on when it releases the reservation of an intent
\* proved unsent (settlement.definitively_unsent): the broker has no order for
\* it and no call, request or later retry can create one.
UnsentForGood ==
  \A i \in Intents : DefinitivelyUnsent(i) => orders[i] = NoOrder /\ ~MaySend(i)

\* An intent REJECTED without a broker order (coordinator, 4xx on the first
\* attempt) is as dead: no delayed copy of the POST turns into an order.
RejectionIsFinal ==
  \A i \in Intents :
    istate[i] = "REJECTED" /\ stored[i] = NoOrder => orders[i] = NoOrder /\ ~MaySend(i)

\* Over crashes, restarts and concurrent senders, one intent is POSTed at most
\* once plus the configured same-identity retries: recovery never sends.
PostsBounded == \A i \in Intents : posts[i] <= 1 + MaxRetries

\* A durable settled state is what the broker's order really came to, however
\* late and out of order the acknowledgement and the polls were applied.
SettledIsTrue ==
  \A i \in Intents :
    istate[i] \in Settled /\ stored[i] # NoOrder
      => /\ Ended(orders[i])
         /\ istate[i] = AckTarget(orders[i])

\* Every order at the broker has its intent in a state that asks for recovery
\* or carries the order: an order is never hidden behind a pre-send state.
NoOrphanOrder ==
  \A i \in Intents :
    orders[i] # NoOrder =>
      \/ istate[i] \in Uncertain
      \/ stored[i] # NoOrder
      \/ istate[i] = "ERROR" /\ "refused" \notin marks[i]

(* Action properties and refinement.                                       *)

\* Whatever order snapshots arrive in, the recorded fills only grow.
FillsNeverRegress ==
  [][\A i \in Intents : stored[i].filled <= stored'[i].filled]_vars

\* The view of an intent that the outbox promises (module Outbox).
Phase(i) ==
  IF DefinitivelyUnsent(i) THEN "void"
  ELSE IF istate[i] \in PreSend THEN "held" ELSE "sent"

Promise == INSTANCE Outbox WITH
  phase <- [i \in Intents |-> Phase(i)],
  ordered <- {i \in Intents : orders[i] # NoOrder}

\* Every step of senders, importers, retirement and broker is a step of the
\* outbox or invisible to it: no order without a send, none after a release,
\* and a release is never taken back.
ImplementsOutbox == Promise!Spec

(* Liveness.                                                               *)

\* Polling finds every accepted order, whatever became of its sender; an
\* intent in ERROR is left to an operator.
OrdersAreAdopted ==
  \A i \in Intents : orders[i] # NoOrder ~> stored[i] # NoOrder \/ istate[i] = "ERROR"

\* "Duplicate and out-of-order broker events are idempotent": once the broker's
\* order has ended, the store comes to record it as ended and stays so.
EndsAreRecorded ==
  \A i \in Intents : Ended(orders[i]) ~> [](Ended(stored[i]))

\* "After any possible send, recovery queries the same client ID, imports all
\* fills": a fill at the broker reaches the store.
AllFillsAreImported ==
  \A i \in Intents : orders[i].filled > 0 ~> stored[i].filled > 0

-----------------------------------------------------------------------------
(* The inductive invariant behind UnsentForGood and PostsBounded.          *)

\* Between the send fence and the end of its answer a call owns the intent:
\* nobody else can POST it.
OwnerPoints == {"post", "wait", "acked", "denied", "uncertain", "garbled", "note",
                "lookup", "absent"}
Owns(p, i) == call[p].job = i /\ call[p].pc \in OwnerPoints

CallsInv ==
  \A p \in Senders :
    /\ call[p].pc # "idle" => call[p].job \in Intents
    /\ call[p].pc \in {"begin", "gate"} => call[p].tries = 0
    /\ call[p].tries <= MaxRetries
    /\ call[p].pc \in {"acked", "found"} =>
         call[p].reply # NoOrder /\ orders[call[p].job] # NoOrder

OneOwner ==
  \A i \in Intents : \A p, q \in Senders : Owns(p, i) /\ Owns(q, i) => p = q

\* Every order stems from a POST, and the only POST is not still on the wire.
PostsInv ==
  \A i \in Intents :
    /\ posts[i] <= 1 + MaxRetries
    /\ wire[i] \subseteq 1..posts[i]
    /\ orders[i] # NoOrder => posts[i] >= 1
    /\ orders[i] # NoOrder /\ posts[i] = 1 => wire[i] = {}

\* A call has POSTed at most once per try, and a first refusal is conclusive.
TriesInv ==
  \A i \in Intents, p \in Senders : Owns(p, i) =>
    /\ call[p].pc = "post" => posts[i] <= call[p].tries
    /\ posts[i] <= call[p].tries + 1
    /\ call[p].pc = "denied" /\ call[p].tries = 0 => wire[i] = {} /\ orders[i] = NoOrder

PreSendInv ==
  \A i \in Intents : istate[i] \in PreSend =>
    /\ posts[i] = 0 /\ stored[i] = NoOrder /\ marks[i] = {}
    /\ \A p \in Senders : ~Owns(p, i)

RejectedInv ==
  \A i \in Intents : istate[i] = "REJECTED" /\ stored[i] = NoOrder =>
    /\ wire[i] = {} /\ orders[i] = NoOrder
    /\ \A p \in Senders : Owns(p, i) => call[p].pc = "note"

RefusedInv ==
  \A i \in Intents : "refused" \in marks[i] =>
    /\ istate[i] = "ERROR" /\ posts[i] = 0
    /\ \A p \in Senders : ~Owns(p, i)

\* Nobody holds or has recorded an order the broker does not have.
EvidenceInv ==
  /\ \A i \in Intents : stored[i] # NoOrder => orders[i] # NoOrder
  /\ \A r \in Importers, i \in Intents :
       cycle[r].events[i].order # NoOrder => orders[i] # NoOrder

IInv ==
  /\ TypeOK /\ CallsInv /\ OneOwner /\ PostsInv /\ TriesInv
  /\ PreSendInv /\ RejectedInv /\ RefusedInv /\ EvidenceInv
=============================================================================
