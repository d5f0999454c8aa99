------------------------------ MODULE OwnedExit ------------------------------
(***************************************************************************)
(* Exits of owned lots: the guardian's preparation of a sale from imported  *)
(* fills (paper_core/guardian.py), the reservation of the reducing side     *)
(* among competing exits (execution/coordinator.py), the last check of owned*)
(* quantity at the send fence (paper_core/send_guard.py) and the release of *)
(* unsold quantity by terminal evidence (paper_core/outcomes.py).           *)
(*                                                                         *)
(* The lots share one symbol.  Sending is the outbox of module Outbox, which*)
(* Submission implements: a send may or may not become an order, a void one *)
(* never does.                                                              *)
(***************************************************************************)
EXTENDS Naturals, FiniteSets, Functions

CONSTANTS
  Lots,         \* owned lots of the symbol, each from one entry order
  NoLot,        \* stands for the lot of an exit that does not exist
  Qty,          \* quantity of each entry order
  MaxBought,    \* bound: what all entry orders together fill
  MaxExits,     \* bound: exit intents ever prepared
  MaxSetbacks,  \* bound: orders ended before they are filled, and POSTs withheld
  Guardians,    \* protection processes: the guardian and one that overlaps it
  Parallels,    \* the values store.parallel_entries may have
  MayFail       \* may a send be refused by the broker, garbled or withheld?

ASSUME LotsAssumption == IsFiniteSet(Lots) /\ NoLot \notin Lots
ASSUME QtyAssumption == Qty \in Nat \ {0}
ASSUME BoundsAssumption == MaxExits \in Nat \ {0} /\ MaxSetbacks \in Nat /\ MaxBought \in Nat
ASSUME FlagsAssumption == Parallels \subseteq BOOLEAN /\ MayFail \in BOOLEAN

\* Exit intents in the order of their creation.
Exits == 1..MaxExits

VARIABLES
  parallel,     \* store.parallel_entries: exits are claimed as they are prepared
  bought,       \* the broker's fills of each entry order
  owned,        \* those imported into the store
  phase,        \* outbox: may this exit's order come into being?
  ordered,      \* outbox: exits that have a broker order
  stage,        \* order_intents.state of an exit, as far as exits care
  ticket,       \* its lot and quantity, fixed when it is created
  order,        \* its order at the broker
  stored,       \* the order as the store has it
  fills,        \* its fills as the store has them
  sources,      \* its imported events
  setbacks,     \* counts the orders ended unfilled and the POSTs withheld
  guard         \* per guardian: the exit it is working on

entry == <<parallel, bought, owned>>
outbox == <<phase, ordered>>
evidence == <<stored, fills, sources>>
vars == <<entry, outbox, stage, ticket, order, evidence, setbacks, guard>>

\* "sent" stands for SUBMITTING and SUBMISSION_UNKNOWN, "open" for an adopted
\* order, "closed" for FILLED, CANCELLED and EXPIRED; "error" is ERROR.
Stages == {"absent", "approved", "created", "sent", "open", "closed", "rejected", "error"}
Orders == [status : {"none", "open", "ended"}, filled : 0..Qty]
NoOrder == [status |-> "none", filled |-> 0]
Tickets == [lot : Lots \cup {NoLot}, qty : 0..Qty]
NoTicket == [lot |-> NoLot, qty |-> 0]

Guards == [pc : {"idle", "failed", "prepare", "submit", "positions", "orders", "gate", "fence"},
           lot : Lots \cup {NoLot}, seen : 0..Qty, exit : Exits, position : Nat,
           selling : SUBSET Exits, allowed : BOOLEAN]
IdleGuard == [pc |-> "idle", lot |-> NoLot, seen |-> 0, exit |-> 1,
              position |-> 0, selling |-> {}, allowed |-> FALSE]

TypeOK ==
  /\ parallel \in Parallels
  /\ bought \in [Lots -> 0..Qty] /\ owned \in [Lots -> 0..Qty]
  /\ phase \in [Exits -> {"held", "sent", "void"}] /\ ordered \subseteq Exits
  /\ stage \in [Exits -> Stages]
  /\ ticket \in [Exits -> Tickets]
  /\ order \in [Exits -> Orders] /\ stored \in [Exits -> Orders]
  /\ fills \in [Exits -> 0..Qty]
  /\ sources \in [Exits -> SUBSET [order : Orders, complete : BOOLEAN]]
  /\ setbacks \in 0..MaxSetbacks
  /\ guard \in [Guardians -> Guards]

Sending == INSTANCE Outbox WITH Intents <- Exits

Init ==
  /\ parallel \in Parallels
  /\ bought = [l \in Lots |-> 0] /\ owned = [l \in Lots |-> 0]
  /\ Sending!Init
  /\ stage = [x \in Exits |-> "absent"]
  /\ ticket = [x \in Exits |-> NoTicket]
  /\ order = [x \in Exits |-> NoOrder] /\ stored = [x \in Exits |-> NoOrder]
  /\ fills = [x \in Exits |-> 0]
  /\ sources = [x \in Exits |-> {}]
  /\ setbacks = 0
  /\ guard = [g \in Guardians |-> IdleGuard]

-----------------------------------------------------------------------------
(* What the store says about exits.                                        *)

\* Exits of the lot that are not proved unsent (definitively_unsent).
Counted(l) ==
  {x \in Exits : stage[x] # "absent" /\ phase[x] # "void" /\ ticket[x].lot = l}

\* Variant: an ended order releases its rest before its fills are imported.
TerminalByStatus(x) == stored[x].status = "ended"

\* Variant: only an order that filled completely is evidence.
TerminalWhenFilled(x) == stored[x].status = "ended" /\ fills[x] = ticket[x].qty

\* terminal_evidence: the order has ended and an event with complete activities,
\* all of them imported, says so.
Terminal(x) ==
  /\ stored[x].status = "ended"
  /\ fills[x] = stored[x].filled
  /\ [order |-> stored[x], complete |-> TRUE] \in sources[x]

\* list_unresolved_order_intents
Unresolved(x) == stage[x] \in {"approved", "created", "sent", "open"}

\* What an exit takes from its lot: all of it until there is terminal evidence.
Committed(x) == IF Terminal(x) THEN fills[x] ELSE ticket[x].qty

Commitments == [x \in Exits |-> Committed(x)]

\* Variant: an exit without an order takes nothing yet.
SpokenByOrders(l) == SumFunctionOnSet(Commitments, {x \in Counted(l) : stored[x] # NoOrder})

\* exited + reserved
Spoken(l) == SumFunctionOnSet(Commitments, Counted(l))

\* Prepared earlier and not sent yet: used again instead of a new exit.
Prepared(l) ==
  {x \in Counted(l) : stage[x] \in {"approved", "created"} /\ stored[x] = NoOrder}

\* Variant: an exit on its way to the broker competes only once it has an order.
CompetesWhenOpen(x, y) == x # y /\ stage[x] = "open"

\* _competing_exit: x stands in the way of y.
Competes(x, y) ==
  /\ x # y
  /\ Unresolved(x)
  /\ stage[x] = "approved" => stage[y] = "approved" /\ x < y

-----------------------------------------------------------------------------
(* A guardian's work on one lot.                                           *)

Turn(g, point) == guard' = [guard EXCEPT ![g].pc = point]
Rest(g) == guard' = [guard EXCEPT ![g] = IdleGuard]

\* A stop, deadline or send-ahead is due: the imported entry fills are read
\* before the preparing transaction.
ReadLot(g, l) ==
  /\ guard[g].pc \in {"idle", "failed"}
  /\ owned[l] > 0
  /\ guard' = [guard EXCEPT ![g].pc = "prepare", ![g].lot = l, ![g].seen = owned[l]]
  /\ UNCHANGED <<entry, outbox, stage, ticket, order, evidence, setbacks>>

\* One writer transaction: reuse a prepared exit, or create one for what is
\* neither sold nor reserved, under an identity not used before.
Prepare(g) ==
  LET l == guard[g].lot
      rest == guard[g].seen - Spoken(l)
      Take(x) == /\ stage' = [stage EXCEPT ![x] = IF parallel THEN "created"
                                                  ELSE IF @ = "absent" THEN "approved" ELSE @]
                 /\ guard' = [guard EXCEPT ![g] = [IdleGuard EXCEPT !.pc = "submit", !.exit = x]]
  IN
  /\ guard[g].pc = "prepare"
  /\ \/ \E x \in Prepared(l) : Take(x) /\ UNCHANGED ticket
     \/ /\ Prepared(l) = {} /\ guard[g].seen > Spoken(l)
        /\ \E x \in Exits :
             /\ {y \in Exits : stage[y] # "absent"} = 1..(x - 1)
             /\ Take(x)
             /\ ticket' = [ticket EXCEPT ![x] = [lot |-> l, qty |-> rest]]
     \/ /\ Prepared(l) = {} /\ guard[g].seen <= Spoken(l)
        /\ Rest(g)
        /\ UNCHANGED <<stage, ticket>>
  /\ UNCHANGED <<entry, outbox, order, evidence, setbacks>>

\* submit_durable of an exit that is still held; any other needs no send.
Submit(g) ==
  LET x == guard[g].exit IN
  /\ guard[g].pc = "submit"
  /\ IF stage[x] \in {"approved", "created"} THEN Turn(g, "positions") ELSE Rest(g)
  /\ UNCHANGED <<entry, outbox, stage, ticket, order, evidence, setbacks>>

\* The broker's position in the symbol.
Filled == [x \in Exits |-> order[x].filled]
Position == SumFunctionOnSet(bought, Lots) - SumFunctionOnSet(Filled, Exits)

ReadPositions(g) ==
  /\ guard[g].pc = "positions"
  /\ guard' = [guard EXCEPT ![g].pc = "orders", ![g].position = Position]
  /\ UNCHANGED <<entry, outbox, stage, ticket, order, evidence, setbacks>>

ReadOpenOrders(g) ==
  /\ guard[g].pc = "orders"
  /\ guard' = [guard EXCEPT ![g].pc = "gate",
                            ![g].selling = {x \in Exits : order[x].status = "open"}]
  /\ UNCHANGED <<entry, outbox, stage, ticket, order, evidence, setbacks>>

\* _gate: what was just read of the broker, and the exits the store knows of.
GateAllows(g) ==
  LET x == guard[g].exit IN
  /\ ticket[x].qty <= guard[g].position
  /\ guard[g].selling \subseteq {x}
  /\ ~\E y \in Exits : Competes(y, x)

\* _claim_exit after the initial gate, or the refusal that leaves the exit
\* prepared; then everything is acquired again.
Claim(g) ==
  LET x == guard[g].exit IN
  /\ guard[g].pc = "gate"
  /\ stage[x] = "approved"
  /\ IF GateAllows(g)
       THEN /\ stage' = [stage EXCEPT ![x] = "created"]
            /\ guard' = [guard EXCEPT ![g] = [IdleGuard EXCEPT !.pc = "positions", !.exit = x]]
       ELSE UNCHANGED stage /\ Rest(g)
  /\ UNCHANGED <<entry, outbox, ticket, order, evidence, setbacks>>

\* The final gate, in a transaction before the send fence.
Gate(g) ==
  /\ guard[g].pc = "gate"
  /\ stage[guard[g].exit] # "approved"
  /\ guard' = [guard EXCEPT ![g] = [IdleGuard EXCEPT !.pc = "fence", !.exit = guard[g].exit,
                                                    !.allowed = GateAllows(g)]]
  /\ UNCHANGED <<entry, outbox, stage, ticket, order, evidence, setbacks>>

\* owned_exit_objections: the lot still has the quantity, counting the fills of
\* its exits and all of those that are on their way.
OwnedAllows(x) ==
  LET l == ticket[x].lot
      others == {y \in Exits \ {x} : stage[y] # "absent" /\ ticket[y].lot = l}
      onTheWay == {y \in others : stage[y] \in {"approved", "created", "sent"}}
  IN ticket[x].qty
       + SumFunctionOnSet([y \in Exits |-> ticket[y].qty], onTheWay)
       + SumFunctionOnSet(fills, (others \ onTheWay) \cup {x}) <= owned[l]

\* The send fence: SUBMITTING, or the refusal latch with ERROR.
Fence(g) ==
  LET x == guard[g].exit IN
  /\ guard[g].pc = "fence"
  /\ stage[x] = "created"
  /\ IF guard[g].allowed /\ OwnedAllows(x)
       THEN Sending!Send(x) /\ stage' = [stage EXCEPT ![x] = "sent"]
       ELSE Sending!Void(x) /\ stage' = [stage EXCEPT ![x] = "error"]
  /\ Rest(g)
  /\ UNCHANGED <<entry, ticket, order, evidence, setbacks>>

\* The exit was moved meanwhile: the transaction rolls back.
FenceConflict(g) ==
  /\ guard[g].pc = "fence"
  /\ stage[guard[g].exit] # "created"
  /\ Rest(g)
  /\ UNCHANGED <<entry, outbox, stage, ticket, order, evidence, setbacks>>

\* A read fails or the process dies, before the send fence.
GiveUp(g) ==
  /\ guard[g].pc \notin {"idle", "failed"}
  /\ guard' = [guard EXCEPT ![g] = [IdleGuard EXCEPT !.pc = "failed"]]
  /\ UNCHANGED <<entry, outbox, stage, ticket, order, evidence, setbacks>>

-----------------------------------------------------------------------------
(* What becomes of a send (the outbox), and the broker (external).         *)

\* The order comes into being; a rejected intent cannot get one.
Accept(x) ==
  /\ stage[x] # "rejected"
  /\ Sending!Appear(x)
  /\ order' = [order EXCEPT ![x] = [status |-> "open", filled |-> 0]]
  /\ UNCHANGED <<entry, stage, ticket, evidence, setbacks, guard>>

\* The first answer is a 4xx: rejected, but not proved unsent.
Reject(x) ==
  /\ MayFail
  /\ stage[x] = "sent" /\ x \notin ordered
  /\ stage' = [stage EXCEPT ![x] = "rejected"]
  /\ UNCHANGED <<entry, outbox, ticket, order, evidence, setbacks, guard>>

\* The request budget withholds the POST, and says so.
Withhold(x) ==
  /\ MayFail
  /\ stage[x] = "sent"
  /\ setbacks < MaxSetbacks
  /\ setbacks' = setbacks + 1
  /\ Sending!Void(x)
  /\ stage' = [stage EXCEPT ![x] = "rejected"]
  /\ UNCHANGED <<entry, ticket, order, evidence, guard>>

\* An acknowledgement does not match the intent.
Garble(x) ==
  /\ MayFail
  /\ stage[x] = "sent"
  /\ stage' = [stage EXCEPT ![x] = "error"]
  /\ UNCHANGED <<entry, outbox, ticket, order, evidence, setbacks, guard>>

Fill(x) ==
  /\ order[x].status = "open"
  /\ order' = [order EXCEPT ![x] =
       [status |-> IF @.filled + 1 = ticket[x].qty THEN "ended" ELSE "open",
        filled |-> @.filled + 1]]
  /\ UNCHANGED <<entry, outbox, stage, ticket, evidence, setbacks, guard>>

Cancel(x) ==
  /\ order[x].status = "open"
  /\ setbacks < MaxSetbacks
  /\ setbacks' = setbacks + 1
  /\ order' = [order EXCEPT ![x].status = "ended"]
  /\ UNCHANGED <<entry, outbox, stage, ticket, evidence, guard>>

Buy(l) ==
  /\ bought[l] < Qty /\ SumFunctionOnSet(bought, Lots) < MaxBought
  /\ bought' = [bought EXCEPT ![l] = @ + 1]
  /\ UNCHANGED <<parallel, owned, outbox, stage, ticket, order, evidence, setbacks, guard>>

-----------------------------------------------------------------------------
(* Import of broker evidence, by any role.                                 *)

\* Variant: the cumulative quantity of an event counts as one more fill.
ImportEntryAsDelta(l) ==
  /\ \E k \in 1..bought[l] : owned' = [owned EXCEPT ![l] = @ + k]
  /\ UNCHANGED <<parallel, bought, outbox, stage, ticket, order, evidence, setbacks, guard>>

ImportEntry(l) ==
  /\ \E k \in (owned[l] + 1)..bought[l] : owned' = [owned EXCEPT ![l] = k]
  /\ UNCHANGED <<parallel, bought, outbox, stage, ticket, order, evidence, setbacks, guard>>

\* The order as a poll may have read it, now or a while ago.
Readings(x) ==
  IF order[x] = NoOrder THEN {}
  ELSE {order[x]} \cup {[status |-> "open", filled |-> k] :
                          k \in {j \in 0..order[x].filled : j < ticket[x].qty}}

\* outcomes._adopt and the fills that came with the event.  A regressed
\* quantity is refused, and so is every move of an intent in ERROR.
Adopt(x, o, complete) ==
  /\ [order |-> o, complete |-> complete] \notin sources[x]
  /\ o.filled >= stored[x].filled
  /\ stage[x] = "error" => o = [status |-> "open", filled |-> 0]
  /\ stored' = [stored EXCEPT ![x] = o]
  /\ sources' = [sources EXCEPT ![x] = @ \cup {[order |-> o, complete |-> complete]}]
  /\ \E k \in fills[x]..o.filled :
       /\ complete => k = o.filled
       /\ fills' = [fills EXCEPT ![x] = k]
  /\ stage' = [stage EXCEPT ![x] =
       IF @ \in {"sent", "open"} THEN IF o.status = "ended" THEN "closed" ELSE "open" ELSE @]
  /\ UNCHANGED <<entry, outbox, ticket, order, setbacks, guard>>

ImportExit(x) == \E o \in Readings(x), complete \in BOOLEAN : Adopt(x, o, complete)

\* The poll of now, with complete activities.
ImportLatest(x) == order[x] # NoOrder /\ Adopt(x, order[x], TRUE)

-----------------------------------------------------------------------------

GuardianStep(g) ==
  \/ \E l \in Lots : ReadLot(g, l)
  \/ Prepare(g) \/ Submit(g) \/ ReadPositions(g) \/ ReadOpenOrders(g)
  \/ Claim(g) \/ Gate(g) \/ Fence(g) \/ FenceConflict(g)

SendStep(x) == Accept(x) \/ Reject(x) \/ Withhold(x) \/ Garble(x) \/ Fill(x) \/ Cancel(x)

Next ==
  \/ \E g \in Guardians : GuardianStep(g) \/ GiveUp(g)
  \/ \E x \in Exits : SendStep(x) \/ ImportExit(x)
  \/ \E l \in Lots : Buy(l) \/ ImportEntry(l)

Spec == Init /\ [][Next]_vars

\* The guardian's cycle repeats, at last without failing; every role keeps
\* polling; the broker works on open orders.
FairSpec ==
  /\ Spec
  /\ \A g \in Guardians : WF_vars(GuardianStep(g)) /\ <>[][~GiveUp(g)]_vars
  /\ \A x \in Exits : WF_vars(Fill(x) \/ Cancel(x)) /\ WF_vars(ImportLatest(x))
  /\ \A l \in Lots : WF_vars(ImportEntry(l))

-----------------------------------------------------------------------------

ExitsOf(l) == {x \in Exits : ticket[x].lot = l}

\* The broker could still fill this much of an exit beyond what it has filled.
MaySell(x) ==
  IF order[x].status = "open" THEN ticket[x].qty - order[x].filled
  ELSE IF phase[x] = "sent" /\ x \notin ordered /\ stage[x] # "rejected" THEN ticket[x].qty
  ELSE 0

\* "The maximum permissible sell is known owned open quantity minus already
\* committed exit quantity": whatever guardians overlap, crash or act on late
\* evidence, a lot's exits never sell more than its entry order bought, even if
\* every send that may be under way fills completely.
NeverOversell ==
  \A l \in Lots :
    SumFunctionOnSet([x \in Exits |-> order[x].filled + MaySell(x)], ExitsOf(l)) <= bought[l]

\* _claim_exit and the final gate let one exit of the symbol through at a time,
\* although they look at the other exits in transactions of their own: two
\* exits may never both be able to sell, unless the store lost one to ERROR.
OneSeller ==
  \A x, y \in Exits :
    x # y /\ MaySell(x) > 0 /\ MaySell(y) > 0 => stage[x] = "error" \/ stage[y] = "error"

\* The store's view of each order never runs ahead of the broker.
EvidenceIsTrue ==
  \A x \in Exits :
    /\ fills[x] <= stored[x].filled /\ stored[x].filled <= order[x].filled
    /\ stored[x].status = "ended" => stored[x] = order[x]

\* Why a lot may be left with unsold quantity: a send without evidence, a
\* refusal by the broker, an acknowledgement that did not match, or an order
\* whose end was imported before an older reading of it.
Blocked(l) ==
  \E x \in Counted(l) :
    \/ stage[x] \in {"sent", "rejected", "error"}
    \/ stored[x].status = "open" /\ order[x].status = "ended"

\* "Every incremental fill remains protected": once due, everything bought is
\* sold, through cancelled and partial exits, unless the lot is Blocked.
LotsAreClosed ==
  \A l \in Lots :
    bought[l] = Qty ~>
      \/ SumFunctionOnSet(Filled, ExitsOf(l)) = bought[l]
      \/ Blocked(l)
=============================================================================
