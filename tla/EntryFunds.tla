----------------------------- MODULE EntryFunds ------------------------------
(***************************************************************************)
(* The money entries may spend: the guardian's capture and certification of *)
(* the account (paper_core/guardian.py, synchronize; paper_core/store.py),  *)
(* the budget that the trader's claim and the send fence derive from the    *)
(* latest certificate (paper_core/portfolio.py, funds.py, batch.py), and    *)
(* its revocation by later evidence.  "Cash already spent is in the proof;  *)
(* only remaining possible sends are reserved again."                       *)
(*                                                                         *)
(* An entry buys Qty of a symbol of its own at a price of 1; lots are not   *)
(* exited.  Sending is the outbox of module Outbox.                         *)
(***************************************************************************)
EXTENDS Naturals, FiniteSets, Functions

CONSTANTS
  Entries,      \* decisions to buy, each a possible entry order
  Qty,          \* quantity of each
  Cash,         \* cash of the account in the baseline
  FeesKnown,    \* entries whose actual fees come with their fills
  Guardians     \* processes that synchronize: the guardian and one that overlaps it

ASSUME EntriesAssumption == IsFiniteSet(Entries) /\ FeesKnown \subseteq Entries
ASSUME NumbersAssumption == Qty \in Nat \ {0} /\ Cash \in Nat

VARIABLES
  claimed,      \* entries with an intent and a reservation
  phase,        \* outbox: may this entry's order come into being?
  ordered,      \* outbox: entries that have a broker order
  order,        \* the order at the broker
  stored,       \* the order as the store has it
  fills,        \* its fills as the store has them
  sources,      \* its imported events
  cert,         \* the latest certification
  capture       \* per guardian, its acquisition of account, positions and orders

outbox == <<phase, ordered>>
ledger == <<stored, fills, sources>>
vars == <<claimed, outbox, order, ledger, cert, capture>>

Orders == [status : {"none", "open", "ended"}, filled : 0..Qty]
NoOrder == [status |-> "none", filled |-> 0]
Quantities == [Entries -> 0..Qty]
OpenOrders == [Entries -> Orders]

\* full: cash complete, in core_inventory_certifications; else in
\* core_quantity_certifications.  funds: with the balance evidence.
Certs == [cash : 0..Cash, stored : [Entries -> Orders], fills : Quantities,
          open : OpenOrders, full : BOOLEAN, funds : BOOLEAN, revoked : BOOLEAN]
NoCert == [cash |-> 0, stored |-> [e \in Entries |-> NoOrder], fills |-> [e \in Entries |-> 0],
           open |-> [e \in Entries |-> NoOrder], full |-> TRUE, funds |-> FALSE, revoked |-> TRUE]

Points == {"idle", "account", "positions", "orders", "account2", "positions2", "orders2", "certify"}
Captures == [pc : Points, cash : 0..Cash, held : Quantities, open : OpenOrders,
             funds : BOOLEAN, crossed : BOOLEAN]
IdleCapture == [pc |-> "idle", cash |-> 0, held |-> NoCert.fills, open |-> NoCert.open,
                funds |-> FALSE, crossed |-> FALSE]

TypeOK ==
  /\ claimed \subseteq Entries
  /\ phase \in [Entries -> {"held", "sent", "void"}] /\ ordered \subseteq Entries
  /\ order \in [Entries -> Orders] /\ stored \in [Entries -> Orders]
  /\ fills \in Quantities
  /\ sources \in [Entries -> SUBSET [order : Orders, complete : BOOLEAN]]
  /\ cert \in Certs
  /\ capture \in [Guardians -> Captures]

Sending == INSTANCE Outbox WITH Intents <- Entries

Init ==
  /\ claimed = {}
  /\ Sending!Init
  /\ order = [e \in Entries |-> NoOrder] /\ stored = [e \in Entries |-> NoOrder]
  /\ fills = [e \in Entries |-> 0]
  /\ sources = [e \in Entries |-> {}]
  /\ cert = NoCert
  /\ capture = [g \in Guardians |-> IdleCapture]

SumOf(f) == SumFunctionOnSet(f, Entries)

-----------------------------------------------------------------------------
(* What the ledger says.                                                   *)

\* Whether store.ledger derives cash: every fill's actual fee is known.
CashKnown == \A e \in Entries \ FeesKnown : fills[e] = 0

\* terminal_evidence: the order has ended and an event with complete activities,
\* all of them imported, says so.
Terminal(e) ==
  /\ stored[e].status = "ended"
  /\ fills[e] = stored[e].filled
  /\ [order |-> stored[e], complete |-> TRUE] \in sources[e]

\* Variant: a certificate counts until it is revoked.
CurrentUnlessRevoked(c) == ~c.revoked /\ c.funds

\* entry_inventory_objections: not revoked, certified on this very ledger, with
\* balance evidence whose open orders are all explained by it.
Current(c) ==
  /\ ~c.revoked
  /\ c.stored = stored /\ c.fills = fills /\ c.full = CashKnown
  /\ c.funds
  /\ \A e \in Entries : c.open[e] # NoOrder =>
       /\ phase[e] = "sent"
       /\ stored[e] = c.open[e] /\ fills[e] = c.open[e].filled

\* Entries the budget looks at: claimed and not proved unsent.
Counted == {e \in claimed : phase[e] # "void"}

Unfilled == [e \in Entries |-> Qty - fills[e]]

\* Variant: an entry is reserved once it may have been sent.
PendingOnceSent(others) ==
  SumFunctionOnSet(Unfilled, {e \in others : phase[e] = "sent" /\ ~Terminal(e)})

\* What the given entries could still spend.
Pending(others) ==
  SumFunctionOnSet(Unfilled, {e \in others : ~Terminal(e)})

\* portfolio_budget: the certificate pays for this much beside the others.
Affords(amount, others) ==
  /\ Current(cert)
  /\ \A e \in Counted : stored[e].filled = fills[e]
  /\ amount + Pending(others) <= cert.cash

-----------------------------------------------------------------------------
(* synchronize: recovery (the imports below), then paired reads.           *)

\* A new acquisition.
Begin(g) ==
  /\ capture[g].pc = "idle"
  /\ capture' = [capture EXCEPT ![g].pc = "account"]
  /\ UNCHANGED <<claimed, outbox, order, ledger, cert>>

BrokerHeld == [e \in Entries |-> order[e].filled]
BrokerCash == Cash - SumOf(BrokerHeld)
BrokerOpen == [e \in Entries |-> IF order[e].status = "open" THEN order[e] ELSE NoOrder]

\* The first reads of account and positions.
ReadAccount(g) ==
  /\ capture[g].pc = "account"
  /\ capture' = [capture EXCEPT ![g].pc = "positions", ![g].cash = BrokerCash]
  /\ UNCHANGED <<claimed, outbox, order, ledger, cert>>

ReadPositions(g) ==
  /\ capture[g].pc = "positions"
  /\ capture' = [capture EXCEPT ![g].pc = "orders", ![g].held = BrokerHeld]
  /\ UNCHANGED <<claimed, outbox, order, ledger, cert>>

\* The first read of the open orders; if it fails, there is no balance evidence.
ReadOrders(g) ==
  /\ capture[g].pc = "orders"
  /\ \/ capture' = [capture EXCEPT ![g].pc = "account2", ![g].open = BrokerOpen, ![g].funds = TRUE]
     \/ capture' = [capture EXCEPT ![g].pc = "account2"]
  /\ UNCHANGED <<claimed, outbox, order, ledger, cert>>

Abandon(g) == capture' = [capture EXCEPT ![g] = IdleCapture]

\* Variant: any second account will do.
RereadAccountOnly(g) ==
  /\ capture[g].pc = "account2"
  /\ capture' = [capture EXCEPT ![g].pc = "positions2"]
  /\ UNCHANGED <<claimed, outbox, order, ledger, cert>>

\* The second reads: an account or positions that moved fail the acquisition.
RereadAccount(g) ==
  /\ capture[g].pc = "account2"
  /\ IF capture[g].cash = BrokerCash
       THEN capture' = [capture EXCEPT ![g].pc = "positions2"]
       ELSE Abandon(g)
  /\ UNCHANGED <<claimed, outbox, order, ledger, cert>>

RereadPositions(g) ==
  /\ capture[g].pc = "positions2"
  /\ IF capture[g].held = BrokerHeld
       THEN capture' = [capture EXCEPT ![g].pc = "orders2"]
       ELSE Abandon(g)
  /\ UNCHANGED <<claimed, outbox, order, ledger, cert>>

\* Open orders that moved, or cannot be read again, are no evidence of a balance.
RereadOrders(g) ==
  /\ capture[g].pc = "orders2"
  /\ \/ capture' = [capture EXCEPT ![g].pc = "certify",
                                   ![g].funds = @ /\ capture[g].open = BrokerOpen]
     \/ capture' = [capture EXCEPT ![g].pc = "certify", ![g].funds = FALSE]
  /\ UNCHANGED <<claimed, outbox, order, ledger, cert>>

\* Under the writer lock: a capture crossed by an owned send revokes what cash was
\* certified; else the captured quantities (and cash, where the ledger knows it)
\* are certified if they are the ledger's.
Certify(g) ==
  LET c == capture[g] IN
  /\ c.pc = "certify"
  /\ cert' =
       IF c.crossed THEN [cert EXCEPT !.revoked = (@ \/ cert.full)]
       ELSE IF c.held = fills /\ (CashKnown => c.cash + SumOf(fills) = Cash)
       THEN [cash |-> c.cash, stored |-> stored, fills |-> fills, open |-> c.open,
             full |-> CashKnown, funds |-> c.funds, revoked |-> FALSE]
       ELSE cert
  /\ Abandon(g)
  /\ UNCHANGED <<claimed, outbox, order, ledger>>

\* A read fails, takes too long, or the process dies.
Fail(g) ==
  /\ capture[g].pc # "idle"
  /\ Abandon(g)
  /\ UNCHANGED <<claimed, outbox, order, ledger, cert>>

-----------------------------------------------------------------------------
(* The trader: claim and send fence, each in one writer transaction.       *)

\* claim_batch: all decisions of the batch, or none; it may be declined for
\* reasons other than money.
Claim(batch) ==
  /\ batch \cap claimed = {}
  /\ Affords(Cardinality(batch) * Qty, Counted)
  /\ claimed' = claimed \cup batch
  /\ UNCHANGED <<outbox, order, ledger, cert, capture>>

\* final_send_in_session: authorised on the budget without the entry itself; an
\* acquisition under way is crossed by the send.  Age limits and the fresh marks
\* the guard compares can only refuse more: see Refuse.
Authorise(e) ==
  /\ e \in claimed
  /\ Affords(Qty, Counted \ {e})
  /\ Sending!Send(e)
  /\ capture' = [g \in Guardians |->
       [capture[g] EXCEPT !.crossed = @ \/ (capture[g].pc # "idle")]]
  /\ UNCHANGED <<claimed, order, ledger, cert>>

\* Any other objection, retirement, or a POST that the request budget withheld:
\* the intent is proved unsent.
Refuse(e) ==
  /\ e \in claimed
  /\ Sending!Void(e)
  /\ UNCHANGED <<claimed, order, ledger, cert, capture>>

-----------------------------------------------------------------------------
(* The broker (external), and the import of its evidence by any role.      *)

Accept(e) ==
  /\ Sending!Appear(e)
  /\ order' = [order EXCEPT ![e].status = "open"]
  /\ UNCHANGED <<claimed, ledger, cert, capture>>

Fill(e) ==
  /\ order[e].status = "open"
  /\ order' = [order EXCEPT ![e] =
       [status |-> IF @.filled + 1 = Qty THEN "ended" ELSE "open", filled |-> @.filled + 1]]
  /\ UNCHANGED <<claimed, outbox, ledger, cert, capture>>

Cancel(e) ==
  /\ order[e].status = "open"
  /\ order' = [order EXCEPT ![e].status = "ended"]
  /\ UNCHANGED <<claimed, outbox, ledger, cert, capture>>

\* The order as a poll or an acknowledgement may have read it, now or earlier.
Readings(e) ==
  IF order[e] = NoOrder THEN {}
  ELSE {order[e]} \cup {[status |-> "open", filled |-> k] :
                          k \in {j \in 0..order[e].filled : j < Qty}}

\* Variant: a fill that is reported again is recorded again.
RecordedAgain(e, k) == [fills EXCEPT ![e] = @ + k]

\* The fills after an event that reports k of the order: by id, each of them once.
Recorded(e, k) == [fills EXCEPT ![e] = k]

\* An event with k of the order's fills: a new one is adopted, a known one skipped
\* but for fills that are new, and cash certified on another ledger is revoked
\* (revoke_stale_cash) with it.
Adopt(e, o, complete, k) ==
  LET event == [order |-> o, complete |-> complete]
      new == event \notin sources[e]
  IN
  /\ new => o.filled >= stored[e].filled
  /\ new \/ k > fills[e]
  /\ stored' = IF new THEN [stored EXCEPT ![e] = o] ELSE stored
  /\ k \in fills[e]..stored'[e].filled /\ (complete => k = o.filled)
  /\ fills' = Recorded(e, k)
  /\ sources' = [sources EXCEPT ![e] = @ \cup {event}]
  /\ cert' = [cert EXCEPT !.revoked = @ \/ (cert.full /\ cert.fills # fills')]
  /\ UNCHANGED <<claimed, outbox, order, capture>>

\* Evidence about an open order is incomplete as far as its end is concerned.
Import(e) ==
  \E o \in Readings(e), complete \in BOOLEAN, k \in 0..Qty :
    (complete => o.status = "ended") /\ Adopt(e, o, complete, k)

-----------------------------------------------------------------------------

CaptureStep(g) ==
  \/ Begin(g) \/ ReadAccount(g) \/ ReadPositions(g) \/ ReadOrders(g)
  \/ RereadAccount(g) \/ RereadPositions(g) \/ RereadOrders(g) \/ Certify(g)

Next ==
  \/ \E g \in Guardians : CaptureStep(g) \/ Fail(g)
  \/ \E batch \in SUBSET Entries \ {{}} : Claim(batch)
  \/ \E e \in Entries : Authorise(e) \/ Refuse(e)
  \/ \E e \in Entries : Accept(e) \/ Fill(e) \/ Cancel(e) \/ Import(e)

Spec == Init /\ [][Next]_vars

-----------------------------------------------------------------------------

\* What an entry may have cost in the end: all of it until it cannot be sent or
\* its order has ended.
Exposure(e) ==
  IF e \notin claimed \/ phase[e] = "void" THEN 0
  ELSE IF order[e].status = "ended" THEN order[e].filled
  ELSE Qty

\* "Reserves worst-case exposure until terminal proof": the cash of the account
\* pays for every claimed entry at its worst, however reads, fills, imports and
\* overlapping captures interleave.
NeverOverspend == SumOf([e \in Entries |-> Exposure(e)]) <= Cash

\* A certificate is of one moment: its cash is what the broker had when exactly
\* the certified fills had happened, although account, positions and ledger were
\* read one after the other.
CertifiedIsOneMoment == cert # NoCert => cert.cash + SumOf(cert.fills) = Cash
=============================================================================
