------------------------------ MODULE Quarantine ------------------------------
(***************************************************************************)
(* What a failed reconciliation means (paper_core/guardian.py, synchronize  *)
(* and _classify_reconciliation_failure) and how the failures it reports    *)
(* are recovered (paper_core/health.py).  "Ordinary interruptions do not    *)
(* create a persistent stop", but a position that is not ours quarantines   *)
(* its symbol until an audited resolution.                                  *)
(*                                                                         *)
(* Every symbol has one entry, an order to buy Qty of it, and someone else  *)
(* may hold one more of it in the account.  The guardian and the trader     *)
(* both synchronize.  All prices are the same; cash is never complete (no   *)
(* actual fee is known), so only quantities are certified.                  *)
(***************************************************************************)
EXTENDS Naturals, FiniteSets, FiniteSetsExt

CONSTANTS
  Symbols,      \* what may be bought
  Home,         \* config.symbol: where failures without a scope are reported
  Qty           \* quantity of an entry

ASSUME HomeAssumption == Home \in Symbols /\ Qty \in Nat \ {0}

Captors == {"guardian", "trader"}

VARIABLES
  intent,       \* the entry of a symbol: SUBMITTING or SUBMISSION_UNKNOWN is "sending"
  placed,       \* symbols whose order exists at the broker
  filled,       \* how much of the order has filled there
  published,    \* how many of these fills the activities feed reports
  stray,        \* the quantity of someone else
  adopted,      \* symbols whose order is stored
  known,        \* its filled quantity as stored
  fills,        \* its stored fills
  current,      \* whether the latest certification is of this very ledger
  revoked,      \* whether its authority to spend has been revoked
  capture,      \* per captor, its acquisition
  failures,     \* reported failures not recovered yet
  quarantine,   \* per symbol, integrity failures not resolved yet
  acked,        \* symbols whose complete order a poll has retained as pending
  paused        \* the kill switch: entries paused by the operator

broker == <<placed, filled, published, stray>>
ledger == <<adopted, known, fills, current, revoked>>
health == <<failures, quarantine>>
vars == <<intent, broker, ledger, capture, health, acked, paused>>

Quantities == [Symbols -> 0..Qty]
Holdings == [Symbols -> 0..(Qty + 1)]
Nothing == [s \in Symbols |-> 0]

\* "down": has crashed, and starts again.
Points == {"idle", "down", "orders", "import", "positions", "certify", "classify", "report", "recover"}
\* "inventory": all objections are among the inventory_errors.
Kinds == {"inventory", "other"}
\* acts, polled, seen, pending: of the poll.  held, foreign: positions, and whether
\* they hold someone else's (history).  expected: the ledger's quantities in the
\* refused proof.  latest: neither ledger nor certification has moved since.
Captures == [pc : Points, acts : Quantities, polled : SUBSET Symbols, seen : Quantities,
             pending : SUBSET Symbols, held : Holdings, foreign : SUBSET Symbols,
             expected : Quantities, crossed : BOOLEAN, latest : BOOLEAN, kind : Kinds]
IdleCapture == [pc |-> "idle", acts |-> Nothing, polled |-> {}, seen |-> Nothing,
                pending |-> {}, held |-> Nothing, foreign |-> {}, expected |-> Nothing,
                crossed |-> FALSE, latest |-> FALSE, kind |-> "inventory"]

\* scope: the symbols it blocks; all of them for the account.  newer: certified since
\* (proof.generation > failed_generation).
Failures == [scope : {Symbols} \cup {{s} : s \in Symbols}, kind : Kinds, newer : BOOLEAN]
\* The integrity failures of a symbol: none, one, or several, which nothing resolves.
\* late: the one refused proof is of the kind that resolve_delayed_owned_buy explains;
\* then held are its positions.  foreign: they held someone else's.
Quarantines == [events : 0..2, late : BOOLEAN, held : Holdings, foreign : BOOLEAN,
                newer : BOOLEAN]
Quarantined(n) == [events |-> n, late |-> FALSE, held |-> Nothing, foreign |-> FALSE,
                   newer |-> FALSE]

TypeOK ==
  /\ intent \in [Symbols -> {"idle", "sending", "accepted", "void"}]
  /\ adopted \subseteq placed /\ placed \subseteq Symbols
  /\ \A q \in {filled, published, known, fills} : q \in Quantities
  /\ \A s \in Symbols : fills[s] <= published[s] /\ published[s] <= filled[s]
  /\ stray \in [Symbols -> {"never", "here", "gone"}]
  /\ capture \in [Captors -> Captures]
  /\ failures \subseteq Failures /\ quarantine \in [Symbols -> Quarantines]
  /\ acked \subseteq Symbols
  /\ current \in BOOLEAN /\ revoked \in BOOLEAN /\ paused \in BOOLEAN

Init ==
  /\ intent = [s \in Symbols |-> "idle"]
  /\ placed = {} /\ filled = Nothing /\ published = Nothing
  /\ stray = [s \in Symbols |-> "never"]
  /\ adopted = {} /\ known = Nothing /\ fills = Nothing
  /\ current = TRUE /\ revoked = FALSE
  /\ capture = [g \in Captors |-> IdleCapture]
  /\ failures = {} /\ quarantine = [s \in Symbols |-> Quarantined(0)] /\ acked = {}
  /\ paused \in BOOLEAN

-----------------------------------------------------------------------------
(* Health: what blocks an entry, and reports.                              *)

\* entry_health_objections.
Objected(s) ==
  \/ paused
  \/ \E f \in failures : s \in f.scope
  \/ quarantine[s].events > 0

\* report.  An older failure of the same scope and kind is recovered no later.
Report(scope, kind) ==
  {f \in failures : f.scope # scope \/ f.kind # kind}
    \cup {[scope |-> scope, kind |-> kind, newer |-> FALSE]}

-----------------------------------------------------------------------------
(* Entries and the broker (external).                                      *)

\* The trader synchronizes, recovers, decides and sends, one after the other.
TraderDecides == capture["trader"].pc = "idle"

\* The send fence; a guardian's acquisition under way is crossed by the send.
Send(s) ==
  /\ TraderDecides
  /\ intent[s] = "idle" /\ current /\ ~revoked /\ ~Objected(s)
  /\ intent' = [intent EXCEPT ![s] = "sending"]
  /\ capture' = [capture EXCEPT !["guardian"].crossed =
       @ \/ capture["guardian"].pc \in {"orders", "import", "positions", "certify"}]
  /\ UNCHANGED <<broker, ledger, health, acked, paused>>

\* The order comes into being.
Place(s) ==
  /\ intent[s] = "sending" /\ s \notin placed
  /\ placed' = placed \cup {s}
  /\ UNCHANGED <<intent, filled, published, stray, ledger, capture, health, acked, paused>>

\* What is stored of orders and fills; the ledger only grows, so a certification or a
\* refused proof of it never becomes current again.
Store(orders, quantities, new) ==
  /\ adopted' = orders /\ known' = quantities /\ fills' = new
  /\ UNCHANGED revoked
  /\ current' = (current /\ <<orders, quantities, new>> = <<adopted, known, fills>>)

Stale(captures) ==
  [g \in Captors |-> [captures[g] EXCEPT !.latest =
     @ /\ <<adopted', known', fills'>> = <<adopted, known, fills>>]]

\* The answer to the POST is stored, unless a poll was first; a trader that goes on
\* without it leaves it to the polls.
Acknowledge(s) ==
  /\ TraderDecides
  /\ intent[s] = "sending" /\ s \in placed
  /\ intent' = [intent EXCEPT ![s] = "accepted"]
  /\ Store(adopted \cup {s}, known, fills)
  /\ capture' = Stale(capture)
  /\ UNCHANGED <<broker, health, acked, paused>>

\* The request was withheld, or refused by the broker.
Unsent(s) ==
  /\ TraderDecides
  /\ intent[s] = "sending" /\ s \notin placed
  /\ intent' = [intent EXCEPT ![s] = "void"]
  /\ UNCHANGED <<broker, ledger, capture, health, acked, paused>>

Fill(s) ==
  /\ s \in placed /\ filled[s] < Qty
  /\ filled' = [filled EXCEPT ![s] = @ + 1]
  /\ UNCHANGED <<intent, placed, published, stray, ledger, capture, health, acked, paused>>

\* "A genuine publication delay": the activities follow the fills.
Publish(s) ==
  /\ published[s] < filled[s]
  /\ published' = [published EXCEPT ![s] = @ + 1]
  /\ UNCHANGED <<intent, placed, filled, stray, ledger, capture, health, acked, paused>>

\* Someone else buys one, and sells it again.
Stranger(s) ==
  /\ stray[s] # "gone"
  /\ stray' = [stray EXCEPT ![s] = IF @ = "never" THEN "here" ELSE "gone"]
  /\ UNCHANGED <<intent, placed, filled, published, ledger, capture, health, acked, paused>>

-----------------------------------------------------------------------------
(* synchronize: recover_intents, paired position reads, certification.     *)

\* owned_events reads the activities first...
Begin(g) ==
  /\ capture[g].pc \in {"idle", "down"}
  /\ capture' = [capture EXCEPT ![g] = [IdleCapture EXCEPT !.pc = "orders", !.acts = published]]
  /\ UNCHANGED <<intent, broker, ledger, health, acked, paused>>

\* ... then, twice, the orders of the intents that may have been sent.  An order both
\* reads agree on, and filled beyond its activities, is pending; the reads of an order
\* that can still fill may differ.
ReadOrders(g) ==
  LET c == capture[g]
      beyond == {s \in placed : c.acts[s] < filled[s]}
  IN
  /\ c.pc = "orders"
  /\ \E moved \in SUBSET {s \in beyond : filled[s] < Qty} :
       /\ capture' = [capture EXCEPT ![g].pc = "import", ![g].polled = placed,
                                     ![g].seen = filled, ![g].pending = beyond \ moved]
       /\ acked' = acked \cup {s \in beyond : filled[s] = Qty}
  /\ UNCHANGED <<intent, broker, ledger, health, paused>>

\* Variant: an activity that is polled again is recorded again.
RecordedAgain(c, owned) == [s \in Symbols |-> IF s \in owned THEN c.acts[s] + fills[s] ELSE fills[s]]

\* Each activity of a stored order is a fill.
Recorded(c, owned) ==
  [s \in Symbols |-> IF s \in owned THEN Max({c.acts[s], fills[s]}) ELSE fills[s]]

\* import_broker_events: orders first, then the fills of stored orders.
Import(g) ==
  LET c == capture[g]
      owned == adopted \cup c.polled
  IN
  /\ c.pc = "import"
  /\ \A s \in c.polled : c.seen[s] >= known[s]
  /\ Store(owned,
           [s \in Symbols |-> IF s \in c.polled THEN c.seen[s] ELSE known[s]],
           Recorded(c, owned))
  /\ intent' = [s \in Symbols |->
       IF s \in c.polled /\ intent[s] = "sending" THEN "accepted" ELSE intent[s]]
  /\ capture' = [Stale(capture) EXCEPT ![g].pc = "positions", ![g].acts = Nothing,
       ![g].polled = {}, ![g].seen = [s \in Symbols |-> IF s \in c.pending THEN @[s] ELSE 0]]
  /\ UNCHANGED <<broker, health, acked, paused>>

\* An order that has been stored with more fills since the poll refuses the import.
RefuseImport(g) ==
  /\ capture[g].pc = "import"
  /\ \E s \in capture[g].polled : capture[g].seen[s] < known[s]
  /\ capture' = [capture EXCEPT ![g] = [IdleCapture EXCEPT
       !.pc = IF g = "trader" THEN "report" ELSE "idle", !.kind = "other"]]
  /\ UNCHANGED <<intent, broker, ledger, health, acked, paused>>

\* The positions; read twice, they are those of one moment.
ReadPositions(g) ==
  /\ capture[g].pc = "positions"
  /\ capture' = [capture EXCEPT ![g].pc = "certify",
       ![g].held = [s \in Symbols |-> filled[s] + IF stray[s] = "here" THEN 1 ELSE 0],
       ![g].foreign = {s \in Symbols : stray[s] = "here"}]
  /\ UNCHANGED <<intent, broker, ledger, health, acked, paused>>

Failed(g) == [IdleCapture EXCEPT !.pc = "report"]

\* The two reads differ, or took too long: INVENTORY_ACQUISITION_UNSTABLE.
Unstable(g) ==
  /\ capture[g].pc = "positions"
  /\ failures' = Report({Home}, "inventory")
  /\ capture' = [capture EXCEPT ![g] = Failed(g)]
  /\ UNCHANGED <<intent, broker, ledger, quarantine, acked, paused>>

\* Under the writer lock: a send during the acquisition spoils it, and all certified
\* authority to spend...
Crossed(g) ==
  /\ capture[g].pc = "certify" /\ capture[g].crossed
  /\ revoked' = TRUE
  /\ failures' = Report(Symbols, "other")
  /\ capture' = [capture EXCEPT ![g] = Failed(g)]
  /\ UNCHANGED <<intent, broker, adopted, known, fills, current, quarantine, acked, paused>>

\* ... positions that are the ledger's are certified...
Certify(g) ==
  LET c == capture[g] IN
  /\ c.pc = "certify" /\ ~c.crossed /\ c.held = fills
  /\ current' = TRUE /\ revoked' = FALSE
  /\ failures' = {[f EXCEPT !.newer = TRUE] : f \in failures}
  /\ quarantine' = [s \in Symbols |->
       [quarantine[s] EXCEPT !.newer = quarantine[s].late]]
  /\ capture' = [h \in Captors |-> IF h = g
       THEN [IdleCapture EXCEPT !.pc = "recover", !.latest = TRUE]
       ELSE [capture[h] EXCEPT !.latest = FALSE]]
  /\ UNCHANGED <<intent, broker, adopted, known, fills, acked, paused>>

\* ... and any other refusal is classified after the lock.
Mismatch(g) ==
  /\ capture[g].pc = "certify" /\ ~capture[g].crossed /\ capture[g].held # fills
  /\ capture' = [capture EXCEPT ![g].pc = "classify", ![g].expected = fills, ![g].latest = TRUE]
  /\ UNCHANGED <<intent, broker, ledger, health, acked, paused>>

-----------------------------------------------------------------------------
(* _classify_reconciliation_failure, under the writer lock again.          *)

\* Variant: the refused proof is taken as it was.
NeverMoved(c) == FALSE

\* Certification or ledger have moved since the refused proof.
Moved(c) == ~c.latest

\* Variant: acknowledgements explain a discrepancy, whatever its size.
ExplainedInexactly(c) ==
  /\ \A s \in c.pending : s \in adopted /\ known[s] = c.seen[s]
  /\ \A s \in Symbols : intent[s] = "sending" => s \in c.pending

\* _pending_owned_activity: stable acknowledgements of this poll, as stored, explain
\* the discrepancy exactly, and no other intent may have an unknown order.
Explained(c) ==
  /\ \A s \in c.pending : s \in adopted /\ known[s] = c.seen[s]
  /\ \A s \in Symbols : intent[s] = "sending" => s \in c.pending
  /\ \A s \in Symbols : c.held[s] =
       IF s \in c.pending THEN Max({c.seen[s], fills[s]}) ELSE fills[s]

\* What the resolver asks of the refused proof: the positions were those of the ledger
\* and all of the buy, whose fills had occurred and been acknowledged by then.
Late(c, s) ==
  /\ \A t \in Symbols : c.expected[t] = IF t = s THEN 0 ELSE c.held[t]
  /\ c.held[s] = Qty /\ filled[s] = Qty /\ s \in acked

\* INVENTORY_OWNERSHIP_CONTRADICTION, per symbol that differs.
Contradicted(c) == [s \in Symbols |->
  IF c.held[s] = c.expected[s] THEN quarantine[s]
  ELSE IF quarantine[s].events > 0 THEN Quarantined(2)
  ELSE [events |-> 1, late |-> Late(c, s), held |-> IF Late(c, s) THEN c.held ELSE Nothing,
        foreign |-> s \in c.foreign, newer |-> FALSE]]

\* RECONCILIATION_AUTHORITY_CHANGED or OWNED_FILL_ACTIVITY_PENDING: try again.
Defer(g) ==
  LET c == capture[g] IN
  /\ c.pc = "classify"
  /\ Moved(c) \/ Explained(c)
  /\ failures' = Report(IF Moved(c) THEN {Home} ELSE Symbols, "inventory")
  /\ capture' = [capture EXCEPT ![g] = Failed(g)]
  /\ UNCHANGED <<intent, broker, ledger, quarantine, acked, paused>>

Contradict(g) ==
  LET c == capture[g] IN
  /\ c.pc = "classify"
  /\ ~Moved(c) /\ ~Explained(c)
  /\ quarantine' = Contradicted(c)
  /\ capture' = [capture EXCEPT ![g] = [IdleCapture EXCEPT
       !.pc = IF g = "trader" THEN "report" ELSE "idle", !.kind = "other"]]
  /\ UNCHANGED <<intent, broker, ledger, failures, acked, paused>>

\* The role reports that its acquisition failed: the guardian for its own symbol,
\* the trader for the account.
ReportFailure(g) ==
  /\ capture[g].pc = "report"
  /\ failures' = Report(IF g = "guardian" THEN {Home} ELSE Symbols, capture[g].kind)
  /\ capture' = [capture EXCEPT ![g] = IdleCapture]
  /\ UNCHANGED <<intent, broker, ledger, quarantine, acked, paused>>

-----------------------------------------------------------------------------
(* Recovery.                                                               *)

Quarantine == \E s \in Symbols : quarantine[s].events > 0

\* recover_inventory_health: by the guardian's own fresh certificate.
GuardianRecovers ==
  LET c == capture["guardian"] IN
  /\ c.pc = "recover"
  /\ failures' = IF c.latest /\ ~revoked /\ ~paused /\ ~Quarantine
       THEN {f \in failures : ~(f.newer /\ f.kind = "inventory" /\ f.scope \in {{Home}, Symbols})}
       ELSE failures
  /\ capture' = [capture EXCEPT !["guardian"] = IdleCapture]
  /\ UNCHANGED <<intent, broker, ledger, quarantine, acked, paused>>

\* Variant: as the guardian does, the trader recovers failures of inventory only.
RecoveredInventory(fresh) ==
  {f \in failures : f.newer /\ f.kind = "inventory" /\ \E s \in fresh : s \in f.scope}

\* What the certificate recovers for the symbols with fresh data: a quarantine
\* keeps everything in its symbol's scope.
Recovered(fresh) ==
  {f \in failures : f.newer /\ \E s \in fresh : s \in f.scope /\ quarantine[s].events = 0}

\* recover_health_many.
TraderRecovers(fresh) ==
  LET c == capture["trader"] IN
  /\ c.pc = "recover"
  /\ failures' = IF c.latest /\ ~revoked /\ ~paused THEN failures \ Recovered(fresh) ELSE failures
  /\ capture' = [capture EXCEPT !["trader"] = IdleCapture]
  /\ UNCHANGED <<intent, broker, ledger, quarantine, acked, paused>>

\* Variant: any quarantine is resolved once the order is complete.
ResolvableLater(s) == current /\ quarantine[s].events = 1 /\ known[s] = Qty

\* resolve_delayed_owned_buy: the one contradiction that can be explained later, when
\* the buy is complete and what its proof held is certified now.
Resolvable(s) ==
  LET q == quarantine[s] IN
  /\ current /\ q.events = 1 /\ q.late /\ q.newer
  /\ q.held = fills
  /\ \A t \in Symbols : intent[t] # "sending" /\ (t \in adopted => known[t] = Qty)
  /\ known[s] = Qty

\* With an operator's approval of this very event.
Resolve(s) ==
  /\ Resolvable(s)
  /\ quarantine' = [quarantine EXCEPT ![s] = Quarantined(0)]
  /\ UNCHANGED <<intent, broker, ledger, capture, failures, acked, paused>>

-----------------------------------------------------------------------------
(* Faults: a failed read, a crash, a wait, the operator.                   *)

FailRead(g) ==
  /\ capture[g].pc \in {"orders", "import", "positions"}
  /\ capture' = [capture EXCEPT ![g] = Failed(g)]
  /\ UNCHANGED <<intent, broker, ledger, health, acked, paused>>

Crash(g) ==
  /\ capture[g].pc \notin {"idle", "down"}
  /\ capture' = [capture EXCEPT ![g] = [IdleCapture EXCEPT !.pc = "down"]]
  /\ UNCHANGED <<intent, broker, ledger, health, acked, paused>>

\* The trader waits: stale data of a symbol, or an entry refused at the fence.
Wait(s) ==
  /\ TraderDecides
  /\ failures' = Report({s}, "other")
  /\ UNCHANGED <<intent, broker, ledger, capture, quarantine, acked, paused>>

\* The operator releases the kill switch, which may be engaged when the roles start.
Release ==
  /\ paused
  /\ paused' = FALSE
  /\ UNCHANGED <<intent, broker, ledger, capture, health, acked>>

-----------------------------------------------------------------------------

CaptureStep(g) ==
  \/ Begin(g) \/ ReadOrders(g) \/ Import(g) \/ RefuseImport(g) \/ ReadPositions(g)
  \/ Crossed(g) \/ Certify(g) \/ Mismatch(g)
  \/ Defer(g) \/ Contradict(g) \/ ReportFailure(g)

Interruption ==
  \/ \E g \in Captors : Unstable(g) \/ FailRead(g) \/ Crash(g)
  \/ \E s \in Symbols : Wait(s)

Next ==
  \/ \E g \in Captors : CaptureStep(g)
  \/ Interruption
  \/ GuardianRecovers
  \/ \E fresh \in SUBSET Symbols : TraderRecovers(fresh)
  \/ \E s \in Symbols : Send(s) \/ Place(s) \/ Acknowledge(s) \/ Unsent(s)
  \/ \E s \in Symbols : Fill(s) \/ Publish(s) \/ Stranger(s) \/ Resolve(s)
  \/ Release

Spec == Init /\ [][Next]_vars

\* Roles cycle, in the end without interruption; activities are published.  The
\* trader's recovery follows its own certification at once: with fresh data of every
\* symbol, and ahead of the guardian's next certification, it runs again and again,
\* unless the roles cycle in lockstep.
Fairness ==
  /\ \A g \in Captors : WF_vars(CaptureStep(g))
  /\ WF_vars(GuardianRecovers) /\ WF_vars(\E fresh \in SUBSET Symbols : TraderRecovers(fresh))
  /\ SF_vars(TraderRecovers(Symbols) /\ capture["trader"].latest /\ ~revoked)
  /\ \A s \in Symbols : WF_vars(Publish(s))
  /\ <>[][~Interruption]_vars

FairSpec == Spec /\ Fairness

-----------------------------------------------------------------------------

\* "Stale refusals cannot quarantine": a contradiction is recorded only against the
\* quantities the ledger has at that moment, whoever moved it since the proof.
StaleNeverQuarantines ==
  [][\A s \in Symbols : quarantine'[s].events > quarantine[s].events =>
       \E g \in Captors : /\ capture[g].pc = "classify" /\ capture'[g].pc # "classify"
                          /\ capture[g].expected = fills /\ capture[g].held[s] # fills[s]]_vars

\* "Repeating broker observations does not repair it": a quarantine of someone
\* else's quantity is lifted only after that quantity has left the account.
QuarantineStands ==
  [][\A s \in Symbols : quarantine[s].foreign /\ quarantine'[s].events = 0 =>
       stray[s] = "gone"]_vars

\* "Recover automatically after fresh complete evidence": no interruption keeps
\* entries blocked for good, unless there is a quarantine or a pause.
FailuresRecover == failures # {} ~> (failures = {} \/ Quarantine \/ paused)

\* Someone else's quantity is found out, whatever activity is pending beside it.
StrayIsQuarantined ==
  \A s \in Symbols : stray[s] = "here" ~> (stray[s] # "here" \/ quarantine[s].events > 0)
=============================================================================
