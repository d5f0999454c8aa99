-------------------------- MODULE QuarantineProofs --------------------------
(***************************************************************************)
(* Proofs about Quarantine, for any symbols and any quantity of an entry:   *)
(* typing, that a stale refusal never quarantines, and that a quarantine of *)
(* someone else's quantity stands while that quantity is there.             *)
(***************************************************************************)
EXTENDS Quarantine, TLAPS

-----------------------------------------------------------------------------
(* The inductive invariant.                                                *)

(* What a poll has read is still there: activities and orders only grow.   *)
PollInv ==
  \A g \in Captors : /\ capture[g].polled \subseteq placed
                     /\ \A s \in Symbols : capture[g].acts[s] <= published[s]

(* A refused proof that nothing has moved since is about today's ledger.   *)
LatestInv ==
  \A g \in Captors :
    capture[g].pc = "classify" /\ capture[g].latest => capture[g].expected = fills

IInv == TypeOK /\ PollInv /\ LatestInv

-----------------------------------------------------------------------------
(* Lemmas about the operators.                                             *)

\* The larger of two numbers is one of them.
LEMMA MaxOfTwo ==
  ASSUME NEW a \in Nat, NEW b \in Nat
  PROVE  Max({a, b}) \in {a, b}
<1>1. \E x \in {a, b} : \A y \in {a, b} : x >= y
  <2>1. CASE a >= b
    BY <2>1
  <2>2. CASE ~(a >= b)
    BY <2>2
  <2> QED BY <2>1, <2>2
<1> QED BY <1>1 DEF Max

\* An acquisition starts from a typed record.
LEMMA IdleType == IdleCapture \in Captures
BY HomeAssumption DEF IdleCapture, Captures, Points, Kinds, Quantities, Holdings, Nothing

\* Reports are typed for the scopes of the code.
LEMMA ReportType ==
  ASSUME failures \subseteq Failures, NEW kind \in Kinds,
         NEW scope \in {Symbols} \cup {{s} : s \in Symbols}
  PROVE  Report(scope, kind) \subseteq Failures
<1> DEFINE new == [scope |-> scope, kind |-> kind, newer |-> FALSE]
<1>1. new \in Failures
  BY DEF Failures
<1> HIDE DEF new
<1>2. {f \in failures : f.scope # scope \/ f.kind # kind} \cup {new} \subseteq Failures
  BY <1>1
<1> QED BY <1>2 DEF Report, new

LEMMA QuarantinedType ==
  ASSUME NEW n \in 0..2
  PROVE  Quarantined(n) \in Quarantines
BY HomeAssumption DEF Quarantined, Quarantines, Holdings, Nothing

\* What is recorded of the activities stays among the published fills.
LEMMA RecordedBound ==
  ASSUME TypeOK, PollInv, NEW g \in Captors, NEW owned \in SUBSET Symbols
  PROVE  /\ Recorded(capture[g], owned) \in Quantities
         /\ \A s \in Symbols : Recorded(capture[g], owned)[s] <= published[s]
<1>1. \A s \in Symbols : /\ capture[g].acts[s] \in 0..Qty /\ fills[s] \in 0..Qty
                         /\ capture[g].acts[s] <= published[s] /\ fills[s] <= published[s]
  BY DEF TypeOK, PollInv, Captures, Quantities
<1>2. \A s \in Symbols : Max({capture[g].acts[s], fills[s]}) \in {capture[g].acts[s], fills[s]}
  BY <1>1, MaxOfTwo, HomeAssumption
<1> QED BY <1>1, <1>2 DEF Recorded, Quantities

\* Storing evidence keeps the captures typed.
LEMMA StaleType ==
  ASSUME TypeOK
  PROVE  Stale(capture) \in [Captors -> Captures]
<1>1. ASSUME NEW g \in Captors
      PROVE  Stale(capture)[g] \in Captures
  <2>1. (capture[g].latest /\ <<adopted', known', fills'>> = <<adopted, known, fills>>) \in BOOLEAN
    BY Zenon
  <2> QED BY ZenonT(90), <2>1 DEF Stale, TypeOK, Captures
<1> QED BY <1>1 DEF Stale

LEMMA StoreType ==
  ASSUME NEW orders, NEW quantities, NEW new, Store(orders, quantities, new)
  PROVE  current' \in BOOLEAN
<1>1. (current /\ <<orders, quantities, new>> = <<adopted, known, fills>>) \in BOOLEAN
  BY Zenon
<1> QED BY <1>1 DEF Store

\* A captor that starts over, at whatever point.
LEMMA RestartType ==
  ASSUME TypeOK, NEW g \in Captors, NEW c \in Captures,
         capture' = [capture EXCEPT ![g] = c]
  PROVE  capture' \in [Captors -> Captures]
BY DEF TypeOK

LEMMA PointType ==
  ASSUME NEW p \in Points, NEW k \in Kinds, NEW b \in BOOLEAN, NEW a \in Quantities
  PROVE  [IdleCapture EXCEPT !.pc = p, !.acts = a, !.latest = b, !.kind = k] \in Captures
BY IdleType DEF Captures

-----------------------------------------------------------------------------
(* Typing.                                                                 *)

LEMMA InitInv == Init => IInv
<1> SUFFICES ASSUME Init PROVE IInv
  OBVIOUS
<1>1. TypeOK
  <2>1. \A q \in {filled, published, known, fills} : q \in Quantities
    BY HomeAssumption DEF Init, Quantities, Nothing
  <2>2. capture \in [Captors -> Captures]
    BY IdleType DEF Init
  <2>3. quarantine \in [Symbols -> Quarantines]
    BY QuarantinedType DEF Init
  <2>4. \A s \in Symbols : fills[s] <= published[s] /\ published[s] <= filled[s]
    BY DEF Init, Nothing
  <2>5. /\ intent \in [Symbols -> {"idle", "sending", "accepted", "void"}]
        /\ stray \in [Symbols -> {"never", "here", "gone"}]
    BY DEF Init
  <2> QED BY <2>1, <2>2, <2>3, <2>4, <2>5 DEF Init, TypeOK
<1>2. PollInv /\ LatestInv
  BY HomeAssumption DEF Init, PollInv, LatestInv, IdleCapture, Nothing
<1> QED BY <1>1, <1>2 DEF IInv

\* Entries and the broker.
LEMMA TypeEntry ==
  ASSUME TypeOK, NEW s \in Symbols,
         Send(s) \/ Place(s) \/ Acknowledge(s) \/ Unsent(s) \/ Fill(s) \/ Publish(s) \/ Stranger(s)
  PROVE  TypeOK'
<1>1. CASE Send(s)
  <2> DEFINE crossing == capture["guardian"].crossed
                \/ capture["guardian"].pc \in {"orders", "import", "positions", "certify"}
  <2>1. crossing \in BOOLEAN
    BY Zenon
  <2>2. capture' = [capture EXCEPT !["guardian"].crossed = crossing]
    BY <1>1 DEF Send
  <2> HIDE DEF crossing
  <2>3. capture' \in [Captors -> Captures]
    BY <2>1, <2>2 DEF TypeOK, Captures, Captors
  <2> QED BY <1>1, <2>3 DEF TypeOK, Send, broker, ledger, health
<1>2. CASE Place(s)
  BY <1>2 DEF TypeOK, Place, ledger, health
<1>3. CASE Acknowledge(s)
  <2>1. capture' \in [Captors -> Captures]
    BY <1>3, StaleType DEF Acknowledge
  <2>2. current' \in BOOLEAN
    BY <1>3, StoreType DEF Acknowledge
  <2> QED BY <1>3, <2>1, <2>2 DEF TypeOK, Acknowledge, Store, broker, health
<1>4. CASE Unsent(s)
  BY <1>4 DEF TypeOK, Unsent, broker, ledger, health
<1>5. CASE Fill(s)
  <2>1. filled' \in Quantities /\ \A t \in Symbols : filled[t] <= filled'[t]
    BY <1>5, HomeAssumption DEF TypeOK, Fill, Quantities
  <2>2. \A t \in Symbols : published[t] <= filled'[t]
    BY <2>1, HomeAssumption DEF TypeOK, Quantities
  <2> QED BY <1>5, <2>1, <2>2 DEF TypeOK, Fill, ledger, health
<1>6. CASE Publish(s)
  <2>1. /\ published' \in Quantities
        /\ \A t \in Symbols : published[t] <= published'[t] /\ published'[t] <= filled[t]
    BY <1>6, HomeAssumption DEF TypeOK, Publish, Quantities
  <2>2. \A t \in Symbols : fills[t] <= published'[t]
    BY <2>1, HomeAssumption DEF TypeOK, Quantities
  <2> QED BY <1>6, <2>1, <2>2 DEF TypeOK, Publish, ledger, health
<1>7. CASE Stranger(s)
  BY <1>7 DEF TypeOK, Stranger, ledger, health
<1> QED BY <1>1, <1>2, <1>3, <1>4, <1>5, <1>6, <1>7

\* The acquisition up to its certificate.
LEMMA TypeAcquire ==
  ASSUME TypeOK, PollInv, NEW g \in Captors,
         Begin(g) \/ ReadOrders(g) \/ Import(g) \/ RefuseImport(g) \/ ReadPositions(g)
  PROVE  TypeOK'
<1>1. CASE Begin(g)
  <2>1. [IdleCapture EXCEPT !.pc = "orders", !.acts = published] \in Captures
    BY IdleType DEF TypeOK, Captures, Points
  <2>2. capture' \in [Captors -> Captures]
    BY <1>1, <2>1, RestartType DEF Begin
  <2> QED BY <1>1, <2>2 DEF TypeOK, Begin, broker, ledger, health
<1>2. CASE ReadOrders(g)
  <2> DEFINE beyond == {s \in placed : capture[g].acts[s] < filled[s]}
  <2>0. PICK moved : moved \subseteq beyond /\ capture' =
          [capture EXCEPT ![g].pc = "import", ![g].polled = placed, ![g].seen = filled,
                          ![g].pending = beyond \ moved]
    BY <1>2 DEF ReadOrders
  <2> DEFINE pending == beyond \ moved
  <2>a. pending \in SUBSET Symbols /\ placed \in SUBSET Symbols /\ filled \in Quantities
    BY DEF TypeOK
  <2> HIDE DEF pending
  <2>1. capture' \in [Captors -> Captures]
    <3> DEFINE c == [capture[g] EXCEPT !.pc = "import", !.polled = placed, !.seen = filled,
                                       !.pending = pending]
    <3>1. c \in Captures
      BY ZenonT(90), <2>a DEF TypeOK, Captures, Points
    <3>2. capture' = [capture EXCEPT ![g] = c]
      BY <2>0 DEF pending, TypeOK
    <3> QED BY <3>1, <3>2, RestartType
  <2>2. acked' \subseteq Symbols
    BY <1>2 DEF TypeOK, ReadOrders
  <2> QED BY <1>2, <2>1, <2>2 DEF TypeOK, ReadOrders, broker, ledger, health
<1>3. CASE Import(g)
  <2> DEFINE owned == adopted \cup capture[g].polled
             seen == [s \in Symbols |-> IF s \in capture[g].polled THEN capture[g].seen[s] ELSE known[s]]
  <2>1. owned \subseteq placed /\ owned \in SUBSET Symbols
    BY DEF TypeOK, PollInv
  <2>2. seen \in Quantities
    BY DEF TypeOK, Captures, Quantities
  <2>3. /\ Recorded(capture[g], owned) \in Quantities
        /\ \A s \in Symbols : Recorded(capture[g], owned)[s] <= published[s]
    BY <2>1, RecordedBound
  <2>4. /\ adopted' = owned /\ known' = seen /\ fills' = Recorded(capture[g], owned)
        /\ current' \in BOOLEAN /\ revoked' = revoked
    BY <1>3, StoreType DEF Import, Store
  <2>5. capture' \in [Captors -> Captures]
    <3>1. \A h \in Captors : Stale(capture)[h] \in Captures
      BY StaleType
    <3>2. Nothing \in Quantities
      BY HomeAssumption DEF Nothing, Quantities
    <3>3. [s \in Symbols |-> IF s \in capture[g].pending THEN Stale(capture)[g].seen[s] ELSE 0]
            \in Quantities
      BY <3>1, HomeAssumption DEF Captures, Quantities
    <3> DEFINE c == [Stale(capture)[g] EXCEPT !.pc = "positions", !.acts = Nothing, !.polled = {},
               !.seen = [s \in Symbols |-> IF s \in capture[g].pending THEN @[s] ELSE 0]]
    <3>4. c \in Captures
      BY <3>1, <3>2, <3>3 DEF Captures, Points
    <3>5. capture' = [Stale(capture) EXCEPT ![g] = c]
      BY <1>3, StaleType DEF Import
    <3> HIDE DEF c
    <3> QED BY <3>4, <3>5, StaleType
  <2>6. intent' \in [Symbols -> {"idle", "sending", "accepted", "void"}]
    BY <1>3 DEF TypeOK, Import
  <2> HIDE DEF owned, seen
  <2> QED BY <1>3, <2>1, <2>2, <2>3, <2>4, <2>5, <2>6 DEF TypeOK, Import, broker, health
<1>4. CASE RefuseImport(g)
  <2>1. [IdleCapture EXCEPT !.pc = IF g = "trader" THEN "report" ELSE "idle", !.kind = "other"]
          \in Captures
    BY IdleType DEF Captures, Points, Kinds
  <2>2. capture' \in [Captors -> Captures]
    BY <1>4, <2>1, RestartType DEF RefuseImport
  <2> QED BY <1>4, <2>2 DEF TypeOK, RefuseImport, broker, ledger, health
<1>5. CASE ReadPositions(g)
  <2>1. [s \in Symbols |-> filled[s] + IF stray[s] = "here" THEN 1 ELSE 0] \in Holdings
    BY HomeAssumption DEF TypeOK, Quantities, Holdings
  <2>2. capture' \in [Captors -> Captures]
    <3> DEFINE held == [s \in Symbols |-> filled[s] + IF stray[s] = "here" THEN 1 ELSE 0]
               foreign == {s \in Symbols : stray[s] = "here"}
               c == [capture[g] EXCEPT !.pc = "certify", !.held = held, !.foreign = foreign]
    <3>1. capture' = [capture EXCEPT ![g] = c]
      BY <1>5 DEF ReadPositions, TypeOK
    <3>2. held \in Holdings /\ foreign \in SUBSET Symbols
      BY <2>1
    <3> HIDE DEF held, foreign
    <3>3. c \in Captures
      BY ZenonT(90), <3>2 DEF TypeOK, Captures, Points
    <3> QED BY <3>1, <3>3, RestartType
  <2> QED BY <1>5, <2>2 DEF TypeOK, ReadPositions, broker, ledger, health
<1> QED BY <1>1, <1>2, <1>3, <1>4, <1>5

LEMMA FailedType ==
  ASSUME NEW g \in Captors
  PROVE  Failed(g) \in Captures
BY IdleType DEF Failed, Captures, Points

\* Failures are reported for the symbol of the configuration or for the account.
LEMMA ReportedType ==
  ASSUME TypeOK, NEW kind \in Kinds, NEW scope,
         scope = Symbols \/ \E s \in Symbols : scope = {s},
         failures' = Report(scope, kind)
  PROVE  failures' \subseteq Failures
BY ReportType DEF TypeOK

\* Certification, and everything that follows a refusal.
LEMMA TypeDecide ==
  ASSUME TypeOK, NEW g \in Captors,
         \/ Unstable(g) \/ Crossed(g) \/ Certify(g) \/ Mismatch(g)
         \/ Defer(g) \/ Contradict(g) \/ ReportFailure(g)
  PROVE  TypeOK'
<1> USE DEF Kinds
<1>1. CASE Unstable(g)
  <2>1. failures' \subseteq Failures
    BY <1>1, ReportedType, HomeAssumption DEF Unstable
  <2>2. capture' \in [Captors -> Captures]
    BY <1>1, FailedType, RestartType DEF Unstable
  <2> QED BY <1>1, <2>1, <2>2 DEF TypeOK, Unstable, broker, ledger
<1>2. CASE Crossed(g)
  <2>1. failures' \subseteq Failures
    BY <1>2, ReportedType DEF Crossed
  <2>2. capture' \in [Captors -> Captures]
    BY <1>2, FailedType, RestartType DEF Crossed
  <2> QED BY <1>2, <2>1, <2>2 DEF TypeOK, Crossed, broker
<1>3. CASE Certify(g)
  <2>1. failures' \subseteq Failures
    BY <1>3 DEF TypeOK, Certify, Failures
  <2>2. quarantine' \in [Symbols -> Quarantines]
    BY <1>3 DEF TypeOK, Certify, Quarantines
  <2>3. capture' \in [Captors -> Captures]
    <3>1. [IdleCapture EXCEPT !.pc = "recover", !.latest = TRUE] \in Captures
      BY IdleType DEF Captures, Points
    <3>2. \A h \in Captors : [capture[h] EXCEPT !.latest = FALSE] \in Captures
      BY DEF TypeOK, Captures
    <3> QED BY <1>3, <3>1, <3>2 DEF Certify
  <2> QED BY <1>3, <2>1, <2>2, <2>3 DEF TypeOK, Certify, broker
<1>4. CASE Mismatch(g)
  <2>1. capture' \in [Captors -> Captures]
    <3> DEFINE c == [capture[g] EXCEPT !.pc = "classify", !.expected = fills, !.latest = TRUE]
    <3>1. capture' = [capture EXCEPT ![g] = c]
      BY <1>4 DEF Mismatch, TypeOK
    <3>2. c \in Captures
      BY ZenonT(90) DEF TypeOK, Captures, Points
    <3> QED BY <3>1, <3>2, RestartType
  <2> QED BY <1>4, <2>1 DEF TypeOK, Mismatch, broker, ledger, health
<1>5. CASE Defer(g)
  <2>1. failures' \subseteq Failures
    BY <1>5, ReportedType, HomeAssumption DEF Defer
  <2>2. capture' \in [Captors -> Captures]
    BY <1>5, FailedType, RestartType DEF Defer
  <2> QED BY <1>5, <2>1, <2>2 DEF TypeOK, Defer, broker, ledger
<1>6. CASE Contradict(g)
  <2>1. quarantine' \in [Symbols -> Quarantines]
    <3>1. ASSUME NEW s \in Symbols
          PROVE  Contradicted(capture[g])[s] \in Quarantines
      <4> DEFINE q == [events |-> 1, late |-> Late(capture[g], s),
                       held |-> IF Late(capture[g], s) THEN capture[g].held ELSE Nothing,
                       foreign |-> s \in capture[g].foreign, newer |-> FALSE]
      <4>1. /\ Late(capture[g], s) \in BOOLEAN
            /\ (s \in capture[g].foreign) \in BOOLEAN
        <5>1. Late(capture[g], s) \in BOOLEAN
          BY DEF Late
        <5>2. (s \in capture[g].foreign) \in BOOLEAN
          OBVIOUS
        <5> QED BY <5>1, <5>2
      <4>2. (IF Late(capture[g], s) THEN capture[g].held ELSE Nothing) \in Holdings
        BY HomeAssumption DEF TypeOK, Captures, Nothing, Holdings
      <4>3. q \in Quarantines
        BY <4>1, <4>2 DEF Quarantines
      <4>4. quarantine[s] \in Quarantines /\ Quarantined(2) \in Quarantines
        BY QuarantinedType DEF TypeOK
      <4>5. Contradicted(capture[g])[s] \in {quarantine[s], Quarantined(2), q}
        BY DEF Contradicted
      <4> QED BY <4>3, <4>4, <4>5
    <3> QED BY <1>6, <3>1 DEF Contradict, Contradicted
  <2>2. capture' \in [Captors -> Captures]
    <3>1. [IdleCapture EXCEPT !.pc = IF g = "trader" THEN "report" ELSE "idle", !.kind = "other"]
            \in Captures
      BY IdleType DEF Captures, Points
    <3> QED BY <1>6, <3>1, RestartType DEF Contradict
  <2> QED BY <1>6, <2>1, <2>2 DEF TypeOK, Contradict, broker, ledger
<1>7. CASE ReportFailure(g)
  <2>1. capture[g].kind \in Kinds
    BY DEF TypeOK, Captures
  <2>2. failures' \subseteq Failures
    BY <1>7, <2>1, ReportedType, HomeAssumption DEF ReportFailure
  <2>3. capture' \in [Captors -> Captures]
    BY <1>7, IdleType, RestartType DEF ReportFailure
  <2> QED BY <1>7, <2>2, <2>3 DEF TypeOK, ReportFailure, broker, ledger
<1> QED BY <1>1, <1>2, <1>3, <1>4, <1>5, <1>6, <1>7

\* Recovery, resolution, interruptions and the kill switch.
LEMMA TypeRecover ==
  ASSUME TypeOK,
         \/ GuardianRecovers \/ Release
         \/ \E fresh \in SUBSET Symbols : TraderRecovers(fresh)
         \/ \E s \in Symbols : Resolve(s) \/ Wait(s)
         \/ \E g \in Captors : FailRead(g) \/ Crash(g)
  PROVE  TypeOK'
<1> USE DEF Kinds
<1>1. CASE GuardianRecovers
  <2>1. failures' \subseteq failures
    BY <1>1 DEF GuardianRecovers
  <2>2. capture' \in [Captors -> Captures]
    BY <1>1, IdleType, RestartType DEF GuardianRecovers, Captors
  <2> QED BY <1>1, <2>1, <2>2 DEF TypeOK, GuardianRecovers, broker, ledger
<1>2. CASE Release
  BY <1>2 DEF TypeOK, Release, broker, ledger, health
<1>3. ASSUME NEW fresh \in SUBSET Symbols, TraderRecovers(fresh) PROVE TypeOK'
  <2>1. failures' \subseteq failures
    BY <1>3 DEF TraderRecovers
  <2>2. capture' \in [Captors -> Captures]
    BY <1>3, IdleType, RestartType DEF TraderRecovers, Captors
  <2> QED BY <1>3, <2>1, <2>2 DEF TypeOK, TraderRecovers, broker, ledger
<1>4. ASSUME NEW s \in Symbols, Resolve(s) PROVE TypeOK'
  BY <1>4, QuarantinedType DEF TypeOK, Resolve, broker, ledger
<1>5. ASSUME NEW s \in Symbols, Wait(s) PROVE TypeOK'
  <2>1. failures' \subseteq Failures
    BY <1>5, ReportedType DEF Wait
  <2> QED BY <1>5, <2>1 DEF TypeOK, Wait, broker, ledger
<1>6. ASSUME NEW g \in Captors, FailRead(g) PROVE TypeOK'
  <2>1. capture' \in [Captors -> Captures]
    BY <1>6, FailedType, RestartType DEF FailRead
  <2> QED BY <1>6, <2>1 DEF TypeOK, FailRead, broker, ledger, health
<1>7. ASSUME NEW g \in Captors, Crash(g) PROVE TypeOK'
  <2>1. [IdleCapture EXCEPT !.pc = "down"] \in Captures
    BY IdleType DEF Captures, Points
  <2>2. capture' \in [Captors -> Captures]
    BY <1>7, <2>1, RestartType DEF Crash
  <2> QED BY <1>7, <2>2 DEF TypeOK, Crash, broker, ledger, health
<1> QED BY <1>1, <1>2, <1>3, <1>4, <1>5, <1>6, <1>7

LEMMA TypeStep ==
  ASSUME TypeOK, PollInv, [Next]_vars
  PROVE  TypeOK'
<1>1. CASE UNCHANGED vars
  BY <1>1 DEF TypeOK, vars, broker, ledger, health
<1> QED BY <1>1, TypeEntry, TypeAcquire, TypeDecide, TypeRecover
        DEF Next, CaptureStep, Interruption

-----------------------------------------------------------------------------
(* The other conjuncts.                                                    *)

\* A captor that starts over, or one that reads what is there, keeps both.
LEMMA RestartInv ==
  ASSUME TypeOK, PollInv, LatestInv, NEW g \in Captors, NEW c,
         capture' = [capture EXCEPT ![g] = c],
         c.polled \subseteq placed, \A s \in Symbols : c.acts[s] <= published[s],
         c.pc # "classify" \/ c.expected = fills,
         UNCHANGED <<placed, published, fills>>
  PROVE  PollInv' /\ LatestInv'
<1>1. \A h \in Captors : capture'[h] = IF h = g THEN c ELSE capture[h]
  BY DEF TypeOK
<1> QED BY <1>1 DEF PollInv, LatestInv

\* An idle acquisition has read nothing.
LEMMA IdleReads ==
  ASSUME TypeOK
  PROVE  /\ IdleCapture.polled \subseteq placed
         /\ \A s \in Symbols : IdleCapture.acts[s] <= published[s]
BY HomeAssumption DEF TypeOK, IdleCapture, Nothing, Quantities

LEMMA InvStep ==
  ASSUME TypeOK, PollInv, LatestInv, [Next]_vars
  PROVE  PollInv' /\ LatestInv'
<1>1. CASE UNCHANGED <<placed, published, fills, capture>>
  BY <1>1 DEF PollInv, LatestInv
<1>2. ASSUME NEW s \in Symbols, Send(s) PROVE PollInv' /\ LatestInv'
  <2> DEFINE c == [capture["guardian"] EXCEPT !.crossed =
                @ \/ capture["guardian"].pc \in {"orders", "import", "positions", "certify"}]
  <2>1. capture' = [capture EXCEPT !["guardian"] = c]
    BY <1>2 DEF Send, TypeOK
  <2>2. /\ c.polled = capture["guardian"].polled /\ c.acts = capture["guardian"].acts
        /\ c.pc = capture["guardian"].pc /\ c.expected = capture["guardian"].expected
        /\ c.latest = capture["guardian"].latest
    BY DEF TypeOK, Captures, Captors
  <2> HIDE DEF c
  <2>3. \A h \in Captors : capture'[h] = IF h = "guardian" THEN c ELSE capture[h]
    BY <2>1 DEF TypeOK
  <2> QED BY <1>2, <2>2, <2>3 DEF PollInv, LatestInv, Send, broker, ledger
<1>3. ASSUME NEW s \in Symbols, Place(s) \/ Publish(s) PROVE PollInv' /\ LatestInv'
  <2>1. /\ placed \subseteq placed' /\ UNCHANGED <<capture, fills>>
        /\ \A t \in Symbols : published[t] <= published'[t]
    BY <1>3, HomeAssumption DEF Place, Publish, ledger, TypeOK, Quantities
  <2>2. \A g \in Captors, t \in Symbols : capture[g].acts[t] <= published'[t]
    <3>1. \A g \in Captors, t \in Symbols : capture[g].acts[t] \in Nat
      BY HomeAssumption DEF TypeOK, Captures, Quantities
    <3>2. \A t \in Symbols : published[t] \in Nat /\ published'[t] \in Nat
      BY <1>3, HomeAssumption DEF Place, Publish, TypeOK, Quantities
    <3> QED BY <2>1, <3>1, <3>2 DEF PollInv
  <2> QED BY <2>1, <2>2 DEF PollInv, LatestInv
\* New evidence makes every refused proof an old one.
<1>4. ASSUME NEW s \in Symbols, Acknowledge(s) PROVE PollInv' /\ LatestInv'
  <2>1. \A h \in Captors : /\ capture'[h].polled = capture[h].polled
                           /\ capture'[h].acts = capture[h].acts
                           /\ capture'[h].pc = capture[h].pc
                           /\ capture'[h].expected = capture[h].expected
                           /\ capture'[h].latest => capture[h].latest
    BY <1>4 DEF Acknowledge, Stale, TypeOK, Captures
  <2> QED BY <1>4, <2>1 DEF Acknowledge, Store, PollInv, LatestInv, broker
<1>5. ASSUME NEW g \in Captors, Import(g) PROVE PollInv' /\ LatestInv'
  <2>1. \A h \in Captors \ {g} : /\ capture'[h].polled = capture[h].polled
                                 /\ capture'[h].acts = capture[h].acts
                                 /\ capture'[h].pc = capture[h].pc
                                 /\ capture'[h].expected = capture[h].expected
                                 /\ capture'[h].latest => capture[h].latest /\ fills' = fills
    BY ZenonT(90), <1>5 DEF Import, Stale, TypeOK, Captures
  <2>2. capture'[g].polled = {} /\ capture'[g].acts = Nothing /\ capture'[g].pc = "positions"
    BY <1>5, StaleType DEF Import, Captures
  <2>3. \A s \in Symbols : Nothing[s] <= published[s]
    BY HomeAssumption DEF Nothing, TypeOK, Quantities
  <2> QED BY ZenonT(90), <1>5, <2>1, <2>2, <2>3 DEF Import, PollInv, LatestInv, broker
<1>6. ASSUME NEW g \in Captors, Begin(g) PROVE PollInv' /\ LatestInv'
  <2>1. \A s \in Symbols : published[s] <= published[s]
    BY HomeAssumption DEF TypeOK, Quantities
  <2> DEFINE c == [IdleCapture EXCEPT !.pc = "orders", !.acts = published]
  <2>2. c.polled = {} /\ c.acts = published /\ c.pc = "orders"
    BY DEF IdleCapture
  <2>3. /\ capture' = [capture EXCEPT ![g] = c]
        /\ UNCHANGED <<placed, published, fills>>
    BY <1>6 DEF Begin, broker, ledger
  <2> HIDE DEF c
  <2> QED BY <2>1, <2>2, <2>3, RestartInv
<1>7. ASSUME NEW g \in Captors, ReadOrders(g) PROVE PollInv' /\ LatestInv'
  <2>1. \A h \in Captors \ {g} : capture'[h] = capture[h]
    BY <1>7 DEF ReadOrders, TypeOK
  <2>2. /\ capture'[g].polled = placed /\ capture'[g].acts = capture[g].acts
        /\ capture'[g].pc = "import"
    BY <1>7 DEF ReadOrders, TypeOK, Captures
  <2> QED BY <1>7, <2>1, <2>2 DEF ReadOrders, PollInv, LatestInv, broker, ledger
<1>8. ASSUME NEW g \in Captors, ReadPositions(g) PROVE PollInv' /\ LatestInv'
  <2>1. \A h \in Captors \ {g} : capture'[h] = capture[h]
    BY <1>8 DEF ReadPositions, TypeOK
  <2>2. /\ capture'[g].polled = capture[g].polled /\ capture'[g].acts = capture[g].acts
        /\ capture'[g].pc = "certify"
    BY <1>8 DEF ReadPositions, TypeOK, Captures
  <2> QED BY <1>8, <2>1, <2>2 DEF ReadPositions, PollInv, LatestInv, broker, ledger
<1>9. ASSUME NEW g \in Captors,
             \/ RefuseImport(g) \/ Unstable(g) \/ Crossed(g) \/ Defer(g) \/ Contradict(g)
             \/ ReportFailure(g) \/ FailRead(g) \/ Crash(g)
      PROVE  PollInv' /\ LatestInv'
  <2>1. UNCHANGED <<placed, published, fills>>
    BY <1>9 DEF RefuseImport, Unstable, Crossed, Defer, Contradict, ReportFailure, FailRead,
       Crash, broker, ledger
  <2>2. ASSUME NEW c, capture' = [capture EXCEPT ![g] = c],
               c.polled = IdleCapture.polled, c.acts = IdleCapture.acts, c.pc # "classify"
        PROVE  PollInv' /\ LatestInv'
    BY <2>1, <2>2, IdleReads, RestartInv
  <2>3. CASE Unstable(g) \/ Crossed(g) \/ Defer(g)
    <3>1. capture' = [capture EXCEPT ![g] = Failed(g)]
      BY <2>3 DEF Unstable, Crossed, Defer
    <3>2. /\ Failed(g).polled = IdleCapture.polled /\ Failed(g).acts = IdleCapture.acts
          /\ Failed(g).pc # "classify"
      BY DEF Failed, IdleCapture
    <3> QED BY <2>2, <3>1, <3>2
  <2>4. CASE ReportFailure(g)
    <3>1. capture' = [capture EXCEPT ![g] = IdleCapture] /\ IdleCapture.pc # "classify"
      BY <2>4 DEF ReportFailure, IdleCapture
    <3> QED BY <2>2, <3>1
  <2>5. CASE RefuseImport(g) \/ Contradict(g) \/ FailRead(g) \/ Crash(g)
    <3> DEFINE Idle(p) == [IdleCapture EXCEPT !.pc = p]
               Other(p) == [IdleCapture EXCEPT !.pc = p, !.kind = "other"]
    <3>1. PICK p \in {"idle", "down", "report"} :
            \/ capture' = [capture EXCEPT ![g] = Idle(p)]
            \/ capture' = [capture EXCEPT ![g] = Other(p)]
            \/ capture' = [capture EXCEPT ![g] = Failed(g)]
      BY <2>5 DEF RefuseImport, Contradict, FailRead, Crash
    <3>2. \A c \in {Idle(p), Other(p), Failed(g)} :
            c.polled = IdleCapture.polled /\ c.acts = IdleCapture.acts /\ c.pc # "classify"
      BY <3>1 DEF IdleCapture, Failed
    <3> HIDE DEF Idle, Other
    <3> QED BY <2>2, <3>1, <3>2
  <2> QED BY <1>9, <2>3, <2>4, <2>5
<1>10. ASSUME NEW g \in Captors, Certify(g) PROVE PollInv' /\ LatestInv'
  <2>1. \A h \in Captors \ {g} : /\ capture'[h].polled = capture[h].polled
                                 /\ capture'[h].acts = capture[h].acts
                                 /\ ~capture'[h].latest
    BY <1>10 DEF Certify, TypeOK, Captures
  <2>2. /\ capture'[g].polled = IdleCapture.polled /\ capture'[g].acts = IdleCapture.acts
        /\ capture'[g].pc = "recover"
    BY <1>10 DEF Certify, IdleCapture
  <2> QED BY <1>10, <2>1, <2>2, IdleReads DEF Certify, PollInv, LatestInv, broker
<1>11. ASSUME NEW g \in Captors, Mismatch(g) PROVE PollInv' /\ LatestInv'
  <2>1. \A h \in Captors \ {g} : capture'[h] = capture[h]
    BY <1>11 DEF Mismatch, TypeOK
  <2>2. /\ capture'[g].polled = capture[g].polled /\ capture'[g].acts = capture[g].acts
        /\ capture'[g].expected = fills
    BY <1>11 DEF Mismatch, TypeOK, Captures
  <2> QED BY <1>11, <2>1, <2>2 DEF Mismatch, PollInv, LatestInv, broker, ledger
<1>12. CASE GuardianRecovers \/ \E fresh \in SUBSET Symbols : TraderRecovers(fresh)
  <2>1. PICK g \in Captors : capture' = [capture EXCEPT ![g] = IdleCapture]
    BY <1>12 DEF GuardianRecovers, TraderRecovers, Captors
  <2>2. UNCHANGED <<placed, published, fills>>
    BY <1>12 DEF GuardianRecovers, TraderRecovers, broker, ledger
  <2>3. IdleCapture.pc # "classify"
    BY DEF IdleCapture
  <2> QED BY <2>1, <2>2, <2>3, IdleReads, RestartInv
<1>13. CASE \/ Release \/ UNCHANGED vars
            \/ \E s \in Symbols : Unsent(s) \/ Fill(s) \/ Stranger(s) \/ Resolve(s) \/ Wait(s)
  BY <1>1, <1>13 DEF Release, Unsent, Fill, Stranger, Resolve, Wait, vars, broker, ledger
<1> QED BY <1>2, <1>3, <1>4, <1>5, <1>6, <1>7, <1>8, <1>9, <1>10, <1>11, <1>12, <1>13
        DEF Next, CaptureStep, Interruption

-----------------------------------------------------------------------------
(* The theorems.                                                           *)

LEMMA Invariance == Spec => []IInv
<1>1. IInv /\ [Next]_vars => IInv'
  BY TypeStep, InvStep DEF IInv
<1> QED BY <1>1, InitInv, PTL DEF Spec

\* Everything that captors, ledger, health and broker remember keeps its type; the
\* recorded fills are among the published ones.
THEOREM TypeCorrect == Spec => []TypeOK
<1>1. IInv => TypeOK
  BY DEF IInv
<1> QED BY <1>1, Invariance, PTL

\* Only a contradiction adds to a quarantine.
LEMMA OnlyContradictions ==
  ASSUME TypeOK, [Next]_vars, NEW s \in Symbols, quarantine'[s].events > quarantine[s].events
  PROVE  \E g \in Captors : Contradict(g)
<1> SUFFICES ASSUME \A g \in Captors : ~Contradict(g) PROVE FALSE
  OBVIOUS
<1>1. quarantine[s].events \in 0..2
  BY DEF TypeOK, Quarantines
<1>2. CASE \E g \in Captors : Certify(g)
  <2>1. quarantine'[s].events = quarantine[s].events
    BY <1>2 DEF Certify, TypeOK, Quarantines
  <2> QED BY <2>1, <1>1
<1>3. CASE \E t \in Symbols : Resolve(t)
  <2>1. quarantine'[s].events \in {0, quarantine[s].events}
    BY <1>3 DEF Resolve, TypeOK, Quarantined
  <2> QED BY <2>1, <1>1
<1>4. CASE UNCHANGED quarantine
  BY <1>4, <1>1
<1> QED BY <1>2, <1>3, <1>4 DEF Next, CaptureStep, Interruption, vars, health, Begin, ReadOrders,
     Import, RefuseImport, ReadPositions, Unstable, Crossed, Mismatch, Defer, ReportFailure,
     GuardianRecovers, TraderRecovers, Send, Place, Acknowledge, Unsent, Fill, Publish,
     Stranger, FailRead, Crash, Wait, Release

\* "Stale refusals cannot quarantine" (_classify_reconciliation_failure): whoever
\* adds to a quarantine compares the refused positions with today's ledger.
THEOREM StaleRefusalsDoNotQuarantine == Spec => StaleNeverQuarantines
<1>1. ASSUME IInv, [Next]_vars
      PROVE  \A s \in Symbols : quarantine'[s].events > quarantine[s].events =>
               \E g \in Captors : /\ capture[g].pc = "classify" /\ capture'[g].pc # "classify"
                                  /\ capture[g].expected = fills /\ capture[g].held[s] # fills[s]
  <2> SUFFICES ASSUME NEW s \in Symbols, quarantine'[s].events > quarantine[s].events
      PROVE  \E g \in Captors : /\ capture[g].pc = "classify" /\ capture'[g].pc # "classify"
                                /\ capture[g].expected = fills /\ capture[g].held[s] # fills[s]
    OBVIOUS
  <2>1. PICK g \in Captors : Contradict(g)
    BY <1>1, OnlyContradictions DEF IInv
  <2>2. capture[g].pc = "classify" /\ capture[g].expected = fills
    BY <1>1, <2>1 DEF Contradict, Moved, IInv, LatestInv
  <2>3. capture'[g].pc # "classify"
    BY <1>1, <2>1 DEF Contradict, IInv, TypeOK, IdleCapture
  <2>4. capture[g].held[s] # fills[s]
    <3>1. SUFFICES ASSUME capture[g].held[s] = fills[s] PROVE FALSE
      OBVIOUS
    <3>2. quarantine'[s] = quarantine[s]
      BY <2>1, <2>2, <3>1 DEF Contradict, Contradicted
    <3>3. quarantine[s].events \in 0..2
      BY <1>1 DEF IInv, TypeOK, Quarantines
    <3> QED BY <3>2, <3>3
  <2> QED BY <2>2, <2>3, <2>4
<1>2. IInv /\ [Next]_vars
        => [\A s \in Symbols : quarantine'[s].events > quarantine[s].events =>
              \E g \in Captors : /\ capture[g].pc = "classify" /\ capture'[g].pc # "classify"
                                 /\ capture[g].expected = fills /\ capture[g].held[s] # fills[s]]_vars
  BY <1>1
<1> QED BY <1>2, Invariance, PTL DEF Spec, StaleNeverQuarantines

-----------------------------------------------------------------------------
(* A foreign quarantine stands.                                            *)

Judging == {"certify", "classify"}

\* What a captor took for someone else's was there; an acknowledged buy is complete.
SeenInv ==
  /\ \A g \in Captors : \A s \in capture[g].foreign : stray[s] # "never"
  /\ \A s \in acked : s \in Symbols => filled[s] = Qty

\* Positions in which someone else's quantity passes for the rest of a buy were read
\* before the buy was complete.  Once a poll has acknowledged the complete buy, it
\* was the other captor's, which reads its positions later and finds too much.
MistakenInv ==
  \A g, h \in Captors : \A s \in acked \cap capture[g].foreign :
    /\ g # h /\ stray[s] = "here"
    /\ capture[g].pc \in Judging /\ capture[g].held[s] = Qty
    /\ capture[h].pc \in Judging
    => capture[h].held[s] = Qty + 1

\* While someone else's quantity is there, what a mistaken contradiction held is not
\* certified again.
StandsInv ==
  \A s \in Symbols : quarantine[s].foreign =>
    /\ quarantine[s].events # 0 /\ stray[s] # "never"
    /\ quarantine[s].late /\ stray[s] = "here" =>
         /\ filled[s] = Qty /\ ~quarantine[s].newer
         /\ \A h \in Captors : capture[h].pc = "certify" => capture[h].held[s] = Qty + 1

ForeignInv == SeenInv /\ MistakenInv /\ StandsInv

LEMMA ForeignInit == Init => ForeignInv
BY DEF Init, ForeignInv, SeenInv, MistakenInv, StandsInv, IdleCapture, Quarantined

\* Steps after which nobody judges positions he did not judge before.
LEMMA ForeignQuiet ==
  ASSUME TypeOK, ForeignInv, UNCHANGED <<stray, filled, acked, quarantine>>,
         \A h \in Captors : /\ capture'[h].foreign \subseteq capture[h].foreign
                            /\ capture'[h].pc = "certify" => capture[h].pc = "certify"
                            /\ capture'[h].pc \in Judging =>
                                 /\ capture[h].pc \in Judging
                                 /\ capture'[h].held = capture[h].held
  PROVE  ForeignInv'
<1>1. SeenInv'
  BY DEF ForeignInv, SeenInv
<1>2. MistakenInv'
  BY DEF ForeignInv, MistakenInv
<1>3. StandsInv'
  BY DEF ForeignInv, StandsInv, Judging
<1> QED BY <1>1, <1>2, <1>3 DEF ForeignInv

\* The same of a captor that starts over.
LEMMA ForeignRestart ==
  ASSUME TypeOK, ForeignInv, UNCHANGED <<stray, filled, acked, quarantine>>,
         NEW g \in Captors, NEW c, capture' = [capture EXCEPT ![g] = c],
         c.foreign = {}, c.pc \notin Judging
  PROVE  ForeignInv'
<1>1. \A h \in Captors : capture'[h] = IF h = g THEN c ELSE capture[h]
  BY DEF TypeOK
<1> QED BY <1>1, ForeignQuiet DEF Judging

\* Storing evidence touches no positions.
LEMMA StaleFields ==
  ASSUME TypeOK
  PROVE  \A h \in Captors : /\ Stale(capture)[h].foreign = capture[h].foreign
                            /\ Stale(capture)[h].pc = capture[h].pc
                            /\ Stale(capture)[h].held = capture[h].held
BY ZenonT(60) DEF Stale, TypeOK, Captures

\* Orders, fills and the stranger.
LEMMA ForeignBroker ==
  ASSUME TypeOK, ForeignInv, NEW s \in Symbols,
         Send(s) \/ Place(s) \/ Acknowledge(s) \/ Unsent(s) \/ Fill(s) \/ Publish(s) \/ Stranger(s)
  PROVE  ForeignInv'
<1>1. CASE Send(s)
  <2>1. \A h \in Captors : /\ capture'[h].foreign = capture[h].foreign
                           /\ capture'[h].pc = capture[h].pc
                           /\ capture'[h].held = capture[h].held
    BY ZenonT(60), <1>1 DEF Send, TypeOK, Captures
  <2> QED BY <1>1, <2>1, ForeignQuiet DEF Send, broker, health
<1>2. CASE Acknowledge(s)
  <2>1. \A h \in Captors : /\ capture'[h].foreign = capture[h].foreign
                           /\ capture'[h].pc = capture[h].pc
                           /\ capture'[h].held = capture[h].held
    BY <1>2, StaleFields DEF Acknowledge
  <2> QED BY <1>2, <2>1, ForeignQuiet DEF Acknowledge, broker, health
<1>3. CASE Place(s) \/ Unsent(s) \/ Publish(s)
  <2>1. UNCHANGED <<stray, filled, acked, quarantine, capture>>
    BY <1>3 DEF Place, Unsent, Publish, broker, health
  <2> QED BY <2>1, ForeignQuiet
<1>4. CASE Fill(s)
  <2>1. UNCHANGED <<stray, acked, quarantine, capture>>
    BY <1>4 DEF Fill, health
  <2>2. \A t \in Symbols : filled[t] = Qty => filled'[t] = Qty
    BY <1>4, HomeAssumption DEF Fill, TypeOK, Quantities
  <2>3. SeenInv'
    BY <2>1, <2>2 DEF ForeignInv, SeenInv
  <2>4. MistakenInv'
    BY <2>1 DEF ForeignInv, MistakenInv
  <2>5. StandsInv'
    BY <2>1, <2>2 DEF ForeignInv, StandsInv
  <2> QED BY <2>3, <2>4, <2>5 DEF ForeignInv
<1>5. CASE Stranger(s)
  <2>1. UNCHANGED <<filled, acked, quarantine, capture>>
    BY <1>5 DEF Stranger, health
  <2>2. \A t \in Symbols : stray'[t] # stray[t] => stray[t] = "never" \/ stray'[t] = "gone"
    BY <1>5 DEF Stranger, TypeOK
  <2>3. \A t \in Symbols : stray[t] # "never" => stray'[t] # "never"
    BY <1>5 DEF Stranger, TypeOK
  <2>4. \A g \in Captors : capture[g].foreign \subseteq Symbols
    BY DEF TypeOK, Captures
  <2>5. SeenInv'
    BY <2>1, <2>3, <2>4 DEF ForeignInv, SeenInv
  <2>6. MistakenInv'
    BY <2>1, <2>2, <2>4 DEF ForeignInv, SeenInv, MistakenInv
  <2>7. StandsInv'
    BY <2>1, <2>2, <2>3 DEF ForeignInv, StandsInv
  <2> QED BY <2>5, <2>6, <2>7 DEF ForeignInv
<1> QED BY <1>1, <1>2, <1>3, <1>4, <1>5

\* A poll that acknowledges a complete buy is by a captor that holds no positions yet.
LEMMA ForeignOrders ==
  ASSUME TypeOK, ForeignInv, NEW g \in Captors, ReadOrders(g)
  PROVE  ForeignInv'
<1>1. UNCHANGED <<stray, filled, quarantine>>
  BY DEF ReadOrders, broker, health
<1>2. \A h \in Captors \ {g} : capture'[h] = capture[h]
  BY DEF ReadOrders, TypeOK
<1>3. capture'[g].pc = "import" /\ capture'[g].foreign = capture[g].foreign
  BY DEF ReadOrders, TypeOK, Captures
<1>4. \A s \in acked' : s \in acked \/ filled[s] = Qty
  BY DEF ReadOrders
<1>5. SeenInv'
  BY <1>1, <1>2, <1>3, <1>4 DEF ForeignInv, SeenInv
<1>6. MistakenInv'
  <2> SUFFICES ASSUME NEW k \in Captors, NEW h \in Captors, k # h,
                      capture'[k].pc \in Judging, capture'[h].pc \in Judging
               PROVE  FALSE
    BY DEF MistakenInv
  <2>1. k # g /\ h # g
    BY <1>3 DEF Judging
  <2> QED BY <2>1 DEF Captors
<1>7. StandsInv'
  BY <1>1, <1>2, <1>3 DEF ForeignInv, StandsInv
<1> QED BY <1>5, <1>6, <1>7 DEF ForeignInv

\* Positions read after the buy is complete hold what is someone else's on top of it.
LEMMA ForeignPositions ==
  ASSUME TypeOK, ForeignInv, NEW g \in Captors, ReadPositions(g)
  PROVE  ForeignInv'
<1>1. UNCHANGED <<stray, filled, quarantine, acked>>
  BY DEF ReadPositions, broker, health
<1>2. \A h \in Captors \ {g} : capture'[h] = capture[h]
  BY DEF ReadPositions, TypeOK
<1>3. /\ capture'[g].pc = "certify"
      /\ capture'[g].foreign = {s \in Symbols : stray[s] = "here"}
      /\ capture'[g].held = [s \in Symbols |-> filled[s] + IF stray[s] = "here" THEN 1 ELSE 0]
  BY DEF ReadPositions, TypeOK, Captures
<1>4. \A s \in Symbols : stray[s] = "here" => capture'[g].held[s] = filled[s] + 1
  BY <1>3
<1>5. acked \subseteq Symbols /\ Qty + 1 # Qty
  BY HomeAssumption DEF TypeOK
<1>6. SeenInv'
  BY <1>1, <1>2, <1>3 DEF ForeignInv, SeenInv
<1>7. MistakenInv'
  <2> SUFFICES ASSUME NEW k \in Captors, NEW h \in Captors, NEW s \in acked',
                      s \in capture'[k].foreign, k # h, stray'[s] = "here",
                      capture'[k].pc \in Judging, capture'[k].held[s] = Qty,
                      capture'[h].pc \in Judging
               PROVE  capture'[h].held[s] = Qty + 1
    BY DEF MistakenInv
  <2>1. s \in acked /\ s \in Symbols /\ stray[s] = "here" /\ filled[s] = Qty
    BY <1>1, <1>5 DEF ForeignInv, SeenInv
  <2>2. k # g
    BY <1>4, <1>5, <2>1
  <2>3. CASE h = g
    BY <1>4, <2>1, <2>3
  <2>4. CASE h # g
    BY <1>2, <2>1, <2>2, <2>4 DEF ForeignInv, MistakenInv
  <2> QED BY <2>3, <2>4
<1>8. StandsInv'
  BY <1>1, <1>2, <1>4 DEF ForeignInv, StandsInv
<1> QED BY <1>6, <1>7, <1>8 DEF ForeignInv

\* A certificate is of positions that are the ledger's: not of more than was bought.
LEMMA ForeignCertify ==
  ASSUME TypeOK, ForeignInv, NEW g \in Captors, Certify(g)
  PROVE  ForeignInv'
<1>1. UNCHANGED <<stray, filled, acked>>
  BY DEF Certify, broker
<1>2. \A h \in Captors \ {g} : /\ capture'[h].foreign = capture[h].foreign
                               /\ capture'[h].pc = capture[h].pc
                               /\ capture'[h].held = capture[h].held
  BY DEF Certify, TypeOK, Captures
<1>3. capture'[g].foreign = {} /\ capture'[g].pc = "recover"
  BY DEF Certify, IdleCapture
<1>4. \A s \in Symbols : /\ quarantine'[s].events = quarantine[s].events
                         /\ quarantine'[s].foreign = quarantine[s].foreign
                         /\ quarantine'[s].late = quarantine[s].late
                         /\ quarantine'[s].newer = quarantine[s].late
  BY ZenonT(60) DEF Certify, TypeOK, Quarantines
<1>5. SeenInv'
  BY <1>1, <1>2, <1>3 DEF ForeignInv, SeenInv
<1>6. MistakenInv'
  BY <1>1, <1>2, <1>3 DEF ForeignInv, MistakenInv, Judging
<1>7. StandsInv'
  <2>1. ASSUME NEW s \in Symbols, quarantine[s].foreign, quarantine[s].late, stray[s] = "here"
        PROVE  FALSE
    <3>1. capture[g].held[s] = Qty + 1
      BY <2>1 DEF ForeignInv, StandsInv, Certify
    <3>2. fills[s] \in 0..Qty /\ capture[g].held = fills
      BY DEF TypeOK, Quantities, Certify
    <3> QED BY <3>1, <3>2, HomeAssumption
  <2> QED BY <1>1, <1>4, <2>1 DEF ForeignInv, StandsInv
<1> QED BY <1>5, <1>6, <1>7 DEF ForeignInv

\* A contradiction that takes someone else's quantity for the buy is the only one
\* under way.
LEMMA ForeignContradict ==
  ASSUME TypeOK, ForeignInv, NEW g \in Captors, Contradict(g)
  PROVE  ForeignInv'
<1> DEFINE c == capture[g]
<1>1. UNCHANGED <<stray, filled, acked>>
  BY DEF Contradict, broker
<1>2. \A h \in Captors \ {g} : capture'[h] = capture[h]
  BY DEF Contradict, TypeOK
<1>3. capture'[g].foreign = {} /\ capture'[g].pc \notin Judging
  BY DEF Contradict, IdleCapture, TypeOK, Judging
<1>4. SeenInv'
  BY <1>1, <1>2, <1>3 DEF ForeignInv, SeenInv
<1>5. MistakenInv'
  BY <1>1, <1>2, <1>3 DEF ForeignInv, MistakenInv
<1>6. ASSUME NEW s \in Symbols, quarantine'[s].foreign
      PROVE  /\ quarantine'[s].events # 0 /\ stray[s] # "never"
             /\ quarantine'[s].late /\ stray[s] = "here" =>
                  /\ filled[s] = Qty /\ ~quarantine'[s].newer
                  /\ \A h \in Captors : capture'[h].pc = "certify" => capture'[h].held[s] = Qty + 1
  <2>1. quarantine'[s] = Contradicted(c)[s]
    BY DEF Contradict
  <2>2. CASE quarantine'[s] = quarantine[s]
    BY <1>2, <1>3, <1>6, <2>2 DEF ForeignInv, StandsInv, Judging
  <2>3. CASE quarantine'[s] # quarantine[s]
    <3> DEFINE q == [events |-> 1, late |-> Late(c, s),
                     held |-> IF Late(c, s) THEN c.held ELSE Nothing,
                     foreign |-> s \in c.foreign, newer |-> FALSE]
    <3>1. quarantine'[s] \in {Quarantined(2), q}
      BY <2>1, <2>3 DEF Contradicted
    <3>2. ~Quarantined(2).foreign
      BY DEF Quarantined
    <3>3. /\ q.events = 1 /\ q.foreign = (s \in c.foreign) /\ q.late = Late(c, s)
          /\ q.newer = FALSE
      BY Zenon
    <3> HIDE DEF q
    <3>5. quarantine'[s] = q
      BY <1>6, <3>1, <3>2
    <3>6. q.foreign
      BY <1>6, <3>5
    <3>7. s \in c.foreign
      BY <3>3, <3>6
    <3>8. stray[s] # "never"
      BY <3>7 DEF ForeignInv, SeenInv
    <3>9. ASSUME quarantine'[s].late, stray[s] = "here"
          PROVE  /\ filled[s] = Qty
                 /\ \A h \in Captors : capture'[h].pc = "certify" => capture'[h].held[s] = Qty + 1
      <4>1. c.held[s] = Qty /\ filled[s] = Qty /\ s \in acked
        <5>1. Late(c, s)
          BY <3>3, <3>9, <3>5
        <5> QED BY <5>1 DEF Late
      <4>2. ASSUME NEW h \in Captors, capture'[h].pc = "certify"
            PROVE  capture'[h].held[s] = Qty + 1
        <5>1. h # g /\ capture'[h] = capture[h]
          BY <1>2, <1>3, <4>2 DEF Judging
        <5>2. c.pc \in Judging /\ capture[h].pc \in Judging
          BY <4>2, <5>1 DEF Contradict, Judging
        <5> QED BY <3>9, <3>7, <4>1, <5>1, <5>2 DEF ForeignInv, MistakenInv
      <4> QED BY <4>1, <4>2
    <3> QED BY <3>3, <3>9, <3>5, <3>8
  <2> QED BY <2>2, <2>3
<1>7. StandsInv'
  BY <1>1, <1>6 DEF StandsInv
<1> QED BY <1>4, <1>5, <1>7 DEF ForeignInv

LEMMA ForeignStep ==
  ASSUME TypeOK, ForeignInv, [Next]_vars
  PROVE  ForeignInv'
<1> USE DEF Judging
<1>1. ASSUME NEW g \in Captors,
             \/ Begin(g) \/ RefuseImport(g) \/ Unstable(g) \/ Crossed(g) \/ Defer(g)
             \/ ReportFailure(g) \/ FailRead(g) \/ Crash(g)
      PROVE  ForeignInv'
  <2>1. UNCHANGED <<stray, filled, acked, quarantine>>
    BY <1>1 DEF Begin, RefuseImport, Unstable, Crossed, Defer, ReportFailure, FailRead, Crash,
       broker, health
  <2>2. ASSUME NEW c, capture' = [capture EXCEPT ![g] = c], c.foreign = {}, c.pc \notin Judging
        PROVE  ForeignInv'
    BY <2>1, <2>2, ForeignRestart
  <2> DEFINE Orders == [IdleCapture EXCEPT !.pc = "orders", !.acts = published]
             Idle(p) == [IdleCapture EXCEPT !.pc = p]
             Other(p) == [IdleCapture EXCEPT !.pc = p, !.kind = "other"]
  <2>3. PICK p \in {"idle", "down", "report"} :
          \/ capture' = [capture EXCEPT ![g] = Orders]
          \/ capture' = [capture EXCEPT ![g] = Idle(p)]
          \/ capture' = [capture EXCEPT ![g] = Other(p)]
          \/ capture' = [capture EXCEPT ![g] = IdleCapture]
    <3>1. CASE ReportFailure(g)
      BY <3>1 DEF ReportFailure
    <3>2. CASE Begin(g)
      BY <3>2 DEF Begin
    <3>3. CASE RefuseImport(g)
      BY <3>3 DEF RefuseImport
    <3>4. CASE Unstable(g) \/ Crossed(g) \/ Defer(g) \/ FailRead(g)
      BY <3>4 DEF Unstable, Crossed, Defer, FailRead, Failed
    <3>5. CASE Crash(g)
      BY <3>5 DEF Crash
    <3> QED BY <1>1, <3>1, <3>2, <3>3, <3>4, <3>5
  <2>4. /\ Orders.foreign = {} /\ Orders.pc = "orders"
        /\ Idle(p).foreign = {} /\ Idle(p).pc = p
        /\ Other(p).foreign = {} /\ Other(p).pc = p
        /\ IdleCapture.foreign = {} /\ IdleCapture.pc = "idle"
    BY DEF IdleCapture
  <2> HIDE DEF Orders, Idle, Other
  <2> QED BY <2>2, <2>3, <2>4
<1>2. ASSUME NEW g \in Captors, Import(g) PROVE ForeignInv'
  <2> DEFINE c == [Stale(capture)[g] EXCEPT !.pc = "positions", !.acts = Nothing, !.polled = {},
             !.seen = [s \in Symbols |-> IF s \in capture[g].pending THEN @[s] ELSE 0]]
  <2>3. Stale(capture) \in [Captors -> Captures]
    BY StaleType
  <2>4. c.pc = "positions" /\ c.foreign = Stale(capture)[g].foreign
    BY <2>3 DEF Captures
  <2>5. capture' = [Stale(capture) EXCEPT ![g] = c]
    BY <1>2, <2>3 DEF Import
  <2> HIDE DEF c
  <2>1. \A h \in Captors \ {g} : capture'[h] = Stale(capture)[h]
    BY <2>3, <2>5
  <2>2. capture'[g] = c
    BY <2>3, <2>5
  <2>6. \A h \in Captors : /\ capture'[h].foreign = capture[h].foreign
                           /\ capture'[h].pc = IF h = g THEN "positions" ELSE capture[h].pc
                           /\ h # g => capture'[h].held = capture[h].held
    BY <2>1, <2>2, <2>4, StaleFields
  <2>7. \A h \in Captors : /\ capture'[h].foreign \subseteq capture[h].foreign
                           /\ capture'[h].pc = "certify" => capture[h].pc = "certify"
                           /\ capture'[h].pc \in Judging =>
                                /\ capture[h].pc \in Judging
                                /\ capture'[h].held = capture[h].held
    BY <2>6
  <2>8. UNCHANGED <<stray, filled, acked, quarantine>>
    BY <1>2 DEF Import, broker, health
  <2> QED BY <2>7, <2>8, ForeignQuiet
<1>3. ASSUME NEW g \in Captors, Mismatch(g) PROVE ForeignInv'
  <2>1. \A h \in Captors \ {g} : capture'[h] = capture[h]
    BY <1>3 DEF Mismatch, TypeOK
  <2>2. /\ capture'[g].pc = "classify" /\ capture[g].pc = "certify"
        /\ capture'[g].held = capture[g].held /\ capture'[g].foreign = capture[g].foreign
    BY <1>3 DEF Mismatch, TypeOK, Captures
  <2> QED BY <1>3, <2>1, <2>2, ForeignQuiet DEF Mismatch, broker, health
<1>4. CASE GuardianRecovers \/ \E fresh \in SUBSET Symbols : TraderRecovers(fresh)
  <2>1. PICK g \in Captors : capture' = [capture EXCEPT ![g] = IdleCapture]
    BY <1>4 DEF GuardianRecovers, TraderRecovers, Captors
  <2>2. UNCHANGED <<stray, filled, acked, quarantine>>
    BY <1>4 DEF GuardianRecovers, TraderRecovers, broker
  <2>3. IdleCapture.foreign = {} /\ IdleCapture.pc \notin Judging
    BY DEF IdleCapture
  <2> QED BY <2>1, <2>2, <2>3, ForeignRestart
<1>5. ASSUME NEW s \in Symbols, Resolve(s) PROVE ForeignInv'
  <2>1. UNCHANGED <<stray, filled, acked, capture>>
    BY <1>5 DEF Resolve, broker
  <2>2. \A t \in Symbols : quarantine'[t] = quarantine[t] \/ ~quarantine'[t].foreign
    BY <1>5 DEF Resolve, TypeOK, Quarantined
  <2>3. SeenInv' /\ MistakenInv'
    BY <2>1 DEF ForeignInv, SeenInv, MistakenInv
  <2>4. StandsInv'
    BY <2>1, <2>2 DEF ForeignInv, StandsInv
  <2> QED BY <2>3, <2>4 DEF ForeignInv
<1>6. CASE Release \/ UNCHANGED vars \/ \E s \in Symbols : Wait(s)
  <2>1. UNCHANGED <<stray, filled, acked, quarantine, capture>>
    BY <1>6 DEF Release, Wait, vars, broker, health
  <2> QED BY <2>1, ForeignQuiet
<1> QED BY <1>1, <1>2, <1>3, <1>4, <1>5, <1>6, ForeignBroker, ForeignOrders, ForeignPositions,
        ForeignCertify, ForeignContradict DEF Next, CaptureStep, Interruption

\* "Repeating broker observations does not repair it" (resolve_delayed_owned_buy): a
\* quarantine of someone else's quantity is lifted only after it has left the account.
THEOREM ForeignQuarantineStands == Spec => QuarantineStands
<1>1. ASSUME TypeOK, ForeignInv, [Next]_vars
      PROVE  \A s \in Symbols : quarantine[s].foreign /\ quarantine'[s].events = 0 =>
               stray[s] = "gone"
  <2> SUFFICES ASSUME NEW s \in Symbols, quarantine[s].foreign, quarantine'[s].events = 0
               PROVE  stray[s] = "gone"
    OBVIOUS
  <2>1. quarantine[s].events # 0 /\ stray[s] # "never"
    BY <1>1 DEF ForeignInv, StandsInv
  <2>2. quarantine'[s].events # quarantine[s].events
    BY <2>1
  <2>3. ASSUME NEW g \in Captors, Certify(g) PROVE FALSE
    BY <1>1, <2>2, <2>3 DEF Certify, TypeOK, Quarantines
  <2>4. ASSUME NEW g \in Captors, Contradict(g) PROVE FALSE
    <3>1. quarantine'[s] = Contradicted(capture[g])[s]
      BY <2>4 DEF Contradict
    <3>2. quarantine'[s].events \in {quarantine[s].events, 1, 2}
      BY <3>1 DEF Contradicted, Quarantined
    <3> QED BY <2>1, <3>2
  <2>5. \E t \in Symbols : Resolve(t)
    BY <1>1, <2>2, <2>3, <2>4 DEF Next, CaptureStep, Interruption, vars, health, Begin,
       ReadOrders, Import, RefuseImport, ReadPositions, Unstable, Crossed, Mismatch, Defer,
       ReportFailure, GuardianRecovers, TraderRecovers, Send, Place, Acknowledge, Unsent, Fill,
       Publish, Stranger, FailRead, Crash, Wait, Release
  <2>6. Resolve(s)
    BY <1>1, <2>2, <2>5 DEF Resolve, TypeOK
  <2>7. stray[s] # "here"
    <3>1. quarantine[s].late /\ quarantine[s].newer
      BY <2>6 DEF Resolve, Resolvable
    <3> QED BY <1>1, <3>1 DEF ForeignInv, StandsInv
  <2> QED BY <1>1, <2>1, <2>7 DEF TypeOK
<1>2. IInv /\ ForeignInv /\ [Next]_vars => ForeignInv'
  BY ForeignStep DEF IInv
<1>3. Spec => []ForeignInv
  BY <1>2, ForeignInit, Invariance, PTL DEF Spec
<1>4. IInv /\ ForeignInv /\ [Next]_vars
        => [\A s \in Symbols : quarantine[s].foreign /\ quarantine'[s].events = 0 =>
              stray[s] = "gone"]_vars
  BY <1>1 DEF IInv
<1> QED BY <1>3, <1>4, Invariance, PTL DEF Spec, QuarantineStands

=============================================================================
