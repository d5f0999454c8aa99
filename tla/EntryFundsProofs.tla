--------------------------- MODULE EntryFundsProofs ---------------------------
(***************************************************************************)
(* Proofs about EntryFunds, for any entries, quantity, cash and guardians:  *)
(* typing, that a certificate is of one moment, and that the account pays   *)
(* for every claimed entry at its worst.                                    *)
(***************************************************************************)
EXTENDS EntryFunds, SumLemmas

-----------------------------------------------------------------------------
(* The inductive invariant.                                                *)

(* What the store has of an order is true of the broker: nothing it holds   *)
(* is ahead, and complete evidence is about the order's end.               *)
OrderInv ==
  \A e \in Entries :
    /\ phase[e] # "held" => e \in claimed
    /\ e \in ordered => phase[e] = "sent"
    /\ order[e].status # "none" => e \in ordered
    /\ order[e].status = "none" => order[e].filled = 0
    /\ order[e].status = "open" => order[e].filled < Qty
    /\ fills[e] <= stored[e].filled /\ stored[e].filled <= order[e].filled
    /\ \A v \in sources[e] : v.complete => v.order = order[e] /\ order[e].status = "ended"

(* A certificate's cash and quantities are of one moment.                  *)
CertInv == cert = NoCert \/ cert.cash + SumOf(cert.fills) = Cash

(* Fills only take cash away.  An acquisition's cash was read first: what   *)
(* is gone by then has been spent on positions that are read later; and     *)
(* cash read again unchanged means that nothing has been spent between.     *)
CaptureInv ==
  \A g \in Guardians :
    LET c == capture[g] IN
    /\ c.pc = "positions" => Cash <= c.cash + SumOf(BrokerHeld)
    /\ c.pc \in {"orders", "account2"} =>
         /\ Cash <= c.cash + SumOf(c.held)
         /\ \A e \in Entries : c.held[e] <= order[e].filled
    /\ c.pc \in {"positions2", "orders2", "certify"} => c.cash + SumOf(c.held) = Cash

IInv == TypeOK /\ OrderInv /\ CertInv /\ CaptureInv /\ NeverOverspend

-----------------------------------------------------------------------------
(* Lemmas about money.                                                     *)

Exposures == [e \in Entries |-> Exposure(e)]

\* An entry never exposes less than it has filled, nor more than its quantity.
LEMMA ExposureBounds ==
  ASSUME TypeOK, OrderInv, NEW e \in Entries
  PROVE  Exposure(e) \in order[e].filled..Qty
<1>1. order[e].filled \in 0..Qty /\ order[e].status \in {"none", "open", "ended"}
  BY DEF TypeOK, Orders
<1>2. Qty \in Nat
  BY NumbersAssumption
<1> QED BY <1>1, <1>2 DEF Exposure, OrderInv

\* The same of the next state.
LEMMA ExposureNext ==
  ASSUME TypeOK', OrderInv', NEW e \in Entries
  PROVE  Exposure(e)' \in order'[e].filled..Qty
<1>1. order'[e].filled \in 0..Qty /\ order'[e].status \in {"none", "open", "ended"}
  BY DEF TypeOK, Orders
<1>2. Qty \in Nat
  BY NumbersAssumption
<1> QED BY <1>1, <1>2 DEF Exposure, OrderInv

\* The broker's cash and positions add up to the account.
LEMMA BrokerSum ==
  ASSUME TypeOK, OrderInv, NeverOverspend
  PROVE  /\ SumOf(BrokerHeld) \in Nat
         /\ BrokerCash \in 0..Cash
         /\ BrokerCash + SumOf(BrokerHeld) = Cash
<1>1. \A e \in Entries : BrokerHeld[e] \in Nat
  BY NumbersAssumption DEF BrokerHeld, TypeOK, Orders
<1>2. SumOf(BrokerHeld) \in Nat
  BY <1>1, EntriesAssumption, SumNat DEF SumOf
<1>3. \A e \in Entries : Exposures[e] \in Nat /\ BrokerHeld[e] <= Exposures[e]
  BY <1>1, ExposureBounds, NumbersAssumption DEF Exposures, BrokerHeld
<1>4. SumOf(BrokerHeld) <= SumOf(Exposures)
  BY <1>1, <1>3, EntriesAssumption, SumLess DEF SumOf
<1>5. SumOf(Exposures) \in Nat
  BY <1>3, EntriesAssumption, SumNat DEF SumOf
<1>6. SumOf(Exposures) <= Cash
  BY DEF NeverOverspend, Exposures
<1> QED BY <1>2, <1>4, <1>5, <1>6, NumbersAssumption DEF BrokerCash

-----------------------------------------------------------------------------
(* Typing.                                                                 *)

LEMMA IdleTyped == IdleCapture \in Captures /\ NoCert \in Certs
BY NumbersAssumption
   DEF IdleCapture, Captures, Points, Quantities, OpenOrders, NoCert, Certs, Orders, NoOrder

LEMMA InitInv == Init => IInv
<1> SUFFICES ASSUME Init PROVE IInv
  OBVIOUS
<1> USE EntriesAssumption, NumbersAssumption
<1>1. TypeOK
  BY IdleTyped DEF Init, TypeOK, Sending!Init, Orders, NoOrder, Quantities
<1>2. OrderInv
  BY DEF Init, OrderInv, Sending!Init, NoOrder
<1>3. CertInv /\ CaptureInv
  BY DEF Init, CertInv, CaptureInv, IdleCapture
<1>4. NeverOverspend
  <2>1. \A e \in Entries : Exposures[e] = 0
    BY DEF Init, Exposures, Exposure
  <2>2. SumOf(Exposures) = Cardinality(Entries) * 0
    BY <2>1, SumConstant DEF SumOf
  <2>3. Cardinality(Entries) * 0 = 0
    BY FS_CardinalityType
  <2> QED BY <2>2, <2>3 DEF NeverOverspend, Exposures
<1> QED BY <1>1, <1>2, <1>3, <1>4 DEF IInv

\* A captor's record stays typed when one of its fields gets a typed value.
LEMMA CaptureTyped ==
  ASSUME TypeOK, NEW g \in Guardians, NEW c \in Captures,
         capture' = [capture EXCEPT ![g] = c]
  PROVE  capture' \in [Guardians -> Captures]
BY DEF TypeOK

LEMMA TypeStep ==
  ASSUME IInv, [Next]_vars
  PROVE  TypeOK'
<1> USE DEF IInv
<1>1. ASSUME NEW g \in Guardians,
             Begin(g) \/ ReadAccount(g) \/ ReadPositions(g) \/ ReadOrders(g)
      PROVE  TypeOK'
  <2> DEFINE c == capture[g]
  <2>1. /\ c \in Captures /\ BrokerCash \in 0..Cash
        /\ BrokerHeld \in Quantities /\ BrokerOpen \in OpenOrders
    BY BrokerSum, NumbersAssumption
       DEF TypeOK, BrokerHeld, BrokerOpen, Quantities, OpenOrders, Orders, NoOrder
  <2>2. /\ [c EXCEPT !.pc = "account"] \in Captures
        /\ [c EXCEPT !.pc = "positions", !.cash = BrokerCash] \in Captures
        /\ [c EXCEPT !.pc = "orders", !.held = BrokerHeld] \in Captures
        /\ [c EXCEPT !.pc = "account2", !.open = BrokerOpen, !.funds = TRUE] \in Captures
        /\ [c EXCEPT !.pc = "account2"] \in Captures
    BY <2>1 DEF Captures, Points
  <2>3. /\ Begin(g) => capture' = [capture EXCEPT ![g] = [c EXCEPT !.pc = "account"]]
        /\ ReadAccount(g) =>
             capture' = [capture EXCEPT ![g] = [c EXCEPT !.pc = "positions", !.cash = BrokerCash]]
        /\ ReadPositions(g) =>
             capture' = [capture EXCEPT ![g] = [c EXCEPT !.pc = "orders", !.held = BrokerHeld]]
        /\ ReadOrders(g) =>
             \/ capture' = [capture EXCEPT ![g] =
                  [c EXCEPT !.pc = "account2", !.open = BrokerOpen, !.funds = TRUE]]
             \/ capture' = [capture EXCEPT ![g] = [c EXCEPT !.pc = "account2"]]
    BY DEF Begin, ReadAccount, ReadPositions, ReadOrders, TypeOK
  <2>4. capture' \in [Guardians -> Captures]
    <3> HIDE DEF c
    <3> QED BY <1>1, <2>2, <2>3, CaptureTyped
  <2> QED BY <1>1, <2>4 DEF TypeOK, Begin, ReadAccount, ReadPositions, ReadOrders, outbox, ledger
<1>2. ASSUME NEW g \in Guardians, RereadAccount(g) \/ RereadPositions(g) \/ RereadOrders(g)
      PROVE  TypeOK'
  <2> DEFINE c == capture[g]
             stable == c.funds /\ c.open = BrokerOpen
  <2>1. c \in Captures
    BY DEF TypeOK
  <2>2. /\ [c EXCEPT !.pc = "positions2"] \in Captures
        /\ [c EXCEPT !.pc = "orders2"] \in Captures
        /\ [c EXCEPT !.pc = "certify", !.funds = stable] \in Captures
        /\ [c EXCEPT !.pc = "certify", !.funds = FALSE] \in Captures
    BY <2>1 DEF Captures, Points
  <2>3. /\ RereadAccount(g) =>
             \/ capture' = [capture EXCEPT ![g] = [c EXCEPT !.pc = "positions2"]]
             \/ capture' = [capture EXCEPT ![g] = IdleCapture]
        /\ RereadPositions(g) =>
             \/ capture' = [capture EXCEPT ![g] = [c EXCEPT !.pc = "orders2"]]
             \/ capture' = [capture EXCEPT ![g] = IdleCapture]
        /\ RereadOrders(g) =>
             \/ capture' = [capture EXCEPT ![g] = [c EXCEPT !.pc = "certify", !.funds = stable]]
             \/ capture' = [capture EXCEPT ![g] = [c EXCEPT !.pc = "certify", !.funds = FALSE]]
    BY DEF RereadAccount, RereadPositions, RereadOrders, Abandon, TypeOK
  <2>4. capture' \in [Guardians -> Captures]
    <3> HIDE DEF c, stable
    <3> QED BY <1>2, <2>2, <2>3, CaptureTyped, IdleTyped
  <2> QED BY <1>2, <2>4 DEF TypeOK, RereadAccount, RereadPositions, RereadOrders, outbox, ledger
<1>3. ASSUME NEW g \in Guardians, Certify(g) \/ Fail(g) PROVE TypeOK'
  <2>1. capture' \in [Guardians -> Captures]
    BY <1>3, IdleTyped, CaptureTyped DEF Certify, Fail, Abandon
  <2>2. cert' \in Certs
    <3>1. CASE Fail(g)
      BY <3>1 DEF Fail, TypeOK
    <3>2. CASE Certify(g)
      <4>1. [cert EXCEPT !.revoked = (@ \/ cert.full)] \in Certs
        BY DEF TypeOK, Certs
      <4>2. [cash |-> capture[g].cash, stored |-> stored, fills |-> fills,
             open |-> capture[g].open, full |-> CashKnown, funds |-> capture[g].funds,
             revoked |-> FALSE] \in Certs
        BY DEF TypeOK, Certs, Captures, CashKnown
      <4> QED BY <3>2, <4>1, <4>2 DEF Certify, TypeOK
    <3> QED BY <1>3, <3>1, <3>2
  <2> QED BY <1>3, <2>1, <2>2 DEF TypeOK, Certify, Fail, outbox, ledger
<1>4. ASSUME NEW batch \in SUBSET Entries, Claim(batch) PROVE TypeOK'
  BY <1>4 DEF TypeOK, Claim, outbox, ledger
<1>5. ASSUME NEW e \in Entries, Authorise(e) PROVE TypeOK'
  <2>1. \A g \in Guardians :
          [capture[g] EXCEPT !.crossed = @ \/ (capture[g].pc # "idle")] \in Captures
    BY DEF TypeOK, Captures
  <2>2. capture' \in [Guardians -> Captures]
    BY <1>5, <2>1 DEF Authorise
  <2> QED BY <1>5, <2>2 DEF TypeOK, Authorise, Sending!Send, ledger
<1>6. ASSUME NEW e \in Entries, Refuse(e) PROVE TypeOK'
  BY <1>6 DEF TypeOK, Refuse, Sending!Void, ledger
<1>7. ASSUME NEW e \in Entries, Accept(e) \/ Fill(e) \/ Cancel(e) PROVE TypeOK'
  <2>1. order' \in [Entries -> Orders]
    <3> DEFINE k == order[e].filled
    <3>1. order[e] \in Orders /\ k \in 0..Qty /\ (order[e].status = "open" => k + 1 \in 0..Qty)
      BY NumbersAssumption DEF TypeOK, OrderInv, Orders
    <3>2. CASE Accept(e)
      <4>1. [order[e] EXCEPT !.status = "open"] \in Orders
        BY <3>1 DEF Orders
      <4> QED BY <3>2, <4>1 DEF Accept, TypeOK
    <3>3. CASE Fill(e)
      <4>1. [status |-> IF k + 1 = Qty THEN "ended" ELSE "open", filled |-> k + 1] \in Orders
        BY <3>1, <3>3 DEF Orders, Fill
      <4> QED BY <3>3, <4>1 DEF Fill, TypeOK
    <3>4. CASE Cancel(e)
      <4>1. [order[e] EXCEPT !.status = "ended"] \in Orders
        BY <3>1 DEF Orders
      <4> QED BY <3>4, <4>1 DEF Cancel, TypeOK
    <3> QED BY <1>7, <3>2, <3>3, <3>4
  <2> QED BY <1>7, <2>1 DEF TypeOK, Accept, Fill, Cancel, Sending!Appear, ledger, outbox
<1>8. ASSUME NEW e \in Entries, Import(e) PROVE TypeOK'
  <2>1. PICK o \in Readings(e), complete \in BOOLEAN, k \in 0..Qty : Adopt(e, o, complete, k)
    BY <1>8 DEF Import
  <2>2. o \in Orders
    BY <2>1, NumbersAssumption DEF Readings, TypeOK, Orders
  <2>3. stored' \in [Entries -> Orders]
    BY <2>1, <2>2 DEF Adopt, TypeOK
  <2>4. fills' \in Quantities
    BY <2>1 DEF Adopt, Recorded, TypeOK, Quantities
  <2>5. sources' \in [Entries -> SUBSET [order : Orders, complete : BOOLEAN]]
    BY <2>1, <2>2 DEF Adopt, TypeOK
  <2>6. cert' \in Certs
    BY <2>1 DEF Adopt, TypeOK, Certs
  <2> QED BY <2>1, <2>3, <2>4, <2>5, <2>6 DEF Adopt, TypeOK, outbox
<1>9. CASE UNCHANGED vars
  BY <1>9 DEF TypeOK, vars, outbox, ledger
<1> QED BY <1>1, <1>2, <1>3, <1>4, <1>5, <1>6, <1>7, <1>8, <1>9 DEF Next, CaptureStep

-----------------------------------------------------------------------------
(* The store and the broker.                                               *)

LEMMA OrderStep ==
  ASSUME IInv, [Next]_vars
  PROVE  OrderInv'
<1> USE DEF IInv
<1>1. CASE UNCHANGED <<claimed, phase, ordered, order, stored, fills, sources>>
  BY <1>1 DEF OrderInv
<1>2. ASSUME NEW batch \in SUBSET Entries, Claim(batch) PROVE OrderInv'
  BY <1>2 DEF OrderInv, Claim, outbox, ledger
<1>3. ASSUME NEW e \in Entries, Authorise(e) \/ Refuse(e) PROVE OrderInv'
  BY <1>3 DEF OrderInv, Authorise, Refuse, Sending!Send, Sending!Void, TypeOK, ledger
<1>4. ASSUME NEW e \in Entries, Accept(e) PROVE OrderInv'
  <2>1. order[e].status = "none" /\ phase[e] = "sent"
    BY <1>4 DEF Accept, Sending!Appear, OrderInv, TypeOK, Orders
  <2>2. /\ order' \in [Entries -> Orders] /\ order'[e].status = "open"
        /\ order'[e].filled = order[e].filled
        /\ \A d \in Entries \ {e} : order'[d] = order[d]
    BY <1>4, TypeStep DEF Accept, TypeOK, Orders
  <2>3. \A d \in Entries : \A v \in sources[d] : v.complete => v.order = order'[d] /\ order'[d].status = "ended"
    BY <2>1, <2>2 DEF OrderInv
  <2> QED BY <1>4, <2>1, <2>2, <2>3, NumbersAssumption
          DEF OrderInv, Accept, Sending!Appear, TypeOK, ledger
<1>5. ASSUME NEW e \in Entries, Fill(e) \/ Cancel(e) PROVE OrderInv'
  <2>1. order[e].status = "open" /\ order[e].filled \in 0..(Qty - 1)
    BY <1>5, NumbersAssumption DEF Fill, Cancel, OrderInv, TypeOK, Orders
  <2>2. /\ order'[e].status \in {"open", "ended"}
        /\ order'[e].filled \in {order[e].filled, order[e].filled + 1}
        /\ order'[e].status = "open" => order'[e].filled < Qty
        /\ \A d \in Entries \ {e} : order'[d] = order[d]
    BY <1>5, <2>1, NumbersAssumption DEF Fill, Cancel, TypeOK, Orders
  <2>3. \A d \in Entries : \A v \in sources[d] : v.complete => v.order = order'[d] /\ order'[d].status = "ended"
    BY <2>1, <2>2 DEF OrderInv
  <2>4. stored[e].filled <= order'[e].filled
    BY <2>1, <2>2, NumbersAssumption DEF OrderInv, TypeOK, Orders
  <2> QED BY <1>5, <2>1, <2>2, <2>3, <2>4 DEF OrderInv, Fill, Cancel, ledger, outbox
<1>6. ASSUME NEW e \in Entries, Import(e) PROVE OrderInv'
  <2>1. PICK o \in Readings(e), complete \in BOOLEAN, k \in 0..Qty :
          (complete => o.status = "ended") /\ Adopt(e, o, complete, k)
    BY <1>6 DEF Import
  <2>2. o.filled \in 0..order[e].filled /\ (o.status = "ended" => o = order[e])
    BY <2>1, NumbersAssumption DEF Readings, TypeOK, Orders
  <2>3. /\ fills'[e] = k /\ k <= stored'[e].filled
        /\ stored'[e] \in {stored[e], o}
        /\ \A d \in Entries \ {e} : fills'[d] = fills[d] /\ stored'[d] = stored[d]
    <3>1. fills' = [fills EXCEPT ![e] = k] /\ k \in fills[e]..stored'[e].filled
      BY <2>1 DEF Adopt, Recorded
    <3>2. stored' = stored \/ stored' = [stored EXCEPT ![e] = o]
      BY <2>1 DEF Adopt
    <3> QED BY <3>1, <3>2 DEF TypeOK, Quantities
  <2>4. stored'[e].filled <= order[e].filled
    BY <2>2, <2>3, NumbersAssumption DEF OrderInv, TypeOK, Orders
  <2>5. \A d \in Entries : \A v \in sources'[d] : v.complete => v.order = order[d] /\ order[d].status = "ended"
    <3>1. sources' = [sources EXCEPT ![e] = @ \cup {[order |-> o, complete |-> complete]}]
      BY <2>1 DEF Adopt
    <3> QED BY <2>1, <2>2, <3>1 DEF OrderInv, TypeOK
  <2>6. UNCHANGED <<claimed, phase, ordered, order>>
    BY <2>1 DEF Adopt, outbox
  <2> QED BY <2>3, <2>4, <2>5, <2>6 DEF OrderInv
<1>7. CASE UNCHANGED vars \/ \E g \in Guardians : CaptureStep(g) \/ Fail(g)
  BY <1>1, <1>7 DEF vars, outbox, ledger, CaptureStep, Begin, ReadAccount, ReadPositions,
     ReadOrders, RereadAccount, RereadPositions, RereadOrders, Certify, Fail
<1> QED BY <1>2, <1>3, <1>4, <1>5, <1>6, <1>7 DEF Next

\* What the broker holds never shrinks.
LEMMA HeldGrows ==
  ASSUME IInv, [Next]_vars
  PROVE  /\ \A e \in Entries : /\ BrokerHeld[e] \in Nat /\ BrokerHeld'[e] \in Nat
                               /\ BrokerHeld[e] <= BrokerHeld'[e]
         /\ SumOf(BrokerHeld) \in Nat /\ SumOf(BrokerHeld') \in Nat
         /\ SumOf(BrokerHeld) <= SumOf(BrokerHeld')
<1>1. \A e \in Entries : order[e].filled \in Nat /\ order'[e].filled \in Nat
  BY TypeStep, NumbersAssumption DEF IInv, TypeOK, Orders
<1>2. ASSUME NEW e \in Entries PROVE order[e].filled <= order'[e].filled
  <2>1. CASE UNCHANGED order
    BY <1>1, <2>1
  <2>2. ASSUME NEW d \in Entries, Accept(d) \/ Fill(d) \/ Cancel(d)
        PROVE  order[e].filled <= order'[e].filled
    <3>1. \/ order' = [order EXCEPT ![d].status = "open"]
          \/ order' = [order EXCEPT ![d].status = "ended"]
          \/ \E s : order' = [order EXCEPT ![d] = [status |-> s, filled |-> order[d].filled + 1]]
      BY <2>2 DEF Accept, Fill, Cancel
    <3>2. order'[e].filled \in {order[e].filled, order[e].filled + 1}
      BY <3>1 DEF IInv, TypeOK, Orders
    <3> QED BY <1>1, <3>2
  <2> QED BY <2>1, <2>2, ZenonT(60) DEF Next, vars, outbox, ledger, CaptureStep, Begin, ReadAccount,
          ReadPositions, ReadOrders, RereadAccount, RereadPositions, RereadOrders, Certify,
          Fail, Claim, Authorise, Refuse, Import, Adopt
<1>3. \A e \in Entries : /\ BrokerHeld[e] \in Nat /\ BrokerHeld'[e] \in Nat
                         /\ BrokerHeld[e] <= BrokerHeld'[e]
  BY <1>1, <1>2 DEF BrokerHeld
<1>4. SumOf(BrokerHeld) \in Nat /\ SumOf(BrokerHeld') \in Nat
  BY <1>3, SumNat, EntriesAssumption DEF SumOf
<1>5. SumOf(BrokerHeld) <= SumOf(BrokerHeld')
  BY <1>3, SumLess, EntriesAssumption DEF SumOf
<1> QED BY <1>3, <1>4, <1>5

-----------------------------------------------------------------------------
(* Certificates.                                                           *)

\* An acquisition in the middle, when only the broker moves.
LEMMA CaptureKept ==
  ASSUME IInv, [Next]_vars, NEW g \in Guardians,
         \/ capture'[g] = capture[g]
         \/ capture'[g] = [capture[g] EXCEPT !.crossed = TRUE]
         \/ capture'[g].pc \in {"idle", "account"}
  PROVE  LET c == capture'[g] IN
         /\ c.pc = "positions" => Cash <= c.cash + SumOf(BrokerHeld')
         /\ c.pc \in {"orders", "account2"} =>
              /\ Cash <= c.cash + SumOf(c.held)
              /\ \A e \in Entries : c.held[e] <= order'[e].filled
         /\ c.pc \in {"positions2", "orders2", "certify"} => c.cash + SumOf(c.held) = Cash
<1>1. CASE capture'[g].pc \in {"idle", "account"}
  BY <1>1
<1>2. CASE \/ capture'[g] = capture[g]
           \/ capture'[g] = [capture[g] EXCEPT !.crossed = TRUE]
  <2>1. capture[g] \in Captures
    BY DEF IInv, TypeOK
  <2>2. /\ capture'[g].pc = capture[g].pc /\ capture'[g].cash = capture[g].cash
        /\ capture'[g].held = capture[g].held
    BY <1>2, <2>1 DEF Captures
  <2>3. capture[g].cash \in Nat /\ \A e \in Entries : capture[g].held[e] \in Nat
    BY <2>1, NumbersAssumption DEF Captures, Quantities
  <2>4. Cash <= capture[g].cash + SumOf(BrokerHeld) => Cash <= capture[g].cash + SumOf(BrokerHeld')
    BY <2>3, HeldGrows, NumbersAssumption
  <2>5. \A e \in Entries : capture[g].held[e] <= order[e].filled => capture[g].held[e] <= order'[e].filled
    BY <2>3, HeldGrows DEF BrokerHeld
  <2> QED BY <2>2, <2>4, <2>5 DEF IInv, CaptureInv
<1> QED BY <1>1, <1>2

LEMMA CaptureStepInv ==
  ASSUME IInv, [Next]_vars
  PROVE  CaptureInv'
<1> SUFFICES ASSUME NEW g \in Guardians
             PROVE  LET c == capture'[g] IN
                    /\ c.pc = "positions" => Cash <= c.cash + SumOf(BrokerHeld')
                    /\ c.pc \in {"orders", "account2"} =>
                         /\ Cash <= c.cash + SumOf(c.held)
                         /\ \A e \in Entries : c.held[e] <= order'[e].filled
                    /\ c.pc \in {"positions2", "orders2", "certify"} => c.cash + SumOf(c.held) = Cash
  BY DEF CaptureInv
<1> DEFINE c == capture[g]
           d == capture'[g]
<1>0. /\ c \in Captures /\ capture \in [Guardians -> Captures]
      /\ c.cash \in 0..Cash /\ c.held \in Quantities
      /\ BrokerCash \in 0..Cash /\ SumOf(BrokerHeld) \in Nat /\ Cash \in Nat
      /\ BrokerCash + SumOf(BrokerHeld) = Cash
  BY BrokerSum, NumbersAssumption DEF IInv, TypeOK, Captures
\* Who acts on another acquisition, or none.
<1>1. CASE capture' = capture
  BY <1>1, CaptureKept
<1>2. ASSUME NEW h \in Guardians \ {g}, CaptureStep(h) \/ Fail(h)
      PROVE  d = c
  BY <1>0, <1>2 DEF CaptureStep, Begin, ReadAccount, ReadPositions, ReadOrders, RereadAccount,
     RereadPositions, RereadOrders, Certify, Fail, Abandon
<1>3. ASSUME NEW e \in Entries, Authorise(e)
      PROVE  d = c \/ d = [c EXCEPT !.crossed = TRUE]
  <2>1. d = [c EXCEPT !.crossed = @ \/ (c.pc # "idle")]
    BY <1>3 DEF Authorise
  <2>2. c.crossed \in BOOLEAN
    BY <1>0 DEF Captures
  <2>3. CASE c.pc = "idle"
    <3>1. [c EXCEPT !.crossed = c.crossed] = c
      BY <1>0 DEF Captures
    <3>2. (c.crossed \/ (c.pc # "idle")) = c.crossed
      BY <2>2, <2>3
    <3> QED BY <2>1, <3>1, <3>2
  <2>4. CASE c.pc # "idle"
    <3>1. (c.crossed \/ (c.pc # "idle")) = TRUE
      BY <2>2, <2>4
    <3> QED BY <2>1, <3>1
  <2> QED BY <2>3, <2>4
\* The acquisition's own steps.
<1>4. CASE Begin(g) \/ Certify(g) \/ Fail(g)
  <2>1. d.pc \in {"idle", "account"}
    BY <1>0, <1>4 DEF Begin, Certify, Fail, Abandon, IdleCapture, Captures
  <2> QED BY <2>1, CaptureKept
<1>5. CASE ReadAccount(g)
  <2>1. d.pc = "positions" /\ d.cash = BrokerCash /\ order' = order
    BY <1>0, <1>5 DEF ReadAccount, Captures
  <2>2. SumOf(BrokerHeld') = SumOf(BrokerHeld)
    BY <2>1 DEF BrokerHeld
  <2> QED BY <1>0, <2>1, <2>2
<1>6. CASE ReadPositions(g)
  <2>1. c.pc = "positions" /\ d.pc = "orders" /\ d.cash = c.cash /\ d.held = BrokerHeld /\ order' = order
    BY <1>0, <1>6 DEF ReadPositions, Captures
  <2>2. Cash <= c.cash + SumOf(BrokerHeld)
    BY <2>1 DEF IInv, CaptureInv
  <2>3. \A e \in Entries : BrokerHeld[e] <= order[e].filled
    BY HeldGrows DEF BrokerHeld
  <2> QED BY <2>1, <2>2, <2>3
<1>7. CASE ReadOrders(g)
  <2>1. /\ c.pc = "orders" /\ d.pc = "account2" /\ d.cash = c.cash /\ d.held = c.held
        /\ order' = order
    BY <1>0, <1>7 DEF ReadOrders, Captures
  <2> QED BY <2>1 DEF IInv, CaptureInv
<1>8. CASE RereadAccount(g)
  <2>1. CASE d.pc = "idle"
    BY <2>1
  <2>2. CASE d.pc # "idle"
    <3>1. /\ c.pc = "account2" /\ c.cash = BrokerCash
          /\ d.pc = "positions2" /\ d.cash = c.cash /\ d.held = c.held
      BY <1>0, <1>8, <2>2 DEF RereadAccount, Captures, Abandon, IdleCapture
    <3>2. /\ Cash <= c.cash + SumOf(c.held)
          /\ \A e \in Entries : c.held[e] \in Nat /\ BrokerHeld[e] \in Nat /\ c.held[e] <= BrokerHeld[e]
      BY <1>0, <3>1, HeldGrows, NumbersAssumption DEF IInv, CaptureInv, BrokerHeld, Quantities
    <3>3. SumOf(c.held) <= SumOf(BrokerHeld) /\ SumOf(c.held) \in Nat
      <4> HIDE DEF c
      <4> QED BY <3>2, SumLess, SumNat, EntriesAssumption DEF SumOf
    <3> QED BY <1>0, <3>1, <3>2, <3>3
  <2> QED BY <2>1, <2>2
<1>9. CASE RereadPositions(g) \/ RereadOrders(g)
  <2>1. CASE d.pc = "idle"
    BY <2>1
  <2>2. CASE d.pc # "idle"
    <3>1. /\ c.pc \in {"positions2", "orders2"} /\ d.pc \in {"orders2", "certify"}
          /\ d.cash = c.cash /\ d.held = c.held
      BY <1>0, <1>9, <2>2 DEF RereadPositions, RereadOrders, Captures, Abandon, IdleCapture
    <3> QED BY <3>1 DEF IInv, CaptureInv
  <2> QED BY <2>1, <2>2
<1> HIDE DEF c, d
<1>10. CASE \E h \in Guardians : CaptureStep(h) \/ Fail(h)
  <2>1. CASE CaptureStep(g) \/ Fail(g)
    BY <2>1, <1>4, <1>5, <1>6, <1>7, <1>8, <1>9 DEF CaptureStep
  <2>2. CASE \E h \in Guardians \ {g} : CaptureStep(h) \/ Fail(h)
    BY <2>2, <1>2, CaptureKept DEF c, d
  <2> QED BY <1>10, <2>1, <2>2
<1>11. CASE \E e \in Entries : Authorise(e)
  BY <1>3, <1>11, CaptureKept DEF c, d
<1> QED BY <1>1, <1>10, <1>11, ZenonT(60)
        DEF Next, vars, Claim, Refuse, Accept, Fill, Cancel, Import, Adopt

LEMMA CertStep ==
  ASSUME IInv, [Next]_vars
  PROVE  CertInv'
<1>0. cert \in Certs
  BY DEF IInv, TypeOK
\* A revocation takes the authority and nothing else.
<1>1. ASSUME NEW b \in BOOLEAN, cert' = [cert EXCEPT !.revoked = cert.revoked \/ b]
      PROVE  CertInv'
  <2>1. cert'.cash = cert.cash /\ cert'.fills = cert.fills
    BY <1>0, <1>1 DEF Certs
  <2>2. CASE cert = NoCert
    <3>1. cert.revoked = TRUE
      BY <2>2 DEF NoCert
    <3>2. [cert EXCEPT !.revoked = TRUE] = cert
      BY <1>0, <3>1 DEF Certs
    <3>3. (cert.revoked \/ b) = TRUE
      BY <3>1
    <3> QED BY <1>1, <2>2, <3>2, <3>3 DEF CertInv
  <2> QED BY <2>1, <2>2 DEF IInv, CertInv
<1>2. ASSUME NEW g \in Guardians, Certify(g) PROVE CertInv'
  <2>1. CASE capture[g].crossed
    <3>1. cert' = [cert EXCEPT !.revoked = cert.revoked \/ cert.full] /\ cert.full \in BOOLEAN
      BY <1>0, <1>2, <2>1 DEF Certify, Certs
    <3> QED BY <1>1, <3>1
  <2>2. CASE ~capture[g].crossed
    <3>1. capture[g].pc = "certify" /\ capture[g].cash + SumOf(capture[g].held) = Cash
      BY <1>2 DEF Certify, IInv, CaptureInv
    <3>2. \/ cert' = cert
          \/ cert'.cash = capture[g].cash /\ cert'.fills = capture[g].held
      BY <1>2, <2>2 DEF Certify
    <3> QED BY <3>1, <3>2 DEF IInv, CertInv
  <2> QED BY <2>1, <2>2
<1>3. ASSUME NEW e \in Entries, Import(e) PROVE CertInv'
  <2> DEFINE b == cert.full /\ cert.fills # fills'
  <2>1. cert' = [cert EXCEPT !.revoked = cert.revoked \/ b] /\ b \in BOOLEAN
    BY <1>0, <1>3 DEF Import, Adopt, Certs
  <2> HIDE DEF b
  <2> QED BY <1>1, <2>1
<1>4. CASE UNCHANGED cert
  BY <1>4 DEF IInv, CertInv
<1> QED BY <1>2, <1>3, <1>4 DEF Next, CaptureStep, Begin, ReadAccount, ReadPositions, ReadOrders,
     RereadAccount, RereadPositions, RereadOrders, Fail, Claim, Authorise, Refuse, Accept, Fill,
     Cancel, vars

-----------------------------------------------------------------------------
(* The worst case.                                                         *)

\* What a certificate of the current ledger leaves for new entries.
LEMMA Headroom ==
  ASSUME IInv, NEW amount \in Nat, Affords(amount, Counted)
  PROVE  /\ Pending(Counted) \in Nat /\ SumOf(fills) \in Nat
         /\ amount + Pending(Counted) + SumOf(fills) <= Cash
<1>1. cert.cash + SumOf(cert.fills) = Cash /\ cert.fills = fills
  BY DEF Affords, Current, IInv, CertInv, NoCert
<1>2. amount + Pending(Counted) <= cert.cash /\ cert.cash \in Nat
  BY NumbersAssumption DEF Affords, IInv, TypeOK, Certs
<1>3. \A e \in Entries : fills[e] \in Nat /\ Unfilled[e] \in Nat
  BY NumbersAssumption DEF IInv, TypeOK, Quantities, Unfilled
<1>4. SumOf(fills) \in Nat
  BY <1>3, SumNat, EntriesAssumption DEF SumOf
<1>5. Pending(Counted) \in Nat
  <2> DEFINE rest == {e \in Counted : ~Terminal(e)}
  <2>1. rest \in SUBSET Entries
    BY DEF Counted, IInv, TypeOK
  <2>2. IsFiniteSet(rest)
    BY <2>1, EntriesAssumption, FS_Subset
  <2> HIDE DEF rest
  <2>3. SumFunctionOnSet(Unfilled, rest) \in Nat
    BY <1>3, <2>1, <2>2, SumNat
  <2> QED BY <2>3 DEF Pending, rest
<1> QED BY <1>1, <1>2, <1>4, <1>5, NumbersAssumption

\* What is spent and what is still reserved for an entry cover it.
LEMMA Covered ==
  ASSUME IInv, NEW e \in Entries
  PROVE  Exposure(e) <= fills[e] + IF e \in Counted /\ ~Terminal(e) THEN Unfilled[e] ELSE 0
<1>1. /\ fills[e] \in 0..Qty /\ order[e].filled \in 0..Qty /\ Qty \in Nat
      /\ Unfilled[e] = Qty - fills[e]
  BY NumbersAssumption DEF IInv, TypeOK, Quantities, Orders, Unfilled
<1>2. Exposure(e) \in order[e].filled..Qty
  BY ExposureBounds DEF IInv
<1>3. CASE e \notin Counted
  <2>1. Exposure(e) = 0
    BY <1>3 DEF Counted, Exposure
  <2> QED BY <1>1, <1>3, <2>1
<1>4. CASE e \in Counted /\ Terminal(e)
  <2>1. PICK v \in sources[e] : v.complete /\ v.order = stored[e]
    BY <1>4 DEF Terminal
  <2>2. order[e] = stored[e] /\ order[e].status = "ended"
    BY <2>1 DEF IInv, OrderInv
  <2>3. Exposure(e) = fills[e]
    BY <1>4, <2>2 DEF Terminal, Exposure, Counted
  <2> QED BY <1>1, <1>4, <2>3
<1>5. CASE e \in Counted /\ ~Terminal(e)
  BY <1>1, <1>2, <1>5
<1> QED BY <1>3, <1>4, <1>5

LEMMA ClaimKeeps ==
  ASSUME IInv, NEW batch \in SUBSET Entries, Claim(batch), TypeOK', OrderInv'
  PROVE  NeverOverspend'
<1> DEFINE amount == Cardinality(batch) * Qty
           rest == {e \in Counted : ~Terminal(e)}
           reserved == [e \in Entries |-> IF e \in rest THEN Unfilled[e] ELSE 0]
           new == [e \in Entries |-> IF e \in batch THEN Qty ELSE 0]
           spoken == [e \in Entries |-> fills[e] + reserved[e]]
           worst == [e \in Entries |-> spoken[e] + new[e]]
<1> USE EntriesAssumption
<1>0. IsFiniteSet(batch) /\ amount \in Nat /\ Qty \in Nat
  <2>1. IsFiniteSet(batch) /\ Cardinality(batch) \in Nat
    BY FS_Subset, FS_CardinalityType
  <2> QED BY <2>1, NumbersAssumption
<1>1. /\ Pending(Counted) \in Nat /\ SumOf(fills) \in Nat
      /\ amount + Pending(Counted) + SumOf(fills) <= Cash
  <2> HIDE DEF amount
  <2>1. Affords(amount, Counted)
    BY DEF Claim, amount
  <2> QED BY <1>0, <2>1, Headroom
<1>2. \A e \in Entries : /\ fills[e] \in Nat /\ reserved[e] \in Nat /\ new[e] \in Nat
                         /\ Unfilled[e] \in Nat
  BY <1>0 DEF IInv, TypeOK, Quantities, Unfilled
<1>3. SumOf(reserved) = Pending(Counted)
  <2>1. rest \subseteq Entries
    BY DEF Counted, IInv, TypeOK
  <2>2. /\ \A e \in rest : Unfilled[e] \in Nat /\ reserved[e] = Unfilled[e]
        /\ \A e \in Entries \ rest : reserved[e] = 0
    BY <1>2, <2>1
  <2> HIDE DEF reserved, rest
  <2>3. SumFunctionOnSet(reserved, Entries) = SumFunctionOnSet(Unfilled, rest)
    BY <2>1, <2>2, SumSupport
  <2> QED BY <2>3 DEF SumOf, Pending, rest
<1>4. SumOf(new) = amount
  <2>1. /\ \A e \in batch : new[e] = Qty
        /\ \A e \in Entries \ batch : new[e] = 0
    OBVIOUS
  <2> HIDE DEF new
  <2>2. SumFunctionOnSet(new, Entries) = SumFunctionOnSet(new, batch)
    BY <1>0, <2>1, SumSupport
  <2>3. SumFunctionOnSet(new, batch) = amount
    BY <1>0, <2>1, SumConstant
  <2> QED BY <2>2, <2>3 DEF SumOf
<1>5. \A e \in Entries : Exposure(e)' <= worst[e] /\ Exposure(e)' \in Nat
  <2> SUFFICES ASSUME NEW e \in Entries PROVE Exposure(e)' <= worst[e] /\ Exposure(e)' \in Nat
    OBVIOUS
  <2>1. Exposure(e)' \in Nat /\ Exposure(e)' <= Qty
    BY <1>0, ExposureNext, NumbersAssumption DEF TypeOK, Orders
  <2>2. CASE e \in batch
    BY <1>0, <1>2, <2>1, <2>2
  <2>3. CASE e \notin batch
    <3>1. Exposure(e)' = Exposure(e)
      BY <2>3 DEF Claim, Exposure, outbox, ledger
    <3>2. Exposure(e) <= spoken[e]
      BY Covered
    <3> QED BY <1>2, <2>1, <2>3, <3>1, <3>2
  <2> QED BY <2>2, <2>3
<1>6. \A e \in Entries : spoken[e] = fills[e] + reserved[e] /\ worst[e] = spoken[e] + new[e]
  OBVIOUS
<1> HIDE DEF amount, reserved, new, spoken, worst
<1>7. SumOf(worst) = SumOf(fills) + Pending(Counted) + amount
  <2>1. SumOf(spoken) = SumOf(fills) + SumOf(reserved)
    BY <1>2, <1>6, SumPlus DEF SumOf
  <2>2. SumOf(worst) = SumOf(spoken) + SumOf(new)
    BY <1>2, <1>6, SumPlus DEF SumOf
  <2> QED BY <1>3, <1>4, <2>1, <2>2
<1>8. SumOf(Exposures') <= SumOf(worst)
  <2>1. \A e \in Entries : Exposures'[e] \in Nat /\ Exposures'[e] <= worst[e] /\ worst[e] \in Nat
    BY <1>2, <1>5, <1>6 DEF Exposures
  <2> QED BY <2>1, SumLess DEF SumOf
<1>9. SumOf(Exposures') \in Nat /\ SumOf(worst) \in Nat
  <2>1. \A e \in Entries : Exposures'[e] \in Nat /\ worst[e] \in Nat
    BY <1>2, <1>5, <1>6 DEF Exposures
  <2> QED BY <2>1, SumNat DEF SumOf
<1>10. SumOf(Exposures') <= Cash
  BY <1>0, <1>1, <1>7, <1>8, <1>9, NumbersAssumption
<1> QED BY <1>10 DEF NeverOverspend, Exposures, SumOf

LEMMA WorstStep ==
  ASSUME IInv, [Next]_vars
  PROVE  NeverOverspend'
<1> USE DEF IInv
<1>1. TypeOK' /\ OrderInv'
  BY TypeStep, OrderStep
<1>2. ASSUME \A e \in Entries : Exposure(e)' <= Exposure(e)
      PROVE  NeverOverspend'
  <2>1. \A e \in Entries : Exposures[e] \in Nat /\ Exposures'[e] \in Nat /\ Exposures'[e] <= Exposures[e]
    <3>1. ASSUME NEW e \in Entries PROVE Exposure(e) \in Nat /\ Exposure(e)' \in Nat
      <4>1. Exposure(e) \in order[e].filled..Qty /\ order[e].filled \in Nat /\ order'[e].filled \in Nat
        BY <1>1, ExposureBounds, NumbersAssumption DEF TypeOK, Orders
      <4>2. Exposure(e)' \in order'[e].filled..Qty
        BY <1>1, ExposureNext
      <4> QED BY <4>1, <4>2, NumbersAssumption
    <3> QED BY <1>2, <3>1 DEF Exposures
  <2>2. /\ SumOf(Exposures') <= SumOf(Exposures)
        /\ SumOf(Exposures) \in Nat /\ SumOf(Exposures') \in Nat
    BY <2>1, SumLess, SumNat, EntriesAssumption DEF SumOf
  <2>3. SumOf(Exposures) <= Cash
    BY DEF NeverOverspend, Exposures
  <2>4. SumOf(Exposures') <= Cash
    BY <2>2, <2>3, NumbersAssumption
  <2> QED BY <2>4 DEF NeverOverspend, Exposures, SumOf
<1>3. \A e \in Entries : Exposure(e) \in Nat /\ Exposure(e) <= Qty
  BY ExposureBounds, NumbersAssumption DEF TypeOK, Orders
<1>4. CASE UNCHANGED <<claimed, phase, order>>
  <2>1. \A e \in Entries : Exposure(e)' = Exposure(e)
    BY <1>4 DEF Exposure
  <2> QED BY <1>2, <1>3, <2>1
<1>5. ASSUME NEW d \in Entries, Authorise(d) \/ Refuse(d) PROVE NeverOverspend'
  <2>1. \A e \in Entries : Exposure(e)' = Exposure(e) \/ Exposure(e)' = 0
    BY <1>5 DEF Authorise, Refuse, Sending!Send, Sending!Void, Exposure, TypeOK
  <2> QED BY <1>2, <1>3, <2>1
<1>6. ASSUME NEW d \in Entries, Accept(d) \/ Fill(d) \/ Cancel(d) PROVE NeverOverspend'
  <2>1. \A e \in Entries \ {d} : Exposure(e)' = Exposure(e)
    BY <1>6 DEF Accept, Fill, Cancel, Sending!Appear, Exposure, TypeOK, outbox
  <2>2. Exposure(d) = Qty
    BY <1>6 DEF Accept, Fill, Cancel, Sending!Appear, Exposure, OrderInv, TypeOK
  <2>3. Exposure(d)' <= Qty
    BY <1>1, ExposureNext, NumbersAssumption DEF TypeOK, Orders
  <2> QED BY <1>2, <1>3, <2>1, <2>2, <2>3
<1>7. ASSUME NEW batch \in SUBSET Entries, Claim(batch) PROVE NeverOverspend'
  BY <1>1, <1>7, ClaimKeeps
<1> QED BY <1>4, <1>5, <1>6, <1>7, ZenonT(60)
        DEF Next, CaptureStep, Begin, ReadAccount, ReadPositions, ReadOrders, RereadAccount,
            RereadPositions, RereadOrders, Certify, Fail, Import, Adopt, outbox, vars

-----------------------------------------------------------------------------
(* The theorems.                                                           *)

LEMMA Invariance == Spec => []IInv
<1>1. IInv /\ [Next]_vars => IInv'
  BY TypeStep, OrderStep, CertStep, CaptureStepInv, WorstStep DEF IInv
<1> QED BY <1>1, InitInv, PTL DEF Spec

\* Claims, outbox, ledger, certificates and acquisitions keep their types: what is
\* recorded of an order's fills stays within its quantity, cash within the account.
THEOREM TypeCorrect == Spec => []TypeOK
<1>1. IInv => TypeOK
  BY DEF IInv
<1> QED BY <1>1, Invariance, PTL

\* Certified cash and quantities are of one moment (synchronize, stable_account_reads):
\* the account read twice encloses the positions.
THEOREM CertificatesAreOfOneMoment == Spec => []CertifiedIsOneMoment
<1>1. IInv => CertifiedIsOneMoment
  BY DEF IInv, CertInv, CertifiedIsOneMoment
<1> QED BY <1>1, Invariance, PTL

\* The account pays for every claimed entry at its worst (portfolio_budget, claim_batch):
\* what a certificate of the current ledger leaves is claimed only once.
THEOREM TheAccountPays == Spec => []NeverOverspend
<1>1. IInv => NeverOverspend
  BY DEF IInv
<1> QED BY <1>1, Invariance, PTL
=============================================================================
