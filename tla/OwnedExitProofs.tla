--------------------------- MODULE OwnedExitProofs ---------------------------
(***************************************************************************)
(* Proofs about OwnedExit, for any lots, quantities, guardians and number   *)
(* of exits: typing, that the store's evidence is true of the broker, that a*)
(* lot is never oversold, and that one exit at a time can sell.             *)
(***************************************************************************)
EXTENDS OwnedExit, SumLemmas

-----------------------------------------------------------------------------
(* The inductive invariant.                                                *)

(* Outbox, order and what the store has of it agree with the exit's stage.  *)
OrderOf(x) ==
  /\ phase[x] = "held" <=> stage[x] \in {"absent", "approved", "created"}
  /\ x \in ordered => phase[x] = "sent"
  /\ x \in ordered <=> order[x].status # "none"
  /\ order[x].status = "none" => order[x].filled = 0
  /\ order[x].status = "open" => order[x].filled < ticket[x].qty
  /\ order[x].filled <= ticket[x].qty
  /\ stage[x] = "rejected" => x \notin ordered
  /\ stage[x] = "open" => x \in ordered
  /\ stage[x] = "closed" => order[x].status = "ended"
  /\ IF stage[x] = "absent" THEN ticket[x] = NoTicket
     ELSE ticket[x].lot \in Lots /\ ticket[x].qty > 0

OrderInv == \A x \in Exits : OrderOf(x)

(* A guardian works on an exit that exists, and at the fence on one that has*)
(* been claimed; what it has seen of a lot is still owned.                  *)
GuardInv ==
  \A g \in Guardians :
    /\ guard[g].pc \in {"submit", "positions", "orders", "gate", "fence"} =>
         stage[guard[g].exit] # "absent"
    /\ guard[g].pc = "fence" => stage[guard[g].exit] # "approved"
    /\ guard[g].pc = "prepare" => guard[g].lot \in Lots /\ guard[g].seen <= owned[guard[g].lot]

\* What an exit has taken from its lot for good, or may still take.
Taken(x) ==
  IF phase[x] = "void" THEN 0
  ELSE IF order[x].status = "ended" THEN order[x].filled ELSE ticket[x].qty

Takes == [x \in Exits |-> Taken(x)]

(* The exits of a lot take no more than is owned of it.                     *)
LotInv ==
  \A l \in Lots : owned[l] <= bought[l] /\ SumFunctionOnSet(Takes, ExitsOf(l)) <= owned[l]

\* The exit is on its way to the broker, or nothing at the fence holds it back.
Cleared(x) ==
  \/ stage[x] \in {"sent", "open"}
  \/ /\ stage[x] = "created"
     /\ \E g \in Guardians : guard[g].pc = "fence" /\ guard[g].exit = x /\ guard[g].allowed

(* The final gate lets one exit through.                                    *)
OneInv == \A x, y \in Exits : Cleared(x) /\ Cleared(y) => x = y

IInv == TypeOK /\ OrderInv /\ EvidenceIsTrue /\ GuardInv /\ LotInv /\ OneInv

-----------------------------------------------------------------------------
(* Lemmas about quantities.                                                *)

LEMMA FiniteExits ==
  /\ IsFiniteSet(Exits) /\ IsFiniteSet(Lots)
  /\ \A S \in SUBSET Exits : IsFiniteSet(S)
<1>1. IsFiniteSet(1..MaxExits)
  BY FS_Interval, BoundsAssumption
<1> QED BY <1>1, LotsAssumption, FS_Subset DEF Exits

\* An exit takes at least what its order has filled or may fill, at most its ticket.
LEMMA TakenBounds ==
  ASSUME TypeOK, OrderInv, NEW x \in Exits
  PROVE  /\ Takes[x] \in 0..ticket[x].qty
         /\ order[x].filled \in Nat /\ MaySell(x) \in Nat
         /\ order[x].filled + MaySell(x) <= Takes[x]
<1>1. /\ order[x].filled \in Nat /\ ticket[x].qty \in Nat
      /\ order[x].status \in {"none", "open", "ended"}
      /\ phase[x] \in {"held", "sent", "void"}
  BY QtyAssumption DEF TypeOK, Orders, Tickets
<1>2. Takes[x] = Taken(x)
  BY DEF Takes
<1> QED BY <1>1, <1>2 DEF OrderInv, OrderOf, Taken, MaySell

\* What the store holds for an exit covers what it takes.
LEMMA CommitmentCovers ==
  ASSUME TypeOK, OrderInv, EvidenceIsTrue, NEW l, NEW x \in Counted(l)
  PROVE  /\ x \in Exits /\ Commitments[x] \in Nat /\ Takes[x] <= Commitments[x]
<1>1. /\ x \in Exits /\ fills[x] \in Nat /\ ticket[x].qty \in Nat /\ stored[x] \in Orders
  BY QtyAssumption DEF Counted, TypeOK, Orders, Tickets
<1>2. Commitments[x] = Committed(x)
  BY <1>1 DEF Commitments
<1>3. CASE Terminal(x)
  BY <1>1, <1>2, <1>3 DEF Terminal, Committed, EvidenceIsTrue, Takes, Taken, Counted
<1>4. CASE ~Terminal(x)
  BY <1>1, <1>2, <1>4, TakenBounds DEF Committed
<1> QED BY <1>3, <1>4

\* An upper bound of what the lot's exits take, as the store sees it.
LEMMA SpokenCovers ==
  ASSUME TypeOK, OrderInv, EvidenceIsTrue, NEW l \in Lots
  PROVE  /\ Spoken(l) \in Nat
         /\ SumFunctionOnSet(Takes, ExitsOf(l)) <= Spoken(l)
<1>1. /\ Counted(l) \in SUBSET Exits /\ ExitsOf(l) \in SUBSET Exits
      /\ Counted(l) \subseteq ExitsOf(l)
  BY DEF Counted, ExitsOf
<1>2. \A x \in Counted(l) : /\ Takes[x] \in Nat /\ Commitments[x] \in Nat
                            /\ Takes[x] <= Commitments[x]
  <2> SUFFICES ASSUME NEW x \in Counted(l)
               PROVE  Takes[x] \in Nat /\ Commitments[x] \in Nat /\ Takes[x] <= Commitments[x]
    OBVIOUS
  <2>1. x \in Exits /\ ticket[x].qty \in Nat
    BY <1>1, QtyAssumption DEF TypeOK, Tickets
  <2> QED BY <2>1, CommitmentCovers, TakenBounds
<1>3. \A x \in ExitsOf(l) \ Counted(l) : Takes[x] = 0
  BY LotsAssumption DEF ExitsOf, Counted, Takes, Taken, OrderInv, OrderOf, NoTicket
<1>4. SumFunctionOnSet(Takes, ExitsOf(l)) = SumFunctionOnSet(Takes, Counted(l))
  BY <1>1, <1>2, <1>3, FiniteExits, SumSupport
<1>5. SumFunctionOnSet(Takes, Counted(l)) <= SumFunctionOnSet(Commitments, Counted(l))
  BY <1>1, <1>2, FiniteExits, SumLess
<1>6. SumFunctionOnSet(Commitments, Counted(l)) \in Nat
  BY <1>1, <1>2, FiniteExits, SumNat
<1> QED BY <1>4, <1>5, <1>6 DEF Spoken

\* What has been filled of a lot's exits does not exceed what they take.
LEMMA WorstCovered ==
  ASSUME TypeOK, OrderInv, NEW l \in Lots
  PROVE  /\ SumFunctionOnSet(Takes, ExitsOf(l)) \in Nat
         /\ SumFunctionOnSet(Filled, ExitsOf(l)) <= SumFunctionOnSet(Takes, ExitsOf(l))
         /\ SumFunctionOnSet([x \in Exits |-> order[x].filled + MaySell(x)], ExitsOf(l))
              <= SumFunctionOnSet(Takes, ExitsOf(l))
         /\ SumFunctionOnSet(Filled, ExitsOf(l)) \in Nat
         /\ SumFunctionOnSet([x \in Exits |-> order[x].filled + MaySell(x)], ExitsOf(l)) \in Nat
<1> DEFINE Worst == [x \in Exits |-> order[x].filled + MaySell(x)]
<1>1. ExitsOf(l) \in SUBSET Exits
  BY DEF ExitsOf
<1>2. \A x \in ExitsOf(l) : /\ Takes[x] \in Nat /\ Filled[x] \in Nat /\ Worst[x] \in Nat
                            /\ Filled[x] <= Takes[x] /\ Worst[x] <= Takes[x]
  <2> SUFFICES ASSUME NEW x \in Exits
               PROVE  /\ Takes[x] \in Nat /\ Filled[x] \in Nat /\ Worst[x] \in Nat
                      /\ Filled[x] <= Takes[x] /\ Worst[x] <= Takes[x]
    BY <1>1
  <2>1. ticket[x].qty \in Nat
    BY QtyAssumption DEF TypeOK, Tickets
  <2>2. Filled[x] = order[x].filled
    BY DEF Filled
  <2> QED BY <2>1, <2>2, TakenBounds
<1> HIDE DEF Worst
<1>3. /\ SumFunctionOnSet(Takes, ExitsOf(l)) \in Nat
      /\ SumFunctionOnSet(Filled, ExitsOf(l)) \in Nat
      /\ SumFunctionOnSet(Worst, ExitsOf(l)) \in Nat
  BY <1>1, <1>2, FiniteExits, SumNat
<1>4. /\ SumFunctionOnSet(Filled, ExitsOf(l)) <= SumFunctionOnSet(Takes, ExitsOf(l))
      /\ SumFunctionOnSet(Worst, ExitsOf(l)) <= SumFunctionOnSet(Takes, ExitsOf(l))
  BY <1>1, <1>2, FiniteExits, SumLess
<1> QED BY <1>3, <1>4 DEF Worst

\* The broker's position in the symbol is never short.
LEMMA PositionNat ==
  ASSUME TypeOK, OrderInv, LotInv
  PROVE  Position \in Nat
<1> DEFINE lotOf == [x \in Exits |-> ticket[x].lot]
<1>1. \A x \in Exits : Filled[x] \in Nat /\ (lotOf[x] \notin Lots => Filled[x] = 0)
  BY QtyAssumption DEF TypeOK, Orders, Filled, OrderInv, OrderOf, NoTicket
<1>2. ASSUME NEW l \in Lots
      PROVE  bought[l] \in Nat /\ SumFunctionOnSet(Filled, {x \in Exits : lotOf[x] = l}) <= bought[l]
  <2>1. {x \in Exits : lotOf[x] = l} = ExitsOf(l)
    BY DEF ExitsOf
  <2>2. bought[l] \in Nat /\ owned[l] \in Nat
    BY QtyAssumption DEF TypeOK
  <2>3. SumFunctionOnSet(Takes, ExitsOf(l)) <= owned[l] /\ owned[l] <= bought[l]
    BY DEF LotInv
  <2> HIDE DEF lotOf
  <2>4. /\ SumFunctionOnSet(Takes, ExitsOf(l)) \in Nat /\ SumFunctionOnSet(Filled, ExitsOf(l)) \in Nat
        /\ SumFunctionOnSet(Filled, ExitsOf(l)) <= SumFunctionOnSet(Takes, ExitsOf(l))
    BY WorstCovered
  <2> QED BY <2>1, <2>2, <2>3, <2>4
<1> HIDE DEF lotOf
<1>3. SumFunctionOnSet(Filled, Exits) <= SumFunctionOnSet(bought, Lots)
  BY <1>1, <1>2, FiniteExits, SumByParts
<1>4. SumFunctionOnSet(Filled, Exits) \in Nat /\ SumFunctionOnSet(bought, Lots) \in Nat
  BY <1>1, <1>2, FiniteExits, SumNat
<1> QED BY <1>3, <1>4 DEF Position

-----------------------------------------------------------------------------
(* The initial state.                                                      *)

LEMMA InitInv == Init => IInv
<1> SUFFICES ASSUME Init PROVE IInv
  OBVIOUS
<1> USE QtyAssumption, BoundsAssumption
<1>1. TypeOK
  <2>1. IdleGuard \in Guards
    BY DEF IdleGuard, Guards, Exits
  <2> QED BY <2>1 DEF Init, TypeOK, Sending!Init, Orders, NoOrder, Tickets, NoTicket, Stages
<1>2. OrderInv /\ EvidenceIsTrue /\ OneInv /\ GuardInv
  BY DEF Init, OrderInv, OrderOf, EvidenceIsTrue, OneInv, Cleared, GuardInv, IdleGuard, Sending!Init,
         NoOrder, NoTicket
<1>3. LotInv
  <2> SUFFICES ASSUME NEW l \in Lots
               PROVE  owned[l] <= bought[l] /\ SumFunctionOnSet(Takes, ExitsOf(l)) <= owned[l]
    BY DEF LotInv
  <2>1. ExitsOf(l) = {}
    BY LotsAssumption DEF Init, ExitsOf, NoTicket
  <2> QED BY <2>1, SumEmpty DEF Init
<1> QED BY <1>1, <1>2, <1>3 DEF IInv

-----------------------------------------------------------------------------
(* Typing.                                                                 *)

LEMMA IdleTyped == IdleGuard \in Guards
BY QtyAssumption, BoundsAssumption DEF IdleGuard, Guards, Exits

LEMMA IdleFields ==
  /\ IdleGuard.pc = "idle"
  /\ \A x \in Exits : /\ [IdleGuard EXCEPT !.pc = "submit", !.exit = x].pc = "submit"
                       /\ [IdleGuard EXCEPT !.pc = "submit", !.exit = x].exit = x
                       /\ [IdleGuard EXCEPT !.pc = "positions", !.exit = x].pc = "positions"
                       /\ [IdleGuard EXCEPT !.pc = "positions", !.exit = x].exit = x
BY DEF IdleGuard

\* A guardian's record stays typed.
LEMMA GuardTyped ==
  ASSUME TypeOK, NEW g \in Guardians, NEW r \in Guards, guard' = [guard EXCEPT ![g] = r]
  PROVE  guard' \in [Guardians -> Guards]
BY DEF TypeOK

LEMMA TypeGuardian ==
  ASSUME IInv, NEW g \in Guardians, GuardianStep(g) \/ GiveUp(g)
  PROVE  TypeOK'
<1> USE DEF IInv, entry, outbox, evidence
<1> DEFINE c == guard[g]
<1>0. c \in Guards
  BY DEF TypeOK
<1>1. /\ c \in Guards /\ IdleGuard \in Guards
      /\ \A x \in Exits : [IdleGuard EXCEPT !.pc = "submit", !.exit = x] \in Guards
      /\ [IdleGuard EXCEPT !.pc = "failed"] \in Guards
      /\ [IdleGuard EXCEPT !.pc = "positions", !.exit = c.exit] \in Guards
      /\ \A b \in BOOLEAN :
           [IdleGuard EXCEPT !.pc = "fence", !.exit = c.exit, !.allowed = b] \in Guards
      /\ [c EXCEPT !.pc = "positions"] \in Guards
  <2> HIDE DEF c
  <2>1. c.exit \in Exits /\ [c EXCEPT !.pc = "positions"] \in Guards
    BY <1>0 DEF Guards
  <2>2. [IdleGuard EXCEPT !.pc = "failed"] \in Guards
    BY IdleTyped DEF Guards
  <2>3. \A x \in Exits : [IdleGuard EXCEPT !.pc = "submit", !.exit = x] \in Guards
    BY IdleTyped DEF Guards
  <2>4. [IdleGuard EXCEPT !.pc = "positions", !.exit = c.exit] \in Guards
    BY <2>1, IdleTyped DEF Guards
  <2>5. \A b \in BOOLEAN :
           [IdleGuard EXCEPT !.pc = "fence", !.exit = c.exit, !.allowed = b] \in Guards
    BY <2>1, IdleTyped DEF Guards
  <2> QED BY <1>0, <2>1, <2>2, <2>3, <2>4, <2>5, IdleTyped, Zenon
<1> HIDE DEF c
<1>2. ASSUME NEW l \in Lots, ReadLot(g, l) PROVE TypeOK'
  <2>1. [c EXCEPT !.pc = "prepare", !.lot = l, !.seen = owned[l]] \in Guards
    BY <1>0 DEF Guards, TypeOK
  <2>2. guard' = [guard EXCEPT ![g] = [c EXCEPT !.pc = "prepare", !.lot = l, !.seen = owned[l]]]
    BY <1>2 DEF ReadLot, TypeOK, c
  <2>3. guard' \in [Guardians -> Guards]
    BY <2>1, <2>2, GuardTyped
  <2> QED BY <1>2, <2>3 DEF ReadLot, TypeOK
<1>3. CASE Prepare(g)
  <2> DEFINE l == c.lot
             Take(x) == /\ stage' = [stage EXCEPT ![x] = IF parallel THEN "created"
                                       ELSE IF stage[x] = "absent" THEN "approved" ELSE stage[x]]
                        /\ guard' = [guard EXCEPT ![g] =
                             [IdleGuard EXCEPT !.pc = "submit", !.exit = x]]
  <2>1. ASSUME NEW x \in Exits, Take(x)
        PROVE  stage' \in [Exits -> Stages] /\ guard' \in [Guardians -> Guards]
    <3>1. guard' \in [Guardians -> Guards]
      BY <1>1, <2>1, GuardTyped
    <3>2. stage' \in [Exits -> Stages]
      BY <2>1 DEF TypeOK, Stages
    <3> QED BY <3>1, <3>2
  <2>2. CASE \E x \in Prepared(l) : Take(x) /\ UNCHANGED ticket
    <3>1. \A x \in Prepared(l) : x \in Exits
      BY DEF Prepared, Counted
    <3> QED BY <1>3, <2>1, <2>2, <3>1 DEF Prepare, TypeOK
  <2>3. CASE /\ c.seen > Spoken(l)
             /\ \E x \in Exits : /\ Take(x)
                                 /\ ticket' = [ticket EXCEPT ![x] = [lot |-> l, qty |-> c.seen - Spoken(l)]]
    <3>1. l \in Lots /\ c.seen \in 0..Qty
      <4>1. guard[g].pc = "prepare"
        BY <1>3 DEF Prepare
      <4>2. l \in Lots
        BY <4>1 DEF GuardInv, c
      <4> QED BY <1>0, <4>2 DEF Guards
    <3>2. [lot |-> l, qty |-> c.seen - Spoken(l)] \in Tickets
      <4> HIDE DEF l
      <4>1. Spoken(l) \in Nat
        BY <3>1, SpokenCovers
      <4> QED BY <2>3, <3>1, <4>1, QtyAssumption DEF Tickets
    <3>3. ticket' \in [Exits -> Tickets]
      BY <2>3, <3>2 DEF TypeOK
    <3> QED BY <1>3, <2>1, <2>3, <3>3 DEF Prepare, TypeOK
  <2>4. CASE Rest(g) /\ UNCHANGED <<stage, ticket>>
    <3>1. guard' \in [Guardians -> Guards]
      BY <1>1, <2>4, GuardTyped DEF Rest
    <3> QED BY <1>3, <2>4, <3>1 DEF Prepare, TypeOK
  <2> QED BY <1>3, <2>2, <2>3, <2>4 DEF Prepare, c
<1>4. CASE Submit(g)
  <2>1. \/ guard' = [guard EXCEPT ![g] = [c EXCEPT !.pc = "positions"]]
        \/ guard' = [guard EXCEPT ![g] = IdleGuard]
    BY <1>4 DEF Submit, Turn, Rest, c, TypeOK
  <2>2. guard' \in [Guardians -> Guards]
    BY <1>1, <2>1, GuardTyped
  <2> QED BY <1>4, <2>2 DEF Submit, TypeOK
<1>5. CASE ReadPositions(g)
  <2>1. [c EXCEPT !.pc = "orders", !.position = Position] \in Guards
    BY <1>0, PositionNat DEF Guards
  <2>2. guard' = [guard EXCEPT ![g] = [c EXCEPT !.pc = "orders", !.position = Position]]
    BY <1>5 DEF ReadPositions, TypeOK, c
  <2>3. guard' \in [Guardians -> Guards]
    BY <2>1, <2>2, GuardTyped
  <2> QED BY <1>5, <2>3 DEF ReadPositions, TypeOK
<1>6. CASE ReadOpenOrders(g)
  <2> DEFINE S == {x \in Exits : order[x].status = "open"}
  <2>1. [c EXCEPT !.pc = "gate", !.selling = S] \in Guards
    BY <1>0 DEF Guards
  <2>2. guard' = [guard EXCEPT ![g] = [c EXCEPT !.pc = "gate", !.selling = S]]
    BY <1>6 DEF ReadOpenOrders, TypeOK, c
  <2>3. guard' \in [Guardians -> Guards]
    BY <2>1, <2>2, GuardTyped
  <2> QED BY <1>6, <2>3 DEF ReadOpenOrders, TypeOK
<1>7. CASE Claim(g) \/ Gate(g) \/ FenceConflict(g) \/ GiveUp(g)
  <2>1. \E r \in Guards : guard' = [guard EXCEPT ![g] = r]
    <3>1. GateAllows(g) \in BOOLEAN
      BY DEF GateAllows
    <3> QED BY <1>1, <1>7, <3>1 DEF Claim, Gate, FenceConflict, GiveUp, Rest, c
  <2>2. guard' \in [Guardians -> Guards]
    BY <2>1, GuardTyped
  <2>3. stage' \in [Exits -> Stages]
    BY <1>7 DEF Claim, Gate, FenceConflict, GiveUp, TypeOK, Stages
  <2> QED BY <1>7, <2>2, <2>3 DEF Claim, Gate, FenceConflict, GiveUp, TypeOK
<1>8. CASE Fence(g)
  <2>1. guard' \in [Guardians -> Guards]
    BY <1>1, <1>8, GuardTyped DEF Fence, Rest
  <2>2. stage' \in [Exits -> Stages] /\ phase' \in [Exits -> {"held", "sent", "void"}]
        /\ ordered' \subseteq Exits
    BY <1>8 DEF Fence, TypeOK, Stages, Sending!Send, Sending!Void
  <2> QED BY <1>8, <2>1, <2>2 DEF Fence, TypeOK
<1> QED BY <1>2, <1>3, <1>4, <1>5, <1>6, <1>7, <1>8 DEF GuardianStep

\* What a reading of an order can be.
LEMMA ReadingIs ==
  ASSUME TypeOK, OrderInv, NEW x \in Exits, NEW o \in Readings(x)
  PROVE  /\ o \in Orders /\ x \in ordered
         /\ o.status \in {"open", "ended"} /\ o.filled <= order[x].filled
         /\ o.status = "ended" => o = order[x]
<1>1. /\ order[x] # NoOrder /\ order[x] \in Orders /\ order[x].filled \in 0..Qty
      /\ order[x].status \in {"none", "open", "ended"}
  BY DEF Readings, TypeOK, Orders
<1>2. order[x] = [status |-> order[x].status, filled |-> order[x].filled]
  BY <1>1 DEF Orders
<1>3. order[x].status # "none"
  BY <1>1, <1>2 DEF OrderInv, OrderOf, NoOrder
<1>4. \/ o = order[x]
      \/ \E k \in 0..order[x].filled : o = [status |-> "open", filled |-> k]
  BY <1>1 DEF Readings
<1> QED BY <1>1, <1>3, <1>4, QtyAssumption DEF OrderInv, OrderOf, Orders

LEMMA TypeOutside ==
  ASSUME IInv,
         \/ \E x \in Exits : SendStep(x) \/ ImportExit(x)
         \/ \E l \in Lots : Buy(l) \/ ImportEntry(l)
         \/ UNCHANGED vars
  PROVE  TypeOK'
<1> USE QtyAssumption DEF IInv, entry, outbox, evidence
<1>1. ASSUME NEW x \in Exits, Accept(x) \/ Reject(x) \/ Withhold(x) \/ Garble(x) PROVE TypeOK'
  <2>1. /\ stage' \in [Exits -> Stages] /\ phase' \in [Exits -> {"held", "sent", "void"}]
        /\ ordered' \subseteq Exits
    BY <1>1 DEF Accept, Reject, Withhold, Garble, TypeOK, Stages, Sending!Appear, Sending!Void
  <2>2. order' \in [Exits -> Orders]
    BY <1>1 DEF Accept, Reject, Withhold, Garble, TypeOK, Orders
  <2>3. setbacks' \in 0..MaxSetbacks
    BY <1>1, BoundsAssumption DEF Accept, Reject, Withhold, Garble, TypeOK
  <2> QED BY <1>1, <2>1, <2>2, <2>3 DEF Accept, Reject, Withhold, Garble, TypeOK
<1>2. ASSUME NEW x \in Exits, Fill(x) \/ Cancel(x) PROVE TypeOK'
  <2>1. /\ order[x].filled \in 0..Qty /\ order[x].status = "open"
        /\ order[x].filled < ticket[x].qty /\ ticket[x].qty \in 0..Qty
    BY <1>2 DEF Fill, Cancel, TypeOK, Orders, Tickets, OrderInv, OrderOf
  <2>2. order' \in [Exits -> Orders]
    <3>1. PICK o \in Orders : order' = [order EXCEPT ![x] = o]
      <4>0. order[x] \in Orders
        BY DEF TypeOK
      <4>1. CASE Fill(x)
        <5>1. PICK s \in {"ended", "open"} :
                order' = [order EXCEPT ![x] = [status |-> s, filled |-> order[x].filled + 1]]
          BY <4>1 DEF Fill
        <5>2. [status |-> s, filled |-> order[x].filled + 1] \in Orders
          BY <2>1 DEF Orders
        <5> QED BY <5>1, <5>2
      <4>2. CASE Cancel(x)
        <5>1. order' = [order EXCEPT ![x] = [order[x] EXCEPT !.status = "ended"]]
          BY <4>2 DEF Cancel, TypeOK
        <5>2. [order[x] EXCEPT !.status = "ended"] \in Orders
          BY <4>0 DEF Orders
        <5> QED BY <5>1, <5>2
      <4> QED BY <1>2, <4>1, <4>2
    <3> QED BY <3>1 DEF TypeOK
  <2>3. setbacks' \in 0..MaxSetbacks
    BY <1>2, BoundsAssumption DEF Fill, Cancel, TypeOK
  <2> QED BY <1>2, <2>2, <2>3 DEF Fill, Cancel, TypeOK
<1>3. ASSUME NEW x \in Exits, ImportExit(x) PROVE TypeOK'
  <2>1. PICK o \in Readings(x), complete \in BOOLEAN : Adopt(x, o, complete)
    BY <1>3 DEF ImportExit
  <2>2. o \in Orders /\ o.filled \in 0..Qty
    BY ReadingIs DEF Orders
  <2>3. /\ stage' \in [Exits -> Stages] /\ stored' \in [Exits -> Orders]
        /\ sources' \in [Exits -> SUBSET [order : Orders, complete : BOOLEAN]]
    BY <2>1, <2>2 DEF Adopt, TypeOK, Stages
  <2>4. fills' \in [Exits -> 0..Qty]
    BY <2>1, <2>2 DEF Adopt, TypeOK
  <2> QED BY <2>1, <2>3, <2>4 DEF Adopt, TypeOK
<1>4. ASSUME NEW l \in Lots, Buy(l) \/ ImportEntry(l) PROVE TypeOK'
  BY <1>4 DEF Buy, ImportEntry, TypeOK
<1>5. CASE UNCHANGED vars
  BY <1>5 DEF vars, TypeOK
<1> QED BY <1>1, <1>2, <1>3, <1>4, <1>5 DEF SendStep

LEMMA TypeStep ==
  ASSUME IInv, [Next]_vars
  PROVE  TypeOK'
BY TypeGuardian, TypeOutside DEF Next

-----------------------------------------------------------------------------
(* Outbox, order and evidence of an exit.                                  *)

LEMMA OrderStep ==
  ASSUME IInv, [Next]_vars
  PROVE  OrderInv' /\ EvidenceIsTrue'
<1> USE QtyAssumption DEF IInv, entry, outbox, evidence
<1> DEFINE Same(x) == /\ phase'[x] = phase[x] /\ (x \in ordered' <=> x \in ordered)
                      /\ stage'[x] = stage[x] /\ ticket'[x] = ticket[x]
                      /\ order'[x] = order[x] /\ stored'[x] = stored[x]
                      /\ fills'[x] = fills[x]
           True(x) == /\ fills[x] <= stored[x].filled /\ stored[x].filled <= order[x].filled
                      /\ stored[x].status = "ended" => stored[x] = order[x]
<1>1. ASSUME NEW d \in Exits, \A x \in Exits \ {d} : Same(x), OrderOf(d)', True(d)'
      PROVE  OrderInv' /\ EvidenceIsTrue'
  <2>1. \A x \in Exits : OrderOf(x)'
    BY <1>1 DEF OrderInv, OrderOf
  <2>2. \A x \in Exits : True(x)'
    BY <1>1 DEF EvidenceIsTrue
  <2> QED BY <2>1, <2>2 DEF OrderInv, OrderOf, EvidenceIsTrue
<1>2. ASSUME UNCHANGED <<outbox, stage, ticket, order, evidence>> PROVE OrderInv' /\ EvidenceIsTrue'
  BY <1>2 DEF OrderInv, OrderOf, EvidenceIsTrue
<1>3. \A x \in Exits : /\ OrderOf(x) /\ True(x) /\ ticket[x].qty \in Nat /\ order[x].filled \in Nat
                       /\ order[x].status \in {"none", "open", "ended"}
                       /\ fills[x] \in Nat /\ stored[x].filled \in Nat
  BY DEF OrderInv, OrderOf, EvidenceIsTrue, TypeOK, Tickets, Orders
<1> HIDE DEF IInv
<1>typed. /\ TypeOK /\ stage \in [Exits -> Stages] /\ ticket \in [Exits -> Tickets]
          /\ phase \in [Exits -> {"held", "sent", "void"}]
          /\ order \in [Exits -> Orders] /\ stored \in [Exits -> Orders]
          /\ fills \in [Exits -> 0..Qty]
  BY DEF IInv, TypeOK
<1>4. ASSUME NEW g \in Guardians, Prepare(g) PROVE OrderInv' /\ EvidenceIsTrue'
  <2> DEFINE l == guard[g].lot
  <2>0. UNCHANGED <<phase, ordered, order, stored, fills>>
    BY <1>4 DEF Prepare
  <2>1. CASE UNCHANGED <<stage, ticket>>
    BY <1>2, <1>4, <2>1 DEF Prepare
  <2>2. ASSUME NEW x \in Prepared(l), UNCHANGED ticket,
               \E s \in {"approved", "created"} : stage' = [stage EXCEPT ![x] = s]
        PROVE  OrderInv' /\ EvidenceIsTrue'
    <3>1. x \in Exits /\ stage[x] \in {"approved", "created"}
      BY DEF Prepared, Counted
    <3>2. \A y \in Exits \ {x} : Same(y)
      BY <2>0, <2>2, <1>typed
    <3>3. OrderOf(x)' /\ True(x)'
      BY <1>3, <2>0, <2>2, <3>1, <1>typed DEF OrderOf
    <3> QED BY <1>1, <3>1, <3>2, <3>3
  <2>3. ASSUME NEW x \in Exits, stage[x] = "absent", NEW q, q \in Nat \ {0},
               ticket' = [ticket EXCEPT ![x] = [lot |-> l, qty |-> q]],
               \E s \in {"approved", "created"} : stage' = [stage EXCEPT ![x] = s]
        PROVE  OrderInv' /\ EvidenceIsTrue'
    <3>1. \A y \in Exits \ {x} : Same(y)
      BY <2>0, <2>3, <1>typed
    <3>2. l \in Lots
      BY <1>4 DEF Prepare, IInv, GuardInv
    <3>3. OrderOf(x)' /\ True(x)'
      <4>1. /\ ticket'[x] = [lot |-> l, qty |-> q] /\ stage'[x] \in {"approved", "created"}
            /\ UNCHANGED <<phase, ordered, order, stored, fills>>
        BY <2>0, <2>3, <1>typed
      <4>2. order[x].status = "none" /\ order[x].filled = 0 /\ phase[x] = "held" /\ x \notin ordered
        BY <1>3, <2>3 DEF OrderOf, NoTicket
      <4> QED BY <1>3, <2>3, <3>2, <4>1, <4>2 DEF OrderOf
    <3> QED BY <1>1, <3>1, <3>3
  <2>4. ASSUME Prepared(l) = {}, guard[g].seen > Spoken(l), NEW x \in Exits,
               {y \in Exits : stage[y] # "absent"} = 1..(x - 1)
        PROVE  stage[x] = "absent" /\ guard[g].seen - Spoken(l) \in Nat \ {0}
    <3>1. l \in Lots /\ guard[g].seen \in Nat
      <4>1. guard[g].pc = "prepare" /\ guard[g] \in Guards
        BY <1>4, <1>typed DEF Prepare, TypeOK
      <4> QED BY <4>1 DEF IInv, GuardInv, Guards
    <3>2. Spoken(l) \in Nat
      BY <3>1, SpokenCovers DEF IInv
    <3> QED BY <2>4, <3>1, <3>2, BoundsAssumption DEF Exits
  <2>5. \/ UNCHANGED <<stage, ticket>>
        \/ \E x \in Prepared(l) : /\ stage' = [stage EXCEPT ![x] = IF parallel THEN "created"
                                       ELSE IF stage[x] = "absent" THEN "approved" ELSE stage[x]]
                                  /\ UNCHANGED ticket
        \/ /\ Prepared(l) = {} /\ guard[g].seen > Spoken(l)
           /\ \E x \in Exits :
                /\ {y \in Exits : stage[y] # "absent"} = 1..(x - 1)
                /\ stage' = [stage EXCEPT ![x] = IF parallel THEN "created"
                       ELSE IF stage[x] = "absent" THEN "approved" ELSE stage[x]]
                /\ ticket' = [ticket EXCEPT ![x] = [lot |-> l, qty |-> guard[g].seen - Spoken(l)]]
    BY <1>4 DEF Prepare
  <2>6. \A x \in Prepared(l) : stage[x] \in {"approved", "created"}
    BY DEF Prepared
  <2> HIDE DEF l
  <2> QED BY <2>1, <2>2, <2>3, <2>4, <2>5, <2>6
<1>5. ASSUME NEW g \in Guardians, Claim(g) PROVE OrderInv' /\ EvidenceIsTrue'
  <2>1. CASE UNCHANGED stage
    BY <1>2, <1>5, <2>1 DEF Claim
  <2>2. CASE stage' = [stage EXCEPT ![guard[g].exit] = "created"]
    <3>1. PICK x \in Exits : x = guard[g].exit /\ stage[x] = "approved"
      BY <1>5, <1>typed DEF Claim, TypeOK, Guards
    <3>2. stage' = [stage EXCEPT ![x] = "created"] /\ UNCHANGED <<phase, ordered, ticket, order, stored, fills>>
      BY <1>5, <2>2, <3>1 DEF Claim
    <3>3. (\A y \in Exits \ {x} : Same(y)) /\ OrderOf(x)' /\ True(x)'
      BY <1>3, <3>1, <3>2, <1>typed DEF OrderOf
    <3> QED BY <1>1, <3>3
  <2> QED BY <1>5, <2>1, <2>2 DEF Claim
<1>6. ASSUME NEW g \in Guardians, Fence(g) PROVE OrderInv' /\ EvidenceIsTrue'
  <2>1. PICK x \in Exits : x = guard[g].exit /\ stage[x] = "created"
    BY <1>6, <1>typed DEF Fence, TypeOK, Guards
  <2>2. /\ \/ phase' = [phase EXCEPT ![x] = "sent"] /\ stage' = [stage EXCEPT ![x] = "sent"]
           \/ phase' = [phase EXCEPT ![x] = "void"] /\ stage' = [stage EXCEPT ![x] = "error"]
        /\ UNCHANGED <<ordered, ticket, order, stored, fills>>
    BY <1>6, <2>1 DEF Fence, Sending!Send, Sending!Void
  <2>3. \A y \in Exits \ {x} : Same(y)
    BY <2>2, <1>typed
  <2>4. OrderOf(x)' /\ True(x)'
    BY <1>3, <2>1, <2>2, <1>typed DEF OrderOf
  <2> QED BY <1>1, <2>1, <2>3, <2>4
<1>7. ASSUME NEW x \in Exits, SendStep(x) PROVE OrderInv' /\ EvidenceIsTrue'
  <2>1. \A y \in Exits \ {x} : Same(y)
    BY <1>7, <1>typed DEF SendStep, Accept, Reject, Withhold, Garble, Fill, Cancel, TypeOK,
       Sending!Appear, Sending!Void
  <2>2. ASSUME Accept(x) PROVE OrderOf(x)' /\ True(x)'
    BY <1>3, <2>2, <1>typed DEF Accept, Sending!Appear, TypeOK, OrderOf
  <2>3. ASSUME Reject(x) \/ Withhold(x) \/ Garble(x) PROVE OrderOf(x)' /\ True(x)'
    BY <1>3, <2>3, <1>typed DEF Reject, Withhold, Garble, Sending!Void, TypeOK, OrderOf
  <2>4. ASSUME Fill(x) \/ Cancel(x) PROVE OrderOf(x)' /\ True(x)'
    <3>1. /\ order[x].status = "open"
          /\ \/ order'[x] = [status |-> IF order[x].filled + 1 = ticket[x].qty THEN "ended" ELSE "open",
                             filled |-> order[x].filled + 1]
             \/ order'[x].status = "ended" /\ order'[x].filled = order[x].filled
          /\ UNCHANGED <<phase, ordered, stage, ticket, stored, fills>>
      BY <2>4, <1>typed DEF Fill, Cancel, Orders
    <3> QED BY <1>3, <3>1 DEF OrderOf
  <2>5. OrderOf(x)' /\ True(x)'
    BY <1>7, <2>2, <2>3, <2>4 DEF SendStep
  <2> QED BY <1>1, <2>1, <2>5
<1>8. ASSUME NEW x \in Exits, ImportExit(x) PROVE OrderInv' /\ EvidenceIsTrue'
  <2>1. PICK o \in Readings(x), complete \in BOOLEAN : Adopt(x, o, complete)
    BY <1>8 DEF ImportExit
  <2>2. /\ o \in Orders /\ x \in ordered
        /\ o.status \in {"open", "ended"} /\ o.filled <= order[x].filled
        /\ o.status = "ended" => o = order[x]
    BY ReadingIs DEF IInv
  <2>3. \A y \in Exits \ {x} : Same(y)
    BY <2>1, <1>typed DEF Adopt, TypeOK
  <2>4. True(x)'
    BY <1>3, <2>1, <2>2, <1>typed DEF Adopt, TypeOK, Orders
  <2>5. /\ stage'[x] = IF stage[x] \in {"sent", "open"}
                         THEN IF o.status = "ended" THEN "closed" ELSE "open" ELSE stage[x]
        /\ UNCHANGED <<ticket, order, phase, ordered>>
    BY <2>1, <1>typed DEF Adopt, TypeOK
  <2>6. OrderOf(x)'
    BY <1>3, <2>2, <2>5 DEF OrderOf
  <2> QED BY <1>1, <2>3, <2>4, <2>6
<1>9. CASE UNCHANGED <<outbox, stage, ticket, order, evidence>>
  BY <1>2, <1>9
<1> QED BY <1>4, <1>5, <1>6, <1>7, <1>8, <1>9
        DEF Next, GuardianStep, vars, ReadLot, Submit, ReadPositions, ReadOpenOrders, Gate,
            FenceConflict, GiveUp, Buy, ImportEntry

-----------------------------------------------------------------------------
(* Guardians and stages.                                                   *)

\* A guardian's step changes only its own record, and the stage of the exit it works on.
LEMMA StageStep ==
  ASSUME IInv, [Next]_vars
  PROVE  \A x \in Exits :
           \/ stage'[x] = stage[x]
           \/ /\ stage[x] \in {"absent", "approved"} /\ stage'[x] \in {"approved", "created"}
              /\ UNCHANGED <<order, phase, owned, bought>>
           \/ /\ stage[x] = "created" /\ stage'[x] \in {"sent", "error"}
              /\ stage'[x] = "sent" =>
                   \E g \in Guardians : /\ guard[g].pc = "fence" /\ guard[g].exit = x
                                        /\ guard[g].allowed
           \/ stage[x] \in {"sent", "open"} /\ stage'[x] \in {"open", "closed", "rejected", "error"}
<1>1. stage \in [Exits -> Stages]
  BY DEF IInv, TypeOK
<1> SUFFICES ASSUME NEW x \in Exits, stage'[x] # stage[x]
             PROVE  \/ /\ stage[x] \in {"absent", "approved"} /\ stage'[x] \in {"approved", "created"}
                       /\ UNCHANGED <<order, phase, owned, bought>>
                    \/ /\ stage[x] = "created" /\ stage'[x] \in {"sent", "error"}
                       /\ stage'[x] = "sent" =>
                            \E g \in Guardians : /\ guard[g].pc = "fence" /\ guard[g].exit = x
                                                 /\ guard[g].allowed
                    \/ /\ stage[x] \in {"sent", "open"}
                       /\ stage'[x] \in {"open", "closed", "rejected", "error"}
  OBVIOUS
<1>2. ASSUME NEW g \in Guardians, Prepare(g)
      PROVE  /\ stage[x] \in {"absent", "approved"} /\ stage'[x] \in {"approved", "created"}
             /\ UNCHANGED <<order, phase, owned, bought>>
  <2>1. PICK y \in Exits : /\ stage[y] \in {"absent", "approved", "created"}
                           /\ stage' = [stage EXCEPT ![y] = IF parallel THEN "created"
                                ELSE IF stage[y] = "absent" THEN "approved" ELSE stage[y]]
    <3>1. \A y \in Prepared(guard[g].lot) : y \in Exits /\ stage[y] \in {"approved", "created"}
      BY DEF Prepared, Counted
    <3>2. ASSUME NEW y \in Exits, {z \in Exits : stage[z] # "absent"} = 1..(y - 1)
          PROVE  stage[y] = "absent"
      BY <3>2, BoundsAssumption DEF Exits
    <3>3. \/ UNCHANGED stage
          \/ \E y \in Prepared(guard[g].lot) :
               stage' = [stage EXCEPT ![y] = IF parallel THEN "created"
                           ELSE IF stage[y] = "absent" THEN "approved" ELSE stage[y]]
          \/ \E y \in Exits :
               /\ {z \in Exits : stage[z] # "absent"} = 1..(y - 1)
               /\ stage' = [stage EXCEPT ![y] = IF parallel THEN "created"
                           ELSE IF stage[y] = "absent" THEN "approved" ELSE stage[y]]
      BY <1>2 DEF Prepare
    <3>4. ~UNCHANGED stage
      OBVIOUS
    <3> QED BY <3>1, <3>2, <3>3, <3>4
  <2>2. UNCHANGED <<order, phase, owned, bought>>
    BY <1>2 DEF Prepare, entry, outbox
  <2> QED BY <1>1, <2>1, <2>2
<1>3. ASSUME NEW g \in Guardians, Claim(g)
      PROVE  /\ stage[x] \in {"absent", "approved"} /\ stage'[x] \in {"approved", "created"}
             /\ UNCHANGED <<order, phase, owned, bought>>
  BY <1>1, <1>3 DEF Claim, entry, outbox
<1>4. ASSUME NEW g \in Guardians, Fence(g)
      PROVE  /\ stage[x] = "created" /\ stage'[x] \in {"sent", "error"}
             /\ stage'[x] = "sent" => guard[g].pc = "fence" /\ guard[g].exit = x /\ guard[g].allowed
  BY <1>1, <1>4 DEF Fence
<1>5. ASSUME NEW y \in Exits, SendStep(y)
      PROVE  stage[x] \in {"sent", "open"} /\ stage'[x] \in {"open", "closed", "rejected", "error"}
  BY <1>1, <1>5 DEF SendStep, Accept, Reject, Withhold, Garble, Fill, Cancel
<1>6. ASSUME NEW y \in Exits, ImportExit(y)
      PROVE  stage[x] \in {"sent", "open"} /\ stage'[x] \in {"open", "closed", "rejected", "error"}
  BY <1>1, <1>6 DEF ImportExit, Adopt
<1> QED BY <1>2, <1>3, <1>4, <1>5, <1>6
        DEF Next, GuardianStep, vars, ReadLot, Submit, ReadPositions, ReadOpenOrders, Gate,
            FenceConflict, GiveUp, Buy, ImportEntry

\* A guardian's record changes only by its own steps.
LEMMA GuardMoves ==
  ASSUME IInv, [Next]_vars, NEW g \in Guardians
  PROVE  \/ guard'[g] = guard[g]
         \/ guard'[g].pc \in {"idle", "failed"}
         \/ \E l \in Lots : ReadLot(g, l)
         \/ Prepare(g) \/ Submit(g) \/ ReadPositions(g) \/ ReadOpenOrders(g) \/ Claim(g) \/ Gate(g)
<1>1. guard \in [Guardians -> Guards]
  BY DEF IInv, TypeOK
<1>2. ASSUME NEW h \in Guardians, h # g, GuardianStep(h) \/ GiveUp(h) PROVE guard'[g] = guard[g]
  BY <1>1, <1>2 DEF GuardianStep, GiveUp, ReadLot, Prepare, Submit, ReadPositions, ReadOpenOrders,
     Claim, Gate, Fence, FenceConflict, Turn, Rest
<1>3. Fence(g) \/ FenceConflict(g) \/ GiveUp(g) => guard'[g].pc \in {"idle", "failed"}
  BY <1>1 DEF Fence, FenceConflict, GiveUp, Rest, IdleGuard
<1>4. ASSUME NEW x \in Exits, SendStep(x) \/ ImportExit(x) PROVE guard'[g] = guard[g]
  BY <1>4 DEF SendStep, ImportExit, Accept, Reject, Withhold, Garble, Fill, Cancel, Adopt
<1> QED BY <1>2, <1>3, <1>4 DEF Next, GuardianStep, vars, Buy, ImportEntry

\* Only the final gate takes a guardian to the fence.
LEMMA ToTheFence ==
  ASSUME IInv, [Next]_vars, NEW g \in Guardians, guard'[g].pc = "fence"
  PROVE  guard'[g] = guard[g] \/ Gate(g)
<1>1. guard \in [Guardians -> Guards]
  BY DEF IInv, TypeOK
<1>2. ASSUME NEW l \in Lots, ReadLot(g, l) PROVE FALSE
  BY <1>1, <1>2 DEF ReadLot, Guards
<1>3. CASE Prepare(g)
  <2>1. \A x \in Prepared(guard[g].lot) : x \in Exits
    BY DEF Prepared, Counted
  <2>2. \/ guard' = [guard EXCEPT ![g] = IdleGuard]
        \/ \E x \in Exits : guard' = [guard EXCEPT ![g] = [IdleGuard EXCEPT !.pc = "submit", !.exit = x]]
    BY <1>3, <2>1 DEF Prepare, Rest
  <2>3. \/ guard'[g] = IdleGuard
        \/ \E x \in Exits : guard'[g] = [IdleGuard EXCEPT !.pc = "submit", !.exit = x]
    BY <1>1, <2>2
  <2> QED BY <2>3, IdleFields
<1>4. ASSUME Submit(g) \/ ReadPositions(g) \/ ReadOpenOrders(g) PROVE FALSE
  <2>1. CASE Submit(g)
    BY <1>1, <2>1 DEF Submit, Turn, Rest, IdleGuard, Guards
  <2>2. CASE ReadPositions(g)
    BY <1>1, <2>2 DEF ReadPositions, Guards
  <2>3. CASE ReadOpenOrders(g)
    BY <1>1, <2>3 DEF ReadOpenOrders, Guards
  <2> QED BY <1>4, <2>1, <2>2, <2>3
<1>5. ASSUME Claim(g) PROVE FALSE
  <2>1. \/ guard' = [guard EXCEPT ![g] = IdleGuard]
        \/ guard' = [guard EXCEPT ![g] =
             [IdleGuard EXCEPT !.pc = "positions", !.exit = guard[g].exit]]
    BY <1>5 DEF Claim, Rest
  <2>2. \/ guard'[g] = IdleGuard
        \/ guard'[g] = [IdleGuard EXCEPT !.pc = "positions", !.exit = guard[g].exit]
    BY <1>1, <2>1
  <2>3. guard[g].exit \in Exits
    BY <1>1 DEF Guards
  <2> QED BY <2>2, <2>3, IdleFields
<1> QED BY <1>2, <1>3, <1>4, <1>5, GuardMoves

LEMMA GuardStep ==
  ASSUME IInv, [Next]_vars
  PROVE  GuardInv'
<1> USE DEF IInv
<1>1. \A x \in Exits : /\ stage[x] # "absent" => stage'[x] # "absent"
                       /\ stage[x] \notin {"absent", "approved"} =>
                            stage'[x] \notin {"absent", "approved"}
  BY StageStep, Zenon
<1>2. \A l \in Lots : owned[l] \in Nat /\ owned'[l] \in Nat /\ owned[l] <= owned'[l]
  <2>1. owned \in [Lots -> 0..Qty] /\ owned' \in [Lots -> 0..Qty]
    BY TypeStep DEF TypeOK
  <2>2. UNCHANGED owned \/ \E l \in Lots : ImportEntry(l)
    BY DEF Next, GuardianStep, vars, entry, SendStep, ImportExit, ReadLot, Prepare, Submit,
       ReadPositions, ReadOpenOrders, Claim, Gate, Fence, FenceConflict, GiveUp, Accept, Reject,
       Withhold, Garble, Fill, Cancel, Adopt, Buy
  <2> QED BY <2>1, <2>2, QtyAssumption DEF ImportEntry, TypeOK
<1> SUFFICES ASSUME NEW g \in Guardians
             PROVE  /\ guard'[g].pc \in {"submit", "positions", "orders", "gate", "fence"} =>
                         stage'[guard'[g].exit] # "absent"
                    /\ guard'[g].pc = "fence" => stage'[guard'[g].exit] # "approved"
                    /\ guard'[g].pc = "prepare" =>
                         guard'[g].lot \in Lots /\ guard'[g].seen <= owned'[guard'[g].lot]
  BY DEF GuardInv
<1>3. /\ guard[g] \in Guards /\ guard[g].exit \in Exits /\ guard[g].seen \in Nat
      /\ guard \in [Guardians -> Guards]
  BY QtyAssumption DEF TypeOK, Guards
<1>4. /\ guard[g].pc \in {"submit", "positions", "orders", "gate", "fence"} =>
           stage[guard[g].exit] # "absent"
      /\ guard[g].pc = "fence" => stage[guard[g].exit] # "approved"
      /\ guard[g].pc = "prepare" => guard[g].lot \in Lots /\ guard[g].seen <= owned[guard[g].lot]
  BY DEF GuardInv
<1> HIDE DEF IInv
<1>5. CASE guard'[g] = guard[g]
  BY <1>1, <1>2, <1>3, <1>4, <1>5
<1>6. ASSUME NEW l \in Lots, ReadLot(g, l)
      PROVE  guard'[g].pc = "prepare" /\ guard'[g].lot = l /\ guard'[g].seen = owned'[l]
  BY <1>3, <1>6 DEF ReadLot, entry, Guards
<1>7. CASE Prepare(g)
  <2>1. \/ guard'[g].pc = "idle"
        \/ \E x \in Exits : /\ guard'[g].pc = "submit" /\ guard'[g].exit = x
                            /\ stage'[x] # "absent"
    <3>1. \A x \in Prepared(guard[g].lot) : x \in Exits
      BY DEF Prepared, Counted
    <3>2. stage \in [Exits -> Stages]
      BY DEF IInv, TypeOK
    <3>3. ASSUME NEW x \in Exits,
                 stage' = [stage EXCEPT ![x] = IF parallel THEN "created"
                            ELSE IF stage[x] = "absent" THEN "approved" ELSE stage[x]],
                 guard' = [guard EXCEPT ![g] = [IdleGuard EXCEPT !.pc = "submit", !.exit = x]]
          PROVE  guard'[g].pc = "submit" /\ guard'[g].exit = x /\ stage'[x] # "absent"
      BY <1>3, <3>2, <3>3 DEF IdleGuard
    <3>4. CASE Rest(g)
      BY <1>3, <3>4 DEF Rest, IdleGuard
    <3> QED BY <1>7, <3>1, <3>3, <3>4 DEF Prepare
  <2> QED BY <2>1
<1>8. CASE Submit(g) \/ ReadPositions(g) \/ ReadOpenOrders(g)
  <2>1. \/ guard'[g].pc = "idle"
        \/ /\ guard'[g].pc \in {"positions", "orders", "gate"} /\ guard'[g].exit = guard[g].exit
           /\ guard[g].pc \in {"submit", "positions", "orders"}
    BY <1>3, <1>8 DEF Submit, ReadPositions, ReadOpenOrders, Turn, Rest, IdleGuard, Guards
  <2> QED BY <1>1, <1>3, <1>4, <2>1
<1>9. CASE Claim(g) \/ Gate(g)
  <2>1. \/ guard'[g].pc = "idle"
        \/ /\ guard[g].pc = "gate" /\ guard'[g].exit = guard[g].exit
           /\ \/ guard'[g].pc = "positions"
              \/ guard'[g].pc = "fence" /\ stage[guard[g].exit] # "approved"
    <3>1. CASE Claim(g)
      <4>1. \/ guard' = [guard EXCEPT ![g] = IdleGuard]
            \/ guard' = [guard EXCEPT ![g] =
                           [IdleGuard EXCEPT !.pc = "positions", !.exit = guard[g].exit]]
        BY <3>1 DEF Claim, Rest
      <4>2. guard[g].pc = "gate"
        BY <3>1 DEF Claim
      <4>3. \/ guard'[g] = IdleGuard
            \/ guard'[g] = [IdleGuard EXCEPT !.pc = "positions", !.exit = guard[g].exit]
        BY <1>3, <4>1
      <4>4. guard[g].exit \in Exits
        BY <1>3
      <4> QED BY <4>2, <4>3, <4>4, IdleFields
    <3>2. CASE Gate(g)
      BY <1>3, <3>2 DEF Gate, IdleGuard
    <3> QED BY <1>9, <3>1, <3>2
  <2> QED BY <1>1, <1>3, <1>4, <2>1
<1>10. CASE guard'[g].pc \in {"idle", "failed"}
  BY <1>10
<1>11. CASE \E l \in Lots : ReadLot(g, l)
  <2>1. PICK l \in Lots : ReadLot(g, l)
    BY <1>11
  <2>2. guard'[g].pc = "prepare" /\ guard'[g].lot = l /\ guard'[g].seen = owned'[l]
    BY <1>6, <2>1
  <2> QED BY <1>2, <2>2
<1> QED BY <1>5, <1>7, <1>8, <1>9, <1>10, <1>11, GuardMoves

-----------------------------------------------------------------------------
(* One exit at a time.                                                     *)

LEMMA OneStep ==
  ASSUME IInv, [Next]_vars
  PROVE  OneInv'
<1>0. /\ OneInv /\ GuardInv
      /\ \A g \in Guardians : guard[g] \in Guards /\ guard[g].exit \in Exits
      /\ guard \in [Guardians -> Guards]
  BY DEF IInv, TypeOK, Guards
<1>1. ASSUME NEW x \in Exits, Cleared(x)', ~Cleared(x)
      PROVE  \E g \in Guardians : /\ Gate(g) /\ x = guard[g].exit /\ GateAllows(g)
  <2>1. stage[x] = stage'[x]
    <3>1. CASE stage[x] \in {"absent", "approved"} /\ stage'[x] \in {"approved", "created"}
      <4>1. PICK g \in Guardians : /\ guard'[g].pc = "fence" /\ guard'[g].exit = x
                                   /\ guard'[g].allowed
        BY <1>1, <3>1 DEF Cleared
      <4>2. ~(guard[g].pc = "fence" /\ guard[g].exit = x)
        BY <1>0, <3>1 DEF GuardInv
      <4>3. Gate(g)
        BY <4>1, <4>2, ToTheFence
      <4>4. UNCHANGED stage
        BY <4>3 DEF Gate
      <4>5. guard'[g].exit = guard[g].exit /\ stage[guard[g].exit] # "approved" /\ guard[g].pc = "gate"
        BY <1>0, <4>3 DEF Gate, IdleGuard
      <4> QED BY <1>0, <3>1, <4>1, <4>4, <4>5
    <3>2. CASE /\ stage[x] = "created" /\ stage'[x] \in {"sent", "error"}
               /\ stage'[x] = "sent" =>
                    \E g \in Guardians : /\ guard[g].pc = "fence" /\ guard[g].exit = x
                                         /\ guard[g].allowed
      BY <1>1, <3>2 DEF Cleared
    <3>3. CASE stage[x] \in {"sent", "open"}
      BY <1>1, <3>3 DEF Cleared
    <3> QED BY <3>1, <3>2, <3>3, StageStep
  <2>2. PICK g \in Guardians : guard'[g].pc = "fence" /\ guard'[g].exit = x /\ guard'[g].allowed
    BY <1>1, <2>1 DEF Cleared
  <2>3. ~(guard[g].pc = "fence" /\ guard[g].exit = x /\ guard[g].allowed)
    BY <1>1, <2>1 DEF Cleared
  <2>4. Gate(g)
    BY <2>2, <2>3, ToTheFence
  <2>5. x = guard[g].exit /\ GateAllows(g)
    BY <1>0, <2>2, <2>4 DEF Gate, IdleGuard
  <2> QED BY <2>4, <2>5
<1>2. ASSUME NEW g \in Guardians, Gate(g), GateAllows(g), NEW y \in Exits, y # guard[g].exit
      PROVE  ~Cleared(y)'
  <2>1. UNCHANGED stage
    BY <1>2 DEF Gate
  <2>2. stage[y] \notin {"created", "sent", "open"}
    BY <1>2 DEF GateAllows, Competes, Unresolved
  <2> QED BY <2>1, <2>2 DEF Cleared
<1> SUFFICES ASSUME NEW x \in Exits, NEW y \in Exits, Cleared(x)', Cleared(y)', x # y
             PROVE  FALSE
  BY DEF OneInv
<1> QED BY <1>0, <1>1, <1>2 DEF OneInv

-----------------------------------------------------------------------------
(* What a lot's exits take.                                                *)

\* Fills of entry orders are imported no sooner than they happen, and none is lost.
LEMMA OwnedStep ==
  ASSUME IInv, [Next]_vars, NEW l \in Lots
  PROVE  /\ owned[l] \in Nat /\ owned'[l] \in Nat
         /\ owned[l] <= owned'[l] /\ owned'[l] <= bought'[l]
<1>1. /\ owned \in [Lots -> 0..Qty] /\ owned' \in [Lots -> 0..Qty]
      /\ bought \in [Lots -> 0..Qty] /\ bought' \in [Lots -> 0..Qty]
  BY TypeStep DEF IInv, TypeOK
<1>2. owned[l] <= bought[l]
  BY DEF IInv, LotInv
<1>3. \/ UNCHANGED <<owned, bought>>
      \/ \E k \in Lots : Buy(k) \/ ImportEntry(k)
  <2>1. ASSUME NEW g \in Guardians, GuardianStep(g) \/ GiveUp(g) PROVE UNCHANGED <<owned, bought>>
    BY <2>1, ZenonT(60) DEF GuardianStep, entry, ReadLot, Prepare, Submit, ReadPositions,
       ReadOpenOrders, Claim, Gate, Fence, FenceConflict, GiveUp
  <2>2. ASSUME NEW x \in Exits, SendStep(x) \/ ImportExit(x) PROVE UNCHANGED <<owned, bought>>
    BY <2>2, ZenonT(60) DEF SendStep, ImportExit, entry, Accept, Reject, Withhold, Garble, Fill,
       Cancel, Adopt
  <2> QED BY <2>1, <2>2 DEF Next, vars, entry
<1> QED BY <1>1, <1>2, <1>3, QtyAssumption DEF Buy, ImportEntry

\* Only the creation of an exit lets it take more.
LEMMA TakesStep ==
  ASSUME IInv, [Next]_vars
  PROVE  \/ /\ UNCHANGED ticket
            /\ \A x \in Exits : Takes'[x] <= Takes[x]
         \/ \E g \in Guardians, x \in Exits :
              LET l == guard[g].lot IN
              /\ l \in Lots /\ guard[g].seen <= owned[l]
              /\ guard[g].seen > Spoken(l)
              /\ ticket[x] = NoTicket
              /\ ticket' = [ticket EXCEPT ![x] = [lot |-> l, qty |-> guard[g].seen - Spoken(l)]]
              /\ UNCHANGED <<phase, order, owned>>
<1>1. /\ \A x \in Exits : /\ Takes[x] = Taken(x) /\ Takes'[x] = Taken(x)'
                          /\ OrderOf(x) /\ OrderOf(x)'
                          /\ ticket[x].qty \in Nat /\ order[x].filled \in Nat
                          /\ order'[x].filled \in Nat
                          /\ order[x].status \in {"none", "open", "ended"}
      /\ TypeOK /\ TypeOK'
  BY TypeStep, OrderStep, QtyAssumption DEF IInv, TypeOK, Tickets, Orders, Takes, OrderInv
<1>2. CASE UNCHANGED <<ticket, phase, order>>
  BY <1>1, <1>2 DEF Taken
<1>3. ASSUME NEW g \in Guardians, Prepare(g), ~UNCHANGED ticket
      PROVE  \E x \in Exits :
              LET l == guard[g].lot IN
              /\ l \in Lots /\ guard[g].seen <= owned[l]
              /\ guard[g].seen > Spoken(l)
              /\ ticket[x] = NoTicket
              /\ ticket' = [ticket EXCEPT ![x] = [lot |-> l, qty |-> guard[g].seen - Spoken(l)]]
              /\ UNCHANGED <<phase, order, owned>>
  <2> DEFINE l == guard[g].lot
  <2>1. l \in Lots /\ guard[g].seen <= owned[l]
    BY <1>3 DEF Prepare, IInv, GuardInv
  <2>2. PICK x \in Exits :
          /\ {y \in Exits : stage[y] # "absent"} = 1..(x - 1)
          /\ guard[g].seen > Spoken(l)
          /\ ticket' = [ticket EXCEPT ![x] = [lot |-> l, qty |-> guard[g].seen - Spoken(l)]]
    BY <1>3 DEF Prepare
  <2>3. ticket[x] = NoTicket
    <3>1. stage[x] = "absent"
      BY <2>2, BoundsAssumption DEF Exits
    <3> QED BY <1>1, <3>1 DEF OrderOf
  <2>4. UNCHANGED <<phase, order, owned>>
    BY <1>3 DEF Prepare, entry, outbox
  <2> QED BY <2>1, <2>2, <2>3, <2>4
<1>4. ASSUME NEW g \in Guardians, Prepare(g), UNCHANGED ticket PROVE UNCHANGED <<phase, order>>
  BY <1>4 DEF Prepare, outbox
<1>5. ASSUME NEW g \in Guardians, Fence(g)
      PROVE  UNCHANGED ticket /\ \A x \in Exits : Takes'[x] <= Takes[x]
  <2>1. /\ UNCHANGED <<ticket, order>>
        /\ \E d \in Exits, p \in {"sent", "void"} :
             phase[d] # "void" /\ phase' = [phase EXCEPT ![d] = p]
    BY <1>1, <1>5 DEF Fence, Sending!Send, Sending!Void, TypeOK, Guards
  <2>2. ASSUME NEW x \in Exits PROVE Taken(x)' <= Taken(x)
    BY <1>1, <2>1 DEF Taken, TypeOK
  <2> QED BY <1>1, <2>1, <2>2
<1>6. ASSUME NEW d \in Exits, SendStep(d)
      PROVE  UNCHANGED ticket /\ \A x \in Exits : Takes'[x] <= Takes[x]
  <2>0. UNCHANGED ticket
    BY <1>6 DEF SendStep, Accept, Reject, Withhold, Garble, Fill, Cancel
  <2>1. \A x \in Exits \ {d} : phase'[x] = phase[x] /\ order'[x] = order[x]
    BY <1>1, <1>6 DEF SendStep, Accept, Reject, Withhold, Garble, Fill, Cancel, TypeOK, outbox,
       Sending!Appear, Sending!Void
  <2>2. CASE Reject(d) \/ Withhold(d) \/ Garble(d)
    <3>1. UNCHANGED order /\ (phase'[d] = phase[d] \/ phase'[d] = "void")
      BY <1>1, <2>2 DEF Reject, Withhold, Garble, Sending!Void, outbox, TypeOK
    <3>2. \A x \in Exits : Taken(x)' <= Taken(x)
      BY <1>1, <2>0, <2>1, <3>1 DEF Taken
    <3> QED BY <1>1, <2>0, <3>2
  <2>3. CASE Accept(d) \/ Fill(d) \/ Cancel(d)
    <3>1. UNCHANGED phase
      BY <2>3 DEF Accept, Fill, Cancel, Sending!Appear, outbox
    <3>2. order[d].status \in {"none", "open"}
      BY <1>1, <2>3 DEF Accept, Fill, Cancel, Sending!Appear, OrderOf
    <3>3. Taken(d)' <= Taken(d)
      BY <1>1, <2>0, <3>1, <3>2 DEF Taken, OrderOf
    <3>4. \A x \in Exits : Taken(x)' <= Taken(x)
      BY <1>1, <2>0, <2>1, <3>3 DEF Taken
    <3> QED BY <1>1, <2>0, <3>4
  <2> QED BY <1>6, <2>2, <2>3 DEF SendStep
<1> QED BY <1>2, <1>3, <1>4, <1>5, <1>6
        DEF Next, GuardianStep, vars, entry, outbox, ImportExit, ReadLot, Submit,
            ReadPositions, ReadOpenOrders, Claim, Gate, FenceConflict, GiveUp, Adopt, Buy, ImportEntry

LEMMA LotStep ==
  ASSUME IInv, [Next]_vars
  PROVE  LotInv'
<1> SUFFICES ASSUME NEW l \in Lots
             PROVE  SumFunctionOnSet(Takes', ExitsOf(l)') <= owned'[l]
  BY OwnedStep DEF LotInv
<1> DEFINE T == SumFunctionOnSet(Takes, ExitsOf(l))
<1>1. \A x \in Exits : Takes[x] \in Nat /\ Takes'[x] \in Nat
  BY TypeStep, QtyAssumption DEF IInv, TypeOK, Tickets, Orders, Takes, Taken
<1>2. /\ ExitsOf(l) \subseteq Exits /\ IsFiniteSet(ExitsOf(l))
      /\ ExitsOf(l)' \subseteq Exits /\ IsFiniteSet(ExitsOf(l)')
  BY FiniteExits DEF ExitsOf
<1>3. /\ T \in Nat /\ T <= owned[l]
      /\ owned[l] \in Nat /\ owned'[l] \in Nat /\ owned[l] <= owned'[l]
  <2>1. T \in Nat
    BY <1>1, <1>2, SumNat
  <2>2. T <= owned[l]
    BY DEF IInv, LotInv
  <2> QED BY <2>1, <2>2, OwnedStep
<1>4. CASE UNCHANGED ticket /\ \A x \in Exits : Takes'[x] <= Takes[x]
  <2>1. ExitsOf(l)' = ExitsOf(l)
    BY <1>4 DEF ExitsOf
  <2>2. \A x \in ExitsOf(l) : Takes[x] \in Nat /\ Takes'[x] \in Nat /\ Takes'[x] <= Takes[x]
    BY <1>1, <1>2, <1>4
  <2>3. SumFunctionOnSet(Takes', ExitsOf(l)) <= T /\ SumFunctionOnSet(Takes', ExitsOf(l)) \in Nat
    BY <1>2, <2>2, SumLess, SumNat
  <2> QED BY <1>3, <2>1, <2>3
<1>5. ASSUME NEW g \in Guardians, NEW d \in Exits, NEW k, k = guard[g].lot,
             k \in Lots, guard[g].seen <= owned[k], guard[g].seen > Spoken(k),
             ticket[d] = NoTicket,
             ticket' = [ticket EXCEPT ![d] = [lot |-> k, qty |-> guard[g].seen - Spoken(k)]],
             UNCHANGED <<phase, order, owned>>
      PROVE  SumFunctionOnSet(Takes', ExitsOf(l)') <= owned'[l]
  <2>0. ticket \in [Exits -> Tickets] /\ guard[g].seen \in Nat /\ owned[k] \in Nat
    <3>1. guard[g] \in Guards
      BY DEF IInv, TypeOK
    <3> QED BY <1>5, <3>1, QtyAssumption DEF IInv, TypeOK, Guards
  <2>1. \A x \in Exits \ {d} : ticket'[x] = ticket[x] /\ Takes'[x] = Takes[x]
    BY <1>5, <2>0 DEF Takes, Taken
  <2>2. d \notin ExitsOf(l) /\ ticket'[d] = [lot |-> k, qty |-> guard[g].seen - Spoken(k)]
    BY <1>5, <2>0, LotsAssumption DEF ExitsOf, NoTicket
  <2>3. SumFunctionOnSet(Takes', ExitsOf(l)) = T
    <3>1. \A x \in ExitsOf(l) : Takes[x] \in Nat /\ Takes'[x] = Takes[x]
      BY <1>1, <1>2, <2>1, <2>2
    <3> QED BY <1>2, <3>1, SumSame
  <2>4. CASE k # l
    <3>1. ExitsOf(l)' = ExitsOf(l)
      BY <2>1, <2>2, <2>4 DEF ExitsOf
    <3> QED BY <1>3, <2>3, <3>1
  <2>5. CASE k = l
    <3>1. ExitsOf(l)' = ExitsOf(l) \cup {d}
      BY <2>1, <2>2, <2>5 DEF ExitsOf
    <3>2. SumFunctionOnSet(Takes', ExitsOf(l) \cup {d}) = Takes'[d] + SumFunctionOnSet(Takes', ExitsOf(l))
      <4>1. \A x \in ExitsOf(l) \cup {d} : Takes'[x] \in Nat
        BY <1>1, <1>2
      <4> QED BY <1>2, <2>2, <4>1, SumIn
    <3>3. Spoken(l) \in Nat /\ T <= Spoken(l)
      BY SpokenCovers DEF IInv
    <3>4. Takes'[d] <= guard[g].seen - Spoken(l)
      <4>1. OrderOf(d) /\ order[d].filled \in Nat
        BY QtyAssumption DEF IInv, OrderInv, TypeOK, Orders
      <4>2. order[d].filled = 0
        BY <1>5, <4>1 DEF OrderOf, NoTicket
      <4>3. Takes'[d] \in {0, ticket'[d].qty}
        BY <1>5, <4>2 DEF Takes, Taken
      <4> QED BY <1>5, <2>0, <2>2, <2>5, <3>3, <4>3
    <3>5. guard[g].seen <= owned'[l] /\ Takes'[d] \in Nat
      BY <1>1, <1>5, <2>5
    <3> HIDE DEF T
    <3> QED BY <1>3, <2>0, <2>3, <3>1, <3>2, <3>3, <3>4, <3>5
  <2> QED BY <2>4, <2>5
<1> QED BY <1>4, <1>5, TakesStep

-----------------------------------------------------------------------------
(* The theorems.                                                           *)

LEMMA Invariance == Spec => []IInv
<1>1. IInv /\ [Next]_vars => IInv'
  BY TypeStep, OrderStep, GuardStep, LotStep, OneStep DEF IInv
<1> QED BY <1>1, InitInv, PTL DEF Spec

\* Lots, outbox, tickets, orders, evidence and guardians keep their types: a sale is
\* never larger than the entry order, and the position is never short.
THEOREM TypeCorrect == Spec => []TypeOK
<1>1. IInv => TypeOK
  BY DEF IInv
<1> QED BY <1>1, Invariance, PTL

\* The store's view of each exit order never runs ahead of the broker, whatever old
\* readings are imported late.
THEOREM StoredEvidenceIsTrue == Spec => []EvidenceIsTrue
<1>1. IInv => EvidenceIsTrue
  BY DEF IInv
<1> QED BY <1>1, Invariance, PTL

\* What the fills and the possible fills of a lot's exits sell was bought for the lot:
\* a new exit is for no more than was owned and not yet spoken for, and what the store
\* speaks for covers what the broker can still do.
THEOREM LotsAreNotOversold == Spec => []NeverOversell
<1>1. IInv => NeverOversell
  <2> SUFFICES ASSUME IInv, NEW l \in Lots
      PROVE  SumFunctionOnSet([x \in Exits |-> order[x].filled + MaySell(x)], ExitsOf(l)) <= bought[l]
    BY DEF NeverOversell
  <2>1. owned[l] <= bought[l] /\ SumFunctionOnSet(Takes, ExitsOf(l)) <= owned[l]
    BY DEF IInv, LotInv
  <2>2. owned[l] \in Nat /\ bought[l] \in Nat
    BY QtyAssumption DEF IInv, TypeOK
  <2>3. /\ SumFunctionOnSet(Takes, ExitsOf(l)) \in Nat
        /\ SumFunctionOnSet([x \in Exits |-> order[x].filled + MaySell(x)], ExitsOf(l))
             <= SumFunctionOnSet(Takes, ExitsOf(l))
        /\ SumFunctionOnSet([x \in Exits |-> order[x].filled + MaySell(x)], ExitsOf(l)) \in Nat
    BY WorstCovered DEF IInv
  <2> QED BY <2>1, <2>2, <2>3
<1> QED BY <1>1, Invariance, PTL

\* One exit at a time can sell: who passes the final gate found every other exit off
\* its way, and no exit gets to the fence past one that is on its way.
THEOREM ExitsGoOneByOne == Spec => []OneSeller
<1>1. IInv => OneSeller
  <2> SUFFICES ASSUME IInv, NEW x \in Exits, MaySell(x) > 0, stage[x] # "error"
               PROVE  Cleared(x)
    BY DEF OneSeller, IInv, OneInv
  <2>1. /\ OrderOf(x) /\ stage[x] \in Stages
    BY DEF IInv, OrderInv, TypeOK
  <2>2. stage[x] \in {"sent", "open"}
    BY <2>1 DEF MaySell, OrderOf, Stages
  <2> QED BY <2>2 DEF Cleared
<1> QED BY <1>1, Invariance, PTL
=============================================================================
