------------------------- MODULE OutcomeWorkProofs --------------------------
(***************************************************************************)
(* Proofs about OutcomeWork for any lots, roles, deployments and bounds:    *)
(* typing, that an acknowledgement covers all evidence of its lot, and that *)
(* what learning takes for settled is current where one role runs cycles.   *)
(***************************************************************************)
EXTENDS OutcomeWork, SumLemmas, SequenceTheorems

-----------------------------------------------------------------------------
(* The inductive invariant.                                                *)

\* Only the roles of the deployment run, and a cycle at work has lots to do.
CycleInv ==
  \A r \in Roles : /\ (cycle[r].pc = "work") <=> (cycle[r].todo # <<>>)
                   /\ r \notin up => cycle[r].pc = "idle"

\* A known watermark is not before any evidence of its lot.
StampInv ==
  \A l \in Lots : mark[l].kind = "known" =>
    /\ closed[l] <= mark[l].at
    /\ \A k \in 1..Len(costs[l]) : costs[l][k] <= mark[l].at

\* An attempt with this cutoff acknowledges the lot.
Settled(l, cutoff) ==
  mark[l].kind = "known" /\ mark[l].at <= cutoff /\ closed[l] \in 1..cutoff

\* Where one role runs the cycles, what is not pending is complete, and what the role
\* has listed is pending, or is acknowledged again.
AckInv ==
  \A r \in Roles : up = {r} =>
    /\ \A l \in Lots : trip[l].published /\ ~Pending(l) => trip[l].seen = 1..Len(costs[l])
    /\ \A i \in 1..Len(cycle[r].todo) :
         Pending(cycle[r].todo[i]) \/ Settled(cycle[r].todo[i], cycle[r].cutoff)

IInv == TypeOK /\ CycleInv /\ StampInv /\ AckInv

-----------------------------------------------------------------------------
(* Lemmas about the operators.                                             *)

\* A finite set of naturals has a largest element, and Max chooses it.
LEMMA MaxOfNats ==
  ASSUME NEW S \in SUBSET Nat, IsFiniteSet(S), S # {}
  PROVE  Max(S) \in S /\ \A y \in S : y <= Max(S)
<1> DEFINE G == {T \in SUBSET S : T = {} \/ \E x \in T : \A y \in T : x >= y}
<1>1. {} \in G
  OBVIOUS
<1>2. ASSUME NEW T \in SUBSET S, T \in G, NEW x \in S \ T
      PROVE  T \cup {x} \in G
  <2>1. CASE T = {}
    BY <2>1
  <2>2. ASSUME NEW m \in T, \A y \in T : m >= y
        PROVE  T \cup {x} \in G
    <3>1. CASE m >= x
      BY <2>2, <3>1
    <3>2. CASE ~(m >= x)
      <4>1. \A y \in T : x >= y
        BY <2>2, <3>2
      <4> QED BY <4>1
    <3> QED BY <3>1, <3>2
  <2> QED BY <1>2, <2>1, <2>2
<1>3. S \in G
  <2> HIDE DEF G
  <2> QED BY <1>1, <1>2, SetInduction
<1>4. PICK x \in S : \A y \in S : x >= y
  BY <1>3
<1>5. Max(S) \in S /\ \A y \in S : Max(S) >= y
  BY <1>4 DEF Max
<1> QED BY <1>5

\* The values of a function on a finite set.
LEMMA RangeIs ==
  ASSUME NEW S, IsFiniteSet(S), NEW f \in [S -> Nat]
  PROVE  IsFiniteSet(Range(f)) /\ Range(f) \subseteq Nat /\ \A x \in S : f[x] \in Range(f)
<1>1. f \in Surjection(S, Range(f))
  BY DEF Surjection, Range
<1> QED BY <1>1, FS_Surjection DEF Range

\* Ranks are naturals.
LEMMA OrderedType ==
  ASSUME NEW a \in [Lots -> Nat], NEW b \in [Roles -> Nat], Ordered(a, b)
  PROVE  attempted' \in [Lots -> Nat] /\ begun' \in [Roles -> Nat]
<1> DEFINE used == Range(a) \cup Range(b)
           Rank(v) == Cardinality({u \in used : u < v})
<1>1. IsFiniteSet(used)
  BY LotsAssumption, DeploymentsAssumption, RangeIs, FS_Union
<1>2. ASSUME NEW v PROVE Rank(v) \in Nat
  <2>1. IsFiniteSet({u \in used : u < v})
    BY <1>1, FS_Subset
  <2> QED BY <2>1, FS_CardinalityType
<1>3. attempted' = [l \in Lots |-> Rank(a[l])] /\ begun' = [r \in Roles |-> Rank(b[r])]
  BY DEF Ordered
<1> HIDE DEF Rank
<1> QED BY <1>2, <1>3

\* The cold watermark is after all evidence of the lot.
LEMMA ColdIs ==
  ASSUME TypeOK, NEW l \in Lots
  PROVE  /\ ColdAt(l) \in 0..(MaxTime + 1) /\ closed[l] <= ColdAt(l)
         /\ \A k \in 1..Len(costs[l]) : costs[l][k] <= ColdAt(l)
<1> DEFINE E == ({closed[l]} \ {0}) \cup Range(costs[l])
           S == {mark[l].at, 1} \cup {at + 1 : at \in E}
<1>1. /\ mark[l].at \in 0..(MaxTime + 1) /\ closed[l] \in 0..MaxTime /\ MaxTime \in Nat \ {0}
      /\ costs[l] \in Seq(Times)
  BY NumbersAssumption DEF TypeOK, Marks, Times
<1>2. /\ Len(costs[l]) \in Nat /\ DOMAIN costs[l] = 1..Len(costs[l])
      /\ costs[l] \in [1..Len(costs[l]) -> 0..MaxTime]
  BY <1>1, LenProperties DEF Times
<1>3. E \subseteq 0..MaxTime /\ \A k \in 1..Len(costs[l]) : costs[l][k] \in E
  BY <1>1, <1>2 DEF Range
<1> HIDE DEF E
<1>4. S \subseteq 0..(MaxTime + 1) /\ S # {}
  BY <1>1, <1>3
<1>5. IsFiniteSet(S) /\ S \in SUBSET Nat
  <2>1. IsFiniteSet(0..(MaxTime + 1))
    BY <1>1, FS_Interval
  <2>2. 0..(MaxTime + 1) \subseteq Nat
    BY <1>1
  <2> HIDE DEF S
  <2> QED BY <1>4, <2>1, <2>2, FS_Subset
<1>6. ColdAt(l) = Max(S)
  BY DEF ColdAt, E
<1>7. ColdAt(l) \in S /\ \A y \in S : y <= ColdAt(l)
  <2> HIDE DEF S
  <2> QED BY <1>4, <1>5, <1>6, MaxOfNats
<1>8. \A e \in E : e + 1 <= ColdAt(l)
  BY <1>7
<1>9. ColdAt(l) \in 0..(MaxTime + 1)
  BY <1>4, <1>7
<1>10. \A e \in E : e <= ColdAt(l)
  BY <1>1, <1>3, <1>8, <1>9
<1>11. closed[l] <= ColdAt(l)
  BY <1>1, <1>9, <1>10 DEF E
<1> QED BY <1>3, <1>9, <1>10, <1>11

\* So is the watermark that an attempt leaves behind.
LEMMA WatermarkIs ==
  ASSUME TypeOK, StampInv, NEW l \in Lots
  PROVE  /\ Watermark(l) \in Marks /\ Watermark(l).kind = "known"
         /\ closed[l] <= Watermark(l).at
         /\ \A k \in 1..Len(costs[l]) : costs[l][k] <= Watermark(l).at
<1>1. CASE mark[l].kind = "known"
  BY <1>1 DEF Watermark, TypeOK, StampInv
<1>2. CASE mark[l].kind # "known"
  <2>1. Watermark(l) = [kind |-> "known", at |-> ColdAt(l)]
    BY <1>2 DEF Watermark
  <2> QED BY <2>1, ColdIs DEF Marks
<1> QED BY <1>1, <1>2

\* The costs that an attempt sees are among those there are.
LEMMA SeenIs ==
  ASSUME TypeOK, NEW l \in Lots, NEW cutoff \in Times
  PROVE  /\ Seen(l, cutoff) \in SUBSET (1..MaxCosts)
         /\ (\A k \in 1..Len(costs[l]) : costs[l][k] <= cutoff) => Seen(l, cutoff) = 1..Len(costs[l])
<1>1. Len(costs[l]) \in Nat /\ Len(costs[l]) <= MaxCosts /\ MaxCosts \in Nat
  BY LenProperties, NumbersAssumption DEF TypeOK
<1>2. Seen(l, cutoff) \subseteq 1..Len(costs[l])
  BY DEF Seen
<1>3. 1..Len(costs[l]) \subseteq 1..MaxCosts
  BY <1>1
<1> QED BY <1>2, <1>3 DEF Seen

\* The rank of a new cutoff.
LEMMA LatestType ==
  ASSUME TypeOK, NEW r \in Roles
  PROVE  Latest + 1 \in Nat
<1> DEFINE used == Range(attempted) \cup Range(begun)
<1>1. attempted \in [Lots -> Nat] /\ begun \in [Roles -> Nat]
  BY DEF TypeOK
<1>2. /\ IsFiniteSet(Range(attempted)) /\ Range(attempted) \subseteq Nat
      /\ IsFiniteSet(Range(begun)) /\ Range(begun) \subseteq Nat /\ begun[r] \in Range(begun)
  BY <1>1, LotsAssumption, DeploymentsAssumption, RangeIs
<1>3. IsFiniteSet(used) /\ used \in SUBSET Nat /\ used # {}
  BY <1>2, FS_Union
<1>4. Max(used) \in Nat
  <2> HIDE DEF used
  <2> QED BY <1>3, MaxOfNats
<1> QED BY <1>4 DEF Latest

\* New evidence makes its lot pending, and its watermark stays after all that it was after.
LEMMA DirtyIs ==
  ASSUME TypeOK, NEW l \in Lots, NEW at \in Times, Dirty(l, at)
  PROVE  /\ version' \in [Lots -> Nat] /\ mark' \in [Lots -> Marks]
         /\ version'[l] = version[l] + 1 /\ mark'[l].kind # "none"
         /\ \A m \in Lots \ {l} : version'[m] = version[m] /\ mark'[m] = mark[m]
         /\ mark'[l].kind = "known" => /\ mark[l].kind = "known"
                                       /\ mark[l].at <= mark'[l].at /\ at <= mark'[l].at
<1> DEFINE n == Notified(l, at)
<1>1. /\ mark[l].at \in 0..(MaxTime + 1) /\ mark \in [Lots -> Marks] /\ version \in [Lots -> Nat]
      /\ MaxTime \in Nat /\ at \in 0..MaxTime
  BY NumbersAssumption DEF TypeOK, Marks, Times
<1>2. /\ Larger(mark[l].at, at) \in 0..(MaxTime + 1)
      /\ mark[l].at <= Larger(mark[l].at, at) /\ at <= Larger(mark[l].at, at)
  BY <1>1 DEF Larger
<1>3. /\ n.at = Larger(mark[l].at, at)
      /\ n.kind = IF mark[l].kind = "known" THEN "known" ELSE "unknown"
      /\ n \in Marks
  BY <1>2 DEF Notified, Marks
<1>4. version' = [version EXCEPT ![l] = @ + 1] /\ mark' = [mark EXCEPT ![l] = n]
  BY DEF Dirty
<1> HIDE DEF n
<1>5. mark'[l] = n /\ mark' \in [Lots -> Marks] /\ \A m \in Lots \ {l} : mark'[m] = mark[m]
  BY <1>1, <1>3, <1>4
<1>6. /\ version' \in [Lots -> Nat] /\ version'[l] = version[l] + 1
      /\ \A m \in Lots \ {l} : version'[m] = version[m]
  BY <1>1, <1>4
<1> QED BY <1>2, <1>3, <1>5, <1>6

\* Evidence is captured at a time that can be recorded.
LEMMA CapturedIs ==
  ASSUME TypeOK
  PROVE  Captured \subseteq Times \ {0}
BY NumbersAssumption DEF Captured, Times, TypeOK

LEMMA MarkType ==
  ASSUME NEW f \in [Lots -> Marks], NEW l \in Lots
  PROVE  f[l].at \in Nat
<1>1. f[l] \in Marks
  OBVIOUS
<1> QED BY <1>1, NumbersAssumption DEF Marks

\* Evidence is stamped with times.
LEMMA EvidenceType ==
  ASSUME TypeOK, NEW l \in Lots
  PROVE  /\ closed[l] \in Nat /\ Len(costs[l]) \in Nat /\ DOMAIN costs[l] = 1..Len(costs[l])
         /\ \A k \in 1..Len(costs[l]) : costs[l][k] \in Times /\ costs[l][k] \in Nat
<1>1. Times \subseteq Nat
  BY NumbersAssumption DEF Times
<1>2. closed[l] \in Times /\ costs[l] \in Seq(Times)
  BY DEF TypeOK
<1> QED BY <1>1, <1>2, LenProperties, ElementOfSeq

\* What a role has listed are lots, and its cutoff is a time.
LEMMA ListedType ==
  ASSUME TypeOK, NEW r \in Roles
  PROVE  /\ cycle[r].pc \in {"idle", "list", "work"} /\ cycle[r].cutoff \in Times
         /\ cycle[r].todo \in Seq(Lots) /\ Len(cycle[r].todo) \in Nat
         /\ \A i \in 1..Len(cycle[r].todo) : cycle[r].todo[i] \in Lots
<1>1. cycle[r] \in Cycles
  BY DEF TypeOK
<1> QED BY <1>1, LenProperties, ElementOfSeq DEF Cycles

-----------------------------------------------------------------------------
(* The initial states and the steps.                                       *)

LEMMA InitInv ==
  ASSUME Init
  PROVE  IInv
<1>1. PICK lost \in SUBSET Legacy :
        /\ closed = [l \in Lots |-> IF l \in lost THEN 1 ELSE 0]
        /\ costs = [l \in Lots |-> IF l \in lost THEN <<1>> ELSE <<>>]
        /\ processed = [l \in Lots |-> IF l \in lost THEN 1 ELSE 0]
        /\ trip = [l \in Lots |-> [NoTrip EXCEPT !.published = l \in lost]]
  BY DEF Init
<1>2. 0 \in Times /\ 1 \in Times /\ 1 \in 0..(MaxTime + 1) /\ 0 \in 0..(MaxTime + 1)
  BY NumbersAssumption DEF Times
<1>3. /\ version = [l \in Lots |-> 1]
      /\ mark = [l \in Lots |-> IF l \in Legacy THEN NoMark ELSE [kind |-> "known", at |-> 1]]
      /\ attempted = [l \in Lots |-> 0] /\ begun = [r \in Roles |-> 0]
      /\ cycle = [r \in Roles |-> IdleCycle] /\ up \in Deployments /\ clock = 1
  BY DEF Init
<1>4. /\ IdleCycle \in Cycles /\ Len(IdleCycle.todo) = 0
      /\ IdleCycle.pc = "idle" /\ IdleCycle.todo = <<>>
  BY <1>2, EmptySeq DEF IdleCycle, Cycles
<1>5. TypeOK
  <2>1. /\ <<1>> \in Seq(Times) /\ <<>> \in Seq(Times) /\ Len(<<1>>) = 1 /\ Len(<<>>) = 0
        /\ 1 <= MaxCosts /\ 0 <= MaxCosts
    BY <1>2, NumbersAssumption
  <2>2. costs \in [Lots -> Seq(Times)] /\ \A l \in Lots : Len(costs[l]) <= MaxCosts
    BY <1>1, <2>1
  <2>3. mark \in [Lots -> Marks]
    <3>1. NoMark \in Marks /\ [kind |-> "known", at |-> 1] \in Marks
      BY <1>2 DEF NoMark, Marks
    <3> QED BY <1>3, <3>1
  <2>4. trip \in [Lots -> Trips]
    <3>1. ASSUME NEW l \in Lots PROVE [NoTrip EXCEPT !.published = l \in lost] \in Trips
      <4>1. (l \in lost) \in BOOLEAN
        OBVIOUS
      <4>2. \A p \in BOOLEAN : [NoTrip EXCEPT !.published = p] = [published |-> p, seen |-> {}]
        BY DEF NoTrip
      <4>3. \A p \in BOOLEAN : [NoTrip EXCEPT !.published = p] \in Trips
        BY <4>2 DEF Trips
      <4> HIDE DEF NoTrip
      <4> QED BY <4>1, <4>3, Zenon
    <3> QED BY <1>1, <3>1
  <2>5. /\ version \in [Lots -> Nat] /\ processed \in [Lots -> Nat]
        /\ \A l \in Lots : processed[l] <= version[l]
    BY <1>1, <1>3
  <2>6. closed \in [Lots -> Times] /\ clock \in Times
    BY <1>1, <1>2, <1>3
  <2>7. attempted \in [Lots -> Nat] /\ begun \in [Roles -> Nat] /\ cycle \in [Roles -> Cycles]
    BY <1>3, <1>4
  <2> QED BY <1>3, <2>2, <2>3, <2>4, <2>5, <2>6, <2>7 DEF TypeOK
<1>6. CycleInv
  BY <1>3, <1>4 DEF CycleInv
<1>7. StampInv
  <2> SUFFICES ASSUME NEW l \in Lots, mark[l].kind = "known"
               PROVE  closed[l] <= mark[l].at /\ \A k \in 1..Len(costs[l]) : costs[l][k] <= mark[l].at
    BY DEF StampInv
  <2>1. l \notin Legacy
    BY <1>3 DEF NoMark
  <2>2. mark[l].at = 1 /\ closed[l] = 0 /\ costs[l] = <<>>
    BY <1>1, <1>3, <2>1
  <2> QED BY <2>2
<1>8. AckInv
  <2>1. ASSUME NEW l \in Lots, trip[l].published PROVE Pending(l)
    <3>1. l \in Legacy
      BY <1>1, <2>1 DEF NoTrip
    <3> QED BY <1>3, <3>1 DEF NoMark, Pending
  <2>2. \A r \in Roles : Len(cycle[r].todo) = 0
    BY <1>3, <1>4
  <2> QED BY <2>1, <2>2 DEF AckInv
<1> QED BY <1>5, <1>6, <1>7, <1>8 DEF IInv

\* Close.
LEMMA CloseInv ==
  ASSUME IInv, NEW l \in Lots, Close(l)
  PROVE  IInv'
<1>0. TypeOK /\ CycleInv /\ StampInv /\ AckInv
  BY DEF IInv
<1>1. PICK at \in Captured : closed' = [closed EXCEPT ![l] = at] /\ Dirty(l, at)
  BY DEF Close
<1>2. /\ UNCHANGED <<up, clock, costs, processed, order, trip, cycle>>
      /\ closed[l] = 0 /\ at \in Times
  BY <1>0, CapturedIs DEF Close
<1>3. closed' \in [Lots -> Times] /\ closed'[l] = at /\ \A m \in Lots \ {l} : closed'[m] = closed[m]
  BY <1>0, <1>1, <1>2 DEF TypeOK
<1>4. /\ version' \in [Lots -> Nat] /\ mark' \in [Lots -> Marks]
      /\ version'[l] = version[l] + 1 /\ mark'[l].kind # "none"
      /\ \A m \in Lots \ {l} : version'[m] = version[m] /\ mark'[m] = mark[m]
      /\ mark'[l].kind = "known" => /\ mark[l].kind = "known"
                                    /\ mark[l].at <= mark'[l].at /\ at <= mark'[l].at
  BY <1>0, <1>1, <1>2, DirtyIs
<1>5. TypeOK'
  <2>1. ASSUME NEW m \in Lots PROVE processed[m] <= version'[m]
    <3>1. version[m] \in Nat /\ processed[m] \in Nat /\ processed[m] <= version[m]
      BY <1>0 DEF TypeOK
    <3>2. version'[m] = version[m] + 1 \/ version'[m] = version[m]
      BY <1>4
    <3> QED BY <3>1, <3>2
  <2>2. attempted' = attempted /\ begun' = begun
    BY <1>2 DEF order
  <2> QED BY <1>0, <1>2, <1>3, <1>4, <2>1, <2>2 DEF TypeOK
<1>6. CycleInv'
  BY <1>0, <1>2 DEF CycleInv
<1>7. StampInv'
  <2> SUFFICES ASSUME NEW m \in Lots, mark'[m].kind = "known"
               PROVE  closed'[m] <= mark'[m].at /\ \A k \in 1..Len(costs[m]) : costs[m][k] <= mark'[m].at
    BY <1>2 DEF StampInv
  <2>1. CASE m # l
    BY <1>0, <1>3, <1>4, <2>1 DEF StampInv
  <2>2. CASE m = l
    <3>1. mark[l].at \in Nat /\ mark'[l].at \in Nat
      BY <1>0, <1>4, MarkType DEF TypeOK
    <3>2. \A k \in 1..Len(costs[l]) : costs[l][k] <= mark[l].at
      BY <1>0, <1>4, <2>2 DEF StampInv
    <3>3. \A k \in 1..Len(costs[l]) : costs[l][k] \in Nat
      BY <1>0, EvidenceType
    <3> QED BY <1>3, <1>4, <2>2, <3>1, <3>2, <3>3
  <2> QED BY <2>1, <2>2
<1>8. AckInv'
  <2>1. Pending(l)'
    BY <1>0, <1>2, <1>4 DEF Pending, TypeOK
  <2>2. \A m \in Lots \ {l} : Pending(m)' <=> Pending(m)
    BY <1>2, <1>4 DEF Pending
  <2>3. \A m \in Lots \ {l}, c \in Times : Settled(m, c) => Settled(m, c)'
    BY <1>3, <1>4 DEF Settled
  <2> QED BY <1>0, <1>2, <2>1, <2>2, <2>3, ListedType DEF AckInv
<1> QED BY <1>5, <1>6, <1>7, <1>8 DEF IInv

\* ReviseCost.
LEMMA ReviseCostInv ==
  ASSUME IInv, NEW l \in Lots, ReviseCost(l)
  PROVE  IInv'
<1>0. TypeOK /\ CycleInv /\ StampInv /\ AckInv
  BY DEF IInv
<1>1. PICK at \in Captured : costs' = [costs EXCEPT ![l] = Append(@, at)] /\ Dirty(l, at)
  BY DEF ReviseCost
<1>2. /\ UNCHANGED <<up, clock, closed, processed, order, trip, cycle>>
      /\ Len(costs[l]) < MaxCosts /\ at \in Times
  BY <1>0, CapturedIs DEF ReviseCost
<1>3. /\ costs' \in [Lots -> Seq(Times)] /\ \A m \in Lots \ {l} : costs'[m] = costs[m]
      /\ Len(costs'[l]) = Len(costs[l]) + 1
      /\ \A k \in 1..Len(costs'[l]) : costs'[l][k] = at \/ (k \in 1..Len(costs[l]) /\ costs'[l][k] = costs[l][k])
  <2>1. costs \in [Lots -> Seq(Times)] /\ costs[l] \in Seq(Times) /\ Len(costs[l]) \in Nat
    BY <1>0, LenProperties DEF TypeOK
  <2>2. /\ Append(costs[l], at) \in Seq(Times) /\ Len(Append(costs[l], at)) = Len(costs[l]) + 1
        /\ \A i \in 1..Len(costs[l]) : Append(costs[l], at)[i] = costs[l][i]
        /\ Append(costs[l], at)[Len(costs[l]) + 1] = at
    BY <1>2, <2>1, AppendProperties
  <2>3. costs'[l] = Append(costs[l], at)
    BY <1>1, <2>1
  <2>4. costs' \in [Lots -> Seq(Times)] /\ \A m \in Lots \ {l} : costs'[m] = costs[m]
    BY <1>1, <2>1, <2>2
  <2> QED BY <2>1, <2>2, <2>3, <2>4
<1>4. /\ version' \in [Lots -> Nat] /\ mark' \in [Lots -> Marks]
      /\ version'[l] = version[l] + 1 /\ mark'[l].kind # "none"
      /\ \A m \in Lots \ {l} : version'[m] = version[m] /\ mark'[m] = mark[m]
      /\ mark'[l].kind = "known" => /\ mark[l].kind = "known"
                                    /\ mark[l].at <= mark'[l].at /\ at <= mark'[l].at
  BY <1>0, <1>1, <1>2, DirtyIs
<1>5. TypeOK'
  <2>1. ASSUME NEW m \in Lots PROVE processed[m] <= version'[m]
    <3>1. version[m] \in Nat /\ processed[m] \in Nat /\ processed[m] <= version[m]
      BY <1>0 DEF TypeOK
    <3>2. version'[m] = version[m] + 1 \/ version'[m] = version[m]
      BY <1>4
    <3> QED BY <3>1, <3>2
  <2>2. attempted' = attempted /\ begun' = begun
    BY <1>2 DEF order
  <2>3. \A m \in Lots : Len(costs'[m]) <= MaxCosts
    <3>1. Len(costs[l]) + 1 <= MaxCosts
      BY <1>0, <1>2, EvidenceType, NumbersAssumption
    <3>2. \A m \in Lots \ {l} : Len(costs'[m]) <= MaxCosts
      BY <1>0, <1>3 DEF TypeOK
    <3> QED BY <1>3, <3>1, <3>2
  <2> QED BY <1>0, <1>2, <1>3, <1>4, <2>1, <2>2, <2>3 DEF TypeOK
<1>6. CycleInv'
  BY <1>0, <1>2 DEF CycleInv
<1>7. StampInv'
  <2> SUFFICES ASSUME NEW m \in Lots, mark'[m].kind = "known"
               PROVE  closed[m] <= mark'[m].at /\ \A k \in 1..Len(costs'[m]) : costs'[m][k] <= mark'[m].at
    BY <1>2 DEF StampInv
  <2>1. CASE m # l
    BY <1>0, <1>3, <1>4, <2>1 DEF StampInv
  <2>2. CASE m = l
    <3>1. mark[l].at \in Nat /\ mark'[l].at \in Nat
      BY <1>0, <1>4, MarkType DEF TypeOK
    <3>2. closed[l] <= mark[l].at /\ \A k \in 1..Len(costs[l]) : costs[l][k] <= mark[l].at
      BY <1>0, <1>4, <2>2 DEF StampInv
    <3>3. closed[l] \in Nat /\ \A k \in 1..Len(costs[l]) : costs[l][k] \in Nat
      BY <1>0, EvidenceType
    <3>4. at <= mark'[l].at /\ mark[l].at <= mark'[l].at
      BY <1>4, <2>2
    <3>5. closed[l] <= mark'[l].at
      BY <3>1, <3>2, <3>3, <3>4
    <3>6. \A k \in 1..Len(costs[l]) : costs[l][k] <= mark'[l].at
      BY <3>1, <3>2, <3>3, <3>4
    <3> QED BY <1>3, <2>2, <3>4, <3>5, <3>6
  <2> QED BY <2>1, <2>2
<1>8. AckInv'
  <2>1. Pending(l)'
    BY <1>0, <1>2, <1>4 DEF Pending, TypeOK
  <2>2. \A m \in Lots \ {l} : Pending(m)' <=> Pending(m)
    BY <1>2, <1>4 DEF Pending
  <2>3. \A m \in Lots \ {l}, c \in Times : Settled(m, c) => Settled(m, c)'
    BY <1>2, <1>4 DEF Settled
  <2> QED BY <1>0, <1>2, <1>3, <2>1, <2>2, <2>3, ListedType DEF AckInv
<1> QED BY <1>5, <1>6, <1>7, <1>8 DEF IInv

\* The steps that change a cycle, the attempts' ranks or the clock, and nothing else.
LEMMA CycleStepInv ==
  ASSUME IInv, UNCHANGED <<up, evidence, work, trip>>, clock' \in Times,
         attempted' \in [Lots -> Nat], begun' \in [Roles -> Nat],
         cycle' \in [Roles -> Cycles], CycleInv',
         \A r \in Roles : \A i \in 1..Len(cycle'[r].todo) :
           \/ Pending(cycle'[r].todo[i])
           \/ cycle'[r].todo = cycle[r].todo /\ cycle'[r].cutoff = cycle[r].cutoff
  PROVE  IInv'
<1>0. TypeOK /\ CycleInv /\ StampInv /\ AckInv
  BY DEF IInv
<1>1. UNCHANGED <<up, closed, costs, version, processed, mark, trip>>
  BY DEF evidence, work
<1>2. TypeOK'
  BY <1>0, <1>1 DEF TypeOK
<1>3. StampInv'
  BY <1>0, <1>1 DEF StampInv
<1>4. AckInv'
  <2> SUFFICES ASSUME NEW r \in Roles, up = {r}
               PROVE  /\ \A l \in Lots : trip[l].published /\ ~Pending(l) => trip[l].seen = 1..Len(costs[l])
                      /\ \A i \in 1..Len(cycle'[r].todo) :
                           Pending(cycle'[r].todo[i]) \/ Settled(cycle'[r].todo[i], cycle'[r].cutoff)
    BY <1>1 DEF AckInv, Pending, Settled
  <2> QED BY <1>0 DEF AckInv
<1> QED BY <1>2, <1>3, <1>4 DEF IInv

\* Begin, Crash and Tick.
LEMMA BeginInv ==
  ASSUME IInv, NEW r \in Roles, Begin(r)
  PROVE  IInv'
<1> DEFINE c == [pc |-> "list", cutoff |-> clock, todo |-> <<>>]
<1>0. TypeOK /\ CycleInv
  BY DEF IInv
<1>1. /\ cycle' = [cycle EXCEPT ![r] = c] /\ r \in up
      /\ UNCHANGED <<up, clock, evidence, work, trip>>
      /\ Ordered(attempted, [begun EXCEPT ![r] = Latest + 1])
  BY DEF Begin
<1>2. attempted' \in [Lots -> Nat] /\ begun' \in [Roles -> Nat]
  <2>1. [begun EXCEPT ![r] = Latest + 1] \in [Roles -> Nat]
    BY <1>0, LatestType DEF TypeOK
  <2> QED BY <1>0, <1>1, <2>1, OrderedType DEF TypeOK
<1>3. c \in Cycles /\ Len(c.todo) = 0 /\ c.todo = <<>> /\ c.pc = "list"
  BY <1>0, EmptySeq DEF Cycles, TypeOK
<1> HIDE DEF c
<1>4. cycle' \in [Roles -> Cycles] /\ cycle'[r] = c /\ \A q \in Roles \ {r} : cycle'[q] = cycle[q]
  BY <1>0, <1>1, <1>3 DEF TypeOK
<1>5. CycleInv'
  BY <1>0, <1>1, <1>3, <1>4 DEF CycleInv
<1>6. \A q \in Roles : \A i \in 1..Len(cycle'[q].todo) : cycle'[q] = cycle[q]
  BY <1>3, <1>4
<1> QED BY <1>0, <1>1, <1>2, <1>4, <1>5, <1>6, CycleStepInv DEF TypeOK

\* A cycle ends without a lot, or its process dies.
LEMMA EndInv ==
  ASSUME IInv, NEW r \in Roles, cycle' = [cycle EXCEPT ![r] = IdleCycle],
         Ordered(attempted, [begun EXCEPT ![r] = 0]), UNCHANGED <<up, clock, evidence, work, trip>>
  PROVE  IInv'
<1>0. TypeOK /\ CycleInv
  BY DEF IInv
<1>2. attempted' \in [Lots -> Nat] /\ begun' \in [Roles -> Nat]
  <2>1. [begun EXCEPT ![r] = 0] \in [Roles -> Nat]
    BY <1>0 DEF TypeOK
  <2> QED BY <1>0, <2>1, OrderedType DEF TypeOK
<1>3. /\ IdleCycle \in Cycles /\ Len(IdleCycle.todo) = 0
      /\ IdleCycle.todo = <<>> /\ IdleCycle.pc = "idle"
  BY EmptySeq, NumbersAssumption DEF Cycles, IdleCycle, Times
<1> HIDE DEF IdleCycle
<1>4. /\ cycle' \in [Roles -> Cycles] /\ cycle'[r] = IdleCycle
      /\ \A q \in Roles \ {r} : cycle'[q] = cycle[q]
  BY <1>0, <1>3 DEF TypeOK
<1>5. CycleInv'
  BY <1>0, <1>3, <1>4 DEF CycleInv
<1>6. \A q \in Roles : \A i \in 1..Len(cycle'[q].todo) : cycle'[q] = cycle[q]
  BY <1>3, <1>4
<1> QED BY <1>0, <1>2, <1>4, <1>5, <1>6, CycleStepInv DEF TypeOK

LEMMA TickInv ==
  ASSUME IInv, Tick
  PROVE  IInv'
<1>0. TypeOK /\ CycleInv
  BY DEF IInv
<1>1. /\ UNCHANGED <<up, evidence, work, order, trip, cycle>>
      /\ clock' = clock + 1 /\ clock < MaxTime
  BY DEF Tick
<1>2. clock' \in Times
  BY <1>0, <1>1, NumbersAssumption DEF TypeOK, Times
<1>3. CycleInv'
  BY <1>0, <1>1 DEF CycleInv
<1> QED BY <1>0, <1>1, <1>2, <1>3, CycleStepInv DEF TypeOK, order

\* List: what it lists is pending.
LEMMA ListInv ==
  ASSUME IInv, NEW r \in Roles, List(r)
  PROVE  IInv'
<1> DEFINE waiting == {l \in Lots : Pending(l)}
           n == IF Cardinality(waiting) < Batch THEN Cardinality(waiting) ELSE Batch
<1>0. TypeOK /\ CycleInv
  BY DEF IInv
<1>1. UNCHANGED <<up, clock, evidence, work, trip>> /\ cycle[r].pc = "list"
  BY DEF List
<1>2. CASE cycle' = [cycle EXCEPT ![r] = IdleCycle] /\ Ordered(attempted, [begun EXCEPT ![r] = 0])
  BY <1>1, <1>2, EndInv
<1>3. ASSUME waiting # {}, NEW todo \in [1..n -> waiting], UNCHANGED order,
             cycle' = [cycle EXCEPT ![r].pc = "work", ![r].todo = todo]
      PROVE  IInv'
  <2>1. n \in Nat \ {0}
    <3>1. IsFiniteSet(waiting)
      BY LotsAssumption, FS_Subset
    <3>2. Cardinality(waiting) \in Nat \ {0}
      BY <1>3, <3>1, FS_CardinalityType, FS_EmptySet
    <3> HIDE DEF waiting
    <3> QED BY <3>2, NumbersAssumption
  <2> HIDE DEF n
  <2>2. todo \in Seq(Lots) /\ Len(todo) = n /\ todo # <<>> /\ \A i \in 1..Len(todo) : Pending(todo[i])
    <3>1. todo \in [1..n -> Lots] /\ \A i \in 1..n : Pending(todo[i])
      BY <1>3
    <3>2. todo \in Seq(Lots) /\ Len(todo) = n
      BY <2>1, <3>1
    <3> QED BY <2>1, <3>1, <3>2, EmptySeq
  <2> DEFINE c == [cycle[r] EXCEPT !.pc = "work", !.todo = todo]
  <2>3. c \in Cycles /\ c.pc = "work" /\ c.todo = todo
    BY <1>0, <2>2 DEF TypeOK, Cycles
  <2>4. cycle' = [cycle EXCEPT ![r] = c]
    BY <1>3
  <2> HIDE DEF c
  <2>5. cycle' \in [Roles -> Cycles] /\ cycle'[r] = c /\ \A q \in Roles \ {r} : cycle'[q] = cycle[q]
    BY <1>0, <2>3, <2>4 DEF TypeOK
  <2>6. CycleInv'
    BY <1>0, <1>1, <2>2, <2>3, <2>5 DEF CycleInv
  <2>7. \A q \in Roles : \A i \in 1..Len(cycle'[q].todo) :
          Pending(cycle'[q].todo[i]) \/ cycle'[q] = cycle[q]
    BY <2>2, <2>3, <2>5
  <2>8. attempted' \in [Lots -> Nat] /\ begun' \in [Roles -> Nat]
    BY <1>0, <1>3 DEF order, TypeOK
  <2> QED BY <1>0, <1>1, <2>5, <2>6, <2>7, <2>8, CycleStepInv DEF TypeOK
<1> QED BY <1>2, <1>3 DEF List

\* What an attempt at a lot changes.
Attempt(r, l, cutoff) ==
  /\ cycle[r].todo \in Seq(Lots) /\ cycle[r].todo # <<>> /\ l = cycle[r].todo[1]
  /\ cutoff = cycle[r].cutoff
  /\ version' \in [Lots -> Nat] /\ processed' \in [Lots -> Nat]
  /\ mark' \in [Lots -> Marks] /\ trip' \in [Lots -> Trips]
  /\ \A m \in Lots \ {l} : /\ version'[m] = version[m] /\ processed'[m] = processed[m]
                           /\ mark'[m] = mark[m] /\ trip'[m] = trip[m]
  /\ version'[l] = IF mark[l].kind = "none" THEN version[l] + 1 ELSE version[l]
  /\ mark'[l] = Watermark(l)
  /\ \/ /\ closed[l] \in 1..cutoff /\ Covered(l, cutoff)
        /\ trip'[l].published /\ trip'[l].seen = 1..Len(costs[l])
        /\ processed'[l] = version'[l]
     \/ /\ closed[l] \in 1..cutoff /\ ~Covered(l, cutoff)
        /\ processed'[l] = processed[l]
     \/ /\ closed[l] \notin 1..cutoff
        /\ trip'[l] = trip[l] /\ processed'[l] = processed[l]

\* Process is one.
LEMMA ProcessIs ==
  ASSUME IInv, NEW r \in Roles, Process(r)
  PROVE  \E l \in Lots, cutoff \in Times : Attempt(r, l, cutoff)
<1> DEFINE l == Head(cycle[r].todo)
           cutoff == cycle[r].cutoff
           t == [published |-> TRUE, seen |-> Seen(l, cutoff)]
           repaired == IF mark[l].kind = "none" THEN version[l] + 1 ELSE version[l]
<1>0. TypeOK /\ CycleInv /\ StampInv
  BY DEF IInv
<1>1. /\ cutoff \in Times /\ cycle[r].todo \in Seq(Lots) /\ cycle[r].todo # <<>>
      /\ l \in Lots /\ l = cycle[r].todo[1]
  <2>1. cycle[r].pc = "work"
    BY DEF Process
  <2>2. cutoff \in Times /\ cycle[r].todo \in Seq(Lots) /\ cycle[r].todo # <<>>
    BY <1>0, <2>1, ListedType DEF CycleInv
  <2> QED BY <2>2, HeadTailProperties
<1>2. /\ version' = [version EXCEPT ![l] = repaired] /\ mark' = [mark EXCEPT ![l] = Watermark(l)]
      /\ IF closed[l] \in 1..cutoff
           THEN /\ trip' = [trip EXCEPT ![l] = t]
                /\ processed' = [processed EXCEPT ![l] = IF Covered(l, cutoff) THEN repaired ELSE processed[l]]
           ELSE UNCHANGED <<trip, processed>>
  BY DEF Process, Repaired, Acknowledged
<1>3. /\ t \in Trips /\ t.published
      /\ Covered(l, cutoff) => t.seen = 1..Len(costs[l])
  <2>1. Seen(l, cutoff) \in SUBSET (1..MaxCosts)
    BY <1>0, <1>1, SeenIs
  <2>2. ASSUME Covered(l, cutoff) PROVE Seen(l, cutoff) = 1..Len(costs[l])
    <3>1. /\ Watermark(l).at \in Nat /\ cutoff \in Nat /\ Watermark(l).at <= cutoff
          /\ \A k \in 1..Len(costs[l]) : costs[l][k] <= Watermark(l).at
      BY <1>0, <1>1, <2>2, WatermarkIs, NumbersAssumption DEF Covered, Marks, Times
    <3>2. \A k \in 1..Len(costs[l]) : costs[l][k] \in Nat
      BY <1>0, <1>1, EvidenceType
    <3>3. \A k \in 1..Len(costs[l]) : costs[l][k] <= cutoff
      BY <3>1, <3>2
    <3> QED BY <1>0, <1>1, <3>3, SeenIs
  <2> QED BY <2>1, <2>2 DEF Trips
<1>4. version[l] \in Nat /\ processed[l] \in Nat /\ repaired \in Nat /\ Watermark(l) \in Marks
  <2>1. version[l] \in Nat /\ processed[l] \in Nat
    BY <1>0, <1>1 DEF TypeOK
  <2> QED BY <1>0, <1>1, <2>1, WatermarkIs
<1>5. /\ version \in [Lots -> Nat] /\ processed \in [Lots -> Nat]
      /\ mark \in [Lots -> Marks] /\ trip \in [Lots -> Trips]
  BY <1>0 DEF TypeOK
<1> HIDE DEF l, cutoff, t
<1>6. /\ version' \in [Lots -> Nat] /\ mark' \in [Lots -> Marks] /\ version'[l] = repaired
      /\ mark'[l] = Watermark(l)
      /\ \A m \in Lots \ {l} : version'[m] = version[m] /\ mark'[m] = mark[m]
  <2> HIDE DEF repaired
  <2> QED BY <1>1, <1>2, <1>4, <1>5
<1>7. CASE closed[l] \in 1..cutoff
  <2>1. /\ trip' = [trip EXCEPT ![l] = t]
        /\ processed' = [processed EXCEPT ![l] = IF Covered(l, cutoff) THEN repaired ELSE processed[l]]
    BY <1>2, <1>7
  <2>2. trip' \in [Lots -> Trips] /\ trip'[l] = t /\ \A m \in Lots \ {l} : trip'[m] = trip[m]
    BY <1>1, <1>3, <1>5, <2>1
  <2>3. CASE Covered(l, cutoff)
    <3>1. processed' = [processed EXCEPT ![l] = repaired]
      BY <2>1, <2>3
    <3>2. /\ processed' \in [Lots -> Nat] /\ processed'[l] = repaired
          /\ \A m \in Lots \ {l} : processed'[m] = processed[m]
      <4> HIDE DEF repaired
      <4> QED BY <1>1, <1>4, <1>5, <3>1
    <3> QED BY <1>1, <1>3, <1>6, <1>7, <2>2, <2>3, <3>2 DEF Attempt, cutoff
  <2>4. CASE ~Covered(l, cutoff)
    <3>1. processed' = [processed EXCEPT ![l] = processed[l]]
      BY <2>1, <2>4
    <3>2. processed' = processed
      BY <1>5, <3>1
    <3> QED BY <1>1, <1>5, <1>6, <1>7, <2>2, <2>4, <3>2 DEF Attempt, cutoff
  <2> QED BY <2>3, <2>4
<1>8. CASE closed[l] \notin 1..cutoff
  <2>1. trip' = trip /\ processed' = processed
    BY <1>2, <1>8
  <2> QED BY <1>1, <1>5, <1>6, <1>8, <2>1 DEF Attempt, cutoff
<1> QED BY <1>7, <1>8

\* What Process leaves of the cycle: the other listed lots.
LEMMA ProcessCycle ==
  ASSUME IInv, NEW r \in Roles, Process(r)
  PROVE  /\ cycle' \in [Roles -> Cycles] /\ CycleInv'
         /\ attempted' \in [Lots -> Nat] /\ begun' \in [Roles -> Nat]
         /\ \A q \in Roles \ {r} : cycle'[q] = cycle[q]
         /\ \A i \in 1..Len(cycle'[r].todo) :
              /\ i + 1 \in 1..Len(cycle[r].todo) /\ cycle'[r].todo[i] = cycle[r].todo[i + 1]
              /\ cycle'[r].cutoff = cycle[r].cutoff
<1> DEFINE l == Head(cycle[r].todo)
           rest == Tail(cycle[r].todo)
           b == IF rest = <<>> THEN [begun EXCEPT ![r] = 0] ELSE begun
           a == [attempted EXCEPT ![l] = begun[r]]
           c == IF rest = <<>> THEN IdleCycle ELSE [cycle[r] EXCEPT !.todo = rest]
<1>0. TypeOK /\ CycleInv /\ cycle[r].pc = "work"
  BY DEF IInv, Process
<1>1. /\ cycle[r].todo \in Seq(Lots) /\ cycle[r].todo # <<>> /\ l \in Lots
      /\ rest \in Seq(Lots) /\ Len(rest) = Len(cycle[r].todo) - 1 /\ Len(cycle[r].todo) \in Nat
      /\ \A i \in 1..Len(rest) : rest[i] = cycle[r].todo[i + 1]
  BY <1>0, ListedType, HeadTailProperties DEF CycleInv
<1>2. cycle' = [cycle EXCEPT ![r] = c] /\ Ordered(a, b) /\ up' = up
  BY DEF Process
<1>3. a \in [Lots -> Nat] /\ b \in [Roles -> Nat]
  <2>1. attempted \in [Lots -> Nat] /\ begun \in [Roles -> Nat] /\ begun[r] \in Nat
    BY <1>0 DEF TypeOK
  <2> QED BY <1>1, <2>1
<1>4. /\ c \in Cycles /\ (r \notin up => c.pc = "idle")
      /\ (c.pc = "work") <=> (c.todo # <<>>)
      /\ c.todo # <<>> => c.todo = rest /\ c.cutoff = cycle[r].cutoff
  <2>1. CASE rest = <<>>
    <3>1. IdleCycle \in Cycles /\ IdleCycle.pc = "idle" /\ IdleCycle.todo = <<>>
      BY EmptySeq, NumbersAssumption DEF Cycles, IdleCycle, Times
    <3> QED BY <2>1, <3>1
  <2>2. CASE rest # <<>>
    <3>1. cycle[r] \in Cycles
      BY <1>0 DEF TypeOK
    <3>2. c = [cycle[r] EXCEPT !.todo = rest]
      BY <2>2
    <3>3. c \in Cycles /\ c.pc = "work" /\ c.todo = rest /\ c.cutoff = cycle[r].cutoff
      <4> HIDE DEF rest, c
      <4> QED BY <1>0, <1>1, <3>1, <3>2 DEF Cycles
    <3> QED BY <1>0, <2>2, <3>3 DEF CycleInv
  <2> QED BY <2>1, <2>2
<1>5. attempted' \in [Lots -> Nat] /\ begun' \in [Roles -> Nat]
  <2> HIDE DEF a, b
  <2> QED BY <1>2, <1>3, OrderedType
<1> HIDE DEF c, l, a, b, rest
<1>6. cycle' \in [Roles -> Cycles] /\ cycle'[r] = c /\ \A q \in Roles \ {r} : cycle'[q] = cycle[q]
  BY <1>0, <1>2, <1>4 DEF TypeOK
<1>7. CycleInv'
  BY <1>0, <1>2, <1>4, <1>6 DEF CycleInv
<1>8. ASSUME NEW i \in 1..Len(c.todo)
      PROVE  /\ i + 1 \in 1..Len(cycle[r].todo) /\ c.todo[i] = cycle[r].todo[i + 1]
             /\ c.cutoff = cycle[r].cutoff
  <2>1. c.todo # <<>>
    BY <1>8, EmptySeq
  <2>2. c.todo = rest /\ c.cutoff = cycle[r].cutoff
    BY <1>4, <2>1
  <2> QED BY <1>1, <1>8, <2>2
<1> QED BY <1>5, <1>6, <1>7, <1>8

\* The listed lots that stay are pending or settled after an attempt, the lot included,
\* and what is not pending then is complete.
LEMMA ProcessInv ==
  ASSUME IInv, NEW r \in Roles, Process(r)
  PROVE  IInv'
<1>0. TypeOK /\ CycleInv /\ StampInv /\ AckInv
  BY DEF IInv
<1>1. PICK l \in Lots, cutoff \in Times : Attempt(r, l, cutoff)
  BY ProcessIs
<1>2. /\ version' \in [Lots -> Nat] /\ processed' \in [Lots -> Nat]
      /\ mark' \in [Lots -> Marks] /\ trip' \in [Lots -> Trips]
      /\ \A m \in Lots \ {l} : /\ version'[m] = version[m] /\ processed'[m] = processed[m]
                               /\ mark'[m] = mark[m] /\ trip'[m] = trip[m]
      /\ version'[l] = IF mark[l].kind = "none" THEN version[l] + 1 ELSE version[l]
      /\ mark'[l] = Watermark(l) /\ l = cycle[r].todo[1] /\ cutoff = cycle[r].cutoff
      /\ cycle[r].todo \in Seq(Lots) /\ cycle[r].todo # <<>>
  BY <1>1 DEF Attempt
<1>3. UNCHANGED <<up, clock, closed, costs>>
  BY DEF Process, evidence
<1>4. /\ cycle' \in [Roles -> Cycles] /\ CycleInv'
      /\ attempted' \in [Lots -> Nat] /\ begun' \in [Roles -> Nat]
      /\ \A q \in Roles \ {r} : cycle'[q] = cycle[q]
      /\ \A i \in 1..Len(cycle'[r].todo) :
           /\ i + 1 \in 1..Len(cycle[r].todo) /\ cycle'[r].todo[i] = cycle[r].todo[i + 1]
           /\ cycle'[r].cutoff = cycle[r].cutoff
  BY ProcessCycle
<1>5. version[l] \in Nat /\ processed[l] \in Nat /\ processed[l] <= version[l]
  BY <1>0 DEF TypeOK
<1>6. processed'[l] = processed[l] \/ processed'[l] = version'[l]
  BY <1>1 DEF Attempt
<1>7. TypeOK'
  <2>1. processed'[l] <= version'[l]
    BY <1>2, <1>5, <1>6
  <2>2. \A m \in Lots : processed'[m] <= version'[m]
    BY <1>0, <1>2, <2>1 DEF TypeOK
  <2> QED BY <1>0, <1>2, <1>3, <1>4, <2>2 DEF TypeOK
<1>8. /\ mark'[l].kind = "known" /\ closed[l] <= mark'[l].at
      /\ \A k \in 1..Len(costs[l]) : costs[l][k] <= mark'[l].at
  BY <1>0, <1>2, WatermarkIs
<1>9. StampInv'
  BY <1>0, <1>2, <1>3, <1>8 DEF StampInv
<1>10. ASSUME up = {r}
       PROVE  /\ trip'[l].published /\ ~Pending(l)' => trip'[l].seen = 1..Len(costs[l])
              /\ \A i \in 1..Len(cycle'[r].todo) : cycle'[r].todo[i] = l => Pending(l)' \/ Settled(l, cutoff)'
  <2>1. Pending(l) \/ Settled(l, cutoff)
    <3>1. Len(cycle[r].todo) \in Nat \ {0}
      BY <1>2, EmptySeq
    <3> QED BY <1>0, <1>2, <1>10, <3>1 DEF AckInv
  <2>2. Pending(l)' <=> version'[l] > processed'[l]
    BY <1>8 DEF Pending
  <2>3. CASE closed[l] \in 1..cutoff /\ Covered(l, cutoff)
    <3>1. trip'[l].seen = 1..Len(costs[l])
      BY <1>1, <2>3 DEF Attempt
    <3>2. Settled(l, cutoff)'
      BY <1>2, <1>3, <1>8, <2>3 DEF Settled, Covered
    <3> QED BY <3>1, <3>2
  <2>4. CASE closed[l] \in 1..cutoff /\ ~Covered(l, cutoff)
    <3>1. processed'[l] = processed[l]
      BY <1>1, <2>4 DEF Attempt
    <3>2. Pending(l)
      BY <2>1, <2>4 DEF Settled, Covered, Watermark
    <3>3. Pending(l)'
      BY <1>2, <1>5, <2>2, <3>1, <3>2 DEF Pending
    <3> QED BY <3>3
  <2>5. CASE closed[l] \notin 1..cutoff
    <3>1. processed'[l] = processed[l] /\ trip'[l] = trip[l]
      BY <1>1, <2>5 DEF Attempt
    <3>2. Pending(l)
      BY <2>1, <2>5 DEF Settled
    <3>3. Pending(l)'
      BY <1>2, <1>5, <2>2, <3>1, <3>2 DEF Pending
    <3> QED BY <3>3
  <2> QED BY <2>3, <2>4, <2>5
<1>11. \A m \in Lots \ {l} : Pending(m)' <=> Pending(m)
  BY <1>2 DEF Pending
<1>12. \A m \in Lots \ {l}, c \in Times : Settled(m, c)' <=> Settled(m, c)
  BY <1>2, <1>3 DEF Settled
<1>13. AckInv'
  <2> SUFFICES ASSUME NEW q \in Roles, up = {q}
               PROVE  /\ \A m \in Lots : trip'[m].published /\ ~Pending(m)' => trip'[m].seen = 1..Len(costs[m])
                      /\ \A i \in 1..Len(cycle'[q].todo) : \E m \in Lots :
                           m = cycle'[q].todo[i] /\ (Pending(m)' \/ Settled(m, cutoff)') /\ cutoff = cycle'[q].cutoff
    BY <1>3 DEF AckInv, Pending, Settled
  <2>1. q = r
    BY <1>0 DEF Process, CycleInv
  <2>2. \A m \in Lots : trip'[m].published /\ ~Pending(m)' => trip'[m].seen = 1..Len(costs[m])
    BY <1>0, <1>2, <1>10, <1>11, <2>1 DEF AckInv
  <2>3. ASSUME NEW i \in 1..Len(cycle'[r].todo)
        PROVE  \E m \in Lots : m = cycle'[r].todo[i] /\ (Pending(m)' \/ Settled(m, cutoff)') /\ cutoff = cycle'[r].cutoff
    <3>1. /\ i + 1 \in 1..Len(cycle[r].todo) /\ cycle'[r].todo[i] = cycle[r].todo[i + 1]
          /\ cycle'[r].cutoff = cutoff
      BY <1>2, <1>4
    <3>2. PICK m \in Lots : m = cycle[r].todo[i + 1]
      BY <1>0, <3>1, ListedType
    <3>3. Pending(m) \/ Settled(m, cutoff)
      BY <1>0, <1>2, <2>1, <3>1, <3>2 DEF AckInv
    <3>4. Pending(m)' \/ Settled(m, cutoff)'
      BY <1>10, <1>11, <1>12, <2>1, <3>1, <3>2, <3>3
    <3> QED BY <3>1, <3>2, <3>4
  <2> QED BY <2>1, <2>2, <2>3
<1> QED BY <1>7, <1>9, <1>4, <1>13 DEF IInv

LEMMA StutterInv ==
  ASSUME IInv, UNCHANGED vars
  PROVE  IInv'
BY DEF IInv, TypeOK, CycleInv, StampInv, AckInv, Pending, Settled, vars, evidence, work, order

LEMMA NextInv ==
  ASSUME IInv, [Next]_vars
  PROVE  IInv'
<1>1. ASSUME NEW r \in Roles, Crash(r) PROVE IInv'
  BY <1>1, EndInv DEF Crash
<1> QED BY <1>1, CloseInv, ReviseCostInv, BeginInv, ListInv, ProcessInv, TickInv, StutterInv DEF Next

LEMMA Invariance == Spec => []IInv
BY InitInv, NextInv, PTL DEF Spec

-----------------------------------------------------------------------------

\* Typing of the queue, the watermarks, the outcomes and the cycles (work.py and
\* outcomes.py), for any lots and bounds.
THEOREM TypeCorrect == Spec => []TypeOK
<1>1. IInv => TypeOK
  BY DEF IInv
<1> QED BY <1>1, Invariance, PTL

\* process_outcomes with covered_version: a lot leaves the queue only with an outcome from
\* all of its evidence, whatever the age of the cycle's cutoff, however many roles run
\* cycles, and though the lot comes from an older release.
THEOREM AcknowledgementsAreComplete == Spec => AcksAreComplete
<1>1. ASSUME IInv, [Next]_vars, NEW l \in Lots, processed'[l] # processed[l]
      PROVE  closed[l] # 0 /\ trip'[l].published /\ trip'[l].seen = DOMAIN costs[l]
  <2>0. TypeOK
    BY <1>1 DEF IInv
  <2>1. PICK r \in Roles : Process(r)
    BY <1>1 DEF Next, Close, ReviseCost, Begin, List, Crash, Tick, vars, work
  <2>2. PICK m \in Lots, cutoff \in Times : Attempt(r, m, cutoff)
    BY <1>1, <2>1, ProcessIs
  <2>3. m = l
    BY <1>1, <2>2 DEF Attempt
  <2>4. /\ closed[l] \in 1..cutoff /\ trip'[l].published
        /\ trip'[l].seen = 1..Len(costs[l])
    BY <1>1, <2>2, <2>3 DEF Attempt
  <2> QED BY <2>0, <2>4, EvidenceType, NumbersAssumption DEF Times
<1>2. IInv /\ [Next]_vars =>
        [\A l \in Lots : processed'[l] # processed[l] =>
           closed[l] # 0 /\ trip'[l].published /\ trip'[l].seen = DOMAIN costs[l]]_vars
  BY <1>1
<1> QED BY <1>2, Invariance, PTL DEF Spec, AcksAreComplete

\* learning.py, which takes an outcome that is not pending for settled, builds on all the
\* evidence of its lot, where one role runs the cycles.
THEOREM LearnableIsTrue == Spec => []LearnableIsCurrent
<1>1. ASSUME IInv, Cardinality(up) = 1, NEW l \in Lots, trip[l].published, ~Pending(l)
      PROVE  trip[l].seen = DOMAIN costs[l]
  <2>1. up \subseteq Roles /\ IsFiniteSet(up) /\ TypeOK
    BY <1>1, DeploymentsAssumption, FS_Subset DEF IInv, TypeOK
  <2>2. PICK r \in Roles : up = {r}
    BY <1>1, <2>1, FS_Singleton
  <2>3. trip[l].seen = 1..Len(costs[l])
    BY <1>1, <2>2 DEF IInv, AckInv
  <2> QED BY <2>1, <2>3, EvidenceType
<1>2. IInv => LearnableIsCurrent
  BY <1>1 DEF LearnableIsCurrent
<1> QED BY <1>2, Invariance, PTL

=============================================================================
