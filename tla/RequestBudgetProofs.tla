------------------------ MODULE RequestBudgetProofs -------------------------
(***************************************************************************)
(* Proofs about RequestBudget for any processes, shares, window, lock wait, *)
(* provider signals and number of faults: its typing, that no window sees   *)
(* more sends than the limits, that protection keeps its reserve, and that  *)
(* deadlines are honoured over restarts, reboots and clocks that step back. *)
(***************************************************************************)
EXTENDS RequestBudget, SumLemmas, SequenceTheorems, FunctionTheorems

-----------------------------------------------------------------------------
(* The inductive invariant.                                                *)

ChargeRows == [epoch : Nat, role : DOMAIN RoleLimit, consumed : BOOLEAN,
               critical : BOOLEAN, at : Nat]
Rows == [epoch : Int, last : Nat, cooldown : Nat, blocked : Nat,
         limit : 1..TotalLimit, limitUntil : Nat]

Typed ==
  /\ real \in 0..MaxTime /\ offset \in 0..real
  /\ epoch \in 0..faults /\ backs \in 0..faults /\ faults \in 0..MaxFaults
  /\ scope \in Rows
  /\ scope # NoRow => scope.epoch \in 0..epoch /\ scope.last \in 0..real
  /\ issuers \in [Procs -> 0..real \cup {Unseen}]
  /\ charges \in Seq(ChargeRows) /\ Len(charges) <= MaxCharges
  /\ permit \in [Procs -> 0..MaxCharges]
  /\ sent \in SUBSET [id : 1..Len(charges), t : 0..real] /\ IsFiniteSet(sent)
  /\ notBefore \in Nat

\* A prepaid charge belongs to one process, of this boot, and is not spent.
PermitsInv ==
  \A p \in Procs : permit[p] # 0 =>
    /\ permit[p] \in 1..Len(charges)
    /\ charges[permit[p]].role = Role[p]
    /\ charges[permit[p]].epoch = epoch
    /\ charges[permit[p]].critical /\ ~charges[permit[p]].consumed
    /\ \A q \in Procs : permit[q] = permit[p] => q = p

\* A request has a spent charge of its own, stamped at most Skew before it went out.
SentInv ==
  /\ \A c \in 1..Len(charges) : charges[c].epoch <= epoch
  /\ \A s \in sent : /\ charges[s.id].consumed
                     /\ charges[s.id].epoch = epoch => s.t <= charges[s.id].at + offset + Skew
  /\ \A s, u \in sent : s.id = u.id => s = u

\* The row blocks until the provider's deadline, and until requests of an earlier
\* boot are a window old.
RowInv ==
  /\ scope = NoRow => charges = <<>> /\ notBefore = 0
  /\ scope.epoch = epoch /\ scope # NoRow =>
       /\ notBefore <= scope.blocked + offset
       /\ \A s \in sent : charges[s.id].epoch # epoch => s.t + Window <= scope.blocked + offset + Skew

\* While no clock stepped back, each share is kept by what a charge would count now.
CountsInv ==
  backs = 0 =>
    /\ \A r \in DOMAIN RoleLimit : Cardinality(Of(r, Counted(Mono, 0))) <= RoleLimit[r]
    /\ Cardinality(NonCritical(Counted(Mono, 0))) <= NonCriticalLimit

IInv == Typed /\ PermitsInv /\ SentInv /\ RowInv /\ RateKept /\ CountsInv

-----------------------------------------------------------------------------
(* The row a transaction works on.                                         *)

\* A sample is at most Skew old.
LEMMA SampledIs ==
  ASSUME IInv, NEW p \in Procs, NEW now \in Sampled(p)
  PROVE  now \in Nat /\ now <= Mono /\ now + Skew >= Mono /\ Mono \in 0..real /\ real \in Nat
         /\ now \in 0..real
<1>1. issuers[p] \in Int /\ real \in Nat /\ offset \in 0..real /\ issuers[p] >= -1
  BY DEF IInv, Typed, Unseen
<1>2. Mono \in 0..real
  BY <1>1 DEF Mono
<1> QED BY <1>1, <1>2, WindowAssumption DEF Sampled, Smaller, Larger

\* The row is of this boot and blocks for long enough.
LEMMA RowAtIs ==
  ASSUME IInv, NEW p \in Procs, NEW now \in Sampled(p)
  PROVE  /\ RowAt(p, now) \in Rows /\ RowAt(p, now).epoch = epoch
         /\ RowAt(p, now).last \in 0..real
         /\ Promise(p, now) \in Nat /\ Promise(p, now) <= RowAt(p, now).blocked + offset
         /\ \A s \in sent : charges[s.id].epoch # epoch
              => s.t + Window <= RowAt(p, now).blocked + offset + Skew
<1>1. /\ now \in Nat /\ now <= Mono /\ now + Skew >= Mono /\ real \in Nat /\ now <= real
      /\ Window \in Nat /\ Skew \in Nat
  BY SampledIs, WindowAssumption
<1>2. /\ offset \in 0..real /\ epoch \in Nat /\ scope \in Rows /\ notBefore \in Nat
      /\ scope # NoRow => scope.last \in 0..real
      /\ sent \in SUBSET [id : 1..Len(charges), t : 0..real]
      /\ TotalLimit \in 1..TotalLimit
  BY SharesAssumption DEF IInv, Typed
<1>3. CASE scope = NoRow
  <2> DEFINE until == IF epoch # 0 THEN now + Window ELSE now
  <2>1. RowAt(p, now) = [epoch |-> epoch, last |-> now, cooldown |-> until, blocked |-> until,
                         limit |-> TotalLimit, limitUntil |-> now]
    BY <1>3 DEF RowAt, FreshRow
  <2>2. Promise(p, now) = 0 /\ sent = {}
    BY <1>2, <1>3 DEF Promise, Regressed, IInv, RowInv
  <2>3. until \in Nat
    BY <1>1
  <2> HIDE DEF until
  <2> QED BY <1>1, <1>2, <2>1, <2>2, <2>3 DEF Rows
<1>4. CASE scope # NoRow /\ Regressed(p, now)
  <2>1. RowAt(p, now) = [epoch |-> epoch, last |-> now, cooldown |-> now + Window,
                         blocked |-> now + Window, limit |-> TotalLimit,
                         limitUntil |-> now + Window]
    BY <1>4 DEF RowAt, FreshRow
  <2>2. Promise(p, now) \in Nat /\ Promise(p, now) <= now + Window + offset
    BY <1>1, <1>2, <1>4 DEF Promise, Smaller
  <2>3. \A s \in sent : s.t <= real
    BY <1>1, <1>2
  <2>4. /\ RowAt(p, now) \in Rows /\ RowAt(p, now).epoch = epoch
        /\ RowAt(p, now).last \in 0..real /\ RowAt(p, now).blocked = now + Window
    BY <1>1, <1>2, <2>1 DEF Rows
  <2>5. now + offset + Skew >= real
    BY <1>1, <1>2 DEF Mono
  <2>6. \A s \in sent : s.t \in Nat
    BY <1>2
  <2>7. real \in Nat /\ now \in Nat /\ offset \in Nat /\ Window \in Nat /\ Skew \in Nat
    BY <1>1, <1>2
  <2>8. Promise(p, now) \in Nat /\ Promise(p, now) <= RowAt(p, now).blocked + offset
    <3> HIDE DEF Promise, RowAt
    <3> QED BY <2>2, <2>4, <2>7
  <2>9. ASSUME NEW s \in sent
        PROVE  s.t + Window <= RowAt(p, now).blocked + offset + Skew
    <3>1. s.t \in Nat /\ s.t <= real
      BY <2>3, <2>6, <2>9
    <3>2. s.t + Window <= (now + Window) + offset + Skew
      BY <2>5, <2>7, <3>1
    <3> QED BY <2>4, <3>2
  <2> QED BY <2>4, <2>8, <2>9
<1>5. CASE scope # NoRow /\ ~Regressed(p, now)
  <2>1. RowAt(p, now) = [scope EXCEPT !.last = Larger(now, @)] /\ Promise(p, now) = notBefore
    BY <1>5 DEF RowAt, Promise
  <2>2. Larger(now, scope.last) \in 0..real
    BY <1>1, <1>2, <1>5 DEF Larger
  <2>3. /\ RowAt(p, now) \in Rows /\ RowAt(p, now).epoch = scope.epoch
        /\ RowAt(p, now).last \in 0..real /\ RowAt(p, now).blocked = scope.blocked
    <3>1. Larger(now, scope.last) \in Nat
      BY <1>1, <2>2
    <3> HIDE DEF Larger
    <3>2. RowAt(p, now) = [epoch |-> scope.epoch, last |-> Larger(now, scope.last),
                           cooldown |-> scope.cooldown, blocked |-> scope.blocked,
                           limit |-> scope.limit, limitUntil |-> scope.limitUntil]
      BY <1>2, <2>1 DEF Rows
    <3> QED BY <1>2, <2>2, <3>1, <3>2 DEF Rows
  <2>4. scope.epoch = epoch
    BY <1>5 DEF Regressed
  <2> QED BY <1>2, <1>5, <2>1, <2>3, <2>4 DEF IInv, RowInv
<1> QED BY <1>3, <1>4, <1>5

\* A row of this boot is a row.
LEMMA RowIsRow == \A row \in Rows : epoch \in Nat /\ row.epoch = epoch => row # NoRow
BY DEF NoRow

\* What the transaction leaves of row and issuers keeps their part of the invariant.
LEMMA Touched ==
  ASSUME IInv, NEW p \in Procs, NEW now \in Sampled(p), NEW row \in Rows,
         row.epoch = epoch, row.last \in 0..real, row.blocked >= RowAt(p, now).blocked,
         Touch(p, now, row), UNCHANGED World, notBefore' \in Nat,
         notBefore' <= row.blocked + offset,
         \A s \in sent' : charges'[s.id].epoch # epoch =>
           s \in sent /\ charges[s.id].epoch # epoch
  PROVE  /\ RowInv'
         /\ scope' \in Rows /\ scope'.epoch = epoch /\ scope'.last \in 0..real
         /\ issuers' \in [Procs -> 0..real \cup {Unseen}]
<1>1. /\ epoch \in Nat /\ offset \in Nat /\ issuers \in [Procs -> 0..real \cup {Unseen}]
      /\ sent \in SUBSET [id : 1..Len(charges), t : 0..real] /\ now \in 0..real
      /\ Window \in Nat /\ Skew \in Nat /\ real \in Nat
  BY SampledIs, WindowAssumption DEF IInv, Typed
<1>2. row # NoRow /\ scope' = row /\ issuers' = [issuers EXCEPT ![p] = now]
  BY <1>1, RowIsRow DEF Touch
<1>3. RowAt(p, now).blocked \in Nat /\ row.blocked \in Nat
  BY RowAtIs DEF Rows
<1>4. ASSUME NEW s \in sent', charges'[s.id].epoch # epoch
      PROVE  s.t + Window <= row.blocked + offset + Skew
  <2>1. s.t \in Nat /\ s.t + Window <= RowAt(p, now).blocked + offset + Skew
    BY <1>1, <1>4, RowAtIs
  <2>2. /\ offset \in Nat /\ Window \in Nat /\ Skew \in Nat
        /\ RowAt(p, now).blocked \in Nat /\ row.blocked \in Nat
        /\ row.blocked >= RowAt(p, now).blocked
    BY <1>1, <1>3
  <2> QED BY <2>1, <2>2
<1>5. RowInv'
  BY <1>1, <1>2, <1>4 DEF RowInv, World
<1> QED BY <1>1, <1>2, <1>5

-----------------------------------------------------------------------------
(* Placing a charge: a new one at the end, or a prepaid one moved in time.  *)

Placed(k, c) ==
  /\ charges' \in Seq(ChargeRows)
  /\ Len(charges') = IF k = Len(charges) + 1 THEN k ELSE Len(charges)
  /\ charges'[k] = c
  /\ \A i \in 1..Len(charges) : i # k => charges'[i] = charges[i]

LEMMA AppendPlaces ==
  ASSUME Typed, NEW c \in ChargeRows, charges' = Append(charges, c)
  PROVE  Placed(Len(charges) + 1, c)
BY AppendProperties DEF Typed, Placed

LEMMA ExceptPlaces ==
  ASSUME Typed, NEW c \in ChargeRows, NEW k \in 1..Len(charges),
         charges' = [charges EXCEPT ![k] = c]
  PROVE  Placed(k, c)
BY ExceptSeq, LenProperties DEF Typed, Placed

\* The rows of the table are typed.
LEMMA RowsTyped ==
  ASSUME Typed
  PROVE  /\ Len(charges) \in Nat /\ DOMAIN charges = 1..Len(charges)
         /\ \A i \in 1..Len(charges) :
              /\ charges[i] \in ChargeRows /\ charges[i].at \in Nat /\ charges[i].epoch \in Nat
              /\ charges[i].role \in DOMAIN RoleLimit
<1>1. charges \in [1..Len(charges) -> ChargeRows] /\ Len(charges) \in Nat
  BY LenProperties DEF Typed
<1> QED BY <1>1 DEF ChargeRows

\* What is counted is finite.
LEMMA CountedFinite ==
  ASSUME Typed, NEW now, NEW skip
  PROVE  /\ IsFiniteSet(Counted(now, skip)) /\ DOMAIN charges = 1..Len(charges)
         /\ Counted(now, skip) \subseteq 1..Len(charges)
         /\ \A r : IsFiniteSet(Of(r, Counted(now, skip)))
                   /\ Cardinality(Of(r, Counted(now, skip))) \in Nat
                   /\ Cardinality(Of(r, Counted(now, skip))) <= Cardinality(Counted(now, skip))
         /\ IsFiniteSet(NonCritical(Counted(now, skip)))
         /\ Cardinality(NonCritical(Counted(now, skip))) \in Nat
         /\ Cardinality(Counted(now, skip)) \in Nat
<1>1. Len(charges) \in Nat /\ DOMAIN charges = 1..Len(charges)
  BY LenProperties DEF Typed
<1>2. IsFiniteSet(1..Len(charges))
  BY <1>1, FS_Interval
<1>3. Counted(now, skip) \subseteq 1..Len(charges)
  BY <1>1 DEF Counted
<1>4. IsFiniteSet(Counted(now, skip))
  BY <1>2, <1>3, FS_Subset
<1>5. \A r : Of(r, Counted(now, skip)) \subseteq Counted(now, skip)
  BY DEF Of
<1>6. NonCritical(Counted(now, skip)) \subseteq Counted(now, skip)
  BY DEF NonCritical, Of
<1> QED BY <1>1, <1>3, <1>4, <1>5, <1>6, FS_Subset, FS_CardinalityType

\* The same after a charge was placed.
LEMMA PlacedFinite ==
  ASSUME NEW k, NEW c, Placed(k, c), NEW now, NEW skip
  PROVE  /\ IsFiniteSet(Counted(now, skip)') /\ DOMAIN charges' = 1..Len(charges')
         /\ \A r : IsFiniteSet(Of(r, Counted(now, skip))')
         /\ IsFiniteSet(NonCritical(Counted(now, skip))')
<1>1. Len(charges') \in Nat /\ DOMAIN charges' = 1..Len(charges')
  BY LenProperties DEF Placed
<1>2. IsFiniteSet(1..Len(charges'))
  BY <1>1, FS_Interval
<1>3. Counted(now, skip)' \subseteq 1..Len(charges')
  BY <1>1 DEF Counted
<1>4. IsFiniteSet(Counted(now, skip)')
  BY <1>2, <1>3, FS_Subset
<1>5. \A r : Of(r, Counted(now, skip))' \subseteq Counted(now, skip)'
  BY DEF Of
<1>6. NonCritical(Counted(now, skip))' \subseteq Counted(now, skip)'
  BY DEF NonCritical, Of
<1> QED BY <1>1, <1>4, <1>5, <1>6, FS_Subset

\* A new charge is not counted yet.
LEMMA CountedNew ==
  ASSUME Typed, NEW now
  PROVE  Counted(now, 0) = Counted(now, Len(charges) + 1)
BY LenProperties DEF Typed, Counted

\* A set with at most one element more has at most one more.
LEMMA OneMore ==
  ASSUME NEW S, IsFiniteSet(S), NEW x, NEW T, T \subseteq S \cup {x}
  PROVE  Cardinality(T) \in Nat /\ Cardinality(S) \in Nat /\ Cardinality(T) <= Cardinality(S) + 1
<1>1. IsFiniteSet(S \cup {x}) /\ Cardinality(S \cup {x}) <= Cardinality(S) + 1
      /\ Cardinality(S) \in Nat
  BY FS_AddElement, FS_CardinalityType
<1>2. IsFiniteSet(T) /\ Cardinality(T) <= Cardinality(S \cup {x})
  BY <1>1, FS_Subset
<1> QED BY <1>1, <1>2, FS_CardinalityType

\* A charge that the window has room for keeps every share.
LEMMA PlacedCounts ==
  ASSUME IInv, NEW p \in Procs, NEW now \in Sampled(p), NEW k \in 1..(Len(charges) + 1),
         NEW c \in ChargeRows, c.role = Role[p], c.at = now, Placed(k, c), UNCHANGED World,
         NEW row, ~Full(p, row, now, k),
         c.critical \/ Cardinality(NonCritical(Counted(now, k))) < NonCriticalLimit
  PROVE  CountsInv'
<1> DEFINE Now == Counted(Mono, 0)
           Then == Counted(now, k)
<1>1. /\ Typed /\ now \in Nat /\ now <= Mono /\ Mono \in Int /\ Window \in Nat
      /\ Role[p] \in DOMAIN RoleLimit /\ \A r \in DOMAIN RoleLimit : RoleLimit[r] \in Nat
      /\ NonCriticalLimit \in Nat /\ Len(charges) \in Nat
  <2>1. now \in Nat /\ now <= Mono /\ Mono \in Int
    BY SampledIs
  <2>2. Typed
    BY DEF IInv
  <2>3. Len(charges) \in Nat
    BY <2>2, LenProperties DEF Typed
  <2> QED BY <2>1, <2>2, <2>3, WindowAssumption, SharesAssumption
<1>2. /\ DOMAIN charges = 1..Len(charges) /\ DOMAIN charges' = 1..Len(charges')
      /\ IsFiniteSet(Then) /\ IsFiniteSet(Now)
      /\ \A r : IsFiniteSet(Of(r, Then)) /\ IsFiniteSet(Of(r, Now))
      /\ IsFiniteSet(NonCritical(Then)) /\ IsFiniteSet(NonCritical(Now))
  BY <1>1, CountedFinite, PlacedFinite
<1>3. Mono' = Mono /\ epoch' = epoch /\ backs' = backs
  BY DEF World, Mono
<1>4. \A i \in 1..Len(charges') : i # k => i \in 1..Len(charges) /\ charges'[i] = charges[i]
  BY <1>1 DEF Placed
<1>5. ASSUME NEW i \in Now', i # k
      PROVE  i \in Now /\ i \in Then /\ charges'[i] = charges[i]
  <2>1. i \in 1..Len(charges') /\ charges'[i].epoch = epoch /\ charges'[i].at > Mono - Window
    BY <1>2, <1>3, <1>5 DEF Counted
  <2>2. i \in 1..Len(charges) /\ charges'[i] = charges[i] /\ charges[i].at \in Nat
    BY <1>1, <1>4, <1>5, <2>1, RowsTyped
  <2>3. charges[i].at > now - Window
    BY <1>1, <2>1, <2>2
  <2> QED BY <1>2, <1>5, <2>1, <2>2, <2>3 DEF Counted
<1>6. charges'[k] = c
  BY DEF Placed
<1> HIDE DEF Now, Then
<1>7. ASSUME backs = 0, NEW r \in DOMAIN RoleLimit
      PROVE  Cardinality(Of(r, Now)') <= RoleLimit[r]
  <2>1. CASE r = Role[p]
    <3>1. Of(r, Now)' \subseteq Of(r, Then) \cup {k}
      BY <1>5 DEF Of
    <3>2. Cardinality(Of(r, Then)) < RoleLimit[r]
      <4>1. ~(Cardinality(Of(r, Then)) >= RoleLimit[r])
        BY <2>1 DEF Full, Then
      <4> QED BY <1>1, <1>2, <4>1, FS_CardinalityType
    <3>3. /\ Cardinality(Of(r, Now)') <= Cardinality(Of(r, Then)) + 1
          /\ Cardinality(Of(r, Now)') \in Nat /\ Cardinality(Of(r, Then)) \in Nat
      BY <1>2, <3>1, OneMore
    <3> QED BY <1>1, <3>2, <3>3
  <2>2. CASE r # Role[p]
    <3>1. Of(r, Now)' \subseteq Of(r, Now)
      BY <1>5, <1>6, <2>2 DEF Of
    <3>2. Cardinality(Of(r, Now)) <= RoleLimit[r]
      BY <1>7 DEF IInv, CountsInv, Now
    <3>3. Cardinality(Of(r, Now)') <= Cardinality(Of(r, Now))
      BY <1>2, <3>1, FS_Subset
    <3>4. Cardinality(Of(r, Now)') \in Nat /\ Cardinality(Of(r, Now)) \in Nat
      BY <1>2, <3>1, FS_Subset, FS_CardinalityType
    <3> QED BY <1>1, <3>2, <3>3, <3>4
  <2> QED BY <2>1, <2>2
<1>8. ASSUME backs = 0
      PROVE  Cardinality(NonCritical(Now)') <= NonCriticalLimit
  <2>1. CASE c.critical
    <3>1. NonCritical(Now)' \subseteq NonCritical(Now)
      BY <1>5, <1>6, <2>1 DEF NonCritical, Of
    <3>2. Cardinality(NonCritical(Now)) <= NonCriticalLimit
      BY <1>8 DEF IInv, CountsInv, Now
    <3>3. Cardinality(NonCritical(Now)') <= Cardinality(NonCritical(Now))
      BY <1>2, <3>1, FS_Subset
    <3>4. Cardinality(NonCritical(Now)') \in Nat /\ Cardinality(NonCritical(Now)) \in Nat
      BY <1>2, <3>1, FS_Subset, FS_CardinalityType
    <3> QED BY <1>1, <3>2, <3>3, <3>4
  <2>2. ASSUME Cardinality(NonCritical(Then)) < NonCriticalLimit
        PROVE  Cardinality(NonCritical(Now)') <= NonCriticalLimit
    <3>1. NonCritical(Now)' \subseteq NonCritical(Then) \cup {k}
      BY <1>5 DEF NonCritical, Of
    <3>2. /\ Cardinality(NonCritical(Now)') <= Cardinality(NonCritical(Then)) + 1
          /\ Cardinality(NonCritical(Now)') \in Nat /\ Cardinality(NonCritical(Then)) \in Nat
      BY <1>2, <3>1, OneMore
    <3> QED BY <1>1, <2>2, <3>2
  <2> QED BY <2>1, <2>2 DEF Then
<1> QED BY <1>3, <1>7, <1>8 DEF CountsInv, Now

\* Without a new charge, later, the shares are still kept.
LEMMA CountsStay ==
  ASSUME IInv, UNCHANGED <<charges, epoch>>, Mono' >= Mono, Mono' \in Int, backs' = backs
  PROVE  CountsInv'
<1> DEFINE Now == Counted(Mono, 0)
<1>1. /\ Typed /\ Mono \in Int /\ Window \in Nat /\ Len(charges) \in Nat
      /\ DOMAIN charges = 1..Len(charges)
      /\ \A r \in DOMAIN RoleLimit : RoleLimit[r] \in Nat
      /\ NonCriticalLimit \in Nat
  BY WindowAssumption, SharesAssumption, LenProperties DEF IInv, Typed, Mono
<1>2. Now' \subseteq Now
  <2> SUFFICES ASSUME NEW i \in Now' PROVE i \in Now
    OBVIOUS
  <2>1. i \in 1..Len(charges) /\ charges[i].at > Mono' - Window
    BY <1>1 DEF Counted
  <2>2. charges[i].at \in Nat
    BY <1>1, <2>1, RowsTyped
  <2> QED BY <1>1, <2>1, <2>2 DEF Counted
<1> HIDE DEF Now
<1>3. ASSUME NEW S, NEW T, IsFiniteSet(S), T \subseteq S, NEW b \in Nat, Cardinality(S) <= b
      PROVE  Cardinality(T) <= b
  <2>1. IsFiniteSet(T) /\ Cardinality(T) <= Cardinality(S)
    BY <1>3, FS_Subset
  <2>2. Cardinality(T) \in Nat /\ Cardinality(S) \in Nat
    BY <1>3, <2>1, FS_CardinalityType
  <2> QED BY <1>3, <2>1, <2>2
<1>4. (\A r : IsFiniteSet(Of(r, Now))) /\ IsFiniteSet(NonCritical(Now))
  BY <1>1, CountedFinite DEF Now
<1>5. (\A r : Of(r, Now)' \subseteq Of(r, Now)) /\ NonCritical(Now)' \subseteq NonCritical(Now)
  BY <1>2 DEF NonCritical, Of
<1>6. ASSUME backs = 0, NEW r \in DOMAIN RoleLimit PROVE Cardinality(Of(r, Now)') <= RoleLimit[r]
  <2>1. Cardinality(Of(r, Now)) <= RoleLimit[r]
    BY <1>6 DEF IInv, CountsInv, Now
  <2> QED BY <1>1, <1>3, <1>4, <1>5, <2>1
<1>7. ASSUME backs = 0 PROVE Cardinality(NonCritical(Now)') <= NonCriticalLimit
  <2>1. Cardinality(NonCritical(Now)) <= NonCriticalLimit
    BY <1>7 DEF IInv, CountsInv, Now
  <2> QED BY <1>1, <1>3, <1>4, <1>5, <2>1
<1> QED BY <1>6, <1>7 DEF CountsInv, Now

-----------------------------------------------------------------------------
(* Requests in a window.                                                   *)

\* Requests are no more than their charges.
LEMMA ByIds ==
  ASSUME NEW S, \A s, u \in S : s.id = u.id => s = u,
         NEW C, IsFiniteSet(C), \A s \in S : s.id \in C
  PROVE  IsFiniteSet(S) /\ Cardinality(S) <= Cardinality(C)
<1> DEFINE f == [s \in S |-> s.id]
<1>1. f \in Injection(S, C)
  BY DEF Injection, IsInjective
<1> QED BY <1>1, FS_Injection

\* A subset of a set within a limit is within the limit.
LEMMA Within ==
  ASSUME NEW S, NEW T, IsFiniteSet(S), T \subseteq S, NEW b \in Nat, Cardinality(S) <= b
  PROVE  Cardinality(T) <= b
<1>1. IsFiniteSet(T) /\ Cardinality(T) <= Cardinality(S)
  BY FS_Subset
<1>2. Cardinality(T) \in Nat /\ Cardinality(S) \in Nat
  BY <1>1, FS_CardinalityType
<1> QED BY <1>1, <1>2

\* A charge stamped at most Skew before its request counts as long as the request does.
LEMMA StampCounts ==
  ASSUME NEW sentAt \in Nat, NEW at \in Nat, NEW from \in Nat, NEW moment \in Nat,
         NEW now \in Nat, NEW behind \in Nat, Window \in Nat, Skew \in Nat,
         from <= sentAt, moment < from + (Window - Skew), now <= moment - behind,
         sentAt <= at + behind + Skew
  PROVE  at > now - Window
OBVIOUS

\* No request sent, some forgotten: the limits are still kept.
LEMMA RateStays ==
  ASSUME IInv, sent' \subseteq sent, real' = real \/ real' = real + 1,
         \A s \in sent : charges'[s.id].role = charges[s.id].role
  PROVE  RateKept'
<1>1. /\ sent \in SUBSET [id : 1..Len(charges), t : 0..real] /\ IsFiniteSet(sent)
      /\ real \in Nat /\ TotalLimit \in Nat /\ Window \in Nat /\ Skew \in Nat
      /\ \A r \in DOMAIN RoleLimit : RoleLimit[r] \in Nat
  BY WindowAssumption, SharesAssumption DEF IInv, Typed
<1> SUFFICES ASSUME NEW t \in 0..real'
             PROVE  /\ Cardinality(Burst(t)') <= TotalLimit
                    /\ \A r \in DOMAIN RoleLimit :
                         Cardinality({s \in Burst(t)' : charges'[s.id].role = r}) <= RoleLimit[r]
  BY DEF RateKept, Burst
<1>2. CASE t \in 0..real
  <2>1. Burst(t)' \subseteq Burst(t)
    BY DEF Burst
  <2>2. IsFiniteSet(Burst(t))
    BY <1>1, FS_Subset DEF Burst
  <2>3. Cardinality(Burst(t)) <= TotalLimit
    BY <1>2 DEF IInv, RateKept
  <2>4. ASSUME NEW r \in DOMAIN RoleLimit
        PROVE  Cardinality({s \in Burst(t)' : charges'[s.id].role = r}) <= RoleLimit[r]
    <3>1. Cardinality({s \in Burst(t) : charges[s.id].role = r}) <= RoleLimit[r]
      BY <1>2 DEF IInv, RateKept
    <3>2. {s \in Burst(t)' : charges'[s.id].role = r} \subseteq {s \in Burst(t) : charges[s.id].role = r}
      BY <2>1 DEF Burst
    <3>3. IsFiniteSet({s \in Burst(t) : charges[s.id].role = r})
      BY <2>2, FS_Subset
    <3> QED BY <1>1, <3>1, <3>2, <3>3, Within
  <2> QED BY <1>1, <2>1, <2>2, <2>3, <2>4, Within
<1>3. CASE t = real + 1
  <2>1. Burst(t)' = {}
    BY <1>1, <1>3 DEF Burst
  <2>2. \A r \in DOMAIN RoleLimit : {s \in Burst(t)' : charges'[s.id].role = r} = {}
    BY <2>1
  <2> QED BY <1>1, <2>1, <2>2, FS_EmptySet
<1> QED BY <1>1, <1>2, <1>3

\* One more request, with a charge the window has room for.
LEMMA SentRate ==
  ASSUME IInv, NEW p \in Procs, NEW now \in Sampled(p), NEW k \in 1..(Len(charges) + 1),
         NEW c \in ChargeRows, c.role = Role[p], Placed(k, c), UNCHANGED World,
         NEW row \in Rows, ~Full(p, row, now, k), \A s \in sent : s.id # k,
         \A s \in sent : charges[s.id].epoch # epoch => s.t + Window <= now + offset + Skew,
         sent' = sent \cup {[id |-> k, t |-> real]}
  PROVE  RateKept'
<1> DEFINE x == [id |-> k, t |-> real]
           Then == Counted(now, k)
<1>1. /\ Typed /\ sent \in SUBSET [id : 1..Len(charges), t : 0..real] /\ IsFiniteSet(sent)
      /\ real \in Nat /\ TotalLimit \in Nat /\ Window \in Nat /\ Skew \in Nat
      /\ \A r \in DOMAIN RoleLimit : RoleLimit[r] \in Nat
      /\ Role[p] \in DOMAIN RoleLimit
      /\ now \in Nat /\ now <= real - offset /\ offset \in Nat
  <2>1. now \in Nat /\ now <= real - offset
    BY SampledIs DEF Mono
  <2>2. /\ Typed /\ sent \in SUBSET [id : 1..Len(charges), t : 0..real] /\ IsFiniteSet(sent)
        /\ real \in Nat /\ offset \in Nat
    BY BoundsAssumption DEF IInv, Typed
  <2> QED BY <2>1, <2>2, WindowAssumption, SharesAssumption
<1>2. /\ DOMAIN charges = 1..Len(charges)
      /\ IsFiniteSet(Then) /\ \A r : IsFiniteSet(Of(r, Then))
  BY <1>1, CountedFinite
<1>3. /\ real' = real
      /\ \A s \in sent : charges'[s.id] = charges[s.id]
      /\ charges'[k].role = Role[p]
  BY <1>1 DEF World, Placed
<1>4. Cardinality(Then) < TotalLimit /\ Cardinality(Of(Role[p], Then)) < RoleLimit[Role[p]]
  <2>1. Ceiling(row, now) \in Int /\ Ceiling(row, now) <= TotalLimit
    BY <1>1 DEF Ceiling, Smaller, Rows
  <2>2. Cardinality(Then) \in Nat /\ Cardinality(Of(Role[p], Then)) \in Nat
    BY <1>2, FS_CardinalityType
  <2>3. ~(Cardinality(Then) >= Ceiling(row, now))
        /\ ~(Cardinality(Of(Role[p], Then)) >= RoleLimit[Role[p]])
    BY DEF Full
  <2> HIDE DEF Then
  <2> QED BY <1>1, <2>1, <2>2, <2>3
<1> SUFFICES ASSUME NEW t \in 0..real
             PROVE  /\ Cardinality(Burst(t)') <= TotalLimit
                    /\ \A r \in DOMAIN RoleLimit :
                         Cardinality({s \in Burst(t)' : charges'[s.id].role = r}) <= RoleLimit[r]
  BY <1>3 DEF RateKept, Burst
<1> DEFINE B == Burst(t)
           BOf(r) == {s \in B : charges[s.id].role = r}
<1>5. /\ B \subseteq sent /\ IsFiniteSet(B) /\ Cardinality(B) <= TotalLimit
      /\ \A r \in DOMAIN RoleLimit : Cardinality(BOf(r)) <= RoleLimit[r]
      /\ \A r : IsFiniteSet(BOf(r))
  <2>1. B \subseteq sent
    BY DEF Burst
  <2>2. IsFiniteSet(B)
    BY <1>1, <2>1, FS_Subset
  <2>3. \A r : IsFiniteSet(BOf(r))
    BY <2>2, FS_Subset
  <2> QED BY <2>1, <2>2, <2>3 DEF IInv, RateKept
<1>6. Burst(t)' \subseteq B \cup {x}
  BY DEF Burst
<1>7. ASSUME NEW r, r # Role[p]
      PROVE  {s \in Burst(t)' : charges'[s.id].role = r} \subseteq BOf(r)
  BY <1>3, <1>5, <1>6, <1>7
<1>8. {s \in Burst(t)' : charges'[s.id].role = Role[p]} \subseteq BOf(Role[p]) \cup {x}
  BY <1>3, <1>5, <1>6
<1>9. CASE x \notin Burst(t)'
  <2>1. Burst(t)' \subseteq B
    BY <1>6, <1>9
  <2>2. \A r : {s \in Burst(t)' : charges'[s.id].role = r} \subseteq BOf(r)
    BY <1>3, <1>5, <2>1
  <2> HIDE DEF B, BOf
  <2> QED BY <1>1, <1>5, <2>1, <2>2, Within
<1>10. CASE x \in Burst(t)'
  <2>1. real >= t /\ real < t + (Window - Skew)
    BY <1>10 DEF Burst
  <2>2. ASSUME NEW s \in B PROVE s.id \in Then
    <3>1. s \in sent /\ s.t \in Nat /\ s.t >= t /\ s.id \in 1..Len(charges) /\ s.id # k
      BY <1>1, <2>2 DEF Burst
    <3>2. charges[s.id].epoch = epoch
      <4>1. ~(s.t + Window <= now + offset + Skew)
        BY <1>1, <2>1, <3>1
      <4> QED BY <3>1, <4>1
    <3>3. s.t <= charges[s.id].at + offset + Skew
      BY <3>1, <3>2 DEF IInv, SentInv
    <3>4. charges[s.id].at \in Nat
      BY <1>1, <3>1, RowsTyped
    <3>5. charges[s.id].at > now - Window
      <4>1. /\ s.t \in Nat /\ t \in Nat /\ real \in Nat /\ now \in Nat /\ offset \in Nat
            /\ Window \in Nat /\ Skew \in Nat /\ charges[s.id].at \in Nat
        BY <1>1, <3>1, <3>4
      <4>2. real < t + (Window - Skew) /\ s.t >= t /\ now <= real - offset
        BY <1>1, <2>1, <3>1
      <4> QED BY <3>3, <4>1, <4>2, StampCounts
    <3> QED BY <1>2, <3>1, <3>2, <3>5 DEF Counted
  <2>3. \A s, u \in B : s.id = u.id => s = u
    BY <1>5 DEF IInv, SentInv
  <2>4. Cardinality(B) <= Cardinality(Then)
    <3> HIDE DEF B, Then
    <3> QED BY <1>2, <2>2, <2>3, ByIds
  <2>5. Cardinality(BOf(Role[p])) <= Cardinality(Of(Role[p], Then))
    <3>1. \A s \in BOf(Role[p]) : s.id \in Of(Role[p], Then)
      BY <2>2 DEF Of
    <3>2. \A s, u \in BOf(Role[p]) : s.id = u.id => s = u
      BY <2>3
    <3> HIDE DEF BOf, Then
    <3> QED BY <1>2, <3>1, <3>2, ByIds
  <2>6. Cardinality(Burst(t)') <= TotalLimit
    <3>1. Cardinality(Burst(t)') \in Nat /\ Cardinality(B) \in Nat
          /\ Cardinality(Burst(t)') <= Cardinality(B) + 1
      BY <1>5, <1>6, OneMore
    <3>2. Cardinality(Then) \in Nat
      BY <1>2, FS_CardinalityType
    <3> HIDE DEF B, Then
    <3> QED BY <1>1, <1>4, <2>4, <3>1, <3>2
  <2>7. Cardinality({s \in Burst(t)' : charges'[s.id].role = Role[p]}) <= RoleLimit[Role[p]]
    <3>1. Cardinality({s \in Burst(t)' : charges'[s.id].role = Role[p]}) \in Nat
          /\ Cardinality(BOf(Role[p])) \in Nat
          /\ Cardinality({s \in Burst(t)' : charges'[s.id].role = Role[p]})
               <= Cardinality(BOf(Role[p])) + 1
      BY <1>5, <1>8, OneMore
    <3>2. Cardinality(Of(Role[p], Then)) \in Nat
      BY <1>2, FS_CardinalityType
    <3> HIDE DEF BOf, Then
    <3> QED BY <1>1, <1>4, <2>5, <3>1, <3>2
  <2>8. \A r \in DOMAIN RoleLimit : r # Role[p] =>
          Cardinality({s \in Burst(t)' : charges'[s.id].role = r}) <= RoleLimit[r]
    <3> HIDE DEF BOf
    <3> QED BY <1>1, <1>5, <1>7, Within
  <2> QED BY <2>6, <2>7, <2>8
<1> QED BY <1>9, <1>10

-----------------------------------------------------------------------------
(* Transactions.                                                           *)

\* A transaction that charges nothing: refusals and observations.
LEMMA Uncharged ==
  ASSUME IInv, NEW p \in Procs, NEW now \in Sampled(p), NEW row \in Rows,
         row.epoch = epoch, row.last \in 0..real, row.blocked >= RowAt(p, now).blocked,
         Touch(p, now, row), UNCHANGED <<World, charges, permit, sent>>, notBefore' \in Nat,
         notBefore' <= row.blocked + offset, faults' \in faults..MaxFaults
  PROVE  IInv'
<1>1. /\ RowInv'
      /\ scope' \in Rows /\ scope'.epoch = epoch /\ scope'.last \in 0..real
      /\ issuers' \in [Procs -> 0..real \cup {Unseen}]
  BY Touched DEF World
<1>2. Typed'
  BY <1>1 DEF IInv, Typed, World
<1>3. PermitsInv' /\ SentInv'
  BY DEF IInv, PermitsInv, SentInv, World
<1>4. RateKept'
  BY RateStays DEF World
<1>5. CountsInv'
  <2>1. Mono' = Mono /\ Mono \in Int
    BY DEF IInv, Typed, World, Mono
  <2> QED BY <2>1, CountsStay DEF World
<1> QED BY <1>1, <1>2, <1>3, <1>4, <1>5 DEF IInv

\* The charge a process places is its own: permits and requests hold other ones.
LEMMA OwnCharge ==
  ASSUME IInv, NEW p \in Procs, NEW k, k = Len(charges) + 1 \/ (k = permit[p] /\ k # 0)
  PROVE  /\ k \in 1..(Len(charges) + 1) /\ k # 0
         /\ \A s \in sent : s.id # k /\ s.id \in 1..Len(charges)
         /\ \A q \in Procs : q # p => permit[q] # k
         /\ \A q \in Procs : permit[q] # 0 => permit[q] \in 1..Len(charges)
         /\ k = permit[p] /\ k # 0 => k \in 1..Len(charges)
<1>1. Len(charges) \in Nat /\ \A s \in sent : s.id \in 1..Len(charges)
  BY RowsTyped DEF IInv, Typed
<1>2. \A q \in Procs : permit[q] # 0 => permit[q] \in 1..Len(charges)
  BY DEF IInv, PermitsInv
<1>3. CASE k = Len(charges) + 1
  BY <1>1, <1>2, <1>3
<1>4. CASE k = permit[p] /\ k # 0
  BY <1>1, <1>2, <1>4 DEF IInv, PermitsInv, SentInv
<1> QED BY <1>3, <1>4

\* A transaction that places a charge of the process, new or prepaid, with or without
\* sending the request.
LEMMA Charged ==
  ASSUME IInv, NEW p \in Procs, NEW now \in Sampled(p),
         Touch(p, now, RowAt(p, now)), UNCHANGED <<World, faults>>, notBefore' = Promise(p, now),
         NEW k, (k = Len(charges) + 1 /\ k <= MaxCharges) \/ (k = permit[p] /\ k # 0),
         NEW c \in ChargeRows, Placed(k, c), c.role = Role[p], c.epoch = epoch, c.at = now,
         ~Full(p, RowAt(p, now), now, k),
         c.critical \/ Cardinality(NonCritical(Counted(now, k))) < NonCriticalLimit,
         \/ /\ sent' = sent /\ ~c.consumed /\ c.critical
            /\ permit' = [permit EXCEPT ![p] = k]
         \/ /\ sent' = sent \cup {[id |-> k, t |-> real]} /\ c.consumed
            /\ now >= RowAt(p, now).blocked
            /\ IF k = permit[p] THEN permit' = [permit EXCEPT ![p] = 0] ELSE UNCHANGED permit
  PROVE  IInv'
<1> DEFINE row == RowAt(p, now)
<1>1. /\ Typed /\ now \in Nat /\ now <= real - offset /\ now + Skew >= real - offset
      /\ real \in Nat /\ offset \in Nat /\ epoch \in Nat /\ Window \in Nat /\ Skew \in Nat
      /\ MaxCharges \in Nat
  BY SampledIs, WindowAssumption, BoundsAssumption DEF IInv, Typed, Mono
<1>2. /\ row \in Rows /\ row.epoch = epoch /\ row.last \in 0..real /\ row.blocked \in Nat
      /\ Promise(p, now) \in Nat /\ Promise(p, now) <= row.blocked + offset
      /\ \A s \in sent : charges[s.id].epoch # epoch => s.t + Window <= row.blocked + offset + Skew
  BY RowAtIs DEF Rows
<1>3. /\ k \in 1..(Len(charges) + 1) /\ k # 0
      /\ \A s \in sent : s.id # k /\ s.id \in 1..Len(charges)
      /\ \A q \in Procs : q # p => permit[q] # k
      /\ \A q \in Procs : permit[q] # 0 => permit[q] \in 1..Len(charges)
      /\ k = permit[p] => k \in 1..Len(charges)
  BY OwnCharge
<1> HIDE DEF row
<1>4. /\ charges' \in Seq(ChargeRows) /\ Len(charges') <= MaxCharges
      /\ Len(charges') \in Nat /\ 1..Len(charges') = 1..Len(charges) \cup {k}
      /\ charges'[k] = c /\ Len(charges) \in Nat
      /\ \A i \in 1..Len(charges) : i # k => charges'[i] = charges[i]
  <2>1. Len(charges) \in Nat /\ Len(charges) <= MaxCharges
    BY <1>1, RowsTyped DEF Typed
  <2>2. /\ charges' \in Seq(ChargeRows) /\ charges'[k] = c
        /\ Len(charges') = IF k = Len(charges) + 1 THEN k ELSE Len(charges)
        /\ \A i \in 1..Len(charges) : i # k => charges'[i] = charges[i]
    BY DEF Placed
  <2>3. (k = Len(charges) + 1 /\ k <= MaxCharges) \/ k \in 1..Len(charges)
    BY <1>3
  <2>4. CASE k = Len(charges) + 1 /\ k <= MaxCharges
    <3>1. Len(charges') = k /\ 1..k = 1..Len(charges) \cup {k}
      BY <2>1, <2>2, <2>4
    <3> QED BY <2>1, <2>2, <2>4, <3>1
  <2>5. CASE k \in 1..Len(charges)
    <3>1. Len(charges') = Len(charges) /\ 1..Len(charges) = 1..Len(charges) \cup {k}
      BY <2>1, <2>2, <2>5
    <3> QED BY <2>1, <2>2, <3>1
  <2> QED BY <2>3, <2>4, <2>5
<1>5. /\ \A s \in sent : charges'[s.id] = charges[s.id]
      /\ \A s \in sent' : s \in sent \/ s = [id |-> k, t |-> real]
      /\ sent \subseteq sent'
  BY <1>3, <1>4
<1>6. RowInv' /\ scope' \in Rows /\ scope'.epoch = epoch /\ scope'.last \in 0..real
      /\ issuers' \in [Procs -> 0..real \cup {Unseen}]
  <2>1. \A s \in sent' : charges'[s.id].epoch # epoch => s \in sent /\ charges[s.id].epoch # epoch
    BY <1>4, <1>5
  <2> QED BY <1>2, <2>1, Touched DEF row, World
<1>7. Typed'
  <2>1. permit' \in [Procs -> 0..MaxCharges]
    <3>1. k \in 0..MaxCharges
      BY <1>1, <1>3, <1>4
    <3>2. permit \in [Procs -> 0..MaxCharges] /\ 0 \in 0..MaxCharges
      BY <1>1 DEF Typed
    <3> QED BY <3>1, <3>2
  <2>2. sent' \in SUBSET [id : 1..Len(charges'), t : 0..real] /\ IsFiniteSet(sent')
    <3>1. sent \in SUBSET [id : 1..Len(charges'), t : 0..real] /\ IsFiniteSet(sent)
      BY <1>1, <1>4 DEF Typed
    <3>2. IsFiniteSet(sent \cup {[id |-> k, t |-> real]})
      BY <3>1, FS_AddElement
    <3>3. [id |-> k, t |-> real] \in [id : 1..Len(charges'), t : 0..real]
      BY <1>1, <1>4
    <3> QED BY <3>1, <3>2, <3>3
  <2> QED BY <1>2, <1>4, <1>6, <2>1, <2>2 DEF IInv, Typed, World
<1>8. PermitsInv'
  <2> SUFFICES ASSUME NEW q \in Procs, permit'[q] # 0
               PROVE  /\ permit'[q] \in 1..Len(charges')
                      /\ charges'[permit'[q]].role = Role[q]
                      /\ charges'[permit'[q]].epoch = epoch
                      /\ charges'[permit'[q]].critical /\ ~charges'[permit'[q]].consumed
                      /\ \A u \in Procs : permit'[u] = permit'[q] => u = q
    BY DEF PermitsInv, World
  <2>1. permit \in [Procs -> 0..MaxCharges]
    BY <1>1 DEF Typed
  <2>2. \A u \in Procs : u # p => permit'[u] = permit[u]
    BY <2>1
  <2>3. CASE permit'[q] = k
    <3>1. q = p
      BY <1>3, <2>2, <2>3
    <3>2. ~c.consumed /\ c.critical
      BY <1>3, <2>1, <2>3, <3>1
    <3> QED BY <1>3, <1>4, <2>2, <2>3, <3>1, <3>2
  <2>4. CASE permit'[q] # k
    <3>1. permit'[q] = permit[q]
      BY <2>1, <2>2, <2>4
    <3>2. permit[q] \in 1..Len(charges) /\ charges'[permit[q]] = charges[permit[q]]
      BY <1>3, <1>4, <2>4, <3>1
    <3>3. \A u \in Procs : permit'[u] = permit[q] => permit[u] = permit[q]
      BY <2>1, <2>2, <2>4, <3>1
    <3> QED BY <1>4, <3>1, <3>2, <3>3 DEF IInv, PermitsInv
  <2> QED BY <2>3, <2>4
<1>9. SentInv'
  <2>1. \A i \in 1..Len(charges') : charges'[i].epoch <= epoch
    <3>1. c.epoch <= epoch
      BY <1>1
    <3>2. \A i \in 1..Len(charges) : charges[i].epoch <= epoch
      BY DEF IInv, SentInv
    <3> QED BY <1>4, <3>1, <3>2
  <2>2. \A s, u \in sent' : s.id = u.id => s = u
    BY <1>3, <1>5 DEF IInv, SentInv
  <2>3. ASSUME NEW s \in sent'
        PROVE  /\ charges'[s.id].consumed
               /\ charges'[s.id].epoch = epoch => s.t <= charges'[s.id].at + offset + Skew
    <3>1. CASE s \in sent
      BY <1>5, <3>1 DEF IInv, SentInv
    <3>2. CASE s = [id |-> k, t |-> real] /\ s \notin sent
      BY <1>1, <1>4, <2>3, <3>2
    <3> QED BY <1>5, <3>1, <3>2
  <2> QED BY <2>1, <2>2, <2>3 DEF SentInv, World
<1>10. RateKept'
  <2>1. CASE sent' = sent
    BY <1>5, <2>1, RateStays DEF World
  <2>2. CASE sent' = sent \cup {[id |-> k, t |-> real]} /\ now >= row.blocked
    <3>1. \A s \in sent : charges[s.id].epoch # epoch => s.t + Window <= now + offset + Skew
      <4> SUFFICES ASSUME NEW s \in sent, charges[s.id].epoch # epoch
                   PROVE  s.t + Window <= now + offset + Skew
        OBVIOUS
      <4>1. s.t \in Nat
        BY <1>1 DEF Typed
      <4>2. s.t + Window <= row.blocked + offset + Skew
        BY <1>2
      <4>3. now \in Nat /\ offset \in Nat /\ Skew \in Nat /\ Window \in Nat /\ row.blocked \in Nat
            /\ row.blocked <= now
        BY <1>1, <1>2, <2>2
      <4> QED BY <4>1, <4>2, <4>3
    <3>2. UNCHANGED World /\ ~Full(p, row, now, k) /\ \A s \in sent : s.id # k
      BY <1>3 DEF row
    <3> QED BY <1>2, <1>3, <2>2, <3>1, <3>2, SentRate
  <2> QED BY <2>1, <2>2 DEF row
<1>11. CountsInv'
  BY <1>3, PlacedCounts DEF World
<1> QED BY <1>6, <1>7, <1>8, <1>9, <1>10, <1>11 DEF IInv

\* A transaction that leaves the row as it found it.
LEMMA UnchargedRow ==
  ASSUME IInv, NEW p \in Procs, NEW now \in Sampled(p), Touch(p, now, RowAt(p, now)),
         UNCHANGED <<World, charges, permit, sent, faults>>, notBefore' = Promise(p, now)
  PROVE  IInv'
<1>1. RowAt(p, now).blocked \in Nat
  BY RowAtIs DEF Rows
<1>2. RowAt(p, now).blocked >= RowAt(p, now).blocked
  BY <1>1
<1>3. faults' \in faults..MaxFaults
  BY BoundsAssumption DEF IInv, Typed
<1> QED BY <1>2, <1>3, RowAtIs, Uncharged DEF World

\* Room for a new charge, when nothing is left out of the count.
LEMMA RoomForNew ==
  ASSUME IInv, NEW p \in Procs, NEW row, NEW now, ~Full(p, row, now, 0), Len(charges) < MaxCharges
  PROVE  /\ ~Full(p, row, now, Len(charges) + 1)
         /\ Len(charges) + 1 <= MaxCharges /\ Len(charges) + 1 # permit[p]
         /\ Len(charges) + 1 # 0
         /\ NonCritical(Counted(now, 0)) = NonCritical(Counted(now, Len(charges) + 1))
<1>1. Typed /\ Counted(now, 0) = Counted(now, Len(charges) + 1)
  BY CountedNew DEF IInv
<1>2. Len(charges) \in Nat /\ MaxCharges \in Nat /\ permit[p] \in 0..MaxCharges
  BY <1>1, RowsTyped, BoundsAssumption DEF Typed
<1>3. permit[p] # 0 => permit[p] \in 1..Len(charges)
  BY DEF IInv, PermitsInv
<1> QED BY <1>1, <1>2, <1>3 DEF Full

LEMMA AcquireKeeps ==
  ASSUME IInv, NEW p \in Procs, NEW now \in Sampled(p), NEW critical \in BOOLEAN,
         Acquire(p, now, critical)
  PROVE  IInv'
<1> DEFINE row == RowAt(p, now)
           c == [epoch |-> epoch, role |-> Role[p], consumed |-> TRUE,
                 critical |-> critical, at |-> now]
<1>1. /\ Touch(p, now, row) /\ UNCHANGED <<World, faults, permit>> /\ notBefore' = Promise(p, now)
  BY DEF Acquire
<1>2. CASE Refused(p, critical, row, now, 0) /\ UNCHANGED <<charges, sent>>
  BY <1>1, <1>2, UnchargedRow
<1>3. CASE /\ ~Refused(p, critical, row, now, 0) /\ Len(charges) < MaxCharges
           /\ charges' = Append(charges, c)
           /\ sent' = sent \cup {[id |-> Len(charges) + 1, t |-> real]}
  <2>1. ~Full(p, row, now, 0) /\ ~(now < row.blocked)
    BY <1>3 DEF Refused
  <2>2. row.blocked \in Nat /\ now \in Nat
    BY RowAtIs, SampledIs DEF Rows
  <2>3. c \in ChargeRows
    BY <2>2, SharesAssumption DEF ChargeRows, IInv, Typed
  <2>4. Placed(Len(charges) + 1, c)
    BY <1>3, <2>3, AppendPlaces DEF IInv
  <2>5. critical \/ Cardinality(NonCritical(Counted(now, 0))) < NonCriticalLimit
    <3>1. critical \/ Role[p] = "guardian"
      BY DEF Acquire
    <3>2. Cardinality(NonCritical(Counted(now, 0))) \in Nat /\ NonCriticalLimit \in Nat
      BY CountedFinite, SharesAssumption DEF IInv
    <3> QED BY <1>3, <3>1, <3>2 DEF Refused
  <2>6. c.role = Role[p] /\ c.epoch = epoch /\ c.at = now /\ c.consumed /\ c.critical = critical
    OBVIOUS
  <2>7. /\ ~Full(p, row, now, Len(charges) + 1)
        /\ Len(charges) + 1 <= MaxCharges /\ Len(charges) + 1 # permit[p]
        /\ critical \/ Cardinality(NonCritical(Counted(now, Len(charges) + 1))) < NonCriticalLimit
    BY <1>3, <2>1, <2>5, RoomForNew
  <2>8. now >= row.blocked
    BY <2>1, <2>2
  <2> HIDE DEF c
  <2> QED BY <1>1, <1>3, <2>3, <2>4, <2>6, <2>7, <2>8, Charged
<1> QED BY <1>2, <1>3 DEF Acquire

LEMMA ReserveKeeps ==
  ASSUME IInv, NEW p \in Procs, NEW now \in Sampled(p), ReserveSend(p, now)
  PROVE  IInv'
<1> DEFINE row == RowAt(p, now)
           k == permit[p]
           new == [epoch |-> epoch, role |-> Role[p], consumed |-> FALSE,
                   critical |-> TRUE, at |-> now]
           moved == [charges[k] EXCEPT !.at = now]
<1>1. /\ Touch(p, now, row) /\ UNCHANGED <<World, faults, sent>> /\ notBefore' = Promise(p, now)
  BY DEF ReserveSend
<1>2. now \in Nat /\ Typed /\ permit \in [Procs -> 0..MaxCharges]
  BY SampledIs DEF IInv, Typed
<1>3. CASE Refused(p, TRUE, row, now, k) /\ UNCHANGED <<charges, permit>>
  BY <1>1, <1>3, UnchargedRow
<1>4. CASE /\ ~Refused(p, TRUE, row, now, k) /\ k # 0
           /\ charges' = [charges EXCEPT ![k].at = now] /\ UNCHANGED permit
  <2>1. ~Full(p, row, now, k)
    BY <1>4 DEF Refused
  <2>2. k \in 1..Len(charges) /\ charges[k] \in ChargeRows
    BY <1>2, <1>4, RowsTyped DEF IInv, PermitsInv
  <2>3. moved \in ChargeRows /\ charges' = [charges EXCEPT ![k] = moved]
    BY <1>2, <1>4, <2>2 DEF ChargeRows
  <2>4. /\ moved.role = Role[p] /\ moved.epoch = epoch /\ moved.at = now
        /\ moved.critical /\ ~moved.consumed
    BY <1>4, <2>2 DEF IInv, PermitsInv, ChargeRows
  <2>5. permit' = [permit EXCEPT ![p] = k]
    BY <1>2, <1>4
  <2> HIDE DEF moved
  <2>6. Placed(k, moved)
    BY <1>2, <2>2, <2>3, ExceptPlaces
  <2> QED BY <1>1, <1>4, <2>1, <2>3, <2>4, <2>5, <2>6, Charged
<1>5. CASE /\ ~Refused(p, TRUE, row, now, k) /\ k = 0 /\ Len(charges) < MaxCharges
           /\ charges' = Append(charges, new)
           /\ permit' = [permit EXCEPT ![p] = Len(charges) + 1]
  <2>1. ~Full(p, row, now, 0)
    BY <1>5 DEF Refused
  <2>2. new \in ChargeRows
    BY <1>2, SharesAssumption DEF ChargeRows, Typed
  <2>3. Placed(Len(charges) + 1, new)
    BY <1>2, <1>5, <2>2, AppendPlaces
  <2>4. new.role = Role[p] /\ new.epoch = epoch /\ new.at = now /\ ~new.consumed /\ new.critical
    OBVIOUS
  <2>5. ~Full(p, row, now, Len(charges) + 1) /\ Len(charges) + 1 <= MaxCharges
    BY <1>5, <2>1, RoomForNew
  <2> HIDE DEF new
  <2> QED BY <1>1, <1>5, <2>2, <2>3, <2>4, <2>5, Charged
<1> QED BY <1>3, <1>4, <1>5 DEF ReserveSend

LEMMA ConsumeKeeps ==
  ASSUME IInv, NEW p \in Procs, NEW now \in Sampled(p), Consume(p, now)
  PROVE  IInv'
<1> DEFINE row == RowAt(p, now)
           k == permit[p]
           moved == [charges[k] EXCEPT !.at = now, !.consumed = TRUE]
<1>1. /\ Touch(p, now, row) /\ UNCHANGED <<World, faults>> /\ notBefore' = Promise(p, now) /\ k # 0
  BY DEF Consume
<1>2. now \in Nat /\ Typed
  BY SampledIs DEF IInv
<1>3. CASE RefusedAtSend(p, row, now, k) /\ UNCHANGED <<charges, permit, sent>>
  BY <1>1, <1>3, UnchargedRow
<1>4. CASE /\ ~RefusedAtSend(p, row, now, k)
           /\ charges' = [charges EXCEPT ![k].at = now, ![k].consumed = TRUE]
           /\ permit' = [permit EXCEPT ![p] = 0]
           /\ sent' = sent \cup {[id |-> k, t |-> real]}
  <2>1. ~Full(p, row, now, k) /\ ~(now < Larger(row.cooldown, row.blocked))
    BY <1>4 DEF RefusedAtSend
  <2>2. now >= row.blocked
    <3>1. row.cooldown \in Nat /\ row.blocked \in Nat
      BY RowAtIs DEF Rows
    <3> QED BY <1>2, <2>1, <3>1 DEF Larger
  <2>3. k \in 1..Len(charges) /\ charges[k] \in ChargeRows /\ DOMAIN charges = 1..Len(charges)
    BY <1>1, <1>2, RowsTyped DEF IInv, PermitsInv
  <2>4. moved \in ChargeRows /\ charges' = [charges EXCEPT ![k] = moved]
    BY <1>2, <1>4, <2>3 DEF ChargeRows
  <2>5. /\ moved.role = Role[p] /\ moved.epoch = epoch /\ moved.at = now
        /\ moved.critical /\ moved.consumed
    BY <1>1, <2>3 DEF IInv, PermitsInv, ChargeRows
  <2> HIDE DEF moved
  <2>6. Placed(k, moved)
    BY <1>2, <2>3, <2>4, ExceptPlaces
  <2> QED BY <1>1, <1>4, <2>1, <2>2, <2>4, <2>5, <2>6, Charged
<1> QED BY <1>3, <1>4 DEF Consume

LEMMA ObserveKeeps ==
  ASSUME IInv, NEW p \in Procs, NEW now \in Sampled(p), NEW raw \in ReportedLimits,
         NEW delay \in Delays \cup {0}, Observe(p, now, raw, delay)
  PROVE  IInv'
<1> DEFINE row0 == RowAt(p, now)
           row == ObservedLimit(row0, now, raw)
<1>1. /\ now \in Nat /\ raw \in Nat /\ delay \in Nat /\ offset \in Nat /\ Window \in Nat
      /\ TotalLimit \in Nat /\ row0 \in Rows /\ row0.epoch = epoch /\ row0.last \in 0..real
      /\ Promise(p, now) \in Nat /\ Promise(p, now) <= row0.blocked + offset
  <2>1. now \in Nat /\ raw \in Nat /\ delay \in Nat /\ Window \in Nat /\ TotalLimit \in Nat
    BY SampledIs, ProviderAssumption, WindowAssumption, SharesAssumption
  <2>2. offset \in Nat
    BY DEF IInv, Typed
  <2> QED BY <2>1, <2>2, RowAtIs
<1>2. faults' \in faults..MaxFaults
  BY BoundsAssumption DEF Observe, Fault, IInv, Typed
<1> HIDE DEF row0
<1>3. /\ row \in Rows /\ row.epoch = epoch /\ row.last \in 0..real
      /\ row.blocked = row0.blocked /\ row.blocked \in Nat
  <2>1. CASE raw > 0 /\ raw < TotalLimit
    <3> DEFINE lim == IF now < row0.limitUntil THEN Smaller(row0.limit, raw) ELSE raw
               until == Larger(row0.limitUntil, now + Window)
    <3>1. row0.limit \in 1..TotalLimit /\ row0.limitUntil \in Nat
      BY <1>1 DEF Rows
    <3>2. lim \in 1..TotalLimit /\ until \in Nat
      BY <1>1, <2>1, <3>1 DEF Smaller, Larger
    <3>3. row = [row0 EXCEPT !.limit = lim, !.limitUntil = until]
      BY <2>1 DEF ObservedLimit
    <3> HIDE DEF lim, until, row
    <3> QED BY <1>1, <3>2, <3>3 DEF Rows
  <2>2. CASE ~(raw > 0 /\ raw < TotalLimit)
    BY <1>1, <2>2 DEF ObservedLimit, Rows
  <2> QED BY <2>1, <2>2
<1>4. UNCHANGED <<World, charges, permit, sent>>
  BY DEF Observe
<1>5. CASE Touch(p, now, row) /\ notBefore' = Promise(p, now)
  BY <1>1, <1>2, <1>3, <1>4, <1>5, Uncharged DEF row0, World
<1>6. CASE /\ Touch(p, now, ObservedDeadline(row, now, delay))
           /\ notBefore' = Larger(Promise(p, now), now + offset + delay)
  <2> DEFINE late == ObservedDeadline(row, now, delay)
  <2> HIDE DEF row
  <2>1. /\ late \in Rows /\ late.epoch = epoch /\ late.last \in 0..real
        /\ late.blocked = Larger(row.blocked, now + delay)
    <3>1. Larger(row.blocked, now + delay) \in Nat
      BY <1>1, <1>3 DEF Larger
    <3>2. late = [row EXCEPT !.blocked = Larger(row.blocked, now + delay)]
      BY DEF ObservedDeadline
    <3> HIDE DEF late, Larger
    <3> QED BY <1>3, <3>1, <3>2 DEF Rows
  <2>2. /\ late.blocked >= row0.blocked /\ notBefore' \in Nat
        /\ notBefore' <= late.blocked + offset
    <3>1. Larger(Promise(p, now), now + offset + delay) \in Nat
      BY <1>1 DEF Larger
    <3> HIDE DEF late
    <3> QED BY <1>1, <1>3, <1>6, <2>1, <3>1 DEF Larger
  <2>3. Touch(p, now, late)
    BY <1>6
  <2> HIDE DEF late
  <2> QED BY <1>2, <1>4, <2>1, <2>2, <2>3, Uncharged DEF row0, World
<1> QED BY <1>5, <1>6 DEF Observe, row0

-----------------------------------------------------------------------------
(* The environment.                                                        *)

\* A restart forgets the permits and the last sample of a process.
LEMMA RestartKeeps ==
  ASSUME IInv, NEW p \in Procs, Restart(p)
  PROVE  IInv'
<1>1. /\ UNCHANGED <<World, scope, charges, sent, notBefore>> /\ faults' \in 0..MaxFaults
      /\ faults' >= faults /\ faults' \in Nat /\ faults \in Nat
      /\ permit' = [permit EXCEPT ![p] = 0] /\ issuers' = [issuers EXCEPT ![p] = Unseen]
  BY BoundsAssumption DEF Restart, Fault, IInv, Typed
<1>2. Typed'
  <2>1. permit' \in [Procs -> 0..MaxCharges] /\ issuers' \in [Procs -> 0..real \cup {Unseen}]
    BY <1>1, BoundsAssumption DEF IInv, Typed
  <2>2. epoch \in 0..faults' /\ backs \in 0..faults'
    BY <1>1 DEF IInv, Typed
  <2> QED BY <1>1, <2>1, <2>2 DEF IInv, Typed, World
<1>3. PermitsInv'
  BY <1>1 DEF IInv, Typed, PermitsInv, World
<1>4. SentInv' /\ RowInv'
  BY <1>1 DEF IInv, SentInv, RowInv, World
<1>5. RateKept' /\ CountsInv'
  <2>1. Mono' = Mono /\ Mono \in Int
    BY <1>1 DEF IInv, Typed, World, Mono
  <2> QED BY <1>1, <2>1, RateStays, CountsStay DEF World
<1> QED BY <1>2, <1>3, <1>4, <1>5 DEF IInv

\* After a boot no charge is counted, and the row is of an older boot.
LEMMA RebootKeeps ==
  ASSUME IInv, Reboot
  PROVE  IInv'
<1>1. /\ UNCHANGED <<real, backs, scope, charges, sent, notBefore>> /\ faults' = faults + 1
      /\ faults' \in 0..MaxFaults /\ faults \in Nat /\ epoch \in Nat
      /\ epoch' = epoch + 1 /\ offset' = real
      /\ permit' = [q \in Procs |-> 0] /\ issuers' = [q \in Procs |-> Unseen]
      /\ Typed /\ real \in Nat
  BY BoundsAssumption DEF Reboot, Fault, IInv, Typed
<1>2. Typed'
  <2>1. permit' \in [Procs -> 0..MaxCharges] /\ issuers' \in [Procs -> 0..real \cup {Unseen}]
    BY <1>1, BoundsAssumption
  <2>2. epoch' \in 0..faults' /\ backs \in 0..faults' /\ offset' \in 0..real
    BY <1>1 DEF Typed
  <2>3. scope # NoRow => scope.epoch \in 0..epoch'
    BY <1>1 DEF Typed
  <2> QED BY <1>1, <2>1, <2>2, <2>3 DEF Typed
<1>3. PermitsInv'
  BY <1>1 DEF PermitsInv
<1>4. \A c \in 1..Len(charges) : charges[c].epoch \in Nat /\ charges[c].epoch < epoch'
  <2>1. \A c \in 1..Len(charges) : charges[c].epoch \in Nat /\ charges[c].epoch <= epoch
    BY <1>1, RowsTyped DEF IInv, SentInv
  <2> QED BY <1>1, <2>1
<1>5. SentInv'
  <2>1. \A s \in sent : s.id \in 1..Len(charges)
    BY <1>1 DEF Typed
  <2>2. \A c \in 1..Len(charges) : charges[c].epoch <= epoch'
    BY <1>1, <1>4
  <2>3. \A s \in sent : charges[s.id].epoch # epoch'
    BY <1>1, <1>4, <2>1
  <2> QED BY <1>1, <2>2, <2>3 DEF IInv, SentInv
<1>6. RowInv'
  <2>1. scope # NoRow => scope.epoch # epoch'
    BY <1>1 DEF Typed
  <2> QED BY <1>1, <2>1 DEF IInv, RowInv
<1>7. RateKept'
  BY <1>1, RateStays
<1>8. CountsInv'
  <2>1. Counted(Mono, 0)' = {}
    BY <1>1, <1>4, RowsTyped DEF Counted
  <2>2. NonCritical(Counted(Mono, 0))' = {} /\ \A r : Of(r, Counted(Mono, 0))' = {}
    BY <2>1 DEF NonCritical, Of
  <2>3. Cardinality({}) = 0
    BY FS_EmptySet
  <2>4. NonCriticalLimit \in Nat /\ \A r \in DOMAIN RoleLimit : RoleLimit[r] \in Nat
    BY SharesAssumption
  <2>5. \A r \in DOMAIN RoleLimit : Cardinality(Of(r, Counted(Mono, 0))') <= RoleLimit[r]
    BY <2>2, <2>3, <2>4
  <2>6. Cardinality(NonCritical(Counted(Mono, 0))') <= NonCriticalLimit
    BY <2>2, <2>3, <2>4
  <2> QED BY <2>5, <2>6 DEF CountsInv
<1> QED BY <1>2, <1>3, <1>5, <1>6, <1>7, <1>8 DEF IInv

\* A clock that steps back only stretches what the row and the charges say.
LEMMA StepBackKeeps ==
  ASSUME IInv, StepBack
  PROVE  IInv'
<1>1. /\ UNCHANGED <<real, epoch, scope, issuers, charges, permit, sent, notBefore>>
      /\ faults' = faults + 1 /\ faults' \in 0..MaxFaults /\ faults \in Nat
      /\ backs' = backs + 1 /\ offset' = offset + Skew + 1 /\ real - offset > Skew
      /\ Typed /\ real \in Nat /\ offset \in Nat /\ epoch \in 0..faults /\ backs \in 0..faults
      /\ Skew \in Nat /\ Window \in Nat
  BY BoundsAssumption, WindowAssumption DEF StepBack, Fault, IInv, Typed, Mono
<1>2. Typed'
  <2>1. epoch \in 0..faults' /\ backs' \in 0..faults' /\ offset' \in 0..real
    BY <1>1
  <2> QED BY <1>1, <2>1 DEF Typed
<1>3. PermitsInv'
  BY <1>1 DEF IInv, PermitsInv
<1>4. SentInv'
  <2>1. ASSUME NEW s \in sent, charges[s.id].epoch = epoch
        PROVE  s.t <= charges[s.id].at + offset' + Skew
    <3>1. s.t \in Nat /\ charges[s.id].at \in Nat
      BY <1>1, RowsTyped DEF Typed
    <3>2. s.t <= charges[s.id].at + offset + Skew
      BY <2>1 DEF IInv, SentInv
    <3> QED BY <1>1, <3>1, <3>2
  <2> QED BY <1>1, <2>1 DEF IInv, SentInv
<1>5. RowInv'
  <2>1. ASSUME scope # NoRow, scope.epoch = epoch
        PROVE  /\ notBefore <= scope.blocked + offset'
               /\ \A s \in sent : charges[s.id].epoch # epoch =>
                    s.t + Window <= scope.blocked + offset' + Skew
    <3>1. scope.blocked \in Nat /\ notBefore \in Nat /\ \A s \in sent : s.t \in Nat
      BY <1>1 DEF Typed, Rows
    <3>2. /\ notBefore <= scope.blocked + offset
          /\ \A s \in sent : charges[s.id].epoch # epoch =>
               s.t + Window <= scope.blocked + offset + Skew
      BY <2>1 DEF IInv, RowInv
    <3> QED BY <1>1, <3>1, <3>2
  <2> QED BY <1>1, <2>1 DEF IInv, RowInv
<1>6. RateKept'
  BY <1>1, RateStays
<1>7. CountsInv'
  BY <1>1 DEF CountsInv
<1> QED BY <1>2, <1>3, <1>4, <1>5, <1>6, <1>7 DEF IInv

LEMMA TickKeeps ==
  ASSUME IInv, Tick
  PROVE  IInv'
<1>1. /\ UNCHANGED <<offset, epoch, backs, faults, scope, issuers, charges, permit, notBefore>>
      /\ real' = real + 1 /\ real' \in 0..MaxTime /\ real \in Nat /\ offset \in 0..real
      /\ sent' \subseteq sent /\ Typed
  BY BoundsAssumption DEF Tick, IInv, Typed
<1>2. Typed'
  <2>1. 0..real \subseteq 0..real' /\ offset \in 0..real'
    BY <1>1
  <2>2. issuers \in [Procs -> 0..real' \cup {Unseen}]
    <3>1. \A p \in Procs : issuers[p] \in 0..real' \cup {Unseen}
      BY <1>1, <2>1 DEF Typed
    <3> QED BY <3>1 DEF IInv, Typed
  <2>3. sent' \in SUBSET [id : 1..Len(charges), t : 0..real'] /\ IsFiniteSet(sent')
    <3>1. \A s \in sent : s \in [id : 1..Len(charges), t : 0..real']
      BY <1>1, <2>1 DEF Typed
    <3>2. IsFiniteSet(sent')
      BY <1>1, FS_Subset DEF Typed
    <3> QED BY <1>1, <3>1, <3>2
  <2>4. scope # NoRow => scope.last \in 0..real'
    BY <1>1, <2>1 DEF Typed
  <2> QED BY <1>1, <2>1, <2>2, <2>3, <2>4 DEF Typed
<1>3. PermitsInv'
  BY <1>1 DEF IInv, PermitsInv
<1>4. SentInv' /\ RowInv'
  BY <1>1 DEF IInv, SentInv, RowInv
<1>5. RateKept'
  BY <1>1, RateStays
<1>6. CountsInv'
  <2>1. Mono' >= Mono /\ Mono' \in Int
    BY <1>1 DEF Mono
  <2> QED BY <1>1, <2>1, CountsStay
<1> QED BY <1>2, <1>3, <1>4, <1>5, <1>6 DEF IInv

-----------------------------------------------------------------------------
(* The theorems.                                                           *)

LEMMA InitIInv == Init => IInv
<1> SUFFICES ASSUME Init PROVE IInv
  OBVIOUS
<1>1. /\ real = 0 /\ offset = 0 /\ epoch = 0 /\ backs = 0 /\ faults = 0 /\ scope = NoRow
      /\ issuers = [p \in Procs |-> Unseen] /\ charges = <<>>
      /\ permit = [p \in Procs |-> 0] /\ sent = {} /\ notBefore = 0
  BY DEF Init
<1>2. charges \in Seq(ChargeRows) /\ Len(charges) = 0 /\ IsFiniteSet(sent)
  BY <1>1, EmptySeq, FS_EmptySet
<1>3. NoRow \in Rows
  BY SharesAssumption DEF NoRow, Rows
<1>4. Typed
  BY <1>1, <1>2, <1>3, BoundsAssumption DEF Typed
<1>5. PermitsInv /\ SentInv /\ RowInv
  BY <1>1, <1>2 DEF PermitsInv, SentInv, RowInv
<1>6. RateKept
  <2>1. ASSUME NEW t PROVE Burst(t) = {} /\ \A r : {s \in Burst(t) : charges[s.id].role = r} = {}
    BY <1>1 DEF Burst
  <2>2. Cardinality({}) = 0 /\ TotalLimit \in Nat /\ \A r \in DOMAIN RoleLimit : RoleLimit[r] \in Nat
    BY FS_EmptySet, SharesAssumption
  <2>3. ASSUME NEW t
        PROVE  /\ Cardinality(Burst(t)) <= TotalLimit
               /\ \A r \in DOMAIN RoleLimit :
                    Cardinality({s \in Burst(t) : charges[s.id].role = r}) <= RoleLimit[r]
    BY <2>1, <2>2
  <2> QED BY <2>3 DEF RateKept
<1>7. CountsInv
  <2>1. Counted(Mono, 0) = {}
    BY <1>1 DEF Counted
  <2>2. NonCritical(Counted(Mono, 0)) = {} /\ \A r : Of(r, Counted(Mono, 0)) = {}
    BY <2>1 DEF NonCritical, Of
  <2> QED BY <2>2, FS_EmptySet, SharesAssumption DEF CountsInv
<1> QED BY <1>4, <1>5, <1>6, <1>7 DEF IInv

LEMMA StepIInv == IInv /\ [Next]_vars => IInv'
<1> SUFFICES ASSUME IInv, [Next]_vars PROVE IInv'
  OBVIOUS
<1>1. CASE UNCHANGED vars
  <2> USE <1>1 DEF vars
  <2>1. Typed' /\ PermitsInv'
    BY DEF IInv, Typed, PermitsInv
  <2>2. SentInv' /\ RowInv'
    BY DEF IInv, SentInv, RowInv
  <2>3. RateKept'
    BY RateStays
  <2>4. CountsInv'
    BY DEF IInv, CountsInv, Counted, Of, NonCritical, Mono
  <2> QED BY <2>1, <2>2, <2>3, <2>4 DEF IInv
<1>2. ASSUME NEW p \in Procs, NEW now \in Sampled(p),
             \/ \E k \in BOOLEAN : Acquire(p, now, k)
             \/ ReserveSend(p, now)
             \/ Consume(p, now)
             \/ \E raw \in ReportedLimits, d \in Delays \cup {0} : Observe(p, now, raw, d)
      PROVE  IInv'
  BY <1>2, AcquireKeeps, ReserveKeeps, ConsumeKeeps, ObserveKeeps
<1> QED BY <1>1, <1>2, RestartKeeps, RebootKeeps, StepBackKeeps, TickKeeps DEF Next

LEMMA InductiveInvariant == Spec => []IInv
BY InitIInv, StepIInv, PTL DEF Spec

\* Every variable keeps its type, for any number of processes, requests and faults.
THEOREM TypeCorrect == Spec => []TypeOK
<1>1. IInv => TypeOK
  <2> SUFFICES ASSUME IInv PROVE TypeOK
    OBVIOUS
  <2>1. /\ real \in 0..MaxTime /\ offset \in 0..real /\ MaxTime \in Nat /\ Window \in Nat
        /\ scope \in Rows
    BY BoundsAssumption, WindowAssumption DEF IInv, Typed
  <2>2. 0..real \subseteq Times /\ offset \in 0..MaxTime
    BY <2>1 DEF Times
  <2>3. issuers \in [Procs -> Times \cup {Unseen}]
    <3>1. \A p \in Procs : issuers[p] \in Times \cup {Unseen}
      BY <2>2 DEF IInv, Typed
    <3> QED BY <3>1 DEF IInv, Typed
  <2>4. scope # NoRow => /\ scope.epoch \in 0..epoch
                         /\ scope.last \in Times
                         /\ scope.limit \in 1..TotalLimit
    BY <2>1, <2>2 DEF IInv, Typed, Rows
  <2> QED BY <2>2, <2>3, <2>4 DEF TypeOK, IInv, Typed, PermitsInv, SentInv
<1> QED BY <1>1, InductiveInvariant, PTL

\* No rolling window sees more requests than the limits, in whatever order the processes'
\* transactions commit, over any number of restarts, boots and clocks that step back.
THEOREM TheRateIsKept == Spec => []RateKept
<1>1. IInv => RateKept
  BY DEF IInv
<1> QED BY <1>1, InductiveInvariant, PTL

\* No request goes out before the latest deadline a provider response has set.
THEOREM DeadlinesAreHonoured == Spec => DeadlineHonoured
<1>1. IInv /\ [Next]_vars => [\A s \in sent' \ sent : s.t >= notBefore]_vars
  <2> SUFFICES ASSUME IInv, [Next]_vars, NEW s \in sent' \ sent PROVE s.t >= notBefore
    OBVIOUS
  <2>1. PICK p \in Procs : \E now \in Sampled(p) :
          \/ \E k \in BOOLEAN : Acquire(p, now, k)
          \/ ReserveSend(p, now)
          \/ Consume(p, now)
          \/ \E raw \in ReportedLimits, d \in Delays \cup {0} : Observe(p, now, raw, d)
    <3>1. ~UNCHANGED sent
      OBVIOUS
    <3>2. ~UNCHANGED vars
      BY <3>1 DEF vars
    <3>3. (\A q \in Procs : ~Restart(q)) /\ ~Reboot /\ ~StepBack
      BY <3>1 DEF Restart, Reboot, StepBack
    <3>4. ~Tick
      BY DEF Tick
    <3> QED BY <3>2, <3>3, <3>4 DEF Next
  <2>2. PICK now \in Sampled(p) :
          \/ \E k \in BOOLEAN : Acquire(p, now, k)
          \/ ReserveSend(p, now)
          \/ Consume(p, now)
          \/ \E raw \in ReportedLimits, d \in Delays \cup {0} : Observe(p, now, raw, d)
    BY <2>1
  <2>3. /\ now \in Nat /\ now <= real - offset /\ real \in Nat /\ offset \in Nat
        /\ RowAt(p, now).blocked \in Nat /\ RowAt(p, now).cooldown \in Nat
        /\ Promise(p, now) \in Nat /\ Promise(p, now) <= RowAt(p, now).blocked + offset
        /\ Window \in Nat /\ Window > 0
    <3>1. now \in Nat /\ now <= real - offset
      BY SampledIs DEF Mono
    <3>2. real \in Nat /\ offset \in Nat /\ Window \in Nat /\ Window > 0
      BY BoundsAssumption, WindowAssumption DEF IInv, Typed
    <3>3. RowAt(p, now).blocked \in Nat /\ RowAt(p, now).cooldown \in Nat
      BY RowAtIs DEF Rows
    <3> QED BY <3>1, <3>2, <3>3, RowAtIs
  <2>4. s.t = real /\ ~(now < RowAt(p, now).blocked)
    <3>1. CASE \E k \in BOOLEAN : Acquire(p, now, k)
      BY <3>1 DEF Acquire, Refused
    <3>2. CASE Consume(p, now)
      BY <2>3, <3>2 DEF Consume, RefusedAtSend, Larger
    <3>3. CASE ReserveSend(p, now)
      BY <3>3 DEF ReserveSend
    <3>4. CASE \E raw \in ReportedLimits, d \in Delays \cup {0} : Observe(p, now, raw, d)
      BY <3>4 DEF Observe
    <3> QED BY <2>2, <3>1, <3>2, <3>3, <3>4
  <2>5. ~Regressed(p, now)
    <3>1. Regressed(p, now) => RowAt(p, now).blocked = now + Window
      BY DEF Regressed, RowAt, FreshRow
    <3> QED BY <2>3, <2>4, <3>1
  <2>6. Promise(p, now) = notBefore
    BY <2>5 DEF Promise
  <2> QED BY <2>3, <2>4, <2>6
<1> QED BY <1>1, InductiveInvariant, PTL DEF Spec, DeadlineHonoured

\* The shares of the roles add up to what is counted.
LEMMA CountedByRole ==
  ASSUME Typed, NEW now, NEW g,
         \A r \in DOMAIN RoleLimit : g[r] = Cardinality(Of(r, Counted(now, 0)))
  PROVE  Cardinality(Counted(now, 0)) <= SumFunctionOnSet(g, DOMAIN RoleLimit)
<1> DEFINE cs == Counted(now, 0)
           D == DOMAIN RoleLimit
           one == [i \in cs |-> 1]
           role == [i \in cs |-> charges[i].role]
<1>1. /\ IsFiniteSet(cs) /\ cs \subseteq 1..Len(charges) /\ IsFiniteSet(D)
      /\ \A r : IsFiniteSet(Of(r, cs)) /\ Cardinality(Of(r, cs)) \in Nat
      /\ Cardinality(cs) \in Nat
  BY CountedFinite, SharesAssumption
<1>2. \A i \in cs : role[i] \in D /\ one[i] = 1
  BY <1>1, RowsTyped
<1>3. ASSUME NEW r \in D
      PROVE  {i \in cs : role[i] = r} = Of(r, cs)
             /\ SumFunctionOnSet(one, {i \in cs : role[i] = r}) = Cardinality(Of(r, cs))
  <2>1. {i \in cs : role[i] = r} = Of(r, cs) /\ \A i \in Of(r, cs) : one[i] = 1
    BY DEF Of
  <2> HIDE DEF cs, one
  <2>2. SumFunctionOnSet(one, Of(r, cs)) = Cardinality(Of(r, cs)) * 1
    BY <1>1, <2>1, SumConstant
  <2>3. Cardinality(Of(r, cs)) * 1 = Cardinality(Of(r, cs))
    BY <1>1
  <2> QED BY <2>1, <2>2, <2>3
<1>4. SumFunctionOnSet(one, cs) = Cardinality(cs)
  <2> HIDE DEF cs, one
  <2>1. SumFunctionOnSet(one, cs) = Cardinality(cs) * 1
    BY <1>1, <1>2, SumConstant
  <2> QED BY <1>1, <2>1
<1>5. \A r \in D : g[r] \in Nat /\ SumFunctionOnSet(one, {i \in cs : role[i] = r}) <= g[r]
  BY <1>1, <1>3
<1>6. SumFunctionOnSet(one, cs) <= SumFunctionOnSet(g, D)
  <2>1. (\A x \in cs : one[x] \in Nat) /\ \A x \in cs : role[x] \notin D => one[x] = 0
    BY <1>2
  <2> HIDE DEF cs, one, role, D
  <2> QED BY <1>1, <1>5, <2>1, SumByParts
<1> QED BY <1>4, <1>6

\* Protection finds a charge until it has used its own reserve, whatever the trader, the other
\* roles and the guardian's recovery reads have spent: the shares fit the total.
THEOREM ProtectionIsReserved == Spec => []ProtectionReserve
<1>1. IInv => ProtectionReserve
  <2> DEFINE g == "guardian"
             cs == Counted(Mono, 0)
             mine == Of(g, cs)
             D == DOMAIN RoleLimit
  <2> SUFFICES ASSUME IInv, NEW p \in Procs, Role[p] = g, backs = 0,
                      ~(Ceiling(RowAt(p, Mono), Mono) < TotalLimit), Full(p, RowAt(p, Mono), Mono, 0)
               PROVE  Cardinality(mine \ NonCritical(mine)) >= RoleLimit[g] - NonCriticalLimit
    BY DEF ProtectionReserve
  <2>1. /\ Typed /\ g \in D /\ IsFiniteSet(D) /\ TotalLimit \in Nat /\ NonCriticalLimit \in Nat
        /\ \A r \in D : RoleLimit[r] \in Nat
        /\ SumFunctionOnSet(RoleLimit, D) <= TotalLimit
    BY SharesAssumption DEF IInv
  <2>2. /\ IsFiniteSet(cs) /\ \A r : IsFiniteSet(Of(r, cs)) /\ Cardinality(Of(r, cs)) \in Nat
        /\ Cardinality(cs) \in Nat
    BY <2>1, CountedFinite
  <2>3. (\A r \in D : Cardinality(Of(r, cs)) <= RoleLimit[r])
        /\ Cardinality(NonCritical(cs)) <= NonCriticalLimit
    BY DEF IInv, CountsInv
  <2>4. Cardinality(mine) >= RoleLimit[g]
    <3>1. CASE Cardinality(cs) >= Ceiling(RowAt(p, Mono), Mono)
      <4> DEFINE n == [r \in D |-> Cardinality(Of(r, cs))]
      <4>1. Cardinality(cs) <= SumFunctionOnSet(n, D)
        BY <2>1, CountedByRole
      <4>2. /\ SumFunctionOnSet(n, D) = n[g] + SumFunctionOnSet(n, D \ {g})
            /\ SumFunctionOnSet(RoleLimit, D) = RoleLimit[g] + SumFunctionOnSet(RoleLimit, D \ {g})
        <5>1. \A r \in D : n[r] \in Nat
          BY <2>2
        <5> HIDE DEF n, D
        <5> QED BY <2>1, <5>1, SumOut
      <4>3. /\ SumFunctionOnSet(n, D \ {g}) <= SumFunctionOnSet(RoleLimit, D \ {g})
            /\ SumFunctionOnSet(n, D \ {g}) \in Nat /\ SumFunctionOnSet(RoleLimit, D \ {g}) \in Nat
        <5>1. IsFiniteSet(D \ {g})
          BY <2>1, FS_RemoveElement
        <5>2. \A r \in D \ {g} : n[r] \in Nat /\ n[r] <= RoleLimit[r]
          BY <2>2, <2>3
        <5> HIDE DEF n, D
        <5> QED BY <2>1, <5>1, <5>2, SumLess, SumNat
      <4>4. Ceiling(RowAt(p, Mono), Mono) >= TotalLimit /\ Ceiling(RowAt(p, Mono), Mono) \in Int
        <5>1. Mono \in Sampled(p) /\ Mono \in Int
          BY WindowAssumption DEF IInv, Typed, Sampled, Smaller, Larger, Mono, Unseen
        <5>2. RowAt(p, Mono).limit \in Nat
          BY <5>1, RowAtIs DEF Rows
        <5>3. Ceiling(RowAt(p, Mono), Mono) \in Int
          BY <2>1, <5>2 DEF Ceiling, Smaller
        <5> QED BY <2>1, <5>3
      <4>5. n[g] = Cardinality(mine)
        BY <2>1
      <4>6. Cardinality(cs) \in Nat /\ Cardinality(mine) \in Nat /\ RoleLimit[g] \in Nat
        BY <2>1, <2>2
      <4>7. TotalLimit \in Nat /\ SumFunctionOnSet(RoleLimit, D) <= TotalLimit
        BY <2>1
      <4> HIDE DEF n, D, mine, cs
      <4> QED BY <3>1, <4>1, <4>2, <4>3, <4>4, <4>5, <4>6, <4>7
    <3>2. CASE Cardinality(Of(Role[p], cs)) >= RoleLimit[Role[p]]
      BY <3>2
    <3> QED BY <3>1, <3>2 DEF Full
  <2>5. NonCritical(mine) = NonCritical(cs) /\ NonCritical(cs) \subseteq mine
    BY DEF NonCritical, Of
  <2>6. Cardinality(mine) = Cardinality(NonCritical(cs)) + Cardinality(mine \ NonCritical(cs))
        /\ Cardinality(NonCritical(cs)) \in Nat /\ Cardinality(mine \ NonCritical(cs)) \in Nat
    <3>1. IsFiniteSet(NonCritical(cs)) /\ IsFiniteSet(mine \ NonCritical(cs))
      BY <2>2, <2>5, FS_Subset
    <3>2. /\ mine = NonCritical(cs) \cup (mine \ NonCritical(cs))
          /\ NonCritical(cs) \cap (mine \ NonCritical(cs)) = {}
      BY <2>5
    <3> HIDE DEF mine, cs
    <3>3. /\ Cardinality(NonCritical(cs)) \in Nat /\ Cardinality(mine \ NonCritical(cs)) \in Nat
          /\ Cardinality({}) = 0
      BY <3>1, FS_CardinalityType, FS_EmptySet
    <3>4. Cardinality(NonCritical(cs) \cup (mine \ NonCritical(cs)))
            = Cardinality(NonCritical(cs)) + Cardinality(mine \ NonCritical(cs)) - Cardinality({})
      BY <3>1, <3>2, FS_Union
    <3>5. Cardinality(mine) = Cardinality(NonCritical(cs) \cup (mine \ NonCritical(cs)))
      BY <3>2
    <3> QED BY <3>3, <3>4, <3>5
  <2> HIDE DEF cs, mine, D
  <2> QED BY <2>1, <2>3, <2>4, <2>5, <2>6 DEF D
<1> QED BY <1>1, InductiveInvariant, PTL
=============================================================================
