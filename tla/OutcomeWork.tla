----------------------------- MODULE OutcomeWork -----------------------------
(***************************************************************************)
(* The work queue of realized outcomes: which lots an outcome cycle still   *)
(* has to process (paper_core/work.py), how it publishes a lot's round trip *)
(* from the evidence up to its cutoff, and when it may acknowledge the lot  *)
(* (paper_core/outcomes.py, process_outcomes).                              *)
(*                                                                         *)
(* The guardian and the outcomes role both run such cycles, in processes of *)
(* their own, while evidence with its own time of recording is committed.   *)
(* Of the evidence, two kinds are told apart: what closes a lot (its ended  *)
(* orders, their fills and a reconciliation proof) and the revisions of its *)
(* costs.                                                                   *)
(***************************************************************************)
EXTENDS Integers, Sequences, FiniteSets, FiniteSetsExt, Functions

CONSTANTS
  Lots,         \* lots with an owned entry
  Legacy,       \* those of them that an older release claimed, without a watermark
  Roles,        \* processes that may run process_outcomes
  Deployments,  \* sets of them that run together: the guardian with the outcomes role, or one
  Batch,        \* lots taken by one cycle (16 in the code)
  Revised,      \* bound: the lots whose costs are revised
  MaxCosts,     \* bound: cost revisions per lot
  MaxTime       \* bound: the clock stops here, and evidence is recorded before

ASSUME LotsAssumption == IsFiniteSet(Lots) /\ Legacy \subseteq Lots /\ Revised \subseteq Lots
ASSUME DeploymentsAssumption == IsFiniteSet(Roles) /\ Deployments \subseteq SUBSET Roles
ASSUME NumbersAssumption ==
  Batch \in Nat \ {0} /\ MaxCosts \in Nat \ {0} /\ MaxTime \in Nat \ {0}

VARIABLES
  up,           \* the roles of this deployment
  clock,        \* host time
  closed,       \* per lot, when its closing evidence was recorded; 0: not yet
  costs,        \* per lot, when each revision of its costs was recorded
  version,      \* core_outcome_work.version
  processed,    \* core_outcome_work.processed_version
  mark,         \* the lot's notification watermark
  attempted,    \* core_outcome_work.attempted_at: its rank among these and the cutoffs, or 0
  trip,         \* the current outcome: the cost revisions it is based on
  cycle,        \* per role, its outcome cycle
  begun         \* per role, the rank of its cycle's cutoff

evidence == <<closed, costs>>
work == <<version, processed, mark>>
order == <<attempted, begun>>
vars == <<up, clock, evidence, work, order, trip, cycle>>

Times == 0..MaxTime

\* "known" marks name the current version, "unknown" ones do not.  A time of 0
\* is the empty string.
Marks == [kind : {"none", "unknown", "known"}, at : 0..(MaxTime + 1)]
NoMark == [kind |-> "none", at |-> 0]

Trips == [published : BOOLEAN, seen : SUBSET (1..MaxCosts)]
NoTrip == [published |-> FALSE, seen |-> {}]

Cycles == [pc : {"idle", "list", "work"}, cutoff : Times, todo : Seq(Lots)]
IdleCycle == [pc |-> "idle", cutoff |-> 0, todo |-> <<>>]

TypeOK ==
  /\ up \in Deployments
  /\ clock \in Times
  /\ closed \in [Lots -> Times]
  /\ costs \in [Lots -> Seq(Times)] /\ \A l \in Lots : Len(costs[l]) <= MaxCosts
  /\ version \in [Lots -> Nat] /\ processed \in [Lots -> Nat]
  /\ \A l \in Lots : processed[l] <= version[l]
  /\ mark \in [Lots -> Marks]
  /\ attempted \in [Lots -> Nat] /\ begun \in [Roles -> Nat]
  /\ trip \in [Lots -> Trips]
  /\ cycle \in [Roles -> Cycles]

\* A claimed lot was notified by its claim.  A lot of an older release has a
\* work row but no watermark, and perhaps an acknowledgement that missed a cost.
Init ==
  /\ up \in Deployments
  /\ clock = 1
  /\ \E lost \in SUBSET Legacy :
       /\ closed = [l \in Lots |-> IF l \in lost THEN 1 ELSE 0]
       /\ costs = [l \in Lots |-> IF l \in lost THEN <<1>> ELSE <<>>]
       /\ processed = [l \in Lots |-> IF l \in lost THEN 1 ELSE 0]
       /\ trip = [l \in Lots |-> [NoTrip EXCEPT !.published = l \in lost]]
  /\ version = [l \in Lots |-> 1]
  /\ mark = [l \in Lots |-> IF l \in Legacy THEN NoMark ELSE [kind |-> "known", at |-> 1]]
  /\ attempted = [l \in Lots |-> 0] /\ begun = [r \in Roles |-> 0]
  /\ cycle = [r \in Roles |-> IdleCycle]

-----------------------------------------------------------------------------
(* Notification.                                                           *)

Larger(a, b) == IF a >= b THEN a ELSE b

\* Variant: the watermark is that of the last notification.
NotifiedLast(l, at) ==
  [kind |-> IF mark[l].kind = "known" THEN "known" ELSE "unknown", at |-> at]

\* The watermark after evidence recorded at the given time: the latest time,
\* known if the watermark before it was.
Notified(l, at) ==
  [kind |-> IF mark[l].kind = "known" THEN "known" ELSE "unknown",
   at   |-> Larger(mark[l].at, at)]

\* Variant: the work row is replaced, and its versions start again.
DirtyAnew(l, at) ==
  /\ version' = [version EXCEPT ![l] = 1]
  /\ mark' = [mark EXCEPT ![l] = Notified(l, at)]

\* dirty: in the transaction that records the evidence.
Dirty(l, at) ==
  /\ version' = [version EXCEPT ![l] = @ + 1]
  /\ mark' = [mark EXCEPT ![l] = Notified(l, at)]

\* Evidence is recorded at the time it was captured, and committed later.
Captured == 1..(IF clock < MaxTime THEN clock ELSE MaxTime - 1)

Close(l) ==
  /\ closed[l] = 0
  /\ \E at \in Captured : closed' = [closed EXCEPT ![l] = at] /\ Dirty(l, at)
  /\ UNCHANGED <<up, clock, costs, processed, order, trip, cycle>>

\* record_cost: a revision is not recorded before the one it supersedes.
ReviseCost(l) ==
  /\ l \in Revised /\ Len(costs[l]) < MaxCosts
  /\ \E at \in Captured :
       /\ costs[l] # <<>> => at >= costs[l][Len(costs[l])]
       /\ costs' = [costs EXCEPT ![l] = Append(@, at)]
       /\ Dirty(l, at)
  /\ UNCHANGED <<up, clock, closed, processed, order, trip, cycle>>

-----------------------------------------------------------------------------
(* process_outcomes.                                                       *)

Pending(l) == version[l] > processed[l] \/ mark[l].kind = "none"

\* Cutoffs are finer than the model's times: they and the attempts, which are stamped
\* with cutoffs, keep their order only.
Ordered(a, b) ==
  LET used == Range(a) \cup Range(b)
      Rank(v) == Cardinality({u \in used : u < v})
  IN  /\ attempted' = [l \in Lots |-> Rank(a[l])]
      /\ begun' = [r \in Roles |-> Rank(b[r])]

Latest == Max(Range(attempted) \cup Range(begun))

\* The cutoff is sampled before the lots are listed.
Begin(r) ==
  /\ r \in up
  /\ cycle[r].pc = "idle"
  /\ cycle' = [cycle EXCEPT ![r] = [pc |-> "list", cutoff |-> clock, todo |-> <<>>]]
  /\ Ordered(attempted, [begun EXCEPT ![r] = Latest + 1])
  /\ UNCHANGED <<up, clock, evidence, work, trip>>

Distinct(todo) == \A i, j \in DOMAIN todo : i # j => todo[i] # todo[j]

\* Variant: any of the waiting lots, attempted or not.
FirstAny(todo, waiting) == Distinct(todo)

\* Some of the waiting lots, those attempted longest ago; at the same cutoff in any order.
First(todo, waiting) ==
  /\ Distinct(todo)
  /\ \A i, j \in DOMAIN todo : i < j => attempted[todo[i]] <= attempted[todo[j]]
  /\ \A i \in DOMAIN todo : \A l \in waiting \ Range(todo) : attempted[todo[i]] <= attempted[l]

\* The pending lots, up to Batch, in a transaction of its own.  Lots without a fill are
\* listed after those with one and cannot close: the model leaves them out.
List(r) ==
  LET waiting == {l \in Lots : Pending(l)}
      n == IF Cardinality(waiting) < Batch THEN Cardinality(waiting) ELSE Batch
  IN
  /\ cycle[r].pc = "list"
  /\ \/ /\ waiting = {}
        /\ cycle' = [cycle EXCEPT ![r] = IdleCycle]
        /\ Ordered(attempted, [begun EXCEPT ![r] = 0])
     \/ /\ waiting # {}
        /\ \E todo \in [1..n -> waiting] :
             /\ First(todo, waiting)
             /\ cycle' = [cycle EXCEPT ![r].pc = "work", ![r].todo = todo]
        /\ UNCHANGED order
  /\ UNCHANGED <<up, clock, evidence, work, trip>>

\* The cold path of covered_version: after all of the lot's evidence.
ColdAt(l) ==
  Max({mark[l].at, 1} \cup {at + 1 : at \in ({closed[l]} \ {0}) \cup Range(costs[l])})

\* The watermark that covered_version decides by, and leaves behind.
Watermark(l) ==
  IF mark[l].kind = "known" THEN mark[l] ELSE [kind |-> "known", at |-> ColdAt(l)]

\* covered_version: "A historical poll cannot acknowledge later evidence".
Covered(l, cutoff) == Watermark(l).at <= cutoff

\* The cost revisions that _resolve sees.
Seen(l, cutoff) == {k \in 1..Len(costs[l]) : costs[l][k] <= cutoff}

\* The version that the attempt knows: a missing watermark is repaired by dirty.
Repaired(l) == IF mark[l].kind = "none" THEN version[l] + 1 ELSE version[l]

\* Variant: the version is counted up although nothing was repaired.
AcknowledgedNext(l, cutoff) == IF Covered(l, cutoff) THEN version[l] + 1 ELSE processed[l]

\* What processed_version becomes when the outcome is resolved.
Acknowledged(l, cutoff) == IF Covered(l, cutoff) THEN Repaired(l) ELSE processed[l]

\* One lot in one writer transaction: a missing watermark is replaced by
\* one of unknown coverage, attempted_at is set to the cutoff, the outcome is resolved
\* as of the cutoff, and the lot is acknowledged if nothing later is known.
Process(r) ==
  LET l == Head(cycle[r].todo)
      rest == Tail(cycle[r].todo)
      cutoff == cycle[r].cutoff
      resolved == closed[l] \in 1..cutoff
  IN
  /\ cycle[r].pc = "work"
  /\ version' = [version EXCEPT ![l] = Repaired(l)]
  /\ mark' = [mark EXCEPT ![l] = Watermark(l)]
  /\ IF resolved
       THEN /\ trip' = [trip EXCEPT ![l] = [published |-> TRUE, seen |-> Seen(l, cutoff)]]
            /\ processed' = [processed EXCEPT ![l] = Acknowledged(l, cutoff)]
       ELSE UNCHANGED <<trip, processed>>
  /\ cycle' = [cycle EXCEPT ![r] = IF rest = <<>> THEN IdleCycle ELSE [@ EXCEPT !.todo = rest]]
  /\ Ordered([attempted EXCEPT ![l] = begun[r]],
             IF rest = <<>> THEN [begun EXCEPT ![r] = 0] ELSE begun)
  /\ UNCHANGED <<up, clock, evidence>>

\* The process dies between two transactions.  Before the lots are listed, nothing is lost.
Crash(r) ==
  /\ cycle[r].pc = "work"
  /\ cycle' = [cycle EXCEPT ![r] = IdleCycle]
  /\ Ordered(attempted, [begun EXCEPT ![r] = 0])
  /\ UNCHANGED <<up, clock, evidence, work, trip>>

Tick ==
  /\ clock < MaxTime
  /\ clock' = clock + 1
  /\ UNCHANGED <<up, evidence, work, order, trip, cycle>>

Next ==
  \/ \E l \in Lots : Close(l) \/ ReviseCost(l)
  \/ \E r \in Roles : Begin(r) \/ List(r) \/ Process(r) \/ Crash(r)
  \/ Tick

Spec == Init /\ [][Next]_vars

\* Time goes on and the roles run their cycles again and again.
FairSpec ==
  /\ Spec /\ WF_vars(Tick)
  /\ \A r \in Roles : WF_vars(Begin(r)) /\ WF_vars(List(r)) /\ SF_vars(Process(r))

-----------------------------------------------------------------------------

\* An acknowledgement covers everything: a lot leaves the queue only with an
\* outcome from all the evidence that is in the store, whenever it was captured,
\* however old the cycle's cutoff is, and whatever an older release lost.
AcksAreComplete ==
  [][\A l \in Lots : processed'[l] # processed[l] =>
       closed[l] # 0 /\ trip'[l].published /\ trip'[l].seen = DOMAIN costs[l]]_vars

\* What learning.py takes for settled (not Pending) is based on all the evidence, where
\* one role runs the cycles; a second one can roll an outcome back (below).
LearnableIsCurrent ==
  Cardinality(up) = 1 =>
    \A l \in Lots : trip[l].published /\ ~Pending(l) => trip[l].seen = DOMAIN costs[l]

\* outcomes.py: "Historical cutoff cannot roll the current outcome backwards."
OutcomesNeverRollBack ==
  [][\A l \in Lots : trip[l].seen \subseteq trip'[l].seen]_vars

\* Bounded work starves nobody: a lot that has closed is acknowledged in the
\* end, though lots that have not closed stay pending for ever.
ClosedLotsAreProcessed == \A l \in Lots : closed[l] # 0 ~> ~Pending(l)
=============================================================================
