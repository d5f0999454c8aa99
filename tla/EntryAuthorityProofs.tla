------------------------ MODULE EntryAuthorityProofs ------------------------
(***************************************************************************)
(* Proofs about EntryAuthority, for any traders and releases.              *)
(***************************************************************************)
EXTENDS EntryAuthority, TLAPS

-----------------------------------------------------------------------------
(* The inductive invariant.                                                *)

(* Whoever has the lock is past the lease, and whoever is past the lease   *)
(* has the lock: the OS lock is what excludes a bind.                      *)
LeaseInv ==
  /\ lock # None => trader[lock].pc \in {"leased", "run"}
  /\ HolderIsBound

(* A proof of today's ledger that is flat says that nothing is held, and a *)
(* bind that has seen one still relies on it when it writes: the store's   *)
(* write transaction keeps everything else out.                            *)
BindInv ==
  /\ proof.flat /\ proof.current => ~held
  /\ binding.pc # "off" => ~held /\ ~Unresolved

IInv == TypeOK /\ LeaseInv /\ BindInv /\ NoOverlap

\* The invariant holds at the start.
LEMMA InitInv == Init => IInv
<1> SUFFICES ASSUME Init PROVE IInv
  OBVIOUS
<1>1. TypeOK
  BY ReleaseAssumption, BoundAssumption
  DEF Init, TypeOK, Unbound, Off, NoBind, Documents, Evidence
<1>2. LeaseInv /\ BindInv /\ NoOverlap
  BY DEF Init, LeaseInv, HolderIsBound, BindInv, NoOverlap, Off, NoBind
<1> QED BY <1>1, <1>2 DEF IInv

-----------------------------------------------------------------------------
(* Typing: one step per group of actions that change the same variables.   *)

LEMMA TypeStep ==
  ASSUME TypeOK, LeaseInv, [Next]_vars
  PROVE  TypeOK'
<1> USE ReleaseAssumption, BoundAssumption
<1>1. CASE FenceEntries
  BY <1>1 DEF TypeOK, FenceEntries, Log, Account
<1>2. ASSUME NEW r \in Releases, Approve(r) PROVE TypeOK'
  BY <1>2 DEF TypeOK, Approve, Store, Account
<1>3. CASE TransitionRelease
  BY <1>3 DEF TypeOK, TransitionRelease, Account
<1>4. CASE TransitionPolicy
  BY <1>4 DEF TypeOK, TransitionPolicy, Account
<1>5. CASE ResumeEntries
  BY <1>5 DEF TypeOK, ResumeEntries, Log, Account
<1>6. CASE BindBegin
  BY <1>6 DEF TypeOK, BindBegin, Store, Account, Evidence
<1>7. CASE BindSidecar
  <2>1. Document \in Documents
    BY DEF TypeOK, Document, Documents
  <2> QED BY <1>7, <2>1 DEF TypeOK, BindSidecar, Store, Account
<1>8. CASE BindRecord
  BY <1>8 DEF TypeOK, BindRecord, NoBind, Account, Evidence
<1>9. CASE BindAbort
  BY <1>9 DEF TypeOK, BindAbort, NoBind, Store, Account, Evidence
<1>10. ASSUME NEW t \in Traders, NEW r \in Releases, Start(t, r) PROVE TypeOK'
  BY <1>10 DEF TypeOK, Start, Off, Store, Account
<1>11. ASSUME NEW t \in Traders, AcquireLease(t) PROVE TypeOK'
  BY <1>11 DEF TypeOK, AcquireLease, Off, Store, Account
<1>12. ASSUME NEW t \in Traders, AuditBinding(t) PROVE TypeOK'
  BY <1>12 DEF TypeOK, LeaseInv, HolderIsBound, AuditBinding, Off, Store, Account
<1>13. ASSUME NEW t \in Traders, Stop(t) PROVE TypeOK'
  BY <1>13 DEF TypeOK, Stop, Off, Store, Account
<1>14. ASSUME NEW t \in Traders, Send(t) PROVE TypeOK'
  BY <1>14 DEF TypeOK, Send, Store
<1>15. ASSUME NEW r \in Releases, Fill(r) PROVE TypeOK'
  BY <1>15 DEF TypeOK, Fill, Store
<1>16. ASSUME NEW r \in Releases, Import(r) PROVE TypeOK'
  <2>1. held' \in BOOLEAN
    BY <1>16 DEF Import
  <2>2. proof' \in [id : 0..MaxProofs, flat : BOOLEAN, current : BOOLEAN]
    BY <1>16 DEF Import, TypeOK
  <2> QED BY <1>16, <2>1, <2>2 DEF TypeOK, Import, Store
<1>17. CASE ExitClosed
  <2>1. proof' \in [id : 0..MaxProofs, flat : BOOLEAN, current : BOOLEAN]
    BY <1>17 DEF ExitClosed, TypeOK
  <2> QED BY <1>17, <2>1 DEF TypeOK, ExitClosed, Store
<1>18. CASE Reconcile
  <2>1. (~held /\ ~Unresolved) \in BOOLEAN
    BY Zenon
  <2>2. proof'.id \in 0..MaxProofs
    BY <1>18 DEF Reconcile, TypeOK
  <2>3. proof' \in [id : 0..MaxProofs, flat : BOOLEAN, current : BOOLEAN]
    BY <1>18, <2>1, <2>2 DEF Reconcile
  <2> QED BY <1>18, <2>3 DEF TypeOK, Reconcile, Store
<1>19. CASE UNCHANGED vars
  BY <1>19 DEF TypeOK, vars
<1> QED BY <1>1, <1>2, <1>3, <1>4, <1>5, <1>6, <1>7, <1>8, <1>9, <1>10, <1>11, <1>12,
           <1>13, <1>14, <1>15, <1>16, <1>17, <1>18, <1>19 DEF Next

-----------------------------------------------------------------------------
(* The lease.                                                              *)

\* Neither traders, nor the lock, nor the bindings change.
LEMMA LeaseFrame ==
  ASSUME LeaseInv, UNCHANGED <<trader, lock, sidecar>>, docs \subseteq docs'
  PROVE  LeaseInv'
BY DEF LeaseInv, HolderIsBound, BoundTo

\* A trader that leaves gives up the lock, if it has it.
LEMMA LeaseLeave ==
  ASSUME TypeOK, LeaseInv, NEW t \in Traders,
         trader' = [trader EXCEPT ![t] = Off],
         lock' = IF lock = t THEN None ELSE lock,
         UNCHANGED <<sidecar, docs>>
  PROVE  LeaseInv'
BY ReleaseAssumption DEF TypeOK, LeaseInv, HolderIsBound, BoundTo, Off

LEMMA LeaseStep ==
  ASSUME TypeOK, LeaseInv, [Next]_vars
  PROVE  LeaseInv'
<1>1. CASE FenceEntries \/ TransitionRelease \/ TransitionPolicy \/ ResumeEntries
           \/ BindBegin \/ BindRecord \/ BindAbort \/ ExitClosed \/ Reconcile
           \/ (\E r \in Releases : Approve(r) \/ Fill(r) \/ Import(r))
           \/ (\E t \in Traders : Send(t)) \/ UNCHANGED vars
  <2>1. UNCHANGED <<trader, lock, sidecar>> /\ docs \subseteq docs'
    BY <1>1 DEF FenceEntries, TransitionRelease, TransitionPolicy, ResumeEntries, BindBegin,
       BindRecord, BindAbort, ExitClosed, Reconcile, Approve, Fill, Import, Send, Store, vars
  <2> QED BY <2>1, LeaseFrame
\* The sidecar changes only under the lock, so nobody is past the lease.
<1>2. CASE BindSidecar
  <2>1. \A t \in Traders : trader[t].pc \notin {"leased", "run"}
    BY <1>2, ReleaseAssumption DEF BindSidecar, EntryLockFree, LeaseInv, HolderIsBound
  <2> QED BY <1>2, <2>1 DEF BindSidecar, EntryLockFree, LeaseInv, HolderIsBound, Store
<1>3. ASSUME NEW t \in Traders, NEW r \in Releases, Start(t, r) PROVE LeaseInv'
  BY <1>3 DEF TypeOK, LeaseInv, HolderIsBound, BoundTo, Start, Off, Store
<1>4. ASSUME NEW t \in Traders, AcquireLease(t) PROVE LeaseInv'
  <2>1. CASE lock = None /\ BoundTo(trader[t].rel)
    BY <1>4, <2>1, ReleaseAssumption
    DEF TypeOK, LeaseInv, HolderIsBound, BoundTo, AcquireLease, Store
  <2>2. CASE ~(lock = None /\ BoundTo(trader[t].rel))
    BY <1>4, <2>2 DEF TypeOK, LeaseInv, HolderIsBound, BoundTo, AcquireLease, Off, Store
  <2> QED BY <2>1, <2>2
<1>5. ASSUME NEW t \in Traders, AuditBinding(t) PROVE LeaseInv'
  <2>1. CASE sidecar \in docs
    BY <1>5, <2>1 DEF TypeOK, LeaseInv, HolderIsBound, BoundTo, AuditBinding, Store
  <2>2. CASE sidecar \notin docs
    BY <1>5, <2>2, LeaseLeave DEF LeaseInv, HolderIsBound, AuditBinding, Store
  <2> QED BY <2>1, <2>2
<1>6. ASSUME NEW t \in Traders, Stop(t) PROVE LeaseInv'
  BY <1>6, LeaseLeave DEF Stop, Store
<1> QED BY <1>1, <1>2, <1>3, <1>4, <1>5, <1>6 DEF Next

-----------------------------------------------------------------------------
(* What a bind relies on, and the open entries.                            *)

LEMMA BindStep ==
  ASSUME TypeOK, BindInv, [Next]_vars
  PROVE  BindInv'
<1>1. CASE FenceEntries \/ TransitionRelease \/ TransitionPolicy \/ ResumeEntries
           \/ BindSidecar \/ BindRecord \/ BindAbort
           \/ (\E r \in Releases : Approve(r)) \/ UNCHANGED vars
           \/ (\E t \in Traders : \/ \E r \in Releases : Start(t, r)
                                  \/ AcquireLease(t) \/ AuditBinding(t) \/ Stop(t))
  <2>1. /\ UNCHANGED <<intent, held, proof>>
        /\ binding'.pc # "off" => binding.pc # "off"
    BY <1>1 DEF FenceEntries, TransitionRelease, TransitionPolicy, ResumeEntries, BindSidecar,
       BindRecord, BindAbort, Approve, Start, AcquireLease, AuditBinding, Stop, Account, NoBind,
       TypeOK, vars
  <2> QED BY <2>1 DEF BindInv, Unresolved
<1>2. CASE BindBegin
  BY <1>2 DEF BindInv, BindBegin, FlatProof, Account, Unresolved
\* A fill is of an entry under way: there is none while a bind is.
<1>3. ASSUME NEW r \in Releases, Fill(r) PROVE BindInv'
  BY <1>3 DEF BindInv, Fill, Unresolved, TypeOK
<1>4. CASE ExitClosed \/ Reconcile \/ (\E r \in Releases : Import(r))
           \/ (\E t \in Traders : Send(t))
  BY <1>4 DEF BindInv, ExitClosed, Reconcile, Import, Send, StoreFree, TypeOK
<1> QED BY <1>1, <1>2, <1>3, <1>4 DEF Next

LEMMA OverlapStep ==
  ASSUME TypeOK, NoOverlap, [Next]_vars
  PROVE  NoOverlap'
\* Entries are fenced, as they were or from now on.
<1>1. CASE FenceEntries \/ TransitionRelease \/ TransitionPolicy
  BY <1>1 DEF NoOverlap, FenceEntries, TransitionRelease, TransitionPolicy, Log, Approved, Fenced
<1>2. CASE ResumeEntries
  BY <1>2 DEF NoOverlap, ResumeEntries, ResumeAllowed, Unresolved, Account
<1>3. ASSUME NEW t \in Traders, Send(t) PROVE NoOverlap'
  BY <1>3 DEF NoOverlap, Send, MaySend, Store, Fenced, TypeOK
<1>4. ASSUME NEW r \in Releases, Fill(r) \/ Import(r) PROVE NoOverlap'
  BY <1>4 DEF NoOverlap, Fill, Import, Store, Fenced, TypeOK
<1>5. CASE \/ BindBegin \/ BindSidecar \/ BindRecord \/ BindAbort \/ ExitClosed \/ Reconcile
           \/ (\E r \in Releases : Approve(r)) \/ UNCHANGED vars
           \/ (\E t \in Traders : \/ \E r \in Releases : Start(t, r)
                                  \/ AcquireLease(t) \/ AuditBinding(t) \/ Stop(t))
  <2>1. UNCHANGED <<pointer, event, intent>>
    BY <1>5 DEF BindBegin, BindSidecar, BindRecord, BindAbort, ExitClosed, Reconcile, Approve,
       Start, AcquireLease, AuditBinding, Stop, Store, Account, vars
  <2> QED BY <2>1 DEF NoOverlap, Fenced
<1> QED BY <1>1, <1>2, <1>3, <1>4, <1>5 DEF Next

-----------------------------------------------------------------------------
(* The theorems.                                                           *)

LEMMA NextInv == IInv /\ [Next]_vars => IInv'
BY TypeStep, LeaseStep, BindStep, OverlapStep DEF IInv

LEMMA Invariance == Spec => []IInv
BY InitInv, NextInv, PTL DEF Spec

\* Every variable of fence, binding and lease keeps its type, and the lock is only
\* ever held by a trader past the lease.
THEOREM TypeCorrect == Spec => []TypeOK
<1>1. IInv => TypeOK
  BY DEF IInv
<1> QED BY <1>1, Invariance, PTL

\* The one who may enter is bound: the lease a running trader holds in memory is the
\* binding the sidecar holds and the store has recorded (AccountEntryLease.is_current).
THEOREM LeaseIsCurrent == Spec => []HolderIsBound
<1>1. IInv => HolderIsBound
  BY DEF IInv, LeaseInv
<1> QED BY <1>1, Invariance, PTL

\* No release sends over what another one left open (resume_entries).
THEOREM ReleasesDoNotOverlap == Spec => []NoOverlap
<1>1. IInv => NoOverlap
  BY DEF IInv
<1> QED BY <1>1, Invariance, PTL

\* The account is bound, and the binding recorded, only while nothing is held or under
\* way (bind_runtime_entries).
THEOREM BindingIsFlat == Spec => BindsFlat
<1>1. IInv /\ [Next]_vars
        => [(sidecar' # sidecar \/ docs' # docs) => ~Exposed /\ ~Unresolved]_vars
  <2> SUFFICES ASSUME IInv, [Next]_vars, sidecar' # sidecar \/ docs' # docs
               PROVE  ~Exposed /\ ~Unresolved
    OBVIOUS
  <2>1. binding.pc # "off"
    BY DEF Next, vars, FenceEntries, TransitionRelease, TransitionPolicy, ResumeEntries,
       BindBegin, BindSidecar, BindRecord, BindAbort, ExitClosed, Reconcile, Approve, Fill,
       Import, Start, AcquireLease, AuditBinding, Stop, Send, Store
  <2> QED BY <2>1 DEF IInv, BindInv, Exposed, Unresolved
<1> QED BY <1>1, Invariance, PTL DEF Spec, BindsFlat

=============================================================================
