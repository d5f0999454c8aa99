-------------------------- MODULE EntryAuthority ---------------------------
(***************************************************************************)
(* Which release of the core may send entries for an account.              *)
(*                                                                         *)
(* The store holds the pointer to the executable release and the log of    *)
(* runtime events: COMMISSION and RESUME_ENTRY open entries, FENCE_ENTRY   *)
(* closes them (paper_core/authority.py).  A sidecar database, shared by   *)
(* everything on the host that uses the account, binds the account to one  *)
(* release at one generation (paper_core/account_control.py), and the      *)
(* binding document is recorded in the store too (handover.py).  A trader  *)
(* holds the sidecar's OS lock for its whole life and sends only while the *)
(* release is current and entries are open (__main__.py, send fence).      *)
(*                                                                         *)
(* Two databases, one lock and three kinds of process (operator commands,  *)
(* traders, the guardian) interleave; every one of them may die.           *)
(***************************************************************************)
EXTENDS Naturals

CONSTANTS
  Traders, Releases, First,  \* First: the release commissioned
  EntryGeneration,           \* [Releases -> Nat]: request_control of a release
  None,
  MaxSeq, MaxProofs          \* bounds: runtime events, reconciliation proofs

ASSUME ReleaseAssumption ==
  /\ First \in Releases
  /\ EntryGeneration \in [Releases -> Nat \ {0}]
  /\ None \notin Traders \cup Releases

ASSUME BoundAssumption == MaxSeq \in Nat \ {0} /\ MaxProofs \in Nat

VARIABLES
  pointer,   \* core_runtime_current
  event,     \* the runtime event with the highest sequence
  sidecar,   \* row of entry_bindings
  docs,      \* binding documents in core_runtime_config_history
  lock,      \* owner of <control>.entries.lock
  trader,    \* [Traders -> [pc, rel]]
  binding,   \* a bind_runtime_entries in progress, or NoBind
  approval,  \* the approval document the operator last signed
  intent,    \* [Releases -> state of the entry that release has sent]
  held,      \* the ledger shows an owned position
  proof      \* latest reconciliation proof; current: of today's ledger

vars == <<pointer, event, sidecar, docs, lock, trader, binding, approval,
          intent, held, proof>>

Store == <<pointer, event, docs>>
Account == <<intent, held, proof>>
Off == [pc |-> "off", rel |-> None]
NoBind == [pc |-> "off", evidence |-> <<0, None, 0>>]
Unbound == [generation |-> 0, rel |-> None, evidence |-> <<0, None, 0>>]

Fenced == event.action = "FENCE_ENTRY"
Unresolved == \E r \in Releases : intent[r] # "none"
Exposed == held \/ \E r \in Releases : intent[r] = "filled"

(* bind_runtime_entries keeps the store's write transaction open (BEGIN    *)
(* IMMEDIATE) while it works on the sidecar: no other store write commits. *)
StoreFree == binding.pc = "off"

Init ==
  /\ pointer = First
  /\ event = [sequence |-> 1, action |-> "COMMISSION"]
  /\ sidecar = Unbound
  /\ docs = {}
  /\ lock = None
  /\ trader = [t \in Traders |-> Off]
  /\ binding = NoBind
  /\ approval = [fence |-> 0, old |-> First, new |-> First]
  /\ intent = [r \in Releases |-> "none"]
  /\ held \in BOOLEAN        \* the baseline may hold positions of a legacy owner
  /\ proof = [id |-> 0, flat |-> ~held, current |-> TRUE]

-----------------------------------------------------------------------------
(* Operator commands.                                                      *)
Log(action) == event' = [sequence |-> event.sequence + 1, action |-> action]

(* fence_entries                                                           *)
FenceEntries ==
  /\ StoreFree
  /\ event.sequence < MaxSeq
  /\ Log("FENCE_ENTRY")
  /\ UNCHANGED <<pointer, sidecar, docs, lock, trader, binding, approval, Account>>

(* The operator signs a document that quotes what the store shows now.     *)
Approve(new) ==
  /\ approval' = [fence |-> event.sequence, old |-> pointer, new |-> new]
  /\ UNCHANGED <<Store, sidecar, lock, trader, binding, Account>>

Approved ==
  /\ Fenced
  /\ approval.fence = event.sequence
  /\ approval.old = pointer

SameConfig(a, b) == EntryGeneration[a] = EntryGeneration[b]

(* transition_release: same configuration, new code.                       *)
TransitionRelease ==
  /\ StoreFree
  /\ Approved
  /\ approval.new # pointer
  /\ SameConfig(pointer, approval.new)
  /\ pointer' = approval.new
  /\ UNCHANGED <<event, docs, sidecar, lock, trader, binding, approval, Account>>

(* transition_entry_policy: entry policy or request control changes; every *)
(* entry settled and every lot closed.                                     *)
TransitionPolicy ==
  /\ StoreFree
  /\ Approved
  /\ ~SameConfig(pointer, approval.new)
  /\ ~Unresolved
  /\ ~held
  /\ pointer' = approval.new
  /\ UNCHANGED <<event, docs, sidecar, lock, trader, binding, approval, Account>>

(* Variant: an order in flight does not stop the resumption.               *)
ResumeOverUnresolved == Approved /\ proof.current

(* resume_entries.  The guardian, time and health evidence it also wants   *)
(* can only refuse.                                                        *)
ResumeAllowed ==
  /\ Approved
  /\ ~Unresolved
  /\ proof.current

ResumeEntries ==
  /\ StoreFree
  /\ ResumeAllowed
  /\ event.sequence < MaxSeq
  /\ Log("RESUME_ENTRY")
  /\ UNCHANGED <<pointer, sidecar, docs, lock, trader, binding, approval, Account>>

-----------------------------------------------------------------------------
(* Variant: a proof of the current ledger will do, flat or not.            *)
FlatProofAnyQuantity == proof.current /\ ~Unresolved

(* bind_runtime_entries: check, sidecar compare-and-set under the lock,    *)
(* read back under the lock, store commit.                                 *)
FlatProof ==
  /\ proof.flat
  /\ proof.current
  /\ ~Unresolved

BindBegin ==
  /\ StoreFree
  /\ Fenced
  /\ FlatProof
  /\ binding' = [pc |-> "cas",
                 evidence |-> <<event.sequence, pointer, proof.id>>]
  /\ UNCHANGED <<Store, sidecar, lock, trader, approval, Account>>

Document == [generation |-> EntryGeneration[pointer], rel |-> pointer,
             evidence |-> binding.evidence]

(* Variant: the bind trusts the sidecar's transaction alone.               *)
EntryLockIgnored == TRUE

(* bind_entry_account takes the lock without waiting.                      *)
EntryLockFree == lock = None

BindSidecar ==
  /\ binding.pc = "cas"
  /\ EntryLockFree
  /\ \/ /\ sidecar = Document
        /\ UNCHANGED sidecar
     \/ /\ EntryGeneration[pointer] = sidecar.generation + 1
        /\ sidecar' = Document
  /\ binding' = [binding EXCEPT !.pc = "record"]
  /\ UNCHANGED <<Store, lock, trader, approval, Account>>

BindRecord ==
  /\ binding.pc = "record"
  /\ EntryLockFree
  /\ docs' = docs \cup {sidecar}
  /\ binding' = NoBind
  /\ UNCHANGED <<pointer, event, sidecar, lock, trader, approval, Account>>

(* A lock held elsewhere, a stale generation or a crash: the store's       *)
(* transaction rolls back, the sidecar's does not.                         *)
BindAbort ==
  /\ binding.pc # "off"
  /\ binding' = NoBind
  /\ UNCHANGED <<Store, sidecar, lock, trader, approval, Account>>

-----------------------------------------------------------------------------
(* A trader of some release: verify the release, take the lease, audit the *)
(* recorded binding, run.                                                  *)
Start(t, r) ==
  /\ trader[t] = Off
  /\ r = pointer
  /\ trader' = [trader EXCEPT ![t] = [pc |-> "start", rel |-> r]]
  /\ UNCHANGED <<Store, sidecar, lock, binding, approval, Account>>

BoundTo(r) ==
  sidecar.generation = EntryGeneration[r] /\ sidecar.rel = r

AcquireLease(t) ==
  /\ trader[t].pc = "start"
  /\ IF lock = None /\ BoundTo(trader[t].rel)
     THEN /\ lock' = t
          /\ trader' = [trader EXCEPT ![t].pc = "leased"]
     ELSE /\ trader' = [trader EXCEPT ![t] = Off]
          /\ UNCHANGED lock
  /\ UNCHANGED <<Store, sidecar, binding, approval, Account>>

(* Variant: a failed audit leaves the lease's lock behind.                 *)
AuditKeepsLock(t) ==
  /\ trader[t].pc = "leased"
  /\ trader' = [trader EXCEPT ![t] = IF sidecar \in docs
                                     THEN [@ EXCEPT !.pc = "run"] ELSE Off]
  /\ UNCHANGED <<Store, sidecar, lock, binding, approval, Account>>

AuditBinding(t) ==
  /\ trader[t].pc = "leased"
  /\ IF sidecar \in docs
     THEN /\ trader' = [trader EXCEPT ![t].pc = "run"]
          /\ UNCHANGED lock
     ELSE /\ trader' = [trader EXCEPT ![t] = Off]
          /\ lock' = None
  /\ UNCHANGED <<Store, sidecar, binding, approval, Account>>

(* The process ends, however: the OS drops its lock.                       *)
Stop(t) ==
  /\ trader[t] # Off
  /\ trader' = [trader EXCEPT ![t] = Off]
  /\ lock' = IF lock = t THEN None ELSE lock
  /\ UNCHANGED <<Store, sidecar, binding, approval, Account>>

(* The send fence: entry_lease_objections looks at the lease in memory,    *)
(* runtime_objections at the store.  The POST follows the commit.          *)
MaySend(r) == r = pointer /\ ~Fenced

Send(t) ==
  LET r == trader[t].rel
  IN  /\ StoreFree
      /\ trader[t].pc = "run"
      /\ MaySend(r)
      /\ intent[r] = "none"
      /\ intent' = [intent EXCEPT ![r] = "sent"]
      /\ UNCHANGED <<Store, sidecar, lock, trader, binding, approval, held,
                     proof>>

-----------------------------------------------------------------------------
(* The account: a sent entry fills or not; the outcome is imported; the    *)
(* guardian closes what is held and reconciles.                            *)
Fill(r) ==
  /\ intent[r] = "sent"
  /\ intent' = [intent EXCEPT ![r] = "filled"]
  /\ UNCHANGED <<Store, sidecar, lock, trader, binding, approval, held,
                 proof>>

Import(r) ==
  /\ StoreFree
  /\ intent[r] # "none"
  /\ held' = (held \/ intent[r] = "filled")
  /\ proof' = [proof EXCEPT !.current = FALSE]
  /\ intent' = [intent EXCEPT ![r] = "none"]
  /\ UNCHANGED <<Store, sidecar, lock, trader, binding, approval>>

ExitClosed ==
  /\ StoreFree
  /\ held
  /\ held' = FALSE
  /\ proof' = [proof EXCEPT !.current = FALSE]
  /\ UNCHANGED <<Store, sidecar, lock, trader, binding, approval, intent>>

(* A position or an open order at the broker keeps the proof from being    *)
(* flat; a position the ledger does not know keeps it from being recorded. *)
Reconcile ==
  /\ StoreFree
  /\ proof.id < MaxProofs
  /\ \A r \in Releases : intent[r] # "filled"
  /\ proof' = [id |-> proof.id + 1, flat |-> ~held /\ ~Unresolved,
               current |-> TRUE]
  /\ UNCHANGED <<Store, sidecar, lock, trader, binding, approval, intent, held>>

-----------------------------------------------------------------------------
Next ==
  \/ FenceEntries
  \/ \E r \in Releases : Approve(r)
  \/ TransitionRelease \/ TransitionPolicy \/ ResumeEntries
  \/ BindBegin \/ BindSidecar \/ BindRecord \/ BindAbort
  \/ \E t \in Traders :
       \/ \E r \in Releases : Start(t, r)
       \/ AcquireLease(t) \/ AuditBinding(t) \/ Stop(t) \/ Send(t)
  \/ \E r \in Releases : Fill(r) \/ Import(r)
  \/ ExitClosed \/ Reconcile

Spec == Init /\ [][Next]_vars

-----------------------------------------------------------------------------
Evidence == (0..MaxSeq) \X (Releases \cup {None}) \X (0..MaxProofs)
Documents == [generation : Nat, rel : Releases \cup {None}, evidence : Evidence]

TypeOK ==
  /\ pointer \in Releases
  /\ event \in [sequence : 1..MaxSeq,
                action : {"COMMISSION", "FENCE_ENTRY", "RESUME_ENTRY"}]
  /\ sidecar \in Documents
  /\ docs \subseteq Documents
  /\ lock \in Traders \cup {None}
  /\ lock # None => trader[lock].pc \in {"leased", "run"}
  /\ trader \in [Traders -> [pc : {"off", "start", "leased", "run"},
                             rel : Releases \cup {None}]]
  /\ binding \in [pc : {"off", "cas", "record"}, evidence : Evidence]
  /\ approval \in [fence : 0..MaxSeq, old : Releases, new : Releases]
  /\ intent \in [Releases -> {"none", "sent", "filled"}]
  /\ held \in BOOLEAN
  /\ proof \in [id : 0..MaxProofs, flat : BOOLEAN, current : BOOLEAN]

(* A running trader's lease is the binding the sidecar holds now and the   *)
(* store has recorded, although the trader looked at both only once: no    *)
(* bind, finished or not, of another release revokes it under its feet.    *)
(* (AccountEntryLease.is_current: "a supported generation change requires  *)
(* this very OS lock".)                                                    *)
HolderIsBound ==
  \A t \in Traders :
    /\ trader[t].pc \in {"leased", "run"} => lock = t /\ BoundTo(trader[t].rel)
    /\ trader[t].pc = "run" => sidecar \in docs

(* While entries are open, every order that is still unresolved was sent   *)
(* by the current release: a release never starts to send over what its    *)
(* predecessor still has in flight, fence and transition or not.           *)
NoOverlap ==
  ~Fenced => \A r \in Releases : intent[r] # "none" => r = pointer

(* The account changes hands only when it is empty: at the moment the      *)
(* sidecar takes a new binding, and when the store records it, nothing is  *)
(* held and nothing is in flight - not even a fill nobody has imported.    *)
BindsFlat ==
  [][(sidecar' # sidecar \/ docs' # docs) => ~Exposed /\ ~Unresolved]_vars

=============================================================================
