--------------------------- MODULE RequestBudget ---------------------------
(***************************************************************************)
(* The request budget every broker request of the core goes through        *)
(* (paper_core/account_control.py: RequestBudget, BudgetedTransport).      *)
(* The processes of one host share a rolling window of request charges in  *)
(* a SQLite sidecar.  A process samples the host's monotonic clock, waits  *)
(* for the sidecar's write lock (Skew at most, then sqlite gives up), and  *)
(* decides in one transaction whether the request may go out.  A GET is    *)
(* charged and sent at once; a POST is prepaid by reserve_send, before the *)
(* send fence, and the prepaid charge moves to the moment of the real I/O. *)
(* The provider may answer with a lower limit or a retry deadline.         *)
(* Processes crash, the host reboots, and its clock may step back.         *)
(***************************************************************************)
EXTENDS Integers, Sequences, FiniteSets, Functions

CONSTANTS
  Procs,           \* processes of the host that talk to the provider
  Role,            \* [Procs -> DOMAIN RoleLimit]
  Posters,         \* those that submit orders
  RoleLimit,       \* ROLE_LIMITS
  TotalLimit,      \* TOTAL_LIMIT
  NonCriticalLimit,\* 36: guardian requests that are neither exit nor clock
  Window,          \* WINDOW, 60 s
  Skew,            \* 5 s: the sidecar's lock wait and _state's tolerance
  ReportedLimits,  \* x-ratelimit-limit values a response carries; 0: none
  Delays,          \* retry delays a response asks for
  MaxTime, MaxCharges, MaxFaults  \* bounds of the model

ASSUME WindowAssumption == Window \in Nat /\ Skew \in Nat /\ Skew < Window

(* Each role's limit is its own, and together they fit the total: no role  *)
(* can exhaust another one's share (120 + 40 + 20 of 180).                 *)
ASSUME SharesAssumption ==
  /\ IsFiniteSet(DOMAIN RoleLimit)
  /\ Role \in [Procs -> DOMAIN RoleLimit]
  /\ \A r \in DOMAIN RoleLimit : RoleLimit[r] \in Nat
  /\ NonCriticalLimit \in Nat
  /\ TotalLimit \in Nat \ {0}
  /\ SumFunctionOnSet(RoleLimit, DOMAIN RoleLimit) <= TotalLimit

(* observe takes no negative delay, and no limit below zero.               *)
ASSUME ProviderAssumption == ReportedLimits \subseteq Nat /\ Delays \subseteq Nat

ASSUME BoundsAssumption == MaxTime \in Nat /\ MaxCharges \in Nat /\ MaxFaults \in Nat

VARIABLES
  real,       \* real time (history)
  offset,     \* host monotonic clock = real - offset
  epoch,      \* host boot epoch
  backs,      \* how often the clock stepped back (history)
  faults,     \* restarts, reboots, steps back and provider signals (bound)
  scope,      \* row of table scopes, or NoRow
  issuers,    \* last_mono of each running process in this epoch, or Unseen
  charges,    \* table charges, in id order
  permit,     \* _send_permits of a process: a charge id, or 0
  sent,       \* requests of the last Window that went out: [id, t] (history)
  notBefore   \* real time before which the provider wants no request (history)

vars == <<real, offset, epoch, backs, faults, scope, issuers, charges, permit, sent,
          notBefore>>

NoRow == [epoch |-> -1, last |-> 0, cooldown |-> 0, blocked |-> 0,
          limit |-> TotalLimit, limitUntil |-> 0]
Unseen == -1
Mono == real - offset

Larger(a, b) == IF a > b THEN a ELSE b
Smaller(a, b) == IF a < b THEN a ELSE b

-----------------------------------------------------------------------------
(* _state: the scope row as a transaction of p with sampled time now       *)
(* leaves it.  A new boot epoch, or a clock that stepped back, waits one   *)
(* full window and forgets the old domain's limit and deadline.            *)
Regressed(p, now) ==
  /\ scope # NoRow
  /\ \/ scope.epoch # epoch
     \/ (issuers[p] # Unseen /\ now < issuers[p])
     \/ (issuers[p] = Unseen /\ now < scope.last - Skew)

FreshRow(now, until) ==
  [epoch |-> epoch, last |-> now, cooldown |-> until, blocked |-> until,
   limit |-> TotalLimit, limitUntil |-> until]

RowAt(p, now) ==
  IF scope = NoRow
  THEN [FreshRow(now, IF epoch # 0 THEN now + Window ELSE now)
          EXCEPT !.limitUntil = now]
  ELSE IF Regressed(p, now)
  THEN FreshRow(now, now + Window)
  ELSE [scope EXCEPT !.last = Larger(now, @)]

Touch(p, now, row) ==
  /\ scope' = row
  /\ issuers' = [issuers EXCEPT ![p] = now]

(* What the provider was promised: a new clock domain replaces it by a     *)
(* full window.                                                            *)
Promise(p, now) ==
  IF Regressed(p, now) THEN Smaller(notBefore, now + offset + Window)
  ELSE notBefore

-----------------------------------------------------------------------------
(* The charges a transaction with sampled time now counts, skip excluded.  *)
Counted(now, skip) ==
  {c \in DOMAIN charges : /\ charges[c].epoch = epoch
                          /\ charges[c].at > now - Window
                          /\ c # skip}
Of(r, cs) == {c \in cs : charges[c].role = r}
NonCritical(cs) == {c \in Of("guardian", cs) : ~charges[c].critical}

Ceiling(row, now) ==
  IF now < row.limitUntil THEN Smaller(row.limit, TotalLimit) ELSE TotalLimit

Full(p, row, now, skip) ==
  LET cs == Counted(now, skip)
  IN  \/ Cardinality(cs) >= Ceiling(row, now)
      \/ Cardinality(Of(Role[p], cs)) >= RoleLimit[Role[p]]

(* Variant: the guardian's recovery reads may spend the whole share.       *)
RefusedNoReserve(p, critical, row, now, skip) ==
  now < row.cooldown \/ now < row.blocked \/ Full(p, row, now, skip)

(* reserve: every reason to refuse a charge.                               *)
Refused(p, critical, row, now, skip) ==
  \/ now < row.cooldown
  \/ now < row.blocked
  \/ Full(p, row, now, skip)
  \/ (/\ Role[p] = "guardian"
      /\ ~critical
      /\ Cardinality(NonCritical(Counted(now, skip))) >= NonCriticalLimit)

(* Variants: a prepaid request skips the window, or the deadline.          *)
RefusedAtSendPrepaid(p, row, now, id) ==
  now < Larger(row.cooldown, row.blocked)
RefusedAtSendNoDeadline(p, row, now, id) ==
  now < row.cooldown \/ Full(p, row, now, id)

(* consume: the same without the guardian's inner reserve.                 *)
RefusedAtSend(p, row, now, id) ==
  now < Larger(row.cooldown, row.blocked) \/ Full(p, row, now, id)

-----------------------------------------------------------------------------
Init ==
  /\ real = 0 /\ offset = 0 /\ epoch = 0 /\ backs = 0 /\ faults = 0
  /\ scope = NoRow
  /\ issuers = [p \in Procs |-> Unseen]
  /\ charges = <<>>
  /\ permit = [p \in Procs |-> 0]
  /\ sent = {}
  /\ notBefore = 0

World == <<real, offset, epoch, backs>>
Fault == faults < MaxFaults /\ faults' = faults + 1

(* clocks.sample() before the transaction: any reading of the last Skew    *)
(* seconds, no earlier than the process's previous one unless the clock    *)
(* stepped back meanwhile.  A negative reading would raise.                *)
Sampled(p) ==
  Smaller(Mono, Larger(Larger(issuers[p], Mono - Skew), 0))..Mono

(* request, GET: acquire charges the request, which goes out.              *)
Acquire(p, now, critical) ==
  LET row == RowAt(p, now)
  IN  /\ Role[p] # "guardian" => critical
      /\ Touch(p, now, row)
      /\ notBefore' = Promise(p, now)
      /\ \/ /\ Refused(p, critical, row, now, 0)
            /\ UNCHANGED <<charges, sent>>
         \/ /\ ~Refused(p, critical, row, now, 0)
            /\ Len(charges) < MaxCharges
            /\ charges' = Append(charges,
                 [epoch |-> epoch, role |-> Role[p], consumed |-> TRUE,
                  critical |-> critical, at |-> now])
            /\ sent' = sent \cup {[id |-> Len(charges) + 1, t |-> real]}
      /\ UNCHANGED <<World, faults, permit>>

(* reserve_send: prepay a POST; a permit still held is renewed.            *)
ReserveSend(p, now) ==
  LET row == RowAt(p, now)
      id == permit[p]
  IN  /\ p \in Posters
      /\ Touch(p, now, row)
      /\ notBefore' = Promise(p, now)
      /\ \/ /\ Refused(p, TRUE, row, now, id)
            /\ UNCHANGED <<charges, permit>>
         \/ /\ ~Refused(p, TRUE, row, now, id)
            /\ id # 0
            /\ charges' = [charges EXCEPT ![id].at = now]
            /\ UNCHANGED permit
         \/ /\ ~Refused(p, TRUE, row, now, id)
            /\ id = 0
            /\ Len(charges) < MaxCharges
            /\ charges' = Append(charges,
                 [epoch |-> epoch, role |-> Role[p], consumed |-> FALSE,
                  critical |-> TRUE, at |-> now])
            /\ permit' = [permit EXCEPT ![p] = Len(charges) + 1]
      /\ UNCHANGED <<World, faults, sent>>

(* request, POST: consume moves the prepaid charge to the real I/O.        *)
Consume(p, now) ==
  LET row == RowAt(p, now)
      id == permit[p]
  IN  /\ id # 0
      /\ Touch(p, now, row)
      /\ notBefore' = Promise(p, now)
      /\ \/ /\ RefusedAtSend(p, row, now, id)
            /\ UNCHANGED <<charges, permit, sent>>
         \/ /\ ~RefusedAtSend(p, row, now, id)
            /\ charges' = [charges EXCEPT ![id].at = now, ![id].consumed = TRUE]
            /\ permit' = [permit EXCEPT ![p] = 0]
            /\ sent' = sent \cup {[id |-> id, t |-> real]}
      /\ UNCHANGED <<World, faults>>

(* Variant: a missing or zero limit header is taken at its word.           *)
ObservedLimitAny(row, now, raw) ==
  IF raw < TotalLimit
  THEN [row EXCEPT !.limit = raw, !.limitUntil = Larger(@, now + Window)]
  ELSE row

(* observe: x-ratelimit-limit below the total, and a retry deadline.  A    *)
(* process may await several answers; an answer is lost if it never comes. *)
ObservedLimit(row, now, raw) ==
  IF raw > 0 /\ raw < TotalLimit
  THEN [row EXCEPT !.limit = IF now < row.limitUntil THEN Smaller(@, raw)
                             ELSE raw,
                   !.limitUntil = Larger(@, now + Window)]
  ELSE row

ObservedDeadline(row, now, delay) ==
  [row EXCEPT !.blocked = Larger(@, now + delay)]

Observe(p, now, raw, delay) ==
  LET row == ObservedLimit(RowAt(p, now), now, raw)
  IN  /\ \E s \in sent : Role[p] = charges[s.id].role
      /\ IF raw = 0 /\ delay = 0 THEN UNCHANGED faults ELSE Fault
      /\ \/ /\ delay = 0
            /\ Touch(p, now, row)
            /\ notBefore' = Promise(p, now)
         \/ /\ delay # 0
            /\ Touch(p, now, ObservedDeadline(row, now, delay))
            /\ notBefore' = Larger(Promise(p, now), now + offset + delay)
      /\ UNCHANGED <<World, charges, permit, sent>>

-----------------------------------------------------------------------------
(* The environment: a process restarts with a new process_id and without   *)
(* its permits; the host reboots; its clock steps back.                    *)
Restart(p) ==
  /\ Fault
  /\ issuers[p] # Unseen
  /\ permit' = [permit EXCEPT ![p] = 0]
  /\ issuers' = [issuers EXCEPT ![p] = Unseen]
  /\ UNCHANGED <<World, scope, charges, sent, notBefore>>

Reboot ==
  /\ Fault
  /\ epoch' = epoch + 1
  /\ offset' = real
  /\ permit' = [p \in Procs |-> 0]
  /\ issuers' = [p \in Procs |-> Unseen]
  /\ UNCHANGED <<real, backs, scope, charges, sent, notBefore>>

StepBack ==
  /\ Fault
  /\ Mono > Skew
  /\ backs' = backs + 1
  /\ offset' = offset + Skew + 1
  /\ UNCHANGED <<real, epoch, scope, issuers, charges, permit, sent,
                 notBefore>>

Tick ==
  /\ real < MaxTime
  /\ real' = real + 1
  /\ sent' = {s \in sent : s.t > real - Window}
  /\ UNCHANGED <<offset, epoch, backs, faults, scope, issuers, charges, permit,
                 notBefore>>

Next ==
  \/ \E p \in Procs : \E now \in Sampled(p) :
       \/ \E k \in BOOLEAN : Acquire(p, now, k)
       \/ ReserveSend(p, now)
       \/ Consume(p, now)
       \/ \E raw \in ReportedLimits, d \in Delays \cup {0} :
            Observe(p, now, raw, d)
  \/ \E p \in Procs : Restart(p)
  \/ Reboot
  \/ StepBack
  \/ Tick

Spec == Init /\ [][Next]_vars

-----------------------------------------------------------------------------
Times == 0..(MaxTime + Window)
TypeOK ==
  /\ real \in 0..MaxTime /\ offset \in 0..MaxTime
  /\ epoch \in 0..faults /\ backs \in 0..faults /\ faults \in 0..MaxFaults
  /\ scope # NoRow => /\ scope.epoch \in 0..epoch
                      /\ scope.last \in Times
                      /\ scope.limit \in 1..TotalLimit
  /\ issuers \in [Procs -> Times \cup {Unseen}]
  /\ Len(charges) <= MaxCharges
  /\ permit \in [Procs -> 0..MaxCharges]
  /\ \A p \in Procs : permit[p] # 0 =>
       /\ charges[permit[p]].role = Role[p]
       /\ ~charges[permit[p]].consumed
  /\ \A s \in sent : charges[s.id].consumed

(* The provider never sees more requests in a rolling window than the      *)
(* total, nor more of one role than the role's share: whatever order the   *)
(* processes' transactions commit in, over restarts, a reboot and a clock  *)
(* that steps back.  The window is real time, shorter by the lock wait.    *)
Burst(t) == {s \in sent : s.t >= t /\ s.t < t + (Window - Skew)}
RateKept ==
  \A t \in 0..real :
    /\ Cardinality(Burst(t)) <= TotalLimit
    /\ \A r \in DOMAIN RoleLimit :
         Cardinality({s \in Burst(t) : charges[s.id].role = r}) <= RoleLimit[r]

(* An owned exit of the guardian finds a free charge whatever the trader,  *)
(* the other roles and the guardian's own recovery reads have spent, until *)
(* protection itself has used its reserve: only a cooldown, a provider     *)
(* deadline or a reduced provider limit may hold it back.  (The code's     *)
(* guardian_protection_reserve of 84 = 120 - 36.)                          *)
ProtectionReserve ==
  \A p \in Procs :
    LET row == RowAt(p, Mono)
        mine == Of("guardian", Counted(Mono, 0))
    IN  \/ Role[p] # "guardian"
        \/ backs # 0
        \/ Ceiling(row, Mono) < TotalLimit
        \/ ~Full(p, row, Mono, 0)
        \/ Cardinality(mine \ NonCritical(mine))
             >= RoleLimit["guardian"] - NonCriticalLimit

(* No request of any process, prepaid or not, goes out before the latest   *)
(* deadline a provider response has set; a restart does not forget it, and *)
(* a new clock domain still waits a full window.                           *)
DeadlineHonoured ==
  [][\A s \in sent' \ sent : s.t >= notBefore]_vars

=============================================================================
