-------------------------- MODULE PolicyLifecycle --------------------------
(***************************************************************************)
(* PolicyLifecycleWorkflow: the one long-running Temporal workflow of a    *)
(* policy, with everything it exchanges signals and rows with: the HTTP    *)
(* handlers that create and withdraw service requests, the downstream      *)
(* child workflows it routes requests to, the batch scan that moves the    *)
(* policy in the database first and tells the workflow later, and the      *)
(* policy, policy_lock, service_request and terminal snapshot rows.        *)
(*                                                                         *)
(* The main loop handles one signal at a time, and the Go coroutines of a  *)
(* workflow only switch where they wait for an activity.  One action is    *)
(* one handler, except that a request handler is cut in two where it waits *)
(* for RefreshStateFromDB: what it decides on afterwards may be stale.     *)
(*                                                                         *)
(* Signals reach the workflow on one channel per kind, and senders are     *)
(* independent, so any signal already sent may be the next one handled;    *)
(* batch-state-sync has one sender and keeps its order.                    *)
(*                                                                         *)
(* A faulty variant stands before some of the operators, named for what it *)
(* gets wrong (FreshUnchecked, KeptEntry...): no action uses one.  Put in  *)
(* the place of the operator it precedes, it breaks a property, which      *)
(* shows that the property depends on what that operator does.             *)
(***************************************************************************)
EXTENDS PolicyRules, SequencesExt

CONSTANTS
    Request,        \* service requests, named by their idempotency key
    TypeOf,         \* the type of each request
    NoRequest,      \* no request: the null lock and the idle handler
    SystemSignal,   \* system and compliance signals, named by request_id
    KindOf,         \* the channel of each of them
    Redelivered,    \* ids of the signals that their senders send repeatedly
    StartStatus,    \* statuses the policy may be found in
    ScanMove,       \* <<from, to>> pairs the batch scans apply
    MaxWithdrawals, \* bound: withdrawals that customers ask for
    MaxScans,       \* bound: batch scans that select this policy
    MaxCAN,         \* bound: Continue-As-New rounds of the main loop
    MaxFaults       \* bound: handlers whose activity fails all its attempts

SystemKind ==
    {"policy-created", "premium-paid", "payment-dishonored",
     "aml-flag-raised", "aml-flag-cleared", "investigation-started",
     "investigation-concluded", "loan-balance-updated", "customer-id-merge",
     "conversion-reversed", "admin-void", "voluntary-paidup-request",
     "dispute-registered", "dispute-resolved", "reopen-request"}

\* The transitions that the batch scan activities apply in bulk, by scan.  Which
\* policies are due is a matter of dates: any policy in the first status may be.
LapsationMove ==
    {<<"ACTIVE", "VOID">>, <<"ACTIVE", "VOID_LAPSE">>, <<"ACTIVE", "INACTIVE_LAPSE">>}
RemissionMove ==
    {<<"VOID_LAPSE", "VOID">>, <<"INACTIVE_LAPSE", "ACTIVE_LAPSE">>}
PaidUpMove == {<<"ACTIVE_LAPSE", "PAID_UP">>, <<"ACTIVE_LAPSE", "VOID">>}
MaturityMove == {<<"ACTIVE", "PENDING_MATURITY">>}
BatchTransition == LapsationMove \cup RemissionMove \cup PaidUpMove \cup MaturityMove

ASSUME RequestAssumption ==
    /\ TypeOf \in [Request -> RequestType]
    /\ NoRequest \notin Request
ASSUME SignalAssumption ==
    /\ KindOf \in [SystemSignal -> SystemKind]
    /\ Request \cap SystemSignal = {}
    /\ Redelivered \subseteq Request \cup SystemSignal
ASSUME StartAssumption == StartStatus \subseteq Status \ Terminal
ASSUME ScanAssumption == ScanMove \subseteq BatchTransition
ASSUME BoundAssumption ==
    /\ MaxWithdrawals \in Nat /\ MaxScans \in Nat
    /\ MaxCAN \in Nat /\ MaxFaults \in Nat

VARIABLES
    policy,      \* PolicyLifecycleState: status, previous statuses, version...
    activeLock,  \* its ActiveLock: the request that holds it, or NoRequest
    pending,     \* its PendingRequests
    processed,   \* its ProcessedSignalIDs
    busy,        \* the request whose handler is past RefreshStateFromDB
    read,        \* what that handler read of the row; empty if it failed
    phase,       \* main loop, terminal cooling, or workflow closed
    flcTimer,    \* the free-look timer goroutine is alive
    row,         \* policy row: current_status, version, has_active_loan
    lockRow,     \* policy_lock row
    sr,          \* status of each service_request row
    snapshot,    \* terminal_state_snapshot row
    child,       \* what became of each downstream workflow
    inbox,       \* signals sent and not yet handled, batch-state-sync apart
    syncs,       \* batch-state-sync signals, oldest first
    scan,        \* the move of a scan that selected the policy, or <<>>
    unmarked,    \* submissions whose HTTP handler has yet to mark ROUTED
    refunds,     \* PREMIUM_REFUND service requests made for each premium
    withdrawals, scans, continued, faults    \* counted against the bounds

loop == <<busy, read, phase, flcTimer, snapshot>>
environment == <<syncs, scan, unmarked, refunds, withdrawals, scans, continued>>
vars == <<policy, activeLock, pending, processed, loop, row, lockRow, sr,
          child, inbox, environment, faults>>

-----------------------------------------------------------------------------
Signal(kind, id) == [kind |-> kind, id |-> id]
SignalKind ==
    {"request", "completed", "revival-approved", "withdrawal", "system"}
Signals == [kind : SignalKind, id : Request \cup SystemSignal]

RequestStatus == {"NONE", "RECEIVED", "ROUTED", "STATE_GATE_REJECTED",
                  "COMPLETED", "WITHDRAWN"}
\* "phase2": a revival approved downstream whose instalments still run.
\* "stopping" and "stopping2": running, or in phase 2, and asked to stop.
ChildStatus ==
    {"none", "running", "phase2", "stopping", "stopping2", "cancelled"} \cup Outcome

PolicyState ==
    [status : Status \cup {NoStatus}, previous : Status \cup {NoStatus},
     beforeSuspension : Status \cup {NoStatus}, version : Nat,
     hasLoan : BOOLEAN, amlHold : BOOLEAN]
PolicyRow == [status : Status, version : Nat, hasLoan : BOOLEAN]

TypeOK ==
    /\ policy \in PolicyState
    /\ activeLock \in Request \cup {NoRequest}
    /\ pending \in Seq(Request)
    /\ processed \subseteq Signals
    /\ busy \in Request \cup {NoRequest}
    /\ phase \in {"running", "cooling", "closed"}
    /\ flcTimer \in BOOLEAN
    /\ read \subseteq PolicyRow
    /\ row \in PolicyRow
    /\ lockRow \in Request \cup {NoRequest}
    /\ sr \in [Request -> RequestStatus]
    /\ snapshot \in {"none", "cooling", "completed"}
    /\ child \in [Request -> ChildStatus]
    /\ inbox \subseteq Signals
    /\ syncs \in Seq(Status)
    /\ scan \in BatchTransition \cup {<<>>}
    /\ unmarked \subseteq Request
    /\ refunds \in [SystemSignal -> Nat]
    /\ withdrawals \in Nat /\ scans \in Nat
    /\ continued \in Nat /\ faults \in Nat

\* How the policy came to each status it may be found in.
PreviousOf(status) ==
    CASE status = "FREE_LOOK_ACTIVE" -> NoStatus
      [] status = "ACTIVE" -> "FREE_LOOK_ACTIVE"
      [] OTHER -> "ACTIVE"
VersionOf(status) ==
    CASE status = "FREE_LOOK_ACTIVE" -> 1
      [] status = "ACTIVE" -> 2
      [] OTHER -> 3

\* policy-created was handled: the row exists and the workflow agrees with it.
\* System signals are in the inbox from the start: when one is handled stands
\* for when it is sent and delivered.
Init ==
    \E status \in StartStatus :
        /\ policy = [status |-> status, previous |-> PreviousOf(status),
                     beforeSuspension |-> NoStatus,
                     version |-> VersionOf(status),
                     hasLoan |-> FALSE, amlHold |-> FALSE]
        /\ row = [status |-> status, version |-> VersionOf(status),
                  hasLoan |-> FALSE]
        /\ flcTimer = (status = "FREE_LOOK_ACTIVE")
        /\ activeLock = NoRequest /\ lockRow = NoRequest
        /\ pending = <<>>
        /\ processed = {Signal("system", s) :
                            s \in {t \in SystemSignal : KindOf[t] = "policy-created"}}
        /\ inbox = {Signal("system", s) : s \in SystemSignal}
        /\ busy = NoRequest /\ read = {}
        /\ phase = "running" /\ snapshot = "none"
        /\ sr = [r \in Request |-> "NONE"]
        /\ child = [r \in Request |-> "none"]
        /\ syncs = <<>> /\ scan = <<>> /\ unmarked = {}
        /\ refunds = [s \in SystemSignal |-> 0]
        /\ withdrawals = 0 /\ scans = 0 /\ continued = 0 /\ faults = 0

-----------------------------------------------------------------------------
(* What the handlers are made of.                                          *)

\* The main loop is at its selector.
Idle == phase = "running" /\ busy = NoRequest

\* A signal on its channel that the map of processed ids does not hold.
FreshUnchecked(sig) == sig \in inbox
Fresh(sig) == sig \in inbox \ processed

\* The inbox once sig is handled: its sender may send it once more.
Taken(sig) ==
    IF sig.id \in Redelivered /\ sig \notin processed THEN inbox ELSE inbox \ {sig}
ProcessedNotStored(sig) == UNCHANGED processed
Processed(sig) == processed' = processed \cup {sig}

\* The write, of those a handler makes, whose activity fails for good.  The
\* handlers ignore the error.  A handler loses at most one write.
Lost(writes) == {"none"} \cup IF faults < MaxFaults THEN writes ELSE {}
Charge(lost) == faults' = IF lost = "none" THEN faults ELSE faults + 1

\* doTransition in memory, and what RecordStateTransition makes of the row: an
\* UPDATE guarded by the version, whose miss nobody notices.  The enum of the
\* column refuses the empty status.
Moved(p, from, to) ==
    [p EXCEPT !.previous = from, !.status = to, !.version = @ + 1]
RecordedSameVersion(w, p, to) ==
    IF w.version = p.version /\ to # NoStatus THEN [w EXCEPT !.status = to] ELSE w
Recorded(w, p, to) ==
    IF w.version = p.version /\ to # NoStatus
    THEN [w EXCEPT !.status = to, !.version = @ + 1] ELSE w

\* doTransition of the state p, one write of the handler being lost.
TransitionOf(p, from, to, lost) ==
    /\ policy' = Moved(p, from, to)
    /\ row' = IF lost = "transition" THEN row ELSE Recorded(row, p, to)
Transition(from, to, lost) == TransitionOf(policy, from, to, lost)
NoTransition == UNCHANGED <<policy, row>>

\* UpdatePolicyMetadata: the trigger on the policy table counts it as a version.
Touched(w, lost) ==
    IF lost = "metadata" THEN w ELSE [w EXCEPT !.version = @ + 1]

\* UpdateServiceRequest: whatever the status of the service request was before.
Marked(r, status, lost) ==
    IF lost = "service_request" THEN sr ELSE [sr EXCEPT ![r] = status]

\* The lock is released in one of the two places only.
ReleaseRowOnly(held, lost) ==
    /\ UNCHANGED activeLock
    /\ lockRow' = IF held /\ lost # "lock" THEN NoRequest ELSE lockRow
ReleaseMemoryOnly(held, lost) ==
    /\ activeLock' = IF held THEN NoRequest ELSE activeLock
    /\ UNCHANGED lockRow

\* The lock is released if the condition holds, in memory and in the database.
ReleaseLockIf(held, lost) ==
    /\ activeLock' = IF held THEN NoRequest ELSE activeLock
    /\ lockRow' = IF held /\ lost # "lock" THEN NoRequest ELSE lockRow

CancelledNothing(targets, lost) == child

\* CancelDownstreamWorkflow: the child is asked to stop, nobody waits until it
\* does, and one that already completed is left alone.
Cancelled(targets, lost) ==
    [r \in Request |->
        IF lost = "cancel" \/ r \notin targets THEN child[r]
        ELSE CASE child[r] = "running" -> "stopping"
               [] child[r] = "phase2" -> "stopping2"
               [] OTHER -> child[r]]

PendingRequests == ToSet(pending)
Position(r) == CHOOSE i \in DOMAIN pending : pending[i] = r
KeptEntry(r) == pending
Without(r) == RemoveAt(pending, Position(r))

\* The entry that the pointer to the matched request points to once the list
\* has been compacted in the same array: the one behind it, if any.
MatchedAfterCompaction(r) ==
    IF Position(r) < Len(pending) THEN pending[Position(r) + 1] ELSE r

\* handleTerminalCooling begins: the snapshot is persisted.
EnterCoolingIf(terminal, lost) ==
    /\ phase' = IF terminal THEN "cooling" ELSE phase
    /\ snapshot' = IF terminal /\ lost # "snapshot" /\ snapshot = "none"
                   THEN "cooling" ELSE snapshot
SameLoop == UNCHANGED <<busy, read, flcTimer>>

-----------------------------------------------------------------------------
(* The HTTP handlers.                                                      *)

\* POST .../requests/...: the gate and the lock are checked against the
\* database, the service request is created, and the workflow is signalled.
\* When that call fails the request stays RECEIVED: a retry with the same
\* idempotency key only returns it.
Submit(r) ==
    /\ sr[r] = "NONE"
    /\ TypeOf[r] # "FORCED_SURRENDER"
    /\ CheckStateGate(TypeOf[r], row.status, row.hasLoan)
    /\ RequiresFinancialLock(TypeOf[r]) => lockRow = NoRequest
    /\ sr' = [sr EXCEPT ![r] = "RECEIVED"]
    /\ \/ /\ phase # "closed"
          /\ inbox' = inbox \cup {Signal("request", r)}
          /\ unmarked' = unmarked \cup {r}
       \/ UNCHANGED <<inbox, unmarked>>
    /\ UNCHANGED <<policy, activeLock, pending, processed, loop, row, lockRow,
                   child, syncs, scan, refunds, withdrawals, scans, continued,
                   faults>>

\* The last step of the same handler, whatever happened to the request since.
MarkRouted(r) ==
    /\ r \in unmarked
    /\ unmarked' = unmarked \ {r}
    /\ sr' = [sr EXCEPT ![r] = "ROUTED"]
    /\ UNCHANGED <<policy, activeLock, pending, processed, loop, row, lockRow,
                   child, inbox, syncs, scan, refunds, withdrawals, scans,
                   continued, faults>>

\* PUT .../withdraw: a failure to signal the workflow is only logged.
WithdrawRequest(r) ==
    /\ sr[r] \in {"RECEIVED", "ROUTED"}
    /\ withdrawals < MaxWithdrawals
    /\ withdrawals' = withdrawals + 1
    /\ sr' = [sr EXCEPT ![r] = "WITHDRAWN"]
    /\ \/ /\ phase # "closed"
          /\ inbox' = inbox \cup {Signal("withdrawal", r)}
       \/ UNCHANGED inbox
    /\ UNCHANGED <<policy, activeLock, pending, processed, loop, row, lockRow,
                   child, syncs, scan, unmarked, refunds, scans, continued,
                   faults>>

-----------------------------------------------------------------------------
(* The downstream services, from how the workflow uses them.               *)

ChildReports(r, status, kind) ==
    /\ child' = [child EXCEPT ![r] = status]
    /\ inbox' = IF phase = "closed" THEN inbox
                ELSE inbox \cup {Signal(kind, r)}
    /\ UNCHANGED <<policy, activeLock, pending, processed, loop, row, lockRow,
                   sr, environment, faults>>

\* A revival is approved: its instalments are collected in a second phase.
ChildApprovesRevival(r) ==
    /\ TypeOf[r] = "REVIVAL" /\ child[r] \in {"running", "stopping"}
    /\ ChildReports(r, IF child[r] = "running" THEN "phase2" ELSE "stopping2",
                    "revival-approved")

\* A child that was asked to stop may have been too far on to do so.
ChildCompletes(r, outcome) ==
    /\ child[r] \in {"running", "phase2", "stopping", "stopping2"}
    /\ ChildReports(r, outcome, "completed")

ChildStops(r) ==
    /\ child[r] \in {"stopping", "stopping2"}
    /\ child' = [child EXCEPT ![r] = "cancelled"]
    /\ UNCHANGED <<policy, activeLock, pending, processed, loop, row, lockRow,
                   sr, inbox, environment, faults>>

-----------------------------------------------------------------------------
(* The batch scans: the database first, the workflow afterwards.           *)

\* A scan selects the policy among those with the status it moves on.
BatchSelect(move) ==
    /\ scans < MaxScans /\ scan = <<>>
    /\ row.status = move[1]
    /\ scan' = move /\ scans' = scans + 1
    /\ UNCHANGED <<policy, activeLock, pending, processed, loop, row, lockRow,
                   sr, child, inbox, syncs, unmarked, refunds, withdrawals,
                   continued, faults>>

\* The guarded bulk UPDATE, then the signal.  The signal goes out even when
\* the UPDATE missed the policy or failed; its own failure is ignored.
BatchApply ==
    /\ scan # <<>>
    /\ \E lost \in Lost({"batch"}) :
        /\ row' = IF row.status = scan[1] /\ lost # "batch"
                  THEN [row EXCEPT !.status = scan[2], !.version = @ + 1]
                  ELSE row
        /\ Charge(lost)
    /\ \/ phase # "closed" /\ syncs' = Append(syncs, scan[2])
       \/ UNCHANGED syncs
    /\ scan' = <<>>
    /\ UNCHANGED <<policy, activeLock, pending, processed, loop, lockRow, sr,
                   child, inbox, unmarked, refunds, withdrawals, scans,
                   continued>>

\* The batch-state-sync handler: in memory only.
BatchSync ==
    /\ Idle /\ syncs # <<>>
    /\ policy' = Moved(policy, policy.status, Head(syncs))
    /\ syncs' = Tail(syncs)
    /\ UNCHANGED <<activeLock, pending, processed, loop, row, lockRow, sr,
                   child, inbox, scan, unmarked, refunds, withdrawals, scans,
                   continued, faults>>

-----------------------------------------------------------------------------
(* Request signals: handleFinancialRequest, handleDeathNotification and    *)
(* handleNFRRequest.                                                       *)

DropDuplicateRequest(r) ==
    /\ Idle
    /\ Signal("request", r) \in inbox \cap processed
    /\ inbox' = inbox \ {Signal("request", r)}
    /\ UNCHANGED <<policy, activeLock, pending, processed, loop, row, lockRow,
                   sr, child, environment, faults>>

\* Up to the result of RefreshStateFromDB.  A death notification first cancels
\* the operation that holds the lock and forgets everything pending.
ReceiveRequest(r) ==
    /\ Idle
    /\ Fresh(Signal("request", r))
    /\ inbox' = Taken(Signal("request", r))
    /\ busy' = r
    /\ \E lost \in Lost({"refresh", "lock", "cancel"}) :
        /\ Charge(lost)
        /\ read' = IF lost = "refresh" THEN {} ELSE {row}
        /\ IF TypeOf[r] = "DEATH_CLAIM"
           THEN /\ child' = Cancelled({activeLock} \cap PendingRequests, lost)
                /\ ReleaseLockIf(activeLock # NoRequest, lost)
                /\ pending' = <<>>
           ELSE UNCHANGED <<child, activeLock, lockRow, pending>>
    /\ UNCHANGED <<policy, processed, phase, flcTimer, snapshot, row, sr,
                   environment>>

\* The state the handler goes on with.  The database keeps no AML hold: no
\* statement ever sets the column.
Refreshed ==
    IF read = {} THEN policy
    ELSE LET found == CHOOSE w \in read : TRUE
         IN  [policy EXCEPT !.status = found.status, !.version = found.version,
                            !.hasLoan = found.hasLoan, !.amlHold = FALSE]

HandlerDone ==
    /\ busy' = NoRequest /\ read' = {}
    /\ UNCHANGED <<phase, flcTimer, snapshot>>

\* handleFinancialRequest tests for SUSPENDED before anything else, for a death
\* claim too, and neither updates the service request nor marks the signal.
StoppedBySuspension(r) ==
    Refreshed.status = "SUSPENDED" /\ TypeOf[r] \notin NFRType
RejectSuspended(r) ==
    /\ busy = r /\ r # NoRequest
    /\ StoppedBySuspension(r)
    /\ policy' = Refreshed
    /\ HandlerDone
    /\ UNCHANGED <<activeLock, pending, processed, row, lockRow, sr, child,
                   inbox, environment, faults>>

RefusedWithoutLockTest(r) ==
    ~ IsStateEligible(TypeOf[r], Refreshed.status, Refreshed.hasLoan)

\* The gate closed, or the lock is taken.
Refused(r) ==
    \/ ~ IsStateEligible(TypeOf[r], Refreshed.status, Refreshed.hasLoan)
    \/ RequiresFinancialLock(TypeOf[r]) /\ activeLock # NoRequest
RejectRequest(r) ==
    /\ busy = r /\ r # NoRequest
    /\ ~ StoppedBySuspension(r) /\ Refused(r)
    /\ policy' = Refreshed
    /\ \E lost \in Lost({"service_request"}) :
        /\ sr' = Marked(r, "STATE_GATE_REJECTED", lost)
        /\ Charge(lost)
    /\ Processed(Signal("request", r))
    /\ HandlerDone
    /\ UNCHANGED <<activeLock, pending, row, lockRow, child, inbox,
                   environment>>

\* Parked in its pre-route status, locked, started downstream, remembered.
RouteRequest(r) ==
    /\ busy = r /\ r # NoRequest
    /\ ~ StoppedBySuspension(r) /\ ~ Refused(r)
    /\ \E lost \in Lost({"transition", "lock", "service_request"}) :
        /\ IF PreRouteStatus(TypeOf[r]) # NoStatus
           THEN TransitionOf(Refreshed, Refreshed.status,
                             PreRouteStatus(TypeOf[r]), lost)
           ELSE policy' = Refreshed /\ UNCHANGED row
        /\ IF RequiresFinancialLock(TypeOf[r])
           THEN /\ activeLock' = r
                /\ lockRow' = IF lost = "lock" THEN lockRow ELSE r
           ELSE UNCHANGED <<activeLock, lockRow>>
        /\ sr' = Marked(r, "ROUTED", lost)
        /\ Charge(lost)
    /\ child' = [child EXCEPT ![r] = "running"]
    /\ pending' = Append(pending, r)
    /\ Processed(Signal("request", r))
    /\ HandlerDone
    /\ UNCHANGED <<inbox, environment>>

-----------------------------------------------------------------------------
(* Completion and withdrawal signals.                                      *)

Handles(sig) ==
    /\ Idle /\ sig \in inbox
    /\ inbox' = Taken(sig)
    /\ SameLoop

\* A completion that matches nothing pending.
IgnoreCompletion(r) ==
    /\ Idle
    /\ Signal("completed", r) \in inbox /\ r \notin PendingRequests
    /\ inbox' = inbox \ {Signal("completed", r)}
    /\ IF TypeOf[r] \in NFRType THEN UNCHANGED processed
       ELSE Processed(Signal("request", r))
    /\ UNCHANGED <<policy, activeLock, pending, loop, row, lockRow, sr, child,
                   environment, faults>>

\* updateEncumbrancesFromCompletion, on the state the transition left.
LoanAfter(type, outcome) ==
    IF outcome # "APPROVED" THEN {}
    ELSE CASE type = "LOAN" -> {TRUE}
           [] type = "LOAN_REPAYMENT" -> {FALSE}
           [] OTHER -> {}
EncumberedPolicy(p, loan) ==
    IF loan = {} THEN p ELSE [p EXCEPT !.hasLoan = TRUE \in loan]
EncumberedMemoryOnly(w, loan, lost) == w
EncumberedRow(w, loan, lost) ==
    IF loan = {} \/ lost = "metadata" THEN w
    ELSE [w EXCEPT !.hasLoan = TRUE \in loan, !.version = @ + 1]

\* handleOperationCompleted.  The entry whose service request is updated is
\* read after the list was compacted.  A revival's two signals come from one
\* sender, on channels the selector tries in the order they are sent.
CompleteOperation(r) ==
    /\ Handles(Signal("completed", r))
    /\ r \in PendingRequests /\ TypeOf[r] \notin NFRType
    /\ Signal("revival-approved", r) \notin inbox
    /\ \E lost \in Lost({"transition", "lock", "service_request", "metadata",
                         "snapshot"}),
          reducedPaidUp \in {FALSE} \cup {TypeOf[r] = "FORCED_SURRENDER"} :
        LET new == CompletionStatus(TypeOf[r], child[r], reducedPaidUp,
                                    policy.previous)
            moves == new \notin {NoStatus, policy.status}
            loan == LoanAfter(TypeOf[r], child[r])
        IN  /\ policy' = EncumberedPolicy(
                    IF moves THEN Moved(policy, policy.status, new)
                             ELSE policy, loan)
            /\ row' = EncumberedRow(
                    IF moves /\ lost # "transition"
                    THEN Recorded(row, policy, new) ELSE row, loan, lost)
            /\ sr' = Marked(MatchedAfterCompaction(r), "COMPLETED", lost)
            /\ ReleaseLockIf(activeLock = r, lost)
            /\ EnterCoolingIf(CompletionIsTerminal(TypeOf[r], child[r],
                                                   reducedPaidUp), lost)
            /\ Charge(lost)
    /\ pending' = Without(r)
    /\ Processed(Signal("request", r))
    /\ UNCHANGED <<child, environment>>

\* handleNFRCompleted: what it writes to the policy row depends on the type of
\* the entry it reads after the compaction.
CompleteNFR(r) ==
    /\ Handles(Signal("completed", r))
    /\ r \in PendingRequests /\ TypeOf[r] \in NFRType
    /\ \E lost \in Lost({"service_request", "metadata"}) :
        /\ sr' = Marked(MatchedAfterCompaction(r), "COMPLETED", lost)
        /\ row' = IF /\ child[r] = "APPROVED"
                     /\ TypeOf[MatchedAfterCompaction(r)] = "ASSIGNMENT"
                  THEN Touched(row, lost) ELSE row
        /\ Charge(lost)
    /\ pending' = Without(r)
    /\ UNCHANGED <<policy, activeLock, processed, phase, snapshot, lockRow,
                   child, environment>>

\* handleRevivalApproved: the lock goes, the request stays pending.
RevivalApproved(r) ==
    /\ Handles(Signal("revival-approved", r)) /\ Fresh(Signal("revival-approved", r))
    /\ \E lost \in Lost({"transition", "lock"}) :
        /\ ReleaseLockIf(activeLock = r, lost)
        /\ IF policy.status # "ACTIVE"
           THEN Transition(policy.status, "ACTIVE", lost) ELSE NoTransition
        /\ Charge(lost)
    /\ Processed(Signal("revival-approved", r))
    /\ UNCHANGED <<pending, phase, snapshot, sr, child, environment>>

\* handleWithdrawal.  The request was signalled before, on an earlier channel.
HandleWithdrawal(r) ==
    /\ Handles(Signal("withdrawal", r)) /\ Fresh(Signal("withdrawal", r))
    /\ Signal("request", r) \notin inbox
    /\ IF r \in PendingRequests
       THEN \E lost \in Lost({"transition", "lock", "cancel"}) :
            /\ child' = Cancelled({r}, lost)
            /\ IF policy.status = PreRouteStatus(TypeOf[r]) /\ policy.status # NoStatus
               THEN Transition(policy.status, policy.previous, lost)
               ELSE NoTransition
            /\ pending' = Without(r)
            /\ ReleaseLockIf(activeLock = r, lost)
            /\ Charge(lost)
       ELSE UNCHANGED <<policy, row, child, pending, activeLock, lockRow, faults>>
    /\ Processed(Signal("withdrawal", r))
    /\ UNCHANGED <<phase, snapshot, sr, environment>>

\* A revival approval or a withdrawal that was handled before.
DropDuplicate(sig) ==
    /\ Idle
    /\ sig \in inbox \cap processed
    /\ sig.kind \in {"revival-approved", "withdrawal"}
    /\ inbox' = inbox \ {sig}
    /\ UNCHANGED <<policy, activeLock, pending, processed, loop, row, lockRow,
                   sr, child, environment, faults>>

-----------------------------------------------------------------------------
(* System and compliance signals.  handleX marks its signal processed      *)
(* whether or not it changed anything, and drops one it has seen.          *)

HandlesSystem(s, kind) ==
    /\ KindOf[s] = kind
    /\ Handles(Signal("system", s)) /\ Fresh(Signal("system", s))
    /\ Processed(Signal("system", s))
    /\ UNCHANGED environment
OnlyPolicyChanges ==
    UNCHANGED <<activeLock, pending, phase, snapshot, lockRow, sr, child>>

DropDuplicateSystem(s) ==
    /\ Idle
    /\ Signal("system", s) \in inbox \cap processed
    /\ KindOf[s] \notin {"policy-created", "reopen-request"}
    /\ inbox' = inbox \ {Signal("system", s)}
    /\ UNCHANGED <<policy, activeLock, pending, processed, loop, row, lockRow,
                   sr, child, environment, faults>>

\* The loop resets the status before handlePolicyCreated tests for a duplicate.
PolicyCreatedAgain(s) ==
    /\ Idle /\ KindOf[s] = "policy-created"
    /\ Signal("system", s) \in inbox
    /\ inbox' = inbox \ {Signal("system", s)}
    /\ policy' = [policy EXCEPT !.status = "FREE_LOOK_ACTIVE"]
    /\ UNCHANGED <<activeLock, pending, processed, loop, row, lockRow, sr,
                   child, environment, faults>>

\* One transition, unless to is NoStatus, and one metadata update at most.
SystemEffect(to, touches) ==
    \E lost \in Lost({"transition"} \cup IF touches THEN {"metadata"} ELSE {}) :
        /\ policy' = IF to = NoStatus THEN policy
                     ELSE Moved(policy, policy.status, to)
        /\ row' = LET w == IF to = NoStatus \/ lost = "transition" THEN row
                           ELSE Recorded(row, policy, to)
                  IN  IF touches THEN Touched(w, lost) ELSE w
        /\ Charge(lost)

\* inRemission: the payment date precedes the end of the remission period.
PremiumPaid(s, inRemission) ==
    /\ HandlesSystem(s, "premium-paid")
    /\ SystemEffect(
         IF \/ policy.status \in {"VOID_LAPSE", "INACTIVE_LAPSE"} /\ inRemission
            \/ policy.status = "PENDING_AUTO_SURRENDER"
         THEN "ACTIVE" ELSE NoStatus, TRUE)
    /\ OnlyPolicyChanges

\* The lapse status depends on the age of the policy.
PaymentDishonored(s, lapse) ==
    /\ HandlesSystem(s, "payment-dishonored")
    /\ LET bounces == policy.status = "ACTIVE"
       IN  SystemEffect(IF bounces THEN lapse ELSE NoStatus, bounces)
    /\ OnlyPolicyChanges

\* From any status, a suspended or a terminal one included.
AMLFlagRaised(s) ==
    /\ HandlesSystem(s, "aml-flag-raised")
    /\ \E lost \in Lost({"transition"}) :
        /\ TransitionOf([policy EXCEPT !.beforeSuspension = policy.status,
                                       !.amlHold = TRUE],
                        policy.status, "SUSPENDED", lost)
        /\ Charge(lost)
    /\ OnlyPolicyChanges

\* What the last flag saved.
RestoredUnchecked == policy.beforeSuspension
Restored ==
    IF policy.beforeSuspension = NoStatus THEN "ACTIVE" ELSE policy.beforeSuspension

\* Restores it whatever the status is now.
AMLFlagCleared(s) ==
    /\ HandlesSystem(s, "aml-flag-cleared")
    /\ \E lost \in Lost({"transition"}) :
        /\ TransitionOf([policy EXCEPT !.beforeSuspension = NoStatus,
                                       !.amlHold = FALSE],
                        "SUSPENDED", Restored, lost)
        /\ Charge(lost)
    /\ OnlyPolicyChanges

InvestigationStarted(s) ==
    /\ HandlesSystem(s, "investigation-started")
    /\ SystemEffect(IF policy.status = "DEATH_CLAIM_INTIMATED"
                    THEN "DEATH_UNDER_INVESTIGATION" ELSE NoStatus, FALSE)
    /\ OnlyPolicyChanges

InvestigationConcluded(s, confirmed) ==
    /\ HandlesSystem(s, "investigation-concluded")
    /\ LET investigated == policy.status = "DEATH_UNDER_INVESTIGATION"
       IN  /\ SystemEffect(IF ~ investigated THEN NoStatus
                           ELSE IF confirmed THEN "DEATH_CLAIM_SETTLED"
                                             ELSE "DEATH_CLAIM_INTIMATED", FALSE)
           /\ EnterCoolingIf(investigated /\ confirmed, "none")
    /\ UNCHANGED <<activeLock, pending, lockRow, sr, child>>

\* A bounced cheque: the main loop listens, but a converted policy is cooling.
ConversionReversed(s) ==
    /\ HandlesSystem(s, "conversion-reversed")
    /\ SystemEffect(IF policy.status = "CONVERTED" THEN policy.previous
                                                   ELSE NoStatus, FALSE)
    /\ OnlyPolicyChanges

\* Loan balance and customer merge: a metadata update each.
MetadataUpdated(s) ==
    /\ \E kind \in {"loan-balance-updated", "customer-id-merge"} :
            HandlesSystem(s, kind)
    /\ SystemEffect(NoStatus, TRUE)
    /\ OnlyPolicyChanges

\* An advisory flag only.
Dispute(s) ==
    /\ \E kind \in {"dispute-registered", "dispute-resolved"} :
            HandlesSystem(s, kind)
    /\ UNCHANGED <<policy, row, faults>>
    /\ OnlyPolicyChanges

\* Cancels everything pending and ends the policy.
AdminVoid(s) ==
    /\ HandlesSystem(s, "admin-void")
    /\ \E lost \in Lost({"transition", "lock", "cancel", "snapshot"}) :
        /\ child' = Cancelled(PendingRequests, lost)
        /\ ReleaseLockIf(activeLock # NoRequest, lost)
        /\ Transition(policy.status, "VOID", lost)
        /\ EnterCoolingIf(TRUE, lost)
        /\ Charge(lost)
    /\ pending' = <<>>
    /\ UNCHANGED sr

\* Paid-up, or void when the paid-up value is too small.  Nothing pending is
\* looked at, and a lock that is held stays held.  (Of a well-formed signal: the
\* HTTP handler sends a payload of another shape on this channel.)
VoluntaryPaidUp(s, sufficient) ==
    /\ HandlesSystem(s, "voluntary-paidup-request")
    /\ LET eligible == IsStateEligible("PAID_UP", policy.status, policy.hasLoan)
       IN  /\ SystemEffect(IF ~ eligible THEN NoStatus
                           ELSE IF sufficient THEN "PAID_UP" ELSE "VOID", FALSE)
           /\ EnterCoolingIf(eligible /\ ~ sufficient, "none")
    /\ UNCHANGED <<activeLock, pending, lockRow, sr, child>>

-----------------------------------------------------------------------------
(* The free-look timer, Continue-As-New and terminal cooling.              *)

\* The timer goroutine also runs while a handler waits for the database.
FLCExpires ==
    /\ flcTimer /\ phase # "closed"
    /\ flcTimer' = FALSE
    /\ IF policy.status = "FREE_LOOK_ACTIVE"
       THEN \E lost \in Lost({"transition"}) :
                Transition("FREE_LOOK_ACTIVE", "ACTIVE", lost) /\ Charge(lost)
       ELSE UNCHANGED <<policy, row, faults>>
    /\ UNCHANGED <<activeLock, pending, processed, busy, read, phase, snapshot,
                   lockRow, sr, child, inbox, environment>>

\* A new run starts from the state alone: signals the old one had buffered on
\* its channels and not handled are gone, and the timer goroutine is started
\* anew only if its expiry is still to come.
LosesBuffered ==
    /\ inbox' \in SUBSET inbox
    /\ \E n \in 0 .. Len(syncs) : syncs' = SubSeq(syncs, n + 1, Len(syncs))
    /\ flcTimer' \in {flcTimer, FALSE}

CarriesNoProcessed ==
    /\ Idle /\ continued < MaxCAN
    /\ continued' = continued + 1
    /\ processed' = {}
    /\ LosesBuffered
    /\ UNCHANGED <<policy, activeLock, pending, busy, read, phase, snapshot,
                   row, lockRow, sr, child, scan, unmarked, refunds,
                   withdrawals, scans, faults>>
CarriesNoLock ==
    /\ Idle /\ continued < MaxCAN
    /\ continued' = continued + 1
    /\ activeLock' = NoRequest
    /\ LosesBuffered
    /\ UNCHANGED <<policy, pending, processed, busy, read, phase, snapshot,
                   row, lockRow, sr, child, scan, unmarked, refunds,
                   withdrawals, scans, faults>>
ContinueAsNew ==
    /\ Idle /\ continued < MaxCAN
    /\ continued' = continued + 1
    /\ LosesBuffered
    /\ UNCHANGED <<policy, activeLock, pending, processed, busy, read, phase,
                   snapshot, row, lockRow, sr, child, scan, unmarked, refunds,
                   withdrawals, scans, faults>>

\* The timer case of the cooling selector: MarkWorkflowCompleted and return.
CoolingExpires ==
    /\ phase = "cooling"
    /\ phase' = "closed"
    /\ \E lost \in Lost({"mark"}) :
        /\ snapshot' = IF snapshot = "cooling" /\ lost = "none"
                       THEN "completed" ELSE snapshot
        /\ Charge(lost)
    /\ UNCHANGED <<policy, activeLock, pending, processed, busy, read, flcTimer,
                   row, lockRow, sr, child, inbox, environment>>

\* A signal handled while cooling.  expired: the timer fired meanwhile; the
\* loop then returns without having run the timer case.
HandlesCooling(s, kind, expired) ==
    /\ phase = "cooling" /\ KindOf[s] = kind
    /\ Signal("system", s) \in inbox
    /\ phase' = IF expired THEN "closed" ELSE phase
    /\ UNCHANGED <<activeLock, pending, busy, read, snapshot, lockRow, sr, child>>

\* A late premium is refunded, through a service request of its own, at each
\* delivery; only two deliveries are followed.
CoolingPremium(s, expired) ==
    /\ HandlesCooling(s, "premium-paid", expired)
    /\ LET sig == Signal("system", s)
       IN inbox' = IF refunds[s] = 0 THEN Taken(sig) ELSE inbox \ {sig}
    /\ \E lost \in Lost({"refund"}) :
        /\ refunds' = IF lost = "refund" THEN refunds
                      ELSE [refunds EXCEPT ![s] = @ + 1]
        /\ Charge(lost)
    /\ UNCHANGED <<policy, processed, flcTimer, row, syncs, scan, unmarked,
                   withdrawals, scans, continued>>

CoolingLoanBalance(s, expired) ==
    /\ HandlesCooling(s, "loan-balance-updated", expired)
    /\ inbox' = inbox \ {Signal("system", s)}
    /\ SystemEffect(NoStatus, TRUE)
    /\ UNCHANGED <<processed, flcTimer, environment>>

\* Back to the previous status and, once that is not terminal, to the main
\* loop by way of Continue-As-New.
CoolingReopen(s, expired) ==
    /\ phase = "cooling" /\ KindOf[s] = "reopen-request"
    /\ Signal("system", s) \in inbox
    /\ IF Signal("system", s) \in processed
       THEN UNCHANGED <<policy, row, faults>>
       ELSE \E lost \in Lost({"transition"}) :
                Transition(policy.status, policy.previous, lost) /\ Charge(lost)
    /\ Processed(Signal("system", s))
    /\ IF ~ expired /\ policy'.status \notin Terminal
       THEN /\ phase' = "running"
            /\ inbox' \in SUBSET (inbox \ {Signal("system", s)})
            /\ \E n \in 0 .. Len(syncs) :
                    syncs' = SubSeq(syncs, n + 1, Len(syncs))
            /\ flcTimer' \in {flcTimer, FALSE}
       ELSE /\ phase' = IF expired THEN "closed" ELSE phase
            /\ inbox' = inbox \ {Signal("system", s)}
            /\ UNCHANGED <<syncs, flcTimer>>
    /\ UNCHANGED <<activeLock, pending, busy, read, snapshot, lockRow, sr,
                   child, scan, unmarked, refunds, withdrawals, scans,
                   continued>>

-----------------------------------------------------------------------------
RequestStep(r) ==
    \/ Submit(r)
    \/ MarkRouted(r)
    \/ WithdrawRequest(r)
    \/ ChildApprovesRevival(r)
    \/ \E outcome \in Outcome : ChildCompletes(r, outcome)
    \/ ChildStops(r)
    \/ DropDuplicateRequest(r)
    \/ ReceiveRequest(r)
    \/ RejectSuspended(r)
    \/ RejectRequest(r)
    \/ RouteRequest(r)
    \/ IgnoreCompletion(r)
    \/ CompleteOperation(r)
    \/ CompleteNFR(r)
    \/ RevivalApproved(r)
    \/ HandleWithdrawal(r)
    \/ \E kind \in {"revival-approved", "withdrawal"} :
            DropDuplicate(Signal(kind, r))

SystemStep(s) ==
    \/ DropDuplicateSystem(s)
    \/ PolicyCreatedAgain(s)
    \/ \E inRemission \in BOOLEAN : PremiumPaid(s, inRemission)
    \/ \E lapse \in {"VOID_LAPSE", "INACTIVE_LAPSE"} : PaymentDishonored(s, lapse)
    \/ AMLFlagRaised(s)
    \/ AMLFlagCleared(s)
    \/ InvestigationStarted(s)
    \/ \E confirmed \in BOOLEAN : InvestigationConcluded(s, confirmed)
    \/ ConversionReversed(s)
    \/ MetadataUpdated(s)
    \/ Dispute(s)
    \/ AdminVoid(s)
    \/ \E sufficient \in BOOLEAN : VoluntaryPaidUp(s, sufficient)
    \/ \E expired \in BOOLEAN :
            \/ CoolingPremium(s, expired)
            \/ CoolingLoanBalance(s, expired)
            \/ CoolingReopen(s, expired)

LoopStep ==
    \/ \E move \in ScanMove : BatchSelect(move)
    \/ BatchApply
    \/ BatchSync
    \/ FLCExpires
    \/ ContinueAsNew
    \/ CoolingExpires

Next ==
    \/ \E r \in Request : RequestStep(r)
    \/ \E s \in SystemSignal : SystemStep(s)
    \/ LoopStep

Spec == Init /\ [][Next]_vars

\* A worker polls the task queue of the workflow, activities end within their
\* attempts, and the selector takes what is there: a request whose handler has
\* begun is decided, and a signal on a channel is handled in the end.  Nothing
\* is assumed of users, downstream services, scans or timers.
Fairness ==
    \A r \in Request :
        /\ WF_vars(RejectSuspended(r) \/ RejectRequest(r) \/ RouteRequest(r))
        /\ WF_vars(IgnoreCompletion(r) \/ CompleteOperation(r) \/ CompleteNFR(r))
        /\ WF_vars(RevivalApproved(r)
                   \/ DropDuplicate(Signal("revival-approved", r)))
LiveSpec == Spec /\ Fairness

-----------------------------------------------------------------------------
(* Properties.                                                             *)

NeedsLock(r) == RequiresFinancialLock(TypeOf[r])

\* The lock is never left behind: whoever removes its holder from the pending
\* list (completion, withdrawal, death, admin void) also releases it, so that
\* the signal that will release it is still awaited.
LockHolderPending == activeLock \in PendingRequests \cup {NoRequest}

\* BR-PM-030 in the workflow: a pending request that needs the lock holds it,
\* so there is at most one, until the first phase of a revival lets go of it.
LockedWhilePending ==
    \A r \in PendingRequests :
        NeedsLock(r) /\ Signal("revival-approved", r) \notin processed
            => activeLock = r

\* The policy_lock row the HTTP handlers consult names the holder the workflow
\* has in memory, as long as no activity has failed all its attempts.
LockMirrored == faults = 0 => lockRow = activeLock

\* BR-PM-030 downstream: of the operations that need the lock, one at most runs
\* that was not asked to stop, that of the request that holds the lock.
\* Preemption, withdrawal and voiding ask before they release; they do not wait,
\* so an operation on its way out may still run beside the next one, and report.
UnlockedToldToStop ==
    faults = 0 =>
        \A r \in Request : child[r] = "running" /\ NeedsLock(r) => activeLock = r

\* Nothing waits for a downstream workflow that was asked to stop or never began:
\* its completion need not come, and the entry, and its lock, would stay.
PendingAlive ==
    \A r \in PendingRequests :
        child[r] \notin {"none", "stopping", "stopping2", "cancelled"}

\* A request is started downstream once, however often its signal is delivered
\* and whatever was withdrawn, preempted or carried over in between.
StartedOnce ==
    [][\A r \in Request : child'[r] = "running" => child[r] \in {"none", "running"}]_vars

\* A completion whose request is not pending any more: it was completed,
\* withdrawn, preempted or voided before.
Unmatched(sig) == sig.kind = "completed" /\ sig.id \notin PendingRequests

\* FR-PM-003: a step that takes one signal off its channel changes nothing else
\* if the signal was processed before or, for completions, which are not checked
\* against the processed ids, if its request is not pending.  Three exceptions:
\* policy-created resets the status in memory before it is checked, and the
\* cooling loop counts a loan balance and refunds a premium once more.
DuplicateChangesNothing ==
    [][\A sig \in inbox :
            (sig \in processed \/ Unmatched(sig)) /\ inbox' = inbox \ {sig} =>
                /\ UNCHANGED <<activeLock, pending, lockRow, sr, child>>
                /\ \/ policy' = policy
                   \/ sig.kind = "system" /\ KindOf[sig.id] = "policy-created"
                /\ \/ row' = row
                   \/ /\ phase = "cooling"
                      /\ sig.kind = "system"
                      /\ KindOf[sig.id] = "loan-balance-updated"
                /\ \/ refunds' = refunds
                   \/ /\ phase = "cooling"
                      /\ sig.kind = "system"
                      /\ KindOf[sig.id] = "premium-paid"]_vars

\* The workflow implements the exclusive lock that BR-PM-030 promises: one
\* holder at a time, one grant per request.
Lock == INSTANCE FinancialLock
            WITH holder <- activeLock,
                 granted <- {r \in Request : NeedsLock(r) /\ child[r] # "none"}
LockImplemented == Lock!Spec

\* Nobody else writing the row, the guarded updates of the workflow never miss,
\* and memory and row agree whenever no handler is half way.  The row has no
\* other writer if no scan runs, no metadata is updated, no free-look timer
\* races a handler, policy-created is not repeated, and no policy is reopened,
\* which restores the status in memory only.
SoleWriter ==
    /\ \A s \in SystemSignal :
            KindOf[s] \notin {"policy-created", "premium-paid",
                              "payment-dishonored", "loan-balance-updated",
                              "customer-id-merge", "reopen-request"}
    /\ \A r \in Request : TypeOf[r] \notin {"LOAN", "LOAN_REPAYMENT", "ASSIGNMENT"}
    /\ "FREE_LOOK_ACTIVE" \notin StartStatus
    /\ MaxScans = 0 /\ MaxFaults = 0
WriteThrough ==
    SoleWriter =>
        /\ policy.status = row.status /\ policy.version = row.version
        /\ read \subseteq {row}

\* Whether the policy carries a loan decides which requests its gates let
\* through, in the workflow as in the HTTP handlers: both keep the same answer,
\* even where the guarded status update of the same completion missed.
LoanMirrored == faults = 0 => policy.hasLoan = row.hasLoan

\* The policy always has a status: the reverts to the previous status
\* (rejection, withdrawal, reopening) never find it unset.
StatusKnown == policy.status # NoStatus

\* Only a terminal policy cools down, so a reopened one is back in its loop.
CoolingTerminal == phase = "cooling" => policy.status \in Terminal

\* A completion is handled in the end and frees the lock, unless the workflow
\* ends first.
LockReleased ==
    \A r \in Request :
        (activeLock = r /\ child[r] \in Outcome)
            ~> (activeLock # r \/ phase # "running")

-----------------------------------------------------------------------------
(* Properties the code does not have.                                      *)

\* "Find and remove matching pending request": a service request is marked
\* COMPLETED when its own operation has ended.
CompletedIsOver ==
    \A r \in Request : sr[r] = "COMPLETED" => child[r] \in Outcome

\* BR-PM-110: while an AML flag is raised and not cleared, no request but a
\* death claim is started.
Flagged ==
    /\ \E s \in SystemSignal :
            KindOf[s] = "aml-flag-raised" /\ Signal("system", s) \in processed
    /\ \A s \in SystemSignal :
            KindOf[s] = "aml-flag-cleared" => Signal("system", s) \notin processed
SuspensionHolds ==
    [][\A r \in Request :
            child[r] = "none" /\ child'[r] = "running" /\ TypeOf[r] # "DEATH_CLAIM"
                => ~ Flagged]_vars
=============================================================================
