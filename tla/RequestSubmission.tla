-------------------------- MODULE RequestSubmission --------------------------
(***************************************************************************)
(* The HTTP handlers of policy-management that submit, withdraw and void,  *)
(* cut at every call they make, beside the workflow of the policy they     *)
(* signal.  Several customers call at once, with the same or with          *)
(* different idempotency keys; a call may fail or its process may die      *)
(* between any two steps.                                                  *)
(*                                                                         *)
(* PolicyLifecycle has one submission per request in one step; here a      *)
(* request is a row, several rows may carry one key, and the workflow,     *)
(* which PolicyLifecycle has in detail, takes one step per signal.         *)
(*                                                                         *)
(* Before some operators stands a faulty variant, named for its fault,     *)
(* that no action uses: put in its place, it breaks a property.            *)
(***************************************************************************)
EXTENDS PolicyRules, SequencesExt

CONSTANTS
    Clients,        \* callers of the endpoints
    Keys, NoKey,    \* values of X-Idempotency-Key, and its absence
    Submissions,    \* the keys and endpoints of the submissions that are made
    Reports,        \* the outcomes the downstream services report
    StartStatus,    \* the statuses the policy may have at first
    MaxCalls,       \* bound: calls made
    MaxTrouble      \* bound: failed steps, AML flags and admin voids together

Types == (RequestType \cup {"PAID_UP"}) \ {"FORCED_SURRENDER"}

ASSUME SubmissionKinds == Submissions \subseteq (Keys \cup {NoKey}) \X Types
ASSUME SubmissionKeys == NoKey \notin Keys /\ Keys \cap Nat = {}
ASSUME SubmissionBounds ==
    /\ StartStatus \subseteq Status \ Terminal /\ Reports \subseteq Outcome
    /\ MaxCalls \in Nat /\ MaxTrouble \in Nat

VARIABLES
    rows,           \* service_request: the n-th row has request_id n
    call,           \* what each client's call has come to
    policy,         \* status, as the workflow and the row hold it
    activeLock,     \* the dedup key the lock is held for, in workflow and row
    sent, handled,  \* signals sent to the workflow, and those it has handled
    processed,      \* ProcessedSignalIDs
    pending,        \* PendingRequests: dedup key and row of each
    child,          \* the child workflow of each dedup key
    granted,        \* dedup keys the lock was ever granted to
    over,           \* the main loop of the workflow takes no more signals
    calls, moves, faults

vars == <<rows, call, policy, activeLock, sent, handled, processed, pending,
          child, granted, over, calls, moves, faults>>
workflow == <<policy, activeLock, handled, processed, pending, child, granted, over>>

Ids == 1..MaxCalls
DedupKeys == Keys \cup Ids
RowStatus == {"RECEIVED", "ROUTED", "STATE_GATE_REJECTED", "COMPLETED", "WITHDRAWN"}
\* "stopping": running, and asked to stop.
ChildStatus == {"none", "running", "stopping", "cancelled"} \cup Outcome

Signal(kind, id) == [kind |-> kind, id |-> id]
SignalKinds == {"request", "withdrawal", "completed", "void"}

\* at: the next step.  "accepted" is a call answered 202, any other end is idle.
NoCall == [at |-> "idle", key |-> NoKey, type |-> "", id |-> 0]
Steps == {"idle", "policy", "lock", "insert", "signal", "mark", "accepted",
          "withdraw", "notify", "void"}

Init ==
    /\ rows = <<>> /\ call = [c \in Clients |-> NoCall]
    /\ policy \in [status : StartStatus, previous : {NoStatus}, before : {NoStatus}]
    /\ activeLock = NoKey /\ granted = {}
    /\ sent = {} /\ handled = {} /\ processed = {} /\ pending = <<>>
    /\ child = [k \in DedupKeys |-> "none"]
    /\ over = FALSE
    /\ calls = 0 /\ moves = 0 /\ faults = 0

-----------------------------------------------------------------------------
(* Submission, steps 2 to 9. *)

\* What the endpoints pass as isFinancial: not repayments and death claims.
IsFinancial(type) ==
    type \in (LockedType \ {"FORCED_SURRENDER"}) \cup {"PAID_UP"}

Troubled == faults + moves < MaxTrouble

Free(c) == call[c].at \in {"idle", "accepted"}
Began == calls < MaxCalls /\ calls' = calls + 1
Goes(c, step) == call' = [call EXCEPT ![c].at = step]
Ends(c) == call' = [call EXCEPT ![c] = NoCall]
Accepts(c, id) == call' = [call EXCEPT ![c] = [NoCall EXCEPT !.at = "accepted", !.id = id]]
Marked(id, status) == rows' = [rows EXCEPT ![id].status = status]
Send(signal) == sent' = sent \cup {signal}

WithKey(key) == {id \in DOMAIN rows : key # NoKey /\ rows[id].key = key}

\* Any row with the key answers (LIMIT 1, no order); it must be of the same type.
Submit(c, key, type) ==
    /\ Free(c) /\ Began
    /\ IsFinancial(type) => key # NoKey
    /\ \/ /\ WithKey(key) = {}
          /\ call' = [call EXCEPT ![c] =
                          [at |-> "policy", key |-> key, type |-> type, id |-> 0]]
       \/ \E id \in WithKey(key) :
            IF rows[id].type = type THEN Accepts(c, id) ELSE Ends(c)
    /\ UNCHANGED <<rows, sent, workflow, moves, faults>>

\* GetPolicyByNumber and checkStateGate.  The model's policy has no loan.
PassGate(c) ==
    /\ call[c].at = "policy"
    /\ IF ~CheckStateGate(call[c].type, policy.status, FALSE) THEN Ends(c)
       ELSE Goes(c, IF IsFinancial(call[c].type) THEN "lock" ELSE "insert")
    /\ UNCHANGED <<rows, sent, workflow, calls, moves, faults>>

CheckFinancialLock(c) ==
    /\ call[c].at = "lock"
    /\ IF activeLock # NoKey THEN Ends(c) ELSE Goes(c, "insert")
    /\ UNCHANGED <<rows, sent, workflow, calls, moves, faults>>

\* Nothing in the schema makes the key unique: two callers may both insert.
CreateServiceRequest(c) ==
    /\ call[c].at = "insert"
    /\ rows' = Append(rows, [key |-> call[c].key, type |-> call[c].type,
                             status |-> "RECEIVED"])
    /\ call' = [call EXCEPT ![c].at = "signal", ![c].id = Len(rows) + 1]
    /\ UNCHANGED <<sent, workflow, calls, moves, faults>>

SignalErrorLogged(c) ==
    /\ call[c].at = "signal"
    /\ Goes(c, "mark")
    /\ UNCHANGED <<rows, sent, workflow, calls, moves, faults>>

SignalWorkflow(c) ==
    /\ call[c].at = "signal"
    /\ Send(Signal("request", call[c].id))
    /\ Goes(c, "mark")
    /\ UNCHANGED <<rows, workflow, calls, moves, faults>>

\* Step 8 writes ROUTED whatever the row says by now.
MarkRouted(c) ==
    /\ call[c].at = "mark"
    /\ Marked(call[c].id, "ROUTED")
    /\ Accepts(c, call[c].id)
    /\ UNCHANGED <<sent, workflow, calls, moves, faults>>

\* A failure of step 8 is logged only.
MarkFails(c) ==
    /\ call[c].at = "mark" /\ Troubled
    /\ Accepts(c, call[c].id)
    /\ faults' = faults + 1
    /\ UNCHANGED <<rows, sent, workflow, calls, moves>>

\* A step fails and the caller gets an error, or the process dies: what was
\* written stays, and nobody takes the call up again.
Abort(c) ==
    /\ ~Free(c) /\ Troubled
    /\ Ends(c)
    /\ faults' = faults + 1
    /\ UNCHANGED <<rows, sent, workflow, calls, moves>>

-----------------------------------------------------------------------------
(* PUT .../withdraw and POST .../admin-void. *)

WithdrawableAlways(id) == TRUE
Withdrawable(id) == rows[id].status \in {"RECEIVED", "ROUTED"}

Withdraw(c, id) ==
    /\ Free(c) /\ Began
    /\ Withdrawable(id)
    /\ call' = [call EXCEPT ![c] = [NoCall EXCEPT !.at = "withdraw", !.id = id]]
    /\ UNCHANGED <<rows, sent, workflow, moves, faults>>

\* The UPDATE is guarded, and nobody asks whether it found the row.
WithdrawServiceRequest(c) ==
    /\ call[c].at = "withdraw"
    /\ IF Withdrawable(call[c].id) THEN Marked(call[c].id, "WITHDRAWN") ELSE UNCHANGED rows
    /\ Goes(c, "notify")
    /\ UNCHANGED <<sent, workflow, calls, moves, faults>>

NotifyWithdrawal(c) ==
    /\ call[c].at = "notify"
    /\ Send(Signal("withdrawal", call[c].id))
    /\ Ends(c)
    /\ UNCHANGED <<rows, workflow, calls, moves, faults>>

AdminVoidPolicy(c) ==
    /\ Free(c) /\ Troubled
    /\ policy.status \notin Terminal
    /\ call' = [call EXCEPT ![c] = [NoCall EXCEPT !.at = "void"]]
    /\ moves' = moves + 1
    /\ UNCHANGED <<rows, sent, workflow, calls, faults>>

SignalVoid(c) ==
    /\ call[c].at = "void"
    /\ Send(Signal("void", 0))
    /\ Ends(c)
    /\ UNCHANGED <<rows, workflow, calls, moves, faults>>

-----------------------------------------------------------------------------
(* GET .../requests/pending, the inbox of the back office. *)

InboxReceived == {id \in DOMAIN rows : rows[id].status = "RECEIVED"}
GetPendingRequests == {id \in DOMAIN rows : rows[id].status \in {"RECEIVED", "ROUTED"}}

-----------------------------------------------------------------------------
(* The workflow: one step per signal. *)

DedupById(id) == id
Dedup(id) == IF rows[id].key = NoKey THEN id ELSE rows[id].key

Handles(signal) ==
    /\ ~over /\ signal \in sent \ handled
    /\ handled' = handled \cup {signal}
    /\ UNCHANGED <<sent, call, calls, moves, faults>>

Transitions(status) == [policy EXCEPT !.status = status, !.previous = policy.status]
PositionOf(key) == SelectInSeq(pending, LAMBDA p : p.key = key)
IsPending(key) == PositionOf(key) > 0

\* The children are asked to stop; nobody waits until they do.
Cancelled(keys) ==
    [k \in DedupKeys |-> IF k \in keys /\ child[k] = "running" THEN "stopping" ELSE child[k]]
PendingKeys == {p.key : p \in ToSet(pending)}
Freed(key) == IF activeLock = key THEN NoKey ELSE activeLock

\* A paid-up request carries a numeric request_id where the workflow reads a
\* string.  Receive drops what it cannot decode and waits for the next signal of
\* its channel, so that the loop takes no other: as no endpoint sends one that
\* can be decoded, it waits for ever.
Undecodable(id) == rows[id].type = "PAID_UP"
WaitForDecodable(id) ==
    /\ Handles(Signal("request", id))
    /\ Undecodable(id)
    /\ over' = TRUE
    /\ UNCHANGED <<rows, policy, activeLock, processed, pending, child, granted>>
Receives(id) == Handles(Signal("request", id)) /\ ~Undecodable(id)

\* A key already processed, under this row or another, changes nothing.
DropDuplicate(id) ==
    /\ Receives(id)
    /\ Dedup(id) \in processed
    /\ UNCHANGED <<rows, policy, activeLock, processed, pending, child, granted, over>>

NewUnchecked(id) == Receives(id)
NewRequest(id) == Receives(id) /\ Dedup(id) \notin processed

\* The death notification first cancels what holds the lock and forgets the rest.
Preempted(id) == rows[id].type = "DEATH_CLAIM"
Keep(id) == IF Preempted(id) THEN <<>> ELSE pending
LockAfter(id) == IF Preempted(id) THEN NoKey ELSE activeLock
ChildrenAfter(id) ==
    IF Preempted(id) /\ IsPending(activeLock) THEN Cancelled({activeLock}) ELSE child

\* Neither marked nor remembered as processed.
StopSuspended(id) ==
    /\ NewRequest(id)
    /\ policy.status = "SUSPENDED" /\ rows[id].type \notin NFRType
    /\ activeLock' = LockAfter(id) /\ pending' = Keep(id)
    /\ child' = ChildrenAfter(id)
    /\ UNCHANGED <<rows, policy, processed, granted, over>>

Refused(id) ==
    \/ ~IsStateEligible(rows[id].type, policy.status, FALSE)
    \/ RequiresFinancialLock(rows[id].type) /\ activeLock # NoKey

RejectRequest(id) ==
    /\ NewRequest(id)
    /\ policy.status = "SUSPENDED" => rows[id].type \in NFRType
    /\ Refused(id)
    /\ Marked(id, "STATE_GATE_REJECTED")
    /\ processed' = processed \cup {Dedup(id)}
    /\ activeLock' = LockAfter(id) /\ pending' = Keep(id)
    /\ child' = ChildrenAfter(id)
    /\ UNCHANGED <<policy, granted, over>>

AcquireFinancialLock(id) ==
    IF RequiresFinancialLock(rows[id].type)
    THEN activeLock' = Dedup(id) /\ granted' = granted \cup {Dedup(id)}
    ELSE activeLock' = LockAfter(id) /\ UNCHANGED granted

RouteRequest(id) ==
    /\ NewRequest(id)
    /\ policy.status # "SUSPENDED" /\ ~Refused(id)
    /\ LET status == PreRouteStatus(rows[id].type)
       IN policy' = IF status = NoStatus THEN policy ELSE Transitions(status)
    /\ AcquireFinancialLock(id)
    /\ child' = [ChildrenAfter(id) EXCEPT ![Dedup(id)] = "running"]
    /\ pending' = Append(Keep(id), [key |-> Dedup(id), id |-> id])
    /\ Marked(id, "ROUTED")
    /\ processed' = processed \cup {Dedup(id)}
    /\ UNCHANGED over

\* Also a child that was asked to stop, if it was too far on to do so.
ChildReports(key, outcome) ==
    /\ child[key] \in {"running", "stopping"}
    /\ child' = [child EXCEPT ![key] = outcome]
    /\ Send(Signal("completed", key))
    /\ UNCHANGED <<rows, call, policy, activeLock, handled, processed, pending,
                   granted, over, calls, moves, faults>>

ChildStops(key) ==
    /\ child[key] = "stopping"
    /\ child' = [child EXCEPT ![key] = "cancelled"]
    /\ UNCHANGED <<rows, call, policy, activeLock, sent, handled, processed,
                   pending, granted, over, calls, moves, faults>>

\* No pending request matches: withdrawn, or forgotten by a death notification.
IgnoreCompletion(key) ==
    /\ Handles(Signal("completed", key))
    /\ ~IsPending(key)
    /\ processed' = processed \cup {key}
    /\ UNCHANGED <<rows, policy, activeLock, pending, child, granted, over>>

\* The pointer to the matched entry outlives the compaction of the list: the row
\* that is marked is that of the entry behind it, if there is one.
MarkedBy(i) == pending[IF i < Len(pending) THEN i + 1 ELSE i].id
TypeOfKey(key) == rows[pending[PositionOf(key)].id].type

CompleteOperation(key) ==
    /\ Handles(Signal("completed", key))
    /\ IsPending(key)
    /\ LET type == TypeOfKey(key)
           status == CompletionStatus(type, child[key], FALSE, policy.previous)
       IN /\ policy' = IF status \in {NoStatus, policy.status} THEN policy
                       ELSE Transitions(status)
          /\ over' = CompletionIsTerminal(type, child[key], FALSE)
    /\ Marked(MarkedBy(PositionOf(key)), "COMPLETED")
    /\ pending' = RemoveAt(pending, PositionOf(key))
    /\ activeLock' = Freed(key)
    /\ processed' = processed \cup {key}
    /\ UNCHANGED <<child, granted>>

WithdrawalIgnored(id) ==
    /\ Handles(Signal("withdrawal", id))
    /\ UNCHANGED <<rows, policy, activeLock, processed, pending, child, granted, over>>

\* The target is named by its dedup key, which other rows may share.
HandleWithdrawal(id) ==
    /\ Handles(Signal("withdrawal", id))
    /\ LET key == Dedup(id)
       IN IF IsPending(key)
          THEN /\ child' = Cancelled({key})
               /\ policy' = IF PreRouteStatus(TypeOfKey(key)) = policy.status
                            THEN Transitions(policy.previous) ELSE policy
               /\ pending' = RemoveAt(pending, PositionOf(key))
               /\ activeLock' = Freed(key)
          ELSE UNCHANGED <<child, policy, pending, activeLock>>
    /\ UNCHANGED <<rows, processed, granted, over>>

HandleAdminVoid ==
    /\ Handles(Signal("void", 0))
    /\ child' = Cancelled(PendingKeys)
    /\ pending' = <<>> /\ activeLock' = NoKey
    /\ policy' = Transitions("VOID")
    /\ over' = TRUE
    /\ UNCHANGED <<rows, processed, granted>>

\* Clearing the flag restores what raising it saved, whatever the status is now.
AMLFlagRaised ==
    /\ ~over /\ Troubled /\ policy.before = NoStatus
    /\ policy' = [Transitions("SUSPENDED") EXCEPT !.before = policy.status]
    /\ moves' = moves + 1
    /\ UNCHANGED <<rows, call, activeLock, sent, handled, processed, pending,
                   child, granted, over, calls, faults>>
AMLFlagCleared ==
    /\ ~over /\ policy.before # NoStatus
    /\ policy' = [status |-> policy.before, previous |-> "SUSPENDED", before |-> NoStatus]
    /\ UNCHANGED <<rows, call, activeLock, sent, handled, processed, pending,
                   child, granted, over, calls, moves, faults>>

-----------------------------------------------------------------------------
HandlerStep(c) ==
    \/ \E s \in Submissions : Submit(c, s[1], s[2])
    \/ PassGate(c) \/ CheckFinancialLock(c) \/ CreateServiceRequest(c)
    \/ SignalWorkflow(c) \/ MarkRouted(c) \/ MarkFails(c) \/ Abort(c)
    \/ \E id \in DOMAIN rows : Withdraw(c, id)
    \/ WithdrawServiceRequest(c) \/ NotifyWithdrawal(c)
    \/ AdminVoidPolicy(c) \/ SignalVoid(c)

WorkflowStep ==
    \/ \E id \in DOMAIN rows :
         \/ WaitForDecodable(id) \/ DropDuplicate(id)
         \/ StopSuspended(id) \/ RejectRequest(id)
         \/ RouteRequest(id) \/ HandleWithdrawal(id)
    \/ \E key \in DedupKeys : IgnoreCompletion(key) \/ CompleteOperation(key)
    \/ HandleAdminVoid

Next ==
    \/ \E c \in Clients : HandlerStep(c)
    \/ WorkflowStep
    \/ \E key \in DedupKeys, outcome \in Reports : ChildReports(key, outcome)
    \/ \E key \in DedupKeys : ChildStops(key)
    \/ AMLFlagRaised \/ AMLFlagCleared

Spec == Init /\ [][Next]_vars

-----------------------------------------------------------------------------
(* Properties. *)

TypeOK ==
    /\ rows \in Seq([key : Keys \cup {NoKey}, type : Types, status : RowStatus])
    /\ Len(rows) <= MaxCalls
    /\ call \in [Clients -> [at : Steps, key : Keys \cup {NoKey},
                             type : Types \cup {""}, id : {0} \cup Ids]]
    /\ policy \in [status : Status, previous : Status \cup {NoStatus},
                   before : Status \cup {NoStatus}]
    /\ activeLock \in Keys \cup {NoKey} /\ granted \subseteq Keys
    /\ sent \subseteq [kind : SignalKinds, id : {0} \cup DedupKeys]
    /\ handled \subseteq sent /\ processed \subseteq DedupKeys
    /\ \A p \in ToSet(pending) : p.id \in DOMAIN rows /\ p.key = Dedup(p.id)
    /\ child \in [DedupKeys -> ChildStatus]
    /\ over \in BOOLEAN
    /\ calls \in 0..MaxCalls /\ moves + faults \in 0..MaxTrouble

\* A caller that was answered 202, also one that only repeated the key of another
\* call, has a request the workflow is told of, now or when that other call goes
\* on; only a failed step leaves it untold.
AcceptedIsSignalled ==
    \A c \in Clients :
        call[c].at = "accepted" =>
            \/ Signal("request", call[c].id) \in sent
            \/ \E d \in Clients : call[d].at = "signal" /\ call[d].id = call[c].id
            \/ faults > 0

\* What the workflow decided of a request is overwritten in its row only by the
\* last step of the call that submitted it.
DecisionKept ==
    [][\A id \in DOMAIN rows :
         rows[id].status \in {"STATE_GATE_REJECTED", "COMPLETED"}
           /\ rows'[id].status # rows[id].status
         => /\ rows'[id].status = "ROUTED"
            /\ \E c \in Clients : call[c].at = "mark" /\ call[c].id = id]_vars

PendingIds == {p.id : p \in ToSet(pending)}
WithdrawalToCome(id) ==
    \/ Signal("withdrawal", id) \in sent \ handled
    \/ \E c \in Clients : call[c].at = "notify" /\ call[c].id = id

\* After every step, a pending request whose row is WITHDRAWN has its withdrawal
\* still to come, unless a step failed or the withdrawal had been handled before
\* that step.  So the step that handles it stops the request, and a withdrawal
\* that stops nothing is one that overtook its request.
WithdrawnIsStopped ==
    [][\A id \in PendingIds' :
         rows'[id].status = "WITHDRAWN" =>
            \/ WithdrawalToCome(id)'
            \/ Signal("withdrawal", id) \in handled
            \/ faults' > 0]_vars

\* The back office finds in its inbox every request that runs downstream.  Only
\* two things hide one: a withdrawal that is on its way, and a completion of
\* another request, which marks the row behind its own.
InboxShowsRunning ==
    \A p \in ToSet(pending) :
        child[p.key] = "running" =>
            \/ p.id \in GetPendingRequests
            \/ rows[p.id].status = "WITHDRAWN"
            \/ \E k \in processed \ {p.key} : child[k] \in Outcome

\* One child per idempotency key is started, once, however many rows carry the
\* key and whatever became of the first.
OneRunPerKey ==
    [][\A key \in DedupKeys :
         child'[key] = "running" => child[key] \in {"none", "running"}]_vars

\* With calls that race past the database's lock and rows that share a key, the
\* workflow still keeps what FinancialLock promises.
Lock == INSTANCE FinancialLock
            WITH Request <- Keys, NoRequest <- NoKey, holder <- activeLock
LockImplemented == Lock!Spec

-----------------------------------------------------------------------------
(* A property the code does not have. *)

\* "PM calculates PU value and transitions": the paid-up request the workflow
\* takes of a policy in force makes it paid-up, or void if its value is too small.
PaidUpTransitions ==
    [][\A id \in DOMAIN rows :
         /\ rows[id].type = "PAID_UP" /\ policy.status = "ACTIVE"
         /\ Signal("request", id) \in handled' \ handled
         => policy'.status \in {"PAID_UP", "VOID"}]_vars
=============================================================================
