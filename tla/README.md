# Verification of customernfs-integration

TLA+ models, TLC runs and TLAPS proofs for the two Go services of this repository:
`policy-management` (PM), which keeps one long-running Temporal workflow per insurance policy, and
`pli-customernfs-backend-development` (NFS), which runs the address- and name-change workflows of customers.

Paths of PM are relative to `src/policy-management/`, those of NFS to
`src/pli-customernfs-backend-development/`. `W` is PM's `workflows/policy_lifecycle_workflow.go`, `H` its
`handler/policy_request_handler.go`; `AW` and `NW` are NFS's `temporal/workflows/address_change_workflow.go`
and `name_change_workflow.go`.

## The system

| Component | State it keeps | Operations | How it interacts |
|---|---|---|---|
| PM lifecycle workflow (`W`, `workflows/signals.go`) | `PolicyLifecycleState`: status, previous statuses, version, pending requests, active lock, processed ids, encumbrances | one handler per signal: 13 kinds of request, 12 completions, 15 system, compliance and admin signals, batch sync; terminal cooling; Continue-As-New; free-look goroutine | gets signals from HTTP handlers, child workflows and batch scans; writes rows through activities; starts and cancels children |
| PM activities (`workflows/activities/policy_activities.go`, `migrations/`) | rows `policy`, `policy_lock`, `service_request`, `terminal_state_snapshot` | guarded status update, metadata update, lock row, request status, refresh, snapshot | called by the workflow, 3 attempts, errors ignored by the handlers |
| PM request handlers (`H`, `handler/request_lifecycle_handler.go`) | none of their own | submit (key, gate, lock test, insert, signal, mark ROUTED), withdraw, admin void, reopen, inbox | read and write the same rows, signal the workflow |
| PM queries (`handler/policy_query_handler.go`) | none | status, summary, batch status, state gate, history, dashboard | Temporal queries, then the policy row, then the snapshot |
| PM batch scans (`workflows/batch_scan_workflow.go`, `activities/batch_activities.go`, `bootstrap/`) | schedules, scan progress | lapsation, two remission scans, paid-up conversion, maturity, forced-surrender evaluation | move rows in bulk, then signal each workflow |
| Downstream services (external) | their own | run a request, report approved / rejected / timeout, approve a revival before its instalments | child workflows, abandoned by their parent, answering by signal |
| NFS change workflows (`temporal/`) | position, attempts, signals received | Aadhaar and manual flows for address and name, OTP, queue, approval loop with send-back, SLA timers, withdrawal workflow | started and signalled by the handlers, write the tables through activities |
| NFS handlers and repositories (`handler/`, `repo/postgres/`) | `service_request` and details, `cpc_work_queue`, version histories, tickets | initiate, verify OTP, submit, approve, withdraw; assign, reject, send back, missing documents | rows and signals |
| NFS documents, lookups, status; PM quotes | files; none | upload, download, delete; read only | rows nothing else reads |

What is hard here. In PM the status and the lock live in three places (workflow memory, the row, and
what the HTTP handlers read) and are written at different moments; a handler waits for activities while
the free-look goroutine and the scans go on; signals are delivered at least once, on one channel per
kind, and what is buffered is lost when the workflow continues as new; failed writes are ignored; a
death claim preempts everything; scans that restart, overlap and page by OFFSET move rows before they
tell the workflows. In NFS a status is tested by a handler, written without a guard by the workflow and
withdrawn by a third workflow; activities of several transactions are retried; waits end by signal or
timer. The hazards are listed, each at its line, in `PROJECT.json`.

What makes the components correct. PM: one locked operation at a time on a policy (BR-PM-030), no lock
without somebody whose signal will release it, the lock row agreeing with the workflow, a request started
once (FR-PM-003) however often it is submitted or delivered, memory and row agreeing on status and loan,
suspension that holds until it is cleared (BR-PM-110), cooling that begins with a terminal status, a caller
answered 202 whose request the workflow hears of, scans that catch up with what is due. NFS: a customer's
data change only after the customer or the processing centre agreed, and a request reads COMPLETED only
after the change; a retry is the only cause of a second write; a withdrawal stands once its workflow is over; every wait with a timer ends.

## Modules

| Module | Models |
|---|---|
| `PolicyRules` | PM's tables: statuses, both state gates, who needs the lock, pre-route statuses, completion outcomes. No state. |
| `FinancialLock` | abstract: the lock of BR-PM-030, one holder, one grant per request |
| `PolicyLifecycle` | the lifecycle workflow with its rows, its children, and one-step submission, withdrawal and scans; implements `FinancialLock` |
| `PolicyQueries` | the query endpoints, as operators on the state of `PolicyLifecycle` |
| `RequestSubmission` | submit, withdraw, void and inbox, one step per call a handler makes, several callers and rows per key, beside a workflow of one step per signal; implements `FinancialLock` |
| `BatchScan` | schedules, scan workflow and scan activities over rows, workflow memories and signals |
| `ChangeControl` | abstract: data change only when agreed to, complete only when changed |
| `NFSStore`, `NFSActivities` | NFS's tables and repository transactions; the activities as transactions |
| `NFSWorkflows` | the four change workflows and the withdrawal workflow |
| `CustomerNFS` | the NFS handlers, one step per call they make, composed with the workflows; implements `ChangeControl` |
| `MCPolicyLifecycle`, `MCRequestSubmission`, `MCBatchScan`, `MCCustomerNFS` | values for the configurations |
| `PolicyLifecycle_proofs`, `PolicyStatus_proofs` | theorems on the workflow's lock, and on its statuses, rows, gate and duplicates |
| `RequestSubmission_proofs`, `BatchScan_proofs`, `CustomerNFS_proofs` | theorems on the module they are named for |
| `SequenceLemmas` | what those proofs need of `Append`, `ToSet` and `RemoveAt` |

`PolicyRules` is used by `PolicyLifecycle` and by `RequestSubmission`: the latter refines the one-step
submission of the former on the side of the handlers, the former the one-step signals of the latter on the side of the workflow.

Before some operators stands a faulty variant, named for its fault (`ApproveUnassigned`,
`OffsetStays`): no action uses it. `PROJECT.json` names for every property of a passing run one such
variant of a mapped definition under which TLC finds the property violated.

### PolicyLifecycle

`policy` is `PolicyLifecycleState` reduced to what the handlers decide on; `row` the columns of the
policy row they share with the others; `activeLock` / `lockRow`, `pending`, `processed` and `sr` are
the lock in memory and in its table, the pending list (a sequence: its order matters below),
the processed ids and the service requests. `busy` and `read` are the local state of a request
handler that waits for `RefreshStateFromDB`; `phase` is the place of the workflow's control (main
loop, cooling, closed); `inbox` holds the signals sent and not handled, `syncs` the batch-state-sync
ones in order; `scan` is a scan between its SELECT and its UPDATE; `unmarked` are the submissions
whose HTTP handler has yet to write ROUTED.

One action is one handler with every write it makes. `ReceiveRequest` and
`RejectSuspended` / `RejectRequest` / `RouteRequest` are the two halves of `handleFinancialRequest`,
`handleDeathNotification` and `handleNFRRequest`, cut where the code waits for the refresh; the
others run to their end, since no decision of theirs reads anything after a wait. Where a handler
makes several writes, `Lost` chooses at most one whose activity fails for good.
`MatchedAfterCompaction` is what the pointer of `handleOperationCompleted` shows after the list was
compacted in place. The version trigger of the policy table is in `Touched`, the silent miss of the
guarded update in `Recorded`.

`CancelDownstreamWorkflowActivity` asks Temporal to cancel a child, drops the error and returns; the child was
started to outlive its parent. `Cancelled` therefore only makes it `stopping` (`stopping2` after a revival's
first phase): `ChildStops` ends it at some time or never, and until then it may still report like any other. An
operation on its way out may so run beside the one that holds the lock next. What the code does ensure
is `UnlockedToldToStop`: every running operation but the holder's has been asked. `refunds` counts the
PREMIUM_REFUND service requests that the cooling period makes of a premium, one for each
delivery; deliveries beyond the second are not followed.

### RequestSubmission

`rows` is the `service_request` table, `call` the place each client's call has come to: idempotency
lookup, gate, lock test, INSERT, SignalWorkflow, UPDATE to ROUTED are one step each, so another
call, the workflow or the death of the process may come between any two (`Abort`). The workflow is
`policy`, `activeLock`, `pending`, `processed`, `child` with one step per signal; memory and row do
not differ here. A cancelled child is `stopping` first, as above. A dedup key is the caller's key or, without one, the row's id, so that several
rows may share a key. `WaitForDecodable` is the voluntary paid-up signal that the workflow cannot decode.

### BatchScan

`run` is the workflow run of each kind of scan with the activity's attempt, OFFSET, page, the bulk
updates left of it and the signals left after those. A page is a set of policies: its rows are in the
order of their ids, `Position` is a row's place in the result of the SELECT, `NextUpdate` and `Signals`
take updates and rows in the order of the code; `row` and `memory` are the two views of each
policy, `syncs` what lies between them. The SELECT of a page, each bulk update and each signal are
steps of their own; `WorkerLost` and `FetchFails` restart the activity at the first page, as its retry does.
`trait` holds what the scans read of a policy and nobody changes meanwhile (age, protection,
maturity, paid-up value, loan), `scheduled` the schedules that start-up got to register.

### NFSStore, NFSActivities, NFSWorkflows, CustomerNFS

`db` holds the tables, and an operation on them returns whether its transaction commits and the tables
afterwards. `wf[r].pc` is the place of a request's workflow, `tries` the attempts of its activity;
`Fails` is an attempt that did nothing, or committed and lost its reply. `sig` are signals delivered
and not consumed. `wdw` is the withdrawal workflow. `call` is the HTTP call of each client between a
test and what it does next. `consent` is history: OTPs and approvals delivered, before anybody verified them.
The endpoints for OTP and documents test neither the type nor the kind of authentication of the request they
are called for: in the model too, an address endpoint takes the id of a name change and the other way round.

The code names columns and tables that the committed migration lacks, so which of its checks the deployed
schema enforces is open: `schema` is a constant of a behaviour, and the runs take none and all of
them. With all of them only Aadhaar address requests can be created. Audit entries without an id,
which the back office and the name workflow's status activity pass, fail in either (`Missing`).

### What is abstracted

- Dates and amounts: whether a lapse is long or short, a premium in remission, a paid-up value
  sufficient, a timer due, is a choice of the environment or a trait.
- Audit log, status history (but for the rows scans insert), events, display status, search
  attributes, counters of `batch_scan_state`, notifications.
- A database transaction is atomic. Where two run at once, PostgreSQL's default isolation lets less be
  seen: two address versions of one customer written at the same moment may both stay active.
- Signals of one PM channel are a set: senders are independent, and the only order kept is the one a
  single sender gives (a request before its withdrawal, a revival's approval before its completion,
  batch syncs among themselves). A redelivered signal is delivered twice at most. In
  `RequestSubmission` a withdrawal may be handled before its request, since the channels differ.
- In `PolicyLifecycle` the gate, insert and signal of a submission are one step, `WithdrawRequest`
  its read and guarded update, and the voluntary paid-up signal is well-formed: `RequestSubmission` has these in detail.
- A forced surrender is never submitted: the only statuses that admit it are written nowhere.
- PM's processed ids are pruned after 90 days; a redelivery later than that is not modelled.
- UIDAI's verdict is a choice, although the present stub always agrees.
- All requests of an NFS model are one customer's.

## Runs

`CHECK_DEADLOCK FALSE` where the environment is finite and the workflows end. Symmetry is used only
among interchangeable clients and keys, and in no run with a liveness property. Times are of two workers.

| Run | Question | Bounds | Distinct states |
|---|---|---|---|
| `LifecycleRequests` | Do lock, pending list, children, rows and the state gate agree while a surrender, a revival and a death claim compete under AML flags? | no failed activity | 836 263 |
| `LifecycleCompliance` | AML flags, investigation, premium, reopening and a death claim in any order, some of them twice | 1 failed activity | 1 458 082 |
| `LifecycleScans` | Does a surrender, delivered twice and perhaps withdrawn, start once and keep its lock through a scan, the free-look timer and Continue-As-New? | 1 withdrawal, 1 scan, 1 Continue-As-New | 886 096 |
| `LifecycleLoans` | Do row and workflow agree on the loan, with a dispute on the way, and is a reported completion handled and the lock released? | 1 failed activity, `LiveSpec` | 730 838 |
| `Submission` | What may two callers rely on who submit, repeat, withdraw and void? | 2 clients, 2 keys and none, 3 calls, 1 failure, flag or void | 1 567 084 |
| `BatchScans` | Do scans that overlap each other, premiums and suspensions agree with the workflows, end, and catch up? | 2 policies, pages of 1, 2 attempts, 1 move, 1 fault, `FairSpec` | 358 977 |
| `NFSRequests` | Do two calls at a time beside the workflows change data only as agreed, and leave a withdrawal alone whose workflow is over? | 1 request, 2 clients, 1 unconsumed signal of a name when a call starts | 2 866 191 |
| `NFSFailures` | What do failed and repeated activities and lost calls do, and does every timed wait end? | 1 request, 1 client, 1 fault, 2 attempts, `FairSpec` | 276 360 |

The bounds are enough for what the properties tell apart: a lock is contended by two requests and
preempted by a third; a duplicate needs one redelivery or two calls with one key; a carried-over id or
lock needs one Continue-As-New; a page that shrinks under OFFSET needs two policies and pages of
one; an attempt that is repeated needs two; a withdrawal or a failed write is undone, if at all, by the
step after it. The theorems below have no bounds.

**Fairness.** Temporal redelivers tasks until a worker completes them, activities end within their attempts,
and timers fire; nothing is assumed of users, approvers, children or bounced signals.
- `PolicyLifecycle!LiveSpec`: weak fairness of the decision of a request handler that has begun, of the
  handling of a completion, and of a revival approval, per request. Weak is enough because a completion
  stays enabled whenever the loop is idle, but for a handler that has begun, which its own fairness
  ends. `LockReleased` excuses a workflow that leaves its main loop first, and is checked without
  Continue-As-New: with it, it fails (below).
- `BatchScan!FairSpec`: schedules fire again and again, a run that a worker has goes on, workflows handle
  their syncs. `ScansCatchUp` is an `[]<>`: a row that one run skips is moved by a later one.
- `CustomerNFS!FairSpec`: the steps of each workflow and of each withdrawal workflow. Of handlers and
  customers nothing is assumed, which is why `ApprovalWaitEnds` leaves out the waits for documents: those have no timer.

### Where the code and its documentation disagree

Four runs end in a violation, each of a statement of a comment, a test or a requirements document.

| Run | Statement | What TLC finds |
|---|---|---|
| `LateCompletion` | "Find and remove matching pending request" (`W:1380`) | The list is compacted in the array the pointer to the match points into: when another request follows, its service request is marked COMPLETED while it runs, and the one that ended stays ROUTED. |
| `SuspensionBypassed` | "ALL financial operations frozen until cleared" (`req_Policy_Management_Orchestrator_v4_1.md:525`) | A metadata update makes the trigger count a version; the write of SUSPENDED then misses, the next handler refreshes ACTIVE from the row and starts the operation. |
| `PaidUpRequest` | "PM calculates PU value and transitions" (`H:733`) | The endpoint sends a number where the workflow reads a string. The signal is dropped inside the selector's callback, which waits for the next one: the main loop takes nothing more. |
| `NameDocuments` | "CREATED → [Signal: documents_submitted] → PENDING_APPROVAL" (`NW:233`) | The signal is received by the selector, and once more after it: the request waits for a second submission. |

More that reading and modelling showed, without a run of its own:

- PM workflow. Clearing a flag records SUSPENDED as the previous status, and a request rejected later restores
  it with no flag left to clear (`W:1758`). A death claim of a suspended policy is stopped by the handler
  it is passed to, after what held the lock was cancelled (`W:1203`). The cooling loop returns when its
  timer is ready although the selector took another case, leaving the snapshot unmarked (`W:2217`). A
  completion buffered at Continue-As-New is dropped and its lock stays held (`W:549`). A rejected
  revival leaves VOID without cooling. Cancelling a child only asks it to stop (`policy_activities.go:460`): the old
  operation may run, and report, while the next holds the lock, and the late approval of a revival that was
  withdrawn or preempted still makes the policy ACTIVE. Each delivery of a premium in the cooling period
  makes one more PREMIUM_REFUND request (`W:2173`). A row that a scan made VOID can be taken up again by a voluntary paid-up.
- PM submission. A failed signal leaves a RECEIVED row that a retry with its key returns unsignalled.
  A withdrawal that is handled before its request lets the request run over a WITHDRAWN row, and one
  that misses its guarded UPDATE is signalled all the same. Withdrawing one row cancels the child of
  another that shares its key. Nothing makes the key unique, although `create_service_request` of migration 368 would.
- PM queries. The endpoints ask for `getFullState` and `getStateGate` (`handler/policy_query_handler.go:45`),
  which the workflow does not register: every answer comes from the row, the gate never reports a
  lock, and the snapshot is never reached. Its table of allowed statuses omits SUSPENDED for requests its test lets pass.
- PM scans. The long remission scan selects nothing. A premium paid after the page was read does not stop the
  lapse. A crash between the bulk update and the signals loses the syncs for good. The history row is
  inserted when the guard missed too. A batch lapse tells the workflow no remission date, so that a
  premium paid within remission does not revive it (`W:1668`).
- NFS. The back-office endpoints never change anything, which is also all that keeps a submitted request without
  a workflow from going IN_PROGRESS; an endpoint of one type of change also writes to and signals requests of the other; REJECTED, PENDING_DOCUMENTS and DOCUMENTS_EXPIRED of
  a name change are never written, so after a send-back the customer can never resubmit. A submission whose status
  test is old writes PENDING_APPROVAL over a later status. Documents sent before a send-back count as the
  resubmission. The withdrawal workflow signals one hard-wired id (`NW:698`); its approval path needs a flag no code sets.
  "No PENDING request of same type for same customer" (`llm/req_customer_nfs_service.md:826`) is tested three calls
  before the insert, and the workflow of a withdrawn request runs on beside the next one and writes its
  statuses over WITHDRAWN. "Old version deactivated" (`repo/postgres/name_change.go:148`): the versions looked for are
  those of the same request, so each name change leaves one more current name.

## Proofs

`PolicyLifecycle_proofs` proves, for every set of requests and signals, every assignment of types and
kinds, every redelivery pattern and every value of the bounds:

| Theorem | Property |
|---|---|
| `TypeCorrect` | `TypeOK` |
| `LockNeverLeftBehind` | `LockHolderPending` |
| `PendingHoldsLock` | `LockedWhilePending` |
| `PendingIsAlive` | `PendingAlive` |
| `RowMirrorsLock` | `LockMirrored` |
| `OthersToldToStop` | `UnlockedToldToStop` |
| `NeverRestarted` | `StartedOnce` |
| `ImplementsLock` | `LockImplemented`, the refinement of `FinancialLock` |

They assume only what the module's `ASSUME`s say of the constants (types of the requests and signals,
distinct names, natural bounds), which TLC evaluates in every run.

None of the lock properties is inductive. The inductive invariant is `LockInvariant`, the conjunction
of four parts:

- `HandledOnce`: a request that was ever started has its id among the processed ones, and
  a handler that has begun handles an unprocessed one. Without it a second delivery could start a request
  again that is pending already.
- `ReportsTrue`: a completion in the inbox is of a child that has ended, an approval of one past its
  first phase. Without it a completion could release a lock under a running child.
- `Distinct(pending)`: no request is pending twice, so removing one entry removes the request.
- `LockKept`: the holder is pending and needs the lock, pending requests that need it hold it until
  their approval, and without failures the row names the holder and whoever else runs was asked to stop.

The proof first shows `TypeOK`, action by action; then that every step is of one of a few shapes
(`Quiet`: lock, list and children unchanged, or a report; `OperationStep`; `AdminVoid`) and that each
shape keeps each part. `DropOne` and `DropAll` say what removing one pending entry, or all, does to
`LockKept`; `StartStep` says what routing does. `StartedOnce` and the refinement follow step by step
from the invariant: a step that grants acquires a free lock for a request never granted before, any
other step releases or leaves holder and grants unchanged. The lemma on `RemoveAt` is proved from the
library's facts on `SubSeq` and concatenation.

`CustomerNFS_proofs` proves, for every set of requests and clients, every set of database schemas and
every value of the bounds:

| Theorem | Property |
|---|---|
| `TypeCorrect` | `TypeOK` |
| `DecidesAssigned` | `AssignedBeforeDecided` |
| `OnlyRetriesRepeat` | `DuplicatesAreRetries` |
| `WithdrawalStands` | `WithdrawnForGood` |
| `ImplementsChange` | `ChangeImplemented`, the refinement of `ChangeControl` |

They assume `SchemaAssumption`, `CallBounds` and `BoundsAssumption`: natural bounds, and at least one attempt.
The inductive invariant `NFSInvariant` says what has to hold between the tables, a workflow's position, the
signals that wait for it and the calls under way:

- `Agreed`: a workflow that is past an agreement, and an OTP or approval still in its signals, is of a
  request somebody agreed to. Without the part on signals the workflow could act on an approval nobody gave.
- `Queued` and `ApprovesQueued`: IN_PROGRESS is the status of queued requests only, and an approving call,
  which has tested that status, is about a queued request also when the status has changed since.
- `Counted`: before `complete` no version is written but by an attempt that failed, after it one more.
- `Begun`, `InitiateReady` and `InitiatedOnce`: a workflow exists only for a row that exists, it is
  started by the one call that initiates the request, and until then nobody works on the request.

`StepShape` shows that each step has one of four shapes, a step of a change workflow
(`WorkflowEffect`), of the withdrawal workflow (`ServiceEffect`), of a call under way (`HandlerEffect`)
or a call that begins (`CallBegins`); the lemmas before it do so operation by operation, from one lemma per
repository transaction. Each shape then keeps each part of the invariant, and leaves other requests
alone (`Apart`). The refinement and `WithdrawnForGood` are read off the shapes;
for the latter `CallBegins` records that no submission begins for a withdrawn request.

`PolicyStatus_proofs` adds, from the same assumptions as `PolicyLifecycle_proofs`:

| Theorem | Property |
|---|---|
| `StatusAlwaysKnown` | `StatusKnown` |
| `OnlyTerminalCools` | `CoolingTerminal` |
| `RowMirrorsLoan` | `LoanMirrored` |
| `RowIsWrittenThrough` | `WriteThrough` |
| `GateIsForetold` | `GateForetells` (of `PolicyQueries`) |
| `DuplicatesIgnored` | `DuplicateChangesNothing` |

Every step is shown to be a `PolicyStep`: it sets both statuses, or keeps the previous one and goes on with
a status the handler has at hand, in memory or from what it read of the row. `StatusInvariant` therefore speaks
of three places at once: the previous status may be unset only while memory, the row and every row that was
read say free look. Without the part on what was read, a handler could resume with a status read before the
first transition. `LoanInvariant` does the same for the encumbrance. For `WriteThrough`, `SoleState` adds
that no scan, sync or timer is under way and that a handler has read the row as it is; `GateForetells` is
then a matter of comparing three tables (`GateTables`). `DuplicatesIgnored` rests on one fact
about history, that completions are never marked processed (`ProcessedKinds`): a completion changes nothing because its request
is no longer pending. It excepts three cases that are handled without looking: policy-created resets the status
in memory, and the cooling loop counts a loan balance and refunds a premium once more. The runs do not reach
the loan balance; stating the theorem did.

`RequestSubmission_proofs` proves, for every set of callers and keys, every mix of types and every bound,
from `SubmissionBounds` and the other assumptions of that module:

| Theorem | Property |
|---|---|
| `TypesHold` | `TypeOK` |
| `AcceptedAreSignalled` | `AcceptedIsSignalled` |
| `WithdrawnAreStopped` | `WithdrawnIsStopped` |
| `InboxIsComplete` | `InboxShowsRunning` |
| `DecisionsKept` | `DecisionKept` |
| `RunsAreUnique` | `OneRunPerKey` |
| `LockIsImplemented` | `LockImplemented`, the refinement of `FinancialLock` |

The invariant `SubmissionInvariant` relates the table, the calls under way, the signals and the workflow:

- `Shape`: no key is pending twice, each entry is of a row and carries that row's key, what needs the lock
  has a key, and rows together with the calls that may still insert stay within the calls begun.
- `Started`: children and grants are of processed keys only, and a reported child has come to its outcome. This is
  what makes a key run once although several rows may carry it.
- `RowsTold`, `WithdrawalsTold`: whoever inserted or withdrew a row has yet to tell the workflow, has done so,
  or a step failed. The part on the call at its `signal` or `notify` step is what carries the
  promise of the 202 across other calls. `WithdrawnIsStopped` is a property of steps, not of states: the step that
  takes a withdrawal has to leave its request not pending, and a withdrawal already taken is no
  excuse but in the steps after it, where the request it overtook may be routed.
- `DecidedHandled`, `PendingTaken`: a decided row was handled; what is pending was handled, is processed,
  is not rejected, and is COMPLETED only where the completion of another key marked the wrong row.

Each step is a `HandlerEffect` or a `WorkflowEffect`, shown once per step of an endpoint or signal, and
each part of the invariant is kept by either.

`BatchScan_proofs` proves, for every number of policies, page size and number of attempts, every set of
traits and first statuses, and every set of moves of the workflows, from `ScanConstants`:

| Theorem | Property |
|---|---|
| `TypesHold` | `TypeOK` |
| `SettledPoliciesAgree` | `SettledAgrees` |
| `SuspensionsStand` | `SuspendedUntouched` |

`TypesHold` bounds OFFSET and pages: rows have distinct positions in the SELECT (`PositionsAscend`), so a page
is counted by an interval of PageSize positions (`PageFits`), and beyond the last row there is none. The invariant
`ScanInvariant` says where a run is in its page (`RunsFit`) and, as long as nothing failed: a bulk update
that is behind has left its history (`Written`), a workflow is told only of what the history says (`Told`),
and where all scans that decided on a policy agree with its row, its workflow does too, or has a sync
waiting, or is still to be signalled (`Agreed`). `SettledAgrees` speaks of policies decided on once; `Agreed` has to be
wider, because two scans may decide the same thing.

Model-checked only: liveness (`LockReleased`, `ScansCatchUp`, `RunEnds`, `AadhaarEnds`,
`ApprovalWaitEnds`), which needs ENABLED and is out of the prover's reach. Every other property of a
passing run is a theorem. No module uses a RECURSIVE operator.

## Plan

Done: every module above with its runs, and a theorem for each of their safety and action properties.

1. Theorems that go beyond the runs: that `PolicyLifecycle` submits as `RequestSubmission` promises, and
   what of `ScansCatchUp` is a safety property (a policy that is due stays due until a scan or another
   writer moves it).
2. `FreeLookTimer`: the goroutine against handlers cut at every wait, and its respawn after
   Continue-As-New (`PolicyLifecycle` has the timer as a step between and inside request handlers).

### Not modelled

- `ReopenPolicy` (`H:921-996`): it reads the snapshot of a policy, and on none dereferences nil; the
  reopening the workflow does is modelled.
- Request lists, status history, dashboards, quotes, lookups and validators: read only, or generated.
- Audit, history, signal-log and event tables: nothing reads them back. Many functions of the
  repositories are called by nobody.
- NFS documents (`handler/document.go`): rows of one table no workflow reads, and an external store.
- Registered NFS activities that no workflow calls; the withdrawal that waits for a decision
  (`NW:704-754`), which cannot be reached.
- Wiring and configuration, but for the registration of the batch schedules.
