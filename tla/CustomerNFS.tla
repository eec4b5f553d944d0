----------------------------- MODULE CustomerNFS -----------------------------
(***************************************************************************)
(* The customer NFS service: its HTTP handlers, which read and write the   *)
(* tables and start and signal workflows, beside the workflows.            *)
(*                                                                         *)
(* A handler runs one step per call it makes, and other handlers and the   *)
(* workflows run in between.  A test of the request's status and what is   *)
(* done on the strength of it are different steps.  A refused call changes *)
(* nothing and is left out.                                                *)
(***************************************************************************)
EXTENDS NFSWorkflows

CONSTANTS Clients,       \* concurrent HTTP calls
          Schemas,       \* the sets of Rules the database may enforce
          MaxTickets,    \* bound on the tickets drawn for a type of request
          MaxSignals     \* bound on the unconsumed signals of a name when a call starts

ASSUME SchemaAssumption == Schemas \subseteq SUBSET Rules
ASSUME CallBounds == MaxTickets \in Nat /\ MaxSignals \in Nat

VARIABLE call            \* the HTTP call each client has under way

vars == <<wfVars, call>>

Idle == [op |-> "idle"]

Call(op, at, r, arg) == [op |-> op, at |-> at, r |-> r, arg |-> arg]

Init ==
    /\ \E schema \in Schemas : db = EmptyStore(schema)
    /\ wf = [r \in Requests |-> NotStarted]
    /\ wdw = [r \in Requests |-> [pc |-> "none", tries |-> 0]]
    /\ sig = [r \in Requests |-> NoSignals]
    /\ faults = 0
    /\ consent = {}
    /\ call = [c \in Clients |-> Idle]

-----------------------------------------------------------------------------
(* Steps of calls. *)

At(c, op, at) == call[c] # Idle /\ call[c].op = op /\ call[c].at = at

Begin(c, op, at, r, arg) ==
    /\ call[c] = Idle
    /\ call' = [call EXCEPT ![c] = Call(op, at, r, arg)]
    /\ UNCHANGED wfVars

Return(c)   == call' = [call EXCEPT ![c] = Idle]
Goes(c, at) == call' = [call EXCEPT ![c].at = at]

\* The transaction commits and the handler goes on, or fails and it returns.
Runs(c, result, at) ==
    /\ db' = result.db
    /\ IF result.ok THEN Goes(c, at) ELSE Return(c)
    /\ UNCHANGED <<wf, wdw, sig, faults, consent>>

\* The last transaction of a handler: it returns either way.
Writes(c, result) ==
    /\ db' = result.db
    /\ Return(c)
    /\ UNCHANGED <<wf, wdw, sig, faults, consent>>

\* SignalWorkflow with the ids stored in the row: an error if none is stored,
\* or if that run is over.  Either way the handler returns.
SignalWorkflow(c, r, signals) ==
    /\ sig' = IF GetWorkflowState(db, r) /\ Running(r)
              THEN [sig EXCEPT ![r] = signals] ELSE sig
    /\ Return(c)
    /\ UNCHANGED <<db, wf, wdw, faults>>

\* The service stops, or a call to the database or to Temporal fails.
Aborts(c) ==
    /\ call[c] # Idle
    /\ faults < MaxFaults
    /\ faults' = faults + 1
    /\ Return(c)
    /\ UNCHANGED <<db, wf, wdw, sig, consent>>

-----------------------------------------------------------------------------
(* Initiation. *)

Fresh(r) == ~Exists(db, r) /\ \A c \in Clients : call[c] # Idle => call[c].r # r

\* Duplicate test, then the ticket: two calls may both pass the test.
Initiate(c, r, type, auth) ==
    /\ Fresh(r)
    /\ db.seq[type] < MaxTickets
    /\ ~CheckDuplicateRequest(db, type)
    /\ Begin(c, "initiate", "ticket", r, [type |-> type, auth |-> auth, ticket |-> 0])

InitiateTicket(c) ==
    LET arg == call[c].arg
        result == GenerateTicketNumber(db, arg.type)
    IN /\ At(c, "initiate", "ticket")
       /\ db' = result.db
       /\ call' = [call EXCEPT ![c].at = "create",
                               ![c].arg.ticket = result.db.seq[arg.type]]
       /\ UNCHANGED <<wf, wdw, sig, faults, consent>>

StartWorkflow(c, r, at) ==
    /\ wf' = [wf EXCEPT ![r].pc = "store"]
    /\ IF at = "idle" THEN Return(c) ELSE Goes(c, at)
    /\ UNCHANGED <<db, wdw, sig, faults, consent>>

\* A manual request gets its deadline before the workflow starts.
InitiateAddressChange(c) ==
    LET r == call[c].r
        arg == call[c].arg
    IN /\ call[c] # Idle
       /\ call[c].op = "initiate"
       /\ arg.type = "ADDRESS_CHANGE"
       /\ \/ /\ At(c, "initiate", "create")
             /\ Runs(c, CreateWithAddressDetail(db, r, arg.auth, arg.ticket),
                     IF arg.auth = "AADHAAR" THEN "start" ELSE "sla")
          \/ At(c, "initiate", "sla") /\ Runs(c, UpdateSLADeadline(db, r), "start")
          \/ At(c, "initiate", "start") /\ StartWorkflow(c, r, "idle")

\* A manual request gets its deadline after the workflow has started.
InitiateNameChange(c) ==
    LET r == call[c].r
        arg == call[c].arg
    IN /\ call[c] # Idle
       /\ call[c].op = "initiate"
       /\ arg.type = "NAME_CHANGE"
       /\ \/ /\ At(c, "initiate", "create")
             /\ Runs(c, CreateWithNameDetail(db, r, arg.auth, arg.ticket), "start")
          \/ /\ At(c, "initiate", "start")
             /\ StartWorkflow(c, r, IF arg.auth = "AADHAAR" THEN "idle" ELSE "sla")
          \/ At(c, "initiate", "sla") /\ Writes(c, UpdateSLADeadline(db, r))

-----------------------------------------------------------------------------
(* Signals of the customer.  None of the four handlers looks at the type of   *)
(* the request, nor at how it is authenticated: an address endpoint also      *)
(* serves the request of a name change, and the other way round.              *)

SendOTP(c, r) ==
    /\ SignalWorkflow(c, r, [sig[r] EXCEPT !.otp = @ + 1])
    /\ consent' = IF sig' # sig THEN consent \cup {r} ELSE consent

SendDocuments(c, r) ==
    /\ SignalWorkflow(c, r, [sig[r] EXCEPT !.docs = @ + 1])
    /\ UNCHANGED consent

\* The address endpoint does not look at the status.
VerifyAddressOTP(c, r) ==
    /\ Exists(db, r)
    /\ sig[r].otp < MaxSignals
    /\ Begin(c, "otp", "signal", r, "none")

VerifyNameOTPStatus(c, r) ==
    /\ Exists(db, r)
    /\ Status(db, r) = "CREATED"
    /\ sig[r].otp < MaxSignals
    /\ Begin(c, "otp", "signal", r, "none")

SignalOTP(c) == At(c, "otp", "signal") /\ SendOTP(c, call[c].r)

\* A faulty variant: documents are accepted whatever the request has come to.
SubmitUntested(c, r) ==
    /\ Exists(db, r)
    /\ sig[r].docs < MaxSignals
    /\ Begin(c, "submit", IF Status(db, r) = "CREATED" THEN "sla" ELSE "status", r, "none")

\* Deadline (for a CREATED request), status, signal.
SubmitAddress(c, r) ==
    /\ Exists(db, r)
    /\ Status(db, r) \in {"CREATED", "PENDING_DOCUMENTS"}
    /\ sig[r].docs < MaxSignals
    /\ Begin(c, "submit", IF Status(db, r) = "CREATED" THEN "sla" ELSE "status", r, "none")

SubmitAddressChange(c) ==
    LET r == call[c].r
    IN \/ At(c, "submit", "sla") /\ Runs(c, UpdateSLADeadline(db, r), "status")
       \/ /\ At(c, "submit", "status")
          /\ Runs(c, UpdateStatus(db, r, "PENDING_APPROVAL", "none", Written), "signal")
       \/ At(c, "submit", "signal") /\ SendDocuments(c, r)

\* The status stays CREATED, whatever the answer says.
SubmitName(c, r) ==
    /\ Exists(db, r)
    /\ Status(db, r) = "CREATED"
    /\ sig[r].docs < MaxSignals
    /\ Begin(c, "submit", "signal", r, "none")

-----------------------------------------------------------------------------
(* The decision of the central processing centre. *)

ApproveUnassigned(c, r, decision) ==
    /\ Exists(db, r)
    /\ Len(sig[r].decisions) < MaxSignals
    /\ Begin(c, "approve", "signal", r, decision)

\* Only the two handlers' tests of the payload differ.
ApproveChange(c, r, decision) ==
    /\ Exists(db, r)
    /\ Status(db, r) = "IN_PROGRESS"
    /\ Len(sig[r].decisions) < MaxSignals
    /\ Begin(c, "approve", "signal", r, decision)

SignalDecision(c) ==
    LET r == call[c].r
    IN /\ At(c, "approve", "signal")
       /\ SignalWorkflow(c, r, [sig[r] EXCEPT !.decisions = Append(@, call[c].arg)])
       /\ consent' = IF sig' # sig /\ call[c].arg.decision = "APPROVE"
                     THEN consent \cup {r} ELSE consent

-----------------------------------------------------------------------------
(* Withdrawal. *)

WithdrawRequest(c, r) ==
    /\ Exists(db, r)
    /\ Status(db, r) \in Withdrawable
    /\ Begin(c, "withdraw", "start", r, "none")

\* The id is that of the request: a run under way is not started again.
StartWithdrawal(c) ==
    LET r == call[c].r
    IN /\ At(c, "withdraw", "start")
       /\ wdw' = IF wdw[r].pc \in {"none"} \cup Closed
                 THEN [wdw EXCEPT ![r] = [pc |-> "check", tries |-> 0]] ELSE wdw
       /\ Return(c)
       /\ UNCHANGED <<db, wf, sig, faults, consent>>

-----------------------------------------------------------------------------
(* The back office.  Each call leaves the audit entry's id out, so none of   *)
(* its transactions commits.                                                 *)

AssignStatus(c, r) ==
    Status(db, r) = "PENDING_APPROVAL" /\ Begin(c, "assign", "write", r, "none")

AssignRequest(c) ==
    /\ At(c, "assign", "write")
    /\ Writes(c, UpdateStatus(db, call[c].r, "IN_PROGRESS", "none", Missing))

RejectStatus(c, r) ==
    Status(db, r) = "IN_PROGRESS" /\ Begin(c, "reject", "write", r, "none")

RejectRequest(c) ==
    /\ At(c, "reject", "write")
    /\ Writes(c, UpdateStatus(db, call[c].r, "REJECTED", "none", Missing))

\* Both stop at the upload link, before they come to the status.
SendBack(c, r) ==
    Status(db, r) = "IN_PROGRESS" /\ Begin(c, "link", "write", r, "none")

RequestMissingDocuments(c, r) ==
    Exists(db, r) /\ Begin(c, "link", "write", r, "none")

UploadLink(c) ==
    At(c, "link", "write") /\ Writes(c, CreateSecureUploadLink(db))

-----------------------------------------------------------------------------

ClientStep(c) ==
    \/ InitiateTicket(c) \/ InitiateAddressChange(c) \/ InitiateNameChange(c)
    \/ SignalOTP(c) \/ SubmitAddressChange(c) \/ SignalDecision(c)
    \/ StartWithdrawal(c)
    \/ AssignRequest(c) \/ RejectRequest(c) \/ UploadLink(c)

NewCall(c, r) ==
    \/ \E type \in Types, auth \in Auths : Initiate(c, r, type, auth)
    \/ VerifyAddressOTP(c, r) \/ VerifyNameOTPStatus(c, r)
    \/ SubmitAddress(c, r) \/ SubmitName(c, r)
    \/ \E decision \in Decisions : ApproveChange(c, r, decision)
    \/ WithdrawRequest(c, r)
    \/ AssignStatus(c, r) \/ RejectStatus(c, r)
    \/ SendBack(c, r) \/ RequestMissingDocuments(c, r)

Next ==
    \/ \E r \in Requests : (WorkflowStep(r) \/ WithdrawalWorkflow(r)) /\ UNCHANGED call
    \/ \E c \in Clients : ClientStep(c) \/ Aborts(c)
    \/ \E c \in Clients, r \in Requests : NewCall(c, r)

Spec == Init /\ [][Next]_vars

\* What the workflows promise while the worker runs and timers fire.
Fairness == \A r \in Requests : /\ WF_vars(WorkflowStep(r) /\ UNCHANGED call)
                                /\ WF_vars(WithdrawalWorkflow(r) /\ UNCHANGED call)

FairSpec == Spec /\ Fairness

-----------------------------------------------------------------------------
(* Properties. *)

\* The tables, the signals and the calls hold what the code's types allow.
TypeOK ==
    /\ db \in Store
    /\ faults \in 0..MaxFaults
    /\ consent \subseteq Requests
    /\ \A r \in Requests : /\ sig[r].otp \in Nat /\ sig[r].docs \in Nat
                           /\ sig[r].withdrawal \in Nat
                           /\ sig[r].decisions \in Seq(Decisions)
                           /\ wf[r].tries \in 0..(MaxAttempts - 1)
                           /\ wdw[r].tries \in 0..(MaxAttempts - 1)

(***************************************************************************)
(* The service implements ChangeControl: whatever handlers, retries and    *)
(* withdrawals do in between, an address or a name is changed only after   *)
(* an OTP or an approval reached the workflow, and a request reads         *)
(* COMPLETED only after its change was written.                            *)
(***************************************************************************)
Control == INSTANCE ChangeControl WITH
             agreed   <- consent,
             changes  <- db.versions,
             reported <- {r \in Requests : Status(db, r) = "COMPLETED"}
ChangeImplemented == Control!Spec

\* A request writes one version row, and one more only for an activity that was
\* repeated after a failure: further OTPs and approvals write nothing.
DuplicatesAreRetries == \A r \in Requests : db.versions[r] <= 1 + faults

\* A decision is sent to a workflow, or acted on by it, only for a request that
\* the processing centre has in its queue.
AssignedBeforeDecided ==
    \A r \in Requests :
       sig[r].decisions # <<>> \/ wf[r].decision # NoDecision => r \in db.queue

\* Withdrawn, with a workflow that is over or was never started, and no call
\* under way that could still start it or that tested the status before.
AtRest(r) ==
    /\ Status(db, r) = "WITHDRAWN"
    /\ ~Running(r)
    /\ \A c \in Clients : call[c] # Idle /\ call[c].r = r
                           => call[c].op \notin {"initiate", "submit"}

\* Once a withdrawn request is at rest nothing brings it back: a late OTP, a
\* decision sent to the closed run, new documents, the back office or a second
\* withdrawal.  While its workflow runs the code does write over the status.
WithdrawnForGood == [][\A r \in Requests : AtRest(r) => AtRest(r)']_vars

\* An Aadhaar request comes to an end, with an OTP, without one, and whatever
\* fails: the timer of fifteen minutes ends the wait and the attempts run out.
AadhaarEnds ==
    \A r \in Requests : Running(r) /\ ~IsManual(db, r) ~> ~Running(r)

\* A request the processing centre holds is decided in the end, by a decision or
\* by the deadline and its grace period.
ApprovalWaitEnds ==
    \A r \in Requests :
       wf[r].pc \in {"wait", "grace"} ~> wf[r].pc \in Closed \cup {"resubmit"}

-----------------------------------------------------------------------------
(* What a comment of the code says and the code does not do. *)

\* "CREATED -> [Signal: documents_submitted] -> PENDING_APPROVAL -> AssignToCPC":
\* a manual name change whose documents arrived goes on to the queue.
DocumentsReachQueue ==
    \A r \in Requests :
       wf[r].pc = "docs_again" ~> r \in db.queue \/ ~Running(r)
=============================================================================
