----------------------------- MODULE NFSWorkflows -----------------------------
(***************************************************************************)
(* The five Temporal workflows of the customer NFS service.  A workflow    *)
(* runs its activities one at a time, each up to MaxAttempts times, and    *)
(* waits for signals and timers in between.  The worker and the service    *)
(* may crash and restart: Temporal replays the workflow to the same place, *)
(* so a crash shows only as an attempt that failed, or as one that         *)
(* committed and whose reply was lost.                                     *)
(*                                                                         *)
(* Before some operators stands a faulty variant, named for its fault,     *)
(* that no action uses: put in its place, it breaks a property.            *)
(***************************************************************************)
EXTENDS NFSActivities, Sequences

CONSTANTS MaxAttempts,     \* MaximumAttempts of the retry policies (3 in the code)
          MaxFaults        \* bound on the failures injected into a behaviour

ASSUME BoundsAssumption == MaxAttempts \in Nat \ {0} /\ MaxFaults \in Nat

VARIABLES db,              \* the tables
          wf,              \* the request's own workflow
          wdw,             \* its withdrawal workflow
          sig,             \* signals delivered to wf and not consumed yet
          faults,          \* failures injected so far
          consent          \* requests with an OTP or an APPROVE delivered (history)

wfVars == <<db, wf, wdw, sig, faults, consent>>

\* The remarks of a decision matter where they become the reason of a rejection.
Decisions == [decision : {"APPROVE", "SEND_BACK"}, remarks : {"text"}] \cup
             [decision : {"REJECT"}, remarks : {"empty", "text"}]
NoDecision == [decision |-> "NONE", remarks |-> "empty"]

NoSignals == [otp |-> 0, docs |-> 0, withdrawal |-> 0, decisions |-> <<>>]

NotStarted == [pc |-> "none", tries |-> 0, decision |-> NoDecision]

Closed == {"closed", "failed"}      \* returned nil, returned an error

Running(r) == wf[r].pc \notin {"none"} \cup Closed

AddressAadhaar(r) == ~IsName(db, r) /\ ~IsManual(db, r)
AddressManual(r)  == ~IsName(db, r) /\ IsManual(db, r)
NameAadhaar(r)    == IsName(db, r) /\ ~IsManual(db, r)
NameManual(r)     == IsName(db, r) /\ IsManual(db, r)

-----------------------------------------------------------------------------
(* Activities and waits. *)

AttemptEndsLate(r, start, failed) ==
    wf' = IF wf[r].tries = MaxAttempts
          THEN [wf EXCEPT ![r].pc = failed, ![r].tries = 0]
          ELSE [wf EXCEPT ![r].pc = start, ![r].tries = @ + 1]

\* The attempt ends without a result: start again, or give up and go to failed.
AttemptEnds(r, start, failed) ==
    wf' = IF wf[r].tries + 1 = MaxAttempts
          THEN [wf EXCEPT ![r].pc = failed, ![r].tries = 0]
          ELSE [wf EXCEPT ![r].pc = start, ![r].tries = @ + 1]

\* A transaction of the attempt fails, or is lost with the worker: it was not
\* run, or it committed and nobody learned of it.
Fails(r, result, start, failed) ==
    /\ AttemptEnds(r, start, failed)
    /\ \/ ~result.ok /\ UNCHANGED <<db, faults>>
       \/ /\ faults < MaxFaults
          /\ faults' = faults + 1
          /\ db' \in {db, result.db}

\* The workflow at pc executes an activity whose transaction gives result.
Activity(r, pc, result, next, failed) ==
    /\ wf[r].pc = pc
    /\ \/ /\ result.ok
          /\ db' = result.db
          /\ wf' = [wf EXCEPT ![r].pc = next, ![r].tries = 0]
          /\ UNCHANGED faults
       \/ Fails(r, result, pc, failed)
    /\ UNCHANGED <<wdw, sig, consent>>

Goto(r, next) == /\ wf' = [wf EXCEPT ![r].pc = next]
                 /\ UNCHANGED <<db, wdw, faults, consent>>

Timer(r, pc, next) == wf[r].pc = pc /\ Goto(r, next) /\ UNCHANGED sig

ReceiveDocs(r, pc, next) ==
    /\ wf[r].pc = pc
    /\ sig[r].docs > 0
    /\ sig' = [sig EXCEPT ![r].docs = @ - 1]
    /\ Goto(r, next)

ReceiveDecision(r, pc, next) ==
    /\ wf[r].pc = pc
    /\ sig[r].decisions # <<>>
    /\ sig' = [sig EXCEPT ![r].decisions = Tail(@)]
    /\ wf' = [wf EXCEPT ![r].pc = next[Head(sig[r].decisions).decision],
                        ![r].decision = Head(sig[r].decisions)]
    /\ UNCHANGED <<db, wdw, faults, consent>>

ReceiveOTP(r, verify) ==
    /\ wf[r].pc = "otp_wait"
    /\ sig[r].otp > 0
    /\ sig' = [sig EXCEPT ![r].otp = @ - 1]
    /\ Goto(r, verify)

OTPWaitForever(r, verify, expire) == ReceiveOTP(r, verify)
OTPWaitLapses(r, verify, expire) == ReceiveOTP(r, verify) \/ Timer(r, "otp_wait", verify)

\* The OTP signal or the 15-minute timer, whichever the selector takes.
OTPWait(r, verify, expire) ==
    ReceiveOTP(r, verify) \/ Timer(r, "otp_wait", expire)

-----------------------------------------------------------------------------
(* WF-NFS-001: Aadhaar address change. *)

AadhaarAddressChangeWorkflow(r) ==
    /\ AddressAadhaar(r)
    /\ \/ Activity(r, "store", StoreWorkflowState(db, r), "otp", "failed")
       \/ Activity(r, "otp", RequestAadhaarOTP(db, r), "otp_wait", "failed")
       \/ OTPWait(r, "verify", "expire")
       \/ Activity(r, "expire",
                   AddressUpdateStatus(db, r, "DOCUMENTS_EXPIRED", "text"),
                   "closed", "closed")
       \/ \E next \in {"apply", "refuse"} :          \* the verdict of UIDAI
             Activity(r, "verify", VerifyAadhaarOTP(db, r), next, "failed")
       \/ Activity(r, "refuse", AddressUpdateStatus(db, r, "REJECTED", "empty"),
                   "closed", "closed")
       \/ Activity(r, "apply", UpdateAddressData(db, r), "complete", "failed")
       \/ Activity(r, "complete",
                   AddressUpdateStatus(db, r, "COMPLETED", "none"),
                   "closed", "failed")

-----------------------------------------------------------------------------
(* WF-NFS-002: manual address change. *)

ManualAddressStart(r) ==
    \/ Activity(r, "store", StoreWorkflowState(db, r), "submit", "failed")
    \/ Activity(r, "submit", AddressUpdateStatus(db, r, "PENDING_APPROVAL", "none"),
                "assign", "failed")
    \/ Activity(r, "assign", AssignToCPC(db, r), "wait", "failed")

AddressDecision == [APPROVE |-> "approve", REJECT |-> "reject", SEND_BACK |-> "send_back"]

GraceWithoutEnd(r) == ReceiveDecision(r, "grace", AddressDecision)
Grace(r) == ReceiveDecision(r, "grace", AddressDecision) \/ Timer(r, "grace", "no_decision")

\* The SLA timer (escalation, then seven days of grace) or a decision.
ManualAddressWait(r) ==
    \/ ReceiveDecision(r, "wait", AddressDecision)
    \/ Timer(r, "wait", "grace")
    \/ Grace(r)
    \/ Activity(r, "no_decision", AddressUpdateStatus(db, r, "REJECTED", "text"),
                "closed", "closed")

ApproveAndWait(r) ==
    \/ Activity(r, "approve", AddressUpdateStatus(db, r, "IN_PROGRESS", "none"),
                "apply", "failed")
    \/ Activity(r, "apply", UpdateAddressData(db, r), "complete", "failed")
    \/ Activity(r, "complete", AddressUpdateStatus(db, r, "COMPLETED", "none"),
                "wait", "failed")

ManualAddressApprove(r) ==
    \/ Activity(r, "approve", AddressUpdateStatus(db, r, "IN_PROGRESS", "none"),
                "apply", "failed")
    \/ Activity(r, "apply", UpdateAddressData(db, r), "complete", "failed")
    \/ Activity(r, "complete", AddressUpdateStatus(db, r, "COMPLETED", "none"),
                "closed", "failed")

\* The reason written is the Remarks of the decision, which may be empty.
ManualAddressReject(r) ==
    Activity(r, "reject",
             AddressUpdateStatus(db, r, "REJECTED", wf[r].decision.remarks),
             "closed", "failed")

ManualAddressSendBack(r) ==
    \/ Activity(r, "send_back",
                AddressUpdateStatus(db, r, "PENDING_DOCUMENTS", wf[r].decision.remarks),
                "resubmit", "failed")
    \/ ReceiveDocs(r, "resubmit", "reassign")
    \/ Activity(r, "reassign", AssignToCPC(db, r), "wait", "failed")

ManualAddressChangeWorkflow(r) ==
    /\ AddressManual(r)
    /\ \/ ManualAddressStart(r)
       \/ ManualAddressWait(r)
       \/ ManualAddressApprove(r)
       \/ ManualAddressReject(r)
       \/ ManualAddressSendBack(r)

-----------------------------------------------------------------------------
(* WF-NFS-003: Aadhaar name change.  The verdict of UIDAI is not looked at. *)

\* One activity of two transactions: an attempt that fails starts over.
UpdateNameData(r) ==
    /\ \/ /\ wf[r].pc = "apply"
          /\ \/ /\ NameDataVersion(db, r).ok
                /\ db' = NameDataVersion(db, r).db
                /\ wf' = [wf EXCEPT ![r].pc = "complete"]
                /\ UNCHANGED faults
             \/ Fails(r, NameDataVersion(db, r), "apply", "failed")
       \/ /\ wf[r].pc = "complete"
          /\ \/ /\ NameDataComplete(db, r).ok
                /\ db' = NameDataComplete(db, r).db
                /\ wf' = [wf EXCEPT ![r].pc = "closed", ![r].tries = 0]
                /\ UNCHANGED faults
             \/ Fails(r, NameDataComplete(db, r), "apply", "failed")
    /\ UNCHANGED <<wdw, sig, consent>>

AadhaarNameChangeWorkflow(r) ==
    /\ NameAadhaar(r)
    /\ \/ Activity(r, "store", StoreWorkflowStateForName(db, r), "otp", "failed")
       \/ Activity(r, "otp", RequestNameOTP(db, r), "otp_wait", "failed")
       \/ OTPWait(r, "verify", "expire")
       \/ Activity(r, "expire", UpdateNameStatus(db, r, "DOCUMENTS_EXPIRED"),
                   "closed", "closed")
       \/ Activity(r, "verify", VerifyNameOTP(db, r), "apply", "failed")
       \/ UpdateNameData(r)

-----------------------------------------------------------------------------
(* WF-NFS-004: manual name change. *)

ReceiveWithdrawal(r, pc) ==
    /\ wf[r].pc = pc
    /\ sig[r].withdrawal > 0
    /\ sig' = [sig EXCEPT ![r].withdrawal = @ - 1]
    /\ Goto(r, "closed")

\* The selector's callback takes one documents_submitted signal; the Receive
\* that follows it waits for a second one, and no longer for a withdrawal.
ManualNameDocuments(r) ==
    \/ Activity(r, "store", StoreWorkflowStateForName(db, r), "docs", "failed")
    \/ ReceiveDocs(r, "docs", "docs_again")
    \/ ReceiveWithdrawal(r, "docs")
    \/ ReceiveDocs(r, "docs_again", "assign")
    \/ Activity(r, "assign", AssignNameToCPC(db, r), "wait", "failed")

NameDecision == [APPROVE |-> "apply", REJECT |-> "reject", SEND_BACK |-> "send_back"]

\* The SLA timer leads to a second wait only before the deadline that was set
\* ahead of the first send-back; later it ends the request at once.
ManualNameWait(r) ==
    \/ ReceiveDecision(r, "wait", NameDecision)
    \/ Timer(r, "wait", "grace")
    \/ Timer(r, "wait", "expire")
    \/ ReceiveDecision(r, "grace", NameDecision)
    \/ Timer(r, "grace", "expire")
    \/ Activity(r, "expire", UpdateNameStatus(db, r, "DOCUMENTS_EXPIRED"),
                "closed", "closed")

ManualNameReject(r) ==
    Activity(r, "reject", UpdateNameStatus(db, r, "REJECTED"), "closed", "closed")

\* The errors of both activities are dropped.
ManualNameSendBack(r) ==
    \/ Activity(r, "send_back", UpdateNameStatus(db, r, "PENDING_DOCUMENTS"),
                "resubmit", "resubmit")
    \/ ReceiveDocs(r, "resubmit", "resubmit_again")
    \/ ReceiveWithdrawal(r, "resubmit")
    \/ ReceiveDocs(r, "resubmit_again", "reassign")
    \/ Activity(r, "reassign", AssignNameToCPC(db, r), "wait", "wait")

ManualNameChangeWorkflow(r) ==
    /\ NameManual(r)
    /\ \/ ManualNameDocuments(r)
       \/ ManualNameWait(r)
       \/ UpdateNameData(r)
       \/ ManualNameReject(r)
       \/ ManualNameSendBack(r)

-----------------------------------------------------------------------------
(* WF-NFS-005: withdrawal.  No code sets partial_processing_flag, so the     *)
(* branch that waits for a withdrawal decision is never taken.               *)

WithdrawalAttemptEnds(r) ==
    wdw' = IF wdw[r].tries + 1 = MaxAttempts
           THEN [wdw EXCEPT ![r] = [pc |-> "failed", tries |-> 0]]
           ELSE [wdw EXCEPT ![r].tries = @ + 1]

WithdrawalCheck(r) ==
    /\ wdw[r].pc = "check"
    /\ \/ /\ wdw' = [wdw EXCEPT ![r] =
                        [pc    |-> IF CheckWithdrawalEligibility(db, r)
                                   THEN "process" ELSE "failed",
                         tries |-> 0]]
          /\ UNCHANGED faults
       \/ /\ faults < MaxFaults
          /\ faults' = faults + 1
          /\ WithdrawalAttemptEnds(r)
    /\ UNCHANGED <<db, wf, sig, consent>>

WithdrawalProcess(r) ==
    /\ wdw[r].pc = "process"
    /\ \/ /\ ProcessWithdrawal(db, r).ok
          /\ db' = ProcessWithdrawal(db, r).db
          /\ wdw' = [wdw EXCEPT ![r] = [pc |-> "notify", tries |-> 0]]
          /\ UNCHANGED faults
       \/ /\ faults < MaxFaults
          /\ faults' = faults + 1
          /\ db' \in {db, ProcessWithdrawal(db, r).db}
          /\ WithdrawalAttemptEnds(r)
    /\ UNCHANGED <<wf, sig, consent>>

\* The one id it signals is that of a manual name change.
WithdrawalNotify(r) ==
    /\ wdw[r].pc = "notify"
    /\ wdw' = [wdw EXCEPT ![r].pc = "closed"]
    /\ sig' = IF NameManual(r) /\ Running(r)
              THEN [sig EXCEPT ![r].withdrawal = @ + 1] ELSE sig
    /\ UNCHANGED <<db, wf, faults, consent>>

WithdrawalWorkflow(r) ==
    WithdrawalCheck(r) \/ WithdrawalProcess(r) \/ WithdrawalNotify(r)

-----------------------------------------------------------------------------

WorkflowStep(r) ==
    \/ AadhaarAddressChangeWorkflow(r)
    \/ ManualAddressChangeWorkflow(r)
    \/ AadhaarNameChangeWorkflow(r)
    \/ ManualNameChangeWorkflow(r)

=============================================================================
