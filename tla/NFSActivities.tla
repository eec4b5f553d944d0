---------------------------- MODULE NFSActivities ----------------------------
(***************************************************************************)
(* One execution of each Temporal activity of the customer NFS service, as *)
(* the transaction it runs.  Activities that write nothing (the OTP        *)
(* requests, receipts and escalations are stubs) return the tables as they *)
(* are.                                                                    *)
(***************************************************************************)
EXTENDS NFSStore

Written == TRUE         \* the caller fills in the audit entry's id
Missing == FALSE        \* it does not

-----------------------------------------------------------------------------
(* Address change. *)

StoreWorkflowState(d, r) == UpdateWorkflowState(d, r)

RequestAadhaarOTP(d, r) == Tx(d, TRUE, d)

\* The UIDAI transaction id it stores is read by no one; the verdict of UIDAI
\* is chosen by the workflow step.
VerifyAadhaarOTP(d, r) == Tx(d, TRUE, d)

UpdateAddressData(d, r) == CreateAddressVersion(d, r)

AssignToCPC(d, r) == AssignRequestToQueue(d, r)

AddressUpdateStatus(d, r, new, reason) == UpdateStatus(d, r, new, reason, Written)

Escalate(d, r) == Tx(d, TRUE, d)

-----------------------------------------------------------------------------
(* Name change. *)

StoreWorkflowStateForName(d, r) == UpdateWorkflowState(d, r)

RequestNameOTP(d, r) == Tx(d, TRUE, d)

VerifyNameOTP(d, r) == Tx(d, TRUE, d)

\* UpdateNameData runs two transactions, one after the other: a failure of the
\* second makes the retry repeat the first.
NameDataVersion(d, r)  == CreateNameVersion(d, r)
NameDataComplete(d, r) == UpdateStatus(d, r, "COMPLETED", "none", Written)

AssignNameToCPC(d, r) == AssignRequestToQueue(d, r)

UpdateNameStatus(d, r, new) == UpdateStatus(d, r, new, "none", Missing)

EscalateNameRequest(d, r) == Tx(d, TRUE, d)

-----------------------------------------------------------------------------
(* Withdrawal. *)

Withdrawable == {"CREATED", "PENDING_DOCUMENTS", "PENDING_APPROVAL"}

CheckWithdrawalEligibility(d, r) == Status(d, r) \in Withdrawable

ProcessWithdrawal(d, r) == UpdateStatus(d, r, "WITHDRAWN", "none", Written)

=============================================================================
