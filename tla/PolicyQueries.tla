--------------------------- MODULE PolicyQueries ---------------------------
(***************************************************************************)
(* The query endpoints of policy-management beside the policies they read: *)
(* status, summary, batch status and state gate.  Each asks the workflow   *)
(* first, then the policy row, then the terminal snapshot.  They change    *)
(* nothing, so each is an operator on the state of PolicyLifecycle.        *)
(***************************************************************************)
EXTENDS PolicyLifecycle

\* The queries the workflow answers, and the two the endpoints ask.
QueryHandlers ==
    {"get-policy-summary", "get-policy-status", "get-pending-requests",
     "is-request-eligible", "get-active-lock", "get-status-history",
     "get-workflow-health"}
queryGetFullState == "getFullState"
queryGetStateGate == "getStateGate"

\* What the workflow holds, or the row if it does not know the query.  The row is
\* there as long as the workflow is, so the snapshot is never read.
ConvertPolicyToWFState == [status |-> row.status, hasLoan |-> row.hasLoan]
TwoTierFullState ==
    IF queryGetFullState \in QueryHandlers
    THEN [status |-> policy.status, hasLoan |-> policy.hasLoan]
    ELSE ConvertPolicyToWFState

GetPolicyStatus == TwoTierFullState
GetPolicySummary == TwoTierFullState
SingleBatchStatus == TwoTierFullState.status

\* What the workflow says of a request type to those who ask it.
IsRequestEligible(type) ==
    /\ IsStateEligible(type, policy.status, policy.hasLoan)
    /\ RequiresFinancialLock(type) => activeLock = NoRequest

\* The statuses the state gate endpoint lists for a type: a table of its own.
AllowedStatuses(type) ==
    CASE type = "SURRENDER" ->
            {"ACTIVE", "VOID_LAPSE", "INACTIVE_LAPSE", "ACTIVE_LAPSE", "PAID_UP"}
      [] type \in {"LOAN", "SURVIVAL_BENEFIT", "COMMUTATION", "CONVERSION"} ->
            {"ACTIVE"}
      [] type = "LOAN_REPAYMENT" ->
            {"ACTIVE", "ASSIGNED_TO_PRESIDENT", "PENDING_AUTO_SURRENDER"}
      [] type = "REVIVAL" -> {"VOID_LAPSE", "INACTIVE_LAPSE", "ACTIVE_LAPSE"}
      [] type = "MATURITY_CLAIM" -> {"ACTIVE", "PENDING_MATURITY"}
      [] type = "FLC" -> {"FREE_LOOK_ACTIVE"}
      [] type = "PAID_UP" -> {"ACTIVE", "ACTIVE_LAPSE"}
      [] type = "DEATH_CLAIM" -> Status \ Terminal
      [] OTHER -> Status \ (Terminal \cup {"SUSPENDED"})

\* The gate answers from the row, and then knows nothing of the lock.
GetStateGate(type) ==
    IF queryGetStateGate \in QueryHandlers
    THEN [passed |-> IsRequestEligible(type), allowed |-> AllowedStatuses(type),
          locked |-> activeLock # NoRequest]
    ELSE [passed |-> CheckStateGate(type, row.status, row.hasLoan),
          allowed |-> AllowedStatuses(type), locked |-> FALSE]

\* The types the gate endpoint takes.
GatedType == (RequestType \cup {"PAID_UP"}) \ {"FORCED_SURRENDER"}

-----------------------------------------------------------------------------
(* Properties.                                                             *)

\* As long as nobody writes the row behind the workflow's back, what the state
\* gate endpoint tells a customer is what the workflow will decide: a request
\* passes the one exactly when the other would route it once the lock is free,
\* and in the statuses listed.  A non-financial request of a suspended policy
\* passes the gate without being listed, and the workflow refuses it.
GateForetells ==
    SoleWriter /\ Idle =>
        \A type \in GatedType :
            LET gate == GetStateGate(type)
                loanAllows == LoanAllows(type, policy.hasLoan)
                frozen == policy.status = "SUSPENDED" /\ type \in NFRType
            IN  /\ ~frozen =>
                     (gate.passed <=> IsStateEligible(type, policy.status, policy.hasLoan))
                /\ ~frozen =>
                     (gate.passed <=> loanAllows /\ policy.status \in gate.allowed)
                /\ IsRequestEligible(type) => gate.passed
=============================================================================
