---------------------------- MODULE PolicyRules ----------------------------
(***************************************************************************)
(* The pure tables of policy-management that every other module of the     *)
(* policy side reads: the lifecycle statuses, the state gate, which        *)
(* requests need the financial lock, the status a request is parked in     *)
(* while a downstream service works on it, and the status its outcome      *)
(* leads to.  Nothing here has state.                                      *)
(***************************************************************************)
EXTENDS Naturals

\* Statuses that end the policy: the workflow cools down and stops.
Terminal ==
    {"VOID", "SURRENDERED", "TERMINATED_SURRENDER", "MATURED",
     "DEATH_CLAIM_SETTLED", "FLC_CANCELLED", "CANCELLED_DEATH", "CONVERTED"}

Status ==
    Terminal \cup
    {"FREE_LOOK_ACTIVE", "ACTIVE", "VOID_LAPSE", "INACTIVE_LAPSE",
     "ACTIVE_LAPSE", "PAID_UP", "REDUCED_PAID_UP", "ASSIGNED_TO_PRESIDENT",
     "PENDING_AUTO_SURRENDER", "PENDING_SURRENDER", "REVIVAL_PENDING",
     "PENDING_MATURITY", "DEATH_CLAIM_INTIMATED",
     "DEATH_UNDER_INVESTIGATION", "SUSPENDED"}

\* The Go zero value of a status field that was never set.
NoStatus == ""

\* Requests that must hold the exclusive lock of the policy, and those that
\* are financial but exempt from it.
LockedType ==
    {"SURRENDER", "LOAN", "REVIVAL", "MATURITY_CLAIM", "SURVIVAL_BENEFIT",
     "COMMUTATION", "CONVERSION", "FLC", "FORCED_SURRENDER"}
UnlockedType == {"LOAN_REPAYMENT", "DEATH_CLAIM"}

\* The non-financial requests.  The workflow treats them all alike, except
\* that an approved ASSIGNMENT also updates columns of the policy row.
NFRType == {"NFR", "ASSIGNMENT"}

RequestType == LockedType \cup UnlockedType \cup NFRType

RequiresFinancialLock(type) == type \in LockedType

\* What a downstream service reports.
Outcome == {"APPROVED", "REJECTED", "TIMEOUT"}

-----------------------------------------------------------------------------
\* Statuses in which a request type is let through; a death claim and a
\* non-financial request pass in every status that is not terminal.
GateStatus(type) ==
    CASE type = "SURRENDER" ->
            {"ACTIVE", "VOID_LAPSE", "INACTIVE_LAPSE", "ACTIVE_LAPSE", "PAID_UP"}
      [] type = "LOAN_REPAYMENT" ->
            {"ACTIVE", "ASSIGNED_TO_PRESIDENT", "PENDING_AUTO_SURRENDER"}
      [] type = "REVIVAL" -> {"VOID_LAPSE", "INACTIVE_LAPSE", "ACTIVE_LAPSE"}
      [] type = "MATURITY_CLAIM" -> {"ACTIVE", "PENDING_MATURITY"}
      [] type = "FLC" -> {"FREE_LOOK_ACTIVE"}
      [] type = "PAID_UP" -> {"ACTIVE", "ACTIVE_LAPSE"}
      [] type = "FORCED_SURRENDER" ->
            {"ASSIGNED_TO_PRESIDENT", "PENDING_AUTO_SURRENDER"}
      [] type \in {"LOAN", "SURVIVAL_BENEFIT", "COMMUTATION", "CONVERSION"} ->
            {"ACTIVE"}
      [] OTHER -> Status \ Terminal

\* The loan encumbrance a type insists on.
LoanAllows(type, hasLoan) ==
    /\ type = "LOAN" => ~hasLoan
    /\ type = "LOAN_REPAYMENT" => hasLoan

\* The gate inside the workflow: suspension closes it to all but death claims.
IsStateEligible(type, status, hasLoan) ==
    /\ status = "SUSPENDED" => type = "DEATH_CLAIM"
    /\ status \in GateStatus(type)
    /\ LoanAllows(type, hasLoan)

CheckTerminalOnly(type, status, hasLoan) ==
    status \notin Terminal /\ LoanAllows(type, hasLoan)

\* The gate of the HTTP handlers: the same table, but it names SUSPENDED
\* nowhere, so a non-financial request of a suspended policy is accepted.
CheckStateGate(type, status, hasLoan) ==
    /\ status \notin Terminal
    /\ status \in GateStatus(type)
    /\ LoanAllows(type, hasLoan)

MisspeltPreRouteStatus(type) ==
    IF type = "REVIVAL" THEN "PENDING_REVIVAL" ELSE NoStatus

\* The status a routed request parks the policy in, if any.
PreRouteStatus(type) ==
    CASE type = "SURRENDER" -> "PENDING_SURRENDER"
      [] type = "REVIVAL" -> "REVIVAL_PENDING"
      [] type = "DEATH_CLAIM" -> "DEATH_CLAIM_INTIMATED"
      [] type = "FORCED_SURRENDER" -> "PENDING_AUTO_SURRENDER"
      [] OTHER -> NoStatus

\* The status an outcome leads to (NoStatus: none), given the status recorded
\* as the previous one; reducedPaidUp is what the surrender service asks for.
CompletionStatus(type, outcome, reducedPaidUp, previous) ==
    CASE type = "SURRENDER" ->
            IF outcome = "APPROVED" THEN "SURRENDERED" ELSE previous
      [] type = "FORCED_SURRENDER" ->
            IF outcome # "APPROVED" THEN previous
            ELSE IF reducedPaidUp THEN "REDUCED_PAID_UP"
                                  ELSE "TERMINATED_SURRENDER"
      [] type = "REVIVAL" -> IF outcome = "APPROVED" THEN "ACTIVE" ELSE "VOID"
      [] type = "CONVERSION" /\ outcome = "APPROVED" -> "CONVERTED"
      [] type = "FLC" /\ outcome = "APPROVED" -> "FLC_CANCELLED"
      [] type = "DEATH_CLAIM" /\ outcome = "APPROVED" -> "DEATH_CLAIM_SETTLED"
      [] type = "MATURITY_CLAIM" /\ outcome = "APPROVED" -> "MATURED"
      [] type \in {"DEATH_CLAIM", "MATURITY_CLAIM", "SURVIVAL_BENEFIT"}
            /\ outcome = "REJECTED" -> previous
      [] OTHER -> NoStatus

CompletionAlwaysTerminal(type, outcome, reducedPaidUp) ==
    type \in {"SURRENDER", "DEATH_CLAIM", "MATURITY_CLAIM", "CONVERSION", "FLC"}

\* Whether the workflow is told that this outcome ended the policy: a failed
\* revival makes it VOID but is not reported as an end.
CompletionIsTerminal(type, outcome, reducedPaidUp) ==
    /\ outcome = "APPROVED"
    /\ type \in {"SURRENDER", "FORCED_SURRENDER", "DEATH_CLAIM",
                 "MATURITY_CLAIM", "CONVERSION", "FLC"}
    /\ ~ (type = "FORCED_SURRENDER" /\ reducedPaidUp)
=============================================================================
