------------------------ MODULE PolicyStatus_proofs ------------------------
(***************************************************************************)
(* Theorems about the status of a policy: that memory always has one, that *)
(* only an ended policy cools down, that the row keeps the loan and, with  *)
(* no other writer, the status the workflow has, that the state gate       *)
(* endpoint foretells the workflow, and what a repeated signal may change. *)
(***************************************************************************)
EXTENDS PolicyLifecycle_proofs, PolicyQueries

-----------------------------------------------------------------------------
(* The fields of the policy and the row after each kind of write.          *)

\* A transition in memory sets the two statuses and counts a version.
LEMMA MovedFields ==
    ASSUME NEW p \in PolicyState, NEW from, NEW to
    PROVE  /\ Moved(p, from, to).status = to
           /\ Moved(p, from, to).previous = from
           /\ Moved(p, from, to).version = p.version + 1
           /\ Moved(p, from, to).hasLoan = p.hasLoan
<1>1. /\ DOMAIN p = {"status", "previous", "beforeSuspension", "version",
                     "hasLoan", "amlHold"}
      /\ p = [x \in DOMAIN p |-> p[x]]
  BY DEF PolicyState
<1> QED
  BY <1>1 DEF Moved

\* A guarded update writes status and version together, or neither.
LEMMA RecordedFields ==
    ASSUME NEW w \in PolicyRow, NEW p, NEW to
    PROVE  /\ Recorded(w, p, to).hasLoan = w.hasLoan
           /\ Recorded(w, p, to).status \in {w.status, to}
           /\ w.version = p.version /\ to # NoStatus
                => /\ Recorded(w, p, to).status = to
                   /\ Recorded(w, p, to).version = w.version + 1
<1>1. DOMAIN w = {"status", "version", "hasLoan"} /\ w = [x \in DOMAIN w |-> w[x]]
  BY DEF PolicyRow
<1> QED
  BY <1>1 DEF Recorded

\* A metadata update changes neither the status nor the loan of the row.
LEMMA TouchedFields ==
    ASSUME NEW w \in PolicyRow, NEW lost
    PROVE  Touched(w, lost).status = w.status /\ Touched(w, lost).hasLoan = w.hasLoan
<1>1. DOMAIN w = {"status", "version", "hasLoan"} /\ w = [x \in DOMAIN w |-> w[x]]
  BY DEF PolicyRow
<1> QED
  BY <1>1 DEF Touched

\* A completion sets the encumbrance of memory, and of the row unless it is lost.
LEMMA EncumberedFields ==
    ASSUME NEW p \in PolicyState, NEW w \in PolicyRow, NEW loan, NEW lost
    PROVE  /\ EncumberedPolicy(p, loan).status = p.status
           /\ EncumberedPolicy(p, loan).previous = p.previous
           /\ EncumberedRow(w, loan, lost).status = w.status
           /\ loan = {} => /\ EncumberedPolicy(p, loan) = p
                           /\ EncumberedRow(w, loan, lost) = w
           /\ lost = "none" /\ p.hasLoan = w.hasLoan
                => EncumberedPolicy(p, loan).hasLoan = EncumberedRow(w, loan, lost).hasLoan
<1>1. /\ DOMAIN w = {"status", "version", "hasLoan"} /\ w = [x \in DOMAIN w |-> w[x]]
      /\ DOMAIN p = {"status", "previous", "beforeSuspension", "version",
                     "hasLoan", "amlHold"}
      /\ p = [x \in DOMAIN p |-> p[x]]
  BY DEF PolicyState, PolicyRow
<1> DEFINE b == TRUE \in loan
<1>2. /\ EncumberedPolicy(p, loan) = IF loan = {} THEN p ELSE [p EXCEPT !.hasLoan = b]
      /\ EncumberedRow(w, loan, lost) =
            IF loan = {} \/ lost = "metadata" THEN w
            ELSE [w EXCEPT !.hasLoan = b, !.version = @ + 1]
  BY DEF EncumberedPolicy, EncumberedRow
<1> HIDE DEF b
<1> QED
  BY <1>1, <1>2

\* What a handler goes on with after RefreshStateFromDB comes from memory, or
\* from what it read of the row.
LEMMA RefreshedFields ==
    ASSUME TypeOK
    PROVE  /\ Refreshed.previous = policy.previous
           /\ \/ Refreshed = policy
              \/ \E w \in read : /\ Refreshed.status = w.status
                                 /\ Refreshed.version = w.version
                                 /\ Refreshed.hasLoan = w.hasLoan
<1>1. CASE read = {}
  BY <1>1 DEF Refreshed
<1>2. CASE read # {}
  <2> DEFINE found == CHOOSE w \in read : TRUE
  <2>1. found \in read
    BY <1>2
  <2>2. found \in PolicyRow /\ policy \in PolicyState
    BY <2>1 DEF TypeOK
  <2>3. Refreshed = [policy EXCEPT !.status = found.status,
                                   !.version = found.version,
                                   !.hasLoan = found.hasLoan, !.amlHold = FALSE]
    BY <1>2 DEF Refreshed
  <2> HIDE DEF found
  <2>4. /\ Refreshed.status = found.status /\ Refreshed.version = found.version
        /\ Refreshed.hasLoan = found.hasLoan /\ Refreshed.previous = policy.previous
    BY <2>2, <2>3 DEF PolicyState
  <2> QED
    BY <2>1, <2>4
<1> QED
  BY <1>1, <1>2

-----------------------------------------------------------------------------
(* What a step may do to the statuses and the loan.                        *)

\* The statuses a handler may go on with, and the loan encumbrances.
StatusesAtHand == {policy.status} \cup {w.status : w \in read}
LoansAtHand == {policy.hasLoan} \cup {w.hasLoan : w \in read}

\* Both statuses are set, or the previous one stays and the current one is what
\* the handler has at hand, or that of a new policy.  A scan writes the row of a
\* policy that is past its free look.
StatusStep ==
    \/ policy'.status \in Status /\ policy'.previous \in Status
    \/ /\ policy'.previous = policy.previous
       /\ policy'.status \in StatusesAtHand \cup {"FREE_LOOK_ACTIVE"}
       /\ row'.status = row.status \/ row.status # "FREE_LOOK_ACTIVE"
       /\ read' \subseteq read \cup {row}

\* Cooling begins with a terminal status, and keeps it.
PhaseStep ==
    /\ phase' = "cooling" =>
            \/ policy'.status \in Terminal
            \/ phase = "cooling" /\ policy'.status = policy.status
    /\ phase' # "running" => busy' = NoRequest
    /\ busy' = NoRequest => read' = {}

\* The row keeps its encumbrance, or gets that of the policy.
LoanStep ==
    /\ faults' = 0 => faults = 0
    /\ \/ /\ row'.hasLoan = row.hasLoan
          /\ policy'.hasLoan \in LoansAtHand
          /\ read' \subseteq read \cup {row}
       \/ /\ read' = {}
          /\ faults' = 0 /\ policy.hasLoan = row.hasLoan
                => policy'.hasLoan = row'.hasLoan

PolicyStep == StatusStep /\ PhaseStep /\ LoanStep

\* A handler is not half way once the main loop is left, and a handler that is
\* not half way has read nothing.
HandlerIdle ==
    /\ phase # "running" => busy = NoRequest
    /\ busy = NoRequest => read = {}

\* The previous status is unset only while the policy is in its free look, in
\* memory, in the row and in what was read of it.
StatusInvariant ==
    /\ policy.status \in Status
    /\ policy.previous = NoStatus =>
            /\ policy.status = "FREE_LOOK_ACTIVE" /\ row.status = "FREE_LOOK_ACTIVE"
            /\ \A w \in read : w.status = "FREE_LOOK_ACTIVE"
    /\ HandlerIdle
    /\ CoolingTerminal

LoanInvariant ==
    faults = 0 => /\ policy.hasLoan = row.hasLoan
                  /\ \A w \in read : w.hasLoan = row.hasLoan

\* A step of one of these kinds keeps the two invariants.
LEMMA PolicyStepKeeps ==
    ASSUME TypeOK, TypeOK', StatusInvariant, PolicyStep
    PROVE  StatusInvariant' /\ (LoanInvariant => LoanInvariant')
<1>1. /\ policy.status \in Status /\ read \subseteq PolicyRow
      /\ \A w \in read : w.status \in Status
      /\ "FREE_LOOK_ACTIVE" \in Status /\ NoStatus \notin Status
  BY StatusMembers DEF StatusInvariant, TypeOK, PolicyRow
<1>2. policy'.status \in Status
  BY <1>1 DEF PolicyStep, StatusStep, StatusesAtHand
<1>3. (policy.previous = NoStatus =>
            /\ policy.status = "FREE_LOOK_ACTIVE" /\ row.status = "FREE_LOOK_ACTIVE"
            /\ \A w \in read : w.status = "FREE_LOOK_ACTIVE")'
  BY <1>1 DEF PolicyStep, StatusStep, StatusesAtHand, StatusInvariant
<1>4. HandlerIdle' /\ CoolingTerminal'
  BY DEF PolicyStep, PhaseStep, HandlerIdle, CoolingTerminal, StatusInvariant
<1>5. LoanInvariant => LoanInvariant'
  BY DEF PolicyStep, LoanStep, LoansAtHand, LoanInvariant
<1> QED
  BY <1>2, <1>3, <1>4, <1>5 DEF StatusInvariant

-----------------------------------------------------------------------------
(* The steps, one kind at a time.                                          *)

\* A step that leaves memory and the row alone, and at most reads the row.
LEMMA KeptStep ==
    ASSUME StatusInvariant, UNCHANGED <<policy, row>>,
           read' \subseteq read \cup {row},
           phase' = "cooling" => phase = "cooling",
           phase' # "running" => busy' = NoRequest,
           busy' = NoRequest => read' = {},
           faults' = 0 => faults = 0
    PROVE  PolicyStep
BY DEF PolicyStep, StatusStep, PhaseStep, LoanStep, StatusesAtHand, LoansAtHand,
       StatusInvariant, CoolingTerminal

\* A transition between statuses that are set, of a handler that is done after.
LEMMA ShiftedStep ==
    ASSUME TypeOK, NEW p \in PolicyState, NEW from \in Status, NEW to \in Status,
           NEW lost, TransitionOf(p, from, to, lost), p.hasLoan \in LoansAtHand,
           read' \subseteq read, phase' # "running" => busy' = NoRequest,
           busy' = NoRequest => read' = {},
           phase' = "cooling" => to \in Terminal, Charge(lost)
    PROVE  PolicyStep
<1>1. /\ policy'.status = to /\ policy'.previous = from
      /\ policy'.hasLoan = p.hasLoan
  BY MovedFields DEF TransitionOf
<1>2. row'.hasLoan = row.hasLoan
  BY RecordedFields DEF TransitionOf, TypeOK
<1>3. faults' = 0 => faults = 0
  BY ChargeFaults
<1> QED
  BY <1>1, <1>2, <1>3 DEF PolicyStep, StatusStep, PhaseStep, LoanStep

\* A system signal whose effect is one transition and one update at most.
LEMMA EffectFields ==
    ASSUME TypeOK, NEW to, NEW touches \in BOOLEAN, SystemEffect(to, touches)
    PROVE  /\ policy'.hasLoan = policy.hasLoan /\ row'.hasLoan = row.hasLoan
           /\ IF to = NoStatus
              THEN policy' = policy /\ row'.status = row.status
              ELSE policy'.status = to /\ policy'.previous = policy.status
           /\ faults' = 0 => faults = 0
<1>1. PICK lost \in Lost({"transition"} \cup IF touches THEN {"metadata"} ELSE {}) :
        /\ policy' = IF to = NoStatus THEN policy
                     ELSE Moved(policy, policy.status, to)
        /\ row' = LET w == IF to = NoStatus \/ lost = "transition" THEN row
                           ELSE Recorded(row, policy, to)
                  IN  IF touches THEN Touched(w, lost) ELSE w
        /\ Charge(lost)
  BY DEF SystemEffect
<1> DEFINE w == IF to = NoStatus \/ lost = "transition" THEN row
                ELSE Recorded(row, policy, to)
<1>2. policy \in PolicyState /\ row \in PolicyRow
  BY DEF TypeOK
<1>3. w.hasLoan = row.hasLoan /\ (to = NoStatus => w.status = row.status)
  BY <1>2, RecordedFields
<1>4. row' = IF touches THEN Touched(w, lost) ELSE w
  BY <1>1
<1>5. row'.hasLoan = w.hasLoan /\ (to = NoStatus => row'.status = w.status)
  <2>1. CASE to = NoStatus \/ lost = "transition"
    BY <1>2, <1>4, <2>1, TouchedFields
  <2>2. CASE to # NoStatus
    <3>1. w \in PolicyRow \/ w = Recorded(row, policy, to)
      BY <1>2, <2>2
    <3>2. Touched(w, lost).hasLoan = w.hasLoan
      BY <1>2, <2>2, <3>1, TouchedFields DEF Touched, Recorded, PolicyRow
    <3> QED
      BY <1>4, <2>2, <3>2
  <2> QED
    BY <2>1, <2>2
<1>6. /\ policy'.hasLoan = policy.hasLoan
      /\ IF to = NoStatus THEN policy' = policy
         ELSE policy'.status = to /\ policy'.previous = policy.status
  BY <1>1, <1>2, MovedFields
<1>7. faults' = 0 => faults = 0
  BY <1>1, ChargeFaults
<1> HIDE DEF w
<1> QED
  BY <1>3, <1>5, <1>6, <1>7

\* The effect of a system signal is a step of the policy.
LEMMA EffectStep ==
    ASSUME TypeOK, StatusInvariant, NEW to \in Status \cup {NoStatus},
           NEW touches \in BOOLEAN, SystemEffect(to, touches),
           UNCHANGED <<busy, read>>,
           phase' # "running" => busy = NoRequest,
           phase' = "cooling" => (phase = "cooling" /\ to = NoStatus) \/ to \in Terminal
    PROVE  PolicyStep
<1>0. NoStatus \notin Terminal /\ NoStatus \notin Status
  BY StatusMembers DEF Status
<1>1. CASE to = NoStatus
  BY <1>0, <1>1, EffectFields
     DEF PolicyStep, StatusStep, PhaseStep, LoanStep, StatusesAtHand, LoansAtHand,
         StatusInvariant, HandlerIdle
<1>2. CASE to # NoStatus
  BY <1>0, <1>2, EffectFields
     DEF PolicyStep, StatusStep, PhaseStep, LoanStep, LoansAtHand,
         StatusInvariant, HandlerIdle
<1> QED
  BY <1>1, <1>2

\* A completion leads to the status of its outcome; only an end of the policy
\* is a terminal one.
LEMMA CompletionCools ==
    ASSUME NEW type, NEW outcome, NEW reducedPaidUp, NEW previous,
           CompletionIsTerminal(type, outcome, reducedPaidUp)
    PROVE  CompletionStatus(type, outcome, reducedPaidUp, previous) \in Terminal
BY DEF CompletionIsTerminal, CompletionStatus, Terminal

\* So is a completion, which cools the policy down only at an end of it.
LEMMA CompletionStep ==
    ASSUME TypeOK, StatusInvariant, NEW r \in Request, CompleteOperation(r)
    PROVE  PolicyStep
<1>1. PICK lost \in Lost({"transition", "lock", "service_request", "metadata",
                          "snapshot"}),
           reducedPaidUp \in {FALSE} \cup {TypeOf[r] = "FORCED_SURRENDER"} :
        LET new == CompletionStatus(TypeOf[r], child[r], reducedPaidUp,
                                    policy.previous)
            moves == new \notin {NoStatus, policy.status}
            loan == LoanAfter(TypeOf[r], child[r])
        IN  /\ policy' = EncumberedPolicy(
                    IF moves THEN Moved(policy, policy.status, new)
                             ELSE policy, loan)
            /\ row' = EncumberedRow(
                    IF moves /\ lost # "transition"
                    THEN Recorded(row, policy, new) ELSE row, loan, lost)
            /\ sr' = Marked(MatchedAfterCompaction(r), "COMPLETED", lost)
            /\ ReleaseLockIf(activeLock = r, lost)
            /\ EnterCoolingIf(CompletionIsTerminal(TypeOf[r], child[r],
                                                   reducedPaidUp), lost)
            /\ Charge(lost)
  BY DEF CompleteOperation
<1> DEFINE new == CompletionStatus(TypeOf[r], child[r], reducedPaidUp, policy.previous)
           moves == new \notin {NoStatus, policy.status}
           loan == LoanAfter(TypeOf[r], child[r])
           p == IF moves THEN Moved(policy, policy.status, new) ELSE policy
           w == IF moves /\ lost # "transition"
                THEN Recorded(row, policy, new) ELSE row
<1>2. /\ policy' = EncumberedPolicy(p, loan) /\ row' = EncumberedRow(w, loan, lost)
      /\ EnterCoolingIf(CompletionIsTerminal(TypeOf[r], child[r], reducedPaidUp), lost)
      /\ Charge(lost)
  BY <1>1
<1>3. CompletionIsTerminal(TypeOf[r], child[r], reducedPaidUp) => new \in Terminal
  BY CompletionCools
<1>4. /\ policy \in PolicyState /\ row \in PolicyRow
      /\ policy.status \in Status /\ policy.previous \in Status \cup {NoStatus}
  BY DEF TypeOK, PolicyState, StatusInvariant
<1>5. new \in Status \cup {NoStatus} /\ NoStatus \notin Terminal
  BY <1>4, CompletionType, StatusMembers DEF Status
<1> HIDE DEF new
<1>6. /\ p \in PolicyState /\ w \in PolicyRow
      /\ p.hasLoan = policy.hasLoan /\ w.hasLoan = row.hasLoan
      /\ ~ moves => p = policy /\ w = row
      /\ moves => p.status = new /\ p.previous = policy.status
  <2>1. CASE moves
    <3>1. /\ Moved(policy, policy.status, new) \in PolicyState
          /\ Recorded(row, policy, new) \in PolicyRow
      BY <1>4, <1>5, MovedType, RecordedType
    <3>2. p = Moved(policy, policy.status, new) /\ w \in {row, Recorded(row, policy, new)}
      BY <2>1
    <3> QED
      BY <1>4, <2>1, <3>1, <3>2, MovedFields, RecordedFields
  <2>2. CASE ~ moves
    BY <1>4, <2>2
  <2> QED
    BY <2>1, <2>2
<1> HIDE DEF p, w, loan
<1>7. /\ policy'.status = p.status /\ policy'.previous = p.previous
      /\ row'.status = w.status
  BY <1>2, <1>6, EncumberedFields
<1>8. /\ faults' = 0 => faults = 0 /\ lost = "none"
      /\ lost = "none" /\ policy.hasLoan = row.hasLoan => policy'.hasLoan = row'.hasLoan
  BY <1>2, <1>6, EncumberedFields, ChargeFaults
<1>9. /\ phase = "running" /\ busy = NoRequest /\ UNCHANGED <<busy, read>>
      /\ read = {}
  BY DEF CompleteOperation, Handles, Idle, SameLoop, StatusInvariant, HandlerIdle
<1>10. StatusStep
  BY <1>4, <1>5, <1>6, <1>7, <1>9 DEF StatusStep, StatusesAtHand
<1>11. PhaseStep
  <2>1. phase' = "cooling" => new \in Terminal
    BY <1>2, <1>3, <1>9 DEF EnterCoolingIf
  <2> QED
    BY <2>1, <1>5, <1>6, <1>7, <1>9 DEF PhaseStep
<1>12. LoanStep
  BY <1>8, <1>9 DEF LoanStep
<1> QED
  BY <1>10, <1>11, <1>12 DEF PolicyStep

\* A refresh alone: the handler goes on with what it read.
LEMMA RefreshedStep ==
    ASSUME TypeOK, StatusInvariant, policy' = Refreshed, UNCHANGED <<row, phase>>,
           busy' = NoRequest, read' = {}, faults' = 0 => faults = 0, phase = "running"
    PROVE  PolicyStep
BY RefreshedFields
   DEF PolicyStep, StatusStep, PhaseStep, LoanStep, StatusesAtHand, LoansAtHand

\* So is the second half of a request handler, which goes on with what it read.
LEMMA RouteStep ==
    ASSUME TypeOK, StatusInvariant, NEW r \in Request, RouteRequest(r)
    PROVE  PolicyStep
<1>1. PICK lost :
        /\ IF PreRouteStatus(TypeOf[r]) # NoStatus
           THEN TransitionOf(Refreshed, Refreshed.status,
                             PreRouteStatus(TypeOf[r]), lost)
           ELSE policy' = Refreshed /\ UNCHANGED row
        /\ Charge(lost)
  BY DEF RouteRequest
<1>2. /\ busy' = NoRequest /\ read' = {} /\ phase' = phase /\ phase = "running"
      /\ faults' = 0 => faults = 0
  BY <1>1, ChargeFaults, RequestAssumption
     DEF RouteRequest, HandlerDone, StatusInvariant, HandlerIdle
<1>3. CASE PreRouteStatus(TypeOf[r]) = NoStatus
  BY <1>1, <1>2, <1>3, RefreshedStep
<1>4. CASE PreRouteStatus(TypeOf[r]) # NoStatus
  <2>1. Refreshed \in PolicyState /\ PreRouteStatus(TypeOf[r]) \in Status
    BY <1>4, RefreshedType, PreRouteType
  <2>2. Refreshed.hasLoan \in LoansAtHand
    BY RefreshedFields DEF LoansAtHand
  <2>3. Refreshed.status \in Status
    BY RefreshedFields DEF TypeOK, PolicyRow, StatusInvariant
  <2> QED
    BY <1>1, <1>2, <1>4, <2>1, <2>2, <2>3, ShiftedStep
<1> QED
  BY <1>3, <1>4

\* Every step that concerns a request is a step of the policy.
LEMMA RequestPolicyStep ==
    ASSUME TypeOK, StatusInvariant, NEW r \in Request, RequestStep(r)
    PROVE  PolicyStep
<1> USE DEF loop, environment
<1>0. HandlerIdle /\ (phase = "running" /\ busy = r => busy # NoRequest)
  BY RequestAssumption DEF StatusInvariant
<1>1. CASE Submit(r) \/ MarkRouted(r) \/ WithdrawRequest(r)
  BY <1>0, <1>1, KeptStep DEF Submit, MarkRouted, WithdrawRequest, HandlerIdle
<1>2. CASE ChildApprovesRevival(r) \/ ChildStops(r)
            \/ \E outcome \in Outcome : ChildCompletes(r, outcome)
  BY <1>0, <1>2, KeptStep
     DEF ChildApprovesRevival, ChildStops, ChildCompletes, ChildReports, HandlerIdle
<1>3. CASE DropDuplicateRequest(r) \/ IgnoreCompletion(r)
            \/ \E kind \in {"revival-approved", "withdrawal"} :
                    DropDuplicate(Signal(kind, r))
  BY <1>0, <1>3, KeptStep
     DEF DropDuplicateRequest, IgnoreCompletion, DropDuplicate, HandlerIdle
<1>4. CASE ReceiveRequest(r)
  <2>1. /\ UNCHANGED <<policy, row, phase>> /\ phase = "running" /\ busy' = r
        /\ read' \subseteq {row} /\ (faults' = 0 => faults = 0)
    BY <1>4, ChargeFaults DEF ReceiveRequest, Idle
  <2> QED
    BY <2>1, KeptStep, RequestAssumption
<1>5. CASE RejectSuspended(r)
  BY <1>0, <1>5, RefreshedStep DEF RejectSuspended, HandlerDone, HandlerIdle
<1>6. CASE RejectRequest(r)
  BY <1>0, <1>6, RefreshedStep, ChargeFaults DEF RejectRequest, HandlerDone, HandlerIdle
<1>7. CASE RouteRequest(r)
  BY <1>7, RouteStep
<1>8. CASE CompleteOperation(r)
  BY <1>8, CompletionStep
<1>9. CASE CompleteNFR(r)
  <2>1. PICK lost :
        /\ row' = IF /\ child[r] = "APPROVED"
                     /\ TypeOf[MatchedAfterCompaction(r)] = "ASSIGNMENT"
                  THEN Touched(row, lost) ELSE row
        /\ Charge(lost)
    BY <1>9 DEF CompleteNFR
  <2>2. row'.status = row.status /\ row'.hasLoan = row.hasLoan
    BY <2>1, TouchedFields DEF TypeOK
  <2>3. UNCHANGED <<policy, phase, busy, read>> /\ phase = "running"
    BY <1>9 DEF CompleteNFR, Handles, Idle, SameLoop
  <2> QED
    BY <1>0, <2>1, <2>2, <2>3, ChargeFaults
       DEF PolicyStep, StatusStep, PhaseStep, LoanStep, StatusesAtHand, LoansAtHand,
           HandlerIdle
<1>10. CASE RevivalApproved(r)
  <2>1. PICK lost :
        /\ IF policy.status # "ACTIVE"
           THEN Transition(policy.status, "ACTIVE", lost) ELSE NoTransition
        /\ Charge(lost)
    BY <1>10 DEF RevivalApproved
  <2>2. UNCHANGED <<phase, busy, read>> /\ phase = "running"
    BY <1>10 DEF RevivalApproved, Handles, Idle, SameLoop
  <2>3. CASE policy.status # "ACTIVE"
    BY <1>0, <2>1, <2>2, <2>3, ShiftedStep, StatusMembers
       DEF Transition, HandlerIdle, LoansAtHand, StatusInvariant, TypeOK
  <2>4. CASE policy.status = "ACTIVE"
    BY <1>0, <2>1, <2>2, <2>4, KeptStep, ChargeFaults DEF NoTransition, HandlerIdle
  <2> QED
    BY <2>3, <2>4
<1>11. CASE HandleWithdrawal(r)
  <2>2. UNCHANGED <<phase, busy, read>> /\ phase = "running"
    BY <1>11 DEF HandleWithdrawal, Handles, Idle, SameLoop
  <2>3. CASE /\ r \in PendingRequests
             /\ policy.status = PreRouteStatus(TypeOf[r]) /\ policy.status # NoStatus
    <3>1. PICK lost : /\ Transition(policy.status, policy.previous, lost)
                      /\ Charge(lost)
      BY <1>11, <2>3 DEF HandleWithdrawal
    <3>2. policy.previous \in Status
      BY <2>3 DEF PreRouteStatus, NoStatus, StatusInvariant, TypeOK, PolicyState
    <3> QED
      BY <1>0, <2>2, <3>1, <3>2, ShiftedStep
         DEF Transition, HandlerIdle, LoansAtHand, StatusInvariant, TypeOK
  <2>4. CASE ~ /\ r \in PendingRequests
               /\ policy.status = PreRouteStatus(TypeOf[r]) /\ policy.status # NoStatus
    <3>1. UNCHANGED <<policy, row>> /\ (faults' = 0 => faults = 0)
      BY <1>11, <2>4, ChargeFaults DEF HandleWithdrawal, NoTransition
    <3> QED
      BY <1>0, <2>2, <3>1, KeptStep DEF HandlerIdle
  <2> QED
    BY <2>3, <2>4
<1> QED
  BY <1>1, <1>2, <1>3, <1>4, <1>5, <1>6, <1>7, <1>8, <1>9, <1>10, <1>11
     DEF RequestStep

\* What the handlers of the main loop share.
LEMMA SystemLoop ==
    ASSUME StatusInvariant, NEW s, NEW kind, HandlesSystem(s, kind)
    PROVE  /\ phase = "running" /\ busy = NoRequest /\ read = {}
           /\ UNCHANGED <<busy, read>>
BY DEF HandlesSystem, Handles, Idle, SameLoop, StatusInvariant, HandlerIdle

\* So is every step that handles a system signal.
LEMMA SystemPolicyStep ==
    ASSUME TypeOK, StatusInvariant, NEW s \in SystemSignal, SystemStep(s)
    PROVE  PolicyStep
<1> USE DEF loop, environment
<1>0. /\ HandlerIdle /\ policy.status \in Status /\ policy \in PolicyState
      /\ policy.previous \in Status \cup {NoStatus}
      /\ policy.beforeSuspension \in Status \cup {NoStatus}
  BY DEF StatusInvariant, TypeOK, PolicyState
<1>1. CASE DropDuplicateSystem(s)
  BY <1>0, <1>1, KeptStep DEF DropDuplicateSystem, HandlerIdle
<1>2. CASE PolicyCreatedAgain(s)
  <2>1. /\ policy'.status = "FREE_LOOK_ACTIVE" /\ policy'.previous = policy.previous
        /\ policy'.hasLoan = policy.hasLoan
    BY <1>0, <1>2 DEF PolicyCreatedAgain, PolicyState
  <2> QED
    BY <1>0, <1>2, <2>1
       DEF PolicyCreatedAgain, Idle, PolicyStep, StatusStep, PhaseStep, LoanStep,
           LoansAtHand, HandlerIdle
<1>3. ASSUME NEW inRemission \in BOOLEAN, PremiumPaid(s, inRemission) PROVE PolicyStep
  <2>1. PICK to \in {NoStatus, "ACTIVE"} : SystemEffect(to, TRUE)
    BY <1>3 DEF PremiumPaid
  <2> QED
    BY <1>3, <2>1, SystemLoop, EffectStep, StatusMembers
       DEF PremiumPaid, OnlyPolicyChanges
<1>4. ASSUME NEW lapse \in {"VOID_LAPSE", "INACTIVE_LAPSE"},
             PaymentDishonored(s, lapse)
      PROVE  PolicyStep
  <2>1. PICK to \in {NoStatus, lapse}, touches \in BOOLEAN : SystemEffect(to, touches)
    BY <1>4 DEF PaymentDishonored
  <2> QED
    BY <1>4, <2>1, SystemLoop, EffectStep, StatusMembers
       DEF PaymentDishonored, OnlyPolicyChanges
<1>5. CASE AMLFlagRaised(s)
  <2> DEFINE flagged == [policy EXCEPT !.beforeSuspension = policy.status,
                                       !.amlHold = TRUE]
  <2>1. flagged \in PolicyState /\ flagged.hasLoan = policy.hasLoan
    BY <1>0 DEF PolicyState
  <2>2. PICK lost : TransitionOf(flagged, policy.status, "SUSPENDED", lost) /\ Charge(lost)
    BY <1>5 DEF AMLFlagRaised
  <2> HIDE DEF flagged
  <2>3. phase' = phase
    BY <1>5 DEF AMLFlagRaised, OnlyPolicyChanges
  <2> QED
    BY <1>0, <1>5, <2>1, <2>2, <2>3, SystemLoop, ShiftedStep, StatusMembers
       DEF AMLFlagRaised, LoansAtHand
<1>6. CASE AMLFlagCleared(s)
  <2> DEFINE cleared == [policy EXCEPT !.beforeSuspension = NoStatus,
                                       !.amlHold = FALSE]
  <2>1. cleared \in PolicyState /\ cleared.hasLoan = policy.hasLoan
    BY <1>0 DEF PolicyState
  <2>2. PICK lost : TransitionOf(cleared, "SUSPENDED", Restored, lost) /\ Charge(lost)
    BY <1>6 DEF AMLFlagCleared
  <2>3. Restored \in Status
    BY <1>0, StatusMembers DEF Restored
  <2> HIDE DEF cleared
  <2>4. phase' = phase
    BY <1>6 DEF AMLFlagCleared, OnlyPolicyChanges
  <2> QED
    BY <1>0, <1>6, <2>1, <2>2, <2>3, <2>4, SystemLoop, ShiftedStep, StatusMembers
       DEF AMLFlagCleared, LoansAtHand
<1>7. CASE InvestigationStarted(s)
  <2>1. PICK to \in {NoStatus, "DEATH_UNDER_INVESTIGATION"} : SystemEffect(to, FALSE)
    BY <1>7 DEF InvestigationStarted
  <2> QED
    BY <1>7, <2>1, SystemLoop, EffectStep, StatusMembers
       DEF InvestigationStarted, OnlyPolicyChanges
<1>8. ASSUME NEW confirmed \in BOOLEAN, InvestigationConcluded(s, confirmed)
      PROVE  PolicyStep
  <2>1. PICK to \in {NoStatus, "DEATH_CLAIM_SETTLED", "DEATH_CLAIM_INTIMATED"} :
            /\ SystemEffect(to, FALSE)
            /\ phase' = phase \/ to = "DEATH_CLAIM_SETTLED"
    BY <1>8 DEF InvestigationConcluded, EnterCoolingIf
  <2>2. "DEATH_CLAIM_SETTLED" \in Terminal
    BY DEF Terminal
  <2> QED
    BY <1>8, <2>1, <2>2, SystemLoop, EffectStep, StatusMembers DEF InvestigationConcluded
<1>9. CASE ConversionReversed(s)
  <2>1. PICK to \in {NoStatus, policy.previous} : SystemEffect(to, FALSE)
    BY <1>9 DEF ConversionReversed
  <2> QED
    BY <1>0, <1>9, <2>1, SystemLoop, EffectStep DEF ConversionReversed, OnlyPolicyChanges
<1>10. CASE MetadataUpdated(s)
  BY <1>10, SystemLoop, EffectStep DEF MetadataUpdated, OnlyPolicyChanges
<1>11. CASE Dispute(s)
  BY <1>11, SystemLoop, KeptStep DEF Dispute, OnlyPolicyChanges
<1>12. CASE AdminVoid(s)
  <2>1. PICK lost : Transition(policy.status, "VOID", lost) /\ Charge(lost)
    BY <1>12 DEF AdminVoid
  <2>2. "VOID" \in Terminal /\ "VOID" \in Status
    BY DEF Terminal, Status
  <2> QED
    BY <1>0, <1>12, <2>1, <2>2, SystemLoop, ShiftedStep
       DEF AdminVoid, Transition, LoansAtHand
<1>13. ASSUME NEW sufficient \in BOOLEAN, VoluntaryPaidUp(s, sufficient)
       PROVE  PolicyStep
  <2>1. PICK to \in {NoStatus, "PAID_UP", "VOID"} :
            SystemEffect(to, FALSE) /\ (phase' = phase \/ to = "VOID")
    BY <1>13 DEF VoluntaryPaidUp, EnterCoolingIf
  <2>2. "VOID" \in Terminal
    BY DEF Terminal
  <2> QED
    BY <1>13, <2>1, <2>2, SystemLoop, EffectStep, StatusMembers DEF VoluntaryPaidUp
<1>14. ASSUME NEW expired \in BOOLEAN, CoolingPremium(s, expired) PROVE PolicyStep
  BY <1>0, <1>14, KeptStep, ChargeFaults DEF CoolingPremium, HandlesCooling, HandlerIdle
<1>15. ASSUME NEW expired \in BOOLEAN, CoolingLoanBalance(s, expired) PROVE PolicyStep
  BY <1>0, <1>15, EffectStep DEF CoolingLoanBalance, HandlesCooling, HandlerIdle
<1>16. ASSUME NEW expired \in BOOLEAN, CoolingReopen(s, expired) PROVE PolicyStep
  <2>1. /\ phase = "cooling" /\ busy = NoRequest /\ read = {} /\ UNCHANGED <<busy, read>>
        /\ policy.status \in Terminal
    BY <1>0, <1>16 DEF CoolingReopen, HandlerIdle, StatusInvariant, CoolingTerminal
  <2>2. CASE Signal("system", s) \in processed
    BY <1>16, <2>1, <2>2, KeptStep DEF CoolingReopen
  <2>3. CASE Signal("system", s) \notin processed
    <3>1. PICK lost : Transition(policy.status, policy.previous, lost) /\ Charge(lost)
      BY <1>16, <2>3 DEF CoolingReopen
    <3>2. policy.previous \in Status
      BY <1>0, <2>1 DEF StatusInvariant, Terminal
    <3>3. policy'.status = policy.previous
      BY <1>0, <3>1, MovedFields DEF Transition, TransitionOf
    <3>4. phase' = "cooling" => policy.previous \in Terminal
      BY <1>16, <3>3 DEF CoolingReopen
    <3> QED
      BY <1>0, <2>1, <3>1, <3>2, <3>4, ShiftedStep DEF Transition, LoansAtHand
  <2> QED
    BY <2>2, <2>3
<1> QED
  BY <1>1, <1>2, <1>3, <1>4, <1>5, <1>6, <1>7, <1>8, <1>9, <1>10, <1>11, <1>12,
     <1>13, <1>14, <1>15, <1>16 DEF SystemStep

\* So is every step of the scans, the timers and Continue-As-New.
LEMMA LoopPolicyStep ==
    ASSUME TypeOK, StatusInvariant, LoopStep \/ UNCHANGED vars
    PROVE  PolicyStep
<1> USE DEF loop, environment
<1>0. /\ HandlerIdle /\ policy \in PolicyState /\ row \in PolicyRow
      /\ policy.status \in Status
  BY DEF StatusInvariant, TypeOK
<1>1. ASSUME NEW move \in ScanMove, BatchSelect(move) PROVE PolicyStep
  BY <1>0, <1>1, KeptStep DEF BatchSelect, HandlerIdle
<1>2. CASE BatchApply
  <2>1. PICK lost :
        /\ row' = IF row.status = scan[1] /\ lost # "batch"
                  THEN [row EXCEPT !.status = scan[2], !.version = @ + 1]
                  ELSE row
        /\ Charge(lost)
    BY <1>2 DEF BatchApply
  <2>2. scan[1] # "FREE_LOOK_ACTIVE"
    BY <1>2
       DEF BatchApply, TypeOK, BatchTransition, LapsationMove, RemissionMove, PaidUpMove,
           MaturityMove
  <2>3. row'.hasLoan = row.hasLoan
    BY <1>0, <2>1 DEF PolicyRow
  <2> QED
    BY <1>0, <1>2, <2>1, <2>2, <2>3, ChargeFaults
       DEF BatchApply, PolicyStep, StatusStep, PhaseStep, LoanStep, StatusesAtHand,
           LoansAtHand, StatusInvariant, CoolingTerminal, HandlerIdle
<1>3. CASE BatchSync
  <2>1. Head(syncs) \in Status
    BY <1>3 DEF BatchSync, TypeOK
  <2> QED
    BY <1>0, <1>3, <2>1, MovedFields
       DEF BatchSync, Idle, PolicyStep, StatusStep, PhaseStep, LoanStep, LoansAtHand,
           HandlerIdle
<1>4. CASE FLCExpires
  <2>1. UNCHANGED <<busy, read, phase>>
    BY <1>4 DEF FLCExpires
  <2>2. CASE policy.status = "FREE_LOOK_ACTIVE"
    <3>1. PICK lost : Transition("FREE_LOOK_ACTIVE", "ACTIVE", lost) /\ Charge(lost)
      BY <1>4, <2>2 DEF FLCExpires
    <3>2. phase # "cooling"
      BY <2>2 DEF StatusInvariant, CoolingTerminal, Terminal
    <3> QED
      BY <1>0, <2>1, <3>1, <3>2, ShiftedStep, StatusMembers
         DEF Transition, HandlerIdle, LoansAtHand
  <2>3. CASE policy.status # "FREE_LOOK_ACTIVE"
    BY <1>0, <1>4, <2>1, <2>3, KeptStep DEF FLCExpires, HandlerIdle
  <2> QED
    BY <2>2, <2>3
<1>5. CASE ContinueAsNew
  BY <1>0, <1>5, KeptStep DEF ContinueAsNew, HandlerIdle
<1>6. CASE CoolingExpires
  BY <1>0, <1>6, KeptStep, ChargeFaults DEF CoolingExpires, HandlerIdle
<1>7. CASE UNCHANGED vars
  BY <1>0, <1>7, KeptStep DEF vars, HandlerIdle
<1> QED
  BY <1>1, <1>2, <1>3, <1>4, <1>5, <1>6, <1>7 DEF LoopStep

-----------------------------------------------------------------------------
(* The theorems.                                                           *)

\* A policy starts with memory and row in agreement.
LEMMA InitialStatus ==
    ASSUME Init
    PROVE  /\ StatusInvariant /\ LoanInvariant
           /\ policy.status = row.status /\ policy.version = row.version
           /\ policy.status \in StartStatus
           /\ flcTimer = (policy.status = "FREE_LOOK_ACTIVE")
<1>1. PICK status \in StartStatus :
        /\ policy = [status |-> status, previous |-> PreviousOf(status),
                     beforeSuspension |-> NoStatus,
                     version |-> VersionOf(status),
                     hasLoan |-> FALSE, amlHold |-> FALSE]
        /\ row = [status |-> status, version |-> VersionOf(status),
                  hasLoan |-> FALSE]
        /\ flcTimer = (status = "FREE_LOOK_ACTIVE")
  BY DEF Init
<1>2. status \in Status /\ (PreviousOf(status) = NoStatus => status = "FREE_LOOK_ACTIVE")
  BY StartAssumption DEF PreviousOf, NoStatus
<1>3. /\ policy.status = status /\ row.status = status
      /\ policy.version = row.version /\ policy.hasLoan = row.hasLoan
      /\ policy.previous = PreviousOf(status)
  BY <1>1
<1>4. busy = NoRequest /\ read = {} /\ phase = "running"
  BY DEF Init
<1> QED
  BY <1>1, <1>2, <1>3, <1>4
     DEF StatusInvariant, LoanInvariant, HandlerIdle, CoolingTerminal

\* The two invariants hold in every reachable state.
LEMMA PolicyInvariantHolds == Spec => [](StatusInvariant /\ LoanInvariant)
<1>1. Init => StatusInvariant /\ LoanInvariant
  BY InitialStatus
<1>2. /\ TypeOK /\ TypeOK' /\ StatusInvariant /\ LoanInvariant /\ [Next]_vars
      => (StatusInvariant /\ LoanInvariant)'
  <2> SUFFICES ASSUME TypeOK, TypeOK', StatusInvariant, LoanInvariant, [Next]_vars
               PROVE  StatusInvariant' /\ LoanInvariant'
    OBVIOUS
  <2>1. PolicyStep
    BY RequestPolicyStep, SystemPolicyStep, LoopPolicyStep DEF Next
  <2> QED
    BY <2>1, PolicyStepKeeps
<1> QED
  BY <1>1, <1>2, TypeCorrect, PTL DEF Spec

\* No revert (rejection, withdrawal, reversal, reopening) finds the previous
\* status unset: a policy has a status in every reachable state.
THEOREM StatusAlwaysKnown == Spec => []StatusKnown
<1>1. StatusInvariant => StatusKnown
  BY StatusMembers DEF StatusInvariant, StatusKnown
<1> QED
  BY <1>1, PolicyInvariantHolds, PTL

\* Whatever was signalled or reopened, a policy that cools down is terminal.
THEOREM OnlyTerminalCools == Spec => []CoolingTerminal
<1>1. StatusInvariant => CoolingTerminal
  BY DEF StatusInvariant
<1> QED
  BY <1>1, PolicyInvariantHolds, PTL

\* As long as no activity fails for good, workflow and row agree on the loan.
THEOREM RowMirrorsLoan == Spec => []LoanMirrored
<1>1. LoanInvariant => LoanMirrored
  BY DEF LoanInvariant, LoanMirrored
<1> QED
  BY <1>1, PolicyInvariantHolds, PTL

-----------------------------------------------------------------------------
(* Without another writer of the row, memory and row agree.                *)

Agree == policy.status = row.status /\ policy.version = row.version

\* No guarded update was missed, and nothing that writes the row is under way.
SoleState ==
    /\ Agree
    /\ read \subseteq {row}
    /\ scan = <<>> /\ syncs = <<>> /\ flcTimer = FALSE /\ faults = 0

\* A sole writer loses no write.
LEMMA NothingLost ==
    ASSUME TypeOK, SoleWriter, NEW writes, NEW lost \in Lost(writes), Charge(lost)
    PROVE  lost = "none" /\ faults' = faults
BY DEF SoleWriter, Lost, Charge, TypeOK

\* A transition of a state with the version of the row is written to it.
LEMMA AgreedTransition ==
    ASSUME TypeOK, NEW p \in PolicyState, p.version = row.version, NEW from,
           NEW to \in Status, TransitionOf(p, from, to, "none")
    PROVE  Agree'
BY MovedFields, RecordedFields, StatusMembers DEF TransitionOf, Agree, TypeOK

\* A system signal that writes no metadata leaves memory and row in agreement.
LEMMA AgreedEffect ==
    ASSUME TypeOK, SoleWriter, Agree, NEW to \in Status \cup {NoStatus},
           SystemEffect(to, FALSE)
    PROVE  Agree' /\ faults' = faults
<1>1. PICK lost \in Lost({"transition"} \cup {}) :
        /\ policy' = IF to = NoStatus THEN policy
                     ELSE Moved(policy, policy.status, to)
        /\ row' = IF to = NoStatus \/ lost = "transition" THEN row
                  ELSE Recorded(row, policy, to)
        /\ Charge(lost)
  BY DEF SystemEffect
<1>2. lost = "none" /\ faults' = faults
  BY <1>1, NothingLost
<1> QED
  BY <1>1, <1>2, MovedFields, RecordedFields DEF Agree, TypeOK

\* A step that leaves memory and the row alone, or ends with both agreeing.
LEMMA KeptSole ==
    ASSUME SoleState, UNCHANGED <<policy, row, scan, syncs, faults>>,
           flcTimer' \in {flcTimer, FALSE}, read' \subseteq read \cup {row}
    PROVE  SoleState'
BY DEF SoleState, Agree

\* A step that ends in agreement, with no request handler under way.
LEMMA AgreedSole ==
    ASSUME SoleState, Agree', UNCHANGED <<scan, syncs, flcTimer, faults>>, read' = {}
    PROVE  SoleState'
BY DEF SoleState

\* With a sole writer, every step that concerns a request keeps the agreement.
LEMMA SoleRequestStep ==
    ASSUME TypeOK, StatusInvariant, SoleWriter, SoleState, NEW r \in Request,
           RequestStep(r)
    PROVE  SoleState'
<1> USE DEF loop, environment
<1>0. /\ Agree /\ read \subseteq {row} /\ HandlerIdle
      /\ policy \in PolicyState /\ policy.status \in Status
      /\ TypeOf[r] \notin {"LOAN", "LOAN_REPAYMENT", "ASSIGNMENT"}
  BY DEF SoleState, StatusInvariant, TypeOK, SoleWriter
<1>1. CASE Submit(r) \/ MarkRouted(r) \/ WithdrawRequest(r)
  BY <1>1, KeptSole DEF Submit, MarkRouted, WithdrawRequest
<1>2. CASE ChildApprovesRevival(r) \/ ChildStops(r)
            \/ \E outcome \in Outcome : ChildCompletes(r, outcome)
  BY <1>2, KeptSole DEF ChildApprovesRevival, ChildStops, ChildCompletes, ChildReports
<1>3. CASE DropDuplicateRequest(r) \/ IgnoreCompletion(r)
            \/ \E kind \in {"revival-approved", "withdrawal"} :
                    DropDuplicate(Signal(kind, r))
  BY <1>3, KeptSole DEF DropDuplicateRequest, IgnoreCompletion, DropDuplicate
<1>4. CASE ReceiveRequest(r)
  <2>1. PICK lost \in Lost({"refresh", "lock", "cancel"}) :
            Charge(lost) /\ read' = IF lost = "refresh" THEN {} ELSE {row}
    BY <1>4 DEF ReceiveRequest
  <2>2. faults' = faults /\ read' \subseteq {row}
    BY <2>1, NothingLost
  <2> QED
    BY <1>4, <2>2, KeptSole DEF ReceiveRequest
<1>5. Refreshed.status = policy.status /\ Refreshed.version = policy.version
  BY <1>0, RefreshedFields DEF Agree
<1>6. CASE RejectSuspended(r)
  BY <1>0, <1>5, <1>6, AgreedSole DEF RejectSuspended, HandlerDone, Agree
<1>7. CASE RejectRequest(r)
  <2>1. faults' = faults
    BY <1>7, NothingLost DEF RejectRequest
  <2> QED
    BY <1>0, <1>5, <1>7, <2>1, AgreedSole DEF RejectRequest, HandlerDone, Agree
<1>8. CASE RouteRequest(r)
  <2>1. PICK lost \in Lost({"transition", "lock", "service_request"}) :
        /\ IF PreRouteStatus(TypeOf[r]) # NoStatus
           THEN TransitionOf(Refreshed, Refreshed.status,
                             PreRouteStatus(TypeOf[r]), lost)
           ELSE policy' = Refreshed /\ UNCHANGED row
        /\ Charge(lost)
    BY <1>8 DEF RouteRequest
  <2>2. lost = "none" /\ faults' = faults
    BY <2>1, NothingLost
  <2>3. Agree'
    <3>1. Refreshed \in PolicyState /\ Refreshed.version = row.version
      BY <1>0, <1>5, RefreshedType DEF Agree
    <3>2. CASE PreRouteStatus(TypeOf[r]) # NoStatus
      BY <2>1, <2>2, <3>1, <3>2, AgreedTransition, PreRouteType
    <3>3. CASE PreRouteStatus(TypeOf[r]) = NoStatus
      BY <1>0, <1>5, <2>1, <3>3 DEF Agree
    <3> QED
      BY <3>2, <3>3
  <2> QED
    BY <1>8, <2>2, <2>3, AgreedSole DEF RouteRequest, HandlerDone
<1>9. CASE CompleteOperation(r)
  <2>1. PICK lost \in Lost({"transition", "lock", "service_request", "metadata",
                            "snapshot"}),
             reducedPaidUp \in {FALSE} \cup {TypeOf[r] = "FORCED_SURRENDER"} :
          LET new == CompletionStatus(TypeOf[r], child[r], reducedPaidUp,
                                      policy.previous)
              moves == new \notin {NoStatus, policy.status}
              loan == LoanAfter(TypeOf[r], child[r])
          IN  /\ policy' = EncumberedPolicy(
                      IF moves THEN Moved(policy, policy.status, new)
                               ELSE policy, loan)
              /\ row' = EncumberedRow(
                      IF moves /\ lost # "transition"
                      THEN Recorded(row, policy, new) ELSE row, loan, lost)
              /\ Charge(lost)
    BY <1>9 DEF CompleteOperation
  <2> DEFINE new == CompletionStatus(TypeOf[r], child[r], reducedPaidUp, policy.previous)
             moves == new \notin {NoStatus, policy.status}
  <2>2. lost = "none" /\ faults' = faults
    BY <2>1, NothingLost
  <2>3. LoanAfter(TypeOf[r], child[r]) = {}
    BY <1>0 DEF LoanAfter
  <2>4. /\ policy' = IF moves THEN Moved(policy, policy.status, new) ELSE policy
        /\ row' = IF moves THEN Recorded(row, policy, new) ELSE row
    BY <2>1, <2>2, <2>3 DEF EncumberedPolicy, EncumberedRow
  <2> HIDE DEF new
  <2>5. Agree'
    BY <1>0, <2>4, MovedFields, RecordedFields DEF Agree, TypeOK
  <2>6. read = {} /\ UNCHANGED <<read, flcTimer, scan, syncs>>
    BY <1>0, <1>9 DEF CompleteOperation, Handles, Idle, SameLoop, HandlerIdle
  <2> QED
    BY <2>2, <2>5, <2>6, AgreedSole
<1>10. CASE CompleteNFR(r)
  <2>1. PICK lost \in Lost({"service_request", "metadata"}) :
        /\ row' = IF /\ child[r] = "APPROVED"
                     /\ TypeOf[MatchedAfterCompaction(r)] = "ASSIGNMENT"
                  THEN Touched(row, lost) ELSE row
        /\ Charge(lost)
    BY <1>10 DEF CompleteNFR
  <2>2. MatchedAfterCompaction(r) \in Request
    <3>1. Position(r) \in 1 .. Len(pending)
      BY <1>10 DEF CompleteNFR, PendingRequests, ToSet, Position, TypeOK
    <3> QED
      BY <3>1 DEF MatchedAfterCompaction, TypeOK
  <2>3. row' = row /\ faults' = faults
    BY <2>1, <2>2, NothingLost DEF SoleWriter
  <2> QED
    BY <1>10, <2>3, KeptSole DEF CompleteNFR, Handles, SameLoop
<1>11. CASE RevivalApproved(r)
  <2>1. PICK lost \in Lost({"transition", "lock"}) :
        /\ IF policy.status # "ACTIVE"
           THEN Transition(policy.status, "ACTIVE", lost) ELSE NoTransition
        /\ Charge(lost)
    BY <1>11 DEF RevivalApproved
  <2>2. lost = "none" /\ faults' = faults
    BY <2>1, NothingLost
  <2>3. Agree'
    BY <1>0, <2>1, <2>2, AgreedTransition, StatusMembers
       DEF Transition, NoTransition, Agree
  <2>4. read = {} /\ UNCHANGED <<read, flcTimer, scan, syncs>>
    BY <1>0, <1>11 DEF RevivalApproved, Handles, Idle, SameLoop, HandlerIdle
  <2> QED
    BY <2>2, <2>3, <2>4, AgreedSole
<1>12. CASE HandleWithdrawal(r)
  <2>1. read = {} /\ UNCHANGED <<read, flcTimer, scan, syncs>>
    BY <1>0, <1>12 DEF HandleWithdrawal, Handles, Idle, SameLoop, HandlerIdle
  <2>2. CASE r \in PendingRequests
    <3>1. PICK lost \in Lost({"transition", "lock", "cancel"}) :
            /\ IF policy.status = PreRouteStatus(TypeOf[r]) /\ policy.status # NoStatus
               THEN Transition(policy.status, policy.previous, lost)
               ELSE NoTransition
            /\ Charge(lost)
      BY <1>12, <2>2 DEF HandleWithdrawal
    <3>2. lost = "none" /\ faults' = faults
      BY <3>1, NothingLost
    <3>3. policy.status = PreRouteStatus(TypeOf[r]) => policy.previous \in Status
      BY DEF PreRouteStatus, NoStatus, StatusInvariant, TypeOK, PolicyState
    <3>4. Agree'
      BY <1>0, <3>1, <3>2, <3>3, AgreedTransition DEF Transition, NoTransition, Agree
    <3> QED
      BY <2>1, <3>2, <3>4, AgreedSole
  <2>3. CASE r \notin PendingRequests
    BY <1>12, <2>1, <2>3, KeptSole DEF HandleWithdrawal
  <2> QED
    BY <2>2, <2>3
<1> QED
  BY <1>1, <1>2, <1>3, <1>4, <1>6, <1>7, <1>8, <1>9, <1>10, <1>11, <1>12
     DEF RequestStep

\* So does every step that handles a system signal.
LEMMA SoleSystemStep ==
    ASSUME TypeOK, StatusInvariant, SoleWriter, SoleState, NEW s \in SystemSignal,
           SystemStep(s)
    PROVE  SoleState'
<1> USE DEF loop, environment
<1>0. /\ Agree /\ HandlerIdle /\ policy \in PolicyState
      /\ policy.status \in Status /\ policy.version = row.version
      /\ policy.previous \in Status \cup {NoStatus}
      /\ policy.beforeSuspension \in Status \cup {NoStatus}
      /\ KindOf[s] \notin {"policy-created", "premium-paid", "payment-dishonored",
                           "loan-balance-updated", "customer-id-merge",
                           "reopen-request"}
  BY DEF SoleState, Agree, StatusInvariant, SoleWriter, TypeOK, PolicyState
<1>1. ASSUME NEW kind, HandlesSystem(s, kind), NEW to \in Status \cup {NoStatus},
             SystemEffect(to, FALSE)
      PROVE  SoleState'
  <2>1. read' = {} /\ UNCHANGED <<scan, syncs, flcTimer>>
    BY <1>1, SystemLoop DEF HandlesSystem, Handles, SameLoop
  <2> QED
    BY <1>0, <1>1, <2>1, AgreedEffect, AgreedSole
<1>2. ASSUME NEW kind, HandlesSystem(s, kind), NEW p \in PolicyState,
             p.version = row.version, NEW from, NEW to \in Status,
             NEW lost \in Lost({"transition", "lock", "cancel", "snapshot"}),
             TransitionOf(p, from, to, lost), Charge(lost)
      PROVE  SoleState'
  <2>1. read' = {} /\ UNCHANGED <<scan, syncs, flcTimer>>
    BY <1>2, SystemLoop DEF HandlesSystem, Handles, SameLoop
  <2>2. lost = "none" /\ faults' = faults
    BY <1>2, NothingLost
  <2> QED
    BY <1>2, <2>1, <2>2, AgreedTransition, AgreedSole
<1>3. Lost({"transition"}) \subseteq Lost({"transition", "lock", "cancel", "snapshot"})
  BY DEF Lost
<1>4. CASE DropDuplicateSystem(s)
  BY <1>4, KeptSole DEF DropDuplicateSystem
<1>5. CASE AMLFlagRaised(s)
  <2> DEFINE flagged == [policy EXCEPT !.beforeSuspension = policy.status,
                                       !.amlHold = TRUE]
  <2>1. flagged \in PolicyState /\ flagged.version = row.version
    BY <1>0 DEF PolicyState
  <2>2. PICK lost \in Lost({"transition"}) :
            TransitionOf(flagged, policy.status, "SUSPENDED", lost) /\ Charge(lost)
    BY <1>5 DEF AMLFlagRaised
  <2> HIDE DEF flagged
  <2> QED
    BY <1>2, <1>3, <1>5, <2>1, <2>2, StatusMembers DEF AMLFlagRaised
<1>6. CASE AMLFlagCleared(s)
  <2> DEFINE cleared == [policy EXCEPT !.beforeSuspension = NoStatus,
                                       !.amlHold = FALSE]
  <2>1. cleared \in PolicyState /\ cleared.version = row.version
    BY <1>0 DEF PolicyState
  <2>2. PICK lost \in Lost({"transition"}) :
            TransitionOf(cleared, "SUSPENDED", Restored, lost) /\ Charge(lost)
    BY <1>6 DEF AMLFlagCleared
  <2>3. Restored \in Status
    BY <1>0, StatusMembers DEF Restored
  <2> HIDE DEF cleared
  <2> QED
    BY <1>2, <1>3, <1>6, <2>1, <2>2, <2>3 DEF AMLFlagCleared
<1>7. CASE InvestigationStarted(s)
  <2>1. PICK to \in {NoStatus, "DEATH_UNDER_INVESTIGATION"} : SystemEffect(to, FALSE)
    BY <1>7 DEF InvestigationStarted
  <2> QED
    BY <1>1, <1>7, <2>1, StatusMembers DEF InvestigationStarted
<1>8. ASSUME NEW confirmed \in BOOLEAN, InvestigationConcluded(s, confirmed)
      PROVE  SoleState'
  <2>1. PICK to \in {NoStatus, "DEATH_CLAIM_SETTLED", "DEATH_CLAIM_INTIMATED"} :
            SystemEffect(to, FALSE)
    BY <1>8 DEF InvestigationConcluded
  <2> QED
    BY <1>1, <1>8, <2>1, StatusMembers DEF InvestigationConcluded
<1>9. CASE ConversionReversed(s)
  <2>1. PICK to \in {NoStatus, policy.previous} : SystemEffect(to, FALSE)
    BY <1>9 DEF ConversionReversed
  <2> QED
    BY <1>0, <1>1, <1>9, <2>1 DEF ConversionReversed
<1>10. CASE Dispute(s)
  BY <1>10, SystemLoop, KeptSole DEF Dispute, HandlesSystem, Handles, SameLoop
<1>11. CASE AdminVoid(s)
  <2>1. PICK lost \in Lost({"transition", "lock", "cancel", "snapshot"}) :
            Transition(policy.status, "VOID", lost) /\ Charge(lost)
    BY <1>11 DEF AdminVoid
  <2> QED
    BY <1>0, <1>2, <1>11, <2>1, StatusMembers DEF AdminVoid, Transition
<1>12. ASSUME NEW sufficient \in BOOLEAN, VoluntaryPaidUp(s, sufficient)
       PROVE  SoleState'
  <2>1. PICK to \in {NoStatus, "PAID_UP", "VOID"} : SystemEffect(to, FALSE)
    BY <1>12 DEF VoluntaryPaidUp
  <2> QED
    BY <1>1, <1>12, <2>1, StatusMembers DEF VoluntaryPaidUp
<1>13. ~ PolicyCreatedAgain(s)
  BY <1>0 DEF PolicyCreatedAgain
<1>14. \A b \in BOOLEAN : ~ PremiumPaid(s, b)
  BY <1>0 DEF PremiumPaid, HandlesSystem
<1>15. \A lapse : ~ PaymentDishonored(s, lapse)
  BY <1>0 DEF PaymentDishonored, HandlesSystem
<1>16. ~ MetadataUpdated(s)
  BY <1>0 DEF MetadataUpdated, HandlesSystem
<1>17. \A expired \in BOOLEAN : /\ ~ CoolingPremium(s, expired)
                                /\ ~ CoolingLoanBalance(s, expired)
                                /\ ~ CoolingReopen(s, expired)
  BY <1>0 DEF CoolingPremium, CoolingLoanBalance, CoolingReopen, HandlesCooling
<1> QED
  BY <1>4, <1>5, <1>6, <1>7, <1>8, <1>9, <1>10, <1>11, <1>12, <1>13, <1>14, <1>15,
     <1>16, <1>17 DEF SystemStep

\* So does what else the loop does; scans and the free-look timer do not happen.
LEMMA SoleLoopStep ==
    ASSUME TypeOK, StatusInvariant, SoleWriter, SoleState, LoopStep \/ UNCHANGED vars
    PROVE  SoleState'
<1> USE DEF loop, environment
<1>1. \A move \in ScanMove : ~ BatchSelect(move)
  BY DEF BatchSelect, SoleWriter, TypeOK
<1>2. ~ BatchApply /\ ~ BatchSync /\ ~ FLCExpires
  BY DEF BatchApply, BatchSync, FLCExpires, SoleState
<1>3. CASE ContinueAsNew
  <2>1. PICK n \in 0 .. Len(syncs) : syncs' = SubSeq(syncs, n + 1, Len(syncs))
    BY <1>3 DEF ContinueAsNew, LosesBuffered
  <2>2. syncs = <<>> /\ Len(syncs) = 0
    BY DEF SoleState
  <2>3. syncs' = <<>>
    BY <2>1, <2>2, SubSeqProperties DEF TypeOK
  <2> QED
    BY <1>3, <2>2, <2>3, KeptSole DEF ContinueAsNew, LosesBuffered
<1>4. CASE CoolingExpires
  <2>1. faults' = faults
    BY <1>4, NothingLost DEF CoolingExpires
  <2> QED
    BY <1>4, <2>1, KeptSole DEF CoolingExpires
<1>5. CASE UNCHANGED vars
  BY <1>5, KeptSole DEF vars
<1> QED
  BY <1>1, <1>2, <1>3, <1>4, <1>5 DEF LoopStep

\* With a sole writer, memory and row agree in every reachable state.
LEMMA SoleStateHolds == Spec => [](SoleWriter => SoleState)
<1>1. Init => (SoleWriter => SoleState)
  BY InitialStatus DEF Init, SoleWriter, SoleState, Agree
<1>2. /\ TypeOK /\ StatusInvariant /\ LoanInvariant /\ [Next]_vars
      /\ (SoleWriter => SoleState)
      => (SoleWriter => SoleState)'
  BY SoleRequestStep, SoleSystemStep, SoleLoopStep DEF Next, SoleWriter
<1> QED
  BY <1>1, <1>2, TypeCorrect, PolicyInvariantHolds, PTL DEF Spec

\* Without another writer of the row no guarded update misses: status and
\* version in memory are those of the row, and nothing stale was read of it.
THEOREM RowIsWrittenThrough == Spec => []WriteThrough
<1>1. (SoleWriter => SoleState) => WriteThrough
  BY DEF SoleState, Agree, WriteThrough
<1> QED
  BY <1>1, SoleStateHolds, PTL

\* The three tables of which statuses let a request type through, that of the
\* HTTP handlers, that of the workflow and that of the state gate endpoint.
LEMMA GateTables ==
    ASSUME NEW type \in GatedType, NEW status \in Status, NEW hasLoan
    PROVE  /\ IsStateEligible(type, status, hasLoan)
                => CheckStateGate(type, status, hasLoan)
           /\ ~ (status = "SUSPENDED" /\ type \in NFRType) =>
                /\ CheckStateGate(type, status, hasLoan)
                        => IsStateEligible(type, status, hasLoan)
                /\ CheckStateGate(type, status, hasLoan)
                        <=> LoanAllows(type, hasLoan) /\ status \in AllowedStatuses(type)
<1>1. status \in GateStatus(type) => status \notin Terminal
  BY DEF GateStatus, Terminal
<1>2. status = "SUSPENDED" /\ status \in GateStatus(type)
        => type = "DEATH_CLAIM" \/ type \in NFRType
  BY DEF GateStatus, GatedType, RequestType, LockedType, UnlockedType
<1>3. ~ (status = "SUSPENDED" /\ type \in NFRType)
        => (status \in AllowedStatuses(type) <=> status \in GateStatus(type))
  BY DEF GateStatus, AllowedStatuses, GatedType, RequestType, LockedType,
         UnlockedType, NFRType, Terminal
<1> QED
  BY <1>1, <1>2, <1>3 DEF CheckStateGate, IsStateEligible

\* With no other writer, a customer who asks the gate endpoint is told what the
\* workflow will decide, for every type the endpoint takes.
THEOREM GateIsForetold == Spec => []GateForetells
<1>1. /\ TypeOK /\ StatusInvariant /\ LoanInvariant /\ (SoleWriter => SoleState)
      => GateForetells
  <2> SUFFICES ASSUME TypeOK, StatusInvariant, LoanInvariant, SoleWriter, SoleState,
                      NEW type \in GatedType
               PROVE  LET gate == GetStateGate(type)
                          loanAllows == LoanAllows(type, policy.hasLoan)
                          frozen == policy.status = "SUSPENDED" /\ type \in NFRType
                      IN  /\ ~frozen =>
                               (gate.passed <=> IsStateEligible(type, policy.status, policy.hasLoan))
                          /\ ~frozen =>
                               (gate.passed <=> loanAllows /\ policy.status \in gate.allowed)
                          /\ IsRequestEligible(type) => gate.passed
    BY DEF GateForetells
  <2>1. queryGetStateGate \notin QueryHandlers
    BY DEF queryGetStateGate, QueryHandlers
  <2>2. /\ GetStateGate(type).passed = CheckStateGate(type, row.status, row.hasLoan)
        /\ GetStateGate(type).allowed = AllowedStatuses(type)
    BY <2>1 DEF GetStateGate
  <2>3. row.status = policy.status /\ row.hasLoan = policy.hasLoan
    BY DEF SoleState, Agree, LoanInvariant
  <2>4. policy.status \in Status
    BY DEF StatusInvariant
  <2> QED
    BY <2>2, <2>3, <2>4, GateTables DEF IsRequestEligible
<1> QED
  BY <1>1, TypeCorrect, PolicyInvariantHolds, SoleStateHolds, PTL

-----------------------------------------------------------------------------
(* A signal handled before.                                                *)

\* Completions are never marked processed: their own test is the pending list.
ProcessedKinds == \A sig \in processed : sig.kind # "completed"

\* A handler that tests for duplicates does not take a signal handled before.
LEMMA FreshTaken ==
    ASSUME NEW sig \in inbox, sig \in processed \/ Unmatched(sig),
           NEW other, Fresh(other), ~Unmatched(other), inbox' = Taken(other)
    PROVE  inbox' # inbox \ {sig}
BY DEF Fresh, Taken

\* What DuplicateChangesNothing says of one signal and one step.
Repeated(sig) ==
    (sig \in processed \/ Unmatched(sig)) /\ inbox' = inbox \ {sig} =>
        /\ UNCHANGED <<activeLock, pending, lockRow, sr, child>>
        /\ \/ policy' = policy
           \/ sig.kind = "system" /\ KindOf[sig.id] = "policy-created"
        /\ \/ row' = row
           \/ /\ phase = "cooling"
              /\ sig.kind = "system"
              /\ KindOf[sig.id] = "loan-balance-updated"
        /\ \/ refunds' = refunds
           \/ /\ phase = "cooling"
              /\ sig.kind = "system"
              /\ KindOf[sig.id] = "premium-paid"

\* No step marks a completion processed.
LEMMA KindsStep ==
    ASSUME TypeOK, ProcessedKinds, [Next]_vars
    PROVE  ProcessedKinds'
<1> USE DEF loop, environment, ProcessedKinds
<1>1. ASSUME NEW sig, Processed(sig), sig.kind # "completed" PROVE ProcessedKinds'
  BY <1>1 DEF Processed
<1>2. \A kind, id : Signal(kind, id).kind = kind /\ Signal(kind, id).id = id
  BY DEF Signal
<1>3. ASSUME NEW r \in Request, RequestStep(r) PROVE ProcessedKinds'
  <2>1. \/ UNCHANGED processed
        \/ \E kind \in {"request", "revival-approved", "withdrawal"} :
                Processed(Signal(kind, r))
    BY <1>3 DEF RequestStep, Submit, MarkRouted, WithdrawRequest, ChildApprovesRevival,
        ChildCompletes, ChildReports, ChildStops, DropDuplicateRequest,
        ReceiveRequest,
        RejectSuspended, RejectRequest, RouteRequest, IgnoreCompletion,
        CompleteOperation, CompleteNFR, RevivalApproved, HandleWithdrawal,
        DropDuplicate
  <2> QED
    BY <1>1, <1>2, <2>1
<1>4. ASSUME NEW s \in SystemSignal, SystemStep(s) PROVE ProcessedKinds'
  <2>1. UNCHANGED processed \/ Processed(Signal("system", s))
    BY <1>4 DEF SystemStep, DropDuplicateSystem, PolicyCreatedAgain, PremiumPaid,
        PaymentDishonored, AMLFlagRaised, AMLFlagCleared, InvestigationStarted,
        InvestigationConcluded, ConversionReversed, MetadataUpdated, Dispute,
        AdminVoid, VoluntaryPaidUp, HandlesSystem, CoolingPremium,
        CoolingLoanBalance, CoolingReopen
  <2> QED
    BY <1>1, <1>2, <2>1
<1>5. CASE LoopStep \/ UNCHANGED vars
  BY <1>5 DEF LoopStep, BatchSelect, BatchApply, BatchSync, FLCExpires, ContinueAsNew,
      CoolingExpires, vars
<1> QED
  BY <1>3, <1>4, <1>5 DEF Next

\* A step that concerns a request treats a repeated signal as it should.
LEMMA RepeatedRequestStep ==
    ASSUME TypeOK, ProcessedKinds, NEW sig \in inbox,
           NEW r \in Request, RequestStep(r)
    PROVE  Repeated(sig)
<1> SUFFICES ASSUME sig \in processed \/ Unmatched(sig), inbox' = inbox \ {sig}
             PROVE  Repeated(sig)
  BY DEF Repeated
<1> USE DEF loop, environment, Repeated
<1>1. \A kind, id : Signal(kind, id).kind = kind /\ Signal(kind, id).id = id
  BY DEF Signal
<1>2. CASE Submit(r) \/ WithdrawRequest(r) \/ ChildApprovesRevival(r)
            \/ \E outcome \in Outcome : ChildCompletes(r, outcome)
  <2>1. inbox \subseteq inbox'
    BY <1>2 DEF Submit, WithdrawRequest, ChildApprovesRevival, ChildCompletes,
        ChildReports
  <2> QED
    BY <2>1
<1>3. CASE MarkRouted(r) \/ ChildStops(r) \/ RejectSuspended(r)
            \/ RejectRequest(r) \/ RouteRequest(r)
  BY <1>3 DEF MarkRouted, ChildStops, RejectSuspended, RejectRequest, RouteRequest
<1>4. CASE DropDuplicateRequest(r) \/ IgnoreCompletion(r)
            \/ \E kind \in {"revival-approved", "withdrawal"} :
                    DropDuplicate(Signal(kind, r))
  BY <1>4 DEF DropDuplicateRequest, IgnoreCompletion, DropDuplicate
<1>5. CASE ReceiveRequest(r)
  <2>1. ~Unmatched(Signal("request", r))
    BY <1>1 DEF Unmatched
  <2>2. Fresh(Signal("request", r)) /\ inbox' = Taken(Signal("request", r))
    BY <1>5 DEF ReceiveRequest
  <2> QED
    BY <2>1, <2>2, FreshTaken
<1>6. CASE CompleteOperation(r) \/ CompleteNFR(r)
  <2>1. /\ Signal("completed", r) \in inbox /\ Signal("completed", r) \notin processed
        /\ r \in PendingRequests /\ inbox' = Taken(Signal("completed", r))
    BY <1>1, <1>6 DEF CompleteOperation, CompleteNFR, Handles, ProcessedKinds
  <2>2. Fresh(Signal("completed", r)) /\ ~Unmatched(Signal("completed", r))
    BY <1>1, <2>1 DEF Fresh, Unmatched
  <2> QED
    BY <2>1, <2>2, FreshTaken
<1>7. CASE RevivalApproved(r) \/ HandleWithdrawal(r)
  <2>1. PICK kind \in {"revival-approved", "withdrawal"} :
            Fresh(Signal(kind, r)) /\ inbox' = Taken(Signal(kind, r))
    BY <1>7 DEF RevivalApproved, HandleWithdrawal, Handles
  <2>2. ~Unmatched(Signal(kind, r))
    BY <1>1 DEF Unmatched
  <2> QED
    BY <2>1, <2>2, FreshTaken
<1> QED
  BY <1>2, <1>3, <1>4, <1>5, <1>6, <1>7 DEF RequestStep

\* So does a step that handles a system signal.
LEMMA RepeatedSystemStep ==
    ASSUME TypeOK, NEW sig \in inbox, NEW s \in SystemSignal, SystemStep(s)
    PROVE  Repeated(sig)
<1> SUFFICES ASSUME sig \in processed \/ Unmatched(sig), inbox' = inbox \ {sig}
             PROVE  Repeated(sig)
  BY DEF Repeated
<1> USE DEF loop, environment, Repeated
<1>1. /\ Signal("system", s).kind = "system" /\ Signal("system", s).id = s
      /\ ~Unmatched(Signal("system", s))
  BY DEF Signal, Unmatched
<1>2. ASSUME NEW kind, HandlesSystem(s, kind) PROVE Repeated(sig)
  <2>1. Fresh(Signal("system", s)) /\ inbox' = Taken(Signal("system", s))
    BY <1>2 DEF HandlesSystem, Handles
  <2> QED
    BY <1>1, <2>1, FreshTaken
<1>3. CASE DropDuplicateSystem(s)
  BY <1>3 DEF DropDuplicateSystem
<1>4. CASE PolicyCreatedAgain(s)
  <2>1. sig = Signal("system", s)
    BY <1>4 DEF PolicyCreatedAgain
  <2> QED
    BY <1>1, <1>4, <2>1 DEF PolicyCreatedAgain
<1>5. ASSUME NEW expired \in BOOLEAN, CoolingPremium(s, expired) PROVE Repeated(sig)
  <2>1. inbox' = inbox \/ inbox' = inbox \ {Signal("system", s)}
    BY <1>5 DEF CoolingPremium, Taken
  <2>2. sig = Signal("system", s)
    BY <2>1
  <2>3. UNCHANGED <<activeLock, pending, lockRow, sr, child, policy, row>>
    BY <1>5 DEF CoolingPremium, HandlesCooling
  <2>4. phase = "cooling" /\ KindOf[s] = "premium-paid"
    BY <1>5 DEF CoolingPremium, HandlesCooling
  <2> QED
    BY <1>1, <2>2, <2>3, <2>4
<1>6. ASSUME NEW expired \in BOOLEAN, CoolingLoanBalance(s, expired)
      PROVE  Repeated(sig)
  <2>1. sig = Signal("system", s)
    BY <1>6 DEF CoolingLoanBalance
  <2>2. policy' = policy
    BY <1>6 DEF CoolingLoanBalance, SystemEffect
  <2> QED
    BY <1>1, <1>6, <2>1, <2>2 DEF CoolingLoanBalance, HandlesCooling
<1>7. ASSUME NEW expired \in BOOLEAN, CoolingReopen(s, expired) PROVE Repeated(sig)
  <2>1. /\ UNCHANGED <<activeLock, pending, lockRow, sr, child, refunds>>
        /\ Signal("system", s) \notin inbox'
    BY <1>7 DEF CoolingReopen
  <2>2. sig = Signal("system", s)
    BY <1>7, <2>1 DEF CoolingReopen
  <2>3. Signal("system", s) \in processed => UNCHANGED <<policy, row>>
    BY <1>7 DEF CoolingReopen
  <2> QED
    BY <1>1, <2>1, <2>2, <2>3
<1> QED
  BY <1>2, <1>3, <1>4, <1>5, <1>6, <1>7
     DEF SystemStep, PremiumPaid, PaymentDishonored, AMLFlagRaised, AMLFlagCleared,
         InvestigationStarted, InvestigationConcluded, ConversionReversed,
         MetadataUpdated, Dispute, AdminVoid, VoluntaryPaidUp

\* The other steps of the loop lose a signal at most, and do nothing with it.
LEMMA RepeatedLoopStep ==
    ASSUME NEW sig \in inbox, LoopStep
    PROVE  Repeated(sig)
<1> SUFFICES ASSUME inbox' = inbox \ {sig} PROVE Repeated(sig)
  BY DEF Repeated
<1>1. ASSUME inbox' = inbox PROVE FALSE
  BY <1>1
<1>2. CASE ContinueAsNew
  BY <1>2 DEF ContinueAsNew, LosesBuffered, Repeated, environment, loop
<1> QED
  BY <1>1, <1>2 DEF loop, environment, Repeated, LoopStep, BatchSelect, BatchApply,
         BatchSync, FLCExpires, CoolingExpires

\* A signal handled before, or a completion that nothing pending waits for,
\* changes nothing when it comes, in whatever order, but for the three kinds
\* that are handled without looking.
THEOREM DuplicatesIgnored == Spec => DuplicateChangesNothing
<1>1. Init => ProcessedKinds
  BY DEF Init, ProcessedKinds, Signal
<1>2. TypeOK /\ ProcessedKinds /\ [Next]_vars => ProcessedKinds'
  BY KindsStep
<1>3. TypeOK /\ ProcessedKinds /\ [Next]_vars
        => [\A sig \in inbox : Repeated(sig)]_vars
  BY RepeatedRequestStep, RepeatedSystemStep, RepeatedLoopStep DEF Next
<1>4. Spec => [][\A sig \in inbox : Repeated(sig)]_vars
  BY <1>1, <1>2, <1>3, TypeCorrect, PTL DEF Spec
<1>5. [\A sig \in inbox : Repeated(sig)]_vars
      <=> [\A sig \in inbox :
            (sig \in processed \/ Unmatched(sig)) /\ inbox' = inbox \ {sig} =>
                /\ UNCHANGED <<activeLock, pending, lockRow, sr, child>>
                /\ \/ policy' = policy
                   \/ sig.kind = "system" /\ KindOf[sig.id] = "policy-created"
                /\ \/ row' = row
                   \/ /\ phase = "cooling"
                      /\ sig.kind = "system"
                      /\ KindOf[sig.id] = "loan-balance-updated"
                /\ \/ refunds' = refunds
                   \/ /\ phase = "cooling"
                      /\ sig.kind = "system"
                      /\ KindOf[sig.id] = "premium-paid"]_vars
  BY DEF Repeated
<1> QED
  BY <1>4, <1>5, PTL DEF DuplicateChangesNothing
=============================================================================
