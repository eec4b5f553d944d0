----------------------- MODULE PolicyLifecycle_proofs -----------------------
(***************************************************************************)
(* Theorems about PolicyLifecycle, for every set of requests and signals,  *)
(* every delivery pattern and every value of the bounds.                   *)
(***************************************************************************)
EXTENDS PolicyLifecycle, SequenceLemmas, TLAPS

-----------------------------------------------------------------------------
(* The operators the handlers are made of.                                 *)

\* The empty status is not a status, and the literals used below are.
LEMMA StatusMembers ==
    /\ NoStatus \notin Status
    /\ {"VOID", "SURRENDERED", "TERMINATED_SURRENDER", "MATURED",
        "DEATH_CLAIM_SETTLED", "FLC_CANCELLED", "CANCELLED_DEATH", "CONVERTED",
        "FREE_LOOK_ACTIVE", "ACTIVE", "VOID_LAPSE", "INACTIVE_LAPSE",
        "ACTIVE_LAPSE", "PAID_UP", "REDUCED_PAID_UP", "PENDING_AUTO_SURRENDER",
        "PENDING_SURRENDER", "REVIVAL_PENDING", "PENDING_MATURITY",
        "DEATH_CLAIM_INTIMATED", "DEATH_UNDER_INVESTIGATION", "SUSPENDED"}
            \subseteq Status
BY DEF NoStatus, Status, Terminal

\* A batch move leads from a status to a status.
LEMMA BatchTransitionType ==
    ASSUME NEW move \in BatchTransition
    PROVE  move[1] \in Status /\ move[2] \in Status
BY StatusMembers
   DEF BatchTransition, LapsationMove, RemissionMove, PaidUpMove, MaturityMove

\* The tables of PolicyRules answer with a status, or with none.
LEMMA PreRouteType ==
    ASSUME NEW type
    PROVE  PreRouteStatus(type) \in Status \cup {NoStatus}
BY StatusMembers DEF PreRouteStatus

\* A completion leads to a status, or to none.
LEMMA CompletionType ==
    ASSUME NEW type, NEW outcome, NEW reducedPaidUp \in BOOLEAN,
           NEW previous \in Status \cup {NoStatus}
    PROVE  CompletionStatus(type, outcome, reducedPaidUp, previous)
                \in Status \cup {NoStatus}
BY StatusMembers DEF CompletionStatus

\* A transition in memory yields a policy state.
LEMMA MovedType ==
    ASSUME NEW p \in PolicyState, NEW from \in Status \cup {NoStatus},
           NEW to \in Status \cup {NoStatus}
    PROVE  Moved(p, from, to) \in PolicyState
<1>1. [p EXCEPT !.previous = from] \in PolicyState
  BY DEF PolicyState
<1>2. \A q \in PolicyState : [q EXCEPT !.status = to] \in PolicyState
  BY DEF PolicyState
<1>3. \A q \in PolicyState : [q EXCEPT !.version = @ + 1] \in PolicyState
  BY DEF PolicyState
<1> QED
  BY <1>1, <1>2, <1>3 DEF Moved

\* An update of the status counts a version and yields a row.
LEMMA UpdatedType ==
    ASSUME NEW w \in PolicyRow, NEW to \in Status
    PROVE  [w EXCEPT !.status = to, !.version = @ + 1] \in PolicyRow
<1>1. [w EXCEPT !.status = to] \in PolicyRow
  BY DEF PolicyRow
<1>2. \A v \in PolicyRow : [v EXCEPT !.version = @ + 1] \in PolicyRow
  BY DEF PolicyRow
<1> QED
  BY <1>1, <1>2

\* A guarded update yields a row: the empty status is never written.
LEMMA RecordedType ==
    ASSUME NEW w \in PolicyRow, NEW p \in PolicyState,
           NEW to \in Status \cup {NoStatus}
    PROVE  Recorded(w, p, to) \in PolicyRow
BY UpdatedType DEF Recorded

\* A metadata update of the row keeps its type.
LEMMA TouchedType ==
    ASSUME NEW w \in PolicyRow, NEW lost
    PROVE  Touched(w, lost) \in PolicyRow
BY DEF Touched, PolicyRow

\* A transition of a policy state, written or lost.
LEMMA TransitionType ==
    ASSUME NEW p \in PolicyState, NEW from \in Status \cup {NoStatus},
           NEW to \in Status \cup {NoStatus}, NEW lost,
           row \in PolicyRow, TransitionOf(p, from, to, lost)
    PROVE  policy' \in PolicyState /\ row' \in PolicyRow
BY MovedType, RecordedType DEF TransitionOf

\* The effect of a system signal on the policy.
LEMMA SystemEffectType ==
    ASSUME TypeOK, NEW to \in Status \cup {NoStatus}, NEW touches \in BOOLEAN,
           SystemEffect(to, touches)
    PROVE  policy' \in PolicyState /\ row' \in PolicyRow /\ faults' \in Nat
<1>1. PICK lost \in Lost({"transition"} \cup IF touches THEN {"metadata"} ELSE {}) :
        /\ policy' = IF to = NoStatus THEN policy
                     ELSE Moved(policy, policy.status, to)
        /\ row' = LET w == IF to = NoStatus \/ lost = "transition" THEN row
                           ELSE Recorded(row, policy, to)
                  IN  IF touches THEN Touched(w, lost) ELSE w
        /\ Charge(lost)
  BY DEF SystemEffect
<1>2. policy.status \in Status \cup {NoStatus}
  BY DEF TypeOK, PolicyState
<1>3. policy' \in PolicyState
  BY <1>1, <1>2, MovedType DEF TypeOK
<1>4. row' \in PolicyRow
  <2>1. (IF to = NoStatus \/ lost = "transition" THEN row
         ELSE Recorded(row, policy, to)) \in PolicyRow
    BY RecordedType DEF TypeOK
  <2> QED
    BY <1>1, <2>1, TouchedType
<1>5. faults' \in Nat
  BY <1>1 DEF Charge, TypeOK
<1> QED
  BY <1>3, <1>4, <1>5

\* What a handler goes on with after RefreshStateFromDB is a policy state.
LEMMA RefreshedType ==
    ASSUME TypeOK
    PROVE  Refreshed \in PolicyState
<1>1. CASE read = {}
  BY <1>1 DEF Refreshed, TypeOK
<1>2. CASE read # {}
  <2> DEFINE found == CHOOSE w \in read : TRUE
  <2>1. found \in read
    BY <1>2
  <2>2. found \in PolicyRow
    BY <2>1 DEF TypeOK
  <2>3. Refreshed = [policy EXCEPT !.status = found.status,
                                   !.version = found.version,
                                   !.hasLoan = found.hasLoan, !.amlHold = FALSE]
    BY <1>2 DEF Refreshed
  <2> HIDE DEF found
  <2> QED
    BY <2>2, <2>3 DEF TypeOK, PolicyState, PolicyRow
<1> QED
  BY <1>1, <1>2
-----------------------------------------------------------------------------
(* The pending list.                                                       *)

\* No request is pending twice.
Distinct(s) == \A i, j \in 1 .. Len(s) : s[i] = s[j] => i = j

\* Taking a pending request off the list takes it, and nothing else, away.
LEMMA WithoutProperties ==
    ASSUME pending \in Seq(Request), NEW r \in PendingRequests
    PROVE  /\ Without(r) \in Seq(Request)
           /\ ToSet(Without(r)) \subseteq PendingRequests
           /\ PendingRequests \subseteq ToSet(Without(r)) \cup {r}
           /\ Distinct(pending) =>
                    Distinct(Without(r)) /\ r \notin ToSet(Without(r))
<1> DEFINE k == Position(r)
           rest == Without(r)
<1>1. k \in 1 .. Len(pending) /\ pending[k] = r
  BY DEF PendingRequests, ToSet, Position
<1>2. /\ rest \in Seq(Request)
      /\ Len(rest) = Len(pending) - 1
      /\ \A j \in 1 .. Len(pending) - 1 :
            rest[j] = IF j < k THEN pending[j] ELSE pending[j + 1]
  BY <1>1, RemoveAtProperties DEF Without
<1>3. /\ DOMAIN pending = 1 .. Len(pending) /\ DOMAIN rest = 1 .. Len(rest)
      /\ Len(pending) \in Nat
  BY <1>2
<1> HIDE DEF k, rest
<1>4. ToSet(rest) \subseteq PendingRequests
  BY <1>1, <1>2, <1>3 DEF ToSet, PendingRequests
<1>5. PendingRequests \subseteq ToSet(rest) \cup {r}
  <2> SUFFICES ASSUME NEW i \in 1 .. Len(pending), pending[i] # r
               PROVE  pending[i] \in ToSet(rest)
    BY <1>3 DEF ToSet, PendingRequests
  <2>1. CASE i < k
    BY <2>1, <1>1, <1>2, <1>3 DEF ToSet
  <2>2. CASE i > k
    <3>1. i - 1 \in 1 .. Len(rest) /\ rest[i - 1] = pending[i]
      BY <2>2, <1>1, <1>2, <1>3
    <3> QED
      BY <3>1, <1>3 DEF ToSet
  <2> QED
    BY <2>1, <2>2, <1>1
<1>6. ASSUME Distinct(pending)
      PROVE  Distinct(rest) /\ r \notin ToSet(rest)
  <2>1. Distinct(rest)
    BY <1>1, <1>2, <1>3, <1>6 DEF Distinct
  <2>2. ASSUME NEW j \in 1 .. Len(rest) PROVE rest[j] # r
    BY <1>1, <1>2, <1>3, <1>6 DEF Distinct
  <2> QED
    BY <2>1, <2>2, <1>3 DEF ToSet
<1> QED
  BY <1>2, <1>4, <1>5, <1>6 DEF rest

\* Appending a request adds it to the list.
LEMMA AppendPending ==
    ASSUME pending \in Seq(Request), NEW r \in Request
    PROVE  /\ Append(pending, r) \in Seq(Request)
           /\ ToSet(Append(pending, r)) = PendingRequests \cup {r}
           /\ Distinct(pending) /\ r \notin PendingRequests
                    => Distinct(Append(pending, r))
<1> DEFINE more == Append(pending, r)
<1>1. /\ more \in Seq(Request) /\ Len(more) = Len(pending) + 1
      /\ \A i \in 1 .. Len(pending) : more[i] = pending[i]
      /\ more[Len(pending) + 1] = r
  BY AppendProperties
<1>2. /\ DOMAIN pending = 1 .. Len(pending) /\ DOMAIN more = 1 .. Len(more)
      /\ Len(pending) \in Nat
  BY <1>1
<1> HIDE DEF more
<1>3. ToSet(more) \subseteq PendingRequests \cup {r}
  BY <1>1, <1>2 DEF ToSet, PendingRequests
<1>4. PendingRequests \cup {r} \subseteq ToSet(more)
  <2>1. r \in ToSet(more)
    BY <1>1, <1>2 DEF ToSet
  <2>2. ASSUME NEW i \in 1 .. Len(pending) PROVE pending[i] \in ToSet(more)
    BY <1>1, <1>2 DEF ToSet
  <2> QED
    BY <2>1, <2>2, <1>2 DEF ToSet, PendingRequests
<1>5. Distinct(pending) /\ r \notin PendingRequests => Distinct(more)
  BY <1>1, <1>2 DEF Distinct, ToSet, PendingRequests
<1> QED
  BY <1>1, <1>3, <1>4, <1>5 DEF more
-----------------------------------------------------------------------------
(* Type correctness.                                                       *)

\* The types hold at the start.
LEMMA InitType == Init => TypeOK
<1> SUFFICES ASSUME Init PROVE TypeOK
  OBVIOUS
<1>1. PICK status \in StartStatus :
        /\ policy = [status |-> status, previous |-> PreviousOf(status),
                     beforeSuspension |-> NoStatus,
                     version |-> VersionOf(status),
                     hasLoan |-> FALSE, amlHold |-> FALSE]
        /\ row = [status |-> status, version |-> VersionOf(status),
                  hasLoan |-> FALSE]
        /\ flcTimer = (status = "FREE_LOOK_ACTIVE")
  BY DEF Init
<1>2. /\ status \in Status /\ VersionOf(status) \in Nat
      /\ PreviousOf(status) \in Status \cup {NoStatus}
  BY StartAssumption, StatusMembers DEF VersionOf, PreviousOf
<1>3. policy \in PolicyState /\ row \in PolicyRow /\ flcTimer \in BOOLEAN
  BY <1>1, <1>2 DEF PolicyState, PolicyRow
<1> QED
  BY <1>3 DEF Init, TypeOK, Signal, Signals, SignalKind, RequestStatus, ChildStatus

\* A signal of a request and a signal of a system id are signals.
LEMMA SignalType ==
    /\ \A kind \in SignalKind, r \in Request : Signal(kind, r) \in Signals
    /\ \A s \in SystemSignal : Signal("system", s) \in Signals
BY DEF Signal, Signals, SignalKind

\* The handlers of the HTTP side, the downstream services and the scans.
LEMMA EnvironmentType ==
    ASSUME TypeOK, NEW r \in Request,
           \/ Submit(r) \/ MarkRouted(r) \/ WithdrawRequest(r)
           \/ ChildApprovesRevival(r)
           \/ \E outcome \in Outcome : ChildCompletes(r, outcome)
           \/ ChildStops(r)
    PROVE  TypeOK'
<1> USE DEF TypeOK, loop, environment, SignalKind, RequestStatus, ChildStatus
<1>1. CASE Submit(r)
  BY <1>1, SignalType DEF Submit
<1>2. CASE MarkRouted(r)
  BY <1>2 DEF MarkRouted
<1>3. CASE WithdrawRequest(r)
  BY <1>3, SignalType DEF WithdrawRequest
<1>4. CASE ChildApprovesRevival(r)
  BY <1>4, SignalType DEF ChildApprovesRevival, ChildReports
<1>5. CASE \E outcome \in Outcome : ChildCompletes(r, outcome)
  BY <1>5, SignalType DEF ChildCompletes, ChildReports
<1>6. CASE ChildStops(r)
  BY <1>6 DEF ChildStops
<1> QED
  BY <1>1, <1>2, <1>3, <1>4, <1>5, <1>6

\* The scans keep the types.
LEMMA ScanType ==
    ASSUME TypeOK,
           \/ \E move \in ScanMove : BatchSelect(move)
           \/ BatchApply \/ BatchSync
    PROVE  TypeOK'
<1> USE DEF TypeOK, loop, environment
<1>1. CASE \E move \in ScanMove : BatchSelect(move)
  BY <1>1, ScanAssumption DEF BatchSelect
<1>2. CASE BatchApply
  <2>1. scan \in BatchTransition
    BY <1>2 DEF BatchApply
  <2>2. scan[2] \in Status
    BY <2>1, BatchTransitionType
  <2>3. row' \in PolicyRow
    BY <1>2, <2>2, UpdatedType DEF BatchApply
  <2>4. syncs' \in Seq(Status)
    <3>1. Append(syncs, scan[2]) \in Seq(Status)
      BY <2>2, AppendProperties
    <3> QED
      BY <1>2, <3>1 DEF BatchApply
  <2>5. faults' \in Nat
    BY <1>2 DEF BatchApply, Charge
  <2> QED
    BY <1>2, <2>3, <2>4, <2>5 DEF BatchApply
<1>3. CASE BatchSync
  <2>1. Head(syncs) \in Status /\ Tail(syncs) \in Seq(Status)
    BY <1>3 DEF BatchSync
  <2>2. policy.status \in Status \cup {NoStatus}
    BY DEF PolicyState
  <2>3. Moved(policy, policy.status, Head(syncs)) \in PolicyState
    BY <2>1, <2>2, MovedType
  <2> QED
    BY <1>3, <2>1, <2>3 DEF BatchSync
<1> QED
  BY <1>1, <1>2, <1>3
\* What every handler shares: the downstream workflows it may cancel, the
\* signals it takes and marks.
LEMMA HelperType ==
    ASSUME TypeOK
    PROVE  /\ \A targets, lost : Cancelled(targets, lost) \in [Request -> ChildStatus]
           /\ \A lost : Charge(lost) => faults' \in Nat
           /\ \A sig : Taken(sig) \subseteq Signals
           /\ \A sig \in Signals : Processed(sig) => processed' \subseteq Signals
BY DEF TypeOK, Cancelled, ChildStatus, Charge, Taken, Processed

\* The handlers of requests keep the types.
LEMMA RequestHandlerType ==
    ASSUME TypeOK, NEW r \in Request,
           \/ DropDuplicateRequest(r) \/ ReceiveRequest(r) \/ RejectSuspended(r)
           \/ RejectRequest(r) \/ RouteRequest(r)
    PROVE  TypeOK'
<1> USE DEF loop, environment
<1>1. CASE DropDuplicateRequest(r)
  BY <1>1 DEF DropDuplicateRequest, TypeOK
<1>2. CASE ReceiveRequest(r)
  <2>1. PICK lost \in Lost({"refresh", "lock", "cancel"}) :
        /\ Charge(lost)
        /\ read' = IF lost = "refresh" THEN {} ELSE {row}
        /\ IF TypeOf[r] = "DEATH_CLAIM"
           THEN /\ child' = Cancelled({activeLock} \cap PendingRequests, lost)
                /\ ReleaseLockIf(activeLock # NoRequest, lost)
                /\ pending' = <<>>
           ELSE UNCHANGED <<child, activeLock, lockRow, pending>>
    BY <1>2 DEF ReceiveRequest
  <2>2. child' \in [Request -> ChildStatus]
    BY <2>1, HelperType DEF TypeOK
  <2>5. pending' \in Seq(Request)
    <3>1. <<>> \in Seq(Request) /\ pending \in Seq(Request)
      BY DEF TypeOK
    <3> QED
      BY <2>1, <3>1
  <2>4. /\ activeLock' \in Request \cup {NoRequest}
        /\ lockRow' \in Request \cup {NoRequest}
    BY <2>1 DEF ReleaseLockIf, TypeOK
  <2>3. read' \subseteq PolicyRow /\ faults' \in Nat /\ inbox' \subseteq Signals
    BY <1>2, <2>1, HelperType DEF TypeOK, ReceiveRequest
  <2> QED
    BY <1>2, <2>2, <2>3, <2>4, <2>5 DEF TypeOK, ReceiveRequest
<1>3. CASE RejectSuspended(r)
  BY <1>3, RefreshedType DEF RejectSuspended, HandlerDone, TypeOK
<1>4. CASE RejectRequest(r)
  <2>1. sr' \in [Request -> RequestStatus] /\ faults' \in Nat
    BY <1>4 DEF RejectRequest, Marked, TypeOK, RequestStatus, Charge
  <2>2. processed' \subseteq Signals
    BY <1>4, HelperType, SignalType DEF RejectRequest, SignalKind
  <2> QED
    BY <1>4, <2>1, <2>2, RefreshedType DEF RejectRequest, HandlerDone, TypeOK
<1>5. CASE RouteRequest(r)
  <2>1. PICK lost \in Lost({"transition", "lock", "service_request"}) :
        /\ IF PreRouteStatus(TypeOf[r]) # NoStatus
           THEN TransitionOf(Refreshed, Refreshed.status,
                             PreRouteStatus(TypeOf[r]), lost)
           ELSE policy' = Refreshed /\ UNCHANGED row
        /\ IF RequiresFinancialLock(TypeOf[r])
           THEN /\ activeLock' = r
                /\ lockRow' = IF lost = "lock" THEN lockRow ELSE r
           ELSE UNCHANGED <<activeLock, lockRow>>
        /\ sr' = Marked(r, "ROUTED", lost)
        /\ Charge(lost)
    BY <1>5 DEF RouteRequest
  <2>2. policy' \in PolicyState /\ row' \in PolicyRow
    <3>1. Refreshed \in PolicyState /\ row \in PolicyRow
      BY RefreshedType DEF TypeOK
    <3>2. Refreshed.status \in Status \cup {NoStatus}
      BY <3>1 DEF PolicyState
    <3> QED
      BY <2>1, <3>1, <3>2, PreRouteType, TransitionType
  <2>3. sr' \in [Request -> RequestStatus] /\ faults' \in Nat
    BY <2>1 DEF Marked, TypeOK, RequestStatus, Charge
  <2>4. /\ activeLock' \in Request \cup {NoRequest}
        /\ lockRow' \in Request \cup {NoRequest}
    BY <2>1 DEF TypeOK
  <2>5. processed' \subseteq Signals
    BY <1>5, HelperType, SignalType DEF RouteRequest, SignalKind
  <2>6. pending' \in Seq(Request)
    BY <1>5, AppendPending DEF RouteRequest, TypeOK
  <2>7. child' \in [Request -> ChildStatus]
    BY <1>5 DEF RouteRequest, TypeOK, ChildStatus
  <2> QED
    BY <1>5, <2>2, <2>3, <2>4, <2>5, <2>6, <2>7 DEF RouteRequest, HandlerDone, TypeOK
<1> QED
  BY <1>1, <1>2, <1>3, <1>4, <1>5
\* A completion may change the loan encumbrance, in memory and in the row.
LEMMA EncumberedType ==
    ASSUME NEW p \in PolicyState, NEW w \in PolicyRow, NEW loan, NEW lost
    PROVE  /\ EncumberedPolicy(p, loan) \in PolicyState
           /\ EncumberedRow(w, loan, lost) \in PolicyRow
<1>1. (TRUE \in loan) \in BOOLEAN
  OBVIOUS
<1>2. \A b \in BOOLEAN : /\ [p EXCEPT !.hasLoan = b] \in PolicyState
                         /\ [w EXCEPT !.hasLoan = b] \in PolicyRow
  BY DEF PolicyState, PolicyRow
<1>3. \A v \in PolicyRow : [v EXCEPT !.version = @ + 1] \in PolicyRow
  BY DEF PolicyRow
<1>4. /\ [p EXCEPT !.hasLoan = TRUE \in loan] \in PolicyState
      /\ [w EXCEPT !.hasLoan = TRUE \in loan] \in PolicyRow
  BY <1>1, <1>2, Zenon
<1>5. [w EXCEPT !.hasLoan = TRUE \in loan, !.version = @ + 1] \in PolicyRow
  BY <1>3, <1>4
<1> QED
  BY <1>4, <1>5 DEF EncumberedPolicy, EncumberedRow

\* The handling of a completion keeps the types.
LEMMA CompleteOperationType ==
    ASSUME TypeOK, NEW r \in Request, CompleteOperation(r)
    PROVE  TypeOK'
<1> USE DEF loop, environment
<1>1. PICK lost \in Lost({"transition", "lock", "service_request", "metadata",
                          "snapshot"}),
           reducedPaidUp \in {FALSE} \cup {TypeOf[r] = "FORCED_SURRENDER"} :
        LET new == CompletionStatus(TypeOf[r], child[r], reducedPaidUp,
                                    policy.previous)
            moves == new \notin {NoStatus, policy.status}
            loan == LoanAfter(TypeOf[r], child[r])
        IN  /\ policy' = EncumberedPolicy(
                    IF moves THEN Moved(policy, policy.status, new)
                             ELSE policy, loan)
            /\ row' = EncumberedRow(
                    IF moves /\ lost # "transition"
                    THEN Recorded(row, policy, new) ELSE row, loan, lost)
            /\ sr' = Marked(MatchedAfterCompaction(r), "COMPLETED", lost)
            /\ ReleaseLockIf(activeLock = r, lost)
            /\ EnterCoolingIf(CompletionIsTerminal(TypeOf[r], child[r],
                                                   reducedPaidUp), lost)
            /\ Charge(lost)
  BY DEF CompleteOperation
<1> DEFINE new == CompletionStatus(TypeOf[r], child[r], reducedPaidUp, policy.previous)
           moves == new \notin {NoStatus, policy.status}
           loan == LoanAfter(TypeOf[r], child[r])
<1>2. /\ policy \in PolicyState /\ row \in PolicyRow
      /\ policy.status \in Status \cup {NoStatus}
      /\ policy.previous \in Status \cup {NoStatus}
  BY DEF TypeOK, PolicyState
<1>3. new \in Status \cup {NoStatus}
  BY <1>2, CompletionType
<1>4. policy' \in PolicyState
  <2>1. policy' = EncumberedPolicy(IF moves THEN Moved(policy, policy.status, new)
                                            ELSE policy, loan)
    BY <1>1
  <2> HIDE DEF new, moves, loan
  <2>2. (IF moves THEN Moved(policy, policy.status, new) ELSE policy) \in PolicyState
    BY <1>2, <1>3, MovedType
  <2> QED
    BY <1>2, <2>1, <2>2, EncumberedType
<1>5. row' \in PolicyRow
  <2>1. row' = EncumberedRow(IF moves /\ lost # "transition"
                             THEN Recorded(row, policy, new) ELSE row, loan, lost)
    BY <1>1
  <2> HIDE DEF new, moves, loan
  <2>2. (IF moves /\ lost # "transition" THEN Recorded(row, policy, new) ELSE row)
            \in PolicyRow
    BY <1>2, <1>3, RecordedType
  <2> QED
    BY <1>2, <2>1, <2>2, EncumberedType
<1>6. sr' \in [Request -> RequestStatus]
  BY <1>1 DEF Marked, TypeOK, RequestStatus
<1>7. /\ activeLock' \in Request \cup {NoRequest}
      /\ lockRow' \in Request \cup {NoRequest}
  BY <1>1 DEF ReleaseLockIf, TypeOK
<1>8. /\ phase' \in {"running", "cooling", "closed"}
      /\ snapshot' \in {"none", "cooling", "completed"}
  BY <1>1 DEF EnterCoolingIf, TypeOK
<1>9. faults' \in Nat
  BY <1>1, HelperType
<1>10. pending' \in Seq(Request)
  BY WithoutProperties DEF CompleteOperation, TypeOK
<1>11. processed' \subseteq Signals /\ inbox' \subseteq Signals
  BY HelperType, SignalType DEF CompleteOperation, Handles, SignalKind
<1> QED
  BY <1>4, <1>5, <1>6, <1>7, <1>8, <1>9, <1>10, <1>11
     DEF CompleteOperation, Handles, SameLoop, TypeOK

\* So do the handlers of completions, revival approvals and withdrawals.
LEMMA CompletionHandlerType ==
    ASSUME TypeOK, NEW r \in Request,
           \/ IgnoreCompletion(r) \/ CompleteOperation(r) \/ CompleteNFR(r)
           \/ RevivalApproved(r) \/ HandleWithdrawal(r)
           \/ \E kind \in {"revival-approved", "withdrawal"} :
                DropDuplicate(Signal(kind, r))
    PROVE  TypeOK'
<1> USE DEF loop, environment
<1>0. policy.status \in Status \cup {NoStatus} /\ policy.previous \in Status \cup {NoStatus}
  BY DEF TypeOK, PolicyState
<1>1. CASE IgnoreCompletion(r)
  <2>1. processed' \subseteq Signals
    BY <1>1, HelperType, SignalType DEF IgnoreCompletion, SignalKind, TypeOK
  <2> QED
    BY <1>1, <2>1 DEF IgnoreCompletion, TypeOK
<1>2. CASE CompleteOperation(r)
  BY <1>2, CompleteOperationType
<1>3. CASE CompleteNFR(r)
  <2>1. pending' \in Seq(Request) /\ inbox' \subseteq Signals
    BY <1>3, HelperType, WithoutProperties DEF CompleteNFR, Handles, TypeOK
  <2> PICK lost \in Lost({"service_request", "metadata"}) :
        /\ sr' = Marked(MatchedAfterCompaction(r), "COMPLETED", lost)
        /\ row' = IF /\ child[r] = "APPROVED"
                     /\ TypeOf[MatchedAfterCompaction(r)] = "ASSIGNMENT"
                  THEN Touched(row, lost) ELSE row
        /\ Charge(lost)
    BY <1>3 DEF CompleteNFR
  <2>2. sr' \in [Request -> RequestStatus]
    BY DEF Marked, TypeOK, RequestStatus
  <2>4. faults' \in Nat
    BY HelperType
  <2>3. row' \in PolicyRow
    BY TouchedType DEF TypeOK
  <2> QED
    BY <1>3, <2>1, <2>2, <2>3, <2>4 DEF CompleteNFR, Handles, SameLoop, TypeOK
<1>4. CASE RevivalApproved(r)
  <2>1. PICK lost \in Lost({"transition", "lock"}) :
        /\ ReleaseLockIf(activeLock = r, lost)
        /\ IF policy.status # "ACTIVE"
           THEN Transition(policy.status, "ACTIVE", lost) ELSE NoTransition
        /\ Charge(lost)
    BY <1>4 DEF RevivalApproved
  <2>2. policy' \in PolicyState /\ row' \in PolicyRow
    BY <1>0, <2>1, TransitionType, StatusMembers DEF Transition, NoTransition, TypeOK
  <2>3. /\ activeLock' \in Request \cup {NoRequest}
        /\ lockRow' \in Request \cup {NoRequest}
    BY <2>1 DEF ReleaseLockIf, TypeOK
  <2>4. faults' \in Nat
    BY <2>1, HelperType
  <2>5. processed' \subseteq Signals /\ inbox' \subseteq Signals
    BY <1>4, HelperType, SignalType DEF RevivalApproved, Handles, SignalKind
  <2> QED
    BY <1>4, <2>2, <2>3, <2>4, <2>5 DEF RevivalApproved, Handles, SameLoop, TypeOK
<1>5. CASE HandleWithdrawal(r)
  <2>1. processed' \subseteq Signals /\ inbox' \subseteq Signals
    BY <1>5, HelperType, SignalType DEF HandleWithdrawal, Handles, SignalKind
  <2>2. CASE r \in PendingRequests
    <3>1. PICK lost \in Lost({"transition", "lock", "cancel"}) :
            /\ child' = Cancelled({r}, lost)
            /\ IF policy.status = PreRouteStatus(TypeOf[r]) /\ policy.status # NoStatus
               THEN Transition(policy.status, policy.previous, lost)
               ELSE NoTransition
            /\ pending' = Without(r)
            /\ ReleaseLockIf(activeLock = r, lost)
            /\ Charge(lost)
      BY <1>5, <2>2 DEF HandleWithdrawal
    <3>2. policy' \in PolicyState /\ row' \in PolicyRow
      BY <1>0, <3>1, TransitionType DEF Transition, NoTransition, TypeOK
    <3>3. /\ activeLock' \in Request \cup {NoRequest}
          /\ lockRow' \in Request \cup {NoRequest}
      BY <3>1 DEF ReleaseLockIf, TypeOK
    <3>4. faults' \in Nat /\ child' \in [Request -> ChildStatus]
      BY <3>1, HelperType
    <3>5. pending' \in Seq(Request)
      BY <2>2, <3>1, WithoutProperties DEF TypeOK
    <3> QED
      BY <1>5, <2>1, <3>2, <3>3, <3>4, <3>5
         DEF HandleWithdrawal, Handles, SameLoop, TypeOK
  <2>3. CASE r \notin PendingRequests
    BY <1>5, <2>1, <2>3 DEF HandleWithdrawal, Handles, SameLoop, TypeOK
  <2> QED
    BY <2>2, <2>3
<1>6. CASE \E kind \in {"revival-approved", "withdrawal"} :
                DropDuplicate(Signal(kind, r))
  BY <1>6 DEF DropDuplicate, TypeOK
<1> QED
  BY <1>1, <1>2, <1>3, <1>4, <1>5, <1>6
\* What all the system handlers do besides their effect on the policy.
LEMMA HandlesSystemType ==
    ASSUME TypeOK, NEW s \in SystemSignal, NEW kind, HandlesSystem(s, kind)
    PROVE  /\ processed' \subseteq Signals /\ inbox' \subseteq Signals
           /\ UNCHANGED <<busy, read, flcTimer, environment>>
BY HelperType, SignalType DEF HandlesSystem, Handles, SameLoop

\* The handlers of system signals keep the types.
LEMMA SystemHandlerType ==
    ASSUME TypeOK, NEW s \in SystemSignal,
           \/ DropDuplicateSystem(s)
           \/ PolicyCreatedAgain(s)
           \/ \E inRemission \in BOOLEAN : PremiumPaid(s, inRemission)
           \/ \E lapse \in {"VOID_LAPSE", "INACTIVE_LAPSE"} :
                PaymentDishonored(s, lapse)
           \/ AMLFlagRaised(s)
           \/ AMLFlagCleared(s)
           \/ InvestigationStarted(s)
           \/ \E confirmed \in BOOLEAN : InvestigationConcluded(s, confirmed)
           \/ ConversionReversed(s)
           \/ MetadataUpdated(s)
           \/ Dispute(s)
           \/ AdminVoid(s)
           \/ \E sufficient \in BOOLEAN : VoluntaryPaidUp(s, sufficient)
    PROVE  TypeOK'
<1> USE DEF loop, environment
<1>0. /\ policy \in PolicyState /\ row \in PolicyRow
      /\ policy.status \in Status \cup {NoStatus}
      /\ policy.previous \in Status \cup {NoStatus}
      /\ policy.beforeSuspension \in Status \cup {NoStatus}
  BY DEF TypeOK, PolicyState
<1>1. CASE DropDuplicateSystem(s)
  BY <1>1 DEF DropDuplicateSystem, TypeOK
<1>2. CASE PolicyCreatedAgain(s)
  <2>1. policy' \in PolicyState
    BY <1>0, <1>2, StatusMembers DEF PolicyCreatedAgain, PolicyState
  <2> QED
    BY <1>2, <2>1 DEF PolicyCreatedAgain, TypeOK
<1>3. ASSUME NEW inRemission \in BOOLEAN, PremiumPaid(s, inRemission)
      PROVE  TypeOK'
  <2>1. policy' \in PolicyState /\ row' \in PolicyRow /\ faults' \in Nat
    BY <1>3, SystemEffectType, StatusMembers DEF PremiumPaid
  <2> QED
    BY <1>3, <2>1, HandlesSystemType DEF PremiumPaid, OnlyPolicyChanges, TypeOK
<1>4. ASSUME NEW lapse \in {"VOID_LAPSE", "INACTIVE_LAPSE"},
             PaymentDishonored(s, lapse)
      PROVE  TypeOK'
  <2>1. PICK to \in {NoStatus, lapse}, touches \in BOOLEAN : SystemEffect(to, touches)
    BY <1>4 DEF PaymentDishonored
  <2>2. policy' \in PolicyState /\ row' \in PolicyRow /\ faults' \in Nat
    BY <2>1, SystemEffectType, StatusMembers
  <2> QED
    BY <1>4, <2>2, HandlesSystemType DEF PaymentDishonored, OnlyPolicyChanges, TypeOK
<1>5. CASE AMLFlagRaised(s)
  <2> DEFINE flagged == [policy EXCEPT !.beforeSuspension = policy.status,
                                       !.amlHold = TRUE]
  <2>1. flagged \in PolicyState
    BY <1>0 DEF PolicyState
  <2>2. PICK lost \in Lost({"transition"}) :
            TransitionOf(flagged, policy.status, "SUSPENDED", lost) /\ Charge(lost)
    BY <1>5 DEF AMLFlagRaised
  <2> HIDE DEF flagged
  <2>3. policy' \in PolicyState /\ row' \in PolicyRow /\ faults' \in Nat
    BY <1>0, <2>1, <2>2, TransitionType, HelperType, StatusMembers
  <2> QED
    BY <1>5, <2>3, HandlesSystemType DEF AMLFlagRaised, OnlyPolicyChanges, TypeOK
<1>6. CASE AMLFlagCleared(s)
  <2> DEFINE cleared == [policy EXCEPT !.beforeSuspension = NoStatus,
                                       !.amlHold = FALSE]
  <2>1. cleared \in PolicyState
    BY <1>0 DEF PolicyState
  <2>2. PICK lost \in Lost({"transition"}) :
            TransitionOf(cleared, "SUSPENDED", Restored, lost) /\ Charge(lost)
    BY <1>6 DEF AMLFlagCleared
  <2>3. Restored \in Status
    BY <1>0, StatusMembers DEF Restored
  <2> HIDE DEF cleared
  <2>4. policy' \in PolicyState /\ row' \in PolicyRow /\ faults' \in Nat
    BY <1>0, <2>1, <2>2, <2>3, TransitionType, HelperType, StatusMembers
  <2> QED
    BY <1>6, <2>4, HandlesSystemType DEF AMLFlagCleared, OnlyPolicyChanges, TypeOK
<1>7. CASE InvestigationStarted(s)
  <2>1. policy' \in PolicyState /\ row' \in PolicyRow /\ faults' \in Nat
    BY <1>7, SystemEffectType, StatusMembers DEF InvestigationStarted
  <2> QED
    BY <1>7, <2>1, HandlesSystemType DEF InvestigationStarted, OnlyPolicyChanges, TypeOK
<1>8. ASSUME NEW confirmed \in BOOLEAN, InvestigationConcluded(s, confirmed)
      PROVE  TypeOK'
  <2>1. policy' \in PolicyState /\ row' \in PolicyRow /\ faults' \in Nat
    BY <1>8, SystemEffectType, StatusMembers DEF InvestigationConcluded
  <2>2. /\ phase' \in {"running", "cooling", "closed"}
        /\ snapshot' \in {"none", "cooling", "completed"}
    BY <1>8 DEF InvestigationConcluded, EnterCoolingIf, TypeOK
  <2> QED
    BY <1>8, <2>1, <2>2, HandlesSystemType DEF InvestigationConcluded, TypeOK
<1>9. CASE ConversionReversed(s)
  <2>1. policy' \in PolicyState /\ row' \in PolicyRow /\ faults' \in Nat
    BY <1>0, <1>9, SystemEffectType DEF ConversionReversed
  <2> QED
    BY <1>9, <2>1, HandlesSystemType DEF ConversionReversed, OnlyPolicyChanges, TypeOK
<1>10. CASE MetadataUpdated(s)
  <2>1. policy' \in PolicyState /\ row' \in PolicyRow /\ faults' \in Nat
    BY <1>10, SystemEffectType DEF MetadataUpdated
  <2> QED
    BY <1>10, <2>1, HandlesSystemType DEF MetadataUpdated, OnlyPolicyChanges, TypeOK
<1>11. CASE Dispute(s)
  BY <1>11, HandlesSystemType DEF Dispute, OnlyPolicyChanges, TypeOK
<1>12. CASE AdminVoid(s)
  <2>1. PICK lost \in Lost({"transition", "lock", "cancel", "snapshot"}) :
            /\ child' = Cancelled(PendingRequests, lost)
            /\ ReleaseLockIf(activeLock # NoRequest, lost)
            /\ Transition(policy.status, "VOID", lost)
            /\ EnterCoolingIf(TRUE, lost)
            /\ Charge(lost)
    BY <1>12 DEF AdminVoid
  <2>2. policy' \in PolicyState /\ row' \in PolicyRow
    BY <1>0, <2>1, TransitionType, StatusMembers DEF Transition
  <2>3. /\ activeLock' \in Request \cup {NoRequest}
        /\ lockRow' \in Request \cup {NoRequest}
    BY <2>1 DEF ReleaseLockIf, TypeOK
  <2>4. /\ phase' \in {"running", "cooling", "closed"}
        /\ snapshot' \in {"none", "cooling", "completed"}
    BY <2>1 DEF EnterCoolingIf, TypeOK
  <2>5. faults' \in Nat /\ child' \in [Request -> ChildStatus]
    BY <2>1, HelperType
  <2>6. pending' \in Seq(Request)
    BY <1>12 DEF AdminVoid
  <2> QED
    BY <1>12, <2>2, <2>3, <2>4, <2>5, <2>6, HandlesSystemType DEF AdminVoid, TypeOK
<1>13. ASSUME NEW sufficient \in BOOLEAN, VoluntaryPaidUp(s, sufficient)
       PROVE  TypeOK'
  <2>1. PICK to \in {NoStatus, "PAID_UP", "VOID"} : SystemEffect(to, FALSE)
    BY <1>13 DEF VoluntaryPaidUp
  <2>2. policy' \in PolicyState /\ row' \in PolicyRow /\ faults' \in Nat
    BY <2>1, SystemEffectType, StatusMembers
  <2>3. /\ phase' \in {"running", "cooling", "closed"}
        /\ snapshot' \in {"none", "cooling", "completed"}
    BY <1>13 DEF VoluntaryPaidUp, EnterCoolingIf, TypeOK
  <2> QED
    BY <1>13, <2>2, <2>3, HandlesSystemType DEF VoluntaryPaidUp, TypeOK
<1> QED
  BY <1>1, <1>2, <1>3, <1>4, <1>5, <1>6, <1>7, <1>8, <1>9, <1>10, <1>11,
     <1>12, <1>13
\* What is left of the batch syncs is a sequence of statuses.
LEMMA TailType ==
    ASSUME TypeOK, NEW n \in 0 .. Len(syncs)
    PROVE  SubSeq(syncs, n + 1, Len(syncs)) \in Seq(Status)
BY SubSeqProperties DEF TypeOK

\* Timers and Continue-As-New keep the types.
LEMMA LoopType ==
    ASSUME TypeOK, FLCExpires \/ ContinueAsNew \/ CoolingExpires
    PROVE  TypeOK'
<1> USE DEF loop, environment
<1>1. CASE FLCExpires
  <2>1. policy' \in PolicyState /\ row' \in PolicyRow /\ faults' \in Nat
    <3>1. CASE policy.status = "FREE_LOOK_ACTIVE"
      <4>1. PICK lost \in Lost({"transition"}) :
                Transition("FREE_LOOK_ACTIVE", "ACTIVE", lost) /\ Charge(lost)
        BY <1>1, <3>1 DEF FLCExpires
      <4> QED
        BY <4>1, TransitionType, HelperType, StatusMembers DEF Transition, TypeOK
    <3>2. CASE policy.status # "FREE_LOOK_ACTIVE"
      BY <1>1, <3>2 DEF FLCExpires, TypeOK
    <3> QED
      BY <3>1, <3>2
  <2> QED
    BY <1>1, <2>1 DEF FLCExpires, TypeOK
<1>2. CASE ContinueAsNew
  <2>1. syncs' \in Seq(Status)
    BY <1>2, TailType DEF ContinueAsNew, LosesBuffered
  <2>2. flcTimer' \in BOOLEAN /\ inbox' \subseteq Signals
    BY <1>2 DEF ContinueAsNew, LosesBuffered, TypeOK
  <2>3. continued' \in Nat
    BY <1>2 DEF ContinueAsNew, TypeOK
  <2> QED
    BY <1>2, <2>1, <2>2, <2>3 DEF ContinueAsNew, TypeOK
<1>3. CASE CoolingExpires
  BY <1>3 DEF CoolingExpires, Charge, TypeOK
<1> QED
  BY <1>1, <1>2, <1>3

\* The handlers of the cooling period keep the types.
LEMMA CoolingSignalType ==
    ASSUME TypeOK, NEW s \in SystemSignal, NEW expired \in BOOLEAN,
           \/ CoolingPremium(s, expired)
           \/ CoolingLoanBalance(s, expired)
           \/ CoolingReopen(s, expired)
    PROVE  TypeOK'
<1> USE DEF loop, environment
<1>1. CASE CoolingPremium(s, expired)
  <2>1. faults' \in Nat /\ refunds' \in [SystemSignal -> Nat]
    BY <1>1 DEF CoolingPremium, Charge, TypeOK
  <2>2. inbox' \subseteq Signals
    BY <1>1 DEF CoolingPremium, Taken, TypeOK
  <2> QED
    BY <1>1, <2>1, <2>2 DEF CoolingPremium, HandlesCooling, TypeOK
<1>2. CASE CoolingLoanBalance(s, expired)
  <2>1. policy' \in PolicyState /\ row' \in PolicyRow /\ faults' \in Nat
    BY <1>2, SystemEffectType DEF CoolingLoanBalance
  <2> QED
    BY <1>2, <2>1 DEF CoolingLoanBalance, HandlesCooling, TypeOK
<1>3. CASE CoolingReopen(s, expired)
  <2>1. policy' \in PolicyState /\ row' \in PolicyRow /\ faults' \in Nat
    <3>1. policy.status \in Status \cup {NoStatus} /\ policy.previous \in Status \cup {NoStatus}
      BY DEF TypeOK, PolicyState
    <3>2. CASE Signal("system", s) \in processed
      BY <1>3, <3>2 DEF CoolingReopen, TypeOK
    <3>3. CASE Signal("system", s) \notin processed
      <4>1. PICK lost \in Lost({"transition"}) :
                Transition(policy.status, policy.previous, lost) /\ Charge(lost)
        BY <1>3, <3>3 DEF CoolingReopen
      <4> QED
        BY <3>1, <4>1, TransitionType, HelperType DEF Transition, TypeOK
    <3> QED
      BY <3>2, <3>3
  <2>2. processed' \subseteq Signals
    BY <1>3, HelperType, SignalType DEF CoolingReopen
  <2>3. /\ phase' \in {"running", "cooling", "closed"} /\ flcTimer' \in BOOLEAN
        /\ inbox' \subseteq Signals /\ syncs' \in Seq(Status)
    BY <1>3, TailType DEF CoolingReopen, TypeOK
  <2> QED
    BY <1>3, <2>1, <2>2, <2>3 DEF CoolingReopen, TypeOK
<1> QED
  BY <1>1, <1>2, <1>3

\* Every reachable state is well typed: a status is a status of the schema, a
\* version a number, and no handler writes anything else.
THEOREM TypeCorrect == Spec => []TypeOK
<1>1. TypeOK /\ [Next]_vars => TypeOK'
  <2> SUFFICES ASSUME TypeOK, [Next]_vars PROVE TypeOK'
    OBVIOUS
  <2>1. ASSUME NEW r \in Request, RequestStep(r) PROVE TypeOK'
    BY <2>1, EnvironmentType, RequestHandlerType, CompletionHandlerType
       DEF RequestStep
  <2>2. ASSUME NEW s \in SystemSignal, SystemStep(s) PROVE TypeOK'
    BY <2>2, SystemHandlerType, CoolingSignalType DEF SystemStep
  <2>3. CASE LoopStep
    BY <2>3, ScanType, LoopType DEF LoopStep
  <2>4. CASE UNCHANGED vars
    BY <2>4 DEF TypeOK, vars, loop, environment
  <2> QED
    BY <2>1, <2>2, <2>3, <2>4 DEF Next
<1> QED
  BY InitType, <1>1, PTL DEF Spec
-----------------------------------------------------------------------------
(* The financial lock.  The lock, the pending list, the downstream         *)
(* workflows and the processed ids are kept by different handlers; what    *)
(* ties them together is an invariant of four parts.                       *)

\* A request whose downstream workflow was ever started is marked processed,
\* and the one being handled is not yet.
HandledOnce ==
    /\ \A r \in Request : child[r] # "none" => Signal("request", r) \in processed
    /\ busy \in Request => Signal("request", busy) \notin processed

\* What is waiting on a completion channel did happen downstream.
ReportsTrue ==
    \A r \in Request :
        /\ Signal("completed", r) \in inbox => child[r] \in Outcome
        /\ Signal("revival-approved", r) \in inbox => child[r] \notin {"none", "running"}

\* The properties of PolicyLifecycle about the lock, together.  The lock is
\* never held for a request that does not need it, so the completion of a
\* non-financial one need not release it.
LockKept ==
    /\ activeLock \in Request => NeedsLock(activeLock)
    /\ LockHolderPending /\ LockedWhilePending /\ PendingAlive
    /\ LockMirrored /\ UnlockedToldToStop

LockInvariant == HandledOnce /\ ReportsTrue /\ Distinct(pending) /\ LockKept

\* A step that neither starts, cancels nor ends an operation nor touches the
\* lock: it may mark signals processed and take signals off their channels.
Quiet ==
    /\ UNCHANGED <<activeLock, lockRow, pending, child>>
    /\ processed \subseteq processed'
    /\ faults' = 0 => faults = 0
    /\ busy' \in {busy, NoRequest}
    /\ \A r \in Request :
        /\ Signal("request", r) \in processed' \ processed
                => busy = NoRequest \/ busy' = NoRequest
        /\ Signal("completed", r) \in inbox' => Signal("completed", r) \in inbox
        /\ Signal("revival-approved", r) \in inbox'
                => Signal("revival-approved", r) \in inbox

\* The steps that are not quiet.
OperationStep(r) ==
    \/ ChildApprovesRevival(r)
    \/ \E outcome \in Outcome : ChildCompletes(r, outcome)
    \/ ChildStops(r)
    \/ ReceiveRequest(r) \/ RouteRequest(r)
    \/ CompleteOperation(r) \/ CompleteNFR(r)
    \/ RevivalApproved(r) \/ HandleWithdrawal(r)

\* Signals of another kind or id are other signals.
LEMMA SignalsDiffer ==
    \A k1, k2, i1, i2 : Signal(k1, i1) = Signal(k2, i2) => k1 = k2 /\ i1 = i2
<1> TAKE k1, k2, i1, i2
<1> HAVE Signal(k1, i1) = Signal(k2, i2)
<1>1. Signal(k1, i1).kind = k1 /\ Signal(k2, i2).kind = k2
  BY DEF Signal
<1>2. Signal(k1, i1).id = i1 /\ Signal(k2, i2).id = i2
  BY DEF Signal
<1> QED
  BY <1>1, <1>2

\* As long as no activity has failed for good, no write was lost.
LEMMA ChargeFaults ==
    ASSUME TypeOK, NEW lost, Charge(lost)
    PROVE  faults' = 0 => faults = 0 /\ lost = "none"
BY DEF Charge, TypeOK

\* A step that concerns a request is quiet, or one of the operation on it.
LEMMA QuietRequestStep ==
    ASSUME TypeOK, NEW r \in Request, RequestStep(r)
    PROVE  Quiet \/ OperationStep(r)
<1> USE SignalsDiffer DEF loop, environment, Quiet
<1>1. CASE Submit(r)
  BY <1>1 DEF Submit
<1>2. CASE MarkRouted(r)
  BY <1>2 DEF MarkRouted
<1>3. CASE WithdrawRequest(r)
  BY <1>3 DEF WithdrawRequest
<1>4. CASE DropDuplicateRequest(r)
  BY <1>4 DEF DropDuplicateRequest
<1>5. CASE RejectSuspended(r)
  BY <1>5 DEF RejectSuspended, HandlerDone
<1>6. CASE RejectRequest(r)
  BY <1>6 DEF RejectRequest, HandlerDone, Processed, Charge, TypeOK
<1>7. CASE IgnoreCompletion(r)
  BY <1>7 DEF IgnoreCompletion, Idle, Processed
<1>8. CASE \E kind \in {"revival-approved", "withdrawal"} :
                DropDuplicate(Signal(kind, r))
  BY <1>8 DEF DropDuplicate
<1> QED
  BY <1>1, <1>2, <1>3, <1>4, <1>5, <1>6, <1>7, <1>8 DEF RequestStep, OperationStep
\* A system handler marks its own signal and leaves the requests' alone.
LEMMA QuietSystemEffect ==
    ASSUME TypeOK, NEW s \in SystemSignal, NEW kind, HandlesSystem(s, kind),
           UNCHANGED <<activeLock, lockRow, pending, child>>,
           faults' = 0 => faults = 0
    PROVE  Quiet
<1>1. /\ processed' = processed \cup {Signal("system", s)}
      /\ inbox' \subseteq inbox
      /\ busy' = busy
  BY DEF HandlesSystem, Handles, SameLoop, Processed, Taken
<1>2. \A r \in Request : Signal("request", r) # Signal("system", s)
  BY SignalsDiffer
<1> QED
  BY <1>1, <1>2 DEF Quiet

\* The effect of a system signal does not take failures back.
LEMMA EffectFaults ==
    ASSUME TypeOK, NEW to, NEW touches, SystemEffect(to, touches)
    PROVE  faults' = 0 => faults = 0
BY ChargeFaults DEF SystemEffect

\* A step that handles a system signal is quiet, or an administrative void.
LEMMA QuietSystemStep ==
    ASSUME TypeOK, NEW s \in SystemSignal, SystemStep(s)
    PROVE  Quiet \/ AdminVoid(s)
<1> USE DEF loop, environment
<1>1. CASE DropDuplicateSystem(s)
  BY <1>1 DEF DropDuplicateSystem, Quiet
<1>2. CASE PolicyCreatedAgain(s)
  BY <1>2 DEF PolicyCreatedAgain, Quiet
<1>3. ASSUME NEW inRemission \in BOOLEAN, PremiumPaid(s, inRemission) PROVE Quiet
  BY <1>3, QuietSystemEffect, EffectFaults DEF PremiumPaid, OnlyPolicyChanges
<1>4. ASSUME NEW lapse \in {"VOID_LAPSE", "INACTIVE_LAPSE"},
             PaymentDishonored(s, lapse)
      PROVE  Quiet
  <2>1. PICK to, touches : SystemEffect(to, touches)
    BY <1>4 DEF PaymentDishonored
  <2> QED
    BY <1>4, <2>1, QuietSystemEffect, EffectFaults DEF PaymentDishonored, OnlyPolicyChanges
<1>5. CASE AMLFlagRaised(s)
  BY <1>5, QuietSystemEffect, ChargeFaults DEF AMLFlagRaised, OnlyPolicyChanges
<1>6. CASE AMLFlagCleared(s)
  BY <1>6, QuietSystemEffect, ChargeFaults DEF AMLFlagCleared, OnlyPolicyChanges
<1>7. CASE InvestigationStarted(s)
  BY <1>7, QuietSystemEffect, EffectFaults DEF InvestigationStarted, OnlyPolicyChanges
<1>8. ASSUME NEW confirmed \in BOOLEAN, InvestigationConcluded(s, confirmed) PROVE Quiet
  BY <1>8, QuietSystemEffect, EffectFaults DEF InvestigationConcluded
<1>9. CASE ConversionReversed(s)
  BY <1>9, QuietSystemEffect, EffectFaults DEF ConversionReversed, OnlyPolicyChanges
<1>10. CASE MetadataUpdated(s)
  BY <1>10, QuietSystemEffect, EffectFaults DEF MetadataUpdated, OnlyPolicyChanges
<1>11. CASE Dispute(s)
  BY <1>11, QuietSystemEffect DEF Dispute, OnlyPolicyChanges
<1>12. ASSUME NEW sufficient \in BOOLEAN, VoluntaryPaidUp(s, sufficient) PROVE Quiet
  <2>1. PICK to : SystemEffect(to, FALSE)
    BY <1>12 DEF VoluntaryPaidUp
  <2> QED
    BY <1>12, <2>1, QuietSystemEffect, EffectFaults DEF VoluntaryPaidUp
<1>13. ASSUME NEW expired \in BOOLEAN, CoolingPremium(s, expired) PROVE Quiet
  BY <1>13, ChargeFaults DEF CoolingPremium, HandlesCooling, Taken, Quiet
<1>14. ASSUME NEW expired \in BOOLEAN, CoolingLoanBalance(s, expired) PROVE Quiet
  BY <1>14, EffectFaults DEF CoolingLoanBalance, HandlesCooling, Quiet
<1>15. ASSUME NEW expired \in BOOLEAN, CoolingReopen(s, expired) PROVE Quiet
  <2>1. faults' = 0 => faults = 0
    BY <1>15, ChargeFaults DEF CoolingReopen
  <2>2. inbox' \subseteq inbox
    BY <1>15 DEF CoolingReopen
  <2>3. /\ processed' = processed \cup {Signal("system", s)}
        /\ busy' = busy /\ UNCHANGED <<activeLock, lockRow, pending, child>>
    BY <1>15 DEF CoolingReopen, Processed
  <2> QED
    BY <2>1, <2>2, <2>3, SignalsDiffer DEF Quiet
<1> QED
  BY <1>1, <1>2, <1>3, <1>4, <1>5, <1>6, <1>7, <1>8, <1>9, <1>10, <1>11,
     <1>12, <1>13, <1>14, <1>15 DEF SystemStep

\* What else the loop does is quiet.
LEMMA QuietLoopStep ==
    ASSUME TypeOK, LoopStep \/ UNCHANGED vars
    PROVE  Quiet
<1> USE DEF loop, environment, Quiet
<1>1. ASSUME NEW move \in ScanMove, BatchSelect(move) PROVE Quiet
  BY <1>1 DEF BatchSelect
<1>2. CASE BatchApply
  BY <1>2, ChargeFaults DEF BatchApply
<1>3. CASE BatchSync
  BY <1>3 DEF BatchSync
<1>4. CASE FLCExpires
  BY <1>4, ChargeFaults DEF FLCExpires
<1>5. CASE ContinueAsNew
  BY <1>5 DEF ContinueAsNew, LosesBuffered
<1>6. CASE CoolingExpires
  BY <1>6, ChargeFaults DEF CoolingExpires
<1>7. CASE UNCHANGED vars
  BY <1>7 DEF vars
<1> QED
  BY <1>1, <1>2, <1>3, <1>4, <1>5, <1>6, <1>7 DEF LoopStep
\* Cancelling changes operations that run: they are asked to stop.
LEMMA CancelledEffect ==
    ASSUME TypeOK, NEW targets, NEW lost, NEW q \in Request
    PROVE  /\ Cancelled(targets, lost)[q] \in {child[q], "stopping", "stopping2"}
           /\ Cancelled(targets, lost)[q] # child[q] =>
                q \in targets /\ child[q] \in {"running", "phase2"}
           /\ q \in targets /\ lost = "none" => Cancelled(targets, lost)[q] # "running"
BY DEF Cancelled, TypeOK

\* Every step keeps: what was started has its id among the processed ones.
LEMMA HandledOnceStep ==
    ASSUME TypeOK, HandledOnce,
           Quiet \/ (\E r \in Request : OperationStep(r))
                 \/ (\E s \in SystemSignal : AdminVoid(s))
    PROVE  HandledOnce'
<1> USE DEF loop, environment
<1>1. CASE Quiet
  BY <1>1, RequestAssumption DEF Quiet, HandledOnce
<1>2. ASSUME NEW r \in Request, OperationStep(r) PROVE HandledOnce'
  <2>1. ASSUME NEW status, NEW kind, child[r] # "none", ChildReports(r, status, kind)
        PROVE  HandledOnce'
    BY <2>1 DEF ChildReports, HandledOnce, TypeOK
  <2>2. CASE ChildApprovesRevival(r) \/ \E outcome \in Outcome : ChildCompletes(r, outcome)
    BY <2>1, <2>2 DEF ChildApprovesRevival, ChildCompletes
  <2>9. CASE ChildStops(r)
    BY <2>9 DEF ChildStops, HandledOnce, TypeOK
  <2>3. CASE ReceiveRequest(r)
    <3>1. PICK lost : child' = child \/ child' =
            Cancelled({activeLock} \cap PendingRequests, lost)
      BY <2>3 DEF ReceiveRequest
    <3>2. \A q \in Request : child'[q] # "none" => child[q] # "none"
      BY <3>1, CancelledEffect
    <3> QED
      BY <2>3, <3>2 DEF ReceiveRequest, Fresh, HandledOnce
  <2>4. CASE RouteRequest(r)
    BY <2>4, RequestAssumption DEF RouteRequest, HandlerDone, Processed, HandledOnce, TypeOK
  <2>5. CASE CompleteOperation(r)
    BY <2>5, RequestAssumption
       DEF CompleteOperation, Handles, Idle, SameLoop, Processed, HandledOnce
  <2>6. CASE CompleteNFR(r)
    BY <2>6, RequestAssumption DEF CompleteNFR, Handles, Idle, SameLoop, HandledOnce
  <2>7. CASE RevivalApproved(r)
    BY <2>7, RequestAssumption
       DEF RevivalApproved, Handles, Idle, SameLoop, Processed, HandledOnce
  <2>8. CASE HandleWithdrawal(r)
    <3>1. PICK lost : child' = child \/ child' = Cancelled({r}, lost)
      BY <2>8 DEF HandleWithdrawal
    <3>2. \A q \in Request : child'[q] # "none" => child[q] # "none"
      BY <3>1, CancelledEffect
    <3> QED
      BY <2>8, <3>2, RequestAssumption
         DEF HandleWithdrawal, Handles, Idle, SameLoop, Processed, HandledOnce
  <2> QED
    BY <1>2, <2>2, <2>3, <2>4, <2>5, <2>6, <2>7, <2>8, <2>9 DEF OperationStep
<1>3. ASSUME NEW s \in SystemSignal, AdminVoid(s) PROVE HandledOnce'
  <2>1. PICK lost : child' = Cancelled(PendingRequests, lost)
    BY <1>3 DEF AdminVoid
  <2>2. \A q \in Request : child'[q] # "none" => child[q] # "none"
    BY <2>1, CancelledEffect
  <2> QED
    BY <1>3, <2>2, RequestAssumption
       DEF AdminVoid, HandlesSystem, Handles, Idle, SameLoop, Processed, HandledOnce
<1> QED
  BY <1>1, <1>2, <1>3

\* The request being routed was never started before.
LEMMA RoutedIsNew ==
    ASSUME HandledOnce, NEW r \in Request, busy = r
    PROVE  child[r] = "none"
BY DEF HandledOnce

\* Every step keeps: what is reported of a child is true of it.
LEMMA ReportsTrueStep ==
    ASSUME TypeOK, HandledOnce, ReportsTrue,
           Quiet \/ (\E r \in Request : OperationStep(r))
                 \/ (\E s \in SystemSignal : AdminVoid(s))
    PROVE  ReportsTrue'
<1> USE DEF loop, environment
<1>1. CASE Quiet
  BY <1>1 DEF Quiet, ReportsTrue
<1>2. ASSUME NEW targets, NEW lost,
             child' = child \/ child' = Cancelled(targets, lost), inbox' \subseteq inbox
      PROVE  ReportsTrue'
  BY <1>2, CancelledEffect DEF ReportsTrue, Outcome
<1>3. ASSUME NEW r \in Request, OperationStep(r) PROVE ReportsTrue'
  <2>1. CASE ChildApprovesRevival(r)
    BY <2>1, SignalsDiffer
       DEF ChildApprovesRevival, ChildReports, ReportsTrue, Outcome, TypeOK
  <2>2. ASSUME NEW outcome \in Outcome, ChildCompletes(r, outcome) PROVE ReportsTrue'
    BY <2>2, SignalsDiffer DEF ChildCompletes, ChildReports, ReportsTrue, Outcome, TypeOK
  <2>7. CASE ChildStops(r)
    BY <2>7 DEF ChildStops, ReportsTrue, Outcome, TypeOK
  <2>3. CASE ReceiveRequest(r)
    BY <2>3, <1>2 DEF ReceiveRequest, Taken
  <2>4. CASE RouteRequest(r)
    <3>1. child[r] = "none"
      BY <2>4, RoutedIsNew DEF RouteRequest
    <3> QED
      BY <2>4, <3>1 DEF RouteRequest, ReportsTrue, Outcome, TypeOK
  <2>5. CASE CompleteOperation(r) \/ CompleteNFR(r) \/ RevivalApproved(r)
    BY <2>5, <1>2 DEF CompleteOperation, CompleteNFR, RevivalApproved, Handles, Taken
  <2>6. CASE HandleWithdrawal(r)
    BY <2>6, <1>2 DEF HandleWithdrawal, Handles, Taken
  <2> QED
    BY <1>3, <2>1, <2>2, <2>3, <2>4, <2>5, <2>6, <2>7 DEF OperationStep
<1>4. ASSUME NEW s \in SystemSignal, AdminVoid(s) PROVE ReportsTrue'
  BY <1>4, <1>2 DEF AdminVoid, HandlesSystem, Handles, Taken
<1> QED
  BY <1>1, <1>3, <1>4
\* What ReleaseLockIf leaves, if the row mirrored the lock before.
LEMMA ReleaseEffect ==
    ASSUME NEW h, NEW lost, ReleaseLockIf(activeLock = h, lost)
    PROVE  /\ activeLock = h => activeLock' = NoRequest
           /\ activeLock # h => activeLock' = activeLock
           /\ lost = "none" /\ lockRow = activeLock => lockRow' = activeLock'
BY DEF ReleaseLockIf

\* Releasing the lock, and its row unless that write is lost.
LEMMA ReleaseAllEffect ==
    ASSUME NEW lost, ReleaseLockIf(activeLock # NoRequest, lost)
    PROVE  /\ activeLock' = NoRequest
           /\ lost = "none" /\ lockRow = activeLock => lockRow' = NoRequest
BY DEF ReleaseLockIf

\* Everything pending is dropped, the operation that holds the lock told to stop:
\* a death notification, an administrative void.
LEMMA DropAll ==
    ASSUME TypeOK, LockKept, NEW targets, NEW lost,
           activeLock \in PendingRequests => activeLock \in targets,
           child' = Cancelled(targets, lost),
           ReleaseLockIf(activeLock # NoRequest, lost),
           pending' = <<>>, Charge(lost)
    PROVE  Distinct(pending)' /\ LockKept'
<1>1. PendingRequests' = {} /\ Distinct(pending)'
  BY DEF PendingRequests, ToSet, Distinct
<1>2. activeLock' = NoRequest
  BY ReleaseAllEffect
<1>3. faults' = 0 => faults = 0 /\ lost = "none"
  BY ChargeFaults
<1>4. LockMirrored'
  BY <1>2, <1>3, ReleaseAllEffect DEF LockKept, LockMirrored
<1>5. UnlockedToldToStop'
  <2> SUFFICES ASSUME faults' = 0, NEW q \in Request, child'[q] = "running", NeedsLock(q)
               PROVE  FALSE
    BY DEF UnlockedToldToStop, NeedsLock
  <2>1. child[q] = "running"
    BY CancelledEffect
  <2>2. activeLock = q
    BY <1>3, <2>1 DEF LockKept, UnlockedToldToStop
  <2>3. q \in targets
    BY <2>2, RequestAssumption DEF LockKept, LockHolderPending
  <2> QED
    BY <1>3, <2>3, CancelledEffect
<1> QED
  BY <1>1, <1>2, <1>4, <1>5, RequestAssumption
     DEF LockKept, LockHolderPending, LockedWhilePending, PendingAlive

\* One request leaves the pending list and gives up the lock, its operation
\* having ended or been asked to stop: a completion, a withdrawal.
LEMMA DropOne ==
    ASSUME TypeOK, Distinct(pending), LockKept, NEW lost,
           NEW r \in PendingRequests, pending' = Without(r),
           \/ child' = child /\ child[r] # "running"
           \/ child' = Cancelled({r}, lost),
           ReleaseLockIf(activeLock = r, lost), Charge(lost),
           processed \subseteq processed'
    PROVE  Distinct(pending)' /\ LockKept'
<1>1. /\ PendingRequests' \subseteq PendingRequests \ {r}
      /\ PendingRequests \subseteq PendingRequests' \cup {r}
      /\ Distinct(pending)'
  BY WithoutProperties DEF PendingRequests, TypeOK
<1>2. faults' = 0 => faults = 0 /\ lost = "none"
  BY ChargeFaults
<1>3. \A q \in Request \ {r} : child'[q] = child[q]
  BY CancelledEffect
<1>4. lost = "none" => child'[r] # "running"
  BY CancelledEffect DEF PendingRequests, ToSet, TypeOK
<1>5. LockHolderPending' /\ (activeLock' \in Request => NeedsLock(activeLock'))
  BY <1>1, ReleaseEffect, RequestAssumption DEF LockKept, LockHolderPending
<1>6. PendingRequests \subseteq Request
  BY DEF TypeOK, PendingRequests, ToSet
<1>7. LockedWhilePending'
  BY <1>1, ReleaseEffect DEF LockKept, LockedWhilePending, NeedsLock
<1>8. PendingAlive'
  BY <1>1, <1>3, <1>6 DEF LockKept, PendingAlive
<1>9. LockMirrored'
  BY <1>2, ReleaseEffect DEF LockKept, LockMirrored
<1>10. UnlockedToldToStop'
  BY <1>2, <1>3, <1>4, ReleaseEffect DEF LockKept, UnlockedToldToStop, NeedsLock
<1> QED
  BY <1>1, <1>5, <1>7, <1>8, <1>9, <1>10 DEF LockKept, NeedsLock
\* A request is routed: the only step that takes the lock and starts anything.
LEMMA RouteKeepsLock ==
    ASSUME TypeOK, LockInvariant, NEW r \in Request, RouteRequest(r)
    PROVE  Distinct(pending)' /\ LockKept'
<1>1. child[r] = "none"
  BY RoutedIsNew DEF RouteRequest, LockInvariant
<1>2. r \notin PendingRequests
  BY <1>1 DEF LockInvariant, LockKept, PendingAlive
<1>3. Distinct(pending)' /\ PendingRequests' = PendingRequests \cup {r}
  BY <1>2, AppendPending DEF RouteRequest, PendingRequests, LockInvariant, TypeOK
<1>4. PICK lost :
        /\ IF NeedsLock(r)
           THEN activeLock' = r /\ lockRow' = IF lost = "lock" THEN lockRow ELSE r
           ELSE UNCHANGED <<activeLock, lockRow>>
        /\ Charge(lost)
  BY DEF RouteRequest, NeedsLock
<1>5. NeedsLock(r) => activeLock = NoRequest
  BY DEF RouteRequest, Refused, NeedsLock
<1>6. faults' = 0 => faults = 0 /\ lost = "none"
  BY <1>4, ChargeFaults
<1>7. child' = [child EXCEPT ![r] = "running"] /\ processed \subseteq processed'
  BY DEF RouteRequest, Processed
<1>8. \A q \in Request \ {r} : child'[q] = child[q]
  BY <1>7 DEF TypeOK
<1>9. PendingRequests \subseteq Request
  BY DEF TypeOK, PendingRequests, ToSet
<1>10. LockHolderPending' /\ (activeLock' \in Request => NeedsLock(activeLock'))
  BY <1>3, <1>4 DEF LockInvariant, LockKept, LockHolderPending
<1>11. LockedWhilePending'
  BY <1>3, <1>4, <1>5, <1>7, <1>9, RequestAssumption
     DEF LockInvariant, LockKept, LockedWhilePending, NeedsLock
<1>12. PendingAlive'
  BY <1>3, <1>7, <1>8, <1>9 DEF LockInvariant, LockKept, PendingAlive, TypeOK
<1>13. LockMirrored'
  BY <1>4, <1>6 DEF LockInvariant, LockKept, LockMirrored
<1>14. UnlockedToldToStop'
  BY <1>4, <1>5, <1>6, <1>8, RequestAssumption
     DEF LockInvariant, LockKept, UnlockedToldToStop, NeedsLock
<1> QED
  BY <1>3, <1>10, <1>11, <1>12, <1>13, <1>14 DEF LockKept, NeedsLock

\* Every step keeps: the holder is pending, and what is pending holds the lock.
LEMMA LockKeptStep ==
    ASSUME TypeOK, LockInvariant,
           Quiet \/ (\E r \in Request : OperationStep(r))
                 \/ (\E s \in SystemSignal : AdminVoid(s))
    PROVE  Distinct(pending)' /\ LockKept'
<1> USE DEF loop, environment
<1>0. /\ Distinct(pending) /\ LockKept /\ ReportsTrue
      /\ PendingRequests \subseteq Request
  BY DEF LockInvariant, TypeOK, PendingRequests, ToSet
<1>1. CASE Quiet
  BY <1>0, <1>1
     DEF Quiet, LockKept, LockHolderPending, LockedWhilePending, PendingAlive,
         LockMirrored, UnlockedToldToStop, PendingRequests, NeedsLock
<1>2. ASSUME NEW r \in Request, OperationStep(r) PROVE Distinct(pending)' /\ LockKept'
  <2>1. ASSUME NEW status, UNCHANGED <<activeLock, lockRow, pending, processed, faults>>,
               child' = [child EXCEPT ![r] = status], status # "running",
               r \in PendingRequests => status \in {"phase2"} \cup Outcome
        PROVE  Distinct(pending)' /\ LockKept'
    <3>1. \A q \in Request : child'[q] = IF q = r THEN status ELSE child[q]
      BY <2>1 DEF TypeOK
    <3>2. PendingRequests' = PendingRequests /\ Distinct(pending)'
      BY <1>0, <2>1 DEF PendingRequests
    <3>3. PendingAlive'
      BY <1>0, <2>1, <3>1, <3>2 DEF LockKept, PendingAlive, Outcome
    <3>4. UnlockedToldToStop'
      BY <1>0, <2>1, <3>1 DEF LockKept, UnlockedToldToStop, NeedsLock
    <3> QED
      BY <1>0, <2>1, <3>2, <3>3, <3>4
         DEF LockKept, LockHolderPending, LockedWhilePending, LockMirrored, NeedsLock
  <2>2. CASE ChildApprovesRevival(r)
    <3> DEFINE status == IF child[r] = "running" THEN "phase2" ELSE "stopping2"
    <3>1. r \in PendingRequests => child[r] = "running"
      BY <1>0, <2>2 DEF ChildApprovesRevival, LockKept, PendingAlive
    <3>2. /\ UNCHANGED <<activeLock, lockRow, pending, processed, faults>>
          /\ child' = [child EXCEPT ![r] = status]
      BY <2>2 DEF ChildApprovesRevival, ChildReports
    <3>3. /\ status # "running"
          /\ r \in PendingRequests => status \in {"phase2"} \cup Outcome
      BY <3>1
    <3> HIDE DEF status
    <3> QED
      BY <2>1, <3>2, <3>3
  <2>9. ASSUME NEW outcome \in Outcome, ChildCompletes(r, outcome)
        PROVE  Distinct(pending)' /\ LockKept'
    <3>1. /\ UNCHANGED <<activeLock, lockRow, pending, processed, faults>>
          /\ child' = [child EXCEPT ![r] = outcome]
      BY <2>9 DEF ChildCompletes, ChildReports
    <3> QED
      BY <2>1, <3>1 DEF Outcome
  <2>10. CASE ChildStops(r)
    <3>1. r \notin PendingRequests
      BY <1>0, <2>10 DEF ChildStops, LockKept, PendingAlive
    <3>2. /\ UNCHANGED <<activeLock, lockRow, pending, processed, faults>>
          /\ child' = [child EXCEPT ![r] = "cancelled"]
      BY <2>10 DEF ChildStops
    <3> QED
      BY <2>1, <3>1, <3>2
  <2>3. CASE ReceiveRequest(r)
    <3>1. PICK lost :
            /\ Charge(lost)
            /\ IF TypeOf[r] = "DEATH_CLAIM"
               THEN /\ child' = Cancelled({activeLock} \cap PendingRequests, lost)
                    /\ ReleaseLockIf(activeLock # NoRequest, lost)
                    /\ pending' = <<>>
               ELSE UNCHANGED <<child, activeLock, lockRow, pending>>
      BY <2>3 DEF ReceiveRequest
    <3>2. CASE TypeOf[r] = "DEATH_CLAIM"
      BY <1>0, <3>1, <3>2, DropAll
    <3>3. CASE TypeOf[r] # "DEATH_CLAIM"
      <4>1. UNCHANGED <<activeLock, lockRow, pending, child, processed>>
        BY <2>3, <3>1, <3>3 DEF ReceiveRequest
      <4>2. faults' = 0 => faults = 0
        BY <3>1, ChargeFaults
      <4> QED
        BY <1>0, <4>1, <4>2
           DEF LockKept, LockHolderPending, LockedWhilePending, PendingAlive,
               LockMirrored, UnlockedToldToStop, PendingRequests, NeedsLock
    <3> QED
      BY <3>2, <3>3
  <2>4. CASE RouteRequest(r)
    BY <2>4, RouteKeepsLock
  <2>5. CASE CompleteOperation(r)
    <3>1. PICK lost : ReleaseLockIf(activeLock = r, lost) /\ Charge(lost)
      BY <2>5 DEF CompleteOperation
    <3>2. child[r] # "running"
      BY <1>0, <2>5 DEF CompleteOperation, Handles, ReportsTrue, Outcome
    <3>3. /\ r \in PendingRequests /\ pending' = Without(r)
          /\ child' = child /\ processed \subseteq processed'
      BY <2>5 DEF CompleteOperation, Processed
    <3> QED
      BY <1>0, <3>1, <3>2, <3>3, DropOne
  <2>6. CASE CompleteNFR(r)
    <3>1. /\ r \in PendingRequests /\ pending' = Without(r)
          /\ UNCHANGED <<activeLock, lockRow, child, processed>>
      BY <2>6 DEF CompleteNFR
    <3>2. /\ PendingRequests' \subseteq PendingRequests
          /\ PendingRequests \subseteq PendingRequests' \cup {r}
          /\ Distinct(pending)'
      BY <1>0, <3>1, WithoutProperties DEF PendingRequests, TypeOK
    <3>3. activeLock # r
      BY <1>0, <2>6
         DEF CompleteNFR, LockKept, NeedsLock, RequiresFinancialLock, LockedType, NFRType
    <3>4. faults' = 0 => faults = 0
      BY <2>6, ChargeFaults DEF CompleteNFR
    <3> QED
      BY <1>0, <3>1, <3>2, <3>3, <3>4
         DEF LockKept, LockHolderPending, LockedWhilePending, PendingAlive,
             LockMirrored, UnlockedToldToStop, NeedsLock
  <2>7. CASE RevivalApproved(r)
    <3>1. PICK lost : ReleaseLockIf(activeLock = r, lost) /\ Charge(lost)
      BY <2>7 DEF RevivalApproved
    <3>2. child[r] # "running"
      BY <1>0, <2>7 DEF RevivalApproved, Handles, ReportsTrue
    <3>3. /\ UNCHANGED <<pending, child>> /\ PendingRequests' = PendingRequests
          /\ processed' = processed \cup {Signal("revival-approved", r)}
      BY <2>7 DEF RevivalApproved, Processed, PendingRequests
    <3>4. faults' = 0 => faults = 0 /\ lost = "none"
      BY <3>1, ChargeFaults
    <3>5. LockHolderPending' /\ (activeLock' \in Request => NeedsLock(activeLock'))
      BY <1>0, <3>1, <3>3, ReleaseEffect, RequestAssumption DEF LockKept, LockHolderPending
    <3>6. LockedWhilePending'
      BY <1>0, <3>1, <3>3, ReleaseEffect DEF LockKept, LockedWhilePending, NeedsLock
    <3>7. PendingAlive' /\ Distinct(pending)'
      BY <1>0, <3>3 DEF LockKept, PendingAlive
    <3>8. LockMirrored'
      BY <1>0, <3>1, <3>4, ReleaseEffect DEF LockKept, LockMirrored
    <3>9. UnlockedToldToStop'
      BY <1>0, <3>1, <3>2, <3>3, <3>4, ReleaseEffect
         DEF LockKept, UnlockedToldToStop, NeedsLock
    <3> QED
      BY <3>5, <3>6, <3>7, <3>8, <3>9 DEF LockKept, NeedsLock
  <2>8. CASE HandleWithdrawal(r)
    <3>1. processed \subseteq processed'
      BY <2>8 DEF HandleWithdrawal, Processed
    <3>2. CASE r \in PendingRequests
      <4>1. PICK lost : /\ child' = Cancelled({r}, lost)
                        /\ pending' = Without(r)
                        /\ ReleaseLockIf(activeLock = r, lost)
                        /\ Charge(lost)
        BY <2>8, <3>2 DEF HandleWithdrawal
      <4> QED
        BY <1>0, <3>1, <3>2, <4>1, DropOne
    <3>3. CASE r \notin PendingRequests
      <4>1. UNCHANGED <<activeLock, lockRow, pending, child, faults>>
        BY <2>8, <3>3 DEF HandleWithdrawal
      <4> QED
        BY <1>0, <3>1, <4>1
           DEF LockKept, LockHolderPending, LockedWhilePending, PendingAlive,
               LockMirrored, UnlockedToldToStop, PendingRequests, NeedsLock
    <3> QED
      BY <3>2, <3>3
  <2> QED
    BY <1>2, <2>2, <2>3, <2>4, <2>5, <2>6, <2>7, <2>8, <2>9, <2>10 DEF OperationStep
<1>3. ASSUME NEW s \in SystemSignal, AdminVoid(s) PROVE Distinct(pending)' /\ LockKept'
  BY <1>0, <1>3, DropAll DEF AdminVoid
<1> QED
  BY <1>1, <1>2, <1>3

\* The invariant holds of every reachable state.
LEMMA StepIsQuietOrNot ==
    ASSUME TypeOK, [Next]_vars
    PROVE  Quiet \/ (\E r \in Request : OperationStep(r))
                 \/ (\E s \in SystemSignal : AdminVoid(s))
BY QuietRequestStep, QuietSystemStep, QuietLoopStep DEF Next

\* The invariant holds in every reachable state.
LEMMA LockInvariantHolds == Spec => []LockInvariant
<1>1. Init => LockInvariant
  <2> SUFFICES ASSUME Init PROVE LockInvariant
    OBVIOUS
  <2>1. \A r \in Request : child[r] = "none"
    BY DEF Init
  <2>2. PendingRequests = {} /\ Distinct(pending)
    BY DEF Init, PendingRequests, ToSet, Distinct
  <2>3. \A r \in Request, kind \in {"completed", "revival-approved"} :
            Signal(kind, r) \notin inbox
    BY SignalsDiffer DEF Init
  <2> QED
    BY <2>1, <2>2, <2>3, RequestAssumption
       DEF Init, LockInvariant, HandledOnce, ReportsTrue, LockKept, LockHolderPending,
           LockedWhilePending, PendingAlive, LockMirrored, UnlockedToldToStop
<1>2. TypeOK /\ LockInvariant /\ [Next]_vars => LockInvariant'
  <2> SUFFICES ASSUME TypeOK, LockInvariant, [Next]_vars PROVE LockInvariant'
    OBVIOUS
  <2> QED
    BY StepIsQuietOrNot, HandledOnceStep, ReportsTrueStep, LockKeptStep DEF LockInvariant
<1> QED
  BY <1>1, <1>2, TypeCorrect, PTL DEF Spec
\* The lock is never left behind: its holder is always pending.
THEOREM LockNeverLeftBehind == Spec => []LockHolderPending
<1>1. LockInvariant => LockHolderPending
  BY DEF LockInvariant, LockKept
<1> QED
  BY <1>1, LockInvariantHolds, PTL

\* At most one pending request needs the lock, and it holds it.
THEOREM PendingHoldsLock == Spec => []LockedWhilePending
<1>1. LockInvariant => LockedWhilePending
  BY DEF LockInvariant, LockKept
<1> QED
  BY <1>1, LockInvariantHolds, PTL

\* Nothing waits for an operation that was asked to stop or never started.
THEOREM PendingIsAlive == Spec => []PendingAlive
<1>1. LockInvariant => PendingAlive
  BY DEF LockInvariant, LockKept
<1> QED
  BY <1>1, LockInvariantHolds, PTL

\* As long as no activity fails for good, the policy_lock row names the holder.
THEOREM RowMirrorsLock == Spec => []LockMirrored
<1>1. LockInvariant => LockMirrored
  BY DEF LockInvariant, LockKept
<1> QED
  BY <1>1, LockInvariantHolds, PTL

\* As long as no activity fails for good, an operation that needs the lock and
\* runs without it was asked to stop: preemption, withdrawal and voiding leave
\* none behind that was not.
THEOREM OthersToldToStop == Spec => []UnlockedToldToStop
<1>1. LockInvariant => UnlockedToldToStop
  BY DEF LockInvariant, LockKept
<1> QED
  BY <1>1, LockInvariantHolds, PTL

\* What a step does to the downstream workflows and the lock: at most one is
\* started, one that never was, and the lock is granted to it alone.
LEMMA StartStep ==
    ASSUME TypeOK, LockInvariant, [Next]_vars
    PROVE  \/ /\ \A q \in Request : child'[q] = "none" <=> child[q] = "none"
              /\ \A q \in Request : child'[q] = "running" => child[q] = "running"
              /\ activeLock' \in {activeLock, NoRequest}
           \/ \E r \in Request :
                /\ child[r] = "none"
                /\ child' = [child EXCEPT ![r] = "running"]
                /\ IF NeedsLock(r) THEN activeLock = NoRequest /\ activeLock' = r
                                   ELSE activeLock' = activeLock
<1> USE DEF loop, environment
<1> DEFINE Same == /\ \A q \in Request : child'[q] = "none" <=> child[q] = "none"
                   /\ \A q \in Request : child'[q] = "running" => child[q] = "running"
                   /\ activeLock' \in {activeLock, NoRequest}
<1>1. CASE Quiet
  BY <1>1 DEF Quiet
<1>2. ASSUME NEW targets, NEW lost, child' = Cancelled(targets, lost),
             activeLock' \in {activeLock, NoRequest}
      PROVE  Same
  BY <1>2, CancelledEffect
<1>3. ASSUME NEW r \in Request, OperationStep(r), ~ RouteRequest(r) PROVE Same
  <2>1. CASE ChildApprovesRevival(r) \/ ChildStops(r)
    BY <2>1 DEF ChildApprovesRevival, ChildStops, ChildReports, TypeOK
  <2>2. ASSUME NEW outcome \in Outcome, ChildCompletes(r, outcome) PROVE Same
    BY <2>2 DEF ChildCompletes, ChildReports, Outcome, TypeOK
  <2>3. CASE ReceiveRequest(r)
    <3>1. CASE TypeOf[r] = "DEATH_CLAIM"
      BY <2>3, <3>1, <1>2, ReleaseAllEffect DEF ReceiveRequest
    <3>2. CASE TypeOf[r] # "DEATH_CLAIM"
      BY <2>3, <3>2 DEF ReceiveRequest
    <3> QED
      BY <3>1, <3>2
  <2>4. CASE CompleteOperation(r)
    BY <2>4, ReleaseEffect DEF CompleteOperation
  <2>5. CASE CompleteNFR(r)
    BY <2>5 DEF CompleteNFR
  <2>6. CASE RevivalApproved(r)
    BY <2>6, ReleaseEffect DEF RevivalApproved
  <2>7. CASE HandleWithdrawal(r)
    <3>1. CASE r \in PendingRequests
      BY <2>7, <3>1, <1>2, ReleaseEffect DEF HandleWithdrawal
    <3>2. CASE r \notin PendingRequests
      BY <2>7, <3>2 DEF HandleWithdrawal
    <3> QED
      BY <3>1, <3>2
  <2> QED
    BY <1>3, <2>1, <2>2, <2>3, <2>4, <2>5, <2>6, <2>7 DEF OperationStep
<1>4. ASSUME NEW s \in SystemSignal, AdminVoid(s) PROVE Same
  BY <1>2, <1>4, ReleaseAllEffect DEF AdminVoid
<1>5. ASSUME NEW r \in Request, RouteRequest(r)
      PROVE  /\ child[r] = "none"
             /\ child' = [child EXCEPT ![r] = "running"]
             /\ IF NeedsLock(r) THEN activeLock = NoRequest /\ activeLock' = r
                                ELSE activeLock' = activeLock
  <2>1. child[r] = "none"
    BY <1>5, RoutedIsNew DEF RouteRequest, LockInvariant
  <2> QED
    BY <1>5, <2>1 DEF RouteRequest, Refused, NeedsLock
<1> QED
  BY <1>1, <1>3, <1>4, <1>5, StepIsQuietOrNot

\* No delivery pattern starts a request's downstream operation a second time.
THEOREM NeverRestarted == Spec => StartedOnce
<1>1. TypeOK /\ LockInvariant /\ [Next]_vars
        => [\A r \in Request :
                child'[r] = "running" => child[r] \in {"none", "running"}]_vars
  <2> SUFFICES ASSUME TypeOK, LockInvariant, [Next]_vars, NEW r \in Request,
                      child'[r] = "running"
               PROVE  child[r] \in {"none", "running"}
    OBVIOUS
  <2> QED
    BY StartStep DEF TypeOK
<1> QED
  BY <1>1, TypeCorrect, LockInvariantHolds, PTL DEF Spec, StartedOnce

\* The workflow, its pending list and all its handlers implement the abstract
\* lock: one holder at a time, one grant per request.
THEOREM ImplementsLock == Spec => LockImplemented
<1> DEFINE granted == {r \in Request : NeedsLock(r) /\ child[r] # "none"}
<1>1. Init => Lock!Init
  BY DEF Init, Lock!Init
<1>2. TypeOK /\ LockInvariant /\ [Next]_vars => [Lock!Next]_<<activeLock, granted>>
  <2> SUFFICES ASSUME TypeOK, LockInvariant, [Next]_vars
               PROVE  Lock!Next \/ UNCHANGED <<activeLock, granted>>
    OBVIOUS
  <2>1. CASE /\ \A q \in Request : child'[q] = "none" <=> child[q] = "none"
             /\ activeLock' \in {activeLock, NoRequest}
    <3>1. granted' = granted
      BY <2>1 DEF NeedsLock
    <3> QED
      BY <2>1, <3>1 DEF Lock!Next, Lock!Release
  <2>2. ASSUME NEW r \in Request, child[r] = "none",
               child' = [child EXCEPT ![r] = "running"],
               IF NeedsLock(r) THEN activeLock = NoRequest /\ activeLock' = r
                               ELSE activeLock' = activeLock
        PROVE  Lock!Next \/ UNCHANGED <<activeLock, granted>>
    <3>1. CASE NeedsLock(r)
      <4>1. r \notin granted /\ granted' = granted \cup {r}
        BY <2>2, <3>1 DEF NeedsLock, TypeOK
      <4> QED
        BY <2>2, <3>1, <4>1 DEF Lock!Next, Lock!Acquire
    <3>2. CASE ~ NeedsLock(r)
      <4>1. granted' = granted
        BY <2>2, <3>2 DEF NeedsLock, TypeOK
      <4> QED
        BY <2>2, <3>2, <4>1
    <3> QED
      BY <3>1, <3>2
  <2> QED
    BY <2>1, <2>2, StartStep
<1> QED
  BY <1>1, <1>2, TypeCorrect, LockInvariantHolds, PTL
     DEF Spec, LockImplemented, Lock!Spec
=============================================================================
