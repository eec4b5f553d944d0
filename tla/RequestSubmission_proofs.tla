---------------------- MODULE RequestSubmission_proofs ----------------------
(***************************************************************************)
(* Theorems about RequestSubmission, for every set of callers and keys,    *)
(* every mix of request types and every value of the bounds.               *)
(***************************************************************************)
EXTENDS RequestSubmission, SequenceLemmas, FiniteSetTheorems

-----------------------------------------------------------------------------
(* What the variables hold, call by call and entry by entry.               *)

Row == [key : Keys \cup {NoKey}, type : Types, status : RowStatus]
Call == [at : Steps, key : Keys \cup {NoKey}, type : Types \cup {""}, id : {0} \cup Ids]
State == [status : Status, previous : Status \cup {NoStatus},
          before : Status \cup {NoStatus}]
Entry == [key : DedupKeys, id : Ids]

\* The type invariant, but for the size of the table, and with the shape of what
\* the workflow keeps of each pending request.
Typed ==
    /\ rows \in Seq(Row)
    /\ call \in [Clients -> Call]
    /\ policy \in State
    /\ activeLock \in Keys \cup {NoKey} /\ granted \subseteq Keys
    /\ sent \subseteq [kind : SignalKinds, id : {0} \cup DedupKeys]
    /\ handled \subseteq sent /\ processed \subseteq DedupKeys
    /\ pending \in Seq(Entry)
    /\ child \in [DedupKeys -> ChildStatus]
    /\ over \in BOOLEAN
    /\ calls \in 0 .. MaxCalls
    /\ moves \in Nat /\ faults \in Nat /\ moves + faults \in 0 .. MaxTrouble

\* Calls that are to insert a row count against the bound like the rows do.
Insertion == {"policy", "lock", "insert"}
Inserting == {c \in Clients : call[c].at \in Insertion}
RowsCounted ==
    /\ IsFiniteSet(Inserting)
    /\ Len(rows) + Cardinality(Inserting) <= calls

\* What a call carries at each step: the type it was checked for, or its row.
CallCarries(m, n) ==
    /\ m.at \in Insertion =>
            /\ m.type \in Types
            /\ m.type \in LockedType => m.key # NoKey
    /\ m.at \in {"signal", "mark", "accepted", "withdraw", "notify"} => m.id \in 1 .. n
CallsCarry == \A c \in Clients : CallCarries(call[c], Len(rows))

\* Whoever may be granted the lock has a key.
LockedHasKey ==
    \A id \in 1 .. Len(rows) : rows[id].type \in LockedType => rows[id].key # NoKey

\* No request is pending twice, and each entry is of a row and carries its key.
DistinctKeys(s) == \A i, j \in 1 .. Len(s) : s[i].key = s[j].key => i = j
PendingRows ==
    /\ DistinctKeys(pending)
    /\ \A p \in ToSet(pending) : p.id \in 1 .. Len(rows) /\ p.key = Dedup(p.id)

\* The previous status is unset only until the policy was first moved: nothing
\* pending has moved it then.
PreviousKnown ==
    policy.previous = NoStatus =>
        \A p \in ToSet(pending) : PreRouteStatus(rows[p.id].type) = NoStatus

Shape ==
    /\ Typed /\ RowsCounted /\ CallsCarry /\ LockedHasKey /\ PendingRows
    /\ PreviousKnown

\* A child has been started of a processed key only, one that has reported came to
\* its outcome, and the lock was granted to nothing that was not processed.
Started ==
    /\ \A k \in DedupKeys : child[k] # "none" => k \in processed
    /\ \A k \in DedupKeys : Signal("completed", k) \in sent => child[k] \in Outcome
    /\ granted \subseteq processed

\* The call that inserted a row is yet to tell the workflow of it, or has done so.
RowsTold ==
    \A id \in 1 .. Len(rows) :
        \/ Signal("request", id) \in sent
        \/ \E c \in Clients : call[c].at = "signal" /\ call[c].id = id
        \/ faults > 0

\* The call that withdrew a row is yet to tell the workflow of it, or has done so.
WithdrawalsTold ==
    \A id \in 1 .. Len(rows) :
        rows[id].status = "WITHDRAWN" =>
            \/ Signal("withdrawal", id) \in sent
            \/ \E c \in Clients : call[c].at = "notify" /\ call[c].id = id
            \/ faults > 0

Decided == {"STATE_GATE_REJECTED", "COMPLETED"}
DecidedHandled ==
    \A id \in 1 .. Len(rows) :
        rows[id].status \in Decided => Signal("request", id) \in handled

\* Somebody else's completion marked the row of what is pending.
Mistaken(key) == \E k \in processed \ {key} : child[k] \in Outcome

\* A request is pending once the workflow has taken it in; its row is not rejected,
\* and completed only by mistake.
PendingTaken ==
    \A p \in ToSet(pending) :
        /\ p.key \in processed /\ Signal("request", p.id) \in handled
        /\ rows[p.id].status # "STATE_GATE_REJECTED"
        /\ rows[p.id].status = "COMPLETED" => Mistaken(p.key)

SubmissionInvariant ==
    /\ Shape /\ Started /\ RowsTold /\ WithdrawalsTold /\ DecidedHandled
    /\ PendingTaken

-----------------------------------------------------------------------------
(* Operators.                                                              *)

\* The statuses that requests lead to are statuses, and NoStatus is none.
LEMMA StatusMembers ==
    /\ NoStatus \notin Status
    /\ {"VOID", "SURRENDERED", "TERMINATED_SURRENDER", "MATURED",
        "DEATH_CLAIM_SETTLED", "FLC_CANCELLED", "CONVERTED", "ACTIVE",
        "REDUCED_PAID_UP", "PENDING_AUTO_SURRENDER", "PENDING_SURRENDER",
        "REVIVAL_PENDING", "DEATH_CLAIM_INTIMATED", "SUSPENDED"} \subseteq Status
BY DEF NoStatus, Status, Terminal

\* The types a caller may submit need the lock only if they are financial.
LEMMA LockedIsFinancial ==
    ASSUME NEW type \in Types, type \in LockedType
    PROVE  IsFinancial(type)
BY DEF Types, IsFinancial

\* The dedup key of a row is its idempotency key, or its id.
LEMMA DedupType ==
    ASSUME Typed, Len(rows) <= MaxCalls, NEW id \in 1 .. Len(rows)
    PROVE  /\ id \in Ids /\ Dedup(id) \in DedupKeys
           /\ rows[id] \in Row
           /\ rows[id].key # NoKey => Dedup(id) \in Keys
<1>1. rows \in Seq(Row) /\ Len(rows) \in Nat
  BY DEF Typed
<1>2. id \in Ids
  BY <1>1, SubmissionBounds DEF Ids
<1>3. rows[id] \in Row
  BY <1>1
<1>4. rows[id].key \in Keys \cup {NoKey}
  BY <1>3 DEF Row
<1> QED
  BY <1>2, <1>3, <1>4 DEF Dedup, DedupKeys

\* The entries of the pending list by key: at most one each.
LEMMA PositionProperties ==
    ASSUME Typed, DistinctKeys(pending), NEW key
    PROVE  /\ IsPending(key) <=> \E p \in ToSet(pending) : p.key = key
           /\ IsPending(key) => /\ PositionOf(key) \in 1 .. Len(pending)
                                /\ pending[PositionOf(key)].key = key
<1> DEFINE I == {i \in 1 .. Len(pending) : pending[i].key = key}
<1>1. PositionOf(key) = IF I # {} THEN Min(I) ELSE 0
  BY DEF PositionOf, SelectInSeq
<1>2. \A p : p \in ToSet(pending) <=> \E i \in 1 .. Len(pending) : pending[i] = p
  BY MembersAtPositions DEF Typed
<1>3. I # {} <=> \E p \in ToSet(pending) : p.key = key
  BY <1>2
<1>4. ASSUME NEW i \in I PROVE Min(I) = i
  <2>1. \A j \in I : j = i
    BY DEF DistinctKeys
  <2>2. I = {i} /\ i \in Nat
    BY <2>1
  <2> QED
    BY <2>2 DEF Min
<1>5. I # {} => Min(I) \in I
  BY <1>4
<1> QED
  BY <1>1, <1>3, <1>5 DEF IsPending

-----------------------------------------------------------------------------
(* What a step may do to the table of requests.                            *)

\* Rows are added at the end and keep their key and type.
RowsKept ==
    /\ rows' \in Seq(Row) /\ Len(rows) <= Len(rows')
    /\ \A id \in 1 .. Len(rows) :
            rows'[id].key = rows[id].key /\ rows'[id].type = rows[id].type

\* A new row is one its call has still to tell the workflow of.
RowsAdded ==
    \A id \in 1 .. Len(rows') : id \notin 1 .. Len(rows) =>
        /\ rows'[id].status = "RECEIVED"
        /\ rows'[id].type \in LockedType => rows'[id].key # NoKey
        /\ \E c \in Clients : call'[c].at = "signal" /\ call'[c].id = id

\* The four ways in which the status of a row changes.
RoutedByCall(id) ==
    /\ rows'[id].status = "ROUTED"
    /\ \E c \in Clients : call[c].at = "mark" /\ call[c].id = id
WithdrawnByCall(id) ==
    /\ rows[id].status \in {"RECEIVED", "ROUTED"} /\ rows'[id].status = "WITHDRAWN"
    /\ \E c \in Clients : call'[c].at = "notify" /\ call'[c].id = id
TakenByWorkflow(id) ==
    /\ Signal("request", id) \in handled' \ handled
    /\ \/ rows'[id].status = "ROUTED"
       \/ rows'[id].status = "STATE_GATE_REJECTED" /\ ToSet(pending') \subseteq ToSet(pending)
CompletedByWorkflow(id) ==
    /\ rows'[id].status = "COMPLETED"
    /\ \E p \in ToSet(pending) : p.id = id
    /\ ToSet(pending') \subseteq ToSet(pending)
    /\ \E key \in processed' : /\ child'[key] \in Outcome
                               /\ \A p \in ToSet(pending') : p.key # key
RowsWritten ==
    \A id \in 1 .. Len(rows) : rows'[id].status # rows[id].status =>
        \/ RoutedByCall(id) \/ WithdrawnByCall(id)
        \/ TakenByWorkflow(id) \/ CompletedByWorkflow(id)

TableStep == RowsKept /\ RowsAdded /\ RowsWritten

\* A step that leaves the table alone.
LEMMA TableUntouched ==
    ASSUME Typed, UNCHANGED rows
    PROVE  TableStep
BY DEF Typed, TableStep, RowsKept, RowsAdded, RowsWritten

\* A step that writes the status of one row.
LEMMA TableMarked ==
    ASSUME Typed, NEW id \in 1 .. Len(rows), NEW status \in RowStatus,
           Marked(id, status)
    PROVE  /\ RowsKept /\ RowsAdded
           /\ Len(rows') = Len(rows)
           /\ rows'[id].status = status
           /\ \A other \in 1 .. Len(rows) : other # id => rows'[other] = rows[other]
<1> DEFINE row == [rows[id] EXCEPT !.status = status]
<1>1. rows \in Seq(Row) /\ rows[id] \in Row
  BY DEF Typed
<1>2. /\ row \in Row /\ row.status = status
      /\ row.key = rows[id].key /\ row.type = rows[id].type
  BY <1>1 DEF Row
<1>3. rows' = [rows EXCEPT ![id] = row]
  BY <1>1 DEF Marked
<1> HIDE DEF row
<1>4. /\ rows' \in Seq(Row) /\ Len(rows') = Len(rows)
      /\ \A i \in 1 .. Len(rows) : rows'[i] = IF i = id THEN row ELSE rows[i]
  BY <1>1, <1>2, <1>3, ExceptSeq
<1>5. Len(rows) \in Nat
  BY <1>1
<1>6. RowsKept
  BY <1>2, <1>4, <1>5 DEF RowsKept
<1>7. RowsAdded
  BY <1>4 DEF RowsAdded
<1> QED
  BY <1>2, <1>4, <1>6, <1>7

\* A step that keeps the rows keeps the dedup key of each.
LEMMA DedupKept ==
    ASSUME RowsKept, NEW id \in 1 .. Len(rows)
    PROVE  Dedup(id)' = Dedup(id)
BY DEF RowsKept, Dedup

-----------------------------------------------------------------------------
(* The handlers of the endpoints.                                          *)

\* A call is taken to its next step.
CallMoves(c, m) ==
    /\ m \in Call /\ call' = [call EXCEPT ![c] = m]
    /\ CallCarries(m, Len(rows'))

Sent(kind) == [kind : kind, id : {0} \cup DedupKeys]

\* What a call does on its way: it sends nothing in the name of a child, and leaves
\* the steps that tell the workflow only by telling it or by a failure.
HandlerEffect(c, m) ==
    /\ CallMoves(c, m)
    /\ TableStep
    /\ UNCHANGED workflow
    /\ sent \subseteq sent'
    /\ sent' \ sent \subseteq Sent({"request", "withdrawal", "void"})
    /\ faults' >= faults
    /\ call[c].at = "signal" => Signal("request", call[c].id) \in sent' \/ faults' > 0
    /\ call[c].at = "notify" => Signal("withdrawal", call[c].id) \in sent' \/ faults' > 0
    /\ calls' \in 0 .. MaxCalls
    /\ moves' \in Nat /\ faults' \in Nat /\ moves' + faults' \in 0 .. MaxTrouble
    /\ RowsCounted'

\* The calls that are to insert a row, after one call has moved.
LEMMA InsertingMoves ==
    ASSUME Typed, RowsCounted, NEW c \in Clients, NEW m,
           call' = [call EXCEPT ![c] = m]
    PROVE  /\ IsFiniteSet(Inserting')
           /\ Cardinality(Inserting) \in Nat /\ Cardinality(Inserting') \in Nat
           /\ m.at \notin Insertion => Cardinality(Inserting') <= Cardinality(Inserting)
           /\ m.at \notin Insertion /\ call[c].at \in Insertion
                => Cardinality(Inserting') = Cardinality(Inserting) - 1
           /\ m.at \in Insertion /\ call[c].at \in Insertion
                => Cardinality(Inserting') = Cardinality(Inserting)
           /\ Cardinality(Inserting') <= Cardinality(Inserting) + 1
<1>1. \A d \in Clients : call'[d] = IF d = c THEN m ELSE call[d]
  BY DEF Typed
<1>2. CASE m.at \in Insertion
  <2>1. Inserting' = Inserting \cup {c}
    BY <1>1, <1>2 DEF Inserting
  <2>2. c \in Inserting <=> call[c].at \in Insertion
    BY DEF Inserting
  <2>3. IsFiniteSet(Inserting)
    BY DEF RowsCounted
  <2>4. /\ IsFiniteSet(Inserting \cup {c})
        /\ Cardinality(Inserting \cup {c}) =
                IF c \in Inserting THEN Cardinality(Inserting) ELSE Cardinality(Inserting) + 1
    BY <2>3, FS_AddElement
  <2>5. Cardinality(Inserting) \in Nat
    BY <2>3, FS_CardinalityType
  <2> QED
    BY <1>2, <2>1, <2>2, <2>4, <2>5
<1>3. CASE m.at \notin Insertion
  <2>1. Inserting' = Inserting \ {c}
    BY <1>1, <1>3 DEF Inserting
  <2>2. c \in Inserting <=> call[c].at \in Insertion
    BY DEF Inserting
  <2>3. IsFiniteSet(Inserting) /\ IsFiniteSet(Inserting \ {c})
    BY FS_RemoveElement DEF RowsCounted
  <2> QED
    BY <1>3, <2>1, <2>2, <2>3, FS_RemoveElement, FS_CardinalityType
<1> QED
  BY <1>2, <1>3

\* A call that inserts no row and is not newly begun leaves the count in bounds.
LEMMA CountKept ==
    ASSUME Typed, RowsCounted, NEW c \in Clients, NEW m,
           call' = [call EXCEPT ![c] = m],
           m.at \in Insertion => call[c].at \in Insertion,
           Len(rows') = Len(rows), calls' >= calls, calls' \in Nat
    PROVE  RowsCounted'
<1>1. Len(rows) \in Nat /\ calls \in Nat
  BY SubmissionBounds DEF Typed
<1>2. IsFiniteSet(Inserting') /\ Cardinality(Inserting') \in Nat
  BY InsertingMoves
<1>3. Cardinality(Inserting) \in Nat
  BY InsertingMoves
<1>4. Cardinality(Inserting') <= Cardinality(Inserting)
  <2>1. CASE m.at \in Insertion
    <3>1. Cardinality(Inserting') = Cardinality(Inserting)
      BY <2>1, InsertingMoves
    <3> QED
      BY <1>3, <3>1
  <2>2. CASE m.at \notin Insertion
    BY <2>2, InsertingMoves
  <2> QED
    BY <2>1, <2>2
<1> QED
  BY <1>1, <1>2, <1>3, <1>4 DEF RowsCounted

\* The table is no longer than the calls made.
LEMMA TableBounded ==
    ASSUME Shape
    PROVE  /\ rows \in Seq(Row) /\ Len(rows) \in Nat /\ Len(rows) <= MaxCalls
           /\ 1 .. Len(rows) \subseteq Ids
           /\ calls \in Nat /\ calls <= MaxCalls
           /\ moves \in Nat /\ faults \in Nat /\ moves + faults <= MaxTrouble
<1>1. IsFiniteSet(Inserting) /\ Len(rows) + Cardinality(Inserting) <= calls
  BY DEF Shape, RowsCounted
<1>2. Cardinality(Inserting) \in Nat
  BY <1>1, FS_CardinalityType
<1>3. rows \in Seq(Row) /\ Len(rows) \in Nat /\ calls <= MaxCalls /\ calls \in Nat
  BY SubmissionBounds DEF Shape, Typed
<1>4. Len(rows) <= MaxCalls
  BY <1>1, <1>2, <1>3, SubmissionBounds
<1>5. moves \in Nat /\ faults \in Nat /\ moves + faults <= MaxTrouble
  BY SubmissionBounds DEF Shape, Typed
<1> QED
  BY <1>3, <1>4, <1>5, SubmissionBounds DEF Ids

\* Whoever submits begins a call, and at the most is told of an older row.
LEMMA SubmitMoves ==
    ASSUME Shape, NEW c \in Clients, NEW s \in Submissions, Submit(c, s[1], s[2])
    PROVE  \E m \in Call : HandlerEffect(c, m)
<1> DEFINE start == [at |-> "policy", key |-> s[1], type |-> s[2], id |-> 0]
           told(id) == [NoCall EXCEPT !.at = "accepted", !.id = id]
<1>1. s[1] \in Keys \cup {NoKey} /\ s[2] \in Types
  BY SubmissionKinds
<1>2. TableStep
  BY TableUntouched DEF Submit, Shape
<1>3. rows \in Seq(Row) /\ Len(rows) \in Nat /\ Len(rows) <= MaxCalls
  BY TableBounded
<1>4. calls \in Nat /\ calls' = calls + 1 /\ calls' \in 0 .. MaxCalls
  BY SubmissionBounds DEF Submit, Began, Shape, Typed
<1>5. call[c].at \notin Insertion \cup {"signal", "notify"}
  BY DEF Submit, Free, Insertion
<1>6. CASE call' = [call EXCEPT ![c] = start]
  <2>1. start \in Call
    BY <1>1 DEF Call, Steps, Types
  <2>2. CallMoves(c, start)
    BY <1>1, <1>6, <2>1, LockedIsFinancial DEF CallMoves, CallCarries, Submit, Insertion
  <2>3. RowsCounted'
    <3>1. Cardinality(Inserting') <= Cardinality(Inserting) + 1 /\ IsFiniteSet(Inserting')
      BY <1>6, InsertingMoves DEF Shape
    <3>2. Cardinality(Inserting) \in Nat /\ Cardinality(Inserting') \in Nat
      BY <1>6, InsertingMoves DEF Shape
    <3> QED
      BY <1>3, <1>4, <3>1, <3>2 DEF Submit, RowsCounted, Shape
  <2> QED
    BY <1>2, <1>4, <1>5, <2>1, <2>2, <2>3
    DEF HandlerEffect, Submit, Shape, Typed
<1>7. CASE \E id \in WithKey(s[1]) :
             IF rows[id].type = s[2] THEN Accepts(c, id) ELSE Ends(c)
  <2>1. PICK id \in WithKey(s[1]) :
             IF rows[id].type = s[2] THEN Accepts(c, id) ELSE Ends(c)
    BY <1>7
  <2> DEFINE m == IF rows[id].type = s[2] THEN told(id) ELSE NoCall
  <2>2. id \in 1 .. Len(rows)
    BY <1>3 DEF WithKey
  <2>3. m \in Call /\ call' = [call EXCEPT ![c] = m]
    <3>1. id \in Ids
      BY <1>3, <2>2, SubmissionBounds DEF Ids
    <3>2. NoCall \in Call /\ told(id) \in Call
      BY <3>1 DEF Call, Steps, NoCall
    <3>3. call' = [call EXCEPT ![c] = m]
      BY <2>1 DEF Accepts, Ends
    <3> QED
      BY <3>2, <3>3
  <2>4. m.at \notin Insertion /\ CallCarries(m, Len(rows'))
    BY <2>2 DEF CallCarries, NoCall, Insertion, Submit
  <2>5. RowsCounted'
    <3>1. Len(rows') = Len(rows) /\ calls' >= calls /\ calls' \in Nat
      BY <1>4 DEF Submit
    <3> QED
      BY <2>3, <2>4, <3>1, CountKept DEF Shape
  <2> HIDE DEF m
  <2>6. CallMoves(c, m)
    BY <2>3, <2>4 DEF CallMoves
  <2> QED
    BY <1>2, <1>4, <1>5, <2>3, <2>5, <2>6
    DEF HandlerEffect, Submit, Shape, Typed
<1> QED
  BY <1>6, <1>7 DEF Submit

\* A call that goes on without inserting a row.
LEMMA MovesOn ==
    ASSUME Shape, NEW c \in Clients, NEW m \in Call,
           call' = [call EXCEPT ![c] = m],
           m.at \in Insertion => call[c].at \in Insertion,
           CallCarries(m, Len(rows)),
           TableStep, Len(rows') = Len(rows),
           UNCHANGED workflow,
           \/ UNCHANGED sent
           \/ \E kind \in {"request", "withdrawal", "void"}, id \in {0} \cup DedupKeys :
                Send(Signal(kind, id)),
           call[c].at = "signal" =>
                Signal("request", call[c].id) \in sent' \/ faults' > 0,
           call[c].at = "notify" =>
                Signal("withdrawal", call[c].id) \in sent' \/ faults' > 0,
           calls' = calls \/ Began,
           \/ moves' = moves /\ faults' = faults
           \/ Troubled /\ moves' = moves /\ faults' = faults + 1
           \/ Troubled /\ moves' = moves + 1 /\ faults' = faults
    PROVE  HandlerEffect(c, m)
<1>1. /\ calls' \in Nat /\ calls' >= calls /\ calls' <= MaxCalls /\ calls' \in 0 .. MaxCalls
  BY TableBounded, SubmissionBounds DEF Began
<1>2. /\ moves' \in Nat /\ faults' \in Nat /\ faults' >= faults
      /\ moves' + faults' \in 0 .. MaxTrouble
  BY TableBounded, SubmissionBounds DEF Troubled
<1>3. /\ sent \subseteq sent'
      /\ sent' \ sent \subseteq Sent({"request", "withdrawal", "void"})
  BY DEF Send, Signal, Sent
<1>4. RowsCounted'
  <2>1. Typed /\ RowsCounted
    BY DEF Shape
  <2>2. Len(rows') = Len(rows) /\ calls' >= calls /\ calls' \in Nat
    BY <1>1
  <2> QED
    BY <2>1, <2>2, CountKept
<1>5. CallMoves(c, m)
  BY DEF CallMoves
<1> QED
  BY <1>1, <1>2, <1>3, <1>4, <1>5 DEF HandlerEffect

\* What a call is at a step, and what it becomes.
LEMMA CallAt ==
    ASSUME Shape, NEW c \in Clients
    PROVE  /\ call[c] \in Call /\ CallCarries(call[c], Len(rows))
           /\ \A step \in Steps :
                /\ [call[c] EXCEPT !.at = step] \in Call
                /\ Goes(c, step) => call' = [call EXCEPT ![c] = [call[c] EXCEPT !.at = step]]
           /\ NoCall \in Call /\ CallCarries(NoCall, Len(rows))
           /\ Ends(c) => call' = [call EXCEPT ![c] = NoCall]
<1>1. call[c] \in Call
  BY DEF Shape, Typed
<1>2. CallCarries(call[c], Len(rows))
  BY DEF Shape, CallsCarry
<1>3. NoCall \in Call /\ CallCarries(NoCall, Len(rows))
  BY DEF Call, Steps, NoCall, CallCarries, Insertion
<1>4. ASSUME NEW step \in Steps
      PROVE  /\ [call[c] EXCEPT !.at = step] \in Call
             /\ Goes(c, step) => call' = [call EXCEPT ![c] = [call[c] EXCEPT !.at = step]]
  BY <1>1 DEF Call, Goes, Shape, Typed
<1> QED
  BY <1>1, <1>2, <1>3, <1>4 DEF Ends

\* A call that names a row: "accepted", "withdraw".
LEMMA CallOfRow ==
    ASSUME Shape, NEW id \in 1 .. Len(rows), NEW step \in {"accepted", "withdraw"}
    PROVE  LET m == [NoCall EXCEPT !.at = step, !.id = id]
           IN  m \in Call /\ CallCarries(m, Len(rows)) /\ m.at = step
<1>1. id \in Ids
  BY TableBounded
<1> QED
  BY <1>1 DEF Call, Steps, NoCall, CallCarries, Insertion

\* The two checks before the insert.
LEMMA ChecksMove ==
    ASSUME Shape, NEW c \in Clients, PassGate(c) \/ CheckFinancialLock(c)
    PROVE  \E m \in Call : HandlerEffect(c, m)
<1>1. PICK m \in {[call[c] EXCEPT !.at = "lock"], [call[c] EXCEPT !.at = "insert"], NoCall} :
          call' = [call EXCEPT ![c] = m]
  BY CallAt DEF PassGate, CheckFinancialLock, Steps
<1>2. call[c] \in Call /\ call[c].at \in Insertion
  BY CallAt DEF PassGate, CheckFinancialLock, Insertion
<1>3. m \in Call
  BY <1>1, CallAt DEF Steps
<1>4. CallCarries(m, Len(rows))
  <2>1. CallCarries(call[c], Len(rows)) /\ CallCarries(NoCall, Len(rows))
    BY CallAt
  <2> QED
    BY <1>1, <1>2, <2>1 DEF CallCarries, Insertion, Call
<1>5. /\ UNCHANGED rows /\ UNCHANGED sent /\ UNCHANGED workflow
      /\ calls' = calls /\ moves' = moves /\ faults' = faults
      /\ call[c].at # "signal" /\ call[c].at # "notify"
  BY DEF PassGate, CheckFinancialLock
<1>6. TableStep /\ Len(rows') = Len(rows)
  BY <1>5, TableUntouched DEF Shape
<1> QED
  BY <1>1, <1>2, <1>3, <1>4, <1>5, <1>6, MovesOn

\* The insert, for which the count has left room.
LEMMA InsertMoves ==
    ASSUME Shape, NEW c \in Clients, CreateServiceRequest(c)
    PROVE  \E m \in Call : HandlerEffect(c, m)
<1> DEFINE m == [call[c] EXCEPT !.at = "signal", !.id = Len(rows) + 1]
           row == [key |-> call[c].key, type |-> call[c].type, status |-> "RECEIVED"]
<1>1. /\ call[c] \in Call /\ call[c].at = "insert" /\ call[c].type \in Types
      /\ call[c].type \in LockedType => call[c].key # NoKey
  BY CallAt DEF CreateServiceRequest, CallCarries, Insertion
<1>2. /\ rows \in Seq(Row) /\ Len(rows) \in Nat /\ calls \in Nat /\ calls <= MaxCalls
      /\ UNCHANGED <<sent, workflow, calls, moves, faults>>
  BY TableBounded DEF CreateServiceRequest
<1>3. call' = [call EXCEPT ![c] = m]
  BY DEF CreateServiceRequest, Shape, Typed
<1>4. /\ m.at = "signal" /\ m.id = Len(rows) + 1
      /\ m.key = call[c].key /\ m.type = call[c].type
  BY <1>1 DEF Call
<1>5. row \in Row /\ row.key = call[c].key /\ row.type = call[c].type /\ row.status = "RECEIVED"
  BY <1>1 DEF Row, RowStatus, Call
<1>6. /\ rows' = Append(rows, row)
      /\ rows' \in Seq(Row) /\ Len(rows') = Len(rows) + 1
      /\ \A i \in 1 .. Len(rows) : rows'[i] = rows[i]
      /\ rows'[Len(rows) + 1] = row
  BY <1>2, <1>5, AppendMembers DEF CreateServiceRequest
<1>7. RowsCounted'
  <2>1. /\ IsFiniteSet(Inserting')
        /\ Cardinality(Inserting) \in Nat /\ Cardinality(Inserting') \in Nat
    BY <1>3, InsertingMoves DEF Shape
  <2>2. Cardinality(Inserting') = Cardinality(Inserting) - 1
    BY <1>1, <1>3, <1>4, InsertingMoves DEF Shape, Insertion
  <2>3. Len(rows) + Cardinality(Inserting) <= calls
    BY DEF Shape, RowsCounted
  <2> QED
    BY <1>2, <1>6, <2>1, <2>2, <2>3 DEF RowsCounted
<1>8. m \in Call
  <2>1. IsFiniteSet(Inserting') /\ Len(rows') + Cardinality(Inserting') <= calls'
    BY <1>7 DEF RowsCounted
  <2>2. Cardinality(Inserting') \in Nat
    BY <2>1, FS_CardinalityType
  <2>3. Len(rows) + 1 \in Ids
    BY <1>2, <1>6, <2>1, <2>2, SubmissionBounds DEF Ids
  <2> QED
    BY <1>1, <2>3 DEF Call, Steps
<1>9. CallMoves(c, m)
  BY <1>2, <1>3, <1>4, <1>6, <1>8 DEF CallMoves, CallCarries, Insertion
<1>10. TableStep
  <2>1. RowsKept
    BY <1>2, <1>6 DEF RowsKept
  <2>2. RowsAdded
    <3>1. call'[c] = m
      BY <1>3 DEF Shape, Typed
    <3>2. ASSUME NEW id \in 1 .. Len(rows'), id \notin 1 .. Len(rows)
          PROVE  id = Len(rows) + 1
      BY <1>2, <1>6, <3>2
    <3> HIDE DEF m, row
    <3> QED
      BY <1>1, <1>4, <1>5, <1>6, <3>1, <3>2 DEF RowsAdded
  <2>3. RowsWritten
    BY <1>6 DEF RowsWritten
  <2> QED
    BY <2>1, <2>2, <2>3 DEF TableStep
<1> HIDE DEF m
<1> QED
  BY <1>1, <1>2, <1>7, <1>8, <1>9, <1>10, SubmissionBounds
  DEF HandlerEffect, Shape, Typed

\* A call that stays with its row from step to step.
LEMMA StaysWithRow ==
    ASSUME Shape, NEW c \in Clients, NEW step \in {"mark", "notify"},
           call[c].at \in {"signal", "withdraw"}
    PROVE  LET m == [call[c] EXCEPT !.at = step]
           IN  /\ m \in Call /\ CallCarries(m, Len(rows)) /\ m.at = step
               /\ m.id = call[c].id /\ call[c].id \in 1 .. Len(rows)
<1>1. call[c] \in Call /\ CallCarries(call[c], Len(rows))
  BY CallAt
<1>2. call[c].id \in 1 .. Len(rows)
  BY <1>1 DEF CallCarries
<1> QED
  BY <1>1, <1>2 DEF CallCarries, Call, Steps, Insertion

\* The signals a call sends.
LEMMA SignalMoves ==
    ASSUME Shape, NEW c \in Clients,
           SignalWorkflow(c) \/ NotifyWithdrawal(c) \/ SignalVoid(c)
    PROVE  \E m \in Call : HandlerEffect(c, m)
<1>1. /\ UNCHANGED rows /\ UNCHANGED workflow
      /\ calls' = calls /\ moves' = moves /\ faults' = faults
  BY DEF SignalWorkflow, NotifyWithdrawal, SignalVoid
<1>2. TableStep /\ Len(rows') = Len(rows)
  BY <1>1, TableUntouched DEF Shape
<1>3. ASSUME SignalWorkflow(c) PROVE \E m \in Call : HandlerEffect(c, m)
  <2> DEFINE m == [call[c] EXCEPT !.at = "mark"]
  <2>1. call[c].at = "signal"
    BY <1>3 DEF SignalWorkflow
  <2>2. /\ m \in Call /\ CallCarries(m, Len(rows)) /\ m.at = "mark"
        /\ call[c].id \in {0} \cup DedupKeys
    BY <2>1, StaysWithRow, TableBounded DEF DedupKeys
  <2>3. Send(Signal("request", call[c].id)) /\ Signal("request", call[c].id) \in sent'
    BY <1>3 DEF SignalWorkflow, Send
  <2>4. call' = [call EXCEPT ![c] = m]
    BY <1>3, CallAt DEF SignalWorkflow, Steps
  <2> HIDE DEF m
  <2>5. HandlerEffect(c, m)
    BY <1>1, <1>2, <2>1, <2>2, <2>3, <2>4, MovesOn DEF Insertion
  <2> QED
    BY <2>2, <2>5
<1>4. ASSUME NotifyWithdrawal(c) PROVE \E m \in Call : HandlerEffect(c, m)
  <2>1. call[c].at = "notify" /\ call[c].id \in {0} \cup DedupKeys
    <3>1. call[c].at = "notify" /\ CallCarries(call[c], Len(rows))
      BY <1>4, CallAt DEF NotifyWithdrawal
    <3> QED
      BY <3>1, TableBounded DEF CallCarries, DedupKeys
  <2>2. /\ NoCall \in Call /\ CallCarries(NoCall, Len(rows)) /\ NoCall.at = "idle"
        /\ call' = [call EXCEPT ![c] = NoCall]
    BY <1>4, CallAt DEF NotifyWithdrawal, NoCall
  <2>3. /\ Send(Signal("withdrawal", call[c].id))
        /\ Signal("withdrawal", call[c].id) \in sent'
    BY <1>4 DEF NotifyWithdrawal, Send
  <2>4. HandlerEffect(c, NoCall)
    BY <1>1, <1>2, <2>1, <2>2, <2>3, MovesOn DEF Insertion
  <2> QED
    BY <2>2, <2>4
<1>5. ASSUME SignalVoid(c) PROVE \E m \in Call : HandlerEffect(c, m)
  <2>1. call[c].at = "void" /\ Send(Signal("void", 0))
    BY <1>5 DEF SignalVoid
  <2>2. /\ NoCall \in Call /\ CallCarries(NoCall, Len(rows)) /\ NoCall.at = "idle"
        /\ call' = [call EXCEPT ![c] = NoCall]
    BY <1>5, CallAt DEF SignalVoid, NoCall
  <2>3. HandlerEffect(c, NoCall)
    BY <1>1, <1>2, <2>1, <2>2, MovesOn DEF Insertion
  <2> QED
    BY <2>2, <2>3
<1> QED
  BY <1>3, <1>4, <1>5

\* The last step of a submission, and the failures.
LEMMA MarkMoves ==
    ASSUME Shape, NEW c \in Clients, MarkRouted(c) \/ MarkFails(c) \/ Abort(c)
    PROVE  \E m \in Call : HandlerEffect(c, m)
<1>1. /\ UNCHANGED sent /\ UNCHANGED workflow
      /\ calls' = calls /\ moves' = moves
  BY DEF MarkRouted, MarkFails, Abort
<1>2. faults \in Nat
  BY TableBounded
<1> DEFINE m == [NoCall EXCEPT !.at = "accepted", !.id = call[c].id]
<1>3. ASSUME call[c].at = "mark"
      PROVE  /\ m \in Call /\ CallCarries(m, Len(rows)) /\ m.at = "accepted"
             /\ call[c].id \in 1 .. Len(rows)
             /\ Accepts(c, call[c].id) => call' = [call EXCEPT ![c] = m]
  <2>1. CallCarries(call[c], Len(rows))
    BY CallAt
  <2>2. call[c].id \in 1 .. Len(rows)
    BY <1>3, <2>1 DEF CallCarries
  <2> QED
    BY <2>2, CallOfRow DEF Accepts
<1> HIDE DEF m
<1>4. ASSUME MarkRouted(c) PROVE \E n \in Call : HandlerEffect(c, n)
  <2>1. /\ call[c].at = "mark" /\ Accepts(c, call[c].id) /\ faults' = faults
        /\ Marked(call[c].id, "ROUTED")
    BY <1>4 DEF MarkRouted
  <2>2. /\ RowsKept /\ RowsAdded /\ Len(rows') = Len(rows)
        /\ rows'[call[c].id].status = "ROUTED"
        /\ \A other \in 1 .. Len(rows) : other # call[c].id => rows'[other] = rows[other]
    BY <1>3, <2>1, TableMarked DEF RowStatus, Shape
  <2>3. TableStep
    BY <2>1, <2>2 DEF TableStep, RowsWritten, RoutedByCall
  <2>4. HandlerEffect(c, m)
    BY <1>1, <1>3, <2>1, <2>2, <2>3, MovesOn DEF Insertion
  <2> QED
    BY <1>3, <2>1, <2>4
<1>5. ASSUME MarkFails(c) PROVE \E n \in Call : HandlerEffect(c, n)
  <2>1. /\ call[c].at = "mark" /\ Accepts(c, call[c].id) /\ UNCHANGED rows
        /\ Troubled /\ faults' = faults + 1
    BY <1>5 DEF MarkFails
  <2>2. TableStep /\ Len(rows') = Len(rows)
    BY <2>1, TableUntouched DEF Shape
  <2>3. HandlerEffect(c, m)
    BY <1>1, <1>3, <2>1, <2>2, MovesOn DEF Insertion
  <2> QED
    BY <1>3, <2>1, <2>3
<1>6. ASSUME Abort(c) PROVE \E n \in Call : HandlerEffect(c, n)
  <2>1. Troubled /\ faults' = faults + 1 /\ faults' > 0 /\ UNCHANGED rows
    BY <1>2, <1>6 DEF Abort
  <2>2. TableStep /\ Len(rows') = Len(rows)
    BY <2>1, TableUntouched DEF Shape
  <2>3. /\ NoCall \in Call /\ CallCarries(NoCall, Len(rows)) /\ NoCall.at = "idle"
        /\ call' = [call EXCEPT ![c] = NoCall]
    BY <1>6, CallAt DEF Abort, NoCall
  <2>4. HandlerEffect(c, NoCall)
    BY <1>1, <2>1, <2>2, <2>3, MovesOn DEF Insertion
  <2> QED
    BY <2>3, <2>4
<1> QED
  BY <1>4, <1>5, <1>6

\* Withdrawal and admin void, up to the signal.
LEMMA WithdrawMoves ==
    ASSUME Shape, NEW c \in Clients,
           \/ \E id \in DOMAIN rows : Withdraw(c, id)
           \/ WithdrawServiceRequest(c) \/ AdminVoidPolicy(c)
    PROVE  \E m \in Call : HandlerEffect(c, m)
<1>1. UNCHANGED sent /\ UNCHANGED workflow /\ faults' = faults
  BY DEF Withdraw, WithdrawServiceRequest, AdminVoidPolicy
<1>2. ASSUME NEW id \in DOMAIN rows, Withdraw(c, id)
      PROVE  \E m \in Call : HandlerEffect(c, m)
  <2> DEFINE m == [NoCall EXCEPT !.at = "withdraw", !.id = id]
  <2>1. id \in 1 .. Len(rows)
    BY TableBounded
  <2>2. /\ m \in Call /\ CallCarries(m, Len(rows)) /\ m.at = "withdraw"
        /\ call' = [call EXCEPT ![c] = m]
    BY <1>2, <2>1, CallOfRow DEF Withdraw
  <2> HIDE DEF m
  <2>3. /\ call[c].at # "signal" /\ call[c].at # "notify"
        /\ Began /\ moves' = moves /\ UNCHANGED rows
    BY <1>2 DEF Withdraw, Free
  <2>4. TableStep /\ Len(rows') = Len(rows)
    BY <2>3, TableUntouched DEF Shape
  <2>5. HandlerEffect(c, m)
    BY <1>1, <2>2, <2>3, <2>4, MovesOn DEF Insertion
  <2> QED
    BY <2>2, <2>5
<1>3. ASSUME WithdrawServiceRequest(c)
      PROVE  \E m \in Call : HandlerEffect(c, m)
  <2> DEFINE m == [call[c] EXCEPT !.at = "notify"]
             id == call[c].id
  <2>1. /\ call[c].at = "withdraw" /\ calls' = calls /\ moves' = moves
        /\ call' = [call EXCEPT ![c] = m]
    BY <1>3, CallAt DEF WithdrawServiceRequest, Steps
  <2>2. /\ m \in Call /\ CallCarries(m, Len(rows)) /\ m.at = "notify"
        /\ m.id = id /\ id \in 1 .. Len(rows)
    BY <2>1, StaysWithRow
  <2>3. call'[c] = m
    BY <2>1 DEF Shape, Typed
  <2> HIDE DEF m
  <2>4. TableStep /\ Len(rows') = Len(rows)
    <3>1. CASE Withdrawable(id)
      <4>1. Marked(id, "WITHDRAWN")
        BY <1>3, <3>1 DEF WithdrawServiceRequest
      <4>2. /\ RowsKept /\ RowsAdded /\ Len(rows') = Len(rows)
            /\ rows'[id].status = "WITHDRAWN"
            /\ \A other \in 1 .. Len(rows) : other # id => rows'[other] = rows[other]
        BY <2>2, <4>1, TableMarked DEF RowStatus, Shape
      <4>3. WithdrawnByCall(id)
        BY <2>2, <2>3, <3>1, <4>2 DEF WithdrawnByCall, Withdrawable
      <4> QED
        BY <4>2, <4>3 DEF TableStep, RowsWritten
    <3>2. CASE ~Withdrawable(id)
      BY <1>3, <3>2, TableUntouched DEF WithdrawServiceRequest, Shape
    <3> QED
      BY <3>1, <3>2
  <2>5. HandlerEffect(c, m)
    BY <1>1, <2>1, <2>2, <2>4, MovesOn DEF Insertion
  <2> QED
    BY <2>2, <2>5
<1>4. ASSUME AdminVoidPolicy(c) PROVE \E m \in Call : HandlerEffect(c, m)
  <2> DEFINE m == [NoCall EXCEPT !.at = "void"]
  <2>1. /\ m \in Call /\ CallCarries(m, Len(rows)) /\ m.at = "void"
        /\ call' = [call EXCEPT ![c] = m]
    BY <1>4 DEF AdminVoidPolicy, Call, NoCall, Steps, CallCarries, Insertion
  <2> HIDE DEF m
  <2>2. /\ call[c].at # "signal" /\ call[c].at # "notify" /\ Troubled
        /\ calls' = calls /\ moves' = moves + 1 /\ UNCHANGED rows
    BY <1>4 DEF AdminVoidPolicy, Free
  <2>3. TableStep /\ Len(rows') = Len(rows)
    BY <2>2, TableUntouched DEF Shape
  <2>4. HandlerEffect(c, m)
    BY <1>1, <2>1, <2>2, <2>3, MovesOn DEF Insertion
  <2> QED
    BY <2>1, <2>4
<1> QED
  BY <1>2, <1>3, <1>4

\* Every step of a handler.
LEMMA HandlerMoves ==
    ASSUME Shape, NEW c \in Clients, HandlerStep(c)
    PROVE  \E m \in Call : HandlerEffect(c, m)
<1>1. CASE \E s \in Submissions : Submit(c, s[1], s[2])
  BY <1>1, SubmitMoves
<1>2. CASE PassGate(c) \/ CheckFinancialLock(c)
  BY <1>2, ChecksMove
<1>3. CASE CreateServiceRequest(c)
  BY <1>3, InsertMoves
<1>4. CASE SignalWorkflow(c) \/ NotifyWithdrawal(c) \/ SignalVoid(c)
  BY <1>4, SignalMoves
<1>5. CASE MarkRouted(c) \/ MarkFails(c) \/ Abort(c)
  BY <1>5, MarkMoves
<1>6. CASE \/ \E id \in DOMAIN rows : Withdraw(c, id)
           \/ WithdrawServiceRequest(c) \/ AdminVoidPolicy(c)
  BY <1>6, WithdrawMoves
<1> QED
  BY <1>1, <1>2, <1>3, <1>4, <1>5, <1>6 DEF HandlerStep

-----------------------------------------------------------------------------
(* The workflow, its children and the AML flag.                            *)

\* The status is one, and the previous one is known once it has been moved.
PolicyStep ==
    policy' \in State /\ (policy' = policy \/ policy'.previous # NoStatus)

\* A child is started for a key that was not processed, and only one under way
\* comes to anything else.
Underway == {"running", "stopping"}
MovesOnly(k) == child[k] \in Underway /\ child'[k] # "running"
ChildStep ==
    /\ child' \in [DedupKeys -> ChildStatus]
    /\ \A k \in DedupKeys :
            \/ child'[k] = child[k] \/ MovesOnly(k)
            \/ k \notin processed /\ k \in processed' /\ child'[k] = "running"

\* The lock is kept, let go, or taken for a key that was not processed.
LockStep ==
    \/ activeLock' = activeLock /\ granted' = granted
    \/ activeLock' = NoKey /\ granted' = granted
    \/ \E key \in Keys \cap processed' :
            /\ activeLock = NoKey /\ key \notin processed
            /\ activeLock' = key /\ granted' = granted \cup {key}

\* What is pending was so before, or is a request the workflow takes in.
TakenEntry(p) ==
    /\ p.id \in 1 .. Len(rows) /\ p.key = Dedup(p.id)
    /\ p.key \in processed' /\ Signal("request", p.id) \in handled'
    /\ rows'[p.id].status = "ROUTED"
    /\ PreRouteStatus(rows[p.id].type) = NoStatus \/ policy'.previous # NoStatus
PendingStep ==
    /\ pending' \in Seq(Entry) /\ DistinctKeys(pending')
    /\ \A p \in ToSet(pending') : p \in ToSet(pending) \/ TakenEntry(p)

WorkflowEffect ==
    /\ PolicyStep /\ ChildStep /\ LockStep /\ PendingStep /\ TableStep
    /\ Len(rows') = Len(rows)
    /\ sent \subseteq sent' /\ sent' \ sent \subseteq Sent({"completed"})
    /\ \A k \in DedupKeys :
            Signal("completed", k) \in sent' \ sent => child'[k] \in Outcome
    /\ handled \subseteq handled' /\ handled' \subseteq sent'
    /\ processed \subseteq processed' /\ processed' \subseteq DedupKeys
    /\ over' \in BOOLEAN
    /\ call' = call /\ calls' = calls /\ faults' = faults
    /\ moves' \in Nat /\ moves' + faults' \in 0 .. MaxTrouble

\* A workflow step handles one signal and leaves the callers alone.
LEMMA HandlesEffect ==
    ASSUME Shape, NEW kind, NEW id, Handles(Signal(kind, id))
    PROVE  /\ UNCHANGED sent
           /\ Signal(kind, id) \in handled' /\ Signal(kind, id) \notin handled
           /\ Signal(kind, id) \in sent
           /\ handled \subseteq handled' /\ handled' \subseteq sent'
           /\ call' = call /\ calls' = calls /\ faults' = faults
           /\ moves' \in Nat /\ moves' + faults' \in 0 .. MaxTrouble
BY DEF Handles, Shape, Typed

\* Cancelling children asks the running ones to stop.
LEMMA CancelledStep ==
    ASSUME Typed, NEW keys
    PROVE  /\ Cancelled(keys) \in [DedupKeys -> ChildStatus]
           /\ \A k \in DedupKeys :
                \/ Cancelled(keys)[k] = child[k]
                \/ child[k] = "running" /\ Cancelled(keys)[k] = "stopping"
BY DEF Typed, Cancelled, ChildStatus

\* What a death notification does before anything else.
LEMMA PreemptionStep ==
    ASSUME Shape, NEW id
    PROVE  /\ ChildrenAfter(id) \in [DedupKeys -> ChildStatus]
           /\ \A k \in DedupKeys :
                \/ ChildrenAfter(id)[k] = child[k]
                \/ child[k] = "running" /\ ChildrenAfter(id)[k] = "stopping"
           /\ LockAfter(id) = activeLock \/ LockAfter(id) = NoKey
           /\ Keep(id) \in Seq(Entry) /\ DistinctKeys(Keep(id))
           /\ ToSet(Keep(id)) \subseteq ToSet(pending)
<1>1. Typed /\ DistinctKeys(pending)
  BY DEF Shape, PendingRows
<1>2. child \in [DedupKeys -> ChildStatus] /\ pending \in Seq(Entry)
  BY <1>1 DEF Typed
<1>3. <<>> \in Seq(Entry) /\ Len(<<>>) = 0
  OBVIOUS
<1>4. DistinctKeys(<<>>) /\ ToSet(<<>>) = {}
  BY <1>3 DEF DistinctKeys, ToSet
<1>5. Keep(id) = pending \/ Keep(id) = <<>>
  BY DEF Keep
<1>6. /\ Keep(id) \in Seq(Entry) /\ DistinctKeys(Keep(id))
      /\ ToSet(Keep(id)) \subseteq ToSet(pending)
  BY <1>1, <1>2, <1>3, <1>4, <1>5
<1>7. ChildrenAfter(id) = child \/ ChildrenAfter(id) = Cancelled({activeLock})
  BY DEF ChildrenAfter
<1> QED
  BY <1>1, <1>2, <1>6, <1>7, CancelledStep DEF LockAfter

\* Taking an entry off the pending list.
LEMMA DropEntry ==
    ASSUME Shape, NEW key, IsPending(key)
    PROVE  LET i == PositionOf(key)
               rest == RemoveAt(pending, i)
           IN  /\ rest \in Seq(Entry) /\ DistinctKeys(rest)
               /\ ToSet(rest) \subseteq ToSet(pending)
               /\ \A p \in ToSet(rest) : p.key # key
               /\ i \in 1 .. Len(pending) /\ pending[i] \in ToSet(pending)
               /\ pending[i].key = key
<1> DEFINE i == PositionOf(key)
           rest == RemoveAt(pending, i)
<1>1. Typed /\ DistinctKeys(pending) /\ pending \in Seq(Entry) /\ Len(pending) \in Nat
  BY DEF Shape, PendingRows, Typed
<1>2. i \in 1 .. Len(pending) /\ pending[i].key = key
  BY <1>1, PositionProperties
<1> HIDE DEF i
<1>3. /\ rest \in Seq(Entry) /\ Len(rest) = Len(pending) - 1
      /\ \A j \in 1 .. Len(pending) - 1 :
            rest[j] = IF j < i THEN pending[j] ELSE pending[j + 1]
  BY <1>1, <1>2, RemoveAtProperties
<1>4. /\ ToSet(rest) \subseteq ToSet(pending)
      /\ \A p \in ToSet(rest) : \E j \in 1 .. Len(pending) : j # i /\ pending[j] = p
  BY <1>1, <1>2, RemoveAtMembers
<1> HIDE DEF rest
<1>5. DistinctKeys(rest)
  <2>1. SUFFICES ASSUME NEW j \in 1 .. Len(rest), NEW k \in 1 .. Len(rest),
                        rest[j].key = rest[k].key
                 PROVE  j = k
    BY DEF DistinctKeys
  <2> DEFINE jj == IF j < i THEN j ELSE j + 1
             kk == IF k < i THEN k ELSE k + 1
  <2>2. jj \in 1 .. Len(pending) /\ kk \in 1 .. Len(pending)
    BY <1>1, <1>2, <1>3
  <2>3. rest[j] = pending[jj] /\ rest[k] = pending[kk]
    BY <1>1, <1>3
  <2>4. jj = kk
    BY <1>1, <2>1, <2>2, <2>3 DEF DistinctKeys
  <2> QED
    BY <1>1, <1>2, <2>4
<1>6. \A p \in ToSet(rest) : p.key # key
  BY <1>1, <1>2, <1>4 DEF DistinctKeys
<1>7. pending[i] \in ToSet(pending)
  BY <1>1, <1>2, MembersAtPositions
<1> QED
  BY <1>2, <1>3, <1>4, <1>5, <1>6, <1>7 DEF i, rest

\* Adding an entry whose key is not there.
LEMMA AddEntry ==
    ASSUME NEW s \in Seq(Entry), DistinctKeys(s), NEW p \in Entry,
           \A q \in ToSet(s) : q.key # p.key
    PROVE  /\ Append(s, p) \in Seq(Entry) /\ DistinctKeys(Append(s, p))
           /\ ToSet(Append(s, p)) = ToSet(s) \cup {p}
<1> DEFINE more == Append(s, p)
<1>1. /\ more \in Seq(Entry) /\ Len(more) = Len(s) + 1 /\ Len(s) \in Nat
      /\ \A i \in 1 .. Len(s) : more[i] = s[i]
      /\ more[Len(s) + 1] = p
      /\ ToSet(more) = ToSet(s) \cup {p}
  BY AppendMembers
<1>2. \A i \in 1 .. Len(s) : s[i].key # p.key
  BY MembersAtPositions
<1> HIDE DEF more
<1>3. DistinctKeys(more)
  <2>1. SUFFICES ASSUME NEW j \in 1 .. Len(more), NEW k \in 1 .. Len(more),
                        more[j].key = more[k].key
                 PROVE  j = k
    BY DEF DistinctKeys
  <2>2. CASE j = Len(s) + 1 \/ k = Len(s) + 1
    BY <1>1, <1>2, <2>1, <2>2
  <2>3. CASE j \in 1 .. Len(s) /\ k \in 1 .. Len(s)
    BY <1>1, <2>1, <2>3 DEF DistinctKeys
  <2> QED
    BY <1>1, <2>2, <2>3
<1> QED
  BY <1>1, <1>3 DEF more

\* What a step leaves alone.
LEMMA LeftAlone ==
    ASSUME Shape
    PROVE  /\ policy' = policy => PolicyStep
           /\ child' = child => ChildStep
           /\ activeLock' = activeLock /\ granted' = granted => LockStep
           /\ activeLock' = NoKey /\ granted' = granted => LockStep
           /\ pending' = pending => PendingStep
           /\ rows' = rows => TableStep /\ Len(rows') = Len(rows)
           /\ sent' = sent => /\ sent \subseteq sent'
                              /\ sent' \ sent \subseteq Sent({"completed"})
                              /\ \A k \in DedupKeys : Signal("completed", k) \in sent' \ sent
                                     => child'[k] \in Outcome
<1>1. policy' = policy => PolicyStep
  BY DEF PolicyStep, Shape, Typed
<1>2. child' = child => ChildStep
  BY DEF ChildStep, Shape, Typed
<1>3. (activeLock' = activeLock \/ activeLock' = NoKey) /\ granted' = granted => LockStep
  BY DEF LockStep
<1>4. pending' = pending => PendingStep
  BY DEF PendingStep, Shape, Typed, PendingRows
<1>5. rows' = rows => TableStep /\ Len(rows') = Len(rows)
  BY TableUntouched DEF Shape
<1> QED
  BY <1>1, <1>2, <1>3, <1>4, <1>5

\* The status moves to a status.
LEMMA TransitionsStep ==
    ASSUME Shape, NEW status \in Status
    PROVE  Transitions(status) \in State /\ Transitions(status).previous # NoStatus
BY StatusMembers DEF Transitions, State, Shape, Typed

\* Signals that are dropped, and completions nothing waits for.
LEMMA DroppedEffect ==
    ASSUME Shape,
           \/ \E id \in DOMAIN rows : WaitForDecodable(id) \/ DropDuplicate(id)
           \/ \E key \in DedupKeys : IgnoreCompletion(key)
    PROVE  WorkflowEffect
<1>1. /\ policy' = policy /\ child' = child /\ pending' = pending /\ rows' = rows
      /\ activeLock' = activeLock /\ granted' = granted
  BY DEF WaitForDecodable, DropDuplicate, IgnoreCompletion
<1>2. PICK kind \in SignalKinds, id \in {0} \cup DedupKeys \cup DOMAIN rows :
          Handles(Signal(kind, id))
  BY DEF WaitForDecodable, DropDuplicate, IgnoreCompletion, Receives, SignalKinds
<1>3. /\ processed \subseteq processed' /\ processed' \subseteq DedupKeys
      /\ over' \in BOOLEAN
  BY DEF WaitForDecodable, DropDuplicate, IgnoreCompletion, Shape, Typed
<1>4. PolicyStep /\ ChildStep /\ LockStep /\ PendingStep /\ TableStep /\ Len(rows') = Len(rows)
  BY <1>1, LeftAlone
<1>5. /\ sent' = sent
      /\ handled \subseteq handled' /\ handled' \subseteq sent'
      /\ call' = call /\ calls' = calls /\ faults' = faults
      /\ moves' \in Nat /\ moves' + faults' \in 0 .. MaxTrouble
  BY <1>2, HandlesEffect
<1> QED
  BY <1>3, <1>4, <1>5, LeftAlone DEF WorkflowEffect

\* A request that is stopped or rejected; a death claim has preempted first.
LEMMA RefusedEffect ==
    ASSUME Shape, NEW id \in DOMAIN rows, StopSuspended(id) \/ RejectRequest(id)
    PROVE  WorkflowEffect
<1>1. /\ policy' = policy /\ granted' = granted /\ over' = over
      /\ activeLock' = LockAfter(id) /\ pending' = Keep(id) /\ child' = ChildrenAfter(id)
      /\ Handles(Signal("request", id)) /\ Dedup(id) \notin processed
  BY DEF StopSuspended, RejectRequest, NewRequest, Receives
<1>2. id \in 1 .. Len(rows)
  BY TableBounded
<1>3. Dedup(id) \in DedupKeys
  BY <1>2, TableBounded, DedupType DEF Shape
<1>4. PolicyStep
  BY <1>1, LeftAlone
<1>5. ChildStep
  BY <1>1, PreemptionStep DEF ChildStep, MovesOnly, Underway
<1>6. LockStep
  BY <1>1, PreemptionStep, LeftAlone
<1>7. PendingStep /\ ToSet(pending') \subseteq ToSet(pending)
  BY <1>1, PreemptionStep DEF PendingStep
<1>8. /\ sent' = sent
      /\ Signal("request", id) \in handled' /\ Signal("request", id) \notin handled
      /\ handled \subseteq handled' /\ handled' \subseteq sent'
      /\ call' = call /\ calls' = calls /\ faults' = faults
      /\ moves' \in Nat /\ moves' + faults' \in 0 .. MaxTrouble
  BY <1>1, HandlesEffect
<1>9. TableStep /\ Len(rows') = Len(rows)
  <2>1. CASE UNCHANGED rows
    BY <2>1, LeftAlone
  <2>2. CASE Marked(id, "STATE_GATE_REJECTED")
    <3>1. /\ RowsKept /\ RowsAdded /\ Len(rows') = Len(rows)
          /\ rows'[id].status = "STATE_GATE_REJECTED"
          /\ \A other \in 1 .. Len(rows) : other # id => rows'[other] = rows[other]
      BY <1>2, <2>2, TableMarked DEF RowStatus, Shape
    <3>2. TakenByWorkflow(id)
      BY <1>7, <1>8, <3>1 DEF TakenByWorkflow
    <3> QED
      BY <3>1, <3>2 DEF TableStep, RowsWritten
  <2> QED
    BY <2>1, <2>2 DEF StopSuspended, RejectRequest
<1>10. /\ processed \subseteq processed' /\ processed' \subseteq DedupKeys
       /\ over' \in BOOLEAN
  BY <1>1, <1>3 DEF StopSuspended, RejectRequest, Shape, Typed
<1> QED
  BY <1>4, <1>5, <1>6, <1>7, <1>8, <1>9, <1>10, LeftAlone DEF WorkflowEffect

\* A request that is routed: new, with a key of its own, and alone if it needs the
\* lock.
LEMMA RoutedEffect ==
    ASSUME SubmissionInvariant, NEW id \in DOMAIN rows, RouteRequest(id)
    PROVE  WorkflowEffect
<1> DEFINE entry == [key |-> Dedup(id), id |-> id]
<1> USE DEF SubmissionInvariant
<1>1. /\ Handles(Signal("request", id)) /\ Dedup(id) \notin processed
      /\ child' = [ChildrenAfter(id) EXCEPT ![Dedup(id)] = "running"]
      /\ pending' = Append(Keep(id), entry)
      /\ Marked(id, "ROUTED") /\ processed' = processed \cup {Dedup(id)} /\ over' = over
      /\ ~Refused(id) /\ AcquireFinancialLock(id)
  BY DEF RouteRequest, NewRequest, Receives
<1>2. id \in 1 .. Len(rows)
  BY TableBounded
<1>3. /\ Dedup(id) \in DedupKeys /\ id \in Ids
      /\ rows[id] \in Row
      /\ rows[id].key # NoKey => Dedup(id) \in Keys
  BY <1>2, TableBounded, DedupType DEF Shape
<1>4. policy \in State
  BY DEF Shape, Typed
<1>5. /\ PolicyStep
      /\ PreRouteStatus(rows[id].type) = NoStatus \/ policy'.previous # NoStatus
  <2> DEFINE status == PreRouteStatus(rows[id].type)
  <2>1. status \in Status \cup {NoStatus}
    BY StatusMembers DEF PreRouteStatus
  <2>2. policy' = IF status = NoStatus THEN policy ELSE Transitions(status)
    BY DEF RouteRequest
  <2> HIDE DEF status
  <2>3. CASE status = NoStatus
    BY <2>2, <2>3, LeftAlone DEF status
  <2>4. CASE status # NoStatus
    BY <2>1, <2>2, <2>4, TransitionsStep DEF PolicyStep
  <2> QED
    BY <2>3, <2>4
<1>6. ChildStep
  <2>1. /\ ChildrenAfter(id) \in [DedupKeys -> ChildStatus]
        /\ \A k \in DedupKeys :
                \/ ChildrenAfter(id)[k] = child[k]
                \/ child[k] = "running" /\ ChildrenAfter(id)[k] = "stopping"
    BY PreemptionStep
  <2>2. child' \in [DedupKeys -> ChildStatus]
    BY <1>1, <2>1 DEF ChildStatus
  <2>3. \A k \in DedupKeys :
            child'[k] = IF k = Dedup(id) THEN "running" ELSE ChildrenAfter(id)[k]
    BY <1>1, <2>1
  <2> QED
    BY <1>1, <2>1, <2>2, <2>3 DEF ChildStep, MovesOnly, Underway
<1>7. LockStep
  <2>1. CASE rows[id].type \in LockedType
    <3>1. Dedup(id) \in Keys
      BY <1>2, <1>3, <2>1 DEF Shape, LockedHasKey
    <3>2. activeLock = NoKey
      BY <1>1, <2>1 DEF Refused, RequiresFinancialLock
    <3>3. activeLock' = Dedup(id) /\ granted' = granted \cup {Dedup(id)}
      BY <1>1, <2>1 DEF AcquireFinancialLock, RequiresFinancialLock
    <3> QED
      BY <1>1, <3>1, <3>2, <3>3 DEF LockStep
  <2>2. CASE rows[id].type \notin LockedType
    <3>1. activeLock' = LockAfter(id) /\ granted' = granted
      BY <1>1, <2>2 DEF AcquireFinancialLock, RequiresFinancialLock
    <3> QED
      BY <3>1, PreemptionStep, LeftAlone
  <2> QED
    BY <2>1, <2>2
<1>8. /\ sent' = sent
      /\ Signal("request", id) \in handled' /\ Signal("request", id) \notin handled
      /\ handled \subseteq handled' /\ handled' \subseteq sent'
      /\ call' = call /\ calls' = calls /\ faults' = faults
      /\ moves' \in Nat /\ moves' + faults' \in 0 .. MaxTrouble
  BY <1>1, HandlesEffect
<1>9. /\ RowsKept /\ RowsAdded /\ Len(rows') = Len(rows)
      /\ rows'[id].status = "ROUTED"
      /\ \A other \in 1 .. Len(rows) : other # id => rows'[other] = rows[other]
  BY <1>1, <1>2, TableMarked DEF RowStatus, Shape
<1>10. TableStep
  <2>1. TakenByWorkflow(id)
    BY <1>8, <1>9 DEF TakenByWorkflow
  <2> QED
    BY <1>9, <2>1 DEF TableStep, RowsWritten
<1>11. PendingStep
  <2>1. entry \in Entry /\ entry.key = Dedup(id) /\ entry.id = id
    BY <1>3 DEF Entry
  <2>2. /\ Keep(id) \in Seq(Entry) /\ DistinctKeys(Keep(id))
        /\ ToSet(Keep(id)) \subseteq ToSet(pending)
    BY PreemptionStep
  <2>3. \A q \in ToSet(Keep(id)) : q.key # entry.key
    BY <1>1, <2>1, <2>2 DEF PendingTaken
  <2> HIDE DEF entry
  <2>4. /\ pending' \in Seq(Entry) /\ DistinctKeys(pending')
        /\ ToSet(pending') = ToSet(Keep(id)) \cup {entry}
    BY <1>1, <2>1, <2>2, <2>3, AddEntry
  <2>5. TakenEntry(entry)
    BY <1>1, <1>2, <1>5, <1>8, <1>9, <2>1 DEF TakenEntry
  <2> QED
    BY <2>2, <2>4, <2>5 DEF PendingStep
<1>12. /\ processed \subseteq processed' /\ processed' \subseteq DedupKeys
       /\ over' \in BOOLEAN
  BY <1>1, <1>3 DEF Shape, Typed
<1> QED
  BY <1>5, <1>6, <1>7, <1>8, <1>9, <1>10, <1>11, <1>12, LeftAlone DEF WorkflowEffect

\* The status an outcome leads to is a status, if the one before was.
LEMMA CompletionStatusType ==
    ASSUME NEW type, NEW outcome, NEW previous \in Status \cup {NoStatus}
    PROVE  CompletionStatus(type, outcome, FALSE, previous) \in Status \cup {NoStatus}
<1>1. {"SURRENDERED", "TERMINATED_SURRENDER", "ACTIVE", "VOID", "CONVERTED",
       "FLC_CANCELLED", "DEATH_CLAIM_SETTLED", "MATURED"} \subseteq Status
  BY StatusMembers
<1> HIDE DEF NoStatus
<1> QED
  BY <1>1 DEF CompletionStatus

\* A completion, which marks the row behind its own.
LEMMA CompletedEffect ==
    ASSUME SubmissionInvariant, NEW key \in DedupKeys, CompleteOperation(key)
    PROVE  WorkflowEffect
<1> DEFINE i == PositionOf(key)
           marked == MarkedBy(i)
           status == CompletionStatus(TypeOfKey(key), child[key], FALSE, policy.previous)
<1> USE DEF SubmissionInvariant
<1>1. /\ Handles(Signal("completed", key)) /\ IsPending(key)
      /\ Marked(marked, "COMPLETED") /\ pending' = RemoveAt(pending, i)
      /\ activeLock' = Freed(key) /\ processed' = processed \cup {key}
      /\ child' = child /\ granted' = granted
  BY DEF CompleteOperation
<1>2. /\ policy' = IF status \in {NoStatus, policy.status} THEN policy
                   ELSE Transitions(status)
      /\ over' = CompletionIsTerminal(TypeOfKey(key), child[key], FALSE)
  BY DEF CompleteOperation
<1>3. /\ sent' = sent
      /\ Signal("completed", key) \in sent
      /\ handled \subseteq handled' /\ handled' \subseteq sent'
      /\ call' = call /\ calls' = calls /\ faults' = faults
      /\ moves' \in Nat /\ moves' + faults' \in 0 .. MaxTrouble
  BY <1>1, HandlesEffect
<1>4. PolicyStep
  <2>1. status \in Status \cup {NoStatus}
    BY CompletionStatusType DEF Shape, Typed, State
  <2> HIDE DEF status
  <2>2. CASE status \in {NoStatus, policy.status}
    BY <1>2, <2>2, LeftAlone
  <2>3. CASE status \notin {NoStatus, policy.status}
    BY <1>2, <2>1, <2>3, TransitionsStep DEF PolicyStep
  <2> QED
    BY <2>2, <2>3
<1>5. ChildStep /\ LockStep
  BY <1>1, LeftAlone DEF Freed
<1>6. /\ pending' \in Seq(Entry) /\ DistinctKeys(pending')
      /\ ToSet(pending') \subseteq ToSet(pending)
      /\ \A p \in ToSet(pending') : p.key # key
      /\ i \in 1 .. Len(pending)
  BY <1>1, DropEntry
<1>7. PendingStep
  BY <1>6 DEF PendingStep
<1>8. \E p \in ToSet(pending) : p.id = marked
  <2>1. (IF i < Len(pending) THEN i + 1 ELSE i) \in 1 .. Len(pending)
    BY <1>6
  <2>2. pending \in Seq(Entry)
    BY DEF Shape, Typed
  <2> QED
    BY <2>1, <2>2, MembersAtPositions DEF MarkedBy
<1>9. TableStep /\ Len(rows') = Len(rows)
  <2>1. marked \in 1 .. Len(rows)
    BY <1>8 DEF Shape, PendingRows
  <2> HIDE DEF marked, i
  <2>2. /\ RowsKept /\ RowsAdded /\ Len(rows') = Len(rows)
        /\ rows'[marked].status = "COMPLETED"
        /\ \A other \in 1 .. Len(rows) : other # marked => rows'[other] = rows[other]
    BY <1>1, <2>1, TableMarked DEF RowStatus, Shape
  <2>3. child'[key] \in Outcome
    BY <1>1, <1>3 DEF Started
  <2>4. CompletedByWorkflow(marked)
    BY <1>1, <1>6, <1>8, <2>2, <2>3 DEF CompletedByWorkflow
  <2> QED
    BY <2>2, <2>4 DEF TableStep, RowsWritten
<1>10. /\ processed \subseteq processed' /\ processed' \subseteq DedupKeys
       /\ over' \in BOOLEAN
  BY <1>1, <1>2 DEF Shape, Typed, CompletionIsTerminal
<1> QED
  BY <1>3, <1>4, <1>5, <1>7, <1>9, <1>10, LeftAlone DEF WorkflowEffect

\* A withdrawal, which takes the policy back where the request found it.
LEMMA WithdrawalEffect ==
    ASSUME Shape, NEW id \in DOMAIN rows, HandleWithdrawal(id)
    PROVE  WorkflowEffect
<1> DEFINE key == Dedup(id)
           i == PositionOf(key)
<1>1. /\ Handles(Signal("withdrawal", id))
      /\ rows' = rows /\ processed' = processed /\ granted' = granted /\ over' = over
  BY DEF HandleWithdrawal
<1>2. CASE ~IsPending(key)
  <2>1. child' = child /\ policy' = policy /\ pending' = pending /\ activeLock' = activeLock
    BY <1>2 DEF HandleWithdrawal
  <2> QED
    BY <1>1, <2>1, LeftAlone, HandlesEffect DEF WorkflowEffect, Shape, Typed
<1>3. CASE IsPending(key)
  <2>1. /\ child' = Cancelled({key}) /\ activeLock' = Freed(key)
        /\ pending' = RemoveAt(pending, i)
        /\ policy' = IF PreRouteStatus(TypeOfKey(key)) = policy.status
                     THEN Transitions(policy.previous) ELSE policy
    BY <1>3 DEF HandleWithdrawal
  <2>2. /\ pending' \in Seq(Entry) /\ DistinctKeys(pending')
        /\ ToSet(pending') \subseteq ToSet(pending)
        /\ pending[i] \in ToSet(pending)
    BY <1>3, <2>1, DropEntry
  <2>3. PendingStep
    BY <2>2 DEF PendingStep
  <2>4. PolicyStep
    <3>1. CASE PreRouteStatus(TypeOfKey(key)) = policy.status
      <4>1. policy.status # NoStatus /\ policy.previous \in Status \cup {NoStatus}
        BY StatusMembers DEF Shape, Typed, State
      <4>2. policy.previous # NoStatus
        BY <2>2, <3>1, <4>1 DEF Shape, PreviousKnown, TypeOfKey
      <4> QED
        BY <2>1, <3>1, <4>1, <4>2, TransitionsStep DEF PolicyStep
    <3>2. CASE PreRouteStatus(TypeOfKey(key)) # policy.status
      BY <2>1, <3>2, LeftAlone
    <3> QED
      BY <3>1, <3>2
  <2>5. ChildStep
    BY <2>1, CancelledStep DEF ChildStep, MovesOnly, Underway, Shape
  <2>6. LockStep
    BY <1>1, <2>1, LeftAlone DEF Freed
  <2>7. /\ TableStep /\ Len(rows') = Len(rows)
        /\ processed' \subseteq DedupKeys /\ over' \in BOOLEAN
    BY <1>1, LeftAlone DEF Shape, Typed
  <2>8. /\ sent' = sent
        /\ handled \subseteq handled' /\ handled' \subseteq sent'
        /\ call' = call /\ calls' = calls /\ faults' = faults
        /\ moves' \in Nat /\ moves' + faults' \in 0 .. MaxTrouble
    BY <1>1, HandlesEffect
  <2> QED
    BY <1>1, <2>3, <2>4, <2>5, <2>6, <2>7, <2>8, LeftAlone DEF WorkflowEffect
<1> QED
  BY <1>2, <1>3

\* The void of the administrator.
LEMMA VoidEffect ==
    ASSUME Shape, HandleAdminVoid
    PROVE  WorkflowEffect
<1>1. /\ Handles(Signal("void", 0)) /\ child' = Cancelled(PendingKeys)
      /\ pending' = <<>> /\ activeLock' = NoKey /\ policy' = Transitions("VOID")
      /\ over' = TRUE
      /\ rows' = rows /\ processed' = processed /\ granted' = granted
  BY DEF HandleAdminVoid
<1>2. PolicyStep
  BY <1>1, TransitionsStep, StatusMembers DEF PolicyStep
<1>3. ChildStep
  BY <1>1, CancelledStep DEF ChildStep, MovesOnly, Underway, Shape
<1>4. PendingStep
  <2>1. <<>> \in Seq(Entry) /\ Len(<<>>) = 0
    OBVIOUS
  <2>2. DistinctKeys(<<>>) /\ ToSet(<<>>) = {}
    BY <2>1 DEF DistinctKeys, ToSet
  <2> QED
    BY <1>1, <2>1, <2>2 DEF PendingStep
<1>5. LockStep /\ TableStep /\ Len(rows') = Len(rows)
  BY <1>1, LeftAlone
<1>6. /\ sent' = sent
      /\ handled \subseteq handled' /\ handled' \subseteq sent'
      /\ call' = call /\ calls' = calls /\ faults' = faults
      /\ moves' \in Nat /\ moves' + faults' \in 0 .. MaxTrouble
  BY <1>1, HandlesEffect
<1>7. processed' = processed /\ processed' \subseteq DedupKeys /\ over' \in BOOLEAN
  BY <1>1 DEF Shape, Typed
<1> QED
  BY <1>2, <1>3, <1>4, <1>5, <1>6, <1>7, LeftAlone DEF WorkflowEffect

\* A child that comes to its outcome.
LEMMA ReportEffect ==
    ASSUME Shape, NEW key \in DedupKeys, NEW outcome \in Reports,
           ChildReports(key, outcome)
    PROVE  WorkflowEffect
<1>1. /\ child[key] \in Underway /\ child' = [child EXCEPT ![key] = outcome]
      /\ sent' = sent \cup {Signal("completed", key)}
      /\ rows' = rows /\ call' = call /\ policy' = policy /\ activeLock' = activeLock
      /\ handled' = handled /\ processed' = processed /\ pending' = pending
      /\ granted' = granted /\ over' = over /\ calls' = calls /\ moves' = moves
      /\ faults' = faults
  BY DEF ChildReports, Send, Underway
<1>2. outcome \in Outcome /\ outcome # "running"
  BY SubmissionBounds DEF Outcome
<1>3. ChildStep
  BY <1>1, <1>2 DEF ChildStep, MovesOnly, ChildStatus, Shape, Typed
<1>4. PolicyStep /\ LockStep /\ PendingStep /\ TableStep /\ Len(rows') = Len(rows)
  BY <1>1, LeftAlone
<1>5. /\ sent \subseteq sent' /\ sent' \ sent \subseteq Sent({"completed"})
      /\ \A k \in DedupKeys :
            Signal("completed", k) \in sent' \ sent => child'[k] \in Outcome
  BY <1>1, <1>2 DEF Sent, Signal, Shape, Typed
<1> QED
  BY <1>1, <1>3, <1>4, <1>5 DEF WorkflowEffect, Shape, Typed

\* A child that does as it was asked.
LEMMA StopEffect ==
    ASSUME Shape, NEW key \in DedupKeys, ChildStops(key)
    PROVE  WorkflowEffect
<1>1. /\ child[key] = "stopping" /\ child' = [child EXCEPT ![key] = "cancelled"]
      /\ rows' = rows /\ call' = call /\ policy' = policy /\ activeLock' = activeLock
      /\ sent' = sent /\ handled' = handled /\ processed' = processed
      /\ pending' = pending /\ granted' = granted /\ over' = over /\ calls' = calls
      /\ moves' = moves /\ faults' = faults
  BY DEF ChildStops
<1>2. ChildStep
  BY <1>1 DEF ChildStep, MovesOnly, Underway, ChildStatus, Shape, Typed
<1>3. PolicyStep /\ LockStep /\ PendingStep /\ TableStep /\ Len(rows') = Len(rows)
  BY <1>1, LeftAlone
<1> QED
  BY <1>1, <1>2, <1>3, LeftAlone DEF WorkflowEffect, Shape, Typed

\* The AML flag.
LEMMA FlagEffect ==
    ASSUME Shape, AMLFlagRaised \/ AMLFlagCleared
    PROVE  WorkflowEffect
<1>1. /\ rows' = rows /\ call' = call /\ activeLock' = activeLock /\ sent' = sent
      /\ handled' = handled /\ processed' = processed /\ pending' = pending
      /\ child' = child /\ granted' = granted /\ over' = over /\ calls' = calls
      /\ faults' = faults
  BY DEF AMLFlagRaised, AMLFlagCleared
<1>2. PolicyStep
  <2>1. policy \in State /\ "SUSPENDED" \in Status /\ NoStatus \notin Status
    BY StatusMembers DEF Shape, Typed
  <2>2. CASE AMLFlagRaised
    BY <2>1, <2>2 DEF AMLFlagRaised, Transitions, PolicyStep, State
  <2>3. CASE AMLFlagCleared
    BY <2>1, <2>3 DEF AMLFlagCleared, PolicyStep, State
  <2> QED
    BY <2>2, <2>3
<1>3. moves' \in Nat /\ moves' + faults' \in 0 .. MaxTrouble
  <2>1. CASE AMLFlagRaised
    BY <1>1, <2>1, TableBounded, SubmissionBounds DEF AMLFlagRaised, Troubled
  <2>2. CASE AMLFlagCleared
    BY <1>1, <2>2 DEF AMLFlagCleared, Shape, Typed
  <2> QED
    BY <2>1, <2>2
<1>4. ChildStep /\ LockStep /\ PendingStep /\ TableStep /\ Len(rows') = Len(rows)
  BY <1>1, LeftAlone
<1> QED
  BY <1>1, <1>2, <1>3, <1>4, LeftAlone DEF WorkflowEffect, Shape, Typed

\* Every step that is not a caller's.
LEMMA WorkflowMoves ==
    ASSUME SubmissionInvariant,
           \/ WorkflowStep
           \/ \E key \in DedupKeys, outcome \in Reports : ChildReports(key, outcome)
           \/ \E key \in DedupKeys : ChildStops(key)
           \/ AMLFlagRaised \/ AMLFlagCleared
    PROVE  WorkflowEffect
<1> USE DEF SubmissionInvariant
<1>1. CASE \/ \E id \in DOMAIN rows : WaitForDecodable(id) \/ DropDuplicate(id)
           \/ \E key \in DedupKeys : IgnoreCompletion(key)
  BY <1>1, DroppedEffect
<1>2. CASE \E id \in DOMAIN rows : StopSuspended(id) \/ RejectRequest(id)
  BY <1>2, RefusedEffect
<1>3. CASE \E id \in DOMAIN rows : RouteRequest(id)
  BY <1>3, RoutedEffect
<1>4. CASE \E id \in DOMAIN rows : HandleWithdrawal(id)
  BY <1>4, WithdrawalEffect
<1>5. CASE \E key \in DedupKeys : CompleteOperation(key)
  BY <1>5, CompletedEffect
<1>6. CASE HandleAdminVoid
  BY <1>6, VoidEffect
<1>7. CASE \E key \in DedupKeys, outcome \in Reports : ChildReports(key, outcome)
  BY <1>7, ReportEffect
<1>8. CASE AMLFlagRaised \/ AMLFlagCleared
  BY <1>8, FlagEffect
<1>9. CASE \E key \in DedupKeys : ChildStops(key)
  BY <1>9, StopEffect
<1> QED
  BY <1>1, <1>2, <1>3, <1>4, <1>5, <1>6, <1>7, <1>8, <1>9 DEF WorkflowStep

-----------------------------------------------------------------------------
(* What is true of every step, whoever takes it.                           *)

\* A call leaves the steps that tell the workflow by telling it, or by a failure.
CallsTell ==
    \A c \in Clients :
        /\ call[c].at = "signal" =>
                \/ call'[c] = call[c]
                \/ Signal("request", call[c].id) \in sent' \/ faults' > 0
        /\ call[c].at = "notify" =>
                \/ call'[c] = call[c]
                \/ Signal("withdrawal", call[c].id) \in sent' \/ faults' > 0

AnyStep ==
    /\ PolicyStep /\ ChildStep /\ LockStep /\ PendingStep /\ TableStep
    /\ sent \subseteq sent' /\ sent' \ sent \subseteq Sent(SignalKinds)
    /\ \A k \in DedupKeys :
            Signal("completed", k) \in sent' \ sent => child'[k] \in Outcome
    /\ handled \subseteq handled' /\ handled' \subseteq sent'
    /\ processed \subseteq processed' /\ processed' \subseteq DedupKeys
    /\ over' \in BOOLEAN
    /\ call' \in [Clients -> Call] /\ CallsTell /\ CallsCarry' /\ RowsCounted'
    /\ calls' \in 0 .. MaxCalls
    /\ moves' \in Nat /\ faults' \in Nat /\ moves' + faults' \in 0 .. MaxTrouble
    /\ faults' >= faults

\* A step of a call.
LEMMA HandlerIsAnyStep ==
    ASSUME Shape, NEW c \in Clients, NEW m \in Call, HandlerEffect(c, m)
    PROVE  AnyStep
<1>1. /\ call' = [call EXCEPT ![c] = m] /\ CallCarries(m, Len(rows'))
      /\ TableStep /\ UNCHANGED workflow
  BY DEF HandlerEffect, CallMoves
<1>2. /\ policy' = policy /\ activeLock' = activeLock /\ handled' = handled
      /\ processed' = processed /\ pending' = pending /\ child' = child
      /\ granted' = granted /\ over' = over
  BY <1>1 DEF workflow
<1>3. PolicyStep /\ ChildStep /\ LockStep /\ PendingStep
  BY <1>2, LeftAlone
<1>4. \A d \in Clients : call'[d] = IF d = c THEN m ELSE call[d]
  BY <1>1 DEF Shape, Typed
<1>5. call' \in [Clients -> Call]
  BY <1>1 DEF Shape, Typed
<1>6. CallsCarry'
  <2>1. ASSUME NEW d \in Clients, d # c
        PROVE  CallCarries(call[d], Len(rows'))
    <3>1. CallCarries(call[d], Len(rows))
      BY DEF Shape, CallsCarry
    <3>2. Len(rows) \in Nat /\ Len(rows') \in Nat /\ Len(rows) <= Len(rows')
      BY <1>1, TableBounded DEF TableStep, RowsKept
    <3>3. 1 .. Len(rows) \subseteq 1 .. Len(rows')
      BY <3>2
    <3> QED
      BY <3>1, <3>3 DEF CallCarries
  <2> QED
    BY <1>1, <1>4, <2>1 DEF CallsCarry
<1>7. CallsTell
  BY <1>4 DEF CallsTell, HandlerEffect
<1>8. /\ sent \subseteq sent' /\ sent' \ sent \subseteq Sent(SignalKinds)
      /\ \A k \in DedupKeys : Signal("completed", k) \notin sent' \ sent
  <2>1. sent \subseteq sent' /\ sent' \ sent \subseteq Sent({"request", "withdrawal", "void"})
    BY DEF HandlerEffect
  <2>2. Sent({"request", "withdrawal", "void"}) \subseteq Sent(SignalKinds)
    BY DEF Sent, SignalKinds
  <2>3. \A k \in DedupKeys : Signal("completed", k) \notin Sent({"request", "withdrawal", "void"})
    BY DEF Sent, Signal
  <2> QED
    BY <2>1, <2>2, <2>3
<1>9. /\ handled' \subseteq sent' /\ processed' \subseteq DedupKeys /\ over' \in BOOLEAN
  BY <1>2, <1>8 DEF Shape, Typed
<1> QED
  BY <1>1, <1>2, <1>3, <1>5, <1>6, <1>7, <1>8, <1>9 DEF AnyStep, HandlerEffect

\* A step of the workflow, of a child or of the AML flag.
LEMMA WorkflowIsAnyStep ==
    ASSUME Shape, WorkflowEffect
    PROVE  AnyStep
<1>1. /\ call' = call /\ calls' = calls /\ faults' = faults /\ Len(rows') = Len(rows)
      /\ faults \in Nat
  BY TableBounded DEF WorkflowEffect
<1>2. call' \in [Clients -> Call] /\ CallsTell /\ CallsCarry' /\ calls' \in 0 .. MaxCalls
  BY <1>1 DEF CallsTell, CallsCarry, Shape, Typed
<1>3. RowsCounted'
  <2>1. Inserting' = Inserting
    BY <1>1 DEF Inserting
  <2> QED
    BY <1>1, <2>1 DEF RowsCounted, Shape
<1>4. Sent({"completed"}) \subseteq Sent(SignalKinds)
  BY DEF Sent, SignalKinds
<1>5. faults' \in Nat /\ faults' >= faults
  BY <1>1
<1>6. sent' \ sent \subseteq Sent(SignalKinds)
  BY <1>4 DEF WorkflowEffect
<1> QED
  BY <1>2, <1>3, <1>5, <1>6 DEF AnyStep, WorkflowEffect

\* No step.
LEMMA StutterIsAnyStep ==
    ASSUME Shape, UNCHANGED vars
    PROVE  AnyStep
<1>1. /\ rows' = rows /\ call' = call /\ policy' = policy /\ activeLock' = activeLock
      /\ sent' = sent /\ handled' = handled /\ processed' = processed
      /\ pending' = pending /\ child' = child /\ granted' = granted /\ over' = over
      /\ calls' = calls /\ moves' = moves /\ faults' = faults
  BY DEF vars
<1>2. WorkflowEffect
  BY <1>1, LeftAlone DEF WorkflowEffect, Shape, Typed
<1> QED
  BY <1>2, WorkflowIsAnyStep

\* Every step of the specification is one of these.
LEMMA EveryStep ==
    ASSUME SubmissionInvariant, [Next]_vars
    PROVE  AnyStep
<1> USE DEF SubmissionInvariant
<1>1. CASE \E c \in Clients : HandlerStep(c)
  BY <1>1, HandlerMoves, HandlerIsAnyStep
<1>2. CASE \/ WorkflowStep
           \/ \E key \in DedupKeys, outcome \in Reports : ChildReports(key, outcome)
           \/ \E key \in DedupKeys : ChildStops(key)
           \/ AMLFlagRaised \/ AMLFlagCleared
  BY <1>2, WorkflowMoves, WorkflowIsAnyStep
<1>3. CASE UNCHANGED vars
  BY <1>3, StutterIsAnyStep
<1> QED
  BY <1>1, <1>2, <1>3 DEF Next

-----------------------------------------------------------------------------
(* The invariant is inductive.                                             *)

\* The types.
LEMMA TypedKept ==
    ASSUME Shape, Started, AnyStep
    PROVE  Typed'
<1>1. /\ rows' \in Seq(Row) /\ policy' \in State /\ pending' \in Seq(Entry)
      /\ child' \in [DedupKeys -> ChildStatus]
  BY DEF AnyStep, TableStep, RowsKept, PolicyStep, ChildStep, PendingStep
<1>2. activeLock' \in Keys \cup {NoKey} /\ granted' \subseteq Keys
  BY DEF AnyStep, LockStep, Shape, Typed
<1>3. sent' \subseteq [kind : SignalKinds, id : {0} \cup DedupKeys]
  BY DEF AnyStep, Sent, Shape, Typed
<1> QED
  BY <1>1, <1>2, <1>3 DEF AnyStep, Typed

\* What the calls and the pending list refer to.
LEMMA ShapeKept ==
    ASSUME Shape, Started, AnyStep
    PROVE  Shape'
<1>1. Typed' /\ RowsCounted' /\ CallsCarry'
  BY TypedKept DEF AnyStep
<1>2. /\ RowsKept /\ RowsAdded /\ Len(rows) \in Nat /\ Len(rows') \in Nat
      /\ 1 .. Len(rows) \subseteq 1 .. Len(rows')
  <2>1. RowsKept /\ RowsAdded
    BY DEF AnyStep, TableStep
  <2>2. Len(rows) \in Nat /\ Len(rows') \in Nat /\ Len(rows) <= Len(rows')
    BY <2>1, TableBounded DEF RowsKept
  <2> QED
    BY <2>1, <2>2
<1>3. LockedHasKey'
  BY <1>2 DEF RowsKept, RowsAdded, LockedHasKey, Shape
<1>4. ASSUME NEW p \in ToSet(pending')
      PROVE  /\ p.id \in 1 .. Len(rows) /\ p.key = Dedup(p.id)
             /\ \/ PreRouteStatus(rows[p.id].type) = NoStatus
                \/ policy'.previous # NoStatus
  <2>1. CASE p \in ToSet(pending)
    <3>1. p.id \in 1 .. Len(rows) /\ p.key = Dedup(p.id)
      BY <2>1 DEF Shape, PendingRows
    <3>2. policy' = policy \/ policy'.previous # NoStatus
      BY DEF AnyStep, PolicyStep
    <3> QED
      BY <2>1, <3>1, <3>2 DEF Shape, PreviousKnown
  <2>2. CASE TakenEntry(p)
    BY <2>2 DEF TakenEntry
  <2> QED
    BY <2>1, <2>2 DEF AnyStep, PendingStep
<1>5. PendingRows'
  <2>1. DistinctKeys(pending')
    BY DEF AnyStep, PendingStep
  <2>2. \A p \in ToSet(pending') : p.id \in 1 .. Len(rows') /\ p.key = Dedup(p.id)'
    BY <1>2, <1>4, DedupKept
  <2> QED
    BY <2>1, <2>2 DEF PendingRows
<1>6. PreviousKnown'
  BY <1>2, <1>4 DEF PreviousKnown, RowsKept
<1> QED
  BY <1>1, <1>3, <1>5, <1>6 DEF Shape

\* What was started and what it came to.
LEMMA StartedKept ==
    ASSUME Started, AnyStep
    PROVE  Started'
<1>1. \A k \in DedupKeys :
          \/ child'[k] = child[k] \/ child[k] \in Underway
          \/ k \notin processed /\ k \in processed' /\ child'[k] = "running"
  BY DEF AnyStep, ChildStep, MovesOnly
<1>2. processed \subseteq processed'
  BY DEF AnyStep
<1>3. ASSUME NEW k \in DedupKeys, child'[k] # "none" PROVE k \in processed'
  BY <1>1, <1>2, <1>3 DEF Started, Underway
<1>4. ASSUME NEW k \in DedupKeys, Signal("completed", k) \in sent'
      PROVE  child'[k] \in Outcome
  <2>1. CASE Signal("completed", k) \in sent
    <3>1. child[k] \in Outcome /\ child[k] \notin Underway /\ child[k] # "none"
      BY <2>1 DEF Started, Outcome, Underway
    <3> QED
      BY <1>1, <3>1 DEF Started
  <2>2. CASE Signal("completed", k) \notin sent
    BY <1>4, <2>2 DEF AnyStep
  <2> QED
    BY <2>1, <2>2
<1>5. granted' \subseteq processed'
  BY <1>2 DEF AnyStep, LockStep, Started
<1> QED
  BY <1>3, <1>4, <1>5 DEF Started

\* What the workflow is told.
LEMMA ToldKept ==
    ASSUME Shape, RowsTold, WithdrawalsTold, AnyStep
    PROVE  RowsTold' /\ WithdrawalsTold'
<1>1. /\ sent \subseteq sent' /\ CallsTell /\ RowsAdded /\ RowsWritten
      /\ faults \in Nat /\ faults' \in Nat /\ faults' >= faults
  BY TableBounded DEF AnyStep, TableStep
<1>2. ASSUME NEW id \in 1 .. Len(rows')
      PROVE  \/ Signal("request", id) \in sent'
             \/ \E c \in Clients : call'[c].at = "signal" /\ call'[c].id = id
             \/ faults' > 0
  <2>1. CASE id \notin 1 .. Len(rows)
    BY <1>1, <2>1 DEF RowsAdded
  <2>2. CASE id \in 1 .. Len(rows)
    <3>1. CASE Signal("request", id) \in sent \/ faults > 0
      BY <1>1, <3>1
    <3>2. CASE \E c \in Clients : call[c].at = "signal" /\ call[c].id = id
      BY <1>1, <3>2 DEF CallsTell
    <3> QED
      BY <2>2, <3>1, <3>2 DEF RowsTold
  <2> QED
    BY <2>1, <2>2
<1>3. ASSUME NEW id \in 1 .. Len(rows'), rows'[id].status = "WITHDRAWN"
      PROVE  \/ Signal("withdrawal", id) \in sent'
             \/ \E c \in Clients : call'[c].at = "notify" /\ call'[c].id = id
             \/ faults' > 0
  <2>1. CASE id \notin 1 .. Len(rows)
    BY <1>1, <1>3, <2>1 DEF RowsAdded
  <2>2. CASE id \in 1 .. Len(rows) /\ rows[id].status = "WITHDRAWN"
    <3>1. CASE Signal("withdrawal", id) \in sent \/ faults > 0
      BY <1>1, <3>1
    <3>2. CASE \E c \in Clients : call[c].at = "notify" /\ call[c].id = id
      BY <1>1, <3>2 DEF CallsTell
    <3> QED
      BY <2>2, <3>1, <3>2 DEF WithdrawalsTold
  <2>3. CASE id \in 1 .. Len(rows) /\ rows[id].status # "WITHDRAWN"
    BY <1>1, <1>3, <2>3
    DEF RowsWritten, RoutedByCall, WithdrawnByCall, TakenByWorkflow, CompletedByWorkflow
  <2> QED
    BY <2>1, <2>2, <2>3
<1> QED
  BY <1>2, <1>3 DEF RowsTold, WithdrawalsTold

\* What the workflow has decided.
LEMMA DecidedKept ==
    ASSUME DecidedHandled, PendingTaken, AnyStep
    PROVE  DecidedHandled'
<1>1. handled \subseteq handled' /\ RowsAdded /\ RowsWritten
  BY DEF AnyStep, TableStep
<1>2. SUFFICES ASSUME NEW id \in 1 .. Len(rows'), rows'[id].status \in Decided
               PROVE  Signal("request", id) \in handled'
  BY DEF DecidedHandled
<1>3. CASE id \notin 1 .. Len(rows)
  BY <1>1, <1>2, <1>3 DEF RowsAdded, Decided
<1>4. CASE id \in 1 .. Len(rows) /\ rows'[id].status = rows[id].status
  BY <1>1, <1>2, <1>4 DEF DecidedHandled
<1>5. CASE id \in 1 .. Len(rows) /\ rows'[id].status # rows[id].status
  <2>1. CASE RoutedByCall(id) \/ WithdrawnByCall(id)
    BY <1>2, <2>1 DEF RoutedByCall, WithdrawnByCall, Decided
  <2>2. CASE TakenByWorkflow(id)
    BY <2>2 DEF TakenByWorkflow
  <2>3. CASE CompletedByWorkflow(id)
    BY <1>1, <2>3 DEF CompletedByWorkflow, PendingTaken
  <2> QED
    BY <1>1, <1>5, <2>1, <2>2, <2>3 DEF RowsWritten
<1> QED
  BY <1>3, <1>4, <1>5

\* What is pending.
LEMMA PendingKept ==
    ASSUME Shape, Started, PendingTaken, AnyStep
    PROVE  PendingTaken'
<1>1. /\ handled \subseteq handled' /\ processed \subseteq processed' /\ RowsWritten
      /\ PendingStep /\ processed \subseteq DedupKeys
  BY DEF AnyStep, TableStep, Shape, Typed
<1>2. ASSUME NEW k \in processed, child[k] \in Outcome
      PROVE  child'[k] \in Outcome /\ k \in processed'
  BY <1>1, <1>2 DEF AnyStep, ChildStep, MovesOnly, Underway, Outcome
<1>3. ASSUME NEW p \in ToSet(pending'), p \in ToSet(pending)
      PROVE  /\ rows'[p.id].status # "STATE_GATE_REJECTED"
             /\ rows'[p.id].status = "COMPLETED" => Mistaken(p.key)'
  <2>1. /\ p.id \in 1 .. Len(rows) /\ Signal("request", p.id) \in handled
        /\ rows[p.id].status # "STATE_GATE_REJECTED"
        /\ rows[p.id].status = "COMPLETED" => Mistaken(p.key)
    BY <1>3 DEF PendingTaken, Shape, PendingRows
  <2>2. CASE rows'[p.id].status = rows[p.id].status
    BY <1>2, <2>1, <2>2 DEF Mistaken
  <2>3. CASE RoutedByCall(p.id) \/ WithdrawnByCall(p.id)
    BY <2>3 DEF RoutedByCall, WithdrawnByCall
  <2>4. CASE TakenByWorkflow(p.id)
    BY <2>1, <2>4 DEF TakenByWorkflow
  <2>5. CASE CompletedByWorkflow(p.id)
    BY <2>5 DEF CompletedByWorkflow, Mistaken
  <2> QED
    BY <1>1, <2>1, <2>2, <2>3, <2>4, <2>5 DEF RowsWritten
<1>4. ASSUME NEW p \in ToSet(pending'), TakenEntry(p)
      PROVE  /\ p.key \in processed' /\ Signal("request", p.id) \in handled'
             /\ rows'[p.id].status = "ROUTED"
  BY <1>4 DEF TakenEntry
<1> QED
  BY <1>1, <1>3, <1>4 DEF PendingTaken, PendingStep

\* It holds at first.
LEMMA SubmissionInit == Init => SubmissionInvariant
<1> SUFFICES ASSUME Init PROVE SubmissionInvariant
  OBVIOUS
<1> USE DEF Init
<1>1. /\ rows = <<>> /\ Len(rows) = 0 /\ rows \in Seq(Row)
      /\ pending = <<>> /\ Len(pending) = 0 /\ pending \in Seq(Entry)
  OBVIOUS
<1>2. 1 .. Len(rows) = {} /\ ToSet(pending) = {}
  BY <1>1 DEF ToSet
<1>3. NoCall \in Call /\ NoCall.at = "idle"
  BY DEF NoCall, Call, Steps
<1>4. \A c \in Clients : call[c] = NoCall
  OBVIOUS
<1>5. Typed
  <2>1. policy \in State
    BY SubmissionBounds DEF State
  <2>2. calls \in 0 .. MaxCalls /\ moves + faults \in 0 .. MaxTrouble
    BY SubmissionBounds
  <2> QED
    BY <1>1, <1>3, <2>1, <2>2 DEF Typed, ChildStatus
<1>6. RowsCounted
  <2>1. Inserting = {}
    BY <1>3, <1>4 DEF Inserting, Insertion
  <2> QED
    BY <1>1, <2>1, FS_EmptySet DEF RowsCounted
<1>7. CallsCarry
  BY <1>3, <1>4 DEF CallsCarry, CallCarries, Insertion
<1>8. LockedHasKey /\ PendingRows /\ PreviousKnown
  BY <1>1, <1>2 DEF LockedHasKey, PendingRows, DistinctKeys, PreviousKnown
<1>9. Started
  BY DEF Started
<1>10. RowsTold /\ WithdrawalsTold /\ DecidedHandled /\ PendingTaken
  BY <1>2 DEF RowsTold, WithdrawalsTold, DecidedHandled, PendingTaken
<1> QED
  BY <1>5, <1>6, <1>7, <1>8, <1>9, <1>10 DEF SubmissionInvariant, Shape

\* It holds after every step.
LEMMA SubmissionNext ==
    SubmissionInvariant /\ [Next]_vars => SubmissionInvariant'
<1> SUFFICES ASSUME SubmissionInvariant, [Next]_vars PROVE SubmissionInvariant'
  OBVIOUS
<1>1. AnyStep
  BY EveryStep
<1> QED
  BY <1>1, ShapeKept, StartedKept, ToldKept, DecidedKept, PendingKept
  DEF SubmissionInvariant

\* The invariant holds in every reachable state.
LEMMA SubmissionHolds == Spec => []SubmissionInvariant
BY SubmissionInit, SubmissionNext, PTL DEF Spec

-----------------------------------------------------------------------------
(* The theorems.                                                           *)

\* The types, and the bound of the table that the guards of the endpoints keep only
\* together: no call inserts a row that was not counted when it began.
THEOREM TypesHold == Spec => []TypeOK
<1>1. SubmissionInvariant => TypeOK
  <2> SUFFICES ASSUME SubmissionInvariant PROVE TypeOK
    OBVIOUS
  <2>1. Shape /\ Typed
    BY DEF SubmissionInvariant, Shape
  <2>2. Len(rows) <= MaxCalls /\ DOMAIN rows = 1 .. Len(rows)
    BY <2>1, TableBounded
  <2>3. \A p \in ToSet(pending) : p.id \in DOMAIN rows /\ p.key = Dedup(p.id)
    BY <2>1, <2>2 DEF Shape, PendingRows
  <2> QED
    BY <2>1, <2>2, <2>3 DEF Typed, TypeOK, Row, Call, State
<1> QED
  BY <1>1, SubmissionHolds, PTL

\* Whoever is answered 202 has a request the workflow is told of, unless a step
\* failed: submitRequest inserts before it signals, and a repeated key is answered
\* by the row, whoever inserted it.
THEOREM AcceptedAreSignalled == Spec => []AcceptedIsSignalled
<1>1. SubmissionInvariant => AcceptedIsSignalled
  <2> SUFFICES ASSUME SubmissionInvariant, NEW c \in Clients, call[c].at = "accepted"
               PROVE  \/ Signal("request", call[c].id) \in sent
                      \/ \E d \in Clients : call[d].at = "signal" /\ call[d].id = call[c].id
                      \/ faults > 0
    BY DEF AcceptedIsSignalled
  <2>1. call[c].id \in 1 .. Len(rows)
    BY DEF SubmissionInvariant, Shape, CallsCarry, CallCarries
  <2> QED
    BY <2>1 DEF SubmissionInvariant, RowsTold
<1> QED
  BY <1>1, SubmissionHolds, PTL

\* Only the handler of a withdrawal handles one.
LEMMA WithdrawalHandler ==
    ASSUME [Next]_vars, NEW id, Signal("withdrawal", id) \in handled' \ handled
    PROVE  id \in DOMAIN rows /\ HandleWithdrawal(id)
<1>1. \A kind, other : Signal(kind, other) = Signal("withdrawal", id)
                        => kind = "withdrawal" /\ other = id
  <2>1. \A kind, other : /\ Signal(kind, other).kind = kind
                         /\ Signal(kind, other).id = other
    BY DEF Signal
  <2> QED
    BY <2>1
<1>2. ASSUME NEW kind, NEW other, Handles(Signal(kind, other))
      PROVE  kind = "withdrawal" /\ other = id
  BY <1>1, <1>2 DEF Handles
<1>3. handled' # handled
  OBVIOUS
<1>4. \A c \in Clients : ~HandlerStep(c)
  BY <1>3 DEF workflow, HandlerStep, Submit, PassGate, CheckFinancialLock,
     CreateServiceRequest, SignalWorkflow, MarkRouted, MarkFails, Abort, Withdraw,
     WithdrawServiceRequest, NotifyWithdrawal, AdminVoidPolicy, SignalVoid
<1>5. /\ \A key \in DedupKeys, outcome \in Reports : ~ChildReports(key, outcome)
      /\ \A key \in DedupKeys : ~ChildStops(key)
      /\ ~AMLFlagRaised /\ ~AMLFlagCleared /\ ~(UNCHANGED vars)
  BY <1>3 DEF ChildReports, ChildStops, AMLFlagRaised, AMLFlagCleared, vars
<1>6. \A other \in DOMAIN rows :
        /\ ~WaitForDecodable(other) /\ ~DropDuplicate(other) /\ ~StopSuspended(other)
        /\ ~RejectRequest(other) /\ ~RouteRequest(other)
  <2>1. \A other : ~Handles(Signal("request", other))
    BY <1>2
  <2> QED
    BY <2>1 DEF WaitForDecodable, DropDuplicate, StopSuspended, RejectRequest,
       RouteRequest, NewRequest, Receives
<1>7. /\ \A key \in DedupKeys : ~IgnoreCompletion(key) /\ ~CompleteOperation(key)
      /\ ~HandleAdminVoid
  <2>1. ~Handles(Signal("void", 0)) /\ \A key : ~Handles(Signal("completed", key))
    BY <1>2
  <2>2. ~HandleAdminVoid
    BY <2>1 DEF HandleAdminVoid
  <2>3. \A key : ~IgnoreCompletion(key)
    BY <2>1 DEF IgnoreCompletion
  <2>4. \A key : ~CompleteOperation(key)
    BY <2>1 DEF CompleteOperation
  <2> QED
    BY <2>2, <2>3, <2>4
<1>8. PICK other \in DOMAIN rows : HandleWithdrawal(other)
  BY <1>4, <1>5, <1>6, <1>7 DEF Next, WorkflowStep
<1> QED
  BY <1>2, <1>8 DEF HandleWithdrawal

\* Once it did, the request is not pending, nor is another row of its key.
LEMMA WithdrawalRemoves ==
    ASSUME SubmissionInvariant, NEW id \in DOMAIN rows, HandleWithdrawal(id)
    PROVE  \A p \in ToSet(pending') : p.key # Dedup(id)
<1> DEFINE key == Dedup(id)
<1>1. Shape /\ Typed /\ DistinctKeys(pending)
  BY DEF SubmissionInvariant, Shape, PendingRows
<1>2. CASE ~IsPending(key)
  <2>1. pending' = pending
    BY <1>2 DEF HandleWithdrawal
  <2> QED
    BY <1>1, <1>2, <2>1, PositionProperties
<1>3. CASE IsPending(key)
  <2>1. pending' = RemoveAt(pending, PositionOf(key))
    BY <1>3 DEF HandleWithdrawal
  <2> QED
    BY <1>1, <1>3, <2>1, DropEntry
<1> QED
  BY <1>2, <1>3

\* A pending request whose row is WITHDRAWN has its withdrawal still to come, and
\* the step that handles it stops the request.
THEOREM WithdrawnAreStopped == Spec => WithdrawnIsStopped
<1> DEFINE Stopped ==
      \A id \in PendingIds' :
         rows'[id].status = "WITHDRAWN" =>
            \/ WithdrawalToCome(id)'
            \/ Signal("withdrawal", id) \in handled
            \/ faults' > 0
<1>1. SubmissionInvariant /\ [Next]_vars => [Stopped]_vars
  <2> SUFFICES ASSUME SubmissionInvariant, [Next]_vars, NEW id \in PendingIds',
                      rows'[id].status = "WITHDRAWN",
                      Signal("withdrawal", id) \notin handled
               PROVE  WithdrawalToCome(id)' \/ faults' > 0
    OBVIOUS
  <2>1. SubmissionInvariant' /\ AnyStep
    BY SubmissionNext, EveryStep
  <2>2. PICK p \in ToSet(pending') : p.id = id
    BY DEF PendingIds
  <2>3. id \in 1 .. Len(rows')
    BY <2>1, <2>2 DEF SubmissionInvariant, Shape, PendingRows
  <2>4. \/ Signal("withdrawal", id) \in sent'
        \/ \E c \in Clients : call'[c].at = "notify" /\ call'[c].id = id
        \/ faults' > 0
    BY <2>1, <2>3 DEF SubmissionInvariant, WithdrawalsTold
  <2>5. Signal("withdrawal", id) \notin handled'
    <3>1. SUFFICES ASSUME Signal("withdrawal", id) \in handled'
                   PROVE  FALSE
      OBVIOUS
    <3>2. id \in DOMAIN rows /\ HandleWithdrawal(id)
      BY <3>1, WithdrawalHandler
    <3>3. p.key # Dedup(id)
      BY <2>2, <3>2, WithdrawalRemoves
    <3>4. p.key = Dedup(id)'
      BY <2>1, <2>2 DEF SubmissionInvariant, Shape, PendingRows
    <3>5. rows' = rows
      BY <3>2 DEF HandleWithdrawal
    <3>6. Dedup(id)' = Dedup(id)
      BY <3>5 DEF Dedup
    <3> QED
      BY <3>3, <3>4, <3>6
  <2> QED
    BY <2>4, <2>5 DEF WithdrawalToCome
<1>2. Spec => [][Stopped]_vars
  BY <1>1, SubmissionHolds, PTL DEF Spec
<1> QED
  BY <1>2 DEF WithdrawnIsStopped

\* What runs downstream is in the inbox of the back office, but for a withdrawal on
\* its way and the row a completion of another request marked.
THEOREM InboxIsComplete == Spec => []InboxShowsRunning
<1>1. SubmissionInvariant => InboxShowsRunning
  <2> SUFFICES ASSUME SubmissionInvariant, NEW p \in ToSet(pending)
               PROVE  \/ p.id \in GetPendingRequests
                      \/ rows[p.id].status = "WITHDRAWN"
                      \/ \E k \in processed \ {p.key} : child[k] \in Outcome
    BY DEF InboxShowsRunning
  <2>1. p.id \in 1 .. Len(rows) /\ rows \in Seq(Row)
    BY DEF SubmissionInvariant, Shape, PendingRows, Typed
  <2>2. rows[p.id].status \in RowStatus /\ p.id \in DOMAIN rows
    <3>1. rows[p.id] \in Row /\ p.id \in DOMAIN rows
      BY <2>1, ElementOfSeq
    <3> QED
      BY <3>1 DEF Row
  <2>3. /\ rows[p.id].status # "STATE_GATE_REJECTED"
        /\ rows[p.id].status = "COMPLETED" => Mistaken(p.key)
    BY DEF SubmissionInvariant, PendingTaken
  <2>4. CASE rows[p.id].status = "COMPLETED"
    BY <2>3, <2>4 DEF Mistaken
  <2>5. CASE rows[p.id].status \in {"RECEIVED", "ROUTED"}
    BY <2>2, <2>5 DEF GetPendingRequests
  <2> QED
    BY <2>2, <2>3, <2>4, <2>5 DEF RowStatus
<1> QED
  BY <1>1, SubmissionHolds, PTL

\* What the workflow decided of a request is overwritten by step 8 of its own
\* submission only.
THEOREM DecisionsKept == Spec => DecisionKept
<1> DEFINE Kept ==
      \A id \in DOMAIN rows :
         rows[id].status \in {"STATE_GATE_REJECTED", "COMPLETED"}
           /\ rows'[id].status # rows[id].status
         => /\ rows'[id].status = "ROUTED"
            /\ \E c \in Clients : call[c].at = "mark" /\ call[c].id = id
<1>1. SubmissionInvariant /\ [Next]_vars => [Kept]_vars
  <2> SUFFICES ASSUME SubmissionInvariant, [Next]_vars, NEW id \in DOMAIN rows,
                      rows[id].status \in Decided,
                      rows'[id].status # rows[id].status
               PROVE  RoutedByCall(id)
    BY DEF RoutedByCall, Decided
  <2>1. AnyStep
    BY EveryStep
  <2>2. id \in 1 .. Len(rows) /\ rows \in Seq(Row)
    BY TableBounded DEF SubmissionInvariant
  <2>3. Signal("request", id) \in handled
    BY <2>2 DEF SubmissionInvariant, DecidedHandled
  <2>4. ~WithdrawnByCall(id)
    BY DEF WithdrawnByCall, Decided
  <2>5. ~TakenByWorkflow(id)
    BY <2>3 DEF TakenByWorkflow
  <2>6. ~CompletedByWorkflow(id)
    BY DEF CompletedByWorkflow, Decided, SubmissionInvariant, PendingTaken
  <2> QED
    BY <2>1, <2>2, <2>4, <2>5, <2>6 DEF AnyStep, TableStep, RowsWritten
<1>2. Spec => [][Kept]_vars
  BY <1>1, SubmissionHolds, PTL DEF Spec
<1> QED
  BY <1>2 DEF DecisionKept

\* A child is started once, whatever rows carry its key and in whatever order
\* their signals come.
THEOREM RunsAreUnique == Spec => OneRunPerKey
<1> DEFINE Once ==
      \A key \in DedupKeys :
         child'[key] = "running" => child[key] \in {"none", "running"}
<1>1. SubmissionInvariant /\ [Next]_vars => [Once]_vars
  <2> SUFFICES ASSUME SubmissionInvariant, [Next]_vars, NEW key \in DedupKeys,
                      child'[key] = "running", child[key] # "none"
               PROVE  child[key] = "running"
    OBVIOUS
  <2>1. AnyStep
    BY EveryStep
  <2>2. key \in processed
    BY DEF SubmissionInvariant, Started
  <2> QED
    BY <2>1, <2>2 DEF AnyStep, ChildStep, MovesOnly
<1>2. Spec => [][Once]_vars
  BY <1>1, SubmissionHolds, PTL DEF Spec
<1> QED
  BY <1>2 DEF OneRunPerKey

\* The lock keeps what FinancialLock promises when callers race past the database's
\* copy of it and rows share a key.
THEOREM LockIsImplemented == Spec => LockImplemented
<1>1. Init => Lock!Init
  BY DEF Init, Lock!Init
<1>2. SubmissionInvariant /\ [Next]_vars => [Lock!Next]_<<activeLock, granted>>
  <2> SUFFICES ASSUME SubmissionInvariant, [Next]_vars
               PROVE  Lock!Next \/ UNCHANGED <<activeLock, granted>>
    OBVIOUS
  <2>1. LockStep
    BY EveryStep DEF AnyStep
  <2>2. CASE activeLock' = activeLock /\ granted' = granted
    BY <2>2
  <2>3. CASE activeLock' = NoKey /\ granted' = granted /\ activeLock # NoKey
    BY <2>3 DEF Lock!Next, Lock!Release
  <2>4. CASE \E key \in Keys \cap processed' :
                /\ activeLock = NoKey /\ key \notin processed
                /\ activeLock' = key /\ granted' = granted \cup {key}
    <3>1. PICK key \in Keys :
                /\ activeLock = NoKey /\ key \notin processed
                /\ activeLock' = key /\ granted' = granted \cup {key}
      BY <2>4
    <3>2. key \notin granted
      BY <3>1 DEF SubmissionInvariant, Started
    <3> QED
      BY <3>1, <3>2 DEF Lock!Next, Lock!Acquire
  <2> QED
    BY <2>1, <2>2, <2>3, <2>4 DEF LockStep
<1>3. Spec => Lock!Spec
  BY <1>1, <1>2, SubmissionHolds, PTL DEF Spec, Lock!Spec
<1> QED
  BY <1>3 DEF LockImplemented
=============================================================================
