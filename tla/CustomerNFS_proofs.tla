------------------------- MODULE CustomerNFS_proofs -------------------------
(***************************************************************************)
(* Theorems about CustomerNFS, for every set of requests and clients,      *)
(* every schema and every value of the bounds.                             *)
(***************************************************************************)
EXTENDS CustomerNFS, SequenceTheorems, TLAPS

-----------------------------------------------------------------------------
(* The types of the variables, of which TypeOK has the part that matters.  *)

\* Where a workflow may be.
Waits == {"otp_wait", "wait", "grace", "resubmit", "resubmit_again", "docs", "docs_again"}
Executes == {"store", "otp", "verify", "expire", "apply", "refuse", "complete", "submit",
             "assign", "no_decision", "approve", "reject", "send_back", "reassign"}
Positions == {"none"} \cup Waits \cup Executes \cup Closed

WorkflowState == [pc : Positions, tries : 0..(MaxAttempts - 1),
                  decision : Decisions \cup {NoDecision}]
WithdrawalState == [pc : {"none", "check", "process", "notify"} \cup Closed, tries : 0..(MaxAttempts - 1)]
Signals == [otp : Nat, docs : Nat, withdrawal : Nat, decisions : Seq(Decisions)]

InitiateArg == [type : Types, auth : Auths, ticket : Nat]
InitiateCall == [op : {"initiate"}, at : {"ticket", "create", "sla", "start"}, r : Requests, arg : InitiateArg]
ApproveCall == [op : {"approve"}, at : {"signal"}, r : Requests, arg : Decisions]
OtherCall == [op : {"otp", "submit", "withdraw", "assign", "reject", "link"},
              at : {"sla", "status", "signal", "start", "write"}, r : Requests,
              arg : {"none"}]

\* A call that is past its ticket has one.
Ticketed(k) == k.at # "ticket" => k.arg.ticket # 0

CallState == {Idle} \cup {k \in InitiateCall : Ticketed(k)} \cup ApproveCall \cup OtherCall

StateType ==
    /\ db \in Store
    /\ wf \in [Requests -> WorkflowState]
    /\ wdw \in [Requests -> WithdrawalState]
    /\ sig \in [Requests -> Signals]
    /\ faults \in 0..MaxFaults
    /\ consent \subseteq Requests
    /\ call \in [Clients -> CallState]

\* What a call's kind tells of its record.
LEMMA CallKinds ==
    ASSUME NEW k \in CallState, k # Idle
    PROVE  /\ k.r \in Requests
           /\ k.op = "initiate" => k \in InitiateCall /\ Ticketed(k)
           /\ k.op = "approve" => k \in ApproveCall
           /\ k.op \notin {"initiate", "approve"} => k \in OtherCall
BY DEF CallState, InitiateCall, ApproveCall, OtherCall

-----------------------------------------------------------------------------
(* The operations on the tables.                                           *)

\* A request that exists has a row with a status, a type and a ticket.
LEMMA RowType ==
    ASSUME NEW d \in Store, NEW r \in Requests
    PROVE  /\ d.sr[r] \in Row
           /\ Exists(d, r) => d.sr[r] \in
                [status : Statuses, type : Types, auth : Auths,
                 ticket : Nat \ {0}, sla : BOOLEAN, workflow : BOOLEAN]
           /\ d.sr[r].status \in Statuses \cup {"NONE"}
           /\ d.versions[r] \in Nat
<1>1. d.sr \in [Requests -> Row] /\ d.versions \in [Requests -> Nat]
  BY DEF Store
<1>2. d.sr[r] \in Row /\ d.versions[r] \in Nat
  BY <1>1
<1>3. ASSUME NEW row \in Row
      PROVE  row.status \in Statuses \cup {"NONE"}
  BY <1>3 DEF Row, NoRow
<1> QED
  BY <1>2, <1>3 DEF Row, Exists

\* What one transaction may do to the request it is about, and what to others.
OnlyRow(d, e, r) ==
    /\ e \in Store
    /\ \A q \in Requests \ {r} : e.sr[q] = d.sr[q]
    /\ d.queue \subseteq e.queue
    /\ Exists(d, r) => Exists(e, r)

\* It writes the row of r, and no version.
WritesRow(d, e, r) == OnlyRow(d, e, r) /\ e.versions = d.versions

\* A guarded status update writes the new status of one row, or nothing.
LEMMA UpdateStatusEffect ==
    ASSUME NEW d \in Store, NEW r \in Requests, NEW new, NEW reason, NEW audited,
           NEW result, result = UpdateStatus(d, r, new, reason, audited)
    PROVE  /\ WritesRow(d, result.db, r)
           /\ result.db.queue = d.queue
           /\ result.db # d => Status(result.db, r) = new
           /\ result.ok => audited /\ Status(result.db, r) = new
           /\ ~result.ok => result.db = d
           /\ result.ok \in BOOLEAN
<1> DEFINE e == [d EXCEPT !.sr[r].status = new]
           commits == /\ Exists(d, r)
                      /\ new \in Statuses
                      /\ audited
                      /\ ("reason_required" \in d.schema /\ new = "REJECTED") => reason = "text"
<1>0. result = [ok |-> commits, db |-> IF commits THEN e ELSE d]
  BY DEF UpdateStatus, Tx
<1>1. CASE ~commits
  <2> HIDE DEF commits
  <2>1. result.ok = FALSE /\ result.db = d
    BY <1>0, <1>1
  <2> QED
    BY <2>1 DEF WritesRow, OnlyRow
<1>2. CASE commits
  <2>1. Exists(d, r) /\ new \in Statuses /\ audited
    BY <1>2
  <2>2. [d.sr[r] EXCEPT !.status = new] \in Row /\ [d.sr[r] EXCEPT !.status = new] # NoRow
    BY <2>1, RowType DEF Row, NoRow, Statuses
  <2>3. e \in Store
    BY <2>2 DEF Store
  <2>4. Status(e, r) = new /\ Exists(e, r)
    BY <2>1, <2>2, RowType DEF Store, Status, Exists
  <2>5. WritesRow(d, e, r) /\ e.queue = d.queue
    BY <2>3, <2>4 DEF WritesRow, OnlyRow, Store
  <2> HIDE DEF commits, e
  <2>6. result.ok = TRUE /\ result.db = e
    BY <1>0, <1>2
  <2> QED
    BY <2>1, <2>4, <2>5, <2>6
<1> QED
  BY <1>1, <1>2

\* The other statements on the row of a request: none of them reports it.
LEMMA RowUpdateEffect ==
    ASSUME NEW d \in Store, NEW r \in Requests, NEW result,
           result \in {UpdateWorkflowState(d, r), UpdateSLADeadline(d, r)}
    PROVE  /\ result.ok = TRUE
           /\ WritesRow(d, result.db, r)
           /\ result.db.queue = d.queue
           /\ Status(result.db, r) = Status(d, r)
<1>1. CASE ~Exists(d, r)
  BY <1>1 DEF UpdateWorkflowState, UpdateSLADeadline, Tx, WritesRow, OnlyRow
<1>2. CASE Exists(d, r)
  <2> DEFINE row == d.sr[r]
  <2>1. ASSUME NEW changed \in {[row EXCEPT !.workflow = TRUE], [row EXCEPT !.sla = TRUE]}
        PROVE  changed \in Row /\ changed # NoRow /\ changed.status = row.status
    <3>1. row \in [status : Statuses, type : Types, auth : Auths,
                   ticket : Nat \ {0}, sla : BOOLEAN, workflow : BOOLEAN]
      BY <1>2, RowType
    <3>2. \/ changed = [row EXCEPT !.workflow = TRUE]
          \/ changed = [row EXCEPT !.sla = TRUE]
      BY <2>1
    <3>3. /\ changed \in [status : Statuses, type : Types, auth : Auths,
                          ticket : Nat \ {0}, sla : BOOLEAN, workflow : BOOLEAN]
          /\ changed.status = row.status
      BY <3>1, <3>2
    <3> QED
      BY <3>3 DEF Row, NoRow
  <2>2. ASSUME NEW e \in {[d EXCEPT !.sr[r].workflow = TRUE], [d EXCEPT !.sr[r].sla = TRUE]}
        PROVE  /\ WritesRow(d, e, r) /\ e.queue = d.queue
               /\ Status(e, r) = Status(d, r)
    <3>1. e.sr[r] \in Row /\ e.sr[r] # NoRow /\ e.sr[r].status = row.status
      BY <2>1 DEF Store
    <3>2. e \in Store
      <4>1. e = [d EXCEPT !.sr = [@ EXCEPT ![r] = e.sr[r]]]
        BY <2>2 DEF Store
      <4> QED
        BY <4>1, <3>1 DEF Store
    <3> QED
      BY <3>1, <3>2 DEF WritesRow, OnlyRow, Store, Exists, Status
  <2>3. result.ok = TRUE
           /\ result.db \in {[d EXCEPT !.sr[r].workflow = TRUE], [d EXCEPT !.sr[r].sla = TRUE]}
    BY <1>2 DEF UpdateWorkflowState, UpdateSLADeadline, Tx
  <2> QED
    BY <2>2, <2>3
<1> QED
  BY <1>1, <1>2

\* Assigning writes IN_PROGRESS and enters the request in the queue, or does nothing.
LEMMA AssignEffect ==
    ASSUME NEW d \in Store, NEW r \in Requests, NEW result,
           result = AssignRequestToQueue(d, r)
    PROVE  /\ WritesRow(d, result.db, r)
           /\ \/ result.db = d
              \/ Status(result.db, r) = "IN_PROGRESS" /\ r \in result.db.queue
           /\ result.db.queue \subseteq d.queue \cup {r}
           /\ ~result.ok => result.db = d
<1> DEFINE e == [d EXCEPT !.sr[r].status = "IN_PROGRESS", !.queue = @ \cup {r}]
<1>1. CASE result.db = d
  BY <1>1 DEF WritesRow, OnlyRow
<1>2. CASE result.db # d
  <2>1. Exists(d, r) /\ result.ok /\ result.db = e
    BY <1>2 DEF AssignRequestToQueue, Tx
  <2>2. [d.sr[r] EXCEPT !.status = "IN_PROGRESS"] \in Row
          /\ [d.sr[r] EXCEPT !.status = "IN_PROGRESS"] # NoRow
    BY <2>1, RowType DEF Row, NoRow, Statuses
  <2>3. e \in Store
    BY <2>2 DEF Store
  <2>4. Status(e, r) = "IN_PROGRESS" /\ Exists(e, r) /\ e.queue = d.queue \cup {r}
    BY <2>1, <2>2, RowType DEF Store, Status, Exists
  <2>5. WritesRow(d, e, r)
    BY <2>3, <2>4 DEF WritesRow, OnlyRow, Store
  <2> QED
    BY <2>1, <2>4, <2>5
<1> QED
  BY <1>1, <1>2

\* An insert makes a CREATED row for a request that had none, or nothing.
LEMMA InsertEffect ==
    ASSUME NEW d \in Store, NEW r \in Requests, NEW auth \in Auths,
           NEW ticket \in Nat \ {0}, NEW result,
           result \in {CreateWithAddressDetail(d, r, auth, ticket),
                       CreateWithNameDetail(d, r, auth, ticket)}
    PROVE  /\ WritesRow(d, result.db, r)
           /\ result.db.queue = d.queue
           /\ result.db = d \/ (/\ ~Exists(d, r) /\ Exists(result.db, r)
                                /\ Status(result.db, r) = "CREATED")
           /\ result.ok => Exists(result.db, r)
           /\ ~result.ok => result.db = d
<1>1. PICK type \in Types, commits \in BOOLEAN : result = Insert(d, r, type, auth, ticket, commits)
  BY DEF CreateWithAddressDetail, CreateWithNameDetail, Types
<1> DEFINE row == [status |-> "CREATED", type |-> type, auth |-> auth,
                   ticket |-> ticket, sla |-> FALSE, workflow |-> FALSE]
           e == [d EXCEPT !.sr[r] = row]
<1>2. row \in Row /\ row # NoRow
  BY DEF Row, NoRow, Statuses
<1>3. e \in Store /\ Exists(e, r) /\ Status(e, r) = "CREATED"
  BY <1>2 DEF Store, Exists, Status
<1>4. OnlyRow(d, e, r) /\ e.versions = d.versions /\ e.queue = d.queue
  BY <1>3 DEF OnlyRow, Store
<1>5. \/ result.ok /\ result.db = e /\ ~Exists(d, r)
      \/ ~result.ok /\ result.db = d
  BY <1>1 DEF Insert, Tx
<1> QED
  BY <1>3, <1>4, <1>5 DEF WritesRow, OnlyRow

\* A version is counted for the request, whose row stays.
AddsVersion(d, e, r) ==
    /\ e \in Store
    /\ e.sr = d.sr /\ e.queue = d.queue
    /\ e.versions = [d.versions EXCEPT ![r] = @ + 1]

\* A version is written for one request, or nothing.
LEMMA VersionEffect ==
    ASSUME NEW d \in Store, NEW r \in Requests, NEW result,
           result \in {CreateAddressVersion(d, r), CreateNameVersion(d, r)}
    PROVE  /\ result.ok => AddsVersion(d, result.db, r)
           /\ ~result.ok => result.db = d
<1>1. PICK current \in SUBSET Requests :
        result = Tx(d, Exists(d, r), [d EXCEPT !.versions[r] = @ + 1, !.current = current])
  <2>1. d.current \subseteq Requests
    BY DEF Store
  <2> QED
    BY <2>1 DEF CreateAddressVersion, CreateNameVersion, Store
<1> DEFINE e == [d EXCEPT !.versions[r] = @ + 1, !.current = current]
<1>2. e \in Store
  <2>1. d.versions[r] + 1 \in Nat
    BY RowType
  <2> QED
    BY <2>1 DEF Store
<1>3. AddsVersion(d, e, r)
  BY <1>2 DEF AddsVersion, Store
<1> QED
  BY <1>1, <1>3 DEF Tx

\* A ticket number is positive, and drawing one leaves requests, queue and versions.
LEMMA TicketEffect ==
    ASSUME NEW d \in Store, NEW type \in Types, NEW result,
           result = GenerateTicketNumber(d, type)
    PROVE  /\ result.db \in Store
           /\ result.db.sr = d.sr /\ result.db.queue = d.queue
           /\ result.db.versions = d.versions
           /\ result.db.seq[type] \in Nat \ {0}
<1>1. result.db = [d EXCEPT !.seq[type] = @ + 1]
  BY DEF GenerateTicketNumber, Tx
<1> QED
  BY <1>1 DEF Store

-----------------------------------------------------------------------------
(* One step of a request's workflow.                                       *)

\* Where the customer or the processing centre has agreed; and where the change
\* has been written.
AgreedPc == {"verify", "approve", "apply", "complete"}
Late == {"complete"} \cup Closed

\* The signals a step consumes are the oldest ones.
Consumes(r) ==
    /\ sig' \in [Requests -> Signals]
    /\ \A q \in Requests \ {r} : sig'[q] = sig[q]
    /\ sig'[r].otp <= sig[r].otp
    /\ \/ sig'[r].decisions = sig[r].decisions
       \/ sig[r].decisions # <<>> /\ sig'[r].decisions = Tail(sig[r].decisions)

\* How the workflow goes from one position to the next.
Moves(r) ==
    /\ Running(r) /\ wf'[r].pc # "none"
    /\ wf' \in [Requests -> WorkflowState]
    /\ \A q \in Requests \ {r} : wf'[q] = wf[q]
    /\ wf'[r].pc \in AgreedPc =>
         \/ wf[r].pc \in AgreedPc
         \/ sig[r].otp > 0
         \/ sig[r].decisions # <<>> /\ Head(sig[r].decisions).decision = "APPROVE"
    /\ wf'[r].pc = "approve" =>
         \/ wf'[r].decision # NoDecision
         \/ wf[r].pc = "approve" /\ wf'[r].decision = wf[r].decision
    /\ wf'[r].decision = wf[r].decision \/ sig[r].decisions # <<>>
    /\ wf[r].pc = "complete" => wf'[r].pc \in Late \/ faults' = faults + 1
    /\ wf'[r].pc = "complete" /\ wf[r].pc # "complete"
         => wf[r].pc = "apply" /\ AddsVersion(db, db', r)

\* The statuses it writes, and from where it writes them.
Reports(r) ==
    /\ WritesRow(db, db', r)
    /\ db'.queue \subseteq db.queue \cup {r}
    /\ Status(db', r) = "COMPLETED" =>
         Status(db, r) = "COMPLETED" \/ wf[r].pc = "complete"
    /\ Status(db', r) = "IN_PROGRESS" =>
         Status(db, r) = "IN_PROGRESS" \/ wf[r].pc = "approve" \/ r \in db'.queue

\* A version costs a failure, or the workflow goes on to complete.
Applies(r) ==
    /\ wf[r].pc = "apply"
    /\ AddsVersion(db, db', r)
    /\ wf'[r].pc = "complete" \/ faults' = faults + 1

Faultless == faults' = faults
Faulty == faults' = faults + 1 /\ faults' \in 0..MaxFaults

WorkflowEffect(r) ==
    /\ Consumes(r) /\ Moves(r)
    /\ Reports(r) \/ Applies(r)
    /\ Faultless \/ Faulty
    /\ UNCHANGED <<wdw, consent>>

\* What the positions around an activity have in common.
Leads(pc, next, failed) ==
    /\ {pc, next, failed} \subseteq Positions \ {"none"}
    /\ pc \notin Closed
    /\ failed \notin AgreedPc
    /\ next \in AgreedPc => pc \in AgreedPc
    /\ next # "approve"
    /\ pc = "complete" => next \in Closed /\ failed \in Closed

\* A step that reads no signal consumes none.
LEMMA NothingConsumed ==
    ASSUME StateType, NEW r \in Requests, UNCHANGED sig
    PROVE  Consumes(r)
BY DEF StateType, Consumes, Signals

\* A step that writes no table reports nothing.
LEMMA NothingStored ==
    ASSUME StateType, NEW r \in Requests, UNCHANGED db
    PROVE  Reports(r)
BY DEF StateType, Reports, WritesRow, OnlyRow

\* An attempt that ends without a result.
LEMMA FailsEffect ==
    ASSUME StateType, NEW r \in Requests, NEW result,
           NEW start \in Positions, NEW failed \in Positions,
           Fails(r, result, start, failed)
    PROVE  /\ wf' \in [Requests -> WorkflowState]
           /\ \A q \in Requests \ {r} : wf'[q] = wf[q]
           /\ wf'[r].pc \in {start, failed} /\ wf'[r].decision = wf[r].decision
           /\ \/ ~result.ok /\ Faultless /\ UNCHANGED db
              \/ Faulty /\ db' \in {db, result.db}
<1>1. wf[r] \in WorkflowState /\ MaxAttempts \in Nat \ {0}
  BY BoundsAssumption DEF StateType
<1>2. wf' = IF wf[r].tries + 1 = MaxAttempts
            THEN [wf EXCEPT ![r] = [wf[r] EXCEPT !.pc = failed, !.tries = 0]]
            ELSE [wf EXCEPT ![r] = [wf[r] EXCEPT !.pc = start, !.tries = wf[r].tries + 1]]
  BY DEF Fails, AttemptEnds, StateType
<1>3. PICK pc \in {start, failed}, tries \in 0..(MaxAttempts - 1) :
        wf' = [wf EXCEPT ![r] = [wf[r] EXCEPT !.pc = pc, !.tries = tries]]
  <2>1. CASE wf[r].tries + 1 = MaxAttempts
    <3>1. 0 \in 0..(MaxAttempts - 1)
      BY <1>1
    <3>2. wf' = [wf EXCEPT ![r] = [wf[r] EXCEPT !.pc = failed, !.tries = 0]]
      BY <1>2, <2>1
    <3> QED
      BY <3>1, <3>2
  <2>2. CASE wf[r].tries + 1 # MaxAttempts
    <3>1. wf[r].tries + 1 \in 0..(MaxAttempts - 1)
      BY <1>1, <2>2 DEF WorkflowState
    <3>2. wf' = [wf EXCEPT ![r] = [wf[r] EXCEPT !.pc = start, !.tries = wf[r].tries + 1]]
      BY <1>2, <2>2
    <3> QED
      BY <3>1, <3>2
  <2> QED
    BY <2>1, <2>2
<1>4. PICK w \in WorkflowState : /\ w.pc = pc /\ w.decision = wf[r].decision
                                 /\ wf' = [wf EXCEPT ![r] = w]
  <2>1. /\ [wf[r] EXCEPT !.pc = pc, !.tries = tries] \in WorkflowState
        /\ [wf[r] EXCEPT !.pc = pc, !.tries = tries].pc = pc
        /\ [wf[r] EXCEPT !.pc = pc, !.tries = tries].decision = wf[r].decision
    BY <1>1 DEF WorkflowState
  <2> QED
    BY <1>3, <2>1
<1>5. /\ wf' \in [Requests -> WorkflowState]
      /\ \A q \in Requests \ {r} : wf'[q] = wf[q]
      /\ wf'[r] = w
  BY <1>4 DEF StateType
<1>6. \/ ~result.ok /\ Faultless /\ UNCHANGED db
      \/ Faulty /\ db' \in {db, result.db}
  <2>1. \/ ~result.ok /\ UNCHANGED <<db, faults>>
        \/ faults < MaxFaults /\ faults' = faults + 1 /\ db' \in {db, result.db}
    BY DEF Fails
  <2> QED
    BY <2>1, BoundsAssumption DEF Faultless, Faulty, StateType
<1> QED
  BY <1>3, <1>4, <1>5, <1>6

\* A step to another position.
LEMMA WentTo ==
    ASSUME StateType, NEW r \in Requests, NEW next \in Positions,
           \/ wf' = [wf EXCEPT ![r].pc = next]
           \/ wf' = [wf EXCEPT ![r].pc = next, ![r].tries = 0]
    PROVE  /\ wf' \in [Requests -> WorkflowState]
           /\ \A q \in Requests \ {r} : wf'[q] = wf[q]
           /\ wf'[r].pc = next /\ wf'[r].decision = wf[r].decision
<1>1. wf[r] \in WorkflowState /\ 0 \in 0..(MaxAttempts - 1)
  BY BoundsAssumption DEF StateType
<1>2. /\ [wf[r] EXCEPT !.pc = next] \in WorkflowState
      /\ [wf[r] EXCEPT !.pc = next, !.tries = 0] \in WorkflowState
  BY <1>1 DEF WorkflowState
<1>3. \/ wf' = [wf EXCEPT ![r] = [wf[r] EXCEPT !.pc = next]]
      \/ wf' = [wf EXCEPT ![r] = [wf[r] EXCEPT !.pc = next, !.tries = 0]]
  BY DEF StateType
<1> QED
  BY <1>1, <1>2, <1>3 DEF StateType, WorkflowState

\* An activity succeeds and leads on, fails and leaves the tables, or fails having
\* written or not.
LEMMA ActivityEffect ==
    ASSUME StateType, NEW r \in Requests, NEW result,
           NEW pc, NEW next, NEW failed, Leads(pc, next, failed),
           Activity(r, pc, result, next, failed)
    PROVE  /\ wf[r].pc = pc /\ Running(r)
           /\ wf' \in [Requests -> WorkflowState]
           /\ \A q \in Requests \ {r} : wf'[q] = wf[q]
           /\ wf'[r].decision = wf[r].decision
           /\ Consumes(r) /\ UNCHANGED <<wdw, consent>>
           /\ \/ result.ok /\ db' = result.db /\ wf'[r].pc = next /\ Faultless
              \/ ~result.ok /\ UNCHANGED db /\ wf'[r].pc \in {pc, failed} /\ Faultless
              \/ db' \in {db, result.db} /\ wf'[r].pc \in {pc, failed} /\ Faulty
<1>1. wf[r].pc = pc /\ UNCHANGED <<wdw, sig, consent>>
  BY DEF Activity
<1>2. Running(r) /\ pc \in Positions /\ next \in Positions /\ failed \in Positions
  BY <1>1 DEF Running, Leads
<1>3. CASE /\ result.ok /\ db' = result.db /\ UNCHANGED faults
           /\ wf' = [wf EXCEPT ![r].pc = next, ![r].tries = 0]
  <2>1. /\ wf' \in [Requests -> WorkflowState]
        /\ \A q \in Requests \ {r} : wf'[q] = wf[q]
        /\ wf'[r].pc = next /\ wf'[r].decision = wf[r].decision
    BY <1>2, <1>3, WentTo
  <2> QED
    BY <1>1, <1>2, <1>3, <2>1, NothingConsumed DEF Faultless
<1>4. CASE Fails(r, result, pc, failed)
  <2>1. /\ wf' \in [Requests -> WorkflowState]
        /\ \A q \in Requests \ {r} : wf'[q] = wf[q]
        /\ wf'[r].pc \in {pc, failed} /\ wf'[r].decision = wf[r].decision
        /\ \/ ~result.ok /\ Faultless /\ UNCHANGED db
           \/ Faulty /\ db' \in {db, result.db}
    BY <1>2, <1>4, FailsEffect
  <2> QED
    BY <1>1, <1>2, <2>1, NothingConsumed
<1> QED
  BY <1>3, <1>4 DEF Activity

\* An activity that writes the row of the request.
LEMMA RowActivity ==
    ASSUME StateType, NEW r \in Requests, NEW result,
           NEW pc, NEW next, NEW failed, Leads(pc, next, failed), next # "complete",
           Activity(r, pc, result, next, failed),
           WritesRow(db, result.db, r),
           result.db.queue \subseteq db.queue \cup {r},
           Status(result.db, r) = "COMPLETED" => Status(db, r) = "COMPLETED" \/ pc = "complete",
           Status(result.db, r) = "IN_PROGRESS" =>
              \/ Status(db, r) = "IN_PROGRESS" \/ pc = "approve"
              \/ r \in result.db.queue
    PROVE  WorkflowEffect(r)
<1>1. Reports(r)
  BY ActivityEffect, NothingStored DEF Reports
<1>2. Moves(r)
  BY ActivityEffect DEF Moves, Leads, Late, AgreedPc, Faultless, Faulty, Closed
<1> QED
  BY <1>1, <1>2, ActivityEffect DEF WorkflowEffect

\* An activity that writes a version leads to completion, if it succeeds.
LEMMA VersionActivity ==
    ASSUME StateType, NEW r \in Requests, NEW result,
           NEW failed \in Closed,
           Activity(r, "apply", result, "complete", failed),
           result \in {CreateAddressVersion(db, r), CreateNameVersion(db, r)}
    PROVE  WorkflowEffect(r)
<1>1. Leads("apply", "complete", failed)
  <2>1. CASE failed = "closed"
    BY <2>1 DEF Leads, AgreedPc, Closed, Positions, Waits, Executes
  <2>2. CASE failed = "failed"
    BY <2>2 DEF Leads, AgreedPc, Closed, Positions, Waits, Executes
  <2> QED
    BY <2>1, <2>2 DEF Closed
<1>2. /\ result.ok => AddsVersion(db, result.db, r)
      /\ ~result.ok => result.db = db
  BY VersionEffect DEF StateType
<1>3. Reports(r) \/ Applies(r)
  BY <1>1, <1>2, ActivityEffect, NothingStored DEF Applies, Faulty
<1>4. Moves(r)
  BY <1>1, <1>2, ActivityEffect DEF Moves, AgreedPc, Closed
<1> QED
  BY <1>1, <1>3, <1>4, ActivityEffect DEF WorkflowEffect

\* Activities that write nothing: OTP calls, notifications, stubs.
LEMMA StubActivity ==
    ASSUME StateType, NEW r \in Requests, NEW result, result.db = db,
           NEW pc, NEW next, NEW failed, Leads(pc, next, failed), next # "complete",
           Activity(r, pc, result, next, failed)
    PROVE  WorkflowEffect(r)
<1>1. WritesRow(db, db, r)
  BY DEF StateType, WritesRow, OnlyRow
<1> QED
  BY <1>1, RowActivity

\* Storing the workflow id.
LEMMA StoreActivity ==
    ASSUME StateType, NEW r \in Requests,
           NEW pc, NEW next, NEW failed, Leads(pc, next, failed), next # "complete",
           Activity(r, pc, UpdateWorkflowState(db, r), next, failed)
    PROVE  WorkflowEffect(r)
<1> DEFINE result == UpdateWorkflowState(db, r)
<1>1. /\ WritesRow(db, result.db, r)
      /\ result.db.queue = db.queue
      /\ Status(result.db, r) = Status(db, r)
  BY RowUpdateEffect DEF StateType
<1> HIDE DEF result
<1> QED
  BY <1>1, RowActivity DEF result

\* Assigning to the queue.
LEMMA AssignActivity ==
    ASSUME StateType, NEW r \in Requests,
           NEW pc, NEW next, NEW failed, Leads(pc, next, failed), next # "complete",
           Activity(r, pc, AssignRequestToQueue(db, r), next, failed)
    PROVE  WorkflowEffect(r)
<1> DEFINE result == AssignRequestToQueue(db, r)
<1>1. /\ WritesRow(db, result.db, r)
      /\ \/ result.db = db
         \/ Status(result.db, r) = "IN_PROGRESS" /\ r \in result.db.queue
      /\ result.db.queue \subseteq db.queue \cup {r}
  BY AssignEffect DEF StateType
<1> HIDE DEF result
<1> QED
  BY <1>1, RowActivity DEF result

\* Writing a status: COMPLETED only on completing, IN_PROGRESS only on approving.
LEMMA StatusActivity ==
    ASSUME StateType, NEW r \in Requests, NEW new, NEW reason, NEW audited,
           NEW pc, NEW next, NEW failed, Leads(pc, next, failed), next # "complete",
           Activity(r, pc, UpdateStatus(db, r, new, reason, audited), next, failed),
           new = "COMPLETED" => pc = "complete",
           new = "IN_PROGRESS" => pc = "approve"
    PROVE  WorkflowEffect(r)
<1> DEFINE result == UpdateStatus(db, r, new, reason, audited)
<1>1. /\ WritesRow(db, result.db, r)
      /\ result.db.queue = db.queue
      /\ result.db # db => Status(result.db, r) = new
  BY UpdateStatusEffect DEF StateType
<1> HIDE DEF result
<1> QED
  BY <1>1, RowActivity DEF result

-----------------------------------------------------------------------------
(* Waits.                                                                  *)

\* Signals less an OTP or less the oldest decision are consumed in order.
LEMMA SignalsTaken ==
    ASSUME StateType, NEW r \in Requests, NEW s \in Signals,
           sig' = [sig EXCEPT ![r] = s], s.otp <= sig[r].otp,
           \/ s.decisions = sig[r].decisions
           \/ sig[r].decisions # <<>> /\ s.decisions = Tail(sig[r].decisions)
    PROVE  Consumes(r)
<1>1. sig' \in [Requests -> Signals] /\ sig'[r] = s
      /\ \A q \in Requests \ {r} : sig'[q] = sig[q]
  BY DEF StateType
<1> QED
  BY <1>1 DEF Consumes

\* Taking one OTP, document or withdrawal signal.
LEMMA SignalConsumed ==
    ASSUME StateType, NEW r \in Requests,
           \/ sig[r].otp > 0 /\ sig' = [sig EXCEPT ![r].otp = @ - 1]
           \/ sig[r].docs > 0 /\ sig' = [sig EXCEPT ![r].docs = @ - 1]
           \/ sig[r].withdrawal > 0 /\ sig' = [sig EXCEPT ![r].withdrawal = @ - 1]
    PROVE  Consumes(r)
<1>1. sig[r] \in Signals /\ sig \in [Requests -> Signals]
  BY DEF StateType
<1>2. CASE sig[r].otp > 0 /\ sig' = [sig EXCEPT ![r].otp = @ - 1]
  <2> DEFINE s == [sig[r] EXCEPT !.otp = sig[r].otp - 1]
  <2>1. sig' = [sig EXCEPT ![r] = s]
    BY <1>1, <1>2
  <2>2. sig[r].otp \in Nat /\ sig[r].otp - 1 \in Nat
    BY <1>1, <1>2 DEF Signals
  <2>3. s \in Signals /\ s.otp = sig[r].otp - 1 /\ s.decisions = sig[r].decisions
    BY <1>1, <2>2 DEF Signals
  <2> HIDE DEF s
  <2>4. s.otp <= sig[r].otp
    BY <2>2, <2>3
  <2> QED
    BY <2>1, <2>3, <2>4, SignalsTaken
<1>3. CASE sig[r].docs > 0 /\ sig' = [sig EXCEPT ![r].docs = @ - 1]
  <2> DEFINE s == [sig[r] EXCEPT !.docs = sig[r].docs - 1]
  <2>1. sig' = [sig EXCEPT ![r] = s]
    BY <1>1, <1>3
  <2>2. s \in Signals /\ s.otp <= sig[r].otp /\ s.decisions = sig[r].decisions
    BY <1>1, <1>3 DEF Signals
  <2> HIDE DEF s
  <2> QED
    BY <2>1, <2>2, SignalsTaken
<1>4. CASE sig[r].withdrawal > 0 /\ sig' = [sig EXCEPT ![r].withdrawal = @ - 1]
  <2> DEFINE s == [sig[r] EXCEPT !.withdrawal = sig[r].withdrawal - 1]
  <2>1. sig' = [sig EXCEPT ![r] = s]
    BY <1>1, <1>4
  <2>2. s \in Signals /\ s.otp <= sig[r].otp /\ s.decisions = sig[r].decisions
    BY <1>1, <1>4 DEF Signals
  <2> HIDE DEF s
  <2> QED
    BY <2>1, <2>2, SignalsTaken
<1> QED
  BY <1>2, <1>3, <1>4

\* The workflow goes on from a wait.
LEMMA GoesOn ==
    ASSUME StateType, NEW r \in Requests, NEW pc \in Waits, NEW next \in Positions \ {"none"},
           wf[r].pc = pc, Goto(r, next), Consumes(r),
           next \notin {"approve", "complete"},
           next \in AgreedPc => sig[r].otp > 0
    PROVE  WorkflowEffect(r)
<1>1. /\ wf' \in [Requests -> WorkflowState]
      /\ \A q \in Requests \ {r} : wf'[q] = wf[q]
      /\ wf'[r].pc = next /\ wf'[r].decision = wf[r].decision
  BY WentTo DEF Goto
<1>2. UNCHANGED <<db, wdw, faults, consent>>
  BY DEF Goto
<1>3. Running(r) /\ pc # "complete"
  BY DEF Running, Waits, Closed
<1>4. Moves(r)
  BY <1>1, <1>3 DEF Moves
<1> QED
  BY <1>2, <1>4, NothingStored DEF WorkflowEffect, Faultless

\* A timer that fires leads to no agreed position.
LEMMA TimerGoesOn ==
    ASSUME StateType, NEW r \in Requests, NEW pc \in Waits, NEW next \in Positions \ {"none"},
           Timer(r, pc, next), next \notin AgreedPc
    PROVE  WorkflowEffect(r)
<1>1. wf[r].pc = pc /\ Goto(r, next) /\ UNCHANGED sig
  BY DEF Timer
<1>2. next \notin {"approve", "complete"}
  BY DEF AgreedPc
<1> QED
  BY <1>1, <1>2, NothingConsumed, GoesOn

\* Documents that arrive lead to no agreed position.
LEMMA DocsGoOn ==
    ASSUME StateType, NEW r \in Requests, NEW pc \in Waits, NEW next \in Positions \ {"none"},
           ReceiveDocs(r, pc, next), next \notin AgreedPc
    PROVE  WorkflowEffect(r)
<1>1. wf[r].pc = pc /\ Goto(r, next) /\ Consumes(r)
  BY SignalConsumed DEF ReceiveDocs
<1>2. next \notin {"approve", "complete"}
  BY DEF AgreedPc
<1> QED
  BY <1>1, <1>2, GoesOn

\* A withdrawal signal closes the workflow.
LEMMA WithdrawalGoesOn ==
    ASSUME StateType, NEW r \in Requests, NEW pc \in Waits, ReceiveWithdrawal(r, pc)
    PROVE  WorkflowEffect(r)
<1>1. wf[r].pc = pc /\ Goto(r, "closed") /\ Consumes(r)
  BY SignalConsumed DEF ReceiveWithdrawal
<1>2. "closed" \notin AgreedPc /\ "closed" \in Positions \ {"none"}
  BY DEF AgreedPc, Positions, Closed
<1> QED
  BY <1>1, <1>2, GoesOn

\* The OTP signal leads to the verification, the timer to the expiry.
LEMMA OTPGoesOn ==
    ASSUME StateType, NEW r \in Requests, OTPWait(r, "verify", "expire")
    PROVE  WorkflowEffect(r)
<1>1. /\ "otp_wait" \in Waits /\ "expire" \notin AgreedPc
      /\ {"verify", "expire"} \subseteq Positions \ {"none"}
  BY DEF AgreedPc, Positions, Waits, Executes
<1>2. CASE ReceiveOTP(r, "verify")
  <2>1. wf[r].pc = "otp_wait" /\ Goto(r, "verify") /\ sig[r].otp > 0 /\ Consumes(r)
    BY <1>2, SignalConsumed DEF ReceiveOTP
  <2> QED
    BY <1>1, <2>1, GoesOn
<1>3. CASE Timer(r, "otp_wait", "expire")
  BY <1>1, <1>3, TimerGoesOn
<1> QED
  BY <1>2, <1>3 DEF OTPWait

\* A decision leads to work on the request only if it is an approval.
LEMMA DecisionGoesOn ==
    ASSUME StateType, NEW r \in Requests, NEW pc \in Waits,
           NEW next \in {AddressDecision, NameDecision},
           ReceiveDecision(r, pc, next)
    PROVE  WorkflowEffect(r)
<1> DEFINE head == Head(sig[r].decisions)
           w == [wf[r] EXCEPT !.pc = next[head.decision], !.decision = head]
<1>1. /\ sig[r].decisions \in Seq(Decisions) /\ sig[r].decisions # <<>>
      /\ sig \in [Requests -> Signals] /\ sig[r] \in Signals
  BY DEF StateType, ReceiveDecision, Signals
<1>2. head \in Decisions /\ Tail(sig[r].decisions) \in Seq(Decisions)
  BY <1>1
<1>3. head.decision \in {"APPROVE", "REJECT", "SEND_BACK"} /\ head # NoDecision
  BY <1>2 DEF Decisions, NoDecision
<1>4. /\ next[head.decision] \in Positions \ {"none"}
      /\ next[head.decision] # "complete"
      /\ next[head.decision] \in AgreedPc => head.decision = "APPROVE"
  BY <1>3 DEF AddressDecision, NameDecision, AgreedPc, Positions, Executes
<1>5. wf[r] \in WorkflowState /\ wf \in [Requests -> WorkflowState]
  BY DEF StateType
<1>6. wf' = [wf EXCEPT ![r] = w]
  BY <1>5 DEF ReceiveDecision
<1> HIDE DEF head
<1>7. w \in WorkflowState /\ w.pc = next[head.decision] /\ w.decision = head
  BY <1>2, <1>4, <1>5 DEF WorkflowState
<1>8. Consumes(r)
  <2> DEFINE s == [sig[r] EXCEPT !.decisions = Tail(sig[r].decisions)]
  <2>1. sig' = [sig EXCEPT ![r] = s]
    BY <1>1 DEF ReceiveDecision
  <2>2. /\ s \in Signals /\ s.otp = sig[r].otp /\ sig[r].otp \in Nat
        /\ s.decisions = Tail(sig[r].decisions)
    BY <1>1, <1>2 DEF Signals
  <2> HIDE DEF s
  <2>3. s.otp <= sig[r].otp
    BY <2>2
  <2> QED
    BY <1>1, <2>1, <2>2, <2>3, SignalsTaken
<1>9. Running(r) /\ wf[r].pc = pc /\ pc # "complete"
  BY DEF ReceiveDecision, Running, Waits, Closed
<1> HIDE DEF w
<1>10. Moves(r)
  <2>1. wf' \in [Requests -> WorkflowState] /\ wf'[r] = w
        /\ \A q \in Requests \ {r} : wf'[q] = wf[q]
    BY <1>5, <1>6, <1>7
  <2> QED
    BY <1>1, <1>3, <1>4, <1>7, <1>9, <2>1 DEF Moves, head
<1>11. UNCHANGED <<db, wdw, faults, consent>>
  BY DEF ReceiveDecision
<1> QED
  BY <1>8, <1>10, <1>11, NothingStored DEF WorkflowEffect, Faultless

-----------------------------------------------------------------------------
(* The workflows.                                                          *)

\* Address change with Aadhaar: every step is a WorkflowEffect.
LEMMA AadhaarAddressStep ==
    ASSUME StateType, NEW r \in Requests, AadhaarAddressChangeWorkflow(r)
    PROVE  WorkflowEffect(r)
<1> USE DEF Leads, AgreedPc, Closed, Positions, Waits, Executes
<1>1. CASE Activity(r, "store", StoreWorkflowState(db, r), "otp", "failed")
  BY <1>1, StoreActivity DEF StoreWorkflowState
<1>2. CASE Activity(r, "otp", RequestAadhaarOTP(db, r), "otp_wait", "failed")
  <2>1. RequestAadhaarOTP(db, r).db = db
    BY DEF RequestAadhaarOTP, Tx
  <2> QED
    BY <1>2, <2>1, StubActivity
<1>3. CASE OTPWait(r, "verify", "expire")
  BY <1>3, OTPGoesOn
<1>4. CASE Activity(r, "expire", AddressUpdateStatus(db, r, "DOCUMENTS_EXPIRED", "text"),
                    "closed", "closed")
  BY <1>4, StatusActivity DEF AddressUpdateStatus
<1>5. ASSUME NEW next \in {"apply", "refuse"},
             Activity(r, "verify", VerifyAadhaarOTP(db, r), next, "failed")
      PROVE  WorkflowEffect(r)
  <2>1. VerifyAadhaarOTP(db, r).db = db
    BY DEF VerifyAadhaarOTP, Tx
  <2> QED
    BY <1>5, <2>1, StubActivity
<1>6. CASE Activity(r, "refuse", AddressUpdateStatus(db, r, "REJECTED", "empty"),
                    "closed", "closed")
  BY <1>6, StatusActivity DEF AddressUpdateStatus
<1>7. CASE Activity(r, "apply", UpdateAddressData(db, r), "complete", "failed")
  BY <1>7, VersionActivity DEF UpdateAddressData
<1>8. CASE Activity(r, "complete", AddressUpdateStatus(db, r, "COMPLETED", "none"),
                    "closed", "failed")
  BY <1>8, StatusActivity DEF AddressUpdateStatus
<1> QED
  BY <1>1, <1>2, <1>3, <1>4, <1>5, <1>6, <1>7, <1>8 DEF AadhaarAddressChangeWorkflow

\* Address change with documents: every step is a WorkflowEffect.
LEMMA ManualAddressStep ==
    ASSUME StateType, NEW r \in Requests, ManualAddressChangeWorkflow(r)
    PROVE  WorkflowEffect(r)
<1> USE DEF Leads, AgreedPc, Closed, Positions, Waits, Executes
<1>1. CASE ManualAddressStart(r)
  <2>1. CASE Activity(r, "store", StoreWorkflowState(db, r), "submit", "failed")
    BY <2>1, StoreActivity DEF StoreWorkflowState
  <2>2. CASE Activity(r, "submit", AddressUpdateStatus(db, r, "PENDING_APPROVAL", "none"),
                      "assign", "failed")
    BY <2>2, StatusActivity DEF AddressUpdateStatus
  <2>3. CASE Activity(r, "assign", AssignToCPC(db, r), "wait", "failed")
    BY <2>3, AssignActivity DEF AssignToCPC
  <2> QED
    BY <1>1, <2>1, <2>2, <2>3 DEF ManualAddressStart
<1>2. CASE ManualAddressWait(r)
  <2>1. CASE ReceiveDecision(r, "wait", AddressDecision)
    BY <2>1, DecisionGoesOn
  <2>2. CASE Timer(r, "wait", "grace")
    BY <2>2, TimerGoesOn
  <2>3. CASE Grace(r)
    BY <2>3, DecisionGoesOn, TimerGoesOn DEF Grace
  <2>4. CASE Activity(r, "no_decision", AddressUpdateStatus(db, r, "REJECTED", "text"),
                      "closed", "closed")
    BY <2>4, StatusActivity DEF AddressUpdateStatus
  <2> QED
    BY <1>2, <2>1, <2>2, <2>3, <2>4 DEF ManualAddressWait
<1>3. CASE ManualAddressApprove(r)
  <2>1. CASE Activity(r, "approve", AddressUpdateStatus(db, r, "IN_PROGRESS", "none"),
                      "apply", "failed")
    BY <2>1, StatusActivity DEF AddressUpdateStatus
  <2>2. CASE Activity(r, "apply", UpdateAddressData(db, r), "complete", "failed")
    BY <2>2, VersionActivity DEF UpdateAddressData
  <2>3. CASE Activity(r, "complete", AddressUpdateStatus(db, r, "COMPLETED", "none"),
                      "closed", "failed")
    BY <2>3, StatusActivity DEF AddressUpdateStatus
  <2> QED
    BY <1>3, <2>1, <2>2, <2>3 DEF ManualAddressApprove
<1>4. CASE ManualAddressReject(r)
  BY <1>4, StatusActivity DEF ManualAddressReject, AddressUpdateStatus
<1>5. CASE ManualAddressSendBack(r)
  <2>1. CASE Activity(r, "send_back",
                      AddressUpdateStatus(db, r, "PENDING_DOCUMENTS", wf[r].decision.remarks),
                      "resubmit", "failed")
    BY <2>1, StatusActivity DEF AddressUpdateStatus
  <2>2. CASE ReceiveDocs(r, "resubmit", "reassign")
    BY <2>2, DocsGoOn
  <2>3. CASE Activity(r, "reassign", AssignToCPC(db, r), "wait", "failed")
    BY <2>3, AssignActivity DEF AssignToCPC
  <2> QED
    BY <1>5, <2>1, <2>2, <2>3 DEF ManualAddressSendBack
<1> QED
  BY <1>1, <1>2, <1>3, <1>4, <1>5 DEF ManualAddressChangeWorkflow

\* A name's version and status are two transactions of one activity.
LEMMA UpdateNameDataStep ==
    ASSUME StateType, NEW r \in Requests, UpdateNameData(r), IsName(db, r)
    PROVE  WorkflowEffect(r)
<1>1. UNCHANGED <<wdw, sig, consent>> /\ Consumes(r)
  BY NothingConsumed DEF UpdateNameData
<1>2. {"apply", "complete", "closed", "failed"} \subseteq Positions \ {"none"}
  BY DEF Positions, Executes, Closed
<1>3. CASE wf[r].pc = "apply"
  <2> DEFINE result == NameDataVersion(db, r)
  <2>1. /\ result.ok => AddsVersion(db, result.db, r)
        /\ ~result.ok => result.db = db
    BY VersionEffect DEF StateType, NameDataVersion
  <2>2. \/ /\ result.ok /\ db' = result.db /\ UNCHANGED faults
           /\ wf' = [wf EXCEPT ![r].pc = "complete"]
        \/ Fails(r, result, "apply", "failed")
    BY <1>3 DEF UpdateNameData
  <2> HIDE DEF result
  <2>3. CASE /\ result.ok /\ db' = result.db /\ UNCHANGED faults
             /\ wf' = [wf EXCEPT ![r].pc = "complete"]
    <3>1. /\ wf' \in [Requests -> WorkflowState]
          /\ \A q \in Requests \ {r} : wf'[q] = wf[q]
          /\ wf'[r].pc = "complete" /\ wf'[r].decision = wf[r].decision
      BY <1>2, <2>3, WentTo
    <3>2. Moves(r)
      BY <1>3, <2>1, <2>3, <3>1 DEF Moves, AgreedPc, Running, Closed
    <3>3. Applies(r)
      BY <1>3, <2>1, <2>3, <3>1 DEF Applies
    <3> QED
      BY <1>1, <2>3, <3>2, <3>3 DEF WorkflowEffect, Faultless
  <2>4. CASE Fails(r, result, "apply", "failed")
    <3>1. /\ wf' \in [Requests -> WorkflowState]
          /\ \A q \in Requests \ {r} : wf'[q] = wf[q]
          /\ wf'[r].pc \in {"apply", "failed"} /\ wf'[r].decision = wf[r].decision
          /\ \/ ~result.ok /\ Faultless /\ UNCHANGED db
             \/ Faulty /\ db' \in {db, result.db}
      BY <1>2, <2>4, FailsEffect
    <3>2. Moves(r)
      BY <1>3, <3>1 DEF Moves, AgreedPc, Running, Closed
    <3>3. Reports(r) \/ Applies(r)
      BY <1>3, <2>1, <3>1, NothingStored DEF Applies, Faulty
    <3> QED
      BY <1>1, <3>1, <3>2, <3>3 DEF WorkflowEffect
  <2> QED
    BY <2>2, <2>3, <2>4
<1>4. CASE wf[r].pc = "complete"
  <2> DEFINE result == NameDataComplete(db, r)
  <2>1. /\ WritesRow(db, result.db, r)
        /\ result.db.queue = db.queue
        /\ result.db # db => Status(result.db, r) = "COMPLETED"
    BY UpdateStatusEffect DEF StateType, NameDataComplete
  <2>2. result.ok = TRUE
    <3>1. Exists(db, r)
      BY DEF IsName, Exists, NoRow
    <3> QED
      BY <3>1 DEF NameDataComplete, UpdateStatus, Tx, Written, Statuses
  <2>3. \/ /\ db' = result.db /\ UNCHANGED faults
           /\ wf' = [wf EXCEPT ![r].pc = "closed", ![r].tries = 0]
        \/ Fails(r, result, "apply", "failed")
    BY <1>4 DEF UpdateNameData
  <2> HIDE DEF result
  <2>4. ASSUME db' \in {db, result.db}
        PROVE  Reports(r)
    BY <1>4, <2>1, <2>4, NothingStored DEF Reports
  <2>5. CASE /\ db' = result.db /\ UNCHANGED faults
             /\ wf' = [wf EXCEPT ![r].pc = "closed", ![r].tries = 0]
    <3>1. /\ wf' \in [Requests -> WorkflowState]
          /\ \A q \in Requests \ {r} : wf'[q] = wf[q]
          /\ wf'[r].pc = "closed" /\ wf'[r].decision = wf[r].decision
      BY <1>2, <2>5, WentTo
    <3>2. Moves(r)
      BY <1>4, <3>1 DEF Moves, AgreedPc, Running, Closed, Late
    <3> QED
      BY <1>1, <2>4, <2>5, <3>2 DEF WorkflowEffect, Faultless
  <2>6. CASE Fails(r, result, "apply", "failed")
    <3>1. /\ wf' \in [Requests -> WorkflowState]
          /\ \A q \in Requests \ {r} : wf'[q] = wf[q]
          /\ wf'[r].pc \in {"apply", "failed"} /\ wf'[r].decision = wf[r].decision
          /\ Faulty /\ db' \in {db, result.db}
      BY <1>2, <2>2, <2>6, FailsEffect
    <3>2. Moves(r)
      BY <1>4, <3>1 DEF Moves, AgreedPc, Running, Closed, Faulty
    <3> QED
      BY <1>1, <2>4, <3>1, <3>2 DEF WorkflowEffect
  <2> QED
    BY <2>3, <2>5, <2>6
<1> QED
  BY <1>3, <1>4 DEF UpdateNameData

\* Name change with Aadhaar: every step is a WorkflowEffect.
LEMMA AadhaarNameStep ==
    ASSUME StateType, NEW r \in Requests, AadhaarNameChangeWorkflow(r)
    PROVE  WorkflowEffect(r)
<1> USE DEF Leads, AgreedPc, Closed, Positions, Waits, Executes
<1>1. CASE Activity(r, "store", StoreWorkflowStateForName(db, r), "otp", "failed")
  BY <1>1, StoreActivity DEF StoreWorkflowStateForName
<1>2. CASE Activity(r, "otp", RequestNameOTP(db, r), "otp_wait", "failed")
  <2>1. RequestNameOTP(db, r).db = db
    BY DEF RequestNameOTP, Tx
  <2> QED
    BY <1>2, <2>1, StubActivity
<1>3. CASE OTPWait(r, "verify", "expire")
  BY <1>3, OTPGoesOn
<1>4. CASE Activity(r, "expire", UpdateNameStatus(db, r, "DOCUMENTS_EXPIRED"),
                    "closed", "closed")
  BY <1>4, StatusActivity DEF UpdateNameStatus
<1>5. CASE Activity(r, "verify", VerifyNameOTP(db, r), "apply", "failed")
  <2>1. VerifyNameOTP(db, r).db = db
    BY DEF VerifyNameOTP, Tx
  <2> QED
    BY <1>5, <2>1, StubActivity
<1>6. CASE UpdateNameData(r)
  BY <1>6, UpdateNameDataStep DEF AadhaarNameChangeWorkflow, NameAadhaar
<1> QED
  BY <1>1, <1>2, <1>3, <1>4, <1>5, <1>6 DEF AadhaarNameChangeWorkflow

\* Name change with documents: every step is a WorkflowEffect.
LEMMA ManualNameStep ==
    ASSUME StateType, NEW r \in Requests, ManualNameChangeWorkflow(r)
    PROVE  WorkflowEffect(r)
<1> USE DEF Leads, AgreedPc, Closed, Positions, Waits, Executes
<1>1. CASE ManualNameDocuments(r)
  <2>1. CASE Activity(r, "store", StoreWorkflowStateForName(db, r), "docs", "failed")
    BY <2>1, StoreActivity DEF StoreWorkflowStateForName
  <2>2. CASE ReceiveDocs(r, "docs", "docs_again")
    BY <2>2, DocsGoOn
  <2>3. CASE ReceiveWithdrawal(r, "docs")
    BY <2>3, WithdrawalGoesOn
  <2>4. CASE ReceiveDocs(r, "docs_again", "assign")
    BY <2>4, DocsGoOn
  <2>5. CASE Activity(r, "assign", AssignNameToCPC(db, r), "wait", "failed")
    BY <2>5, AssignActivity DEF AssignNameToCPC
  <2> QED
    BY <1>1, <2>1, <2>2, <2>3, <2>4, <2>5 DEF ManualNameDocuments
<1>2. CASE ManualNameWait(r)
  <2>1. CASE ReceiveDecision(r, "wait", NameDecision)
    BY <2>1, DecisionGoesOn
  <2>2. CASE Timer(r, "wait", "grace")
    BY <2>2, TimerGoesOn
  <2>3. CASE Timer(r, "wait", "expire")
    BY <2>3, TimerGoesOn
  <2>4. CASE ReceiveDecision(r, "grace", NameDecision)
    BY <2>4, DecisionGoesOn
  <2>5. CASE Timer(r, "grace", "expire")
    BY <2>5, TimerGoesOn
  <2>6. CASE Activity(r, "expire", UpdateNameStatus(db, r, "DOCUMENTS_EXPIRED"),
                      "closed", "closed")
    BY <2>6, StatusActivity DEF UpdateNameStatus
  <2> QED
    BY <1>2, <2>1, <2>2, <2>3, <2>4, <2>5, <2>6 DEF ManualNameWait
<1>3. CASE UpdateNameData(r)
  BY <1>3, UpdateNameDataStep DEF ManualNameChangeWorkflow, NameManual
<1>4. CASE ManualNameReject(r)
  BY <1>4, StatusActivity DEF ManualNameReject, UpdateNameStatus
<1>5. CASE ManualNameSendBack(r)
  <2>1. CASE Activity(r, "send_back", UpdateNameStatus(db, r, "PENDING_DOCUMENTS"),
                      "resubmit", "resubmit")
    BY <2>1, StatusActivity DEF UpdateNameStatus
  <2>2. CASE ReceiveDocs(r, "resubmit", "resubmit_again")
    BY <2>2, DocsGoOn
  <2>3. CASE ReceiveWithdrawal(r, "resubmit")
    BY <2>3, WithdrawalGoesOn
  <2>4. CASE ReceiveDocs(r, "resubmit_again", "reassign")
    BY <2>4, DocsGoOn
  <2>5. CASE Activity(r, "reassign", AssignNameToCPC(db, r), "wait", "wait")
    BY <2>5, AssignActivity DEF AssignNameToCPC
  <2> QED
    BY <1>5, <2>1, <2>2, <2>3, <2>4, <2>5 DEF ManualNameSendBack
<1> QED
  BY <1>1, <1>2, <1>3, <1>4, <1>5 DEF ManualNameChangeWorkflow

\* Whatever its kind, a step of a change workflow is a WorkflowEffect.
LEMMA WorkflowStepEffect ==
    ASSUME StateType, NEW r \in Requests, WorkflowStep(r)
    PROVE  WorkflowEffect(r)
BY AadhaarAddressStep, ManualAddressStep, AadhaarNameStep, ManualNameStep DEF WorkflowStep

-----------------------------------------------------------------------------
(* The handlers and the withdrawal workflow.                               *)

\* Only a delivered OTP or approval is news to the request's workflow.
Delivers(r) ==
    /\ sig' \in [Requests -> Signals]
    /\ \A q \in Requests \ {r} : sig'[q] = sig[q]
    /\ sig'[r].otp > 0 => sig[r].otp > 0 \/ r \in consent'
    /\ \/ sig'[r].decisions = sig[r].decisions
       \/ \E c \in Clients, decision \in Decisions :
             /\ call[c] # Idle /\ call[c].op = "approve" /\ call[c].r = r
             /\ sig'[r].decisions = Append(sig[r].decisions, decision)
             /\ decision.decision = "APPROVE" => r \in consent'

\* The statuses written by anyone but the request's workflow.
Restates(r, status) ==
    \/ status = Status(db, r)
    \/ status = "CREATED" /\ ~Exists(db, r)
    \/ /\ status = "PENDING_APPROVAL"
       /\ \E c \in Clients : At(c, "submit", "status") /\ call[c].r = r
    \/ status = "WITHDRAWN"

\* A workflow is started once, for a request that is in the table.
Starts(r) ==
    /\ wf' = [wf EXCEPT ![r].pc = "store"]
    /\ wf[r].pc = "none" /\ Exists(db, r) /\ UNCHANGED db

ServiceEffect(r) ==
    /\ WritesRow(db, db', r) /\ db'.queue = db.queue
    /\ Restates(r, Status(db', r))
    /\ UNCHANGED wf \/ Starts(r)
    /\ wdw' \in [Requests -> WithdrawalState]
    /\ Delivers(r)
    /\ Faultless \/ Faulty
    /\ UNCHANGED consent \/ (consent' = consent \cup {r} /\ UNCHANGED db)

\* A step that sends no signal delivers none.
LEMMA NothingDelivered ==
    ASSUME StateType, NEW r \in Requests, UNCHANGED <<sig, consent>>
    PROVE  Delivers(r)
BY DEF StateType, Delivers

\* A step that touches no more than the row of the request.
LEMMA RowServed ==
    ASSUME StateType, NEW r \in Requests,
           WritesRow(db, db', r), db'.queue = db.queue, Restates(r, Status(db', r)),
           wdw' \in [Requests -> WithdrawalState],
           UNCHANGED <<wf, sig, consent>>, Faultless \/ Faulty
    PROVE  ServiceEffect(r)
BY NothingDelivered DEF ServiceEffect

\* A step that leaves tables, workflows and signals serves nothing.
LEMMA NothingServed ==
    ASSUME StateType, NEW r \in Requests, UNCHANGED <<db, wf, sig, consent>>,
           wdw' \in [Requests -> WithdrawalState], Faultless \/ Faulty
    PROVE  ServiceEffect(r)
<1>1. WritesRow(db, db', r) /\ db'.queue = db.queue
  BY DEF StateType, WritesRow, OnlyRow
<1>2. Restates(r, Status(db', r))
  BY DEF Restates
<1> QED
  BY <1>1, <1>2, RowServed

\* A step of the withdrawal workflow is a ServiceEffect.
LEMMA WithdrawalStep ==
    ASSUME StateType, NEW r \in Requests, WithdrawalWorkflow(r)
    PROVE  ServiceEffect(r)
<1>1. /\ wdw \in [Requests -> WithdrawalState] /\ wdw[r] \in WithdrawalState
      /\ MaxAttempts \in Nat \ {0}
  BY BoundsAssumption DEF StateType
<1>2. ASSUME WithdrawalAttemptEnds(r)
      PROVE  wdw' \in [Requests -> WithdrawalState]
  <2>1. [pc |-> "failed", tries |-> 0] \in WithdrawalState
    BY <1>1 DEF WithdrawalState, Closed
  <2>2. ASSUME wdw[r].tries + 1 # MaxAttempts
        PROVE  [wdw EXCEPT ![r].tries = wdw[r].tries + 1] \in [Requests -> WithdrawalState]
    <3>1. wdw[r].tries + 1 \in 0..(MaxAttempts - 1)
      BY <1>1, <2>2 DEF WithdrawalState
    <3> QED
      BY <1>1, <3>1 DEF WithdrawalState
  <2> QED
    BY <1>1, <1>2, <2>1, <2>2 DEF WithdrawalAttemptEnds
<1>3. ASSUME NEW pc \in {"process", "failed", "notify"}
      PROVE  [wdw EXCEPT ![r] = [pc |-> pc, tries |-> 0]] \in [Requests -> WithdrawalState]
  BY <1>1 DEF WithdrawalState, Closed
<1>4. ASSUME faults < MaxFaults, faults' = faults + 1
      PROVE  Faulty
  BY <1>4, BoundsAssumption DEF Faulty, StateType
<1>5. CASE WithdrawalCheck(r)
  BY <1>2, <1>3, <1>4, <1>5, NothingServed DEF WithdrawalCheck, Faultless
<1>6. CASE WithdrawalProcess(r)
  <2> DEFINE result == ProcessWithdrawal(db, r)
  <2>1. /\ WritesRow(db, result.db, r)
        /\ result.db.queue = db.queue
        /\ result.db # db => Status(result.db, r) = "WITHDRAWN"
    BY UpdateStatusEffect DEF StateType, ProcessWithdrawal
  <2>2. db' \in {db, result.db} /\ UNCHANGED <<wf, sig, consent>>
    BY <1>6 DEF WithdrawalProcess
  <2>3. (Faultless \/ Faulty) /\ wdw' \in [Requests -> WithdrawalState]
    BY <1>2, <1>3, <1>4, <1>6 DEF WithdrawalProcess, Faultless
  <2> HIDE DEF result
  <2>4. CASE db' = db
    BY <2>2, <2>3, <2>4, NothingServed
  <2>5. CASE db' # db
    BY <2>1, <2>2, <2>3, <2>5, RowServed DEF Restates
  <2> QED
    BY <2>4, <2>5
<1>7. CASE WithdrawalNotify(r)
  <2>1. /\ UNCHANGED <<db, wf, faults, consent>>
        /\ wdw' = [wdw EXCEPT ![r].pc = "closed"]
        /\ \/ UNCHANGED sig
           \/ sig' = [sig EXCEPT ![r].withdrawal = @ + 1]
    BY <1>7 DEF WithdrawalNotify
  <2>2. wdw' \in [Requests -> WithdrawalState]
    <3>1. [wdw[r] EXCEPT !.pc = "closed"] \in WithdrawalState
      BY <1>1 DEF WithdrawalState, Closed
    <3>2. wdw' = [wdw EXCEPT ![r] = [wdw[r] EXCEPT !.pc = "closed"]]
      BY <1>1, <2>1
    <3> QED
      BY <1>1, <3>1, <3>2
  <2>3. Delivers(r)
    <3>1. CASE UNCHANGED sig
      BY <2>1, <3>1, NothingDelivered
    <3>2. CASE sig' = [sig EXCEPT ![r].withdrawal = @ + 1]
      <4> DEFINE s == [sig[r] EXCEPT !.withdrawal = sig[r].withdrawal + 1]
      <4>1. sig[r] \in Signals /\ sig \in [Requests -> Signals]
        BY DEF StateType
      <4>2. sig' = [sig EXCEPT ![r] = s]
        BY <3>2, <4>1
      <4>3. sig[r].withdrawal + 1 \in Nat
        BY <4>1 DEF Signals
      <4>4. s \in Signals /\ s.otp = sig[r].otp /\ s.decisions = sig[r].decisions
        BY <4>1, <4>3 DEF Signals
      <4> HIDE DEF s
      <4> QED
        BY <4>1, <4>2, <4>4 DEF Delivers
    <3> QED
      BY <2>1, <3>1, <3>2
  <2>4. WritesRow(db, db', r) /\ db'.queue = db.queue /\ Restates(r, Status(db', r))
    BY <2>1 DEF StateType, WritesRow, OnlyRow, Restates
  <2> QED
    BY <2>1, <2>2, <2>3, <2>4 DEF ServiceEffect, Faultless
<1> QED
  BY <1>5, <1>6, <1>7 DEF WithdrawalWorkflow

-----------------------------------------------------------------------------
(* The calls.                                                              *)

\* An initiating call that is past the insert has a row, and its workflow has
\* not been started before it says so.
InitiateReady(c) ==
    call[c] # Idle /\ call[c].op = "initiate" =>
      /\ call[c].at \in {"sla", "start"} => Exists(db, call[c].r)
      /\ call[c].at # "sla" \/ call[c].arg.type = "ADDRESS_CHANGE"
           => wf[call[c].r].pc = "none"

\* A call goes on, or returns.
CallEffect(c) ==
    /\ call[c] # Idle
    /\ call' \in [Clients -> CallState]
    /\ \A d \in Clients \ {c} : call'[d] = call[d]
    /\ call'[c] # Idle => call'[c].r = call[c].r /\ call'[c].op = call[c].op
    /\ InitiateReady(c)'

HandlerEffect(c) == CallEffect(c) /\ ServiceEffect(call[c].r)

\* A call that returns leaves its client idle.
LEMMA Returned ==
    ASSUME StateType, NEW c \in Clients, call[c] # Idle, Return(c)
    PROVE  CallEffect(c)
<1>1. call' = [call EXCEPT ![c] = Idle] /\ Idle \in CallState
  BY DEF Return, CallState
<1>2. call' \in [Clients -> CallState] /\ call'[c] = Idle
      /\ \A d \in Clients \ {c} : call'[d] = call[d]
  BY <1>1 DEF StateType
<1> QED
  BY <1>2 DEF CallEffect, InitiateReady

\* A call that goes on keeps its operation and request.
LEMMA WentOn ==
    ASSUME StateType, NEW c \in Clients, NEW at, call[c] # Idle, Goes(c, at),
           [call[c] EXCEPT !.at = at] \in CallState
    PROVE  /\ call' \in [Clients -> CallState]
           /\ \A d \in Clients \ {c} : call'[d] = call[d]
           /\ call'[c] = [call[c] EXCEPT !.at = at]
<1>1. call' = [call EXCEPT ![c] = [call[c] EXCEPT !.at = at]]
  BY DEF Goes, StateType
<1> QED
  BY <1>1 DEF StateType

\* An initiating call that goes on.
LEMMA InitiateWentOn ==
    ASSUME StateType, NEW c \in Clients, NEW at \in {"sla", "start"},
           call[c] # Idle, call[c].op = "initiate", call[c].at # "ticket",
           Goes(c, at), Exists(db', call[c].r),
           \/ at = "sla" /\ call[c].arg.type # "ADDRESS_CHANGE"
           \/ wf'[call[c].r].pc = "none"
    PROVE  CallEffect(c)
<1>1. call[c] \in InitiateCall /\ Ticketed(call[c])
  BY CallKinds DEF StateType
<1>2. /\ [call[c] EXCEPT !.at = at] \in InitiateCall
      /\ [call[c] EXCEPT !.at = at].at = at
      /\ [call[c] EXCEPT !.at = at].r = call[c].r
      /\ [call[c] EXCEPT !.at = at].op = call[c].op
      /\ [call[c] EXCEPT !.at = at].arg = call[c].arg
  BY <1>1 DEF InitiateCall
<1>3. Ticketed([call[c] EXCEPT !.at = at])
  BY <1>1, <1>2 DEF Ticketed
<1>4. [call[c] EXCEPT !.at = at] \in CallState
  BY <1>2, <1>3 DEF CallState
<1>5. /\ call' \in [Clients -> CallState]
      /\ \A d \in Clients \ {c} : call'[d] = call[d]
      /\ call'[c] = [call[c] EXCEPT !.at = at]
  BY <1>4, WentOn
<1>6. /\ call'[c].r = call[c].r /\ call'[c].op = call[c].op
      /\ call'[c].at = at /\ call'[c].arg = call[c].arg
  BY <1>2, <1>5
<1>7. InitiateReady(c)'
  BY <1>6 DEF InitiateReady
<1> QED
  BY <1>5, <1>6, <1>7 DEF CallEffect

\* A call of another kind that goes on.
LEMMA OtherWentOn ==
    ASSUME StateType, NEW c \in Clients, NEW at \in {"status", "signal"},
           call[c] # Idle, call[c].op \notin {"initiate", "approve"}, Goes(c, at)
    PROVE  CallEffect(c)
<1>1. call[c] \in OtherCall
  BY CallKinds DEF StateType
<1>2. /\ [call[c] EXCEPT !.at = at] \in OtherCall
      /\ [call[c] EXCEPT !.at = at].r = call[c].r
      /\ [call[c] EXCEPT !.at = at].op = call[c].op
  BY <1>1 DEF OtherCall
<1>3. [call[c] EXCEPT !.at = at] \in CallState
  BY <1>2 DEF CallState
<1>4. /\ call' \in [Clients -> CallState]
      /\ \A d \in Clients \ {c} : call'[d] = call[d]
      /\ call'[c] = [call[c] EXCEPT !.at = at]
  BY <1>3, WentOn
<1>5. call'[c].r = call[c].r /\ call'[c].op = call[c].op
  BY <1>2, <1>4
<1>6. InitiateReady(c)'
  BY <1>5 DEF InitiateReady
<1> QED
  BY <1>4, <1>5, <1>6 DEF CallEffect

\* A call is about a request.
LEMMA CallsRequest ==
    ASSUME StateType, NEW c \in Clients, call[c] # Idle
    PROVE  call[c] \in CallState /\ call[c].r \in Requests
BY CallKinds DEF StateType

\* The deadline and the status a handler writes.
LEMMA DeadlineServed ==
    ASSUME StateType, NEW r \in Requests, db' = UpdateSLADeadline(db, r).db,
           UNCHANGED <<wf, wdw, sig, faults, consent>>
    PROVE  ServiceEffect(r)
<1>1. /\ WritesRow(db, db', r) /\ db'.queue = db.queue
      /\ Status(db', r) = Status(db, r)
  BY RowUpdateEffect DEF StateType
<1>2. wdw' \in [Requests -> WithdrawalState]
  BY DEF StateType
<1> QED
  BY <1>1, <1>2, RowServed DEF Restates, Faultless

\* A handler that writes a status serves the request.
LEMMA StatusServed ==
    ASSUME StateType, NEW r \in Requests, NEW new, NEW reason, NEW audited,
           db' = UpdateStatus(db, r, new, reason, audited).db,
           audited => Restates(r, new),
           UNCHANGED <<wf, wdw, sig, faults, consent>>
    PROVE  ServiceEffect(r)
<1> DEFINE result == UpdateStatus(db, r, new, reason, audited)
<1>1. /\ WritesRow(db, result.db, r)
      /\ result.db.queue = db.queue
      /\ result.db # db => Status(result.db, r) = new
      /\ result.ok => audited
      /\ ~result.ok => result.db = db
  BY UpdateStatusEffect DEF StateType
<1> HIDE DEF result
<1>2. db' = result.db
  BY DEF result
<1>3. wdw' \in [Requests -> WithdrawalState]
  BY DEF StateType
<1>4. Restates(r, Status(db', r))
  BY <1>1, <1>2 DEF Restates
<1> QED
  BY <1>1, <1>2, <1>3, <1>4, RowServed DEF Faultless

-----------------------------------------------------------------------------
(* The handlers.                                                           *)

\* Drawing the ticket.
LEMMA TicketStep ==
    ASSUME StateType, NEW c \in Clients, InitiateReady(c), InitiateTicket(c)
    PROVE  HandlerEffect(c)
<1> DEFINE k == call[c]
           n == GenerateTicketNumber(db, k.arg.type).db.seq[k.arg.type]
           next == [k EXCEPT !.at = "create", !.arg = [k.arg EXCEPT !.ticket = n]]
<1>1. k # Idle /\ k.op = "initiate" /\ k.at = "ticket"
  BY DEF InitiateTicket, At
<1>2. k \in InitiateCall /\ k.arg \in InitiateArg /\ k.r \in Requests
  BY <1>1, CallKinds DEF StateType, InitiateCall
<1>3. /\ db' \in Store /\ db'.sr = db.sr /\ db'.queue = db.queue
      /\ db'.versions = db.versions
      /\ n \in Nat \ {0}
  BY <1>2, TicketEffect DEF InitiateTicket, StateType, InitiateArg
<1>4. UNCHANGED <<wf, wdw, sig, faults, consent>>
      /\ call' = [call EXCEPT ![c] = next]
  BY <1>1, <1>2 DEF InitiateTicket, StateType
<1> HIDE DEF n
<1>5. /\ [k.arg EXCEPT !.ticket = n] \in InitiateArg
      /\ [k.arg EXCEPT !.ticket = n].ticket = n
  BY <1>2, <1>3 DEF InitiateArg
<1>6. /\ next \in InitiateCall /\ next.at = "create" /\ next.r = k.r /\ next.op = k.op
      /\ next.arg.ticket = n
  BY <1>2, <1>5 DEF InitiateCall
<1> HIDE DEF next
<1>7. next \in CallState
  BY <1>3, <1>6 DEF CallState, Ticketed
<1>8. call' \in [Clients -> CallState] /\ call'[c] = next
      /\ \A d \in Clients \ {c} : call'[d] = call[d]
  BY <1>4, <1>7 DEF StateType
<1>9. InitiateReady(c)'
  BY <1>1, <1>4, <1>6, <1>8 DEF InitiateReady
<1>10. CallEffect(c)
  BY <1>1, <1>6, <1>8, <1>9 DEF CallEffect
<1>11. WritesRow(db, db', k.r) /\ Restates(k.r, Status(db', k.r))
  BY <1>2, <1>3 DEF WritesRow, OnlyRow, Restates, Status, Exists
<1>12. ServiceEffect(k.r)
  <2>1. wdw' \in [Requests -> WithdrawalState]
    BY <1>4 DEF StateType
  <2> QED
    BY <1>2, <1>3, <1>4, <1>11, <2>1, RowServed DEF Faultless
<1> QED
  BY <1>10, <1>12 DEF HandlerEffect

\* The insert: without it the call returns.
LEMMA InsertStep ==
    ASSUME StateType, NEW c \in Clients, InitiateReady(c), NEW at \in {"sla", "start"},
           At(c, "initiate", "create"),
           at = "sla" => call[c].arg.type = "ADDRESS_CHANGE",
           NEW result,
           result \in {CreateWithAddressDetail(db, call[c].r, call[c].arg.auth, call[c].arg.ticket),
                       CreateWithNameDetail(db, call[c].r, call[c].arg.auth, call[c].arg.ticket)},
           Runs(c, result, at)
    PROVE  HandlerEffect(c)
<1> DEFINE r == call[c].r
<1>1. call[c] # Idle /\ call[c].op = "initiate" /\ call[c].at = "create"
  BY DEF At
<1>2. /\ r \in Requests /\ call[c].arg.auth \in Auths
      /\ call[c].arg.ticket \in Nat \ {0}
  BY <1>1, CallKinds DEF StateType, InitiateCall, InitiateArg, Ticketed
<1>3. /\ WritesRow(db, result.db, r)
      /\ result.db.queue = db.queue
      /\ result.db = db \/ (~Exists(db, r) /\ Status(result.db, r) = "CREATED")
      /\ result.ok => Exists(result.db, r)
  BY <1>2, InsertEffect DEF StateType
<1>4. /\ db' = result.db /\ UNCHANGED <<wf, wdw, sig, faults, consent>>
      /\ result.ok => Goes(c, at)
      /\ ~result.ok => Return(c)
  BY DEF Runs
<1>5. wf[r].pc = "none"
  BY <1>1 DEF InitiateReady
<1>6. ServiceEffect(r)
  <2>1. wdw' \in [Requests -> WithdrawalState]
    BY <1>4 DEF StateType
  <2>2. Restates(r, Status(db', r))
    BY <1>3, <1>4 DEF Restates
  <2> QED
    BY <1>2, <1>3, <1>4, <2>1, <2>2, RowServed DEF Faultless
<1>7. CallEffect(c)
  <2>1. CASE result.ok
    <3>1. Exists(db', r)
      BY <1>3, <1>4, <2>1
    <3> QED
      BY <1>1, <1>4, <1>5, <2>1, <3>1, InitiateWentOn
  <2>2. CASE ~result.ok
    BY <1>1, <1>4, <2>2, Returned
  <2> QED
    BY <2>1, <2>2
<1> QED
  BY <1>6, <1>7 DEF HandlerEffect

\* The start of the workflow.
LEMMA StartStep ==
    ASSUME StateType, NEW c \in Clients, InitiateReady(c), NEW at \in {"idle", "sla"},
           At(c, "initiate", "start"),
           at = "sla" => call[c].arg.type # "ADDRESS_CHANGE",
           StartWorkflow(c, call[c].r, at)
    PROVE  HandlerEffect(c)
<1> DEFINE r == call[c].r
<1>1. call[c] # Idle /\ call[c].op = "initiate" /\ call[c].at = "start" /\ r \in Requests
  BY CallsRequest DEF At
<1>2. wf[r].pc = "none" /\ Exists(db, r)
  BY <1>1 DEF InitiateReady
<1>3. /\ wf' = [wf EXCEPT ![r].pc = "store"]
      /\ IF at = "idle" THEN Return(c) ELSE Goes(c, at)
      /\ UNCHANGED <<db, wdw, sig, faults, consent>>
  BY DEF StartWorkflow
<1>4. Starts(r) /\ wdw' \in [Requests -> WithdrawalState]
  BY <1>2, <1>3 DEF Starts, StateType
<1>5. WritesRow(db, db', r) /\ Restates(r, Status(db', r))
  BY <1>3 DEF StateType, WritesRow, OnlyRow, Restates
<1>6. ServiceEffect(r)
  BY <1>1, <1>3, <1>4, <1>5, NothingDelivered DEF ServiceEffect, Faultless
<1>7. CallEffect(c)
  <2>1. CASE at = "idle"
    BY <1>1, <1>3, <2>1, Returned
  <2>2. CASE at = "sla"
    <3>1. Goes(c, "sla") /\ Exists(db', r)
      BY <1>2, <1>3, <2>2
    <3> QED
      BY <1>1, <2>2, <3>1, InitiateWentOn DEF Exists
  <2> QED
    BY <2>1, <2>2
<1> QED
  BY <1>6, <1>7 DEF HandlerEffect

\* Initiating an address change: insert, deadline, start.
LEMMA InitiateAddressStep ==
    ASSUME StateType, NEW c \in Clients, InitiateReady(c), InitiateAddressChange(c)
    PROVE  HandlerEffect(c)
<1> DEFINE r == call[c].r
           arg == call[c].arg
<1>1. call[c] # Idle /\ call[c].op = "initiate" /\ arg.type = "ADDRESS_CHANGE" /\ r \in Requests
  BY CallsRequest DEF InitiateAddressChange
<1>2. CASE /\ At(c, "initiate", "create")
           /\ Runs(c, CreateWithAddressDetail(db, r, arg.auth, arg.ticket),
                   IF arg.auth = "AADHAAR" THEN "start" ELSE "sla")
  <2> DEFINE at == IF arg.auth = "AADHAAR" THEN "start" ELSE "sla"
  <2>1. at \in {"sla", "start"}
    OBVIOUS
  <2> HIDE DEF at
  <2>2. Runs(c, CreateWithAddressDetail(db, r, arg.auth, arg.ticket), at)
    BY <1>2 DEF at
  <2> QED
    BY <1>1, <1>2, <2>1, <2>2, InsertStep
<1>3. CASE At(c, "initiate", "sla") /\ Runs(c, UpdateSLADeadline(db, r), "start")
  <2>1. /\ db' = UpdateSLADeadline(db, r).db /\ Goes(c, "start")
        /\ UNCHANGED <<wf, wdw, sig, faults, consent>>
    BY <1>1, <1>3, RowUpdateEffect DEF Runs, StateType
  <2>2. call[c].at = "sla" /\ Exists(db, r) /\ wf[r].pc = "none"
    BY <1>1, <1>3 DEF At, InitiateReady
  <2>3. Exists(db', r)
    BY <1>1, <2>1, <2>2, RowUpdateEffect DEF StateType, WritesRow, OnlyRow
  <2> QED
    BY <1>1, <2>1, <2>2, <2>3, InitiateWentOn, DeadlineServed DEF HandlerEffect
<1>4. CASE At(c, "initiate", "start") /\ StartWorkflow(c, r, "idle")
  BY <1>4, StartStep
<1> QED
  BY <1>2, <1>3, <1>4 DEF InitiateAddressChange

\* Initiating a name change: insert, start, deadline.
LEMMA InitiateNameStep ==
    ASSUME StateType, NEW c \in Clients, InitiateReady(c), InitiateNameChange(c)
    PROVE  HandlerEffect(c)
<1> DEFINE r == call[c].r
           arg == call[c].arg
<1>1. call[c] # Idle /\ call[c].op = "initiate" /\ arg.type = "NAME_CHANGE" /\ r \in Requests
  BY CallsRequest DEF InitiateNameChange
<1>2. CASE /\ At(c, "initiate", "create")
           /\ Runs(c, CreateWithNameDetail(db, r, arg.auth, arg.ticket), "start")
  BY <1>2, InsertStep
<1>3. CASE /\ At(c, "initiate", "start")
           /\ StartWorkflow(c, r, IF arg.auth = "AADHAAR" THEN "idle" ELSE "sla")
  <2> DEFINE at == IF arg.auth = "AADHAAR" THEN "idle" ELSE "sla"
  <2>1. at \in {"idle", "sla"}
    OBVIOUS
  <2> HIDE DEF at
  <2>2. StartWorkflow(c, r, at)
    BY <1>3 DEF at
  <2> QED
    BY <1>1, <1>3, <2>1, <2>2, StartStep
<1>4. CASE At(c, "initiate", "sla") /\ Writes(c, UpdateSLADeadline(db, r))
  BY <1>1, <1>4, Returned, DeadlineServed DEF Writes, HandlerEffect
<1> QED
  BY <1>2, <1>3, <1>4 DEF InitiateNameChange

\* The handlers that end with a signal.
LEMMA SignalSent ==
    ASSUME StateType, NEW c \in Clients, call[c] # Idle, NEW signals \in Signals,
           SignalWorkflow(c, call[c].r, signals),
           consent' \in {consent, consent \cup {call[c].r}},
           signals.otp > 0 /\ sig' # sig => sig[call[c].r].otp > 0 \/ call[c].r \in consent',
           \/ signals.decisions = sig[call[c].r].decisions
           \/ \E decision \in Decisions :
                 /\ call[c].op = "approve"
                 /\ signals.decisions = Append(sig[call[c].r].decisions, decision)
                 /\ sig' # sig /\ decision.decision = "APPROVE" => call[c].r \in consent'
    PROVE  HandlerEffect(c)
<1> DEFINE r == call[c].r
<1>1. /\ r \in Requests /\ UNCHANGED <<db, wf, wdw, faults>> /\ Return(c)
      /\ sig' \in {sig, [sig EXCEPT ![r] = signals]}
  BY CallsRequest DEF SignalWorkflow
<1>2. sig' \in [Requests -> Signals] /\ \A q \in Requests \ {r} : sig'[q] = sig[q]
      /\ sig' # sig => sig'[r] = signals
  BY <1>1 DEF StateType
<1>3. Delivers(r)
  <2>1. CASE sig' = sig
    BY <1>1, <1>2, <2>1 DEF Delivers
  <2>2. CASE sig' # sig
    BY <1>1, <1>2, <2>2 DEF Delivers
  <2> QED
    BY <2>1, <2>2
<1>4. WritesRow(db, db', r) /\ Restates(r, Status(db', r)) /\ db'.queue = db.queue
      /\ wdw' \in [Requests -> WithdrawalState]
  BY <1>1 DEF StateType, WritesRow, OnlyRow, Restates
<1>5. ServiceEffect(r)
  BY <1>1, <1>3, <1>4 DEF ServiceEffect, Faultless
<1> QED
  BY <1>1, <1>5, Returned DEF HandlerEffect

\* Verifying an OTP: who sends it has agreed.
LEMMA OTPStep ==
    ASSUME StateType, NEW c \in Clients, SignalOTP(c)
    PROVE  HandlerEffect(c)
<1> DEFINE r == call[c].r
           signals == [sig[r] EXCEPT !.otp = sig[r].otp + 1]
<1>1. /\ call[c] # Idle /\ r \in Requests /\ SignalWorkflow(c, r, signals)
      /\ consent' = IF sig' # sig THEN consent \cup {r} ELSE consent
  BY CallsRequest DEF SignalOTP, SendOTP, At
<1>2. sig[r] \in Signals
  BY <1>1 DEF StateType
<1>3. sig[r].otp + 1 \in Nat
  BY <1>2 DEF Signals
<1>4. signals \in Signals /\ signals.decisions = sig[r].decisions
  BY <1>2, <1>3 DEF Signals
<1> HIDE DEF signals
<1>5. /\ consent' \in {consent, consent \cup {r}}
      /\ sig' # sig => r \in consent'
  BY <1>1
<1> QED
  BY <1>1, <1>4, <1>5, SignalSent

\* Sending documents to a waiting workflow.
LEMMA DocumentsStep ==
    ASSUME StateType, NEW c \in Clients, call[c] # Idle, SendDocuments(c, call[c].r)
    PROVE  HandlerEffect(c)
<1> DEFINE r == call[c].r
           signals == [sig[r] EXCEPT !.docs = sig[r].docs + 1]
<1>1. r \in Requests /\ SignalWorkflow(c, r, signals) /\ UNCHANGED consent
  BY CallsRequest DEF SendDocuments
<1>2. sig[r] \in Signals
  BY <1>1 DEF StateType
<1>3. sig[r].docs + 1 \in Nat
  BY <1>2 DEF Signals
<1>4. signals \in Signals /\ signals.otp = sig[r].otp /\ signals.decisions = sig[r].decisions
  BY <1>2, <1>3 DEF Signals
<1> HIDE DEF signals
<1> QED
  BY <1>1, <1>4, SignalSent

\* Approving or sending back: the processing centre agrees with the signal.
LEMMA DecisionStep ==
    ASSUME StateType, NEW c \in Clients, SignalDecision(c)
    PROVE  HandlerEffect(c)
<1> DEFINE r == call[c].r
           decision == call[c].arg
           signals == [sig[r] EXCEPT !.decisions = Append(sig[r].decisions, decision)]
<1>1. /\ call[c] # Idle /\ r \in Requests /\ call[c].op = "approve"
      /\ SignalWorkflow(c, r, signals)
      /\ consent' = IF sig' # sig /\ decision.decision = "APPROVE"
                    THEN consent \cup {r} ELSE consent
  BY CallsRequest DEF SignalDecision, At
<1>2. sig[r] \in Signals /\ decision \in Decisions
  BY <1>1, CallKinds DEF StateType, ApproveCall
<1>3. Append(sig[r].decisions, decision) \in Seq(Decisions)
  BY <1>2 DEF Signals
<1>4. /\ signals \in Signals /\ signals.otp = sig[r].otp
      /\ signals.decisions = Append(sig[r].decisions, decision)
  BY <1>2, <1>3 DEF Signals
<1> HIDE DEF signals
<1>5. /\ consent' \in {consent, consent \cup {r}}
      /\ sig' # sig /\ decision.decision = "APPROVE" => r \in consent'
  BY <1>1
<1> HIDE DEF decision
<1> QED
  BY <1>1, <1>2, <1>4, <1>5, SignalSent

\* Submitting: deadline, status, signal.
LEMMA SubmitStep ==
    ASSUME StateType, NEW c \in Clients, SubmitAddressChange(c)
    PROVE  HandlerEffect(c)
<1> DEFINE r == call[c].r
<1>1. call[c] # Idle /\ call[c].op = "submit" /\ r \in Requests
  BY CallsRequest DEF SubmitAddressChange, At
<1>2. CASE At(c, "submit", "sla") /\ Runs(c, UpdateSLADeadline(db, r), "status")
  <2>1. /\ db' = UpdateSLADeadline(db, r).db /\ Goes(c, "status")
        /\ UNCHANGED <<wf, wdw, sig, faults, consent>>
    BY <1>1, <1>2, RowUpdateEffect DEF Runs, StateType
  <2> QED
    BY <1>1, <2>1, OtherWentOn, DeadlineServed DEF HandlerEffect
<1>3. CASE /\ At(c, "submit", "status")
           /\ Runs(c, UpdateStatus(db, r, "PENDING_APPROVAL", "none", Written), "signal")
  <2>1. /\ db' = UpdateStatus(db, r, "PENDING_APPROVAL", "none", Written).db
        /\ Goes(c, "signal") \/ Return(c)
        /\ UNCHANGED <<wf, wdw, sig, faults, consent>>
    BY <1>3 DEF Runs
  <2>2. Restates(r, "PENDING_APPROVAL")
    BY <1>3 DEF Restates
  <2> QED
    BY <1>1, <2>1, <2>2, OtherWentOn, Returned, StatusServed DEF HandlerEffect
<1>4. CASE At(c, "submit", "signal") /\ SendDocuments(c, r)
  BY <1>1, <1>4, DocumentsStep
<1> QED
  BY <1>2, <1>3, <1>4 DEF SubmitAddressChange

\* Starting a withdrawal workflow.
LEMMA StartWithdrawalStep ==
    ASSUME StateType, NEW c \in Clients, StartWithdrawal(c)
    PROVE  HandlerEffect(c)
<1> DEFINE r == call[c].r
<1>1. call[c] # Idle /\ r \in Requests
  BY CallsRequest DEF StartWithdrawal, At
<1>2. [pc |-> "check", tries |-> 0] \in WithdrawalState
  BY BoundsAssumption DEF WithdrawalState
<1>3. /\ wdw' \in {wdw, [wdw EXCEPT ![r] = [pc |-> "check", tries |-> 0]]}
      /\ Return(c) /\ UNCHANGED <<db, wf, sig, faults, consent>>
  BY DEF StartWithdrawal
<1>4. wdw' \in [Requests -> WithdrawalState]
  BY <1>1, <1>2, <1>3 DEF StateType
<1> QED
  BY <1>1, <1>3, <1>4, Returned, NothingServed DEF HandlerEffect, Faultless

\* The back office commits nothing.
LEMMA BackOfficeStep ==
    ASSUME StateType, NEW c \in Clients,
           AssignRequest(c) \/ RejectRequest(c) \/ UploadLink(c)
    PROVE  HandlerEffect(c)
<1> DEFINE r == call[c].r
<1>1. call[c] # Idle /\ r \in Requests /\ Return(c)
      /\ UNCHANGED <<wf, wdw, sig, faults, consent>>
  BY CallsRequest DEF AssignRequest, RejectRequest, UploadLink, At, Writes
<1>2. CASE AssignRequest(c) \/ RejectRequest(c)
  BY <1>1, <1>2, Returned, StatusServed
  DEF AssignRequest, RejectRequest, Writes, Missing, HandlerEffect
<1>3. CASE UploadLink(c)
  <2>1. UNCHANGED db
    BY <1>3 DEF UploadLink, Writes, CreateSecureUploadLink, Tx
  <2>2. wdw' \in [Requests -> WithdrawalState]
    BY <1>1 DEF StateType
  <2> QED
    BY <1>1, <2>1, <2>2, Returned, NothingServed DEF HandlerEffect, Faultless
<1> QED
  BY <1>2, <1>3

\* A call that breaks off.
LEMMA AbortStep ==
    ASSUME StateType, NEW c \in Clients, Aborts(c)
    PROVE  HandlerEffect(c)
<1>1. /\ call[c] # Idle /\ call[c].r \in Requests /\ Return(c)
      /\ UNCHANGED <<db, wf, wdw, sig, consent>> /\ Faulty
  BY CallsRequest, BoundsAssumption DEF Aborts, Faulty, StateType
<1>2. wdw' \in [Requests -> WithdrawalState]
  BY <1>1 DEF StateType
<1> QED
  BY <1>1, <1>2, Returned, NothingServed DEF HandlerEffect

\* Whatever the operation, a step of a call is a HandlerEffect.
LEMMA ClientStepEffect ==
    ASSUME StateType, NEW c \in Clients, InitiateReady(c), ClientStep(c) \/ Aborts(c)
    PROVE  HandlerEffect(c)
BY TicketStep, InitiateAddressStep, InitiateNameStep, OTPStep, SubmitStep, DecisionStep,
   StartWithdrawalStep, BackOfficeStep, AbortStep DEF ClientStep

\* A call that begins: an initiation of a new id, an approval of a request that
\* reads IN_PROGRESS, documents for one that is not withdrawn, or another.
CallBegins(c, r) ==
    /\ UNCHANGED wfVars
    /\ call' \in [Clients -> CallState]
    /\ \A d \in Clients \ {c} : call'[d] = call[d]
    /\ call'[c].r = r
    /\ call'[c].op = "initiate" => Fresh(r) /\ call'[c].at = "ticket"
    /\ call'[c].op = "approve" => Status(db, r) = "IN_PROGRESS"
    /\ call'[c].op = "submit" => Status(db, r) # "WITHDRAWN"

\* A call of the right kind begins.
LEMMA BeginEffect ==
    ASSUME StateType, NEW c \in Clients, NEW r \in Requests, NEW op, NEW at, NEW arg,
           Begin(c, op, at, r, arg), Call(op, at, r, arg) \in CallState,
           op = "initiate" => Fresh(r) /\ at = "ticket",
           op = "approve" => Status(db, r) = "IN_PROGRESS",
           op = "submit" => Status(db, r) # "WITHDRAWN"
    PROVE  CallBegins(c, r)
<1>1. call' \in [Clients -> CallState] /\ call'[c] = Call(op, at, r, arg)
      /\ \A d \in Clients \ {c} : call'[d] = call[d]
  BY DEF Begin, StateType
<1>2. /\ Call(op, at, r, arg).r = r /\ Call(op, at, r, arg).op = op
      /\ Call(op, at, r, arg).at = at
  BY DEF Call
<1> QED
  BY <1>1, <1>2 DEF CallBegins, Begin

\* A call that is neither an initiation nor an approval begins.
LEMMA OtherBegins ==
    ASSUME StateType, NEW c \in Clients, NEW r \in Requests,
           NEW op \in {"otp", "submit", "withdraw", "assign", "reject", "link"},
           NEW at \in {"sla", "status", "signal", "start", "write"},
           Begin(c, op, at, r, "none"),
           op = "submit" => Status(db, r) # "WITHDRAWN"
    PROVE  CallBegins(c, r)
<1>1. Call(op, at, r, "none") \in CallState
  BY DEF Call, OtherCall, CallState
<1> QED
  BY <1>1, BeginEffect

\* Whatever the operation, a new call is a CallBegins.
LEMMA NewCallEffect ==
    ASSUME StateType, NEW c \in Clients, NEW r \in Requests, NewCall(c, r)
    PROVE  CallBegins(c, r)
<1>1. ASSUME NEW type \in Types, NEW auth \in Auths, Initiate(c, r, type, auth)
      PROVE  CallBegins(c, r)
  <2> DEFINE arg == [type |-> type, auth |-> auth, ticket |-> 0]
  <2>1. Call("initiate", "ticket", r, arg) \in CallState
    <3>1. arg \in InitiateArg
      BY DEF InitiateArg
    <3> HIDE DEF arg
    <3> QED
      BY <3>1 DEF Call, InitiateCall, Ticketed, CallState
  <2>2. Begin(c, "initiate", "ticket", r, arg) /\ Fresh(r)
    BY <1>1 DEF Initiate
  <2> HIDE DEF arg
  <2> QED
    BY <2>1, <2>2, BeginEffect
<1>2. ASSUME NEW decision \in Decisions, ApproveChange(c, r, decision)
      PROVE  CallBegins(c, r)
  <2>1. Call("approve", "signal", r, decision) \in CallState
    BY DEF Call, ApproveCall, CallState
  <2> QED
    BY <1>2, <2>1, BeginEffect DEF ApproveChange
<1>3. ASSUME \/ VerifyAddressOTP(c, r) \/ VerifyNameOTPStatus(c, r)
             \/ SubmitAddress(c, r) \/ SubmitName(c, r) \/ WithdrawRequest(c, r)
             \/ AssignStatus(c, r) \/ RejectStatus(c, r)
             \/ SendBack(c, r) \/ RequestMissingDocuments(c, r)
      PROVE  CallBegins(c, r)
  <2>1. SubmitAddress(c, r) \/ SubmitName(c, r) => Status(db, r) # "WITHDRAWN"
    BY DEF SubmitAddress, SubmitName
  <2> QED
    BY <1>3, <2>1, OtherBegins
    DEF VerifyAddressOTP, VerifyNameOTPStatus, SubmitAddress, SubmitName, WithdrawRequest,
        AssignStatus, RejectStatus, SendBack, RequestMissingDocuments
<1> QED
  BY <1>1, <1>2, <1>3 DEF NewCall

\* Who starts a workflow is a call that initiates its request.
LEMMA StartedByInitiation ==
    ASSUME StateType, NEW c \in Clients, ClientStep(c) \/ Aborts(c)
    PROVE  UNCHANGED wf \/ (call[c] # Idle /\ call[c].op = "initiate")
BY DEF ClientStep, Aborts, InitiateTicket, InitiateAddressChange, InitiateNameChange,
       SignalOTP, SendOTP, SubmitAddressChange, SendDocuments, SignalDecision, SignalWorkflow,
       StartWithdrawal, AssignRequest, RejectRequest, UploadLink, Runs, Writes

\* Every step is of one of four shapes.
LEMMA StepShape ==
    ASSUME StateType, \A c \in Clients : InitiateReady(c), [Next]_vars
    PROVE  \/ \E r \in Requests : WorkflowEffect(r) /\ UNCHANGED call
           \/ \E r \in Requests : ServiceEffect(r) /\ UNCHANGED <<call, wf>>
           \/ \E c \in Clients :
                 HandlerEffect(c) /\ (UNCHANGED wf \/ call[c].op = "initiate")
           \/ \E c \in Clients, r \in Requests : CallBegins(c, r)
           \/ UNCHANGED vars
<1>1. ASSUME NEW r \in Requests, WithdrawalWorkflow(r)
      PROVE  UNCHANGED wf
  BY <1>1 DEF WithdrawalWorkflow, WithdrawalCheck, WithdrawalProcess, WithdrawalNotify
<1> QED
  BY <1>1, WorkflowStepEffect, WithdrawalStep, ClientStepEffect, StartedByInitiation,
     NewCallEffect DEF Next

-----------------------------------------------------------------------------
(* Type correctness.                                                       *)

\* Every step keeps the types.
LEMMA TypeKept ==
    ASSUME StateType, \A c \in Clients : InitiateReady(c), [Next]_vars
    PROVE  StateType'
<1>1. ASSUME NEW r \in Requests, ServiceEffect(r)
      PROVE  /\ db' \in Store /\ wf' \in [Requests -> WorkflowState]
             /\ wdw' \in [Requests -> WithdrawalState]
             /\ sig' \in [Requests -> Signals]
             /\ faults' \in 0..MaxFaults /\ consent' \subseteq Requests
  <2>1. wf' \in [Requests -> WorkflowState]
    <3>1. "store" \in Positions
      BY DEF Positions, Executes
    <3> QED
      BY <1>1, <3>1, WentTo DEF ServiceEffect, Starts, StateType
  <2> QED
    BY <1>1, <2>1
    DEF ServiceEffect, StateType, WritesRow, OnlyRow, Delivers, Faultless, Faulty
<1>2. CASE \E r \in Requests : WorkflowEffect(r) /\ UNCHANGED call
  BY <1>2 DEF WorkflowEffect, Moves, Consumes, Reports, Applies, WritesRow, OnlyRow,
              AddsVersion, Faultless, Faulty, StateType
<1>3. CASE \E r \in Requests : ServiceEffect(r) /\ UNCHANGED call
  BY <1>1, <1>3 DEF StateType
<1>4. CASE \E c \in Clients :
             HandlerEffect(c) /\ (UNCHANGED wf \/ call[c].op = "initiate")
  <2>1. PICK c \in Clients : CallEffect(c) /\ ServiceEffect(call[c].r)
    BY <1>4 DEF HandlerEffect
  <2>2. call[c].r \in Requests /\ call' \in [Clients -> CallState]
    BY <2>1, CallsRequest DEF CallEffect
  <2> QED
    BY <1>1, <2>1, <2>2 DEF StateType
<1>5. CASE \E c \in Clients, r \in Requests : CallBegins(c, r)
  BY <1>5 DEF CallBegins, wfVars, StateType
<1>6. CASE UNCHANGED vars
  BY <1>6 DEF vars, wfVars, StateType
<1> QED
  BY <1>2, <1>3, <1>4, <1>5, <1>6, StepShape

-----------------------------------------------------------------------------
(* The inductive invariant.                                                *)

\* A request id is initiated once.
InitiatedOnce ==
    \A c, d \in Clients :
       /\ call[c] # Idle /\ call[c].op = "initiate"
       /\ call[d] # Idle /\ call[d].op = "initiate"
       /\ call[c].r = call[d].r
       => c = d

\* What a workflow works on, the customer or the processing centre agreed to;
\* so does whoever sent what waits in its signals.
Agreed(r) ==
    /\ wf[r].pc \in AgreedPc => r \in consent
    /\ sig[r].otp > 0 => r \in consent
    /\ \A i \in 1..Len(sig[r].decisions) :
          sig[r].decisions[i].decision = "APPROVE" => r \in consent

\* IN_PROGRESS is the status of requests of the queue, and only they are decided.
Queued(r) ==
    /\ Status(db, r) = "IN_PROGRESS" => r \in db.queue
    /\ sig[r].decisions # <<>> => r \in db.queue
    /\ wf[r].decision # NoDecision => r \in db.queue
    /\ wf[r].pc = "approve" => wf[r].decision # NoDecision

ApprovesQueued(c) ==
    call[c] # Idle /\ call[c].op = "approve" => call[c].r \in db.queue

\* Every version beyond the first one cost a failure.
Counted(r) ==
    /\ wf[r].pc = "complete" => db.versions[r] > 0
    /\ db.versions[r] <= faults + 1
    /\ wf[r].pc \notin Late => db.versions[r] <= faults

\* Only a request of the table has a workflow; without one it is not worked on.
Begun(r) ==
    /\ wf[r].pc # "none" => Exists(db, r)
    /\ wf[r].pc = "none" =>
         /\ Status(db, r) \in {"NONE", "CREATED", "PENDING_APPROVAL", "WITHDRAWN"}
         /\ db.versions[r] = 0

NFSInvariant ==
    /\ StateType
    /\ InitiatedOnce
    /\ \A c \in Clients : InitiateReady(c) /\ ApprovesQueued(c)
    /\ \A r \in Requests : Agreed(r) /\ Queued(r) /\ Counted(r) /\ Begun(r)

\* A step about one request leaves the others alone, and takes nothing back.
Apart(r) ==
    /\ db.queue \subseteq db'.queue
    /\ \A q \in Requests : Exists(db, q) => Exists(db', q)
    /\ \A q \in Requests \ {r} : /\ db'.sr[q] = db.sr[q] /\ db'.versions[q] = db.versions[q]
                                 /\ wf'[q] = wf[q] /\ sig'[q] = sig[q]
    /\ consent \subseteq consent'
    /\ faults \in Nat /\ faults' \in {faults, faults + 1}

\* A workflow leaves other requests alone.
LEMMA WorkflowApart ==
    ASSUME StateType, NEW r \in Requests, WorkflowEffect(r)
    PROVE  Apart(r)
<1>1. WritesRow(db, db', r) \/ AddsVersion(db, db', r)
  BY DEF WorkflowEffect, Reports, Applies
<1>2. /\ db.queue \subseteq db'.queue
      /\ \A q \in Requests : Exists(db, q) => Exists(db', q)
      /\ \A q \in Requests \ {r} : db'.sr[q] = db.sr[q] /\ db'.versions[q] = db.versions[q]
  <2>1. CASE WritesRow(db, db', r)
    BY <2>1 DEF WritesRow, OnlyRow, Exists
  <2>2. CASE AddsVersion(db, db', r)
    BY <2>2 DEF AddsVersion, Exists, StateType, Store
  <2> QED
    BY <1>1, <2>1, <2>2
<1>3. faults \in Nat /\ faults' \in {faults, faults + 1}
  BY BoundsAssumption DEF WorkflowEffect, Faultless, Faulty, StateType
<1> QED
  BY <1>2, <1>3 DEF Apart, WorkflowEffect, Moves, Consumes

\* A handler or a withdrawal leaves other requests alone.
LEMMA ServiceApart ==
    ASSUME StateType, NEW r \in Requests, ServiceEffect(r)
    PROVE  Apart(r)
<1>1. /\ db.queue \subseteq db'.queue
      /\ \A q \in Requests : Exists(db, q) => Exists(db', q)
      /\ \A q \in Requests \ {r} : db'.sr[q] = db.sr[q] /\ db'.versions[q] = db.versions[q]
  BY DEF ServiceEffect, WritesRow, OnlyRow, Exists
<1>2. faults \in Nat /\ faults' \in {faults, faults + 1}
  BY BoundsAssumption DEF ServiceEffect, Faultless, Faulty, StateType
<1>3. \A q \in Requests \ {r} : wf'[q] = wf[q]
  BY DEF ServiceEffect, Starts, StateType
<1> QED
  BY <1>1, <1>2, <1>3 DEF Apart, ServiceEffect, Delivers

\* What is kept between request and workflow of another request stays.
LEMMA OthersKept ==
    ASSUME StateType, NEW r \in Requests, NEW q \in Requests \ {r}, Apart(r),
           Agreed(q), Queued(q), Counted(q), Begun(q)
    PROVE  Agreed(q)' /\ Queued(q)' /\ Counted(q)' /\ Begun(q)'
<1>1. /\ db'.sr[q] = db.sr[q] /\ db'.versions[q] = db.versions[q]
      /\ wf'[q] = wf[q] /\ sig'[q] = sig[q]
      /\ db.queue \subseteq db'.queue /\ consent \subseteq consent'
      /\ faults \in Nat /\ faults' \in {faults, faults + 1}
  BY DEF Apart
<1>2. Agreed(q)'
  BY <1>1 DEF Agreed
<1>3. Queued(q)'
  BY <1>1 DEF Queued, Status
<1>4. Counted(q)'
  <2>1. db.versions[q] \in Nat
    BY RowType DEF StateType
  <2> QED
    BY <1>1, <2>1 DEF Counted
<1>5. Begun(q)'
  BY <1>1 DEF Begun, Status, Exists
<1> QED
  BY <1>2, <1>3, <1>4, <1>5

-----------------------------------------------------------------------------
(* A step of the request's workflow.                                       *)

\* A workflow reaches an agreed position only with a signal of who agreed.
LEMMA WorkflowKeepsAgreed ==
    ASSUME StateType, NEW r \in Requests, WorkflowEffect(r), Agreed(r)
    PROVE  Agreed(r)'
<1> DEFINE sent == sig[r].decisions
<1>1. /\ sent \in Seq(Decisions)
      /\ sig[r].otp \in Nat /\ sig'[r].otp \in Nat /\ sig'[r].otp <= sig[r].otp
      /\ sig'[r].decisions = sent \/ (sent # <<>> /\ sig'[r].decisions = Tail(sent))
      /\ consent' = consent
  BY DEF WorkflowEffect, Consumes, StateType, Signals
<1>2. \A i \in 1..Len(sent) : sent[i].decision = "APPROVE" => r \in consent
  BY DEF Agreed
<1>3. \A i \in 1..Len(sig'[r].decisions) :
        sig'[r].decisions[i].decision = "APPROVE" => r \in consent'
  <2>1. CASE sig'[r].decisions = sent
    BY <1>1, <1>2, <2>1
  <2>2. CASE sent # <<>> /\ sig'[r].decisions = Tail(sent)
    <3> SUFFICES ASSUME NEW i \in 1..Len(Tail(sent)),
                        Tail(sent)[i].decision = "APPROVE"
                 PROVE  r \in consent
      BY <1>1, <2>2
    <3>1. i + 1 \in 1..Len(sent) /\ Tail(sent)[i] = sent[i + 1]
      BY <1>1, <2>2
    <3> QED
      BY <1>2, <3>1
  <2> QED
    BY <1>1, <2>1, <2>2
<1>4. sig'[r].otp > 0 => r \in consent'
  BY <1>1 DEF Agreed
<1>5. wf'[r].pc \in AgreedPc => r \in consent'
  <2>1. CASE wf[r].pc \in AgreedPc \/ sig[r].otp > 0
    BY <1>1, <2>1 DEF Agreed
  <2>2. CASE sent # <<>> /\ Head(sent).decision = "APPROVE"
    <3>1. 1 \in 1..Len(sent) /\ Head(sent) = sent[1]
      BY <1>1, <2>2
    <3> QED
      BY <1>1, <1>2, <2>2, <3>1
  <2> QED
    BY <2>1, <2>2 DEF WorkflowEffect, Moves
<1> QED
  BY <1>3, <1>4, <1>5 DEF Agreed

\* A workflow writes IN_PROGRESS and takes decisions for queued requests only.
LEMMA WorkflowKeepsQueued ==
    ASSUME StateType, NEW r \in Requests, WorkflowEffect(r), Queued(r)
    PROVE  Queued(r)'
<1>1. db.queue \subseteq db'.queue
  BY WorkflowApart DEF Apart
<1>2. Status(db', r) = "IN_PROGRESS" => r \in db'.queue
  <2>1. CASE Reports(r)
    BY <1>1, <2>1 DEF Reports, Queued
  <2>2. CASE Applies(r)
    BY <1>1, <2>2 DEF Applies, AddsVersion, Queued, Status
  <2> QED
    BY <2>1, <2>2 DEF WorkflowEffect
<1>3. sig'[r].decisions # <<>> => r \in db'.queue
  BY <1>1 DEF WorkflowEffect, Consumes, Queued
<1>4. wf'[r].decision # NoDecision => r \in db'.queue
  BY <1>1 DEF WorkflowEffect, Moves, Queued
<1>5. wf'[r].pc = "approve" => wf'[r].decision # NoDecision
  BY DEF WorkflowEffect, Moves, Queued
<1> QED
  BY <1>2, <1>3, <1>4, <1>5 DEF Queued, Status

\* A workflow that writes a version goes on, or a failure is counted.
LEMMA WorkflowKeepsCounted ==
    ASSUME StateType, NEW r \in Requests, WorkflowEffect(r), Counted(r)
    PROVE  Counted(r)'
<1>1. db.versions[r] \in Nat /\ faults \in Nat /\ faults' \in {faults, faults + 1}
  BY WorkflowApart, RowType DEF Apart, StateType
<1>2. Moves(r)
  BY DEF WorkflowEffect
<1>3. CASE Reports(r)
  <2>1. db'.versions[r] = db.versions[r]
    BY <1>3 DEF Reports, WritesRow
  <2>2. wf'[r].pc = "complete" => wf[r].pc = "complete" \/ db'.versions[r] > 0
    <3>1. AddsVersion(db, db', r) => db'.versions[r] = db.versions[r] + 1
      BY DEF AddsVersion, StateType, Store
    <3> QED
      BY <1>1, <1>2, <3>1 DEF Moves
  <2>3. wf[r].pc \in Late /\ wf'[r].pc \notin Late => faults' = faults + 1
    BY <1>2 DEF Moves, Running, Late
  <2> QED
    BY <1>1, <2>1, <2>2, <2>3 DEF Counted
<1>4. CASE Applies(r)
  <2>1. db'.versions[r] = db.versions[r] + 1
    BY <1>4 DEF Applies, AddsVersion, StateType, Store
  <2>2. wf[r].pc \notin Late /\ "complete" \in Late
    BY <1>4 DEF Applies, Late, Closed
  <2>3. wf'[r].pc = "complete" \/ faults' = faults + 1
    BY <1>4 DEF Applies
  <2> QED
    BY <1>1, <2>1, <2>2, <2>3 DEF Counted
<1> QED
  BY <1>3, <1>4 DEF WorkflowEffect

\* A workflow that moves has begun.
LEMMA WorkflowKeepsBegun ==
    ASSUME StateType, NEW r \in Requests, WorkflowEffect(r), Begun(r)
    PROVE  Begun(r)'
<1>1. wf[r].pc # "none" /\ wf'[r].pc # "none"
  BY DEF WorkflowEffect, Moves, Running
<1>2. Exists(db', r)
  BY <1>1, WorkflowApart DEF Apart, Begun
<1> QED
  BY <1>1, <1>2 DEF Begun, Exists

-----------------------------------------------------------------------------
(* A step of a handler or of the withdrawal workflow.                      *)

\* Who sends an OTP or an approval has recorded the consent.
LEMMA ServiceKeepsAgreed ==
    ASSUME StateType, NEW r \in Requests, ServiceEffect(r), Agreed(r)
    PROVE  Agreed(r)'
<1> DEFINE sent == sig[r].decisions
<1>1. consent \subseteq consent' /\ Delivers(r) /\ sent \in Seq(Decisions)
  BY DEF ServiceEffect, StateType, Signals
<1>2. wf'[r].pc \in AgreedPc => r \in consent'
  BY <1>1 DEF ServiceEffect, Starts, StateType, WorkflowState, Agreed, AgreedPc
<1>3. sig'[r].otp > 0 => r \in consent'
  BY <1>1 DEF Delivers, Agreed
<1>4. \A i \in 1..Len(sig'[r].decisions) :
        sig'[r].decisions[i].decision = "APPROVE" => r \in consent'
  <2>1. CASE sig'[r].decisions = sent
    BY <1>1, <2>1 DEF Agreed
  <2>2. ASSUME NEW decision \in Decisions,
               sig'[r].decisions = Append(sent, decision),
               decision.decision = "APPROVE" => r \in consent'
        PROVE  \A i \in 1..Len(sig'[r].decisions) :
                 sig'[r].decisions[i].decision = "APPROVE" => r \in consent'
    <3> SUFFICES ASSUME NEW i \in 1..Len(Append(sent, decision)),
                        Append(sent, decision)[i].decision = "APPROVE"
                 PROVE  r \in consent'
      BY <2>2
    <3>1. CASE i \in 1..Len(sent)
      <4>1. Append(sent, decision)[i] = sent[i]
        BY <1>1, <3>1
      <4> QED
        BY <1>1, <3>1, <4>1 DEF Agreed
    <3>2. CASE i \notin 1..Len(sent)
      <4>1. Append(sent, decision)[i] = decision
        BY <1>1, <3>2
      <4> QED
        BY <2>2, <4>1
    <3> QED
      BY <3>1, <3>2
  <2> QED
    BY <1>1, <2>1, <2>2 DEF Delivers
<1> QED
  BY <1>2, <1>3, <1>4 DEF Agreed

\* Approvals are sent for queued requests; handlers do not write IN_PROGRESS
\* without the queue.
LEMMA ServiceKeepsQueued ==
    ASSUME StateType, NEW r \in Requests, ServiceEffect(r), Queued(r),
           \A c \in Clients : ApprovesQueued(c)
    PROVE  Queued(r)'
<1>1. db'.queue = db.queue /\ Restates(r, Status(db', r)) /\ Delivers(r)
  BY DEF ServiceEffect
<1>2. Status(db', r) = "IN_PROGRESS" => r \in db'.queue
  BY <1>1 DEF Restates, Queued
<1>3. sig'[r].decisions # <<>> => r \in db'.queue
  BY <1>1 DEF Delivers, Queued, ApprovesQueued
<1>4. wf'[r].decision = wf[r].decision /\ (wf'[r].pc = wf[r].pc \/ wf'[r].pc = "store")
  <2>1. CASE UNCHANGED wf
    BY <2>1
  <2>2. CASE Starts(r)
    BY <2>2 DEF Starts, StateType, WorkflowState
  <2> QED
    BY <2>1, <2>2 DEF ServiceEffect
<1> QED
  BY <1>1, <1>2, <1>3, <1>4 DEF Queued, Status

\* Handlers and withdrawals write no version, and complete nothing.
LEMMA ServiceKeepsCounted ==
    ASSUME StateType, NEW r \in Requests, ServiceEffect(r), Counted(r), Begun(r)
    PROVE  Counted(r)'
<1>1. db.versions[r] \in Nat /\ faults \in Nat /\ faults' \in {faults, faults + 1}
  BY ServiceApart, RowType DEF Apart, StateType
<1>2. db'.versions[r] = db.versions[r]
  BY DEF ServiceEffect, WritesRow
<1>3. wf'[r].pc = wf[r].pc \/ (wf[r].pc = "none" /\ wf'[r].pc = "store")
  <2>1. CASE UNCHANGED wf
    BY <2>1
  <2>2. CASE Starts(r)
    BY <2>2 DEF Starts, StateType, WorkflowState
  <2> QED
    BY <2>1, <2>2 DEF ServiceEffect
<1> QED
  BY <1>1, <1>2, <1>3 DEF Counted, Begun

\* A workflow starts for a row that exists; a row without one is not worked on.
LEMMA ServiceKeepsBegun ==
    ASSUME StateType, NEW r \in Requests, ServiceEffect(r), Begun(r)
    PROVE  Begun(r)'
<1>1. Exists(db, r) => Exists(db', r)
  BY ServiceApart DEF Apart
<1>2. db'.versions[r] = db.versions[r] /\ Restates(r, Status(db', r))
  BY DEF ServiceEffect, WritesRow
<1>3. CASE UNCHANGED wf
  BY <1>1, <1>2, <1>3 DEF Begun, Restates, Exists, Status
<1>4. CASE Starts(r)
  <2>1. wf'[r].pc = "store" /\ Exists(db', r)
    BY <1>1, <1>4 DEF Starts, StateType, WorkflowState
  <2> QED
    BY <2>1 DEF Begun, Exists
<1> QED
  BY <1>3, <1>4 DEF ServiceEffect

-----------------------------------------------------------------------------
(* The calls.                                                              *)

\* Another client's call stays ready and its request stays in the queue.
LEMMA CallKept ==
    ASSUME StateType, InitiatedOnce, NEW r \in Requests, Apart(r),
           NEW d \in Clients, call'[d] = call[d], InitiateReady(d), ApprovesQueued(d),
           \/ Running(r)
           \/ UNCHANGED wf
           \/ \E c \in Clients \ {d} : /\ call[c] # Idle /\ call[c].op = "initiate"
                                       /\ call[c].r = r
    PROVE  InitiateReady(d)' /\ ApprovesQueued(d)'
<1>1. ApprovesQueued(d)'
  BY DEF ApprovesQueued, Apart
<1>2. ASSUME call[d] # Idle, call[d].op = "initiate"
      PROVE  /\ call[d].at \in {"sla", "start"} => Exists(db', call[d].r)
             /\ call[d].at # "sla" \/ call[d].arg.type = "ADDRESS_CHANGE"
                  => wf'[call[d].r].pc = "none"
  <2>1. call[d].r \in Requests
    BY <1>2, CallsRequest
  <2>2. call[d].at \in {"sla", "start"} => Exists(db', call[d].r)
    BY <1>2, <2>1 DEF InitiateReady, Apart
  <2>3. ASSUME call[d].at # "sla" \/ call[d].arg.type = "ADDRESS_CHANGE"
        PROVE  wf'[call[d].r].pc = "none"
    <3>1. wf[call[d].r].pc = "none"
      BY <1>2, <2>3 DEF InitiateReady
    <3>2. CASE call[d].r # r
      BY <2>1, <3>1, <3>2 DEF Apart
    <3>3. CASE call[d].r = r
      BY <1>2, <3>1, <3>3 DEF Running, InitiatedOnce
    <3> QED
      BY <3>2, <3>3
  <2> QED
    BY <2>2, <2>3
<1>3. InitiateReady(d)'
  BY <1>2 DEF InitiateReady, Exists
<1> QED
  BY <1>1, <1>3


\* The invariant holds at the start.
LEMMA InvariantAtInit ==
    ASSUME Init
    PROVE  NFSInvariant
<1>1. PICK schema \in Schemas : db = EmptyStore(schema)
  BY DEF Init
<1>2. db \in Store
  BY <1>1, SchemaAssumption DEF EmptyStore, Store, Row
<1>3. NotStarted \in WorkflowState /\ NotStarted.pc = "none" /\ NotStarted.decision = NoDecision
  <2>1. 0 \in 0..(MaxAttempts - 1)
    BY BoundsAssumption
  <2> QED
    BY <2>1 DEF NotStarted, WorkflowState, Positions
<1>4. [pc |-> "none", tries |-> 0] \in WithdrawalState
  BY BoundsAssumption DEF WithdrawalState
<1>5. NoSignals \in Signals /\ NoSignals.otp = 0 /\ NoSignals.decisions = <<>>
  BY DEF NoSignals, Signals
<1>6. Idle \in CallState /\ 0 \in 0..MaxFaults
  BY BoundsAssumption DEF CallState
<1>7. StateType
  BY <1>2, <1>3, <1>4, <1>5, <1>6 DEF Init, StateType
<1>8. ASSUME NEW r \in Requests
      PROVE  /\ db.sr[r] = NoRow /\ db.versions[r] = 0
             /\ wf[r] = NotStarted /\ sig[r] = NoSignals /\ faults = 0
  BY <1>1 DEF Init, EmptyStore
<1>9. \A r \in Requests : Agreed(r) /\ Queued(r) /\ Counted(r) /\ Begun(r)
  <2> SUFFICES ASSUME NEW r \in Requests
               PROVE  Agreed(r) /\ Queued(r) /\ Counted(r) /\ Begun(r)
    OBVIOUS
  <2>1. Agreed(r)
    BY <1>3, <1>5, <1>8 DEF Agreed, AgreedPc
  <2>2. Queued(r)
    BY <1>3, <1>5, <1>8 DEF Queued, Status, NoRow
  <2>3. Counted(r)
    BY <1>3, <1>8 DEF Counted
  <2>4. Begun(r)
    BY <1>3, <1>8 DEF Begun, Status, NoRow
  <2> QED
    BY <2>1, <2>2, <2>3, <2>4
<1>10. \A c \in Clients : call[c] = Idle
  BY DEF Init
<1> QED
  BY <1>7, <1>9, <1>10 DEF NFSInvariant, InitiatedOnce, InitiateReady, ApprovesQueued

\* A step about one request keeps the parts about requests.
LEMMA RequestsKept ==
    ASSUME NFSInvariant, NEW r \in Requests, WorkflowEffect(r) \/ ServiceEffect(r)
    PROVE  \A q \in Requests : Agreed(q)' /\ Queued(q)' /\ Counted(q)' /\ Begun(q)'
<1>1. StateType /\ Agreed(r) /\ Queued(r) /\ Counted(r) /\ Begun(r)
  BY DEF NFSInvariant
<1>2. Agreed(r)' /\ Queued(r)' /\ Counted(r)' /\ Begun(r)'
  <2>1. CASE WorkflowEffect(r)
    BY <1>1, <2>1, WorkflowKeepsAgreed, WorkflowKeepsQueued, WorkflowKeepsCounted,
       WorkflowKeepsBegun
  <2>2. CASE ServiceEffect(r)
    BY <1>1, <2>2, ServiceKeepsAgreed, ServiceKeepsQueued, ServiceKeepsCounted,
       ServiceKeepsBegun DEF NFSInvariant
  <2> QED
    BY <2>1, <2>2
<1>3. Apart(r)
  BY <1>1, WorkflowApart, ServiceApart
<1>4. ASSUME NEW q \in Requests \ {r}
      PROVE  Agreed(q)' /\ Queued(q)' /\ Counted(q)' /\ Begun(q)'
  BY <1>1, <1>3, OthersKept DEF NFSInvariant
<1> QED
  BY <1>2, <1>4

\* Every step keeps the invariant.
LEMMA InvariantKept ==
    ASSUME NFSInvariant, [Next]_vars
    PROVE  NFSInvariant'
<1>1. /\ StateType /\ InitiatedOnce
      /\ \A c \in Clients : InitiateReady(c) /\ ApprovesQueued(c)
      /\ \A r \in Requests : Agreed(r) /\ Queued(r) /\ Counted(r) /\ Begun(r)
  BY DEF NFSInvariant
<1>2. StateType'
  BY <1>1, TypeKept
<1>3. ASSUME NEW r \in Requests, UNCHANGED call,
             WorkflowEffect(r) \/ (ServiceEffect(r) /\ UNCHANGED wf)
      PROVE  NFSInvariant'
  <2>1. Apart(r)
    BY <1>1, <1>3, WorkflowApart, ServiceApart
  <2>2. InitiatedOnce'
    BY <1>1, <1>3 DEF InitiatedOnce
  <2>3. Running(r) \/ UNCHANGED wf
    BY <1>3 DEF WorkflowEffect, Moves
  <2>4. \A d \in Clients : InitiateReady(d)' /\ ApprovesQueued(d)'
    BY <1>1, <1>3, <2>1, <2>3, CallKept
  <2> QED
    BY <1>2, <1>3, <2>2, <2>4, RequestsKept DEF NFSInvariant
<1>4. ASSUME NEW c \in Clients, HandlerEffect(c), UNCHANGED wf \/ call[c].op = "initiate"
      PROVE  NFSInvariant'
  <2> DEFINE r == call[c].r
  <2>1. r \in Requests /\ call[c] # Idle /\ CallEffect(c) /\ ServiceEffect(r)
    BY <1>1, <1>4, CallsRequest DEF HandlerEffect, CallEffect
  <2>2. Apart(r)
    BY <1>1, <2>1, ServiceApart
  <2>3. InitiatedOnce'
    BY <1>1, <2>1 DEF InitiatedOnce, CallEffect
  <2>4. InitiateReady(c)' /\ ApprovesQueued(c)'
    BY <1>1, <2>1, <2>2 DEF CallEffect, ApprovesQueued, Apart
  <2>5. ASSUME NEW d \in Clients \ {c}
        PROVE  InitiateReady(d)' /\ ApprovesQueued(d)'
    <3>1. call'[d] = call[d]
      BY <2>1 DEF CallEffect
    <3>2. \/ UNCHANGED wf
          \/ \E e \in Clients \ {d} : /\ call[e] # Idle /\ call[e].op = "initiate"
                                      /\ call[e].r = r
      BY <1>4, <2>1
    <3> QED
      BY <1>1, <2>1, <2>2, <3>1, <3>2, CallKept
  <2>6. \A q \in Requests : Agreed(q)' /\ Queued(q)' /\ Counted(q)' /\ Begun(q)'
    BY <2>1, RequestsKept
  <2> QED
    BY <1>2, <2>3, <2>4, <2>5, <2>6 DEF NFSInvariant
<1>5. ASSUME NEW c \in Clients, NEW r \in Requests, CallBegins(c, r)
      PROVE  NFSInvariant'
  <2>1. /\ UNCHANGED <<db, wf, wdw, sig, faults, consent>>
        /\ \A d \in Clients \ {c} : call'[d] = call[d]
        /\ call'[c].r = r
    BY <1>5 DEF CallBegins, wfVars
  <2>2. \A q \in Requests : Agreed(q)' /\ Queued(q)' /\ Counted(q)' /\ Begun(q)'
    BY <1>1, <2>1 DEF Agreed, Queued, Counted, Begun, Status, Exists
  <2>3. InitiatedOnce'
    BY <1>1, <1>5, <2>1 DEF InitiatedOnce, CallBegins, Fresh
  <2>4. ASSUME NEW d \in Clients \ {c}
        PROVE  InitiateReady(d)' /\ ApprovesQueued(d)'
    BY <1>1, <2>1 DEF InitiateReady, ApprovesQueued, Exists
  <2>5. InitiateReady(c)'
    <3>1. call'[c].op = "initiate" => wf[r].pc = "none" /\ call'[c].at = "ticket"
      BY <1>1, <1>5 DEF CallBegins, Fresh, Begun
    <3>2. wf'[call'[c].r].pc = wf[r].pc
      BY <2>1
    <3> QED
      BY <3>1, <3>2 DEF InitiateReady
  <2>6. ApprovesQueued(c)'
    BY <1>1, <1>5, <2>1 DEF ApprovesQueued, CallBegins, Queued
  <2> QED
    BY <1>2, <2>2, <2>3, <2>4, <2>5, <2>6 DEF NFSInvariant
<1>6. CASE UNCHANGED vars
  BY <1>1, <1>2, <1>6 DEF vars, wfVars, NFSInvariant, InitiatedOnce, InitiateReady,
     ApprovesQueued, Agreed, Queued, Counted, Begun, Status, Exists
<1> QED
  BY <1>1, <1>3, <1>4, <1>5, <1>6, StepShape

\* What the workflows, the handlers and the withdrawals keep between them.
THEOREM InvariantHolds == Spec => []NFSInvariant
BY InvariantAtInit, InvariantKept, PTL DEF Spec

\* Tables, workflows, signals and calls stay within their types.
THEOREM TypeCorrect == Spec => []TypeOK
<1>1. NFSInvariant => TypeOK
  BY DEF NFSInvariant, StateType, TypeOK, Signals, WorkflowState, WithdrawalState
<1> QED
  BY <1>1, InvariantHolds, PTL

\* A decision waits for, or has reached, only a request of the queue.
THEOREM DecidesAssigned == Spec => []AssignedBeforeDecided
<1>1. NFSInvariant => AssignedBeforeDecided
  BY DEF NFSInvariant, Queued, AssignedBeforeDecided
<1> QED
  BY <1>1, InvariantHolds, PTL

\* Repeated OTPs and approvals write no further version; only failures do.
THEOREM OnlyRetriesRepeat == Spec => []DuplicatesAreRetries
<1>1. NFSInvariant => DuplicatesAreRetries
  <2> SUFFICES ASSUME NFSInvariant, NEW r \in Requests
               PROVE  db.versions[r] <= 1 + faults
    BY DEF DuplicatesAreRetries
  <2>1. db.versions[r] \in Nat /\ faults \in Nat /\ db.versions[r] <= faults + 1
    BY RowType, BoundsAssumption DEF NFSInvariant, StateType, Counted
  <2> QED
    BY <2>1
<1> QED
  BY <1>1, InvariantHolds, PTL

\* A withdrawn request whose workflow and calls are over stays withdrawn and at
\* rest, whatever is called or delivered afterwards.
THEOREM WithdrawalStands == Spec => WithdrawnForGood
<1>1. NFSInvariant /\ [Next]_vars => [\A r \in Requests : AtRest(r) => AtRest(r)']_vars
  <2> SUFFICES ASSUME NFSInvariant, [Next]_vars, NEW r \in Requests, AtRest(r)
               PROVE  AtRest(r)'
    OBVIOUS
  <2>1. /\ StateType /\ \A c \in Clients : InitiateReady(c)
        /\ Status(db, r) = "WITHDRAWN" /\ ~Running(r)
        /\ \A c \in Clients : call[c] # Idle /\ call[c].r = r
                               => call[c].op \notin {"initiate", "submit"}
    BY DEF NFSInvariant, AtRest
  <2>2. ASSUME NEW q \in Requests \ {r}, Apart(q)
        PROVE  Status(db', r) = "WITHDRAWN" /\ ~Running(r)'
    BY <2>1, <2>2 DEF Apart, Status, Running
  <2>3. ASSUME ServiceEffect(r), UNCHANGED wf
        PROVE  Status(db', r) = "WITHDRAWN" /\ ~Running(r)'
    <3>1. Restates(r, Status(db', r)) /\ Exists(db, r)
      BY <2>1, <2>3 DEF ServiceEffect, Exists, Status, NoRow
    <3>2. ~\E c \in Clients : At(c, "submit", "status") /\ call[c].r = r
      BY <2>1 DEF At
    <3> QED
      BY <2>1, <2>3, <3>1, <3>2 DEF Restates, Running
  <2>4. ASSUME NEW q \in Requests, WorkflowEffect(q), UNCHANGED call
        PROVE  AtRest(r)'
    <3>1. Running(q) /\ Apart(q)
      BY <2>1, <2>4, WorkflowApart DEF WorkflowEffect, Moves
    <3>2. q # r
      BY <2>1, <3>1
    <3> QED
      BY <2>1, <2>2, <2>4, <3>1, <3>2 DEF AtRest
  <2>5. ASSUME NEW q \in Requests, ServiceEffect(q), UNCHANGED <<call, wf>>
        PROVE  AtRest(r)'
    <3>1. Apart(q)
      BY <2>1, <2>5, ServiceApart
    <3> QED
      BY <2>1, <2>2, <2>3, <2>5, <3>1 DEF AtRest
  <2>6. ASSUME NEW c \in Clients, HandlerEffect(c),
               UNCHANGED wf \/ call[c].op = "initiate"
        PROVE  AtRest(r)'
    <3> DEFINE q == call[c].r
    <3>1. /\ q \in Requests /\ CallEffect(c) /\ ServiceEffect(q) /\ Apart(q)
      BY <2>1, <2>6, CallsRequest, ServiceApart DEF HandlerEffect, CallEffect
    <3>2. Status(db', r) = "WITHDRAWN" /\ ~Running(r)'
      <4>1. CASE q = r
        BY <2>1, <2>3, <2>6, <3>1, <4>1 DEF CallEffect
      <4>2. CASE q # r
        BY <2>2, <3>1, <4>2
      <4> QED
        BY <4>1, <4>2
    <3>3. \A d \in Clients : call'[d] # Idle /\ call'[d].r = r
                             => call'[d].op \notin {"initiate", "submit"}
      BY <2>1, <3>1 DEF CallEffect
    <3> QED
      BY <3>2, <3>3 DEF AtRest
  <2>7. ASSUME NEW c \in Clients, NEW q \in Requests, CallBegins(c, q)
        PROVE  AtRest(r)'
    <3>1. /\ UNCHANGED <<db, wf>> /\ call'[c].r = q
          /\ \A d \in Clients \ {c} : call'[d] = call[d]
          /\ call'[c].op = "initiate" => ~Exists(db, q)
          /\ call'[c].op = "submit" => Status(db, q) # "WITHDRAWN"
      BY <2>7 DEF CallBegins, wfVars, Fresh
    <3>2. Exists(db, r)
      BY <2>1 DEF Exists, Status, NoRow
    <3>3. Status(db', r) = "WITHDRAWN" /\ ~Running(r)'
      BY <2>1, <3>1 DEF Running, Status
    <3>4. \A d \in Clients : call'[d] # Idle /\ call'[d].r = r
                             => call'[d].op \notin {"initiate", "submit"}
      BY <2>1, <3>1, <3>2
    <3> QED
      BY <3>3, <3>4 DEF AtRest
  <2>8. CASE UNCHANGED vars
    BY <2>1, <2>8 DEF AtRest, vars, wfVars, Running, Status
  <2> QED
    BY <2>1, <2>4, <2>5, <2>6, <2>7, <2>8, StepShape
<1> QED
  BY <1>1, InvariantHolds, PTL DEF Spec, WithdrawnForGood

\* How the requests that read COMPLETED change with one row.
LEMMA ReportedStep ==
    ASSUME NEW r \in Requests, Apart(r),
           NEW before, before = {q \in Requests : Status(db, q) = "COMPLETED"},
           NEW after, after = {q \in Requests : Status(db', q) = "COMPLETED"}
    PROVE  \/ Status(db', r) = "COMPLETED" /\ after = before \cup {r}
           \/ Status(db', r) # "COMPLETED" /\ after = before \ {r}
<1>1. \A q \in Requests \ {r} : Status(db', q) = Status(db, q)
  BY DEF Apart, Status
<1> QED
  BY <1>1

\* The service changes a customer's data only as agreed, and reports a change
\* only when it is made.
THEOREM ImplementsChange == Spec => ChangeImplemented
<1> DEFINE reported == {r \in Requests : Status(db, r) = "COMPLETED"}
<1>1. Init => Control!Init
  <2> SUFFICES ASSUME Init PROVE Control!Init
    OBVIOUS
  <2>1. PICK schema \in Schemas : db = EmptyStore(schema)
    BY DEF Init
  <2>2. db.versions = [r \in Requests |-> 0] /\ \A r \in Requests : db.sr[r] = NoRow
    BY <2>1 DEF EmptyStore
  <2>3. reported = {}
    BY <2>2 DEF Status, NoRow
  <2> QED
    BY <2>2, <2>3 DEF Init, Control!Init
<1>2. NFSInvariant /\ [Next]_vars => [Control!Next]_<<consent, db.versions, reported>>
  <2> SUFFICES ASSUME NFSInvariant, [Next]_vars
               PROVE  Control!Next \/ UNCHANGED <<consent, db.versions, reported>>
    OBVIOUS
  <2>1. StateType /\ \A c \in Clients : InitiateReady(c)
    BY DEF NFSInvariant
  <2>2. ASSUME NEW r \in Requests, WorkflowEffect(r)
        PROVE  Control!Next \/ UNCHANGED <<consent, db.versions, reported>>
    <3>1. Apart(r) /\ consent' = consent
      BY <2>1, <2>2, WorkflowApart DEF WorkflowEffect
    <3>2. \/ Status(db', r) = "COMPLETED" /\ reported' = reported \cup {r}
          \/ Status(db', r) # "COMPLETED" /\ reported' = reported \ {r}
      BY <3>1, ReportedStep
    <3>3. CASE Reports(r)
      <4>1. db'.versions = db.versions
        BY <3>3 DEF Reports, WritesRow
      <4>2. CASE Status(db', r) = "COMPLETED" /\ Status(db, r) = "COMPLETED"
        <5>1. reported' = reported
          BY <3>2, <4>2
        <5> QED
          BY <3>1, <4>1, <5>1
      <4>3. CASE Status(db', r) = "COMPLETED" /\ Status(db, r) # "COMPLETED"
        <5>1. db.versions[r] > 0
          BY <3>3, <4>3 DEF Reports, NFSInvariant, Counted
        <5>2. Control!Report(r)
          BY <3>1, <3>2, <4>1, <4>3, <5>1 DEF Control!Report
        <5> QED
          BY <5>2 DEF Control!Next
      <4>4. CASE Status(db', r) # "COMPLETED"
        <5>1. Control!Retract(r)
          BY <3>1, <3>2, <4>1, <4>4 DEF Control!Retract
        <5> QED
          BY <5>1 DEF Control!Next
      <4> QED
        BY <4>2, <4>3, <4>4
    <3>4. CASE Applies(r)
      <4>1. /\ db'.versions = [db.versions EXCEPT ![r] = @ + 1]
            /\ reported' = reported
        BY <3>4 DEF Applies, AddsVersion, Status
      <4>2. r \in consent
        BY <3>4 DEF Applies, NFSInvariant, Agreed, AgreedPc
      <4>3. Control!Apply(r)
        BY <3>1, <4>1, <4>2 DEF Control!Apply
      <4> QED
        BY <4>3 DEF Control!Next
    <3> QED
      BY <2>2, <3>3, <3>4 DEF WorkflowEffect
  <2>3. ASSUME NEW r \in Requests, ServiceEffect(r)
        PROVE  Control!Next \/ UNCHANGED <<consent, db.versions, reported>>
    <3>1. Apart(r) /\ db'.versions = db.versions /\ Restates(r, Status(db', r))
      BY <2>1, <2>3, ServiceApart DEF ServiceEffect, WritesRow
    <3>2. \/ Status(db', r) = "COMPLETED" /\ reported' = reported \cup {r}
          \/ Status(db', r) # "COMPLETED" /\ reported' = reported \ {r}
      BY <3>1, ReportedStep
    <3>3. CASE UNCHANGED consent
      <4>1. CASE Status(db', r) = "COMPLETED"
        <5>1. Status(db, r) = "COMPLETED"
          BY <3>1, <4>1 DEF Restates
        <5>2. reported' = reported
          BY <3>2, <4>1, <5>1
        <5> QED
          BY <3>1, <3>3, <5>2
      <4>2. CASE Status(db', r) # "COMPLETED"
        <5>1. Control!Retract(r)
          BY <3>1, <3>2, <3>3, <4>2 DEF Control!Retract
        <5> QED
          BY <5>1 DEF Control!Next
      <4> QED
        BY <4>1, <4>2
    <3>4. CASE consent' = consent \cup {r} /\ UNCHANGED db
      <4>1. reported' = reported
        BY <3>4
      <4>2. Control!Agree(r)
        BY <3>1, <3>4, <4>1 DEF Control!Agree
      <4> QED
        BY <4>2 DEF Control!Next
    <3> QED
      BY <2>3, <3>3, <3>4 DEF ServiceEffect
  <2>4. ASSUME NEW c \in Clients, HandlerEffect(c)
        PROVE  Control!Next \/ UNCHANGED <<consent, db.versions, reported>>
    BY <2>1, <2>3, <2>4, CallsRequest DEF HandlerEffect, CallEffect
  <2>5. ASSUME UNCHANGED <<db, consent>>
        PROVE  UNCHANGED <<consent, db.versions, reported>>
    BY <2>5
  <2>6. ASSUME \/ \E c \in Clients, r \in Requests : CallBegins(c, r)
               \/ UNCHANGED vars
        PROVE  UNCHANGED <<db, consent>>
    BY <2>6 DEF CallBegins, vars, wfVars
  <2> HIDE DEF reported
  <2> QED
    BY <2>1, <2>2, <2>3, <2>4, <2>5, <2>6, StepShape
<1> QED
  BY <1>1, <1>2, InvariantHolds, PTL DEF Spec, ChangeImplemented, Control!Spec
=============================================================================
