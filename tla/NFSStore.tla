------------------------------ MODULE NFSStore ------------------------------
(***************************************************************************)
(* The tables of the customer NFS service and the operations of its        *)
(* repositories.  An operation is one transaction: it returns whether it   *)
(* commits, and the tables afterwards (the old ones when it does not).     *)
(* All requests of a model belong to one customer.                         *)
(***************************************************************************)
EXTENDS Naturals

CONSTANT Requests          \* the request ids uuid.New() hands out

Types == {"ADDRESS_CHANGE", "NAME_CHANGE"}
Auths == {"AADHAAR", "MANUAL"}

\* The values of the status enum.  PENDING_WITHDRAWAL_APPROVAL is not one.
Statuses == {"CREATED", "PENDING_APPROVAL", "IN_PROGRESS", "PENDING_DOCUMENTS",
             "COMPLETED", "REJECTED", "WITHDRAWN", "DOCUMENTS_EXPIRED"}

Active == {"CREATED", "PENDING_DOCUMENTS", "PENDING_APPROVAL", "IN_PROGRESS"}

(***************************************************************************)
(* The checks of the committed migration that the handlers run into.  The  *)
(* code names columns and tables the migration lacks, so the schema that   *)
(* is deployed may hold any of these checks or none: it is a constant of   *)
(* a behaviour, chosen with the first state.                               *)
(***************************************************************************)
Rules == {"sla_for_manual",    \* a MANUAL row has an sla_deadline
          "new_name",          \* name_change_detail.new_* is NOT NULL
          "reason_required",   \* a REJECTED row has a non-empty reason
          "queue_version"}     \* updating a queue row fails in its trigger

NoRow == [status |-> "NONE", type |-> "NONE", auth |-> "NONE",
          ticket |-> 0, sla |-> FALSE, workflow |-> FALSE]

Row == {NoRow} \cup
       [status : Statuses, type : Types, auth : Auths,
        ticket : Nat \ {0}, sla : BOOLEAN, workflow : BOOLEAN]

EmptyStore(schema) ==
    [sr       |-> [r \in Requests |-> NoRow],   \* service_request and its detail
     queue    |-> {},                           \* cpc_work_queue
     versions |-> [r \in Requests |-> 0],       \* version rows a request has written
     current  |-> {},                           \* requests with an active version row
     seq      |-> [t \in Types |-> 0],          \* ticket_sequence of the day
     schema   |-> schema]

Store == [sr : [Requests -> Row], queue : SUBSET Requests,
          versions : [Requests -> Nat], current : SUBSET Requests,
          seq : [Types -> Nat], schema : SUBSET Rules]

Tx(d, commits, after) == [ok |-> commits, db |-> IF commits THEN after ELSE d]

Exists(d, r)   == d.sr[r] # NoRow
Status(d, r)   == d.sr[r].status
IsManual(d, r) == d.sr[r].auth = "MANUAL"
IsName(d, r)   == d.sr[r].type = "NAME_CHANGE"

-----------------------------------------------------------------------------
(* Reads and single statements. *)

CheckDuplicateRequest(d, type) ==
    \E r \in Requests : d.sr[r].type = type /\ Status(d, r) \in Active

GenerateTicketNumber(d, type) == Tx(d, TRUE, [d EXCEPT !.seq[type] = @ + 1])

GetWorkflowState(d, r) == d.sr[r].workflow

\* UPDATE of a row that is not there changes nothing and is no error.
UpdateWorkflowState(d, r) ==
    Tx(d, TRUE, IF Exists(d, r) THEN [d EXCEPT !.sr[r].workflow = TRUE] ELSE d)

UpdateSLADeadline(d, r) ==
    Tx(d, TRUE, IF Exists(d, r) THEN [d EXCEPT !.sr[r].sla = TRUE] ELSE d)

\* The statement binds seven arguments to six placeholders: it is refused, and
\* no upload link is ever stored.
CreateSecureUploadLink(d) == Tx(d, FALSE, d)

-----------------------------------------------------------------------------
(* The transactions of several statements. *)

Insert(d, r, type, auth, ticket, commits) ==
    Tx(d, commits /\ ~Exists(d, r),
       [d EXCEPT !.sr[r] = [status |-> "CREATED", type |-> type, auth |-> auth,
                            ticket |-> ticket, sla |-> FALSE, workflow |-> FALSE]])

\* Service request, detail and audit entry; sla_deadline is always NULL here.
CreateWithAddressDetail(d, r, auth, ticket) ==
    Insert(d, r, "ADDRESS_CHANGE", auth, ticket,
           ~("sla_for_manual" \in d.schema /\ auth = "MANUAL"))

\* An AADHAAR request carries no new name: UIDAI is to supply it later.
CreateWithNameDetail(d, r, auth, ticket) ==
    Insert(d, r, "NAME_CHANGE", auth, ticket,
           /\ ~("sla_for_manual" \in d.schema /\ auth = "MANUAL")
           /\ ~("new_name" \in d.schema /\ auth = "AADHAAR"))

(***************************************************************************)
(* Status, transition history and audit entry.  The old status is not      *)
(* compared with the new one.  audited says whether the audit entry has an *)
(* id: the callers that leave it out send '' for a UUID, and the whole     *)
(* transaction fails.  reason is "none" (NULL), "empty" or "text".         *)
(***************************************************************************)
UpdateStatus(d, r, new, reason, audited) ==
    Tx(d,
       /\ Exists(d, r)
       /\ new \in Statuses
       /\ audited
       /\ ("reason_required" \in d.schema /\ new = "REJECTED") => reason = "text",
       [d EXCEPT !.sr[r].status = new])

\* Status and queue entry.  A second assignment updates the queue row.
AssignRequestToQueue(d, r) ==
    Tx(d,
       /\ Exists(d, r)
       /\ ~("queue_version" \in d.schema /\ r \in d.queue),
       [d EXCEPT !.sr[r].status = "IN_PROGRESS", !.queue = @ \cup {r}])

\* Deactivates the customer's active version of the address, inserts a new one.
CreateAddressVersion(d, r) ==
    Tx(d, Exists(d, r),
       [d EXCEPT !.versions[r] = @ + 1, !.current = {q \in @ : IsName(d, q)} \cup {r}])

\* Deactivates the active version of the same request only, inserts a new one.
CreateNameVersion(d, r) ==
    Tx(d, Exists(d, r),
       [d EXCEPT !.versions[r] = @ + 1, !.current = (@ \ {r}) \cup {r}])

=============================================================================
