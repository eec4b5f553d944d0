------------------------------ MODULE BatchScan ------------------------------
(***************************************************************************)
(* The batch scans of policy-management: the schedules that fire them, the *)
(* workflow that runs one activity and records its result, and the scan    *)
(* activities, which page through the policy table, move the rows of a     *)
(* page in bulk and then tell the policies' workflows.                     *)
(*                                                                         *)
(* A scan reads a page, and other scans, customers and workflows run       *)
(* before it writes what it decided from that page.  Dates are kept only   *)
(* as far as a scan compares them: whether the premium is overdue, and     *)
(* whether the remission period is open or past.                           *)
(*                                                                         *)
(* Before some operators stands a faulty variant, named for its fault,     *)
(* that no action uses: put in its place, it breaks a property.            *)
(***************************************************************************)
EXTENDS Integers, Sequences, FiniteSets

CONSTANTS
    MaxPolicy,      \* the policies are 1..MaxPolicy: the order of their ids
    Registered,     \* the sets of scan types that may have a schedule
    Traits,         \* what the scans read of a policy and nobody changes
    Start,          \* the statuses the policies may have at first
    WorkflowMoves,  \* transitions the policies' workflows make meanwhile
    PageSize,       \* batchPageSize
    MaxAttempts,    \* attempts of a scan activity
    MaxMoves,       \* bound: premiums paid and moves of workflows, together
    MaxFaults       \* bound: failures of calls and losses of the worker

Policies == 1..MaxPolicy

Kinds == {"LAPSATION", "REMISSION_EXPIRY_SHORT", "REMISSION_EXPIRY_LONG",
          "PAID_UP_CONVERSION", "MATURITY_SCAN", "FORCED_SURRENDER_EVAL"}

\* life: under 6 months, under 36, or more.  The others: pay-recovery protection,
\* maturity within 90 days, premiums paid for 36 months, paid-up value of 10000
\* or more, loan above the sum assured, loan above the surrender value.
Trait == [life : {"short", "mid", "long"},
          facts : SUBSET {"protected", "maturing", "premiums", "valuable",
                          "overSum", "overGSV"}]

Status == {"ACTIVE", "VOID_LAPSE", "INACTIVE_LAPSE", "ACTIVE_LAPSE", "VOID",
           "PAID_UP", "PENDING_MATURITY", "ASSIGNED_TO_PRESIDENT", "SUSPENDED"}

Nowhere == "nowhere"        \* the row stays as it is

ASSUME ScanConstants ==
    /\ MaxPolicy \in Nat \ {0} /\ PageSize \in Nat \ {0}
    /\ MaxAttempts \in Nat \ {0}
    /\ MaxMoves \in Nat /\ MaxFaults \in Nat
    /\ Registered \subseteq SUBSET Kinds /\ Start \subseteq [Policies -> Status]
    /\ Traits \subseteq [Policies -> Trait]
    /\ WorkflowMoves \subseteq Status \X Status

VARIABLES
    scheduled,  \* the scan types whose schedule start-up has created
    trait,      \* of each policy
    row,        \* its row: status, overdue premium, remission period
    memory,     \* the status its workflow holds
    syncs,      \* batch-state-sync signals its workflow has not handled
    triggered,  \* policies sent a forced-surrender trigger
    history,    \* policy_status_history rows the scans have written
    run,        \* the workflow run of each scan type
    moves, faults

vars == <<scheduled, trait, row, memory, syncs, triggered, history, run, moves, faults>>
world == <<scheduled, trait, row, memory, syncs, triggered, history>>

\* updates: the targets of the bulk updates of the page still to run; signals: its
\* rows still to be signalled after those.
NotRunning == [at |-> "idle", attempt |-> 0, offset |-> 0, page |-> {},
               updates |-> {}, signals |-> {}]

Fact(p, fact) == fact \in trait[p].facts

Init ==
    /\ scheduled \in Registered
    /\ trait \in Traits
    /\ \E status \in Start :
         row = [p \in Policies |-> [status |-> status[p], overdue |-> TRUE,
                                    remission |-> "none"]]
    /\ memory = [p \in Policies |-> row[p].status]
    /\ syncs = [p \in Policies |-> <<>>]
    /\ triggered = {} /\ history = {}
    /\ run = [k \in Kinds |-> NotRunning]
    /\ moves = 0 /\ faults = 0

-----------------------------------------------------------------------------
(* What a scan selects, and what it decides for a row it selected. *)

\* The long remission scan compares the month field of an interval, which is
\* below 12, with 36: it never selects a row, and the short scan selects all.
Selected(k, p) ==
    LET s == row[p].status
    IN CASE k = "LAPSATION" ->
              s = "ACTIVE" /\ row[p].overdue /\ ~Fact(p, "protected")
         [] k = "REMISSION_EXPIRY_SHORT" ->
              s = "VOID_LAPSE" /\ row[p].remission = "past"
         [] k = "REMISSION_EXPIRY_LONG" -> FALSE
         [] k = "PAID_UP_CONVERSION" -> s = "ACTIVE_LAPSE" /\ Fact(p, "premiums")
         [] k = "MATURITY_SCAN" -> s = "ACTIVE" /\ Fact(p, "maturing")
         [] k = "FORCED_SURRENDER_EVAL" ->
              s = "ASSIGNED_TO_PRESIDENT" /\ Fact(p, "overSum")

MisspeltLapseStatus(life) ==
    CASE life = "short" -> "VOID" [] life = "mid" -> "VOID_LAPSE"
      [] life = "long" -> "LAPSE_INACTIVE"

LapseStatus(life) ==
    CASE life = "short" -> "VOID" [] life = "mid" -> "VOID_LAPSE"
      [] life = "long" -> "INACTIVE_LAPSE"

Target(k, p) ==
    CASE k = "LAPSATION" -> LapseStatus(trait[p].life)
      [] k = "REMISSION_EXPIRY_SHORT" -> "VOID"
      [] k = "REMISSION_EXPIRY_LONG" -> "ACTIVE_LAPSE"
      [] k = "PAID_UP_CONVERSION" ->
           IF trait[p].life # "long" THEN Nowhere
           ELSE IF Fact(p, "valuable") THEN "PAID_UP" ELSE "VOID"
      [] k = "MATURITY_SCAN" -> "PENDING_MATURITY"
      [] k = "FORCED_SURRENDER_EVAL" -> Nowhere

\* The status the bulk update of a scan insists on.
Source(k) ==
    CASE k \in {"LAPSATION", "MATURITY_SCAN"} -> "ACTIVE"
      [] k = "REMISSION_EXPIRY_SHORT" -> "VOID_LAPSE"
      [] k = "REMISSION_EXPIRY_LONG" -> "INACTIVE_LAPSE"
      [] k = "PAID_UP_CONVERSION" -> "ACTIVE_LAPSE"
      [] k = "FORCED_SURRENDER_EVAL" -> "ASSIGNED_TO_PRESIDENT"

\* The order of the bulk updates of a page, one transaction each.
Groups(k) ==
    CASE k = "LAPSATION" -> <<"VOID", "VOID_LAPSE", "INACTIVE_LAPSE">>
      [] k = "PAID_UP_CONVERSION" -> <<"PAID_UP", "VOID">>
      [] k = "MATURITY_SCAN" -> <<"PENDING_MATURITY">>
      [] k = "REMISSION_EXPIRY_SHORT" -> <<"VOID">>
      [] k = "REMISSION_EXPIRY_LONG" -> <<"ACTIVE_LAPSE">>
      [] k = "FORCED_SURRENDER_EVAL" -> <<>>

GroupSet(k) == {Groups(k)[i] : i \in DOMAIN Groups(k)}

\* computeRemissionExpiry: no remission below six months; otherwise a date that
\* may lie in the past when the premium has been overdue for long.
RemissionAtLapse(life) == IF life = "short" THEN {"none"} ELSE {"open", "past"}

\* Only lapsation writes the remission date.
RemissionsAfter(k, moved) ==
    {f \in [moved -> {"none", "open", "past"}] :
       \A p \in moved : f[p] \in IF k = "LAPSATION" THEN RemissionAtLapse(trait[p].life)
                                ELSE {row[p].remission}}

\* ORDER BY policy_id LIMIT batchPageSize OFFSET offset.
Position(k, p) == Cardinality({q \in Policies : Selected(k, q) /\ q <= p})
Page(k, offset) ==
    {p \in Policies : /\ Selected(k, p)
                      /\ offset < Position(k, p) /\ Position(k, p) <= offset + PageSize}

-----------------------------------------------------------------------------
(* The schedules and the workflow. *)

Fails == faults < MaxFaults /\ faults' = faults + 1
NoFault == faults' = faults

\* A schedule fires unless its previous run is still going on.
Fire(k) ==
    /\ k \in scheduled /\ run[k] = NotRunning
    /\ run' = [run EXCEPT ![k] = [NotRunning EXCEPT !.at = "fetch", !.attempt = 1]]
    /\ UNCHANGED <<world, moves, faults>>

\* The attempt is over without a result: it is repeated from the first page.
RetryOrFail(k) ==
    LET next == run[k].attempt + 1
    IN run' = [run EXCEPT ![k] =
                 IF next <= MaxAttempts
                 THEN [NotRunning EXCEPT !.at = "fetch", !.attempt = next]
                 ELSE [NotRunning EXCEPT !.at = "failed"]]

\* The worker is lost, or the activity misses its heartbeat, at any point.
WorkerLost(k) ==
    /\ run[k].at \in {"fetch", "page"}
    /\ Fails
    /\ RetryOrFail(k)
    /\ UNCHANGED <<world, moves>>

\* RecordBatchScanResultActivity: the run ends whether or not its row is written,
\* which nothing but the status endpoint reads.
Record(k) ==
    /\ run[k].at \in {"done", "failed"}
    /\ run' = [run EXCEPT ![k] = NotRunning]
    /\ UNCHANGED <<world, moves, faults>>

-----------------------------------------------------------------------------
(* One page. *)

FetchPage(k) ==
    LET page == Page(k, run[k].offset)
        targets == {Target(k, p) : p \in page}
    IN /\ run[k].at = "fetch"
       /\ run' = [run EXCEPT ![k] =
                    IF page = {} THEN [run[k] EXCEPT !.at = "done"]
                    ELSE [run[k] EXCEPT !.at = "page", !.page = page, !.signals = page,
                                        !.updates = GroupSet(k) \cap targets]]
       /\ UNCHANGED <<world, moves, faults>>

FetchFails(k) ==
    /\ run[k].at = "fetch"
    /\ Fails
    /\ RetryOrFail(k)
    /\ UNCHANGED <<world, moves>>

MovableUnchecked(k, p) == TRUE
Movable(k, p) == row[p].status = Source(k)

\* The update of the page that is next.
NextUpdate(k, to) ==
    /\ to \in run[k].updates
    /\ \E i \in DOMAIN Groups(k) :
         /\ Groups(k)[i] = to
         /\ \A j \in 1 .. i - 1 : Groups(k)[j] \notin run[k].updates

\* The guarded UPDATE and a history row for every id, in one transaction; the
\* history row is inserted also when the guard passed the policy over.  An error
\* is counted, and the scan goes on.
BulkTransition(k, to) ==
    LET members == {p \in run[k].page : Target(k, p) = to}
        moved == {p \in members : Movable(k, p)}
    IN /\ NextUpdate(k, to)
       /\ \/ /\ \E remission \in RemissionsAfter(k, moved) :
                  row' = [p \in Policies |->
                            IF p \in moved
                            THEN [row[p] EXCEPT !.status = to, !.remission = remission[p]]
                            ELSE row[p]]
             /\ history' = history \cup {<<p, Source(k), to>> : p \in members}
             /\ NoFault
          \/ Fails /\ UNCHANGED <<row, history>>
       /\ run' = [run EXCEPT ![k].updates = @ \ {to}]
       /\ UNCHANGED <<scheduled, trait, memory, syncs, triggered, moves>>

\* The signals go out in the order of the rows when the updates are done, whether
\* or not they failed.
Signals(k, p) ==
    /\ run[k].updates = {}
    /\ p \in run[k].signals /\ \A q \in run[k].signals : p <= q
    /\ run' = [run EXCEPT ![k].signals = @ \ {p}]

\* A lost signal is not noticed.
SignalSync(k, p) ==
    LET to == Target(k, p)
    IN /\ Signals(k, p) /\ k # "FORCED_SURRENDER_EVAL"
       /\ \/ to = Nowhere /\ NoFault /\ syncs' = syncs
          \/ to # Nowhere /\ NoFault /\ syncs' = [syncs EXCEPT ![p] = Append(@, to)]
          \/ to # Nowhere /\ Fails /\ syncs' = syncs
       /\ UNCHANGED <<scheduled, trait, row, memory, triggered, history, moves>>

\* What the surrender service says of the loan, when it can be asked.
ExceedsGSV(p) == Fact(p, "overGSV")

\* A policy is passed over when its surrender value cannot be had, or is above
\* the loan after all.
SignalTrigger(k, p) ==
    /\ Signals(k, p) /\ k = "FORCED_SURRENDER_EVAL"
    /\ \/ NoFault /\ triggered' = triggered \cup {q \in {p} : ExceedsGSV(q)}
       \/ Fails /\ triggered' = triggered
    /\ UNCHANGED <<scheduled, trait, row, memory, syncs, history, moves>>

OffsetStays(k) ==
    /\ run[k].at = "page" /\ run[k].updates = {} /\ run[k].signals = {}
    /\ run' = [run EXCEPT ![k] =
                 [run[k] EXCEPT
                    !.at = IF Cardinality(run[k].page) < PageSize THEN "done" ELSE "fetch",
                    !.page = {}]]
    /\ UNCHANGED <<world, moves, faults>>

PageDone(k) ==
    /\ run[k].at = "page" /\ run[k].updates = {} /\ run[k].signals = {}
    /\ run' = [run EXCEPT ![k] =
                 [run[k] EXCEPT
                    !.at = IF Cardinality(run[k].page) < PageSize THEN "done" ELSE "fetch",
                    !.offset = run[k].offset + PageSize, !.page = {}]]
    /\ UNCHANGED <<world, moves, faults>>

-----------------------------------------------------------------------------
(* What happens to a policy meanwhile. *)

Meanwhile == moves < MaxMoves /\ moves' = moves + 1

\* A month and its grace pass unpaid; a premium is paid; a remission period ends.
PremiumOverdue(p) ==
    /\ row[p].status = "ACTIVE" /\ ~row[p].overdue
    /\ row' = [row EXCEPT ![p].overdue = TRUE]
    /\ UNCHANGED <<scheduled, trait, memory, syncs, triggered, history, run, moves, faults>>

PremiumPaid(p) ==
    /\ Meanwhile
    /\ row[p].overdue
    /\ row' = [row EXCEPT ![p].overdue = FALSE]
    /\ UNCHANGED <<scheduled, trait, memory, syncs, triggered, history, run, faults>>

RemissionEnds(p) ==
    /\ row[p].remission = "open"
    /\ row' = [row EXCEPT ![p].remission = "past"]
    /\ UNCHANGED <<scheduled, trait, memory, syncs, triggered, history, run, moves, faults>>

\* A transition of the policy's workflow.  Its write misses the row unless the
\* two are in step, and goes unnoticed.
WorkflowMoved(p, to) ==
    /\ Meanwhile
    /\ <<memory[p], to>> \in WorkflowMoves
    /\ memory' = [memory EXCEPT ![p] = to]
    /\ row' = IF row[p].status = memory[p] THEN [row EXCEPT ![p].status = to] ELSE row
    /\ UNCHANGED <<scheduled, trait, syncs, triggered, history, run, faults>>

SyncIfActive(p) ==
    /\ syncs[p] # <<>>
    /\ memory' = [memory EXCEPT ![p] = IF @ = "ACTIVE" THEN Head(syncs[p]) ELSE @]
    /\ syncs' = [syncs EXCEPT ![p] = Tail(@)]
    /\ UNCHANGED <<scheduled, trait, row, triggered, history, run, moves, faults>>

\* The batch-state-sync handler: in memory only.
HandleSync(p) ==
    /\ syncs[p] # <<>>
    /\ memory' = [memory EXCEPT ![p] = Head(syncs[p])]
    /\ syncs' = [syncs EXCEPT ![p] = Tail(@)]
    /\ UNCHANGED <<scheduled, trait, row, triggered, history, run, moves, faults>>

-----------------------------------------------------------------------------

ScanStep(k) ==
    \/ FetchPage(k) \/ PageDone(k) \/ Record(k)
    \/ \E to \in run[k].updates : BulkTransition(k, to)
    \/ \E p \in run[k].signals : SignalSync(k, p) \/ SignalTrigger(k, p)

Next ==
    \/ \E k \in Kinds : Fire(k) \/ ScanStep(k) \/ FetchFails(k) \/ WorkerLost(k)
    \/ \E p \in Policies :
         \/ PremiumOverdue(p) \/ PremiumPaid(p) \/ RemissionEnds(p) \/ HandleSync(p)
         \/ \E to \in Status : WorkflowMoved(p, to)

Spec == Init /\ [][Next]_vars

\* Schedules fire again and again, a run that a worker has goes on, and the
\* policies' workflows handle their signals.
Fairness ==
    /\ \A k \in Kinds : WF_vars(Fire(k)) /\ WF_vars(ScanStep(k))
    /\ \A p \in Policies : WF_vars(HandleSync(p))

FairSpec == Spec /\ Fairness

-----------------------------------------------------------------------------
(* Properties. *)

\* The variables hold what the code's types and the queries allow.
TypeOK ==
    /\ scheduled \in Registered /\ trait \in Traits
    /\ row \in [Policies -> [status : Status, overdue : BOOLEAN,
                             remission : {"none", "open", "past"}]]
    /\ memory \in [Policies -> Status]
    /\ syncs \in [Policies -> Seq(Status)]
    /\ triggered \subseteq Policies
    /\ history \subseteq Policies \X Status \X Status
    /\ \A k \in Kinds : /\ run[k].attempt \in 0..MaxAttempts
                        /\ run[k].offset <= MaxPolicy + PageSize
                        /\ run[k].page \subseteq Policies
                        /\ Cardinality(run[k].page) <= PageSize
    /\ moves \in 0..MaxMoves /\ faults \in 0..MaxFaults

\* The database-first pattern: a policy that scans decided on once, and that has
\* the status they gave it, has that status in its workflow as well, when no call
\* failed, every signal was handled and no scan has it on its page.  (Two scans
\* that read the same policy leave two history rows; then it need not hold.)
Decided(p) == {h \in history : h[1] = p}
SettledAgrees ==
    \A p \in Policies :
       /\ faults = 0 /\ syncs[p] = <<>>
       /\ \A k \in Kinds : p \notin run[k].page
       /\ \E h \in Decided(p) : Decided(p) = {h} /\ row[p].status = h[3]
       => memory[p] = row[p].status

\* A policy that its workflow suspended after a scan had read it as active is
\* not lapsed by that scan.
SuspendedUntouched ==
    [][\A p \in Policies :
          row[p].status = "SUSPENDED" /\ row'[p].status # "SUSPENDED" => moves' > moves]_vars

\* Scans catch up: although each run misses pages, meets failures and reads rows
\* that others move, it does not last that a scan would still move a policy, or
\* that a loan above the surrender value has had no trigger.
Due(k, p) == Selected(k, p) /\ Target(k, p) # Nowhere
Unheard(p) == /\ "FORCED_SURRENDER_EVAL" \in scheduled
              /\ row[p].status = "ASSIGNED_TO_PRESIDENT"
              /\ Fact(p, "overSum") /\ ExceedsGSV(p)
              /\ p \notin triggered
ScansCatchUp ==
    []<>(\A p \in Policies : ~Unheard(p) /\ \A k \in scheduled : ~Due(k, p))

\* Every run of a scan ends, and its schedule can fire again, also when a page is
\* still selected after it was handled.
RunEnds == \A k \in Kinds : []<>(run[k] = NotRunning)
=============================================================================
