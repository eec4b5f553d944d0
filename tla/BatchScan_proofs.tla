-------------------------- MODULE BatchScan_proofs --------------------------
(***************************************************************************)
(* Theorems about BatchScan, for every number of policies, every page size *)
(* and every value of the bounds.                                          *)
(***************************************************************************)
EXTENDS BatchScan, SequenceLemmas, FiniteSetTheorems

-----------------------------------------------------------------------------
(* What the variables hold.                                                *)

Row == [status : Status, overdue : BOOLEAN, remission : {"none", "open", "past"}]
RunAt == {"idle", "fetch", "page", "done", "failed"}
RunState == [at : RunAt, attempt : 0 .. MaxAttempts, offset : Nat,
             page : SUBSET Policies, updates : SUBSET Status, signals : SUBSET Policies]

\* The types of the variables, which every step of another scan relies on.
Typed ==
    /\ scheduled \in Registered /\ trait \in Traits
    /\ row \in [Policies -> Row]
    /\ memory \in [Policies -> Status]
    /\ syncs \in [Policies -> Seq(Status)]
    /\ triggered \subseteq Policies
    /\ history \subseteq Policies \X Status \X Status
    /\ run \in [Kinds -> RunState]
    /\ moves \in 0 .. MaxMoves /\ faults \in 0 .. MaxFaults

\* Where a run is in its pages: the offset passes the table by a page at the most,
\* the rows still to be signalled are of the page, and none is until every bulk
\* update of the page is behind.
RunFits(k, r) ==
    /\ r.offset <= MaxPolicy + PageSize
    /\ r.page # {} => r.at = "page" /\ r.offset < MaxPolicy
    /\ r.at = "page" => r.page # {}
    /\ Cardinality(r.page) <= PageSize
    /\ r.signals \subseteq r.page
    /\ r.updates # {} => r.signals = r.page
RunsFit == \A k \in Kinds : RunFits(k, run[k])

\* A bulk update that is behind has left its history rows.
Written ==
    \A k \in Kinds : \A p \in run[k].page :
        Target(k, p) # Nowhere /\ Target(k, p) \notin run[k].updates
            => <<p, Source(k), Target(k, p)>> \in history

\* The workflow is told only of what the history says of its policy.
Told ==
    \A p \in Policies : \A i \in 1 .. Len(syncs[p]) :
        \E h \in Decided(p) : h[3] = syncs[p][i]

\* Where all scans that decided on a policy agree with its row, its workflow does
\* as well, or is told, or is about to be.
AllTo(p, to) == Decided(p) # {} /\ \A h \in Decided(p) : h[3] = to
Hears(p) == \/ syncs[p] # <<>>
            \/ \E k \in Kinds : p \in run[k].signals /\ Target(k, p) = row[p].status
Agreed ==
    \A p \in Policies : AllTo(p, row[p].status) => memory[p] = row[p].status \/ Hears(p)

Undisturbed == faults = 0 => Written /\ Told /\ Agreed

ScanInvariant == Typed /\ RunsFit /\ Undisturbed

-----------------------------------------------------------------------------
(* The tables and the pages.                                               *)

\* A status is not "nowhere".
LEMMA StatusMembers == Nowhere \notin Status
BY DEF Nowhere, Status

\* The bulk updates of a page lead to statuses.
LEMMA GroupsAreStatuses ==
    ASSUME NEW k \in Kinds
    PROVE  GroupSet(k) \subseteq Status
<1>1. CASE k = "LAPSATION"
  BY <1>1 DEF GroupSet, Groups, Status
<1>2. CASE k = "PAID_UP_CONVERSION"
  BY <1>2 DEF GroupSet, Groups, Status
<1>3. CASE k = "MATURITY_SCAN"
  BY <1>3 DEF GroupSet, Groups, Status
<1>4. CASE k = "REMISSION_EXPIRY_SHORT"
  BY <1>4 DEF GroupSet, Groups, Status
<1>5. CASE k = "REMISSION_EXPIRY_LONG"
  BY <1>5 DEF GroupSet, Groups, Status
<1>6. CASE k = "FORCED_SURRENDER_EVAL"
  BY <1>6 DEF GroupSet, Groups, Status
<1> QED
  BY <1>1, <1>2, <1>3, <1>4, <1>5, <1>6 DEF Kinds

\* Whatever a scan decides for a row, it has a bulk update for.
LEMMA TargetsAreGroups ==
    ASSUME Typed, NEW k \in Kinds, NEW p \in Policies, Target(k, p) # Nowhere
    PROVE  Target(k, p) \in GroupSet(k)
<1>1. trait[p] \in Trait
  BY ScanConstants DEF Typed
<1>2. trait[p].life \in {"short", "mid", "long"}
  BY <1>1 DEF Trait
<1>3. CASE k = "LAPSATION"
  <2>1. Target(k, p) \in {"VOID", "VOID_LAPSE", "INACTIVE_LAPSE"}
    BY <1>2, <1>3 DEF Target, LapseStatus
  <2>2. /\ Groups(k)[1] = "VOID" /\ Groups(k)[2] = "VOID_LAPSE"
        /\ Groups(k)[3] = "INACTIVE_LAPSE" /\ DOMAIN Groups(k) = 1 .. 3
    BY <1>3 DEF Groups
  <2> QED
    BY <2>1, <2>2 DEF GroupSet
<1>4. CASE k = "PAID_UP_CONVERSION"
  <2>1. Target(k, p) \in {"PAID_UP", "VOID"}
    BY <1>4 DEF Target
  <2>2. /\ Groups(k)[1] = "PAID_UP" /\ Groups(k)[2] = "VOID" /\ DOMAIN Groups(k) = 1 .. 2
    BY <1>4 DEF Groups
  <2> QED
    BY <2>1, <2>2 DEF GroupSet
<1>5. CASE k = "MATURITY_SCAN"
  BY <1>5 DEF Target, GroupSet, Groups
<1>6. CASE k = "REMISSION_EXPIRY_SHORT"
  BY <1>6 DEF Target, GroupSet, Groups
<1>7. CASE k = "REMISSION_EXPIRY_LONG"
  BY <1>7 DEF Target, GroupSet, Groups
<1>8. CASE k = "FORCED_SURRENDER_EVAL"
  BY <1>8 DEF Target
<1> QED
  BY <1>3, <1>4, <1>5, <1>6, <1>7, <1>8 DEF Kinds

\* A bulk update insists on a status, and never on a suspension.
LEMMA SourceType ==
    ASSUME NEW k \in Kinds
    PROVE  Source(k) \in Status \ {"SUSPENDED"}
BY DEF Source, Kinds, Status

\* The rows a scan selects are numbered in the order of their ids.
LEMMA PositionsAscend ==
    ASSUME NEW k, NEW p \in Policies
    PROVE  /\ Position(k, p) \in Nat /\ Position(k, p) <= MaxPolicy
           /\ \A q \in Policies :
                Selected(k, q) /\ p < q => Position(k, p) < Position(k, q)
<1> DEFINE upto(q) == {r \in Policies : Selected(k, r) /\ r <= q}
<1>1. MaxPolicy \in Nat /\ Policies = 1 .. MaxPolicy /\ MaxPolicy # 0
  BY ScanConstants DEF Policies
<1>2. IsFiniteSet(Policies) /\ Cardinality(Policies) = MaxPolicy
  BY <1>1, FS_Interval
<1>3. ASSUME NEW q PROVE /\ IsFiniteSet(upto(q))
                         /\ Cardinality(upto(q)) <= MaxPolicy
                         /\ Cardinality(upto(q)) \in Nat
  <2>1. upto(q) \in SUBSET Policies
    OBVIOUS
  <2> HIDE DEF upto
  <2> QED
    BY <1>2, <2>1, FS_Subset, FS_CardinalityType
<1>4. ASSUME NEW q \in Policies, Selected(k, q), p < q
      PROVE  Cardinality(upto(p)) < Cardinality(upto(q))
  <2>1. upto(p) \subseteq upto(q) \ {q} /\ q \in upto(q)
    BY <1>1, <1>4
  <2>2. /\ IsFiniteSet(upto(q) \ {q})
        /\ Cardinality(upto(q) \ {q}) = Cardinality(upto(q)) - 1
    BY <1>3, <2>1, FS_RemoveElement
  <2>3. Cardinality(upto(p)) <= Cardinality(upto(q) \ {q})
    BY <2>1, <2>2, FS_Subset
  <2> HIDE DEF upto
  <2> QED
    BY <1>3, <2>2, <2>3
<1>5. \A q : Position(k, q) = Cardinality(upto(q))
  BY DEF Position
<1> HIDE DEF upto
<1> QED
  BY <1>3, <1>4, <1>5

\* A page holds no more than PageSize rows, and beyond the last row there is none.
LEMMA PageFits ==
    ASSUME NEW k, NEW offset \in Nat
    PROVE  /\ Page(k, offset) \subseteq Policies
           /\ Cardinality(Page(k, offset)) <= PageSize
           /\ Page(k, offset) # {} => offset < MaxPolicy
<1> DEFINE page == Page(k, offset)
           f == [p \in page |-> Position(k, p)]
           places == offset + 1 .. offset + PageSize
<1>1. /\ MaxPolicy \in Nat /\ PageSize \in Nat /\ PageSize # 0
      /\ Policies \subseteq Nat
  BY ScanConstants DEF Policies
<1>2. \A p \in page : /\ p \in Policies /\ Selected(k, p)
                      /\ offset < Position(k, p) /\ Position(k, p) <= offset + PageSize
                      /\ Position(k, p) \in Nat /\ Position(k, p) <= MaxPolicy
  BY PositionsAscend DEF Page
<1> HIDE DEF page
<1>3. f \in [page -> places]
  BY <1>1, <1>2
<1>4. ASSUME NEW p \in page, NEW q \in page, f[p] = f[q] PROVE p = q
  <2>1. ~ (p < q) /\ ~ (q < p)
    BY <1>2, <1>4, PositionsAscend
  <2>2. p \in Nat /\ q \in Nat
    BY <1>1, <1>2
  <2> QED
    BY <2>1, <2>2
<1>5. f \in Injection(page, places)
  BY <1>3, <1>4 DEF Injection, IsInjective
<1>6. IsFiniteSet(places) /\ Cardinality(places) = PageSize
  BY <1>1, FS_Interval
<1>7. Cardinality(page) <= PageSize
  BY <1>5, <1>6, FS_Injection
<1>8. page # {} => offset < MaxPolicy
  BY <1>1, <1>2
<1> QED
  BY <1>2, <1>7, <1>8 DEF page

-----------------------------------------------------------------------------
(* The steps of a run.                                                     *)

\* What a scan decides does not change.
LEMMA TargetsStay ==
    ASSUME UNCHANGED trait
    PROVE  \A k, p : Target(k, p)' = Target(k, p)
BY DEF Target, Fact, LapseStatus

\* The runs, after one has moved.
LEMMA RunsAfter ==
    ASSUME Typed, NEW k \in Kinds, NEW r, run' = [run EXCEPT ![k] = r]
    PROVE  \A l \in Kinds : run'[l] = IF l = k THEN r ELSE run[l]
BY DEF Typed

\* A run keeps its type when a field takes a value of its own.
LEMMA FieldTypes ==
    ASSUME NEW r \in RunState
    PROVE  /\ \A at \in RunAt : [r EXCEPT !.at = at] \in RunState
           /\ \A offset \in Nat : [r EXCEPT !.offset = offset] \in RunState
           /\ \A page \in SUBSET Policies : /\ [r EXCEPT !.page = page] \in RunState
                                            /\ [r EXCEPT !.signals = page] \in RunState
           /\ \A updates \in SUBSET Status : [r EXCEPT !.updates = updates] \in RunState
BY DEF RunState

\* The runs keep their types when one moves.
LEMMA RunsTyped ==
    ASSUME Typed, NEW k \in Kinds, NEW r \in RunState, run' = [run EXCEPT ![k] = r]
    PROVE  run' \in [Kinds -> RunState]
BY DEF Typed

\* A run without a page, at the start of an attempt or between two runs.
Blank(at, attempt) == [at |-> at, attempt |-> attempt, offset |-> 0, page |-> {},
                       updates |-> {}, signals |-> {}]

\* The runs that the schedule, the end of a run and a retry start from are blank.
LEMMA BlankRuns ==
    ASSUME NEW at, NEW attempt
    PROVE  /\ NotRunning = Blank("idle", 0)
           /\ [NotRunning EXCEPT !.at = at] = Blank(at, 0)
           /\ [NotRunning EXCEPT !.at = at, !.attempt = attempt] = Blank(at, attempt)
<1>1. NotRunning = Blank("idle", 0)
  BY DEF NotRunning, Blank
<1>2. [NotRunning EXCEPT !.at = at] = Blank(at, 0)
  BY DEF NotRunning, Blank
<1>3. [Blank(at, 0) EXCEPT !.attempt = attempt] = Blank(at, attempt)
  BY DEF Blank
<1> QED
  BY <1>1, <1>2, <1>3

\* A blank run has its type and nothing left to signal.
LEMMA BlankFits ==
    ASSUME NEW k, NEW at \in RunAt \ {"page"}, NEW attempt \in 0 .. MaxAttempts
    PROVE  /\ Blank(at, attempt) \in RunState /\ RunFits(k, Blank(at, attempt))
           /\ Blank(at, attempt).page = {} /\ Blank(at, attempt).signals = {}
<1> DEFINE r == Blank(at, attempt)
<1>1. /\ r.at = at /\ r.offset = 0 /\ r.page = {} /\ r.updates = {} /\ r.signals = {}
  BY DEF Blank
<1>2. r \in RunState
  BY DEF Blank, RunState, RunAt
<1> HIDE DEF r
<1>3. /\ Cardinality({}) = 0 /\ PageSize \in Nat /\ MaxPolicy \in Nat
  BY FS_EmptySet, ScanConstants
<1>4. RunFits(k, r)
  BY <1>1, <1>3 DEF RunFits
<1> QED
  BY <1>1, <1>2, <1>4 DEF r

\* Unless a call fails, a run that moves on forgets no row that is still to be
\* signalled, and its bulk updates have been written.
Kept(k, r) ==
    faults' = 0 =>
        /\ faults = 0 /\ run[k].signals \subseteq r.signals
        /\ \A p \in r.page :
               Target(k, p) # Nowhere /\ Target(k, p) \notin r.updates
                   => <<p, Source(k), Target(k, p)>> \in history

\* A step that changes a run and nothing else: a row that is still to be signalled
\* may be forgotten only because of a failure.
LEMMA RunMoves ==
    ASSUME ScanInvariant, NEW k \in Kinds, NEW r \in RunState,
           run' = [run EXCEPT ![k] = r], RunFits(k, r),
           UNCHANGED world, UNCHANGED moves,
           faults' \in 0 .. MaxFaults,
           Kept(k, r)
    PROVE  ScanInvariant'
<1>1. Typed
  BY DEF ScanInvariant
<1>2. /\ scheduled' = scheduled /\ trait' = trait /\ row' = row /\ memory' = memory
      /\ syncs' = syncs /\ triggered' = triggered /\ history' = history
  BY DEF world
<1>3. \A l \in Kinds : run'[l] = IF l = k THEN r ELSE run[l]
  BY <1>1, RunsAfter
<1>4. run' \in [Kinds -> RunState]
  BY <1>1, RunsTyped
<1>5. Typed'
  BY <1>1, <1>2, <1>4 DEF Typed
<1>6. RunsFit'
  BY <1>3 DEF ScanInvariant, RunsFit
<1>7. \A l, p : Target(l, p)' = Target(l, p)
  BY <1>2, TargetsStay
<1>8. ASSUME faults' = 0 PROVE Written' /\ Told' /\ Agreed'
  <2>0. /\ faults = 0 /\ run[k].signals \subseteq r.signals
        /\ \A p \in r.page :
               Target(k, p) # Nowhere /\ Target(k, p) \notin r.updates
                   => <<p, Source(k), Target(k, p)>> \in history
    BY <1>8 DEF Kept
  <2>1. Written /\ Told /\ Agreed
    BY <2>0 DEF ScanInvariant, Undisturbed
  <2>2. \A p : Decided(p)' = Decided(p)
    BY <1>2 DEF Decided
  <2>3. Written'
    BY <1>2, <1>3, <1>7, <2>0, <2>1 DEF Written
  <2>4. Told'
    BY <1>2, <2>1, <2>2 DEF Told
  <2>5. \A p \in Policies : Hears(p) => Hears(p)'
    BY <1>2, <1>3, <1>7, <2>0 DEF Hears
  <2>6. \A p \in Policies : AllTo(p, row[p].status)' <=> AllTo(p, row[p].status)
    BY <1>2, <2>2 DEF AllTo
  <2>7. Agreed'
    BY <1>2, <2>1, <2>5, <2>6 DEF Agreed
  <2> QED
    BY <2>3, <2>4, <2>7
<1> QED
  BY <1>5, <1>6, <1>8 DEF ScanInvariant, Undisturbed

\* A schedule fires.
LEMMA FireStep ==
    ASSUME ScanInvariant, NEW k \in Kinds, Fire(k)
    PROVE  ScanInvariant'
<1> DEFINE r == [NotRunning EXCEPT !.at = "fetch", !.attempt = 1]
<1>1. /\ run[k] = NotRunning /\ run' = [run EXCEPT ![k] = r]
      /\ UNCHANGED world /\ UNCHANGED moves /\ faults' = faults
  BY DEF Fire
<1>2. r = Blank("fetch", 1)
  BY BlankRuns
<1> HIDE DEF r
<1>3. r \in RunState /\ RunFits(k, r) /\ r.page = {} /\ r.signals = {}
  <2>1. "fetch" \in RunAt \ {"page"} /\ 1 \in 0 .. MaxAttempts
    BY ScanConstants DEF RunAt
  <2> QED
    BY <1>2, <2>1, BlankFits
<1>4. run[k].signals = {}
  BY <1>1 DEF NotRunning
<1>5. faults' \in 0 .. MaxFaults
  BY <1>1 DEF ScanInvariant, Typed
<1>6. Kept(k, r)
  BY <1>1, <1>3, <1>4 DEF Kept
<1> QED
  BY <1>1, <1>3, <1>5, <1>6, RunMoves

\* The result is recorded, and the run is over.
LEMMA RecordStep ==
    ASSUME ScanInvariant, NEW k \in Kinds, Record(k)
    PROVE  ScanInvariant'
<1>1. /\ run[k].at \in {"done", "failed"} /\ run' = [run EXCEPT ![k] = NotRunning]
      /\ UNCHANGED world /\ UNCHANGED moves /\ faults' = faults
  BY DEF Record
<1>2. run[k].signals = {}
  BY <1>1 DEF ScanInvariant, RunsFit, RunFits
<1>3. faults' \in 0 .. MaxFaults
  BY <1>1 DEF ScanInvariant, Typed
<1>4. /\ NotRunning \in RunState /\ RunFits(k, NotRunning)
      /\ NotRunning.page = {}
  <2>1. NotRunning = Blank("idle", 0)
    BY BlankRuns
  <2>2. "idle" \in RunAt \ {"page"} /\ 0 \in 0 .. MaxAttempts
    BY ScanConstants DEF RunAt
  <2> QED
    BY <2>1, <2>2, BlankFits
<1>5. Kept(k, NotRunning)
  BY <1>1, <1>2, <1>4 DEF Kept
<1> QED
  BY <1>1, <1>3, <1>4, <1>5, RunMoves

\* A failed attempt, which forgets its page.
LEMMA RetryStep ==
    ASSUME ScanInvariant, NEW k \in Kinds, FetchFails(k) \/ WorkerLost(k)
    PROVE  ScanInvariant'
<1> DEFINE next == run[k].attempt + 1
           r == IF next <= MaxAttempts
                THEN [NotRunning EXCEPT !.at = "fetch", !.attempt = next]
                ELSE [NotRunning EXCEPT !.at = "failed"]
<1>1. /\ Fails /\ run' = [run EXCEPT ![k] = r]
      /\ UNCHANGED world /\ UNCHANGED moves
  BY DEF FetchFails, WorkerLost, RetryOrFail
<1>2. run[k].attempt \in 0 .. MaxAttempts
  BY DEF ScanInvariant, Typed, RunState
<1>3. r = IF next <= MaxAttempts THEN Blank("fetch", next) ELSE Blank("failed", 0)
  BY BlankRuns
<1> HIDE DEF r
<1>4. 0 \in 0 .. MaxAttempts /\ (next <= MaxAttempts => next \in 0 .. MaxAttempts)
  BY <1>2, ScanConstants
<1>5. r \in RunState /\ RunFits(k, r)
  <2>1. {"fetch", "failed"} \subseteq RunAt \ {"page"}
    BY DEF RunAt
  <2> QED
    BY <1>3, <1>4, <2>1, BlankFits
<1>6. faults' \in 0 .. MaxFaults /\ faults' # 0
  BY <1>1, ScanConstants DEF Fails, ScanInvariant, Typed
<1>7. Kept(k, r)
  BY <1>6 DEF Kept
<1> QED
  BY <1>1, <1>5, <1>6, <1>7, RunMoves

\* A page is read, and every target of its rows has its bulk update to come.
LEMMA FetchStep ==
    ASSUME ScanInvariant, NEW k \in Kinds, FetchPage(k)
    PROVE  ScanInvariant'
<1> DEFINE page == Page(k, run[k].offset)
           updates == GroupSet(k) \cap {Target(k, p) : p \in page}
           r == IF page = {} THEN [run[k] EXCEPT !.at = "done"]
                ELSE [run[k] EXCEPT !.at = "page", !.page = page, !.signals = page,
                                    !.updates = updates]
<1>1. /\ run[k].at = "fetch" /\ run' = [run EXCEPT ![k] = r]
      /\ UNCHANGED world /\ UNCHANGED moves /\ faults' = faults
  BY DEF FetchPage
<1>2. Typed /\ run[k] \in RunState /\ run[k].offset \in Nat /\ RunFits(k, run[k])
  BY DEF ScanInvariant, Typed, RunsFit, RunState
<1>3. /\ page \subseteq Policies /\ Cardinality(page) <= PageSize
      /\ page # {} => run[k].offset < MaxPolicy
  BY <1>2, PageFits
<1>4. updates \subseteq Status
  BY GroupsAreStatuses
<1>5. \A p \in page : Target(k, p) # Nowhere => Target(k, p) \in updates
  BY <1>2, <1>3, TargetsAreGroups
<1>6. run[k].page = {} /\ run[k].signals = {}
  BY <1>1, <1>2 DEF RunFits
<1> HIDE DEF page, updates
<1>7. r \in RunState
  BY <1>2, <1>3, <1>4 DEF RunState, RunAt
<1>8. /\ RunFits(k, r)
      /\ \A p \in r.page : Target(k, p) # Nowhere => Target(k, p) \in r.updates
  BY <1>2, <1>3, <1>5, <1>6 DEF RunFits, RunState
<1> HIDE DEF r
<1>9. faults' \in 0 .. MaxFaults
  BY <1>1 DEF ScanInvariant, Typed
<1>10. Kept(k, r)
  BY <1>1, <1>6, <1>8 DEF Kept
<1> QED
  BY <1>1, <1>7, <1>8, <1>9, <1>10, RunMoves

\* The next page, when nothing of this one is left to do.
LEMMA PageDoneStep ==
    ASSUME ScanInvariant, NEW k \in Kinds, PageDone(k)
    PROVE  ScanInvariant'
<1> DEFINE r == [run[k] EXCEPT
                    !.at = IF Cardinality(run[k].page) < PageSize THEN "done" ELSE "fetch",
                    !.offset = run[k].offset + PageSize, !.page = {}]
<1>1. /\ run[k].at = "page" /\ run[k].updates = {} /\ run[k].signals = {}
      /\ run' = [run EXCEPT ![k] = r]
      /\ UNCHANGED world /\ UNCHANGED moves /\ faults' = faults
  BY DEF PageDone
<1>2. run[k] \in RunState /\ run[k].offset \in Nat /\ run[k].offset < MaxPolicy
  BY <1>1 DEF ScanInvariant, Typed, RunsFit, RunFits, RunState
<1>3. /\ MaxPolicy \in Nat /\ PageSize \in Nat /\ Cardinality({}) = 0
  BY ScanConstants, FS_EmptySet
<1>4. /\ r.at \in {"done", "fetch"} /\ r.attempt = run[k].attempt
      /\ r.offset = run[k].offset + PageSize /\ r.page = {}
      /\ r.updates = run[k].updates /\ r.signals = run[k].signals
  BY <1>2 DEF RunState
<1>5. r \in RunState /\ RunFits(k, r)
  <2>1. r \in RunState
    <3> DEFINE at == IF Cardinality(run[k].page) < PageSize THEN "done" ELSE "fetch"
               offset == run[k].offset + PageSize
    <3>1. at \in RunAt /\ offset \in Nat
      BY <1>2, <1>3 DEF RunAt
    <3>2. r = [run[k] EXCEPT !.at = at, !.offset = offset, !.page = {}]
      OBVIOUS
    <3> HIDE DEF at, offset
    <3>3. [run[k] EXCEPT !.at = at] \in RunState
      BY <1>2, <3>1, FieldTypes
    <3>4. \A q \in RunState : [q EXCEPT !.offset = offset] \in RunState
      BY <3>1, FieldTypes
    <3>5. \A q \in RunState : [q EXCEPT !.page = {}] \in RunState
      BY FieldTypes
    <3> HIDE DEF r
    <3> QED
      BY <3>2, <3>3, <3>4, <3>5
  <2> HIDE DEF r
  <2>2. RunFits(k, r)
    BY <1>1, <1>2, <1>3, <1>4 DEF RunFits
  <2> QED
    BY <2>1, <2>2
<1> HIDE DEF r
<1>6. faults' \in 0 .. MaxFaults
  BY <1>1 DEF ScanInvariant, Typed
<1>7. Kept(k, r)
  BY <1>1, <1>4 DEF Kept
<1> QED
  BY <1>1, <1>4, <1>5, <1>6, <1>7, RunMoves

-----------------------------------------------------------------------------
(* The bulk updates and the signals of a page.                             *)

\* A run that has done one of its bulk updates.
LEMMA UpdateDone ==
    ASSUME ScanInvariant, NEW k \in Kinds, NEW to \in run[k].updates,
           run' = [run EXCEPT ![k].updates = @ \ {to}]
    PROVE  /\ run' \in [Kinds -> RunState] /\ RunsFit'
           /\ \A l \in Kinds : /\ run'[l].page = run[l].page
                               /\ run'[l].signals = run[l].signals
                               /\ l # k => run'[l].updates = run[l].updates
           /\ run'[k].updates = run[k].updates \ {to}
           /\ run[k].signals = run[k].page
<1> DEFINE r == [run[k] EXCEPT !.updates = run[k].updates \ {to}]
<1>1. Typed /\ run[k] \in RunState /\ RunFits(k, run[k])
  BY DEF ScanInvariant, Typed, RunsFit
<1>2. run' = [run EXCEPT ![k] = r]
  OBVIOUS
<1>3. /\ r.at = run[k].at /\ r.offset = run[k].offset /\ r.page = run[k].page
      /\ r.updates = run[k].updates \ {to} /\ r.signals = run[k].signals
  BY <1>1 DEF RunState
<1>4. r \in RunState
  <2>1. run[k].updates \ {to} \in SUBSET Status
    BY <1>1 DEF RunState
  <2> QED
    BY <1>1, <2>1, FieldTypes
<1> HIDE DEF r
<1>5. RunFits(k, r) /\ run[k].signals = run[k].page
  BY <1>1, <1>3 DEF RunFits
<1>6. run' \in [Kinds -> RunState]
  BY <1>1, <1>2, <1>4, RunsTyped
<1>7. \A l \in Kinds : run'[l] = IF l = k THEN r ELSE run[l]
  BY <1>1, <1>2, <1>4, RunsAfter
<1>8. RunsFit'
  BY <1>5, <1>7 DEF ScanInvariant, RunsFit
<1> QED
  BY <1>3, <1>5, <1>6, <1>7, <1>8

\* A bulk update, or the failure of one.
LEMMA BulkStep ==
    ASSUME ScanInvariant, NEW k \in Kinds, NEW to \in run[k].updates,
           BulkTransition(k, to)
    PROVE  ScanInvariant'
<1> DEFINE members == {p \in run[k].page : Target(k, p) = to}
           moved == {p \in members : Movable(k, p)}
           rows == {<<p, Source(k), to>> : p \in members}
<1>1. /\ \/ /\ \E remission \in RemissionsAfter(k, moved) :
                 row' = [p \in Policies |->
                           IF p \in moved
                           THEN [row[p] EXCEPT !.status = to, !.remission = remission[p]]
                           ELSE row[p]]
            /\ history' = history \cup rows
            /\ NoFault
         \/ Fails /\ UNCHANGED <<row, history>>
      /\ run' = [run EXCEPT ![k].updates = @ \ {to}]
      /\ UNCHANGED <<scheduled, trait, memory, syncs, triggered, moves>>
  BY DEF BulkTransition
<1>2. Typed /\ run[k] \in RunState /\ run[k].page \subseteq Policies /\ to \in Status
  BY DEF ScanInvariant, Typed, RunState
<1>3. /\ run' \in [Kinds -> RunState] /\ RunsFit'
      /\ \A l \in Kinds : /\ run'[l].page = run[l].page
                          /\ run'[l].signals = run[l].signals
                          /\ l # k => run'[l].updates = run[l].updates
      /\ run'[k].updates = run[k].updates \ {to}
      /\ run[k].signals = run[k].page
  BY <1>1, UpdateDone
<1>4. \A l, p : Target(l, p)' = Target(l, p)
  BY <1>1, TargetsStay
<1>5. members \subseteq Policies /\ moved \subseteq members
  BY <1>2
<1>6. rows \subseteq Policies \X Status \X Status
  BY <1>2, <1>5, SourceType
<1>7. CASE Fails /\ UNCHANGED <<row, history>>
  <2>1. faults' \in 0 .. MaxFaults /\ faults' # 0
    BY <1>2, <1>7, ScanConstants DEF Fails, Typed
  <2>2. Typed'
    BY <1>1, <1>2, <1>3, <1>7, <2>1 DEF Typed
  <2> QED
    BY <1>3, <2>1, <2>2 DEF ScanInvariant, Undisturbed
<1>8. CASE /\ \E remission \in RemissionsAfter(k, moved) :
                row' = [p \in Policies |->
                          IF p \in moved
                          THEN [row[p] EXCEPT !.status = to, !.remission = remission[p]]
                          ELSE row[p]]
           /\ history' = history \cup rows
           /\ NoFault
  <2>1. /\ row' \in [Policies -> Row]
        /\ \A p \in Policies : row'[p].status = IF p \in moved THEN to ELSE row[p].status
    <3>1. PICK remission \in RemissionsAfter(k, moved) :
             row' = [p \in Policies |->
                       IF p \in moved
                       THEN [row[p] EXCEPT !.status = to, !.remission = remission[p]]
                       ELSE row[p]]
      BY <1>8
    <3>2. moved \subseteq Policies /\ \A p \in Policies : row[p] \in Row
      BY <1>2, <1>5 DEF Typed
    <3>3. \A p \in moved : remission[p] \in {"none", "open", "past"}
      BY DEF RemissionsAfter
    <3> HIDE DEF moved
    <3>4. \A p \in moved :
             /\ [row[p] EXCEPT !.status = to, !.remission = remission[p]] \in Row
             /\ [row[p] EXCEPT !.status = to, !.remission = remission[p]].status = to
      <4> SUFFICES ASSUME NEW p \in moved
                   PROVE  /\ [row[p] EXCEPT !.status = to, !.remission = remission[p]] \in Row
                          /\ [row[p] EXCEPT !.status = to, !.remission = remission[p]].status = to
        OBVIOUS
      <4>1. row[p] \in Row /\ remission[p] \in {"none", "open", "past"}
        BY <3>2, <3>3
      <4>2. [row[p] EXCEPT !.status = to] \in Row
        BY <1>2, <4>1 DEF Row
      <4>3. \A w \in Row : [w EXCEPT !.remission = remission[p]] \in Row
        BY <4>1 DEF Row
      <4>4. [row[p] EXCEPT !.status = to, !.remission = remission[p]] \in Row
        BY <4>2, <4>3
      <4>5. [row[p] EXCEPT !.status = to, !.remission = remission[p]].status = to
        BY <4>1 DEF Row
      <4> QED
        BY <4>4, <4>5
    <3> QED
      BY <3>1, <3>2, <3>4
  <2>2. faults' = faults /\ history' = history \cup rows
    BY <1>8 DEF NoFault
  <2>3. history' \subseteq Policies \X Status \X Status
    BY <1>2, <1>6, <2>2 DEF Typed
  <2> HIDE DEF rows, moved
  <2>4. Typed'
    BY <1>1, <1>2, <1>3, <2>1, <2>2, <2>3 DEF Typed
  <2>5. ASSUME faults' = 0 PROVE Written' /\ Told' /\ Agreed'
    <3>1. Written /\ Told /\ Agreed
      BY <2>2, <2>5 DEF ScanInvariant, Undisturbed
    <3>2. \A p : Decided(p) \subseteq Decided(p)'
      BY <2>2 DEF Decided
    <3>3. \A p \in members : <<p, Source(k), to>> \in history'
      BY <2>2 DEF rows
    <3>4. Written'
      <4> SUFFICES ASSUME NEW l \in Kinds, NEW p \in run'[l].page,
                          Target(l, p) # Nowhere, Target(l, p) \notin run'[l].updates
                   PROVE  <<p, Source(l), Target(l, p)>> \in history'
        BY <1>4 DEF Written
      <4>1. p \in run[l].page
        BY <1>3
      <4>2. CASE Target(l, p) \notin run[l].updates
        BY <2>2, <3>1, <4>1, <4>2 DEF Written
      <4>3. CASE Target(l, p) \in run[l].updates
        <5>1. l = k /\ Target(k, p) = to
          BY <1>3, <4>3
        <5>2. p \in members
          BY <4>1, <5>1
        <5> QED
          BY <3>3, <5>1, <5>2
      <4> QED
        BY <4>2, <4>3
    <3>5. Told'
      BY <1>1, <3>1, <3>2 DEF Told
    <3>6. ASSUME NEW p \in Policies, AllTo(p, row[p].status)'
          PROVE  memory'[p] = row'[p].status \/ Hears(p)'
      <4>1. CASE p \in members
        <5>1. <<p, Source(k), to>> \in Decided(p)'
          BY <3>3, <4>1 DEF Decided
        <5>2. row'[p].status = to
          BY <3>6, <5>1 DEF AllTo
        <5>3. p \in run'[k].signals /\ Target(k, p)' = to
          BY <1>3, <1>4, <4>1
        <5> QED
          BY <5>2, <5>3 DEF Hears
      <4>2. CASE p \notin members
        <5>1. Decided(p)' = Decided(p)
          BY <2>2, <4>2 DEF Decided, rows
        <5>2. row'[p].status = row[p].status
          BY <1>5, <2>1, <4>2
        <5>3. memory[p] = row[p].status \/ Hears(p)
          BY <3>1, <3>6, <5>1, <5>2 DEF Agreed, AllTo
        <5>4. Hears(p) => Hears(p)'
          BY <1>1, <1>3, <1>4, <5>2 DEF Hears
        <5> QED
          BY <1>1, <5>2, <5>3, <5>4
      <4> QED
        BY <4>1, <4>2
    <3>7. Agreed'
      BY <3>6 DEF Agreed
    <3> QED
      BY <3>4, <3>5, <3>7
  <2> QED
    BY <1>3, <2>4, <2>5 DEF ScanInvariant, Undisturbed
<1> QED
  BY <1>1, <1>7, <1>8

\* A run that has signalled one of its rows.
LEMMA RowSignalled ==
    ASSUME ScanInvariant, NEW k \in Kinds, NEW p, Signals(k, p)
    PROVE  /\ run' \in [Kinds -> RunState] /\ RunsFit'
           /\ \A l \in Kinds : /\ run'[l].page = run[l].page
                               /\ run'[l].updates = run[l].updates
                               /\ l # k => run'[l].signals = run[l].signals
           /\ run'[k].signals = run[k].signals \ {p}
           /\ run[k].updates = {} /\ p \in run[k].page /\ p \in Policies
<1> DEFINE r == [run[k] EXCEPT !.signals = run[k].signals \ {p}]
<1>1. Typed /\ run[k] \in RunState /\ RunFits(k, run[k])
  BY DEF ScanInvariant, Typed, RunsFit
<1>2. /\ run[k].updates = {} /\ p \in run[k].signals
      /\ run' = [run EXCEPT ![k] = r]
  BY DEF Signals
<1>3. /\ r.at = run[k].at /\ r.offset = run[k].offset /\ r.page = run[k].page
      /\ r.updates = run[k].updates /\ r.signals = run[k].signals \ {p}
  BY <1>1 DEF RunState
<1>4. r \in RunState
  <2>1. run[k].signals \ {p} \in SUBSET Policies
    BY <1>1 DEF RunState
  <2> QED
    BY <1>1, <2>1, FieldTypes
<1> HIDE DEF r
<1>5. RunFits(k, r) /\ p \in run[k].page /\ p \in Policies
  BY <1>1, <1>2, <1>3 DEF RunFits, RunState
<1>6. run' \in [Kinds -> RunState]
  BY <1>1, <1>2, <1>4, RunsTyped
<1>7. \A l \in Kinds : run'[l] = IF l = k THEN r ELSE run[l]
  BY <1>1, <1>2 DEF Typed
<1>8. RunsFit'
  BY <1>5, <1>7 DEF ScanInvariant, RunsFit
<1> QED
  BY <1>2, <1>3, <1>5, <1>6, <1>7, <1>8

\* What a signal keeps: the rows, the history and what the workflows hold stay, a
\* workflow that is told is told of what was decided, and no policy is forgotten.
LEMMA SignalKeeps ==
    ASSUME ScanInvariant, NEW k \in Kinds, NEW p, Signals(k, p),
           UNCHANGED <<scheduled, trait, row, memory, history, moves>>,
           triggered' \subseteq Policies, faults' \in 0 .. MaxFaults,
           syncs' \in [Policies -> Seq(Status)],
           faults' = 0 => faults = 0 /\ Told',
           faults' = 0 => \A q \in Policies : syncs[q] # <<>> => syncs'[q] # <<>>,
           faults' = 0 => (Target(k, p) # Nowhere => syncs'[p] # <<>>)
    PROVE  ScanInvariant'
<1>1. Typed
  BY DEF ScanInvariant
<1>2. /\ run' \in [Kinds -> RunState] /\ RunsFit'
      /\ \A l \in Kinds : /\ run'[l].page = run[l].page
                          /\ run'[l].updates = run[l].updates
                          /\ l # k => run'[l].signals = run[l].signals
      /\ run'[k].signals = run[k].signals \ {p}
  BY RowSignalled
<1>3. Typed'
  BY <1>1, <1>2 DEF Typed
<1>4. \A l, q : Target(l, q)' = Target(l, q)
  BY TargetsStay
<1>5. ASSUME faults' = 0 PROVE Written' /\ Told' /\ Agreed'
  <2>1. Written /\ Agreed
    BY <1>5 DEF ScanInvariant, Undisturbed
  <2>2. Written'
    BY <1>2, <1>4, <2>1 DEF Written
  <2>3. \A q \in Policies : Hears(q) => Hears(q)'
    <3> SUFFICES ASSUME NEW q \in Policies, Hears(q) PROVE Hears(q)'
      OBVIOUS
    <3>1. CASE syncs[q] # <<>>
      <4>1. syncs'[q] # <<>>
        BY <1>5, <3>1
      <4> QED
        BY <4>1, Zenon DEF Hears
    <3>2. CASE \E l \in Kinds : q \in run[l].signals /\ Target(l, q) = row[q].status
      <4>1. PICK l \in Kinds : q \in run[l].signals /\ Target(l, q) = row[q].status
        BY <3>2
      <4>2. CASE l = k /\ q = p
        <5>1. row[q].status \in Status
          BY <1>1 DEF Typed, Row
        <5>2. Target(k, p) # Nowhere
          BY <4>1, <4>2, <5>1, StatusMembers
        <5>3. syncs'[q] # <<>>
          BY <1>5, <4>2, <5>2
        <5> QED
          BY <5>3, Zenon DEF Hears
      <4>3. CASE ~ (l = k /\ q = p)
        <5>1. q \in run'[l].signals
          BY <1>2, <4>1, <4>3
        <5>2. Target(l, q)' = row'[q].status
          BY <1>4, <4>1
        <5> QED
          BY <5>1, <5>2 DEF Hears
      <4> QED
        BY <4>2, <4>3
    <3> QED
      BY <3>1, <3>2 DEF Hears
  <2>4. Agreed'
    BY <2>1, <2>3 DEF Agreed, AllTo, Decided
  <2> QED
    BY <1>5, <2>2, <2>4
<1> QED
  BY <1>2, <1>3, <1>5 DEF ScanInvariant, Undisturbed

\* A row of the page is signalled to its workflow, or the signal is lost.
LEMMA SyncStep ==
    ASSUME ScanInvariant, NEW k \in Kinds, NEW p, SignalSync(k, p)
    PROVE  ScanInvariant'
<1>1. /\ Signals(k, p)
      /\ \/ Target(k, p) = Nowhere /\ NoFault /\ syncs' = syncs
         \/ /\ Target(k, p) # Nowhere /\ NoFault
            /\ syncs' = [syncs EXCEPT ![p] = Append(@, Target(k, p))]
         \/ Target(k, p) # Nowhere /\ Fails /\ syncs' = syncs
      /\ UNCHANGED <<scheduled, trait, row, memory, triggered, history, moves>>
  BY DEF SignalSync
<1>2. /\ Typed /\ syncs \in [Policies -> Seq(Status)] /\ triggered \subseteq Policies
      /\ faults \in 0 .. MaxFaults
  BY DEF ScanInvariant, Typed
<1>3. run[k].updates = {} /\ p \in run[k].page /\ p \in Policies
  BY <1>1, RowSignalled
<1>4. \A q : Decided(q)' = Decided(q)
  BY <1>1 DEF Decided
<1>5. CASE Target(k, p) = Nowhere /\ NoFault /\ syncs' = syncs
  <2>1. faults' = faults
    BY <1>5 DEF NoFault
  <2>2. faults' = 0 => Told'
    BY <1>1, <1>4, <1>5, <2>1 DEF ScanInvariant, Undisturbed, Told
  <2> QED
    BY <1>1, <1>2, <1>5, <2>1, <2>2, SignalKeeps
<1>6. CASE Target(k, p) # Nowhere /\ Fails /\ syncs' = syncs
  <2>1. faults' \in 0 .. MaxFaults /\ faults' # 0
    BY <1>2, <1>6, ScanConstants DEF Fails
  <2> QED
    BY <1>1, <1>2, <1>6, <2>1, SignalKeeps
<1>7. CASE /\ Target(k, p) # Nowhere /\ NoFault
           /\ syncs' = [syncs EXCEPT ![p] = Append(@, Target(k, p))]
  <2> DEFINE to == Target(k, p)
             more == Append(syncs[p], to)
  <2>1. faults' = faults
    BY <1>7 DEF NoFault
  <2>2. to \in Status
    BY <1>2, <1>3, <1>7, TargetsAreGroups, GroupsAreStatuses
  <2>3. /\ more \in Seq(Status) /\ Len(more) = Len(syncs[p]) + 1
        /\ \A i \in 1 .. Len(syncs[p]) : more[i] = syncs[p][i]
        /\ more[Len(syncs[p]) + 1] = to
        /\ Len(syncs[p]) \in Nat
    BY <1>2, <1>3, <2>2, AppendMembers
  <2>4. \A q \in Policies : syncs'[q] = IF q = p THEN more ELSE syncs[q]
    BY <1>2, <1>7
  <2>5. more # <<>>
    <3>1. Len(<<>>) = 0
      OBVIOUS
    <3> HIDE DEF more
    <3> QED
      BY <2>3, <3>1
  <2> HIDE DEF more
  <2>6. syncs' \in [Policies -> Seq(Status)]
    BY <1>2, <1>7, <2>3 DEF more
  <2>7. ASSUME faults' = 0 PROVE Told'
    <3>1. Written /\ Told
      BY <2>1, <2>7 DEF ScanInvariant, Undisturbed
    <3>2. <<p, Source(k), to>> \in Decided(p)
      BY <1>3, <1>7, <3>1 DEF Written, Decided
    <3>3. ASSUME NEW i \in 1 .. Len(more)
          PROVE  \E h \in Decided(p) : h[3] = more[i]
      <4>1. CASE i \in 1 .. Len(syncs[p])
        BY <1>3, <2>3, <3>1, <4>1 DEF Told
      <4>2. CASE i = Len(syncs[p]) + 1
        BY <2>3, <3>2, <4>2
      <4> QED
        BY <2>3, <4>1, <4>2
    <3> QED
      BY <1>4, <2>4, <3>1, <3>3 DEF Told
  <2>8. \A q \in Policies : syncs[q] # <<>> => syncs'[q] # <<>>
    BY <2>4, <2>5
  <2>9. syncs'[p] # <<>>
    BY <1>3, <2>4, <2>5
  <2> QED
    BY <1>1, <1>2, <2>1, <2>6, <2>7, <2>8, <2>9, SignalKeeps
<1> QED
  BY <1>1, <1>5, <1>6, <1>7

\* A row of the page is sent its forced-surrender trigger, or is passed over.
LEMMA TriggerStep ==
    ASSUME ScanInvariant, NEW k \in Kinds, NEW p, SignalTrigger(k, p)
    PROVE  ScanInvariant'
<1>1. /\ Signals(k, p) /\ k = "FORCED_SURRENDER_EVAL"
      /\ \/ NoFault /\ triggered' = triggered \cup {q \in {p} : ExceedsGSV(q)}
         \/ Fails /\ triggered' = triggered
      /\ UNCHANGED <<scheduled, trait, row, memory, syncs, history, moves>>
  BY DEF SignalTrigger
<1>2. /\ Typed /\ syncs \in [Policies -> Seq(Status)] /\ triggered \subseteq Policies
      /\ faults \in 0 .. MaxFaults
  BY DEF ScanInvariant, Typed
<1>3. p \in Policies
  BY <1>1, RowSignalled
<1>4. triggered' \subseteq Policies
  BY <1>1, <1>2, <1>3
<1>5. faults' \in 0 .. MaxFaults /\ (faults' = 0 => faults = 0)
  BY <1>1, <1>2, ScanConstants DEF Fails, NoFault
<1>6. Target(k, p) = Nowhere
  BY <1>1 DEF Target
<1>7. faults' = 0 => Told'
  BY <1>1, <1>5 DEF ScanInvariant, Undisturbed, Told, Decided
<1> QED
  BY <1>1, <1>2, <1>4, <1>5, <1>6, <1>7, SignalKeeps

-----------------------------------------------------------------------------
(* What happens to a policy meanwhile.                                     *)

\* A step that leaves every status, and what the scans and the workflows hold.
LEMMA StatusesStay ==
    ASSUME ScanInvariant,
           UNCHANGED <<scheduled, trait, memory, syncs, triggered, history, run, faults>>,
           row' \in [Policies -> Row],
           \A q \in Policies : row'[q].status = row[q].status,
           moves' \in 0 .. MaxMoves
    PROVE  ScanInvariant'
<1>1. Typed' /\ RunsFit'
  BY DEF ScanInvariant, Typed, RunsFit
<1>2. \A l, q : Target(l, q)' = Target(l, q)
  BY TargetsStay
<1>3. ASSUME faults' = 0 PROVE Written' /\ Told' /\ Agreed'
  <2>1. Written /\ Told /\ Agreed
    BY <1>3 DEF ScanInvariant, Undisturbed
  <2>2. Written'
    BY <1>2, <2>1 DEF Written
  <2>3. Told'
    BY <2>1 DEF Told, Decided
  <2>4. \A q \in Policies : Hears(q) => Hears(q)'
    BY <1>2 DEF Hears
  <2>5. \A q \in Policies : AllTo(q, row[q].status)' => AllTo(q, row[q].status)
    BY DEF AllTo, Decided
  <2>6. Agreed'
    BY <2>1, <2>4, <2>5 DEF Agreed
  <2> QED
    BY <2>2, <2>3, <2>6
<1> QED
  BY <1>1, <1>3 DEF ScanInvariant, Undisturbed

\* A premium that falls due or is paid, and a remission period that ends.
LEMMA DatesStep ==
    ASSUME ScanInvariant, NEW p \in Policies,
           PremiumOverdue(p) \/ PremiumPaid(p) \/ RemissionEnds(p)
    PROVE  ScanInvariant' /\ \A q \in Policies : row'[q].status = row[q].status
<1>1. /\ row \in [Policies -> Row] /\ row[p] \in Row
      /\ moves \in 0 .. MaxMoves
  BY DEF ScanInvariant, Typed
<1>2. UNCHANGED <<scheduled, trait, memory, syncs, triggered, history, run, faults>>
  BY DEF PremiumOverdue, PremiumPaid, RemissionEnds
<1>3. moves' \in 0 .. MaxMoves
  BY <1>1, ScanConstants DEF PremiumOverdue, PremiumPaid, RemissionEnds, Meanwhile
<1>4. PICK w \in {[row[p] EXCEPT !.overdue = TRUE], [row[p] EXCEPT !.overdue = FALSE],
                  [row[p] EXCEPT !.remission = "past"]} :
         row' = [row EXCEPT ![p] = w]
  BY DEF PremiumOverdue, PremiumPaid, RemissionEnds
<1>5. w \in Row /\ w.status = row[p].status
  BY <1>1, <1>4 DEF Row
<1>6. /\ row' \in [Policies -> Row]
      /\ \A q \in Policies : row'[q].status = row[q].status
  BY <1>1, <1>4, <1>5
<1> QED
  BY <1>2, <1>3, <1>6, StatusesStay

\* A workflow that moves its policy carries the row along when the two are in step;
\* when they are not, the policy was about to hear of its row and still is.
LEMMA WorkflowStep ==
    ASSUME ScanInvariant, NEW p \in Policies, NEW to \in Status, WorkflowMoved(p, to)
    PROVE  ScanInvariant'
<1>1. /\ Typed /\ row \in [Policies -> Row] /\ memory \in [Policies -> Status]
      /\ moves \in 0 .. MaxMoves /\ row[p] \in Row
  BY DEF ScanInvariant, Typed
<1>2. /\ moves < MaxMoves /\ moves' = moves + 1
      /\ memory' = [memory EXCEPT ![p] = to]
      /\ row' = IF row[p].status = memory[p] THEN [row EXCEPT ![p].status = to] ELSE row
      /\ UNCHANGED <<scheduled, trait, syncs, triggered, history, run, faults>>
  BY DEF WorkflowMoved, Meanwhile
<1>3. [row[p] EXCEPT !.status = to] \in Row /\ [row[p] EXCEPT !.status = to].status = to
  BY <1>1 DEF Row
<1>4. /\ row' \in [Policies -> Row]
      /\ \A q \in Policies :
           row'[q].status = IF q = p /\ row[p].status = memory[p] THEN to
                            ELSE row[q].status
  <2>1. CASE row[p].status = memory[p]
    <3>1. row' = [row EXCEPT ![p] = [row[p] EXCEPT !.status = to]]
      BY <1>2, <2>1
    <3> QED
      BY <1>1, <1>3, <2>1, <3>1
  <2>2. CASE row[p].status # memory[p]
    BY <1>1, <1>2, <2>2
  <2> QED
    BY <2>1, <2>2
<1>5. /\ memory' \in [Policies -> Status] /\ moves' \in 0 .. MaxMoves
      /\ \A q \in Policies : memory'[q] = IF q = p THEN to ELSE memory[q]
  BY <1>1, <1>2, ScanConstants
<1>6. Typed' /\ RunsFit'
  BY <1>1, <1>2, <1>4, <1>5 DEF ScanInvariant, Typed, RunsFit
<1>7. \A l, q : Target(l, q)' = Target(l, q)
  BY <1>2, TargetsStay
<1>8. ASSUME faults' = 0 PROVE Written' /\ Told' /\ Agreed'
  <2>1. Written /\ Told /\ Agreed
    BY <1>2, <1>8 DEF ScanInvariant, Undisturbed
  <2>2. Written'
    BY <1>2, <1>7, <2>1 DEF Written
  <2>3. Told'
    BY <1>2, <2>1 DEF Told, Decided
  <2>4. ASSUME NEW q \in Policies, AllTo(q, row[q].status)'
        PROVE  memory'[q] = row'[q].status \/ Hears(q)'
    <3>1. CASE q = p /\ row[p].status = memory[p]
      BY <1>4, <1>5, <3>1
    <3>2. CASE ~ (q = p /\ row[p].status = memory[p])
      <4>1. row'[q].status = row[q].status
        BY <1>4, <3>2
      <4>2. AllTo(q, row[q].status)
        BY <1>2, <2>4, <4>1 DEF AllTo, Decided
      <4>3. memory[q] = row[q].status \/ Hears(q)
        BY <2>1, <4>2 DEF Agreed
      <4>4. Hears(q) => Hears(q)'
        BY <1>2, <1>7, <4>1 DEF Hears
      <4> QED
        BY <1>5, <3>2, <4>1, <4>3, <4>4
    <3> QED
      BY <3>1, <3>2
  <2>5. Agreed'
    BY <2>4 DEF Agreed
  <2> QED
    BY <2>2, <2>3, <2>5
<1> QED
  BY <1>6, <1>8 DEF ScanInvariant, Undisturbed

\* A workflow handles a batch-state-sync: where all scans agree with the row, that
\* is the status it is told.
LEMMA SyncHandled ==
    ASSUME ScanInvariant, NEW p \in Policies, HandleSync(p)
    PROVE  ScanInvariant'
<1>1. /\ Typed /\ memory \in [Policies -> Status] /\ syncs \in [Policies -> Seq(Status)]
      /\ syncs[p] \in Seq(Status)
  BY DEF ScanInvariant, Typed
<1>2. /\ syncs[p] # <<>>
      /\ memory' = [memory EXCEPT ![p] = Head(syncs[p])]
      /\ syncs' = [syncs EXCEPT ![p] = Tail(syncs[p])]
      /\ UNCHANGED <<scheduled, trait, row, triggered, history, run, moves, faults>>
  BY DEF HandleSync
<1> DEFINE rest == Tail(syncs[p])
<1>3. /\ Head(syncs[p]) \in Status /\ Head(syncs[p]) = syncs[p][1]
      /\ 1 \in 1 .. Len(syncs[p])
      /\ rest \in Seq(Status) /\ Len(rest) = Len(syncs[p]) - 1
      /\ \A i \in 1 .. Len(rest) : rest[i] = syncs[p][i + 1]
      /\ \A i \in 1 .. Len(rest) : i + 1 \in 1 .. Len(syncs[p])
  <2>1. Len(syncs[p]) \in Nat \ {0}
    BY <1>1, <1>2, EmptySeq
  <2>2. /\ Head(syncs[p]) \in Status /\ Head(syncs[p]) = syncs[p][1]
        /\ rest \in Seq(Status) /\ Len(rest) = Len(syncs[p]) - 1
        /\ \A i \in 1 .. Len(rest) : rest[i] = syncs[p][i + 1]
    BY <1>1, <1>2, HeadTailProperties
  <2> HIDE DEF rest
  <2> QED
    BY <2>1, <2>2
<1> HIDE DEF rest
<1>4. /\ memory' \in [Policies -> Status] /\ syncs' \in [Policies -> Seq(Status)]
      /\ \A q \in Policies : /\ memory'[q] = IF q = p THEN syncs[p][1] ELSE memory[q]
                             /\ syncs'[q] = IF q = p THEN rest ELSE syncs[q]
  BY <1>1, <1>2, <1>3 DEF rest
<1>5. Typed' /\ RunsFit'
  BY <1>1, <1>2, <1>4 DEF ScanInvariant, Typed, RunsFit
<1>6. \A l, q : Target(l, q)' = Target(l, q)
  BY <1>2, TargetsStay
<1>7. \A q : Decided(q)' = Decided(q)
  BY <1>2 DEF Decided
<1>8. ASSUME faults' = 0 PROVE Written' /\ Told' /\ Agreed'
  <2>1. Written /\ Told /\ Agreed
    BY <1>2, <1>8 DEF ScanInvariant, Undisturbed
  <2>2. Written'
    BY <1>2, <1>6, <2>1 DEF Written
  <2>3. Told'
    <3> SUFFICES ASSUME NEW q \in Policies, NEW i \in 1 .. Len(syncs'[q])
                 PROVE  \E h \in Decided(q) : h[3] = syncs'[q][i]
      BY <1>7 DEF Told
    <3>1. CASE q = p
      BY <1>3, <1>4, <2>1, <3>1 DEF Told
    <3>2. CASE q # p
      BY <1>4, <2>1, <3>2 DEF Told
    <3> QED
      BY <3>1, <3>2
  <2>4. ASSUME NEW q \in Policies, AllTo(q, row[q].status)'
        PROVE  memory'[q] = row'[q].status \/ Hears(q)'
    <3>1. AllTo(q, row[q].status)
      BY <1>2, <1>7, <2>4 DEF AllTo
    <3>2. CASE q = p
      <4>1. \E h \in Decided(p) : h[3] = syncs[p][1]
        BY <1>3, <2>1 DEF Told
      <4>2. syncs[p][1] = row[p].status
        BY <3>1, <3>2, <4>1 DEF AllTo
      <4> QED
        BY <1>2, <1>4, <3>2, <4>2
    <3>3. CASE q # p
      <4>1. memory[q] = row[q].status \/ Hears(q)
        BY <2>1, <3>1 DEF Agreed
      <4>2. Hears(q) => Hears(q)'
        BY <1>2, <1>4, <1>6, <3>3 DEF Hears
      <4> QED
        BY <1>2, <1>4, <3>3, <4>1, <4>2
    <3> QED
      BY <3>2, <3>3
  <2>5. Agreed'
    BY <2>4 DEF Agreed
  <2> QED
    BY <2>2, <2>3, <2>5
<1> QED
  BY <1>5, <1>8 DEF ScanInvariant, Undisturbed

-----------------------------------------------------------------------------
(* The invariant and the theorems.                                         *)

\* It holds at the start.
LEMMA ScanInit == Init => ScanInvariant
<1> SUFFICES ASSUME Init PROVE ScanInvariant
  OBVIOUS
<1>1. PICK status \in Start :
         row = [p \in Policies |-> [status |-> status[p], overdue |-> TRUE,
                                    remission |-> "none"]]
  BY DEF Init
<1>2. status \in [Policies -> Status]
  BY <1>1, ScanConstants
<1>3. row \in [Policies -> Row] /\ \A p \in Policies : row[p].status = status[p]
  BY <1>1, <1>2 DEF Row
<1>4. memory \in [Policies -> Status]
  BY <1>2, <1>3 DEF Init
<1>5. syncs \in [Policies -> Seq(Status)] /\ \A p \in Policies : Len(syncs[p]) = 0
  BY DEF Init
<1>6. \A k : NotRunning = Blank("idle", 0) /\ Blank("idle", 0) \in RunState
             /\ RunFits(k, Blank("idle", 0)) /\ Blank("idle", 0).page = {}
  <2>1. "idle" \in RunAt \ {"page"} /\ 0 \in 0 .. MaxAttempts
    BY ScanConstants DEF RunAt
  <2> QED
    BY <2>1, BlankRuns, BlankFits
<1>7. /\ run \in [Kinds -> RunState]
      /\ \A k \in Kinds : RunFits(k, run[k]) /\ run[k].page = {}
  BY <1>6 DEF Init
<1>8. /\ scheduled \in Registered /\ trait \in Traits /\ triggered = {} /\ history = {}
      /\ moves \in 0 .. MaxMoves /\ faults \in 0 .. MaxFaults
  BY ScanConstants DEF Init
<1>9. Typed /\ RunsFit
  BY <1>3, <1>4, <1>5, <1>7, <1>8 DEF Typed, RunsFit
<1>10. \A p : Decided(p) = {}
  BY <1>8 DEF Decided
<1>11. Written /\ Told /\ Agreed
  BY <1>5, <1>7, <1>10 DEF Written, Told, Agreed, AllTo
<1> QED
  BY <1>9, <1>11 DEF ScanInvariant, Undisturbed

\* Every step keeps it.
LEMMA ScanNext == ScanInvariant /\ [Next]_vars => ScanInvariant'
<1> SUFFICES ASSUME ScanInvariant, [Next]_vars PROVE ScanInvariant'
  OBVIOUS
<1>1. CASE UNCHANGED vars
  <2>1. /\ UNCHANGED <<scheduled, trait, memory, syncs, triggered, history, run, faults>>
        /\ row' = row /\ moves' = moves
    BY <1>1 DEF vars
  <2>2. row \in [Policies -> Row] /\ moves \in 0 .. MaxMoves
    BY DEF ScanInvariant, Typed
  <2> QED
    BY <2>1, <2>2, StatusesStay
<1>2. ASSUME NEW k \in Kinds, Fire(k) \/ ScanStep(k) \/ FetchFails(k) \/ WorkerLost(k)
      PROVE  ScanInvariant'
  <2>1. CASE Fire(k)
    BY <2>1, FireStep
  <2>2. CASE ScanStep(k)
    <3>1. CASE FetchPage(k)
      BY <3>1, FetchStep
    <3>2. CASE PageDone(k)
      BY <3>2, PageDoneStep
    <3>3. CASE Record(k)
      BY <3>3, RecordStep
    <3>4. CASE \E to \in run[k].updates : BulkTransition(k, to)
      BY <3>4, BulkStep
    <3>5. CASE \E p \in run[k].signals : SignalSync(k, p) \/ SignalTrigger(k, p)
      BY <3>5, SyncStep, TriggerStep
    <3> QED
      BY <2>2, <3>1, <3>2, <3>3, <3>4, <3>5 DEF ScanStep
  <2>3. CASE FetchFails(k) \/ WorkerLost(k)
    BY <2>3, RetryStep
  <2> QED
    BY <1>2, <2>1, <2>2, <2>3
<1>3. ASSUME NEW p \in Policies,
             \/ PremiumOverdue(p) \/ PremiumPaid(p) \/ RemissionEnds(p) \/ HandleSync(p)
             \/ \E to \in Status : WorkflowMoved(p, to)
      PROVE  ScanInvariant'
  BY <1>3, DatesStep, SyncHandled, WorkflowStep
<1> QED
  BY <1>1, <1>2, <1>3 DEF Next

\* The invariant holds in every reachable state.
LEMMA ScanHolds == Spec => []ScanInvariant
BY ScanInit, ScanNext, PTL DEF Spec

\* No run leaves its table: the variables keep their types, an attempt is one of
\* MaxAttempts, an offset passes the table by a page at the most, and no page holds
\* more rows than a page.
THEOREM TypesHold == Spec => []TypeOK
<1>1. ScanInvariant => TypeOK
  <2> SUFFICES ASSUME ScanInvariant PROVE TypeOK
    OBVIOUS
  <2>1. \A k \in Kinds : /\ run[k].attempt \in 0 .. MaxAttempts
                         /\ run[k].offset <= MaxPolicy + PageSize
                         /\ run[k].page \subseteq Policies
                         /\ Cardinality(run[k].page) <= PageSize
    BY DEF ScanInvariant, Typed, RunState, RunsFit, RunFits
  <2> QED
    BY <2>1 DEF ScanInvariant, Typed, Row, TypeOK
<1> QED
  BY <1>1, ScanHolds, PTL

\* The database-first pattern of the scans: a policy that scans decided on once, whose
\* row still has the status they gave it, has that status in its workflow too, when
\* no call failed, its signals are handled and no scan has it on its page.
THEOREM SettledPoliciesAgree == Spec => []SettledAgrees
<1>1. ScanInvariant => SettledAgrees
  <2> SUFFICES ASSUME ScanInvariant, NEW p \in Policies, faults = 0, syncs[p] = <<>>,
                      \A k \in Kinds : p \notin run[k].page,
                      NEW h \in Decided(p), Decided(p) = {h}, row[p].status = h[3]
               PROVE  memory[p] = row[p].status
    BY DEF SettledAgrees
  <2>1. AllTo(p, row[p].status)
    BY DEF AllTo
  <2>2. memory[p] = row[p].status \/ Hears(p)
    BY <2>1 DEF ScanInvariant, Undisturbed, Agreed
  <2>3. \A k \in Kinds : p \notin run[k].signals
    BY DEF ScanInvariant, RunsFit, RunFits
  <2> QED
    BY <2>2, <2>3, Zenon DEF Hears
<1> QED
  BY <1>1, ScanHolds, PTL

\* A scan never takes a policy out of its suspension, however old the page is on
\* which it read the policy as active: only a move of the policy's workflow does.
THEOREM SuspensionsStand == Spec => SuspendedUntouched
<1> DEFINE Lifted == \A p \in Policies :
                        row[p].status = "SUSPENDED" /\ row'[p].status # "SUSPENDED"
                            => moves' > moves
<1>1. ScanInvariant /\ [Next]_vars => [Lifted]_vars
  <2> SUFFICES ASSUME ScanInvariant, Next, NEW p \in Policies,
                      row[p].status = "SUSPENDED", row'[p].status # "SUSPENDED"
               PROVE  moves' > moves
    BY DEF vars
  <2>1. moves \in Nat /\ row' # row
    BY DEF ScanInvariant, Typed
  <2>2. ASSUME NEW k \in Kinds, NEW to, BulkTransition(k, to) PROVE FALSE
    <3> DEFINE moved == {q \in {o \in run[k].page : Target(k, o) = to} : Movable(k, q)}
    <3>1. p \notin moved
      BY SourceType DEF Movable
    <3>2. \E remission \in RemissionsAfter(k, moved) :
             row' = [q \in Policies |->
                       IF q \in moved
                       THEN [row[q] EXCEPT !.status = to, !.remission = remission[q]]
                       ELSE row[q]]
      BY <2>1, <2>2 DEF BulkTransition
    <3> HIDE DEF moved
    <3> QED
      BY <3>1, <3>2
  <2>3. ASSUME NEW q \in Policies, NEW to \in Status, WorkflowMoved(q, to)
        PROVE  moves' > moves
    BY <2>1, <2>3 DEF WorkflowMoved, Meanwhile
  <2>4. ASSUME NEW q \in Policies,
               PremiumOverdue(q) \/ PremiumPaid(q) \/ RemissionEnds(q)
        PROVE  FALSE
    BY <2>4, DatesStep
  <2>5. ASSUME NEW k \in Kinds, Fire(k) \/ FetchFails(k) \/ WorkerLost(k) PROVE FALSE
    BY <2>1, <2>5 DEF Fire, FetchFails, WorkerLost, world
  <2>6. ASSUME NEW k \in Kinds, ScanStep(k) PROVE FALSE
    <3>1. CASE FetchPage(k) \/ PageDone(k) \/ Record(k)
      BY <2>1, <3>1 DEF FetchPage, PageDone, Record, world
    <3>2. CASE \E q \in run[k].signals : SignalSync(k, q) \/ SignalTrigger(k, q)
      BY <2>1, <3>2 DEF SignalSync, SignalTrigger
    <3> QED
      BY <2>2, <2>6, <3>1, <3>2 DEF ScanStep
  <2>7. ASSUME NEW q \in Policies, HandleSync(q) PROVE FALSE
    BY <2>1, <2>7 DEF HandleSync
  <2> QED
    BY <2>3, <2>4, <2>5, <2>6, <2>7 DEF Next
<1>2. [][Next]_vars /\ []ScanInvariant => [][Lifted]_vars
  BY <1>1, PTL
<1> QED
  BY <1>2, ScanHolds, PTL DEF Spec, SuspendedUntouched
=============================================================================
