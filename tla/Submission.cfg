\* Two callers, two keys and none, three calls between them, one thing going wrong.
CONSTANTS
    Clients = {c1, c2}
    Keys = {k1, k2}
    NoKey = NoKey
    Submissions <- WithPaidUp
    Reports = {"APPROVED", "REJECTED"}
    StartStatus = {"ACTIVE"}
    MaxCalls = 3
    MaxTrouble = 1
SPECIFICATION Spec
SYMMETRY AnyName
\* Calls and signals are bounded.
CHECK_DEADLOCK FALSE
INVARIANTS
    TypeOK
    AcceptedIsSignalled
    InboxShowsRunning
PROPERTIES
    WithdrawnIsStopped
    DecisionKept
    OneRunPerKey
    LockImplemented
