\* Two callers, two keys and none, two calls between them, nothing going wrong.
CONSTANTS
    Clients = {c1, c2}
    Keys = {k1, k2}
    NoKey = NoKey
    Submissions <- WithPaidUp
    Reports = {"APPROVED", "REJECTED"}
    StartStatus = {"ACTIVE"}
    MaxCalls = 2
    MaxTrouble = 0
SPECIFICATION Spec
\* Calls and signals are bounded.
CHECK_DEADLOCK FALSE
PROPERTIES
    PaidUpTransitions
