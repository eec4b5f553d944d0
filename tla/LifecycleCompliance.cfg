\* A death claim, its investigation, AML flags, and what arrives while the policy cools down.
CONSTANTS
    NoRequest = NoRequest
    Request = {"death"}
    TypeOf <- MCTypeOf
    SystemSignal = {"raise", "clear", "investigate", "conclude", "reopen", "premium"}
    KindOf <- MCKindOf
    Redelivered = {"raise", "death", "premium"}
    StartStatus = {"ACTIVE"}
    ScanMove <- NoMove
    MaxWithdrawals = 0
    MaxScans = 0
    MaxCAN = 0
    MaxFaults = 1
SPECIFICATION Spec
\* The environment is finite and the workflow ends: both may stop.
CHECK_DEADLOCK FALSE
INVARIANTS
    StatusKnown
    CoolingTerminal
PROPERTIES
    DuplicateChangesNothing
