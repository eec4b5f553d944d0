\* Two locked requests and a death claim compete for one policy that may be suspended.
CONSTANTS
    NoRequest = NoRequest
    Request = {"revival", "surrender", "death"}
    TypeOf <- MCTypeOf
    SystemSignal = {"raise", "clear"}
    KindOf <- MCKindOf
    Redelivered = {}
    StartStatus = {"VOID_LAPSE"}
    ScanMove <- NoMove
    MaxWithdrawals = 0
    MaxScans = 0
    MaxCAN = 0
    MaxFaults = 0
SPECIFICATION Spec
\* The environment is finite and the workflow ends: both may stop.
CHECK_DEADLOCK FALSE
INVARIANTS
    TypeOK
    LockHolderPending
    LockedWhilePending
    LockMirrored
    UnlockedToldToStop
    WriteThrough
    GateForetells
PROPERTIES
    LockImplemented
