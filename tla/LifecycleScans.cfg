\* Batch scans, the free-look timer and Continue-As-New around a surrender that may be withdrawn.
CONSTANTS
    NoRequest = NoRequest
    Request = {"surrender"}
    TypeOf <- MCTypeOf
    SystemSignal = {"bounce", "paidup", "created", "reversal"}
    KindOf <- MCKindOf
    Redelivered = {"surrender"}
    StartStatus = {"ACTIVE", "FREE_LOOK_ACTIVE"}
    ScanMove <- VoidMove
    MaxWithdrawals = 1
    MaxScans = 1
    MaxCAN = 1
    MaxFaults = 0
SPECIFICATION Spec
\* The environment is finite and the workflow ends: both may stop.
CHECK_DEADLOCK FALSE
INVARIANTS
    PendingAlive
    LockMirrored
PROPERTIES
    StartedOnce
