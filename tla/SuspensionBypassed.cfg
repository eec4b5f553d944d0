CONSTANTS
    NoRequest = NoRequest
    Request = {"loan"}
    TypeOf <- MCTypeOf
    SystemSignal = {"merge", "raise", "clear"}
    KindOf <- MCKindOf
    Redelivered = {}
    StartStatus = {"ACTIVE"}
    ScanMove <- NoMove
    MaxWithdrawals = 0
    MaxScans = 0
    MaxCAN = 0
    MaxFaults = 0
SPECIFICATION Spec
\* The environment is finite and the workflow ends: both may stop.
CHECK_DEADLOCK FALSE
PROPERTIES
    SuspensionHolds
