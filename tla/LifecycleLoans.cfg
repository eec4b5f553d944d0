\* A loan, its repayment and an assignment, metadata updates, voiding; completions are handled in the end.
CONSTANTS
    NoRequest = NoRequest
    Request = {"loan", "repayment", "assignment"}
    TypeOf <- MCTypeOf
    SystemSignal = {"void", "balance", "dispute"}
    KindOf <- MCKindOf
    Redelivered = {}
    StartStatus = {"ACTIVE"}
    ScanMove <- NoMove
    MaxWithdrawals = 0
    MaxScans = 0
    MaxCAN = 0
    MaxFaults = 1
SPECIFICATION LiveSpec
\* The environment is finite and the workflow ends: both may stop.
CHECK_DEADLOCK FALSE
INVARIANTS
    LoanMirrored
PROPERTIES
    LockReleased
