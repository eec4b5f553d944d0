\* One call at a time, with failures and retries, while worker and timers go on.
SPECIFICATION FairSpec
CONSTANTS
  r1 = r1
  r2 = r2
  c1 = c1
  c2 = c2
  Requests <- OneRequest
  Clients <- OneClient
  Schemas <- AllSchemas
  MaxAttempts = 2
  MaxFaults = 1
  MaxTickets = 1
  MaxSignals = 1
INVARIANTS
  DuplicatesAreRetries
PROPERTIES
  AadhaarEnds
  ApprovalWaitEnds
\* Every request ends and no call may be left to make: the system may stop.
CHECK_DEADLOCK FALSE
