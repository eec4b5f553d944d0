\* One name change and its documents, the worker running.
SPECIFICATION FairSpec
CONSTANTS
  r1 = r1
  r2 = r2
  c1 = c1
  c2 = c2
  Requests <- OneRequest
  Clients <- OneClient
  Schemas <- NoRules
  MaxAttempts = 2
  MaxFaults = 0
  MaxTickets = 1
  MaxSignals = 1
PROPERTIES
  DocumentsReachQueue
\* Every request ends and no call may be left to make: the system may stop.
CHECK_DEADLOCK FALSE
