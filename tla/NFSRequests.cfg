\* Two calls at a time, beside the workflows, on one request of any kind.
SPECIFICATION Spec
CONSTANTS
  r1 = r1
  r2 = r2
  c1 = c1
  c2 = c2
  Requests <- OneRequest
  Clients <- TwoClients
  Schemas <- AllSchemas
  MaxAttempts = 2
  MaxFaults = 0
  MaxTickets = 1
  MaxSignals = 1
SYMMETRY Interchangeable
INVARIANTS
  TypeOK
  AssignedBeforeDecided
PROPERTIES
  ChangeImplemented
  WithdrawnForGood
\* Every request ends and no call may be left to make: the system may stop.
CHECK_DEADLOCK FALSE
