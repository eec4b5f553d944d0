\* Two policies, every kind of scan, pages of one row.
SPECIFICATION FairSpec
CONSTANTS
  MaxPolicy = 2
  Registered <- Pairs
  Traits <- MixedTraits
  Start <- Mixed
  WorkflowMoves <- Suspension
  PageSize = 1
  MaxAttempts = 2
  MaxMoves = 1
  MaxFaults = 1
INVARIANTS
  TypeOK
  SettledAgrees
PROPERTIES
  SuspendedUntouched
  ScansCatchUp
  RunEnds
