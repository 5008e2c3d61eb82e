CONSTANTS
  MaxGrant = 2
  CompactRecords = 8
  AuditLimit = 20
  MaxCrash = 1
  MaxFailure = 1
SPECIFICATION Spec
INVARIANT TypeOK
 
INVARIANT CommittedOnDiskHoldsReservation
INVARIANT TornIsLast
INVARIANT NeverUndercounted
PROPERTY TermNeverReused
CHECK_DEADLOCK FALSE
