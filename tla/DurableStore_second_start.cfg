CONSTANTS
  MaxGrant = 1
  CompactRecords = 30
  AuditLimit = 20
  MaxCrash = 2
  MaxFailure = 0
SPECIFICATION Spec
INVARIANT StartsOnItsOwnStore
CHECK_DEADLOCK FALSE
