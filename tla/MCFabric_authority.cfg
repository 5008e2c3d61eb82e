CONSTANTS
  east = east
  west = west
  Cluster = {east, west}
  NoCluster = NoCluster
  MaxContract = 1
  MaxGrant = 1
  MaxConn = 4
  Party <- MCParty
  Capacity <- MCCapacity
  MaxRevalidateAttempts = 1
  Budgets <- BudgetsAuthority
  Configured <- MCConfigured
SPECIFICATION SpecBegin
INVARIANT TypeOK
INVARIANT UsableInCurrentTerm
INVARIANT AcknowledgedMeansInstalled
INVARIANT CommitMeansBothPrepared
INVARIANT SpeaksInSession
PROPERTY ImplementsAuthority
