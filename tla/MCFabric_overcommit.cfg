CONSTANTS
  east = east
  west = west
  Cluster = {east, west}
  NoCluster = NoCluster
  MaxContract = 1
  MaxGrant = 2
  MaxConn = 2
  Party <- MCParty
  Capacity <- MCCapacity
  MaxRevalidateAttempts = 1
  Budgets <- BudgetsOvercommit
  Configured <- MCConfigured
SPECIFICATION SpecBegin
INVARIANT NeverOvercommitted
