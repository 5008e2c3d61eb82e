CONSTANTS
  east = east
  west = west
  Cluster = {east, west}
  NoCluster = NoCluster
  MaxContract = 1
  MaxGrant = 1
  MaxConn = 2
  Party <- MCParty
  Capacity <- MCCapacity
  MaxRevalidateAttempts = 1
  Budgets <- BudgetsRevived
  Configured <- MCConfigured
SPECIFICATION SpecBegin
PROPERTY NeverRevived
