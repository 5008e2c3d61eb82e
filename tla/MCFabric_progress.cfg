CONSTANTS
  east = east
  west = west
  Cluster = {east, west}
  NoCluster = NoCluster
  MaxContract = 1
  MaxGrant = 1
  MaxConn = 4
  Party <- MCParty
  Capacity <- MCCapacity
  MaxRevalidateAttempts = 1
  Budgets <- BudgetsProgress
  Configured <- MCConfigured
SPECIFICATION FairBegin
 
PROPERTY Reconnects
PROPERTY LeaseEnds
