CONSTANTS
  east = east
  west = west
  Cluster = {east, west}
  NoCluster = NoCluster
  MaxContract = 1
  MaxGrant = 2
  MaxConn = 3
  Party <- MCParty
  Capacity <- MCCapacity
  MaxRevalidateAttempts = 1
  Budgets <- BudgetsGrants
  Configured <- MCConfigured
SPECIFICATION SpecBegin
INVARIANT UsableHoldsCapacity
INVARIANT FencedNotEnforcedOnceSettled
INVARIANT AuthorizedMeansBothAgreed
INVARIANT WithdrawnNotAuthorizedOnceSettled
PROPERTY CoveredNeverOvercommits
