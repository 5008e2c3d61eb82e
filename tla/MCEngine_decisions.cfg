CONSTANTS
  Edge = {1, 2, 3}
  PathId = {1, 2}
  RuleId = {1, 2, 3}
  Capacity <- MCCapacity
  HopLists <- MCHopLists
  PolicyRule <- MCPolicyRule
  Domains <- MCDomains
  kMaxEdges = 2
  kMaxPaths = 2
  kMaxPolicyRules = 3
  Begins <- MCBegins
SPECIFICATION Spec
INVARIANT TypeOK
INVARIANT WorstHop
INVARIANT AuthorizedOverLiveHops
INVARIANT AllowedByBothNow
INVARIANT RecoversTopology
CHECK_DEADLOCK FALSE
