CONSTANTS
  Caller = {c1, c2}
  Request = {1, 2}
  Agents = {c2}
  MaxEvents = 2
SPECIFICATION Spec
CHECK_DEADLOCK FALSE
INVARIANT TypeOK
INVARIANT Fresh
PROPERTY ImplementsRequests
PROPERTY CallEnds
