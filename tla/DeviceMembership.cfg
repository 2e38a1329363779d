SPECIFICATION FairSpec
CONSTANTS
  Worker = {w1, w2}
  Observer = {o1}
  Fallible = {w1}
  Description = {"before"}
  Limits = {1, 2}
  MaxAssignments = 1
  MaxRevision = 3
  MaxRequests = 1
INVARIANTS
  ViewFollowsRegistry
PROPERTIES
  ViewsCatchUp
  HungWorkersLeave
CHECK_DEADLOCK FALSE
