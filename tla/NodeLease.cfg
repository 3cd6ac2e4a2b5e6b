\* One node and two replicas, the first on a host that can be suspended.
SPECIFICATION Spec
CONSTANTS
  Replicas = {r1, r2}
  Nodes = {1}
  Ttl = 2
  FenceMargin = 1
  MaxFloorAhead = 1
  SequenceCount = 1
  Suspends = {r1}
  Steps = {r2}
  MaxStep = 1
  LateWrites = FALSE
  MaxTime = 3
  MaxLeases = 2
  MaxTotal = 2
INVARIANTS
  OneMinter
PROPERTIES
  FreshIds
CHECK_DEADLOCK FALSE
