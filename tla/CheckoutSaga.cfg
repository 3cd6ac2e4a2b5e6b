\* Two payment attempts, two payment calls at a time, three deliveries of
\* payment.authorized.
SPECIFICATION Spec
CONSTANTS
  MaxAttempts = 2
  Calls = {c1, c2}
  Mismatched = {}
  MaxFaults = 0
  MaxDeliveries = 3
SYMMETRY Symmetry
INVARIANTS
  ChargedIsServed
  ClosedMeansConsistent
  DeadOrdersHoldNothing
  OrderToldOnce
CHECK_DEADLOCK FALSE
