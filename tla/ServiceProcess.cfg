\* Two connections for one slot and two faults; three requests on two keys, one order in flight at a time.
SPECIFICATION ProcessSpec
CONSTANTS
  Clients = {c1, c2}
  MaxInFlight = 1
  ActivitySlots = 1
  JobSlots = 1
  Sweeps = {s1}
  Schedulers = {s2}
  MaxFaults = 2
  Calls = {d1, d2}
  VolumeThreshold = 2
  ErrorThreshold = 50
  MaxWindow = 3
  Candidates <- Tried
  Requests = {r1, r2, r3}
  Keys = {k1, k2}
  NoKey = NoKey
  MaxPending = 1
  MaxClaims = 2
  MaxOrders = 2
SYMMETRY GateSymmetry
INVARIANTS
  DrainsBeforeTeardown
  NothingLeaks
  BreakerTells
  TimingHolds
  OneOrderPerKey
  PendingCap
PROPERTIES
  ProcessSettles
CHECK_DEADLOCK FALSE
