\* One event over two days, with a day of retention, one fault and two failures.
SPECIFICATION FairSpec
CONSTANTS
  Messages = {m1}
  Workers = {w1, w2}
  Nobody = Nobody
  Attempts = 2
  MaxRefusalsPerTick = 1
  InboxRetention = 1
  FailRetention = 1
  MaxTime = 2
  MaxFaults = 1
  MaxFailures = 2
INVARIANTS
  AppliedOnce
PROPERTIES
  Delivered
CHECK_DEADLOCK FALSE
