\* One event over two days: it waits a day too long for its redelivery.
SPECIFICATION Spec
CONSTANTS
  Messages = {m1}
  Workers = {w1}
  Nobody = Nobody
  Attempts = 2
  MaxRefusalsPerTick = 1
  InboxRetention = 1
  FailRetention = 1
  MaxTime = 2
  MaxFaults = 1
  MaxFailures = 2
INVARIANTS
  WindowsCoverRedelivery
CHECK_DEADLOCK FALSE
