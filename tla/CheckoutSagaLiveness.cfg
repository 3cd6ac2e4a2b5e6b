\* One attempt, one payment call at a time, one delivery, and one request that
\* Stripe answers with a 5xx.
SPECIFICATION FairSpec
CONSTANTS
  MaxAttempts = 1
  Calls = {c1}
  Mismatched = {}
  MaxFaults = 1
  MaxDeliveries = 1
PROPERTIES
  RunsSettle
CHECK_DEADLOCK FALSE
