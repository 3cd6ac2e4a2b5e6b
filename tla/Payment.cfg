\* Two attempts, the second for a wrong amount, three use cases at a time, and
\* two requests that Stripe answers with a 5xx.
SPECIFICATION Spec
CONSTANTS
  MaxAttempts = 2
  Calls = {c1, c2, c3}
  Mismatched = {2}
  MaxFaults = 2
SYMMETRY Symmetry
INVARIANTS
  KeptKeys
  OneLiveAttempt
  HeaderIsTrue
PROPERTIES
  GoodHoldKept
