\* Two writers, verifications and faults; two requests on a cart;
\* two assets, a product and two overlapping sweep passes, one of which may die anywhere.
SPECIFICATION MCSpec
CONSTANTS
  Writers = {w1, w2}
  Verifiers = {v1, v2}
  MaxEpoch = 3
  MaxFaults = 2
  Skus = {s1, s2, s3}
  Requests = {q1, q2}
  MaxLines = 1
  MaxQuantity = 2
  MaxEdits = 1
  Assets = {a1, a2}
  Displays = {p1}
  Sweepers = {u1, u2}
  BatchSize = 2
  MaxCrashes = 1
INVARIANTS
  AnsweredIsEffective
  CartHolds
  ImagesHaveObjects
PROPERTIES
  RevocationReaches
  Reclaimed
CHECK_DEADLOCK FALSE
