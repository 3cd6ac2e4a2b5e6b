\* Two requests at a time and three refresh tokens on one account; two requests and three links; two processes, two builds and one fault.
SPECIFICATION MCSpec
CONSTANTS
  Requests = {q1, q2}
  RefreshTtl = 1
  ReuseGrace = 0
  TokenGrace = 0
  RefreshGrace = 1
  MaxTokens = 3
  MaxHashes = 2
  MaxEpoch = 2
  MaxTime = 3
  MaxCrashes = 1
  MaxLinks = 3
  MaxLinkTime = 2
  LinkTtl = 1
  LinkGrace = 0
  Processes = {p1, p2}
  Layouts = {1, 2}
  MaxDbFaults = 1
INVARIANTS
  OneLiveLeaf
  TheftEndsAccess
  LinksHold
  PinHolds
PROPERTIES
  EndedStaysEnded
SYMMETRY Symmetry
CHECK_DEADLOCK FALSE
