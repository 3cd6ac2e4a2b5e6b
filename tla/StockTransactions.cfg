\* Two transactions at a time, of processes with either strategy, on two orders over the same
\* two variants.
SPECIFICATION TxSpec
CONSTANTS
  o1 = o1
  o2 = o2
  Workers = {w1, w2}
  NoWorker = NoWorker
  Orders <- MCOrders
  Variants <- MCVariants
  Quantity <- MCQuantity
  MaxQuantity = 1
  MaxStockOnHand = 2
  Int4Max = 2
  SeededOnHand = 1
  Strategies = {"pessimistic", "optimistic"}
  MaxRetries = 1
  MaxVersion = 1
INVARIANTS
  TypeOK
  HoldsAccounted
  NoOversell
  AnswersStayTrue
  NoLockCycle
PROPERTIES
  UnitsConserved
  AtomicSpec
SYMMETRY Symmetry
