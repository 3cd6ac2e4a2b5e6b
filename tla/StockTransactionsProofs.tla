------------------------ MODULE StockTransactionsProofs ------------------------
(***************************************************************************)
(* inventory-service, for every finite set of orders, every set of         *)
(* variants and every request: stock is never oversold, the reserved       *)
(* column is exactly the units of the HELD lines, lines follow their       *)
(* header, and an answer the participant gave stays true (Spec, of         *)
(* Inventory).                                                             *)
(*                                                                         *)
(* For any number of concurrent transactions every one of them is one      *)
(* atomic step of Inventory, so the same holds of their interleaved        *)
(* statements, and no set of transactions waits only for one another       *)
(* (TxSpec).                                                               *)
(***************************************************************************)
EXTENDS StockTransactions, FiniteSetTheorems, WellFoundedInduction, TLAPS

LineStatuses == ReservationStatus \cup {"NONE"}

-------------------------------------------------------------------------------
(***************************************************************************)
(* Counting units.  UnitsOf is a subset of a finite product, so a line     *)
(* that enters or leaves a status moves exactly its own units.             *)
(***************************************************************************)

(* The units of one order's line. *)
OrderUnits(o, v) == {o} \X (1 .. Quantity[o][v])

(* The units counted for a status form a finite set. *)
LEMMA UnitsFinite ==
  ASSUME NEW L, NEW v, NEW s
  PROVE  IsFiniteSet(UnitsOf(L, v, s)) /\ Cardinality(UnitsOf(L, v, s)) \in Nat
<1>1. IsFiniteSet(1 .. MaxQuantity)
  BY FS_Interval, QuantityAssumption
<1>2. IsFiniteSet(Orders \X (1 .. MaxQuantity))
  BY <1>1, OrdersAssumption, FS_Product
<1>3. UnitsOf(L, v, s) \in SUBSET (Orders \X (1 .. MaxQuantity))
  BY DEF UnitsOf
<1>4. IsFiniteSet(UnitsOf(L, v, s))
  BY <1>2, <1>3, FS_Subset
<1> QED BY <1>4, FS_CardinalityType

(* An order's line stands for as many units as its quantity says. *)
LEMMA OrderUnitsCount ==
  ASSUME NEW o \in Orders, NEW v \in Variants
  PROVE  IsFiniteSet(OrderUnits(o, v)) /\ Cardinality(OrderUnits(o, v)) = Quantity[o][v]
<1>1. Quantity[o][v] \in Nat
  BY QuantityAssumption
<1>2. IsFiniteSet(1 .. Quantity[o][v]) /\ Cardinality(1 .. Quantity[o][v]) = Quantity[o][v]
  <2> DEFINE q == Quantity[o][v]
  <2>1. q \in Int /\ q >= 0
    BY <1>1
  <2> HIDE DEF q
  <2>2. IsFiniteSet(1 .. q) /\ Cardinality(1 .. q) = IF 1 > q THEN 0 ELSE q - 1 + 1
    BY <2>1, FS_Interval
  <2>3. IsFiniteSet(1 .. q) /\ Cardinality(1 .. q) = q
    BY <2>1, <2>2
  <2> QED BY <2>3 DEF q
<1>3. IsFiniteSet({o}) /\ Cardinality({o}) = 1
  BY FS_Singleton
<1>4. /\ IsFiniteSet(OrderUnits(o, v))
      /\ Cardinality(OrderUnits(o, v)) = 1 * Quantity[o][v]
  BY <1>2, <1>3, FS_Product, ZenonT(60) DEF OrderUnits
<1> QED BY <1>1, <1>4

(* From lines L to lines M, order o's line of v enters status s, and the   *)
(* other orders' lines of v stay where they are.                            *)
Enters(L, M, o, v, s) ==
  /\ L[o][v] # s
  /\ M[o][v] = s
  /\ \A p \in Orders \ {o} : M[p][v] = L[p][v]

(* A line that enters a status brings its units and nothing else. *)
LEMMA UnitsEnter ==
  ASSUME NEW L, NEW M, NEW o \in Orders, NEW v \in Variants, NEW s, Enters(L, M, o, v, s)
  PROVE  Cardinality(UnitsOf(M, v, s)) = Cardinality(UnitsOf(L, v, s)) + Quantity[o][v]
<1> DEFINE U == UnitsOf(L, v, s)
           T == OrderUnits(o, v)
<1>1. UnitsOf(M, v, s) = U \cup T
  BY QuantityAssumption DEF UnitsOf, OrderUnits, Enters
<1>2. U \cap T = {}
  BY DEF UnitsOf, OrderUnits, Enters
<1>3. IsFiniteSet(U) /\ Cardinality(U) \in Nat
  BY UnitsFinite
<1>4. IsFiniteSet(T) /\ Cardinality(T) = Quantity[o][v]
  BY OrderUnitsCount
<1>5. Quantity[o][v] \in Nat
  BY QuantityAssumption
<1> HIDE DEF U, T
<1>6. Cardinality(U \cup T) = Cardinality(U) + Cardinality(T) - Cardinality(U \cap T)
  BY <1>3, <1>4, FS_Union
<1>7. Cardinality(U \cap T) = 0
  BY <1>2, FS_EmptySet
<1>8. Cardinality(UnitsOf(M, v, s)) = Cardinality(U) + Quantity[o][v]
  BY <1>1, <1>3, <1>4, <1>5, <1>6, <1>7
<1> QED BY <1>8 DEF U

(* A line that leaves a status takes its units, which were counted there. *)
LEMMA UnitsLeave ==
  ASSUME NEW L, NEW M, NEW o \in Orders, NEW v \in Variants, NEW s, Enters(M, L, o, v, s)
  PROVE  /\ Cardinality(UnitsOf(M, v, s)) = Cardinality(UnitsOf(L, v, s)) - Quantity[o][v]
         /\ Quantity[o][v] <= Cardinality(UnitsOf(L, v, s))
<1>2. Cardinality(UnitsOf(L, v, s)) = Cardinality(UnitsOf(M, v, s)) + Quantity[o][v]
  BY UnitsEnter
<1>3. Cardinality(UnitsOf(M, v, s)) \in Nat /\ Quantity[o][v] \in Nat
  BY UnitsFinite, QuantityAssumption
<1> QED BY <1>2, <1>3

(* Lines that neither enter nor leave a status leave its units alone. *)
LEMMA UnitsStay ==
  ASSUME NEW L, NEW M, NEW v, NEW s,
         \A p \in Orders : M[p][v] = s <=> L[p][v] = s
  PROVE  UnitsOf(M, v, s) = UnitsOf(L, v, s)
BY DEF UnitsOf

-------------------------------------------------------------------------------
(***************************************************************************)
(* The inductive invariant.  NoOversell needs HoldsAccounted (a commit     *)
(* takes its units off both columns), HoldsAccounted needs                 *)
(* LinesFollowHeader (the fence reads the header, the stock moves by the   *)
(* lines), and the top-up needs that a variant with no row has no units    *)
(* and no lines.                                                           *)
(***************************************************************************)
RowlessIsEmpty ==
  \A v \in Variants \ stocked : onHand[v] = 0 /\ \A o \in Orders : line[o][v] = "NONE"

StockInv == TypeOK /\ LinesFollowHeader /\ HoldsAccounted /\ NoOversell /\ RowlessIsEmpty

(* A transaction that takes an order's header and lines from one status to  *)
(* the next.                                                                *)
Resolves(o, from, to) ==
  /\ <<from, to>> \in {<<"HELD", "COMMITTED">>, <<"HELD", "RELEASED">>, <<"COMMITTED", "RESTOCKED">>}
  /\ header[o] = from
  /\ header' = [header EXCEPT ![o] = to]
  /\ moveLines(o, from, to)

(* Resolving an order's hold, or putting its sale back, keeps the books. *)
LEMMA MoveKeepsStock ==
  ASSUME StockInv, NEW o \in Orders, NEW from, NEW to, Resolves(o, from, to),
         lapsed' \in [Orders -> BOOLEAN],
         done' \in [Orders -> SUBSET ReservationFenceOp]
  PROVE  StockInv'
<1> USE DEF StockInv, Resolves
<1> DEFINE moved == {v \in Variants : line[o][v] = from}
<1>1. moved = Lines(o)
  BY DEF LinesFollowHeader, Lines, ReservationStatus, TypeOK
<1>2. line' = [line EXCEPT ![o] = [v \in Variants |-> IF v \in moved THEN to ELSE @[v]]]
  BY DEF moveLines
<1>3. line' \in [Orders -> [Variants -> LineStatuses]]
  BY <1>2 DEF TypeOK, LineStatuses, ReservationStatus
<1>4. LinesFollowHeader'
  BY <1>1, <1>2 DEF LinesFollowHeader, Lines, ReservationStatus, TypeOK
<1>5. ASSUME NEW v \in Variants
      PROVE  /\ reserved'[v] = Cardinality(UnitsIn(v, "HELD"))'
             /\ reserved'[v] \in 0 .. Int4Max
             /\ onHand'[v] \in 0 .. Int4Max
             /\ reserved'[v] <= onHand'[v]
             /\ v \notin stocked => onHand'[v] = 0 /\ \A p \in Orders : line'[p][v] = "NONE"
  <2>1. /\ reserved[v] \in 0 .. Int4Max
        /\ onHand[v] \in 0 .. Int4Max
        /\ reserved[v] <= onHand[v]
        /\ reserved[v] = Cardinality(UnitsOf(line, v, "HELD"))
        /\ Quantity[o][v] \in Nat
        /\ Int4Max \in Nat
    <3>1. reserved[v] \in 0 .. Int4Max /\ onHand[v] \in 0 .. Int4Max
      BY DEF TypeOK
    <3>2. reserved[v] = Cardinality(UnitsOf(line, v, "HELD"))
      BY DEF HoldsAccounted, UnitsIn
    <3>3. Quantity[o][v] \in Nat /\ Int4Max \in Nat
      BY QuantityAssumption, LimitsAssumption
    <3> QED BY <3>1, <3>2, <3>3 DEF NoOversell
  <2>5. v \in moved => v \in stocked
    BY DEF RowlessIsEmpty
  <2>6. v \notin stocked => onHand'[v] = onHand[v] /\ \A p \in Orders : line'[p][v] = line[p][v]
    BY <1>2, <2>5 DEF moveLines, TypeOK
  <2>7. v \notin stocked => onHand'[v] = 0 /\ \A p \in Orders : line'[p][v] = "NONE"
    BY <2>6 DEF RowlessIsEmpty
  <2>2. /\ reserved'[v] = IF v \in moved /\ to \in {"COMMITTED", "RELEASED"}
                          THEN reserved[v] - Quantity[o][v] ELSE reserved[v]
        /\ onHand'[v] = CASE v \in moved /\ to = "COMMITTED" -> onHand[v] - Quantity[o][v]
                           [] v \in moved /\ to = "RESTOCKED" -> Min2(onHand[v] + Quantity[o][v], Int4Max)
                           [] OTHER                           -> onHand[v]
    BY DEF moveLines
  <2>3. CASE v \in moved /\ from = "HELD"
    <3>1. Enters(line', line, o, v, "HELD")
      BY <1>2, <2>3 DEF Enters, TypeOK
    <3>2. /\ Cardinality(UnitsOf(line', v, "HELD")) = Cardinality(UnitsOf(line, v, "HELD")) - Quantity[o][v]
          /\ Quantity[o][v] <= Cardinality(UnitsOf(line, v, "HELD"))
      BY <3>1, UnitsLeave
    <3>3. to \in {"COMMITTED", "RELEASED"}
      BY <2>3
    <3>4. reserved'[v] = reserved[v] - Quantity[o][v]
      BY <2>2, <2>3, <3>3
    <3>5. \/ onHand'[v] = onHand[v] - Quantity[o][v]
          \/ onHand'[v] = onHand[v]
      BY <2>2, <2>3, <3>3
    <3>6. Quantity[o][v] <= reserved[v]
      BY <2>1, <3>2
    <3> HIDE DEF moved
    <3>7. reserved'[v] \in 0 .. Int4Max /\ onHand'[v] \in 0 .. Int4Max
      BY <2>1, <3>4, <3>5, <3>6
    <3>8. reserved'[v] <= onHand'[v]
      BY <2>1, <3>4, <3>5, <3>6
    <3> QED BY <2>1, <2>7, <3>2, <3>4, <3>7, <3>8 DEF UnitsIn
  <2>4. CASE ~(v \in moved /\ from = "HELD")
    <3>1. \A p \in Orders : (line'[p][v] = "HELD") <=> (line[p][v] = "HELD")
      BY <1>2, <2>4 DEF TypeOK
    <3>2. UnitsOf(line', v, "HELD") = UnitsOf(line, v, "HELD")
      BY <3>1, UnitsStay
    <3>3. reserved'[v] = reserved[v]
      BY <2>2, <2>4
    <3>4. onHand'[v] = onHand[v] \/ (v \in moved /\ onHand'[v] = Min2(onHand[v] + Quantity[o][v], Int4Max))
      BY <2>2, <2>4
    <3>5. onHand'[v] >= onHand[v] /\ onHand'[v] \in 0 .. Int4Max
      BY <2>1, <3>4 DEF Min2
    <3> QED BY <2>1, <2>7, <3>2, <3>3, <3>5 DEF UnitsIn
  <2> QED BY <2>3, <2>4
<1> HIDE DEF moved
<1>6. TypeOK'
  <2>1. header' \in [Orders -> ReservationOrderStatus]
    BY DEF TypeOK, ReservationOrderStatus
  <2>2. stocked' = stocked /\ stocked \in SUBSET Variants
    BY DEF moveLines, TypeOK
  <2>3. onHand' \in [Variants -> 0 .. Int4Max] /\ reserved' \in [Variants -> 0 .. Int4Max]
    BY <1>5 DEF moveLines
  <2> QED BY <1>3, <2>1, <2>2, <2>3 DEF TypeOK, LineStatuses
<1>7. HoldsAccounted' /\ NoOversell'
  BY <1>5 DEF HoldsAccounted, NoOversell
<1>8. RowlessIsEmpty'
  BY <1>5 DEF RowlessIsEmpty, moveLines
<1> QED BY <1>4, <1>6, <1>7, <1>8

(* The Try that wins the header holds all of its lines or none. *)
LEMMA TryKeepsStock ==
  ASSUME StockInv, NEW o \in Orders, TryReserve(o)
  PROVE  StockInv'
<1> USE DEF StockInv
<1>1. \A v \in Variants : line[o][v] = "NONE"
  BY DEF LinesFollowHeader, TryReserve, ReservationStatus
<1>2. line' = [line EXCEPT ![o] = [v \in Variants |-> IF v \in Lines(o) THEN "HELD" ELSE @[v]]]
  BY DEF TryReserve
<1>3. line' \in [Orders -> [Variants -> LineStatuses]]
  BY <1>2 DEF TypeOK, LineStatuses, ReservationStatus
<1>4. LinesFollowHeader'
  BY <1>1, <1>2 DEF LinesFollowHeader, Lines, ReservationStatus, TypeOK, TryReserve
<1>5. ASSUME NEW v \in Variants
      PROVE  /\ reserved'[v] = Cardinality(UnitsIn(v, "HELD"))'
             /\ reserved'[v] \in 0 .. Int4Max
             /\ reserved'[v] <= onHand[v]
             /\ v \notin stocked => \A p \in Orders : line'[p][v] = "NONE"
  <2>1. /\ reserved[v] \in 0 .. Int4Max
        /\ onHand[v] \in 0 .. Int4Max
        /\ reserved[v] <= onHand[v]
        /\ reserved[v] = Cardinality(UnitsOf(line, v, "HELD"))
        /\ Quantity[o][v] \in Nat
        /\ Int4Max \in Nat
    <3>1. reserved[v] \in 0 .. Int4Max /\ onHand[v] \in 0 .. Int4Max
      BY DEF TypeOK
    <3>2. reserved[v] = Cardinality(UnitsOf(line, v, "HELD"))
      BY DEF HoldsAccounted, UnitsIn
    <3>3. Quantity[o][v] \in Nat /\ Int4Max \in Nat
      BY QuantityAssumption, LimitsAssumption
    <3> QED BY <3>1, <3>2, <3>3 DEF NoOversell
  <2>2. reserved'[v] = reserved[v] + Quantity[o][v]
    BY DEF TryReserve
  <2>3. CASE v \in Lines(o)
    <3>1. v \in stocked /\ onHand[v] - reserved[v] >= Quantity[o][v]
      BY <2>3 DEF TryReserve, CanHold, Available
    <3>2. Enters(line, line', o, v, "HELD")
      BY <1>1, <1>2, <2>3 DEF Enters, TypeOK
    <3>3. Cardinality(UnitsOf(line', v, "HELD")) = Cardinality(UnitsOf(line, v, "HELD")) + Quantity[o][v]
      BY <3>2, UnitsEnter
    <3> QED BY <2>1, <2>2, <3>1, <3>3 DEF UnitsIn
  <2>4. CASE v \notin Lines(o)
    <3>1. Quantity[o][v] = 0
      BY <2>1, <2>4 DEF Lines
    <3>2. \A p \in Orders : line'[p][v] = line[p][v]
      BY <1>2, <2>4 DEF TypeOK
    <3>3. UnitsOf(line', v, "HELD") = UnitsOf(line, v, "HELD")
      BY <3>2, UnitsStay
    <3> QED BY <2>1, <2>2, <3>1, <3>2, <3>3 DEF UnitsIn, RowlessIsEmpty
  <2> QED BY <2>3, <2>4
<1>6. TypeOK'
  <2>1. header' \in [Orders -> ReservationOrderStatus]
    BY DEF TypeOK, TryReserve, ReservationOrderStatus
  <2>2. reserved' \in [Variants -> 0 .. Int4Max]
    BY <1>5 DEF TryReserve
  <2>3. done' \in [Orders -> SUBSET ReservationFenceOp]
    BY DEF TypeOK, TryReserve, Answered, ReservationFenceOp
  <2> QED BY <1>3, <2>1, <2>2, <2>3 DEF TypeOK, LineStatuses, TryReserve
<1>7. HoldsAccounted' /\ NoOversell'
  BY <1>5 DEF HoldsAccounted, NoOversell, TryReserve
<1>8. RowlessIsEmpty'
  BY <1>5 DEF RowlessIsEmpty, TryReserve
<1> QED BY <1>4, <1>6, <1>7, <1>8

(* A step that moves no line and no hold, and keeps on-hand above the holds. *)
LEMMA LevelsKeepStock ==
  ASSUME StockInv,
         UNCHANGED <<header, line, reserved>>,
         stocked \subseteq stocked', stocked' \in SUBSET Variants,
         onHand' \in [Variants -> 0 .. Int4Max],
         \A v \in Variants : onHand'[v] = onHand[v] \/ (v \in stocked' /\ onHand'[v] >= reserved[v]),
         lapsed' \in [Orders -> BOOLEAN],
         done' \in [Orders -> SUBSET ReservationFenceOp]
  PROVE  StockInv'
<1> USE DEF StockInv
<1>1. TypeOK'
  BY DEF TypeOK
<1>2. LinesFollowHeader'
  BY DEF LinesFollowHeader
<1>3. HoldsAccounted'
  BY DEF HoldsAccounted, UnitsIn
<1>4. NoOversell'
  BY DEF NoOversell, TypeOK
<1>5. RowlessIsEmpty'
  BY DEF RowlessIsEmpty
<1> QED BY <1>1, <1>2, <1>3, <1>4, <1>5

(* A release that finds no header fences the order and moves nothing. *)
LEMMA FencedReleaseKeepsStock ==
  ASSUME StockInv, NEW o \in Orders, header[o] = "NONE",
         header' = [header EXCEPT ![o] = "FENCED"],
         moveLines(o, "HELD", "RELEASED"),
         lapsed' \in [Orders -> BOOLEAN],
         done' \in [Orders -> SUBSET ReservationFenceOp]
  PROVE  StockInv'
<1> USE DEF StockInv
<1>1. \A v \in Variants : line[o][v] = "NONE"
  BY DEF LinesFollowHeader, ReservationStatus
<1>2. line' = line
  BY <1>1 DEF moveLines, TypeOK
<1>3. onHand' = onHand /\ reserved' = reserved /\ stocked' = stocked
  BY <1>1 DEF moveLines, TypeOK
<1>4. TypeOK'
  BY <1>2, <1>3 DEF TypeOK, ReservationOrderStatus
<1>5. LinesFollowHeader'
  BY <1>1, <1>2 DEF LinesFollowHeader, TypeOK, ReservationStatus, Lines
<1>6. HoldsAccounted' /\ NoOversell' /\ RowlessIsEmpty'
  BY <1>2, <1>3 DEF HoldsAccounted, NoOversell, RowlessIsEmpty, UnitsIn
<1> QED BY <1>4, <1>5, <1>6

-------------------------------------------------------------------------------
(***************************************************************************)
(* The theorems.                                                           *)
(***************************************************************************)

(* What the fence decides, read off its table. *)
LEMMA FenceApplies ==
  ASSUME NEW op \in CommandOp, NEW current, decideReservationFence(op, current) = "apply"
  PROVE  \/ op = "commit" /\ current = "HELD" /\ FenceNext(op, current) = "COMMITTED"
         \/ op = "release" /\ current = "HELD" /\ FenceNext(op, current) = "RELEASED"
         \/ op = "release" /\ current = "NONE" /\ FenceNext(op, current) = "FENCED"
         \/ op = "restock" /\ current = "COMMITTED" /\ FenceNext(op, current) = "RESTOCKED"
BY DEF decideReservationFence, FenceNext, FenceDone, CommandOp

(* Every step of the participant keeps the stock consistent. *)
LEMMA StepKeepsStock ==
  ASSUME StockInv, [Next]_vars
  PROVE  StockInv'
<1> USE DEF StockInv
<1>1. ASSUME NEW o \in Orders, TryReserve(o) PROVE StockInv'
  BY <1>1, TryKeepsStock
<1>2. ASSUME NEW o \in Orders, TryRefused(o) PROVE StockInv'
  <2>1. done' \in [Orders -> SUBSET ReservationFenceOp]
    BY <1>2 DEF TryRefused, Answered, TypeOK, ReservationFenceOp
  <2> QED BY <1>2, <2>1, LevelsKeepStock DEF TryRefused, levels, TypeOK
<1>3. ASSUME NEW o \in Orders, NEW op \in CommandOp, CommandApplied(op, o) PROVE StockInv'
  <2>1. done' \in [Orders -> SUBSET ReservationFenceOp]
    BY <1>3 DEF CommandApplied, Answered, TypeOK, ReservationFenceOp
  <2>2. lapsed' \in [Orders -> BOOLEAN]
    BY <1>3 DEF CommandApplied, TypeOK
  <2>3. decideReservationFence(op, header[o]) = "apply"
    BY <1>3 DEF CommandApplied
  <2>4. CASE op = "commit" /\ header[o] = "HELD" /\ FenceNext(op, header[o]) = "COMMITTED"
    <3>1. Resolves(o, "HELD", "COMMITTED")
      BY <1>3, <2>4 DEF CommandApplied, MovesFrom, MovesTo, Resolves
    <3> QED BY <2>1, <2>2, <3>1, MoveKeepsStock
  <2>5. CASE op = "release" /\ header[o] = "HELD" /\ FenceNext(op, header[o]) = "RELEASED"
    <3>1. Resolves(o, "HELD", "RELEASED")
      BY <1>3, <2>5 DEF CommandApplied, MovesFrom, MovesTo, Resolves
    <3> QED BY <2>1, <2>2, <3>1, MoveKeepsStock
  <2>6. CASE op = "release" /\ header[o] = "NONE" /\ FenceNext(op, header[o]) = "FENCED"
    BY <1>3, <2>1, <2>2, <2>6, FencedReleaseKeepsStock DEF CommandApplied, MovesFrom, MovesTo
  <2>7. CASE op = "restock" /\ header[o] = "COMMITTED" /\ FenceNext(op, header[o]) = "RESTOCKED"
    <3>1. Resolves(o, "COMMITTED", "RESTOCKED")
      BY <1>3, <2>7 DEF CommandApplied, MovesFrom, MovesTo, Resolves
    <3> QED BY <2>1, <2>2, <3>1, MoveKeepsStock
  <2> QED BY <2>3, <2>4, <2>5, <2>6, <2>7, FenceApplies
<1>4. ASSUME NEW o \in Orders, NEW op \in CommandOp, CommandAnswered(op, o) PROVE StockInv'
  <2>1. done' \in [Orders -> SUBSET ReservationFenceOp]
    BY <1>4 DEF CommandAnswered, Answered, TypeOK, ReservationFenceOp
  <2> QED BY <1>4, <2>1, LevelsKeepStock DEF CommandAnswered, levels, TypeOK
<1>5. ASSUME NEW o \in Orders, HoldLapses(o) PROVE StockInv'
  BY <1>5, LevelsKeepStock DEF HoldLapses, levels, TypeOK
<1>6. ASSUME NEW o \in Orders, ReleaseLapsedHold(o) PROVE StockInv'
  <2>1. Resolves(o, "HELD", "RELEASED")
    BY <1>6 DEF ReleaseLapsedHold, Resolves
  <2>2. lapsed' = lapsed /\ done' = done
    BY <1>6 DEF ReleaseLapsedHold
  <2> QED BY <2>1, <2>2, MoveKeepsStock DEF TypeOK
<1>7. ASSUME NEW v \in Variants, NEW q \in 0 .. MaxStockOnHand, SetOnHand(v, q) PROVE StockInv'
  <2>1. onHand' \in [Variants -> 0 .. Int4Max]
    BY <1>7, LimitsAssumption DEF SetOnHand, TypeOK
  <2>2. \A w \in Variants : onHand'[w] = onHand[w] \/ (w \in stocked' /\ onHand'[w] >= reserved[w])
    BY <1>7 DEF SetOnHand, TypeOK
  <2> QED BY <1>7, <2>1, <2>2, LevelsKeepStock DEF SetOnHand, TypeOK
<1>8. ASSUME NEW v \in Variants, NEW delta \in Int, AdjustOnHand(v, delta) PROVE StockInv'
  <2>1. onHand[v] \in Int /\ reserved[v] \in Nat
    BY DEF TypeOK
  <2>2. onHand[v] + delta \in 0 .. Int4Max
    BY <1>8, <2>1, LimitsAssumption DEF AdjustOnHand
  <2>3. onHand' \in [Variants -> 0 .. Int4Max]
    BY <1>8, <2>2 DEF AdjustOnHand, TypeOK
  <2>4. \A w \in Variants : onHand'[w] = onHand[w] \/ (w \in stocked' /\ onHand'[w] >= reserved[w])
    BY <1>8 DEF AdjustOnHand, TypeOK
  <2> QED BY <1>8, <2>3, <2>4, LevelsKeepStock DEF AdjustOnHand, TypeOK
<1>9. ASSUME NEW v \in Variants, TopUp(v) PROVE StockInv'
  <2>1. onHand[v] = 0 /\ reserved[v] \in Nat /\ reserved[v] <= onHand[v]
    BY <1>9 DEF TopUp, RowlessIsEmpty, NoOversell, TypeOK
  <2>2. SeededOnHand \in 0 .. Int4Max /\ SeededOnHand >= reserved[v]
    BY <2>1, LimitsAssumption
  <2>3. onHand' \in [Variants -> 0 .. Int4Max]
    BY <1>9, <2>2 DEF TopUp, TypeOK
  <2>4. \A w \in Variants : onHand'[w] = onHand[w] \/ (w \in stocked' /\ onHand'[w] >= reserved[w])
    BY <1>9, <2>2 DEF TopUp, TypeOK
  <2> QED BY <1>9, <2>3, <2>4, LevelsKeepStock DEF TopUp, TypeOK
<1>10. CASE UNCHANGED vars
  BY <1>10, LevelsKeepStock DEF vars, TypeOK
<1> QED
  <2>1. CASE \E o \in Orders : OrderStep(o)
    BY <2>1, <1>1, <1>2, <1>3, <1>4, <1>5, <1>6 DEF OrderStep
  <2>2. CASE \E v \in Variants : AdminStep(v)
    BY <2>2, <1>7, <1>8, <1>9, LimitsAssumption DEF AdminStep
  <2> QED BY <1>10, <2>1, <2>2 DEF Next

(* No units, no rows, no lines at the start. *)
LEMMA InitStock ==
  ASSUME Init
  PROVE  StockInv
<1>1. TypeOK
  BY LimitsAssumption DEF Init, TypeOK, ReservationOrderStatus, ReservationStatus
<1>2. LinesFollowHeader /\ NoOversell /\ RowlessIsEmpty
  BY DEF Init, LinesFollowHeader, ReservationStatus, NoOversell, RowlessIsEmpty
<1>3. HoldsAccounted
  <2> SUFFICES ASSUME NEW v \in Variants
               PROVE  reserved[v] = Cardinality(UnitsOf(line, v, "HELD"))
    BY DEF HoldsAccounted, UnitsIn
  <2>1. UnitsOf(line, v, "HELD") = {}
    BY DEF UnitsOf, Init
  <2> QED BY <2>1, FS_EmptySet DEF Init
<1> QED BY <1>1, <1>2, <1>3 DEF StockInv

(* StockInv holds throughout, whatever the interleaving of requests,        *)
(* sweeps and admin writes.                                                 *)
THEOREM StockIsConsistent == Spec => []StockInv
<1>1. Init => StockInv
  BY InitStock
<1>2. StockInv /\ [Next]_vars => StockInv'
  BY StepKeepsStock
<1> QED BY <1>1, <1>2, PTL DEF Spec

(* inventory-service never promises or sells more than it has on hand. *)
THEOREM NeverOversold == Spec => []NoOversell
<1>1. StockInv => NoOversell
  BY DEF StockInv
<1> QED BY <1>1, StockIsConsistent, PTL

(* quantity_reserved is at all times the sum of the HELD lines. *)
THEOREM HoldsAlwaysAccounted == Spec => []HoldsAccounted
<1>1. StockInv => HoldsAccounted
  BY DEF StockInv
<1> QED BY <1>1, StockIsConsistent, PTL

(* The columns keep their ranges and the enums their values. *)
THEOREM TypeCorrect == Spec => []TypeOK
<1>1. StockInv => TypeOK
  BY DEF StockInv
<1> QED BY <1>1, StockIsConsistent, PTL

(* What a caller was told about an order's stock never becomes false. *)
THEOREM AnswersAlwaysTrue == Spec => []AnswersStayTrue
<1> DEFINE Inv == TypeOK /\ AnswersStayTrue
<1>1. Init => Inv
  BY InitStock DEF Init, StockInv, AnswersStayTrue
<1>2. TypeOK /\ TypeOK' /\ AnswersStayTrue /\ [Next]_vars => AnswersStayTrue'
  <2> SUFFICES ASSUME TypeOK, TypeOK', AnswersStayTrue, [Next]_vars PROVE AnswersStayTrue'
    OBVIOUS
  <2> USE DEF TypeOK, AnswersStayTrue, ReservationStatus
  <2>1. ASSUME NEW o \in Orders, TryReserve(o) PROVE AnswersStayTrue'
    BY <2>1 DEF TryReserve, Answered, TakenEffect
  <2>2. ASSUME NEW o \in Orders, TryRefused(o) PROVE AnswersStayTrue'
    <3>1. CASE header[o] = "HELD"
      BY <2>2, <3>1 DEF TryRefused, Answered
    <3>2. CASE header[o] # "HELD"
      <4>1. decideReservationFence("try", header[o]) = "conflict" \/ header[o] = "NONE"
        BY <3>2 DEF decideReservationFence, FenceNext, FenceDone
      <4>2. done' = done /\ header' = header
        BY <2>2, <4>1 DEF TryRefused, Answered, TakenEffect
      <4> QED BY <4>2
    <3> QED BY <3>1, <3>2
  <2>3. ASSUME NEW o \in Orders, NEW op \in CommandOp, CommandApplied(op, o) PROVE AnswersStayTrue'
    <3>1. decideReservationFence(op, header[o]) = "apply"
      BY <2>3 DEF CommandApplied
    <3>2. \/ op = "commit" /\ header[o] = "HELD" /\ FenceNext(op, header[o]) = "COMMITTED"
          \/ op = "release" /\ header[o] = "HELD" /\ FenceNext(op, header[o]) = "RELEASED"
          \/ op = "release" /\ header[o] = "NONE" /\ FenceNext(op, header[o]) = "FENCED"
          \/ op = "restock" /\ header[o] = "COMMITTED" /\ FenceNext(op, header[o]) = "RESTOCKED"
      BY <3>1, FenceApplies
    <3> QED BY <2>3, <3>2 DEF CommandApplied, Answered, TakenEffect
  <2>4. ASSUME NEW o \in Orders, NEW op \in CommandOp, CommandAnswered(op, o) PROVE AnswersStayTrue'
    <3>1. CASE header[o] \in FenceDone(op)
      BY <2>4, <3>1 DEF CommandAnswered, Answered, CommandOp, FenceDone
    <3>2. CASE header[o] \notin FenceDone(op)
      <4>1. decideReservationFence(op, header[o]) = "conflict"
        BY <2>4, <3>2 DEF CommandAnswered, decideReservationFence
      <4>2. done' = done /\ header' = header
        BY <2>4, <4>1 DEF CommandAnswered, Answered, TakenEffect
      <4> QED BY <4>2
    <3> QED BY <3>1, <3>2
  <2>5. ASSUME NEW o \in Orders, HoldLapses(o) PROVE AnswersStayTrue'
    BY <2>5 DEF HoldLapses
  <2>6. ASSUME NEW o \in Orders, ReleaseLapsedHold(o) PROVE AnswersStayTrue'
    BY <2>6 DEF ReleaseLapsedHold
  <2>7. ASSUME NEW v \in Variants, AdminStep(v) PROVE AnswersStayTrue'
    BY <2>7 DEF AdminStep, SetOnHand, AdjustOnHand, TopUp
  <2>8. CASE UNCHANGED vars
    BY <2>8 DEF vars
  <2> QED BY <2>1, <2>2, <2>3, <2>4, <2>5, <2>6, <2>7, <2>8 DEF Next, OrderStep
<1> QED BY <1>1, <1>2, TypeCorrect, PTL DEF Spec

-------------------------------------------------------------------------------
(***************************************************************************)
(* Conservation: a commit turns units on hand into sold ones, a restock    *)
(* turns them back as far as the column reaches, and nothing else but an   *)
(* admin moves either.                                                     *)
(***************************************************************************)
Sold(v) == Cardinality(UnitsOf(line, v, "COMMITTED"))

Conserves(v) ==
  \/ onHand'[v] + Sold(v)' = onHand[v] + Sold(v)
  \/ onHand'[v] = Int4Max /\ onHand'[v] + Sold(v)' < onHand[v] + Sold(v)

(* Lines that no sale enters or leaves, levels that nobody changed. *)
LEMMA StillConserves ==
  ASSUME NEW v \in Variants, onHand'[v] = onHand[v],
         \A p \in Orders : line'[p][v] = "COMMITTED" <=> line[p][v] = "COMMITTED"
  PROVE  Conserves(v)
<1>1. Sold(v)' = Sold(v)
  BY UnitsStay DEF Sold
<1> QED BY <1>1 DEF Conserves

LEMMA MoveConserves ==
  ASSUME StockInv, NEW o \in Orders, NEW from, NEW to, Resolves(o, from, to), NEW v \in Variants
  PROVE  Conserves(v)
<1> DEFINE moved == {u \in Variants : line[o][u] = from}
<1>1. /\ line' = [line EXCEPT ![o] = [u \in Variants |-> IF u \in moved THEN to ELSE @[u]]]
      /\ onHand'[v] = CASE v \in moved /\ to = "COMMITTED" -> onHand[v] - Quantity[o][v]
                         [] v \in moved /\ to = "RESTOCKED" -> Min2(onHand[v] + Quantity[o][v], Int4Max)
                         [] OTHER                           -> onHand[v]
  BY DEF Resolves, moveLines
<1>2. TypeOK /\ line \in [Orders -> [Variants -> LineStatuses]]
  BY DEF StockInv, TypeOK, LineStatuses
<1>3. onHand[v] \in 0 .. Int4Max /\ Quantity[o][v] \in Nat /\ Int4Max \in Nat
  BY <1>2, QuantityAssumption, LimitsAssumption DEF TypeOK
<1>4. Sold(v) \in Nat /\ Sold(v)' \in Nat
  BY UnitsFinite DEF Sold
<1>5. CASE v \in moved /\ to = "COMMITTED"
  <2>1. Enters(line, line', o, v, "COMMITTED")
    BY <1>1, <1>2, <1>5 DEF Enters, Resolves
  <2>2. Sold(v)' = Sold(v) + Quantity[o][v]
    BY <2>1, UnitsEnter DEF Sold
  <2>3. onHand'[v] = onHand[v] - Quantity[o][v]
    BY <1>1, <1>5
  <2> HIDE DEF moved
  <2> QED BY <1>3, <1>4, <2>2, <2>3 DEF Conserves
<1>6. CASE v \in moved /\ to = "RESTOCKED"
  <2>1. Enters(line', line, o, v, "COMMITTED")
    BY <1>1, <1>2, <1>6 DEF Enters, Resolves
  <2>2. Sold(v)' = Sold(v) - Quantity[o][v]
    BY <2>1, UnitsLeave DEF Sold
  <2>3. onHand'[v] = Min2(onHand[v] + Quantity[o][v], Int4Max)
    BY <1>1, <1>6
  <2> HIDE DEF moved
  <2> QED BY <1>3, <1>4, <2>2, <2>3 DEF Conserves, Min2
<1>7. CASE ~(v \in moved /\ to \in {"COMMITTED", "RESTOCKED"})
  <2>1. \A p \in Orders : line'[p][v] = "COMMITTED" <=> line[p][v] = "COMMITTED"
    BY <1>1, <1>2, <1>7 DEF Resolves
  <2>2. onHand'[v] = onHand[v]
    BY <1>1, <1>7
  <2> QED BY <2>1, <2>2, StillConserves
<1> QED BY <1>5, <1>6, <1>7

(* No step but an admin's makes or loses units, save at the column's width. *)
THEOREM UnitsAreConserved == Spec => UnitsConserved
<1> DEFINE Sells == \A v \in Variants : Conserves(v) \/ AdminStep(v)
<1>1. StockInv /\ [Next]_vars => [Sells]_vars
  <2> SUFFICES ASSUME StockInv, Next, NEW v \in Variants PROVE Conserves(v) \/ AdminStep(v)
    OBVIOUS
  <2> USE DEF StockInv
  <2>1. ASSUME NEW o \in Orders, TryReserve(o) PROVE Conserves(v)
    <3>1. onHand' = onHand /\ \A u \in Variants : line[o][u] = "NONE"
      BY <2>1 DEF TryReserve, LinesFollowHeader, ReservationStatus
    <3>2. \A p \in Orders : line'[p][v] = "COMMITTED" <=> line[p][v] = "COMMITTED"
      BY <2>1, <3>1 DEF TryReserve, TypeOK
    <3> QED BY <3>1, <3>2, StillConserves
  <2>2. ASSUME NEW o \in Orders, UNCHANGED <<line, onHand>> PROVE Conserves(v)
    BY <2>2, StillConserves
  <2>3. ASSUME NEW o \in Orders, NEW op \in CommandOp, CommandApplied(op, o) PROVE Conserves(v)
    <3>1. decideReservationFence(op, header[o]) = "apply"
      BY <2>3 DEF CommandApplied
    <3>2. CASE op = "release" /\ header[o] = "NONE"
      <4>1. \A u \in Variants : line[o][u] = "NONE"
        BY <3>2 DEF LinesFollowHeader, ReservationStatus
      <4>2. line' = line /\ onHand' = onHand
        BY <2>3, <3>2, <4>1 DEF CommandApplied, moveLines, MovesFrom, MovesTo, TypeOK
      <4> QED BY <2>2, <4>2
    <3>3. CASE ~(op = "release" /\ header[o] = "NONE")
      <4>1. \/ op = "commit" /\ header[o] = "HELD" /\ FenceNext(op, header[o]) = "COMMITTED"
            \/ op = "release" /\ header[o] = "HELD" /\ FenceNext(op, header[o]) = "RELEASED"
            \/ op = "restock" /\ header[o] = "COMMITTED" /\ FenceNext(op, header[o]) = "RESTOCKED"
        BY <3>1, <3>3, FenceApplies
      <4>2. Resolves(o, MovesFrom(op), MovesTo(op))
        BY <2>3, <4>1 DEF CommandApplied, MovesFrom, MovesTo, Resolves
      <4> QED BY <4>2, MoveConserves
    <3> QED BY <3>2, <3>3
  <2>4. ASSUME NEW o \in Orders, ReleaseLapsedHold(o) PROVE Conserves(v)
    <3>1. Resolves(o, "HELD", "RELEASED")
      BY <2>4 DEF ReleaseLapsedHold, Resolves
    <3> QED BY <3>1, MoveConserves
  <2>5. CASE \E o \in Orders : OrderStep(o)
    <3>1. PICK o \in Orders : OrderStep(o)
      BY <2>5
    <3>2. CASE TryRefused(o) \/ HoldLapses(o) \/ \E op \in CommandOp : CommandAnswered(op, o)
      BY <2>2, <3>2 DEF TryRefused, HoldLapses, CommandAnswered, levels
    <3> QED BY <2>1, <2>3, <2>4, <3>1, <3>2 DEF OrderStep
  <2>6. CASE \E u \in Variants : AdminStep(u)
    <3>1. PICK u \in Variants : AdminStep(u)
      BY <2>6
    <3>2. line' = line /\ (u # v => onHand'[v] = onHand[v])
      BY <3>1 DEF AdminStep, SetOnHand, AdjustOnHand, TopUp, TypeOK
    <3> QED BY <3>1, <3>2, StillConserves
  <2> QED BY <2>5, <2>6 DEF Next
<1>2. [Sells]_vars => [\A v \in Variants :
       \/ onHand'[v] + Cardinality(UnitsIn(v, "COMMITTED"))' =
            onHand[v] + Cardinality(UnitsIn(v, "COMMITTED"))
       \/ /\ onHand'[v] = Int4Max
          /\ onHand'[v] + Cardinality(UnitsIn(v, "COMMITTED"))' <
               onHand[v] + Cardinality(UnitsIn(v, "COMMITTED"))
       \/ AdminStep(v)]_vars
  BY DEF Conserves, Sold, UnitsIn
<1> QED BY <1>1, <1>2, StockIsConsistent, PTL DEF Spec, UnitsConserved

-------------------------------------------------------------------------------
(***************************************************************************)
(* The inductive invariant.  The locks are exactly what the transactions   *)
(* in flight have written (LocksMatch), so what a transaction found true   *)
(* of a row it locked stays true until it ends (Claim): the header is      *)
(* still what the fence decided on, and the levels still fit the lines     *)
(* already taken.  Lines are taken in ascending order of variant.          *)
(***************************************************************************)
Pc == {"idle", "insertHeader", "insertFenced", "findHeader", "lockLapsed", "lines", "cas"}

TxRecord ==
  [pc : Pc, op : TxOp \cup {"none"}, order : Orders \cup {"none"},
   todo : SUBSET Variants, moved : SUBSET Variants, wrote : ReservationOrderStatus,
   seen : Int, attempt : Int, strategy : Strategies \cup {"none"}]

TxTypeOK ==
  /\ version \in [Variants -> Int]
  /\ headerLock \in [Orders -> Workers \cup {NoWorker}]
  /\ levelLock \in [Variants -> Workers \cup {NoWorker}]
  /\ tx \in [Workers -> TxRecord]

(* The transaction has written its header and holds it. *)
Holds(w) == tx[w].pc \in {"lines", "cas"}

LocksMatch ==
  /\ \A o \in Orders, w \in Workers : headerLock[o] = w <=> (Holds(w) /\ tx[w].order = o)
  /\ \A v \in Variants, w \in Workers : levelLock[v] = w <=> (Holds(w) /\ v \in tx[w].moved)

(* Where each kind of transaction starts. *)
Starts(w) ==
  /\ tx[w].pc # "idle" => tx[w].order \in Orders /\ tx[w].op \in TxOp
  /\ tx[w].pc = "insertHeader" => tx[w].op = "try"
  /\ tx[w].pc = "insertFenced" => tx[w].op = "release"
  /\ tx[w].pc = "findHeader" => tx[w].op \in ReservationFenceOp
  /\ tx[w].pc = "lockLapsed" => tx[w].op = "sweep"
  /\ tx[w].pc = "cas" => tx[w].op = "try" /\ tx[w].todo # {}
  /\ ~Holds(w) => tx[w].todo = {} /\ tx[w].moved = {}

(* The lines of the transaction, done and to do. *)
AllLines(w) == tx[w].todo \cup tx[w].moved

ClaimsTry(w) ==
  /\ tx[w].op = "try" /\ tx[w].wrote = "HELD"
  /\ header[tx[w].order] = "NONE"
  /\ AllLines(w) = Lines(tx[w].order)
  /\ \A v \in tx[w].moved : v \in stocked /\ Available(v) >= Quantity[tx[w].order][v]

ClaimsSweep(w) ==
  /\ tx[w].op = "sweep" /\ tx[w].wrote = "RELEASED"
  /\ header[tx[w].order] = "HELD" /\ lapsed[tx[w].order]
  /\ AllLines(w) = LinesIn(tx[w].order, "HELD")

ClaimsFence(w) ==
  /\ tx[w].op = "release" /\ tx[w].wrote = "FENCED"
  /\ header[tx[w].order] = "NONE"
  /\ AllLines(w) = {}

ClaimsCommand(w) ==
  /\ tx[w].op \in CommandOp
  /\ header[tx[w].order] # "NONE"
  /\ decideReservationFence(tx[w].op, header[tx[w].order]) = "apply"
  /\ tx[w].wrote = FenceNext(tx[w].op, header[tx[w].order])
  /\ AllLines(w) = LinesIn(tx[w].order, MovesFrom(tx[w].op))

(* What a transaction relies on while it holds its header. *)
Claims(w) == ClaimsTry(w) \/ ClaimsSweep(w) \/ ClaimsFence(w) \/ ClaimsCommand(w)

Ascends(w) == \A u \in tx[w].moved, v \in tx[w].todo : u < v

TxInv ==
  /\ TxTypeOK
  /\ LocksMatch
  /\ \A w \in Workers : Starts(w)
  /\ \A w \in Workers : Holds(w) => Claims(w) /\ Ascends(w)

-------------------------------------------------------------------------------
(* A nonempty set of variants has a least one, which NextLine chooses. *)
LEMMA LeastVariant ==
  ASSUME NEW T \in SUBSET Variants, T # {}
  PROVE  \E v \in T : \A u \in T : v <= u
<1> DEFINE R == OpToRel(<, Nat)
<1>1. T \subseteq Nat
  BY VariantsAssumption
<1>2. \E v \in T : \A u \in T : ~(<<u, v>> \in R)
  <2> HIDE DEF R
  <2>1. IsWellFoundedOn(R, Nat)
    BY NatLessThanWellFounded DEF R
  <2> QED BY <1>1, <2>1, WFMin
<1>3. PICK v \in T : \A u \in T : ~(<<u, v>> \in R)
  BY <1>2
<1>4. \A u \in T : ~(u < v)
  BY <1>1, <1>3 DEF OpToRel
<1> QED BY <1>1, <1>4

LEMMA NextLineLeast ==
  ASSUME NEW w, tx[w].todo \in SUBSET Variants, tx[w].todo # {}
  PROVE  NextLine(w) \in tx[w].todo /\ \A u \in tx[w].todo : NextLine(w) <= u
BY LeastVariant DEF NextLine, ReserveNext, MoveNext

-------------------------------------------------------------------------------
(***************************************************************************)
(* What one transaction does leaves the others' claims alone.              *)
(***************************************************************************)

(* The rows x relies on are as they were. *)
Undisturbed(x) ==
  /\ header'[tx[x].order] = header[tx[x].order]
  /\ line'[tx[x].order] = line[tx[x].order]
  /\ lapsed[tx[x].order] => lapsed'[tx[x].order]
  /\ \A v \in tx[x].moved :
       /\ v \in stocked => v \in stocked'
       /\ onHand'[v] = onHand[v] /\ reserved'[v] = reserved[v]

LEMMA UndisturbedKeeps ==
  ASSUME NEW x \in Workers, Claims(x), tx'[x] = tx[x], Undisturbed(x)
  PROVE  Claims(x)'
<1>1. AllLines(x)' = AllLines(x)
  BY DEF AllLines
<1>2. \A s : LinesIn(tx[x].order, s)' = LinesIn(tx[x].order, s)
  BY DEF LinesIn, Undisturbed
<1>3. ClaimsTry(x) => ClaimsTry(x)'
  BY <1>1 DEF ClaimsTry, Undisturbed, Available
<1>4. ClaimsSweep(x) => ClaimsSweep(x)'
  BY <1>1, <1>2 DEF ClaimsSweep, Undisturbed, LinesIn
<1>5. ClaimsFence(x) => ClaimsFence(x)'
  BY <1>1 DEF ClaimsFence, Undisturbed
<1>6. ClaimsCommand(x) => ClaimsCommand(x)'
  BY <1>1, <1>2 DEF ClaimsCommand, Undisturbed, LinesIn
<1> QED BY <1>3, <1>4, <1>5, <1>6 DEF Claims

(* A transaction that sits a step out stays as it was. *)
LEMMA BystanderKeeps ==
  ASSUME TxInv, NEW x \in Workers, tx'[x] = tx[x], Holds(x) => Undisturbed(x)
  PROVE  Starts(x)' /\ (Holds(x)' => Claims(x)' /\ Ascends(x)')
<1>1. Starts(x)'
  BY DEF TxInv, Starts, Holds
<1>2. Holds(x)' => Claims(x)'
  BY UndisturbedKeeps DEF TxInv, Holds
<1>3. Holds(x)' => Ascends(x)'
  BY DEF TxInv, Holds, Ascends
<1> QED BY <1>1, <1>2, <1>3

(* A step of transaction w keeps the invariant if it keeps w's part of it. *)
LEMMA FrameTxInv ==
  ASSUME TxInv, NEW w \in Workers, TxTypeOK', LocksMatch',
         \A x \in Workers \ {w} : tx'[x] = tx[x] /\ (Holds(x) => Undisturbed(x)),
         Starts(w)', Holds(w)' => Claims(w)' /\ Ascends(w)'
  PROVE  TxInv'
BY BystanderKeeps DEF TxInv

(* A transaction that writes no row leaves every other undisturbed. *)
LEMMA NoRowsUndisturb ==
  ASSUME UNCHANGED <<header, line, stocked, onHand, reserved, lapsed>>, NEW x
  PROVE  Undisturbed(x)
BY DEF Undisturbed

(* A transaction that ends gives its locks back. *)
LEMMA EndKeepsTxInv ==
  ASSUME TxInv, NEW w \in Workers, EndTx(w), version' \in [Variants -> Int],
         \A x \in Workers \ {w} : Holds(x) => Undisturbed(x)
  PROVE  TxInv'
<1>1. Idle \in TxRecord
  BY DEF Idle, Started, TxRecord, Pc, ReservationOrderStatus
<1>2. tx' \in [Workers -> TxRecord] /\ tx'[w] = Idle /\ \A x \in Workers \ {w} : tx'[x] = tx[x]
  BY <1>1 DEF EndTx, TxInv, TxTypeOK
<1>3. TxTypeOK'
  BY <1>2 DEF EndTx, TxInv, TxTypeOK
<1>4. ~Holds(w)' /\ Starts(w)'
  BY <1>2 DEF Holds, Starts, Idle, Started
<1>5. LocksMatch'
  <2>1. \A x \in Workers \ {w} : Holds(x)' = Holds(x)
    BY <1>2 DEF Holds
  <2>2. ASSUME NEW o \in Orders, NEW x \in Workers
        PROVE  (headerLock[o] = x <=> (Holds(x) /\ tx[x].order = o))'
    BY <1>2, <1>4, <2>1, VariantsAssumption DEF EndTx, TxInv, LocksMatch, TxTypeOK
  <2>3. ASSUME NEW v \in Variants, NEW x \in Workers
        PROVE  (levelLock[v] = x <=> (Holds(x) /\ v \in tx[x].moved))'
    BY <1>2, <1>4, <2>1, VariantsAssumption DEF EndTx, TxInv, LocksMatch, TxTypeOK
  <2> QED BY <2>2, <2>3 DEF LocksMatch
<1> QED BY <1>2, <1>3, <1>4, <1>5, FrameTxInv

(* A step that changes neither a row nor a lock keeps the invariant when    *)
(* the transaction holds, before and after, nothing.                        *)
LEMMA WaitKeepsTxInv ==
  ASSUME TxInv, NEW w \in Workers,
         UNCHANGED <<header, line, stocked, onHand, reserved, lapsed, version, locks>>,
         NEW rec \in TxRecord, tx' = [tx EXCEPT ![w] = rec],
         ~Holds(w), ~Holds(w)', Starts(w)'
  PROVE  TxInv'
<1>1. tx' \in [Workers -> TxRecord] /\ tx'[w] = rec /\ \A x \in Workers \ {w} : tx'[x] = tx[x]
  BY DEF TxInv, TxTypeOK
<1>2. TxTypeOK'
  BY <1>1 DEF TxInv, TxTypeOK, locks
<1>3. LocksMatch'
  <2>1. \A x \in Workers : Holds(x)' = Holds(x)
    BY <1>1 DEF Holds
  <2> QED BY <1>1, <2>1 DEF TxInv, LocksMatch, locks
<1> QED BY <1>1, <1>2, <1>3, NoRowsUndisturb, FrameTxInv

LEMMA BeginSteps ==
  ASSUME TxInv, NEW w \in Workers, NEW op \in TxOp, NEW o \in Orders, NEW strategy \in Strategies,
         Begin(w, op, o, strategy)
  PROVE  TxInv' /\ UNCHANGED vars
<1> DEFINE start == CASE op = "try" -> "insertHeader" [] op = "sweep" -> "lockLapsed" [] OTHER -> "findHeader"
           chosen == IF op = "try" THEN strategy ELSE "none"
           rec == Started(start, op, o, chosen)
<1>1. tx' = [tx EXCEPT ![w] = rec]
  BY DEF Begin
<1>2. rec \in TxRecord
  BY DEF Started, TxRecord, Pc, ReservationOrderStatus
<1>3. tx'[w] = rec
  BY <1>1 DEF TxInv, TxTypeOK
<1>4. ~Holds(w) /\ ~Holds(w)'
  BY <1>3 DEF Begin, At, Holds, Started, Idle
<1>5. Starts(w)'
  BY <1>3, <1>4 DEF Starts, Started, TxOp
<1> QED BY <1>1, <1>2, <1>4, <1>5, WaitKeepsTxInv DEF Begin, vars

(* A header is locked and the transaction knows which lines it will move. *)
TakesHeader(w, status, todo) ==
  /\ headerLock[tx[w].order] = NoWorker
  /\ headerLock' = [headerLock EXCEPT ![tx[w].order] = w]
  /\ tx' = [tx EXCEPT ![w].pc = "lines", ![w].wrote = status, ![w].todo = todo]
  /\ UNCHANGED <<vars, version, levelLock>>

LEMMA TakesHeaderSets ==
  ASSUME TxInv, NEW w \in Workers, ~Holds(w),
         NEW status \in ReservationOrderStatus, NEW todo \in SUBSET Variants,
         TakesHeader(w, status, todo)
  PROVE  /\ tx' \in [Workers -> TxRecord]
         /\ \A x \in Workers \ {w} : tx'[x] = tx[x]
         /\ tx'[w].pc = "lines" /\ tx'[w].order = tx[w].order /\ tx'[w].op = tx[w].op
         /\ tx'[w].wrote = status /\ tx'[w].todo = todo /\ tx'[w].moved = {}
         /\ AllLines(w)' = todo
         /\ UNCHANGED <<vars, version, levelLock>>
<1> DEFINE rec == [tx[w] EXCEPT !.pc = "lines", !.wrote = status, !.todo = todo]
<1>1. tx[w] \in TxRecord /\ tx[w].moved = {}
  BY DEF TxInv, TxTypeOK, Starts
<1>2. rec \in TxRecord /\ rec.pc = "lines" /\ rec.order = tx[w].order /\ rec.wrote = status /\ rec.todo = todo
      /\ rec.moved = {} /\ rec.op = tx[w].op
  BY <1>1 DEF TxRecord, Pc
<1>3. tx' = [tx EXCEPT ![w] = rec]
  BY DEF TakesHeader
<1> HIDE DEF rec
<1>4. tx' \in [Workers -> TxRecord] /\ tx'[w] = rec /\ \A x \in Workers \ {w} : tx'[x] = tx[x]
  BY <1>2, <1>3 DEF TxInv, TxTypeOK
<1>5. AllLines(w)' = todo
  BY <1>2, <1>4 DEF AllLines
<1> QED BY <1>2, <1>4, <1>5 DEF TakesHeader

LEMMA TakesHeaderKeeps ==
  ASSUME TxInv, NEW w \in Workers, ~Holds(w), tx[w].order \in Orders, tx[w].op \in TxOp,
         NEW status \in ReservationOrderStatus, NEW todo \in SUBSET Variants,
         TakesHeader(w, status, todo), Claims(w)'
  PROVE  TxInv'
<1> DEFINE o == tx[w].order
<1>4. /\ tx' \in [Workers -> TxRecord]
      /\ \A x \in Workers \ {w} : tx'[x] = tx[x]
      /\ tx'[w].pc = "lines" /\ tx'[w].order = o /\ tx'[w].op = tx[w].op
      /\ tx'[w].wrote = status /\ tx'[w].todo = todo /\ tx'[w].moved = {}
      /\ version' = version /\ levelLock' = levelLock
  BY TakesHeaderSets
<1>5. TxTypeOK'
  BY <1>4 DEF TxInv, TxTypeOK, TakesHeader
<1>6. Holds(w)' /\ \A x \in Workers \ {w} : Holds(x)' = Holds(x)
  BY <1>4 DEF Holds
<1>7. LocksMatch'
  <2>1. \A x \in Workers : ~(Holds(x) /\ tx[x].order = o)
    BY VariantsAssumption DEF TxInv, LocksMatch, TakesHeader
  <2>2. ASSUME NEW p \in Orders, NEW x \in Workers
        PROVE  (headerLock[p] = x <=> (Holds(x) /\ tx[x].order = p))'
    BY <1>4, <1>6, <2>1 DEF TxInv, LocksMatch, TxTypeOK, TakesHeader
  <2>3. ASSUME NEW v \in Variants, NEW x \in Workers
        PROVE  (levelLock[v] = x <=> (Holds(x) /\ v \in tx[x].moved))'
    BY <1>4, <1>6 DEF TxInv, LocksMatch
  <2> QED BY <2>2, <2>3 DEF LocksMatch
<1>8. Starts(w)'
  BY <1>4, <1>6 DEF Starts, Holds
<1>9. Ascends(w)'
  BY <1>4 DEF Ascends
<1>10. \A x : Undisturbed(x)
  BY NoRowsUndisturb DEF TakesHeader, vars
<1> QED BY <1>4, <1>5, <1>7, <1>8, <1>9, <1>10, FrameTxInv

(* The header row is inserted, or found to be there. *)
LEMMA InsertSteps ==
  ASSUME TxInv, NEW w \in Workers, insertHeader(w) \/ insertFencedHeader(w)
  PROVE  TxInv' /\ UNCHANGED vars
<1> DEFINE o == tx[w].order
           todo == IF At(w, "insertHeader") THEN Lines(o) ELSE {}
           status == IF At(w, "insertHeader") THEN "HELD" ELSE "FENCED"
<1>1. InsertHeaderRow(w, status, todo, "findHeader") /\ tx[w].pc \in {"insertHeader", "insertFenced"}
  BY DEF insertHeader, insertFencedHeader, At
<1>2. /\ o \in Orders /\ Starts(w) /\ ~Holds(w) /\ tx[w].moved = {} /\ tx[w].todo = {} /\ tx[w] \in TxRecord
      /\ \A x \in Workers : headerLock[o] = x <=> (Holds(x) /\ tx[x].order = o)
  BY <1>1 DEF TxInv, Starts, Holds, TxTypeOK, LocksMatch
<1>3. CASE header[o] # "NONE" /\ Goto(w, "findHeader") /\ UNCHANGED <<vars, version, locks>>
  <2>1. [tx[w] EXCEPT !.pc = "findHeader"] \in TxRecord
    BY <1>2 DEF TxRecord, Pc
  <2>2. tx'[w] = [tx[w] EXCEPT !.pc = "findHeader"] /\ tx' = [tx EXCEPT ![w] = [tx[w] EXCEPT !.pc = "findHeader"]]
    BY <1>3 DEF Goto, TxInv, TxTypeOK
  <2>3. ~Holds(w)' /\ Starts(w)'
    BY <1>1, <1>2, <2>2 DEF Starts, Holds, TxRecord, ReservationFenceOp, CommandOp
  <2> QED BY <1>2, <1>3, <2>1, <2>2, <2>3, WaitKeepsTxInv DEF vars
<1>4. CASE /\ header[o] = "NONE" /\ headerLock[o] = NoWorker
           /\ headerLock' = [headerLock EXCEPT ![o] = w]
           /\ tx' = [tx EXCEPT ![w].pc = "lines", ![w].wrote = status, ![w].todo = todo]
           /\ UNCHANGED <<vars, version, levelLock>>
  <2>1. status \in ReservationOrderStatus /\ todo \in SUBSET Variants
    BY DEF ReservationOrderStatus, Lines
  <2>a. TakesHeader(w, status, todo)
    BY <1>4 DEF TakesHeader
  <2>b. /\ tx'[w].op = tx[w].op /\ tx'[w].order = o /\ tx'[w].wrote = status
        /\ AllLines(w)' = todo /\ tx'[w].moved = {}
    BY <1>2, <2>1, <2>a, TakesHeaderSets
  <2>2. Claims(w)'
    <3>1. CASE At(w, "insertHeader")
      BY <1>2, <1>4, <2>b, <3>1 DEF Claims, ClaimsTry, Starts, At, vars
    <3>2. CASE ~At(w, "insertHeader")
      BY <1>1, <1>2, <1>4, <2>b, <3>2 DEF Claims, ClaimsFence, Starts, At, vars
    <3> QED BY <3>1, <3>2
  <2>3. TxInv'
    BY <1>1, <1>2, <2>1, <2>2, <2>a, TakesHeaderKeeps DEF Starts
  <2> QED BY <1>4, <2>3 DEF vars
<1> QED BY <1>1, <1>3, <1>4 DEF InsertHeaderRow

LEMMA EndUnchangedKeeps ==
  ASSUME TxInv, NEW w \in Workers, NEW outcome, EndUnchanged(w, outcome)
  PROVE  TxInv'
<1>1. \A x \in Workers \ {w} : Undisturbed(x)
  BY NoRowsUndisturb DEF EndUnchanged
<1>2. version' \in [Variants -> Int]
  BY DEF EndUnchanged, TxInv, TxTypeOK
<1> QED BY <1>1, <1>2, EndKeepsTxInv DEF EndUnchanged

(* A rollback shows the callers nothing. *)
LEMMA RollbackSteps ==
  ASSUME TxInv, NEW w \in Workers, EndTx(w), UNCHANGED <<vars, version>>
  PROVE  TxInv' /\ UNCHANGED vars
<1>1. \A x \in Workers \ {w} : Undisturbed(x)
  BY NoRowsUndisturb DEF vars
<1>2. version' \in [Variants -> Int]
  BY DEF TxInv, TxTypeOK
<1> QED BY <1>1, <1>2, EndKeepsTxInv

LEMMA FindHeaderSteps ==
  ASSUME TxInv, NEW w \in Workers, findHeaderForUpdate(w)
  PROVE  TxInv' /\ [Next]_vars
<1> DEFINE o == tx[w].order
           op == tx[w].op
           decision == decideReservationFence(op, header[o])
<1>1. /\ o \in Orders /\ op \in ReservationFenceOp /\ op \in TxOp /\ ~Holds(w) /\ tx[w] \in TxRecord
      /\ tx[w].pc = "findHeader" /\ tx[w].todo = {} /\ tx[w].moved = {}
  BY DEF TxInv, Starts, Holds, TxTypeOK, findHeaderForUpdate, At
<1>2. CASE op = "release" /\ Goto(w, "insertFenced") /\ UNCHANGED <<vars, version, locks>>
  <2>1. [tx[w] EXCEPT !.pc = "insertFenced"] \in TxRecord
    BY <1>1 DEF TxRecord, Pc
  <2>2. tx'[w] = [tx[w] EXCEPT !.pc = "insertFenced"] /\ tx' = [tx EXCEPT ![w] = [tx[w] EXCEPT !.pc = "insertFenced"]]
    BY <1>2 DEF Goto, TxInv, TxTypeOK
  <2>3. ~Holds(w)' /\ Starts(w)'
    BY <1>1, <1>2, <2>2 DEF Starts, Holds, TxRecord
  <2> QED BY <1>1, <1>2, <2>1, <2>2, <2>3, WaitKeepsTxInv DEF vars
<1>3. CASE header[o] = "NONE" /\ op \in {"commit", "restock"} /\ EndUnchanged(w, "CONFLICT")
  <2>1. CommandAnswered(op, o)
    BY <1>3 DEF CommandAnswered, EndUnchanged, decideReservationFence, FenceNext, FenceDone, levels
  <2> QED BY <1>1, <1>3, <2>1, EndUnchangedKeeps DEF Next, OrderStep, CommandOp
<1>4. CASE header[o] # "NONE" /\ op = "try" /\ EndUnchanged(w, IF decision = "conflict" THEN "CONFLICT" ELSE "RESERVED")
  <2>1. TryRefused(o)
    BY <1>4 DEF TryRefused, EndUnchanged, levels
  <2> QED BY <1>1, <1>4, <2>1, EndUnchangedKeeps DEF Next, OrderStep
<1>5. CASE op # "try" /\ decision # "apply" /\ EndUnchanged(w, IF decision = "idempotent" THEN "IDEMPOTENT" ELSE "CONFLICT")
  <2>1. CommandAnswered(op, o)
    BY <1>5 DEF CommandAnswered, EndUnchanged, levels
  <2> QED BY <1>1, <1>5, <2>1, EndUnchangedKeeps DEF Next, OrderStep, ReservationFenceOp
<1>6. CASE /\ header[o] # "NONE" /\ headerLock[o] = NoWorker
           /\ op # "try" /\ decision = "apply"
           /\ headerLock' = [headerLock EXCEPT ![o] = w]
           /\ tx' = [tx EXCEPT ![w].pc = "lines", ![w].wrote = FenceNext(op, header[o]),
                               ![w].todo = LinesIn(o, MovesFrom(op))]
           /\ UNCHANGED <<vars, version, levelLock>>
  <2>1. FenceNext(op, header[o]) \in ReservationOrderStatus
    BY DEF FenceNext, ReservationOrderStatus
  <2>2. LinesIn(o, MovesFrom(op)) \in SUBSET Variants
    BY DEF LinesIn
  <2>a. TakesHeader(w, FenceNext(op, header[o]), LinesIn(o, MovesFrom(op)))
    BY <1>6 DEF TakesHeader
  <2>b. /\ tx'[w].op = op /\ tx'[w].order = o /\ tx'[w].wrote = FenceNext(op, header[o])
        /\ AllLines(w)' = LinesIn(o, MovesFrom(op)) /\ tx'[w].moved = {}
    BY <1>1, <2>1, <2>2, <2>a, TakesHeaderSets
  <2>3. Claims(w)'
    BY <1>1, <1>6, <2>b DEF Claims, ClaimsCommand, ReservationFenceOp, vars, LinesIn
  <2>4. TxInv'
    BY <1>1, <2>1, <2>2, <2>3, <2>a, TakesHeaderKeeps
  <2> QED BY <1>6, <2>4 DEF vars
<1> QED BY <1>2, <1>3, <1>4, <1>5, <1>6 DEF findHeaderForUpdate

LEMMA LockLapsedSteps ==
  ASSUME TxInv, NEW w \in Workers, lockLapsedHeader(w)
  PROVE  TxInv' /\ UNCHANGED vars
<1> DEFINE o == tx[w].order
<1>1. /\ o \in Orders /\ tx[w].op = "sweep" /\ tx[w].op \in TxOp /\ ~Holds(w)
  BY DEF TxInv, Starts, Holds, lockLapsedHeader, At
<1>2. CASE /\ header[o] = "HELD" /\ lapsed[o] /\ headerLock[o] = NoWorker
           /\ headerLock' = [headerLock EXCEPT ![o] = w]
           /\ tx' = [tx EXCEPT ![w].pc = "lines", ![w].wrote = "RELEASED", ![w].todo = LapsedLines(o)]
           /\ UNCHANGED <<vars, version, levelLock>>
  <2>1. "RELEASED" \in ReservationOrderStatus /\ LapsedLines(o) \in SUBSET Variants
    BY DEF ReservationOrderStatus, LapsedLines, LinesIn
  <2>a. TakesHeader(w, "RELEASED", LapsedLines(o))
    BY <1>2 DEF TakesHeader
  <2>b. /\ tx'[w].op = tx[w].op /\ tx'[w].order = o /\ tx'[w].wrote = "RELEASED"
        /\ AllLines(w)' = LapsedLines(o) /\ tx'[w].moved = {}
    BY <1>1, <2>1, <2>a, TakesHeaderSets
  <2>2. Claims(w)'
    BY <1>1, <1>2, <2>b DEF Claims, ClaimsSweep, LapsedLines, vars, LinesIn
  <2>3. TxInv'
    BY <1>1, <2>1, <2>2, <2>a, TakesHeaderKeeps
  <2> QED BY <1>2, <2>3 DEF vars
<1>3. CASE EndTx(w) /\ UNCHANGED <<vars, version>>
  BY <1>3, RollbackSteps
<1> QED BY <1>2, <1>3 DEF lockLapsedHeader

-------------------------------------------------------------------------------
(***************************************************************************)
(* The lines, one by one.                                                  *)
(***************************************************************************)

(* Taking the next line of a free stock row that fits. *)
LEMMA TakeLineKeeps ==
  ASSUME TxInv, NEW w \in Workers, Holds(w), tx[w].todo # {},
         levelLock[NextLine(w)] = NoWorker,
         tx[w].op = "try" => Fits(w, NextLine(w)),
         TakeLine(w, NextLine(w))
  PROVE  TxInv' /\ UNCHANGED vars
<1> DEFINE v == NextLine(w)
           todo == tx[w].todo \ {v}
           moved == tx[w].moved \cup {v}
           rec == [tx[w] EXCEPT !.pc = "lines", !.todo = todo, !.moved = moved, !.attempt = 0]
<1>1. tx[w] \in TxRecord /\ tx[w].todo \in SUBSET Variants /\ tx[w].moved \in SUBSET Variants
  BY DEF TxInv, TxTypeOK, TxRecord
<1>2. v \in tx[w].todo /\ (\A u \in tx[w].todo : v <= u) /\ v \in Variants
  BY <1>1, NextLineLeast
<1>3. tx' = [tx EXCEPT ![w] = rec]
  BY DEF TakeLine
<1> HIDE DEF v
<1>a. todo \in SUBSET Variants /\ moved \in SUBSET Variants
  BY <1>1, <1>2
<1>b. todo = tx[w].todo \ {v} /\ moved = tx[w].moved \cup {v}
  OBVIOUS
<1> HIDE DEF todo, moved
<1>c. rec \in TxRecord
  <2>1. 0 \in Int /\ "lines" \in Pc
    BY DEF Pc
  <2> QED BY <1>1, <1>a, <2>1, Zenon DEF TxRecord
<1>4. /\ rec \in TxRecord /\ rec.pc = "lines" /\ rec.order = tx[w].order /\ rec.op = tx[w].op /\ rec.wrote = tx[w].wrote
      /\ rec.todo = tx[w].todo \ {v} /\ rec.moved = tx[w].moved \cup {v}
  BY <1>1, <1>b, <1>c DEF TxRecord
<1> HIDE DEF rec
<1>5. tx' \in [Workers -> TxRecord] /\ tx'[w] = rec /\ \A x \in Workers \ {w} : tx'[x] = tx[x]
  BY <1>3, <1>4 DEF TxInv, TxTypeOK
<1>6. /\ levelLock' = [levelLock EXCEPT ![v] = w] /\ headerLock' = headerLock /\ version' = version
      /\ levelLock[v] = NoWorker /\ UNCHANGED vars
      /\ tx[w].op = "try" => Fits(w, v)
  BY DEF TakeLine, v
<1>7. TxTypeOK'
  BY <1>5, <1>6 DEF TxInv, TxTypeOK
<1>8. Holds(w)' /\ \A x \in Workers : Holds(x)' = Holds(x)
  BY <1>4, <1>5 DEF Holds
<1>9. LocksMatch'
  <2>1. \A x \in Workers : ~(Holds(x) /\ v \in tx[x].moved)
    BY <1>2, <1>6, VariantsAssumption DEF TxInv, LocksMatch
  <2>2. ASSUME NEW p \in Orders, NEW x \in Workers
        PROVE  (headerLock[p] = x <=> (Holds(x) /\ tx[x].order = p))'
    BY <1>4, <1>5, <1>6, <1>8 DEF TxInv, LocksMatch
  <2>3. ASSUME NEW u \in Variants, NEW x \in Workers
        PROVE  (levelLock[u] = x <=> (Holds(x) /\ u \in tx[x].moved))'
    BY <1>2, <1>4, <1>5, <1>6, <1>8, <2>1 DEF TxInv, LocksMatch, TxTypeOK
  <2> QED BY <2>2, <2>3 DEF LocksMatch
<1>10. Starts(w)'
  <2>1. tx[w].order \in Orders /\ tx[w].op \in TxOp
    BY DEF TxInv, Starts, Holds
  <2> QED BY <1>4, <1>5, <1>8, <2>1 DEF Starts, Holds
<1>11. Ascends(w)'
  <2>1. \A u \in tx[w].moved, x \in tx[w].todo : u < x
    BY DEF TxInv, Ascends
  <2>2. ASSUME NEW x \in tx[w].todo \ {v} PROVE v < x
    <3>1. x \in Nat /\ v \in Nat /\ v <= x /\ v # x
      BY <1>1, <1>2, VariantsAssumption
    <3> QED BY <3>1
  <2> QED BY <1>4, <1>5, <2>1, <2>2 DEF Ascends
<1>12. Claims(w)'
  <2>1. AllLines(w)' = AllLines(w)
    BY <1>2, <1>4, <1>5 DEF AllLines
  <2>2. \A x \in Variants : Available(x)' = Available(x)
    BY <1>6 DEF Available, vars
  <2>3. UNCHANGED <<header, line, lapsed, stocked>>
    BY <1>6 DEF vars
  <2>4. Claims(w)
    BY DEF TxInv
  <2>5. ClaimsTry(w) => ClaimsTry(w)'
    BY <1>1, <1>2, <1>4, <1>5, <1>6, <2>1, <2>2, <2>3 DEF ClaimsTry, Fits
  <2>6. ClaimsSweep(w) => ClaimsSweep(w)'
    BY <1>4, <1>5, <2>1, <2>3 DEF ClaimsSweep, LinesIn
  <2>7. ClaimsFence(w) => ClaimsFence(w)'
    BY <1>4, <1>5, <2>1, <2>3 DEF ClaimsFence
  <2>8. ClaimsCommand(w) => ClaimsCommand(w)'
    BY <1>4, <1>5, <2>1, <2>3 DEF ClaimsCommand, LinesIn
  <2> QED BY <2>4, <2>5, <2>6, <2>7, <2>8 DEF Claims
<1>13. \A x : Undisturbed(x)
  BY <1>6, NoRowsUndisturb DEF vars
<1> QED BY <1>5, <1>6, <1>7, <1>9, <1>10, <1>11, <1>12, <1>13, FrameTxInv

(* While it goes through its lines a transaction may only reconsider. *)
Reconsiders(w, pc, seen, attempt) ==
  /\ tx' = [tx EXCEPT ![w] = [tx[w] EXCEPT !.pc = pc, !.seen = seen, !.attempt = attempt]]
  /\ UNCHANGED <<vars, version, locks>>

LEMMA RetryKeeps ==
  ASSUME TxInv, NEW w \in Workers, Holds(w), NEW pc \in {"lines", "cas"}, NEW seen \in Int, NEW attempt \in Int,
         pc = "cas" => tx[w].op = "try" /\ tx[w].todo # {},
         Reconsiders(w, pc, seen, attempt)
  PROVE  TxInv' /\ UNCHANGED vars
<1> DEFINE rec == [tx[w] EXCEPT !.pc = pc, !.seen = seen, !.attempt = attempt]
<1>1. tx[w] \in TxRecord
  BY DEF TxInv, TxTypeOK
<1>2. /\ rec \in TxRecord /\ rec.pc = pc /\ rec.order = tx[w].order /\ rec.op = tx[w].op /\ rec.wrote = tx[w].wrote
      /\ rec.todo = tx[w].todo /\ rec.moved = tx[w].moved
  BY <1>1 DEF TxRecord, Pc
<1> HIDE DEF rec
<1>3. tx' = [tx EXCEPT ![w] = rec]
  BY DEF rec, Reconsiders
<1>4. tx' \in [Workers -> TxRecord] /\ tx'[w] = rec /\ \A x \in Workers \ {w} : tx'[x] = tx[x]
  BY <1>2, <1>3 DEF TxInv, TxTypeOK
<1>5. headerLock' = headerLock /\ levelLock' = levelLock /\ version' = version /\ UNCHANGED vars
  BY DEF locks, Reconsiders
<1>6. TxTypeOK'
  BY <1>4, <1>5 DEF TxInv, TxTypeOK
<1>7. Holds(w)' /\ \A x \in Workers : Holds(x)' = Holds(x)
  BY <1>2, <1>4 DEF Holds
<1>8. LocksMatch'
  BY <1>2, <1>4, <1>5, <1>7 DEF TxInv, LocksMatch
<1>9. Starts(w)'
  <2>1. tx[w].order \in Orders /\ tx[w].op \in TxOp
    BY DEF TxInv, Starts, Holds
  <2> QED BY <1>2, <1>4, <1>7, <2>1 DEF Starts, Holds
<1>10. Claims(w)' /\ Ascends(w)'
  <2>1. AllLines(w)' = AllLines(w)
    BY <1>2, <1>4 DEF AllLines
  <2>2. \A x \in Variants : Available(x)' = Available(x)
    BY <1>5 DEF Available, vars
  <2>3. UNCHANGED <<header, line, lapsed, stocked>>
    BY <1>5 DEF vars
  <2>4. Claims(w) /\ Ascends(w) /\ tx[w].moved \in SUBSET Variants
    BY <1>1 DEF TxInv, TxRecord
  <2>5. ClaimsTry(w) => ClaimsTry(w)'
    BY <1>2, <1>4, <2>1, <2>2, <2>3, <2>4 DEF ClaimsTry
  <2>6. ClaimsSweep(w) => ClaimsSweep(w)'
    BY <1>2, <1>4, <2>1, <2>3 DEF ClaimsSweep, LinesIn
  <2>7. ClaimsFence(w) => ClaimsFence(w)'
    BY <1>2, <1>4, <2>1, <2>3 DEF ClaimsFence
  <2>8. ClaimsCommand(w) => ClaimsCommand(w)'
    BY <1>2, <1>4, <2>1, <2>3 DEF ClaimsCommand, LinesIn
  <2> QED BY <1>2, <1>4, <2>4, <2>5, <2>6, <2>7, <2>8 DEF Claims, Ascends
<1>11. \A x : Undisturbed(x)
  BY <1>5, NoRowsUndisturb DEF vars
<1> QED BY <1>4, <1>5, <1>6, <1>8, <1>9, <1>10, <1>11, FrameTxInv

(* A Try that finds its next line short, or gives up, is a refused Try. *)
LEMMA ShortfallSteps ==
  ASSUME TxInv, NEW w \in Workers, Holds(w), tx[w].op = "try", tx[w].todo # {},
         \/ ~Fits(w, NextLine(w)) /\ EndUnchanged(w, "OUT_OF_STOCK")
         \/ EndUnchanged(w, "CONTENDED")
  PROVE  TxInv' /\ [Next]_vars
<1> DEFINE o == tx[w].order
<1>1. o \in Orders /\ header[o] = "NONE" /\ AllLines(w) = Lines(o) /\ tx[w].todo \in SUBSET Variants
  BY DEF TxInv, TxTypeOK, TxRecord, Starts, Holds, Claims, ClaimsTry, ClaimsSweep, ClaimsFence, ClaimsCommand, CommandOp
<1>2. NextLine(w) \in Lines(o)
  BY <1>1, NextLineLeast DEF AllLines
<1>3. ~Fits(w, NextLine(w)) => ~CanHold(o)
  BY <1>2 DEF Fits, CanHold
<1>4. TryRefused(o)
  BY <1>1, <1>3 DEF TryRefused, EndUnchanged, levels
<1> QED BY <1>1, <1>4, EndUnchangedKeeps DEF Next, OrderStep

LEMMA ReserveSteps ==
  ASSUME TxInv, NEW w \in Workers, reservePessimistic(w) \/ casRead(w) \/ casUpdate(w)
  PROVE  TxInv' /\ [Next]_vars
<1> DEFINE v == NextLine(w)
<1>1. Holds(w) /\ tx[w].op = "try" /\ tx[w].todo # {} /\ tx[w] \in TxRecord
  BY DEF Holds, reservePessimistic, casRead, casUpdate, At, TxInv, Starts, TxTypeOK
<1>2. CASE reservePessimistic(w)
  <2>1. CASE v \notin stocked /\ EndUnchanged(w, "OUT_OF_STOCK")
    BY <1>1, <2>1, ShortfallSteps DEF Fits
  <2>2. CASE levelLock[v] = NoWorker /\ Fits(w, v) /\ TakeLine(w, v)
    BY <1>1, <2>2, TakeLineKeeps
  <2>3. CASE ~Fits(w, v) /\ EndUnchanged(w, "OUT_OF_STOCK")
    BY <1>1, <2>3, ShortfallSteps
  <2> QED BY <1>2, <2>1, <2>2, <2>3 DEF reservePessimistic
<1>3. CASE casRead(w)
  <2>1. CASE ~Fits(w, v) /\ EndUnchanged(w, "OUT_OF_STOCK")
    BY <1>1, <2>1, ShortfallSteps
  <2>2. CASE EndUnchanged(w, "CONTENDED")
    BY <1>1, <2>2, ShortfallSteps
  <2>3. CASE tx' = [tx EXCEPT ![w].pc = "cas", ![w].seen = version[v]] /\ UNCHANGED <<vars, version, locks>>
    <3>1. v \in Variants
      BY <1>1, NextLineLeast DEF TxRecord
    <3>2. version[v] \in Int /\ tx[w].attempt \in Int
      BY <1>1, <3>1 DEF TxInv, TxTypeOK, TxRecord
    <3>3. Reconsiders(w, "cas", version[v], tx[w].attempt)
      BY <1>1, <2>3 DEF TxRecord, Reconsiders
    <3> QED BY <1>1, <3>2, <3>3, RetryKeeps
  <2> QED BY <1>3, <2>1, <2>2, <2>3 DEF casRead
<1>4. CASE casUpdate(w)
  <2>1. CASE levelLock[v] = NoWorker /\ Fits(w, v) /\ TakeLine(w, v)
    BY <1>1, <2>1, TakeLineKeeps
  <2>2. CASE tx' = [tx EXCEPT ![w].pc = "lines", ![w].attempt = @ + 1] /\ UNCHANGED <<vars, version, locks>>
    <3>1. tx[w].seen \in Int /\ tx[w].attempt + 1 \in Int
      BY <1>1 DEF TxRecord
    <3>2. Reconsiders(w, "lines", tx[w].seen, tx[w].attempt + 1)
      BY <1>1, <2>2 DEF TxRecord, Reconsiders
    <3> QED BY <1>1, <3>1, <3>2, RetryKeeps
  <2> QED BY <1>4, <2>1, <2>2 DEF casUpdate
<1> QED BY <1>2, <1>3, <1>4

LEMMA MoveLineSteps ==
  ASSUME TxInv, NEW w \in Workers, moveLine(w)
  PROVE  TxInv' /\ UNCHANGED vars
BY TakeLineKeeps DEF moveLine, At, Holds

-------------------------------------------------------------------------------
(***************************************************************************)
(* COMMIT: what the transaction decided on is still true, so its rows      *)
(* change as if the whole request had happened now.                        *)
(***************************************************************************)

(* Only the committing transaction's rows change. *)
LEMMA CommitDisturbsNone ==
  ASSUME TxInv, TypeOK, NEW w \in Workers, Commit(w), NEW x \in Workers \ {w}, Holds(x)
  PROVE  Undisturbed(x)
<1>1. Holds(w) /\ tx[w].order \in Orders /\ tx[x].order \in Orders /\ tx[x].moved \in SUBSET Variants
  BY DEF Commit, At, Holds, TxInv, Starts, TxTypeOK, TxRecord
<1>2. tx[x].order # tx[w].order
  BY <1>1 DEF TxInv, LocksMatch
<1>3. \A v \in tx[x].moved : v \in Variants /\ v \notin tx[w].moved
  BY <1>1 DEF TxInv, LocksMatch
<1>4. header'[tx[x].order] = header[tx[x].order] /\ line'[tx[x].order] = line[tx[x].order]
  BY <1>1, <1>2 DEF Commit, TypeOK
<1>5. \A v \in tx[x].moved : onHand'[v] = onHand[v] /\ reserved'[v] = reserved[v]
  BY <1>3 DEF Commit
<1> QED BY <1>4, <1>5 DEF Undisturbed, Commit

LEMMA CommitKeepsTxInv ==
  ASSUME TxInv, TypeOK, NEW w \in Workers, Commit(w)
  PROVE  TxInv'
<1>1. version' \in [Variants -> Int]
  BY DEF Commit, TxInv, TxTypeOK
<1>2. EndTx(w)
  BY DEF Commit
<1> QED BY <1>1, <1>2, CommitDisturbsNone, EndKeepsTxInv

(* A committed Try is TryReserve: its lines all fit, and still do. *)
LEMMA CommitTry ==
  ASSUME TxInv, TypeOK, NEW w \in Workers, Commit(w), ClaimsTry(w)
  PROVE  TryReserve(tx[w].order)
<1> DEFINE o == tx[w].order
<1>1. o \in Orders /\ header[o] = "NONE" /\ tx[w].moved = Lines(o) /\ tx[w].wrote = "HELD" /\ tx[w].op = "try"
  BY DEF Commit, At, TxInv, Starts, ClaimsTry, AllLines
<1>2. CanHold(o)
  BY <1>1 DEF ClaimsTry, CanHold
<1>3. line' = [line EXCEPT ![o] = [v \in Variants |-> IF v \in Lines(o) THEN "HELD" ELSE @[v]]]
  BY <1>1 DEF Commit
<1>4. reserved' = [v \in Variants |-> reserved[v] + Quantity[o][v]]
  <2>1. ASSUME NEW v \in Variants
        PROVE  (IF v \in Lines(o) THEN ReservedAfter(o, v, "HELD") ELSE reserved[v]) = reserved[v] + Quantity[o][v]
    <3>1. Quantity[o][v] \in Nat /\ reserved[v] \in Int
      BY <1>1, QuantityAssumption DEF TypeOK
    <3>2. CASE v \in Lines(o)
      BY <3>2 DEF ReservedAfter
    <3>3. CASE v \notin Lines(o)
      BY <3>1, <3>3 DEF Lines
    <3> QED BY <3>2, <3>3
  <2> QED BY <1>1, <2>1 DEF Commit
<1>5. onHand' = onHand
  <2>1. \A v \in Variants : (IF v \in Lines(o) THEN OnHandAfter(o, v, "HELD") ELSE onHand[v]) = onHand[v]
    BY DEF OnHandAfter
  <2> QED BY <1>1, <2>1 DEF Commit, TypeOK
<1>6. Answered(o, "try", "RESERVED")
  BY <1>1 DEF Commit
<1>7. header' = [header EXCEPT ![o] = "HELD"] /\ UNCHANGED <<stocked, lapsed>>
  BY <1>1 DEF Commit
<1> QED BY <1>1, <1>2, <1>3, <1>4, <1>5, <1>6, <1>7 DEF TryReserve

(* The lines in one status go to another, as in moveLines. *)
LEMMA CommitMoves ==
  ASSUME TypeOK, NEW w \in Workers, Commit(w), NEW o \in Orders, o = tx[w].order,
         NEW from, NEW to, to \in {"COMMITTED", "RELEASED", "RESTOCKED"},
         tx[w].moved = LinesIn(o, from),
         tx[w].wrote = to \/ tx[w].moved = {}
  PROVE  moveLines(o, from, to)
<1> DEFINE moved == LinesIn(o, from)
<1>1. moved = {v \in Variants : line[o][v] = from}
  BY DEF LinesIn
<1>2. line' = [line EXCEPT ![o] = [v \in Variants |-> IF v \in moved THEN to ELSE @[v]]]
  <2>1. CASE tx[w].wrote = to
    BY <2>1 DEF Commit
  <2>2. CASE tx[w].moved = {}
    BY <2>2 DEF Commit
  <2> QED BY <2>1, <2>2
<1>3. reserved' = [v \in Variants |->
        IF v \in moved /\ to \in {"COMMITTED", "RELEASED"} THEN reserved[v] - Quantity[o][v] ELSE reserved[v]]
  <2>1. CASE tx[w].wrote = to
    <3>1. \A v \in Variants : (IF v \in moved THEN ReservedAfter(o, v, to) ELSE reserved[v])
              = (IF v \in moved /\ to \in {"COMMITTED", "RELEASED"} THEN reserved[v] - Quantity[o][v] ELSE reserved[v])
      BY DEF ReservedAfter
    <3> QED BY <2>1, <3>1 DEF Commit
  <2>2. CASE tx[w].moved = {}
    BY <2>2 DEF Commit
  <2> QED BY <2>1, <2>2
<1>4. onHand' = [v \in Variants |->
        CASE v \in moved /\ to = "COMMITTED" -> onHand[v] - Quantity[o][v]
          [] v \in moved /\ to = "RESTOCKED" -> Min2(onHand[v] + Quantity[o][v], Int4Max)
          [] OTHER                           -> onHand[v]]
  <2>1. CASE tx[w].wrote = to
    <3>1. \A v \in Variants : (IF v \in moved THEN OnHandAfter(o, v, to) ELSE onHand[v])
              = CASE v \in moved /\ to = "COMMITTED" -> onHand[v] - Quantity[o][v]
                  [] v \in moved /\ to = "RESTOCKED" -> Min2(onHand[v] + Quantity[o][v], Int4Max)
                  [] OTHER                           -> onHand[v]
      BY DEF OnHandAfter
    <3> QED BY <2>1, <3>1 DEF Commit
  <2>2. CASE tx[w].moved = {}
    BY <2>2 DEF Commit
  <2> QED BY <2>1, <2>2
<1> QED BY <1>1, <1>2, <1>3, <1>4, ZenonT(60) DEF moveLines, Commit

LEMMA CommitSteps ==
  ASSUME TxInv, StockInv, NEW w \in Workers, Commit(w)
  PROVE  Next
<1> DEFINE o == tx[w].order
           op == tx[w].op
<1>1. TypeOK /\ LinesFollowHeader
  BY DEF StockInv
<1>2. o \in Orders /\ Claims(w) /\ AllLines(w) = tx[w].moved
  BY DEF TxInv, Starts, Holds, Commit, At, AllLines
<1>3. header' = [header EXCEPT ![o] = tx[w].wrote] /\ UNCHANGED lapsed
  BY DEF Commit
<1>4. op \in CommandOp => Answered(o, op, "APPLIED")
  BY DEF Commit, CommandOp
<1>5. CASE ClaimsTry(w)
  <2>1. TryReserve(o)
    BY <1>1, <1>5, CommitTry
  <2> QED BY <1>2, <2>1 DEF Next, OrderStep
<1>6. CASE ClaimsSweep(w)
  <2>1. moveLines(o, "HELD", "RELEASED")
    BY <1>1, <1>2, <1>6, CommitMoves DEF ClaimsSweep
  <2>2. ReleaseLapsedHold(o)
    BY <1>3, <1>6, <2>1 DEF ReleaseLapsedHold, ClaimsSweep, Commit
  <2> QED BY <1>2, <2>2 DEF Next, OrderStep
<1>7. CASE ClaimsFence(w)
  <2>1. \A v \in Variants : line[o][v] # "HELD"
    BY <1>1, <1>2, <1>7 DEF ClaimsFence, LinesFollowHeader, ReservationStatus
  <2>2. tx[w].moved = LinesIn(o, "HELD") /\ tx[w].moved = {}
    BY <1>2, <1>7, <2>1 DEF ClaimsFence, LinesIn
  <2>3. moveLines(o, "HELD", "RELEASED")
    BY <1>1, <1>2, <2>2, CommitMoves
  <2>4. /\ decideReservationFence("release", header[o]) = "apply"
        /\ FenceNext("release", header[o]) = "FENCED"
        /\ MovesFrom("release") = "HELD" /\ MovesTo("release") = "RELEASED"
    BY <1>7 DEF ClaimsFence, decideReservationFence, FenceNext, MovesFrom, MovesTo
  <2>5. CommandApplied("release", o)
    BY <1>3, <1>4, <1>7, <2>3, <2>4 DEF CommandApplied, ClaimsFence, CommandOp
  <2> QED BY <1>2, <2>5 DEF Next, OrderStep, CommandOp
<1>8. CASE ClaimsCommand(w)
  <2>1. op \in CommandOp /\ tx[w].wrote = FenceNext(op, header[o]) /\ header[o] # "NONE"
        /\ decideReservationFence(op, header[o]) = "apply" /\ tx[w].moved = LinesIn(o, MovesFrom(op))
    BY <1>2, <1>8 DEF ClaimsCommand
  <2>2. tx[w].wrote = MovesTo(op) /\ MovesTo(op) \in {"COMMITTED", "RELEASED", "RESTOCKED"}
    <3>1. \/ op = "commit" /\ FenceNext(op, header[o]) = "COMMITTED"
          \/ op = "release" /\ FenceNext(op, header[o]) = "RELEASED"
          \/ op = "restock" /\ FenceNext(op, header[o]) = "RESTOCKED"
      BY <2>1, FenceApplies
    <3> QED BY <2>1, <3>1 DEF MovesTo
  <2>3. moveLines(o, MovesFrom(op), MovesTo(op))
    BY <1>1, <1>2, <2>1, <2>2, CommitMoves
  <2>4. CommandApplied(op, o)
    BY <1>3, <1>4, <2>1, <2>3 DEF CommandApplied
  <2> QED BY <1>2, <2>1, <2>4 DEF Next, OrderStep
<1> QED BY <1>2, <1>5, <1>6, <1>7, <1>8 DEF Claims

(* Admin writes and the clock leave every transaction's rows alone: an     *)
(* admin write waits for the row lock.                                      *)
LEMMA OutsideSteps ==
  ASSUME TxInv, TypeOK,
         \/ \E v \in Variants : AdminWrite(v)
         \/ \E o \in Orders : Lapses(o)
  PROVE  TxInv' /\ Next
<1>1. ASSUME NEW v \in Variants, AdminWrite(v) PROVE TxInv' /\ Next
  <2>1. /\ AdminStep(v) /\ levelLock[v] = NoWorker /\ UNCHANGED <<headerLock, levelLock, tx>>
        /\ version' \in [Variants -> Int]
    BY <1>1 DEF AdminWrite, locks, TxInv, TxTypeOK
  <2>2. /\ UNCHANGED <<header, line, lapsed, reserved>>
        /\ \A u \in Variants \ {v} : onHand'[u] = onHand[u]
        /\ stocked \subseteq stocked'
    BY <2>1 DEF AdminStep, SetOnHand, AdjustOnHand, TopUp, TypeOK
  <2>3. ASSUME NEW x \in Workers, Holds(x) PROVE Undisturbed(x)
    <3>1. \A u \in tx[x].moved : u \in Variants /\ u # v
      BY <2>1, <2>3, VariantsAssumption DEF TxInv, LocksMatch, TxTypeOK, TxRecord
    <3> QED BY <2>2, <3>1 DEF Undisturbed
  <2>4. TxTypeOK' /\ LocksMatch'
    BY <2>1 DEF TxInv, TxTypeOK, LocksMatch, Holds
  <2>5. TxInv'
    BY <2>1, <2>3, <2>4, BystanderKeeps DEF TxInv
  <2> QED BY <2>1, <2>5 DEF Next
<1>2. ASSUME NEW o \in Orders, Lapses(o) PROVE TxInv' /\ Next
  <2>1. HoldLapses(o) /\ UNCHANGED <<version, headerLock, levelLock, tx>>
    BY <1>2 DEF Lapses, locks
  <2>2. \A x : tx[x].order \in Orders => Undisturbed(x)
    BY <2>1 DEF HoldLapses, Undisturbed, levels, TypeOK
  <2>3. \A x \in Workers : Holds(x) => Undisturbed(x)
    BY <2>2 DEF TxInv, Starts, Holds
  <2>4. TxTypeOK' /\ LocksMatch'
    BY <2>1 DEF TxInv, TxTypeOK, LocksMatch, Holds
  <2>5. TxInv'
    BY <2>1, <2>3, <2>4, BystanderKeeps DEF TxInv
  <2> QED BY <2>1, <2>5 DEF Next, OrderStep
<1> QED BY <1>1, <1>2

-------------------------------------------------------------------------------
(***************************************************************************)
(* The theorems.                                                           *)
(***************************************************************************)

(* Every step of the transactions keeps the invariant and is a step of     *)
(* Inventory, or one its callers do not see.                                *)
LEMMA TransactionStep ==
  ASSUME TxInv, StockInv, [TxNext]_txVars
  PROVE  TxInv' /\ StockInv' /\ [Next]_vars
<1>1. TypeOK
  BY DEF StockInv
<1>2. TxInv' /\ [Next]_vars
  <2>1. ASSUME NEW w \in Workers, NEW op \in TxOp, NEW o \in Orders, NEW strategy \in Strategies,
               Begin(w, op, o, strategy)
        PROVE  TxInv' /\ [Next]_vars
    BY <2>1, BeginSteps
  <2>2. ASSUME NEW w \in Workers, insertHeader(w) \/ insertFencedHeader(w) PROVE TxInv' /\ [Next]_vars
    BY <2>2, InsertSteps
  <2>3. ASSUME NEW w \in Workers, findHeaderForUpdate(w) PROVE TxInv' /\ [Next]_vars
    BY <2>3, FindHeaderSteps
  <2>4. ASSUME NEW w \in Workers, lockLapsedHeader(w) PROVE TxInv' /\ [Next]_vars
    BY <2>4, LockLapsedSteps
  <2>5. ASSUME NEW w \in Workers, reservePessimistic(w) \/ casRead(w) \/ casUpdate(w) PROVE TxInv' /\ [Next]_vars
    BY <2>5, ReserveSteps
  <2>6. ASSUME NEW w \in Workers, moveLine(w) PROVE TxInv' /\ [Next]_vars
    BY <2>6, MoveLineSteps
  <2>7. ASSUME NEW w \in Workers, Commit(w) PROVE TxInv' /\ [Next]_vars
    BY <1>1, <2>7, CommitKeepsTxInv, CommitSteps
  <2>8. ASSUME NEW w \in Workers, Rollback(w) PROVE TxInv' /\ [Next]_vars
    BY <2>8, RollbackSteps DEF Rollback
  <2>9. CASE (\E v \in Variants : AdminWrite(v)) \/ (\E o \in Orders : Lapses(o))
    BY <1>1, <2>9, OutsideSteps
  <2>10. CASE UNCHANGED txVars
    <3>1. UNCHANGED <<vars, version, headerLock, levelLock, tx>>
      BY <2>10 DEF txVars, locks
    <3>2. TxTypeOK' /\ LocksMatch'
      BY <3>1 DEF TxInv, TxTypeOK, LocksMatch, Holds
    <3>3. \A x : Undisturbed(x)
      BY <3>1, NoRowsUndisturb DEF vars
    <3> QED BY <3>1, <3>2, <3>3, BystanderKeeps DEF TxInv
  <2> QED
    BY <2>1, <2>2, <2>3, <2>4, <2>5, <2>6, <2>7, <2>8, <2>9, <2>10 DEF TxNext, Step
<1> QED BY <1>2, StepKeepsStock

LEMMA TxInitInv ==
  ASSUME TxInit
  PROVE  TxInv /\ StockInv
<1>1. Idle \in TxRecord
  BY DEF Idle, Started, TxRecord, Pc, ReservationOrderStatus
<1>2. TxTypeOK
  BY <1>1 DEF TxInit, TxTypeOK
<1>3. \A w \in Workers : ~Holds(w) /\ Starts(w)
  BY DEF TxInit, Holds, Starts, Idle, Started
<1>4. LocksMatch
  BY <1>3, VariantsAssumption DEF TxInit, LocksMatch
<1> QED BY <1>2, <1>3, <1>4, InitStock DEF TxInv, TxInit

(* The locks and what each transaction relies on stay true throughout.     *)
THEOREM TransactionsAreSafe == TxSpec => [](TxInv /\ StockInv)
<1>1. TxInit => TxInv /\ StockInv
  BY TxInitInv
<1>2. TxInv /\ StockInv /\ [TxNext]_txVars => (TxInv /\ StockInv)'
  BY TransactionStep
<1> QED BY <1>1, <1>2, PTL DEF TxSpec

(* Every transaction of inventory-service, opened up statement by statement *)
(* under READ COMMITTED, looks to its callers like one atomic step.         *)
THEOREM TransactionsAreAtomic == TxSpec => AtomicSpec
<1>1. TxInit => Init
  BY DEF TxInit
<1>2. TxInv /\ StockInv /\ [TxNext]_txVars => [Next]_vars
  BY TransactionStep
<1> QED BY <1>1, <1>2, TransactionsAreSafe, PTL DEF TxSpec, AtomicSpec, Spec

(* So no interleaving of statements oversells,                              *)
THEOREM TransactionsNeverOversell == TxSpec => []NoOversell
BY TransactionsAreAtomic, NeverOversold, PTL DEF AtomicSpec

(* leaks or double-counts a hold,                                           *)
THEOREM TransactionsAccountHolds == TxSpec => []HoldsAccounted
BY TransactionsAreAtomic, HoldsAlwaysAccounted, PTL DEF AtomicSpec

(* makes an answer false,                                                   *)
THEOREM TransactionsKeepAnswers == TxSpec => []AnswersStayTrue
BY TransactionsAreAtomic, AnswersAlwaysTrue, PTL DEF AtomicSpec

(* or makes or loses units.                                                 *)
THEOREM TransactionsConserveUnits == TxSpec => UnitsConserved
BY TransactionsAreAtomic, UnitsAreConserved, PTL DEF AtomicSpec

-------------------------------------------------------------------------------
(***************************************************************************)
(* No deadlock.  A transaction that waits for a header holds nothing, and  *)
(* the header's holder can wait only for a level; one that waits for a     *)
(* level waits for a line it has yet to do, whose holder has done it and   *)
(* has only higher ones to do.  So the highest line waited for in a finite *)
(* set of transactions is waited for in vain: its holder is outside.       *)
(***************************************************************************)

(* The transactions of S that wait for a level. *)
WaitsForLevel(w) ==
  \/ tx[w].pc = "cas"
  \/ tx[w].pc = "lines" /\ tx[w].todo # {} /\ tx[w].strategy # "optimistic"

(* Its holder waits for a level too, higher up, if it waits at all. *)
LEMMA LevelsAreTakenUpwards ==
  ASSUME TxInv, NEW w \in Workers, WaitsForLevel(w), NEW h \in Workers, BlockedBy(w) = h,
         WaitsForLevel(h)
  PROVE  NextLine(w) < NextLine(h)
<1>1. Holds(w) /\ Holds(h) /\ tx[w].todo # {} /\ tx[h].todo # {}
  BY DEF WaitsForLevel, Holds, TxInv, Starts
<1>2. tx[w].todo \in SUBSET Variants /\ tx[h].todo \in SUBSET Variants
  BY DEF TxInv, TxTypeOK, TxRecord
<1>3. NextLine(w) \in Variants /\ NextLine(h) \in tx[h].todo
  BY <1>1, <1>2, NextLineLeast
<1>4. levelLock[NextLine(w)] = h
  BY DEF BlockedBy, WaitsForLevel
<1>5. NextLine(w) \in tx[h].moved
  BY <1>3, <1>4 DEF TxInv, LocksMatch
<1> QED BY <1>1, <1>3, <1>5 DEF TxInv, Ascends

(* Whoever is waited for has written its header; if it waits it waits for  *)
(* a level.                                                                 *)
LEMMA HoldersWaitForLevels ==
  ASSUME TxInv, NEW w \in Workers, NEW h \in Workers, BlockedBy(w) = h
  PROVE  Holds(h) /\ (BlockedBy(h) # NoWorker => WaitsForLevel(h))
<1>1. tx[w].pc # "idle" => tx[w].order \in Orders
  BY DEF TxInv, Starts
<1>2. h # NoWorker
  BY VariantsAssumption
<1>3. CASE tx[w].pc \in {"insertHeader", "insertFenced", "findHeader"}
  <2>1. headerLock[tx[w].order] = h
    BY <1>2, <1>3 DEF BlockedBy
  <2>2. Holds(h)
    BY <1>1, <1>3, <2>1 DEF TxInv, LocksMatch
  <2> QED BY <2>2 DEF Holds, BlockedBy, WaitsForLevel
<1>4. CASE WaitsForLevel(w)
  <2>1. tx[w].todo # {} /\ tx[w].todo \in SUBSET Variants
    BY <1>4 DEF WaitsForLevel, TxInv, Starts, TxTypeOK, TxRecord
  <2>2. NextLine(w) \in Variants
    BY <2>1, NextLineLeast
  <2>3. levelLock[NextLine(w)] = h
    BY <1>4 DEF BlockedBy, WaitsForLevel
  <2>4. Holds(h)
    BY <2>2, <2>3 DEF TxInv, LocksMatch
  <2> QED BY <2>4 DEF Holds, BlockedBy, WaitsForLevel
<1>5. CASE ~WaitsForLevel(w) /\ tx[w].pc \notin {"insertHeader", "insertFenced", "findHeader"}
  BY <1>2, <1>5 DEF BlockedBy, WaitsForLevel
<1> QED BY <1>3, <1>4, <1>5

LEMMA NoCycle ==
  ASSUME TxInv
  PROVE  NoLockCycle
<1> SUFFICES ASSUME NEW S \in SUBSET Workers, S # {}, \A w \in S : BlockedBy(w) \in S
             PROVE  FALSE
  BY DEF NoLockCycle
<1> DEFINE W == {w \in S : WaitsForLevel(w)}
           Above(w) == {x \in W : NextLine(w) < NextLine(x)}
<1>1. \A w \in S : BlockedBy(w) \in W
  BY HoldersWaitForLevels, VariantsAssumption
<1>2. W # {}
  BY <1>1
<1>3. \A w \in W : NextLine(w) \in Nat
  <2>1. \A w \in W : tx[w].todo # {} /\ tx[w].todo \in SUBSET Variants
    BY DEF WaitsForLevel, TxInv, Starts, TxTypeOK, TxRecord
  <2> QED BY <2>1, NextLineLeast, VariantsAssumption
<1>4. \A w \in W : BlockedBy(w) \in W /\ NextLine(w) < NextLine(BlockedBy(w))
  BY <1>1, LevelsAreTakenUpwards
<1> DEFINE AboveSets == {Above(w) : w \in W}
           R == StrictSubsetOrdering(W)
<1>5. \E T \in AboveSets : \A U \in AboveSets : <<U, T>> \notin R
  <2>1. IsFiniteSet(W)
    BY WorkersAssumption, FS_Subset
  <2>2. IsWellFoundedOn(R, SUBSET W)
    BY <2>1, FS_StrictSubsetOrderingWellFounded, FS_FiniteSubsetsOfFinite
  <2>3. AboveSets \subseteq SUBSET W /\ AboveSets # {}
    BY <1>2
  <2> HIDE DEF AboveSets, R
  <2> QED BY <2>2, <2>3, WFMin
<1>6. PICK w \in W : \A x \in W : <<Above(x), Above(w)>> \notin R
  BY <1>5
<1> DEFINE h == BlockedBy(w)
<1>7. h \in W /\ NextLine(w) < NextLine(h)
  BY <1>4
<1>8. Above(h) \subseteq Above(w)
  BY <1>3, <1>7
<1>9. h \in Above(w) /\ h \notin Above(h)
  BY <1>3, <1>7
<1>10. <<Above(h), Above(w)>> \in R
  BY <1>8, <1>9 DEF StrictSubsetOrdering
<1> QED BY <1>6, <1>7, <1>10

(* However the lines of their orders overlap, the transactions never wait  *)
(* only for one another.                                                    *)
THEOREM TransactionsNeverDeadlock == TxSpec => []NoLockCycle
<1>1. TxInv => NoLockCycle
  BY NoCycle
<1> QED BY <1>1, TransactionsAreSafe, PTL
================================================================================
