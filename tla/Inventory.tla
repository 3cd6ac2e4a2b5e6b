------------------------------- MODULE Inventory ------------------------------
(***************************************************************************)
(* inventory-service, seen from its callers: every request is one          *)
(* transaction, and a transaction is one atomic step.  StockTransactions   *)
(* opens the transactions up, statement by statement, and is checked to    *)
(* implement this module.                                                  *)
(*                                                                         *)
(* Time enters only through `lapsed`: an order's hold_until is fixed when  *)
(* the order is placed, so it is a flag that turns on once.                *)
(***************************************************************************)
EXTENDS Integers, FiniteSets, ReservationFence

CONSTANTS
  Orders,          \* orders that reach the participant API
  Variants,        \* SKUs
  Quantity,        \* Quantity[o][v]: units of v the order asks for, 0 = no line
  MaxQuantity,     \* the largest of them
  MaxStockOnHand,  \* MAX_STOCK_ON_HAND, the ceiling of the admin endpoints
  Int4Max,         \* INT4_MAX, what the quantity columns can hold
  SeededOnHand     \* SEEDED_ON_HAND, what the top-up gives a variant with no row

ASSUME OrdersAssumption == IsFiniteSet(Orders)

(* TryReservationDto: every line has a quantity of at least 1 and a variant *)
(* is named once, so a request is a function of the variant.                *)
ASSUME QuantityAssumption ==
  /\ MaxQuantity \in Nat
  /\ Quantity \in [Orders -> [Variants -> 0 .. MaxQuantity]]

ASSUME LimitsAssumption ==
  /\ MaxStockOnHand \in Nat
  /\ Int4Max \in Nat
  /\ MaxStockOnHand <= Int4Max
  /\ SeededOnHand \in 0 .. MaxStockOnHand

VARIABLES
  header,    \* reservation_orders.status
  line,      \* reservations.status per (order, variant)
  stocked,   \* the variants that have a row in stock_levels
  onHand,    \* stock_levels.quantity_on_hand
  reserved,  \* stock_levels.quantity_reserved
  lapsed,    \* hold_until is in the past
  done       \* history: the commands the order was told have taken effect

levels == <<stocked, onHand, reserved>>
vars == <<header, line, stocked, onHand, reserved, lapsed, done>>

ReservationStatus == {"HELD", "COMMITTED", "RELEASED", "RESTOCKED"}

(* The outcomes of tryReserve and of a command; only those in TakenEffect   *)
(* tell the caller that the order's stock is where the command puts it.     *)
Outcome == {"RESERVED", "OUT_OF_STOCK", "CONTENDED", "CONFLICT", "APPLIED", "IDEMPOTENT"}
TakenEffect == {"RESERVED", "APPLIED", "IDEMPOTENT"}

(* The lines of an order's request. *)
Lines(o) == {v \in Variants : Quantity[o][v] > 0}

Available(v) == onHand[v] - reserved[v]

Min2(a, b) == IF a <= b THEN a ELSE b

(* The request is answered; the answer may be lost on the way, but it was given. *)
Answered(o, op, outcome) ==
  done' = [done EXCEPT ![o] = IF outcome \in TakenEffect THEN @ \cup {op} ELSE @]

Init ==
  /\ header = [o \in Orders |-> "NONE"]
  /\ line = [o \in Orders |-> [v \in Variants |-> "NONE"]]
  /\ stocked = {}
  /\ onHand = [v \in Variants |-> 0]
  /\ reserved = [v \in Variants |-> 0]
  /\ lapsed = [o \in Orders |-> FALSE]
  /\ done = [o \in Orders |-> {}]

-------------------------------------------------------------------------------
(***************************************************************************)
(* Commands of the checkout saga.                                          *)
(***************************************************************************)

(* Whether every line of the order can be held now. *)
CanHold(o) == \A v \in Lines(o) : v \in stocked /\ Available(v) >= Quantity[o][v]

(* The Try that wins the header: all lines are held, in one transaction. *)
TryReserve(o) ==
  /\ header[o] = "NONE"
  /\ CanHold(o)
  /\ header' = [header EXCEPT ![o] = "HELD"]
  /\ line' = [line EXCEPT ![o] = [v \in Variants |-> IF v \in Lines(o) THEN "HELD" ELSE @[v]]]
  /\ reserved' = [v \in Variants |-> reserved[v] + Quantity[o][v]]
  /\ Answered(o, "try", "RESERVED")
  /\ UNCHANGED <<stocked, onHand, lapsed>>

(* A Try that holds nothing: a shortfall rolls its header back, as does the *)
(* optimistic strategy running out of retries; an existing header is        *)
(* answered by the fence.                                                   *)
TryRefused(o) ==
  /\ \/ header[o] = "NONE" /\ ~CanHold(o) /\ Answered(o, "try", "OUT_OF_STOCK")
     \/ header[o] = "NONE" /\ Answered(o, "try", "CONTENDED")
     \/ /\ header[o] # "NONE"
        /\ Answered(o, "try", IF decideReservationFence("try", header[o]) = "conflict"
                              THEN "CONFLICT" ELSE "RESERVED")
  /\ UNCHANGED <<header, line, levels, lapsed>>

(* moveLines: every line in status `from` goes to `to` and its units move. *)
moveLines(o, from, to) ==
  LET moved == {v \in Variants : line[o][v] = from} IN
  /\ line' = [line EXCEPT ![o] = [v \in Variants |-> IF v \in moved THEN to ELSE @[v]]]
  /\ reserved' = [v \in Variants |->
       IF v \in moved /\ to \in {"COMMITTED", "RELEASED"}
       THEN reserved[v] - Quantity[o][v] ELSE reserved[v]]
  /\ onHand' = [v \in Variants |->
       CASE v \in moved /\ to = "COMMITTED" -> onHand[v] - Quantity[o][v]
         [] v \in moved /\ to = "RESTOCKED" -> Min2(onHand[v] + Quantity[o][v], Int4Max)
         [] OTHER                           -> onHand[v]]
  /\ UNCHANGED stocked

(* The line statuses a command moves between. *)
MovesFrom(op) == IF op = "restock" THEN "COMMITTED" ELSE "HELD"
MovesTo(op) ==
  CASE op = "commit" -> "COMMITTED" [] op = "release" -> "RELEASED" [] op = "restock" -> "RESTOCKED"

(* A command the fence lets through.  Release of an order that has no header *)
(* inserts a FENCED one and finds no lines to move.                          *)
CommandApplied(op, o) ==
  /\ decideReservationFence(op, header[o]) = "apply"
  /\ header' = [header EXCEPT ![o] = FenceNext(op, header[o])]
  /\ moveLines(o, MovesFrom(op), MovesTo(op))
  /\ Answered(o, op, "APPLIED")
  /\ UNCHANGED lapsed

(* A command the fence answers without touching anything. *)
CommandAnswered(op, o) ==
  LET kind == decideReservationFence(op, header[o]) IN
  /\ kind # "apply"
  /\ Answered(o, op, IF kind = "idempotent" THEN "IDEMPOTENT" ELSE "CONFLICT")
  /\ UNCHANGED <<header, line, levels, lapsed>>

-------------------------------------------------------------------------------
(***************************************************************************)
(* The clock, the sweep of lapsed holds and the admin endpoints.           *)
(***************************************************************************)

HoldLapses(o) ==
  /\ ~lapsed[o]
  /\ lapsed' = [lapsed EXCEPT ![o] = TRUE]
  /\ UNCHANGED <<header, line, levels, done>>

ReleaseLapsedHold(o) ==
  /\ header[o] = "HELD" /\ lapsed[o]
  /\ moveLines(o, "HELD", "RELEASED")
  /\ header' = [header EXCEPT ![o] = "RELEASED"]
  /\ UNCHANGED <<lapsed, done>>

(* PUT of a level: upsert; the CHECK constraints refuse one below the holds. *)
SetOnHand(v, q) ==
  /\ q >= reserved[v]
  /\ stocked' = stocked \cup {v}
  /\ onHand' = [onHand EXCEPT ![v] = q]
  /\ UNCHANGED <<header, line, reserved, lapsed, done>>

(* Defect: the ceiling is not checked. *)
AdjustUncapped(v, delta) ==
  /\ v \in stocked
  /\ onHand[v] + delta >= reserved[v]
  /\ onHand' = [onHand EXCEPT ![v] = @ + delta]
  /\ UNCHANGED <<header, line, stocked, reserved, lapsed, done>>

(* POST of an adjustment: needs the row, the ceiling and the CHECKs. *)
AdjustOnHand(v, delta) ==
  /\ v \in stocked
  /\ onHand[v] + delta <= MaxStockOnHand
  /\ onHand[v] + delta >= reserved[v]
  /\ onHand' = [onHand EXCEPT ![v] = @ + delta]
  /\ UNCHANGED <<header, line, stocked, reserved, lapsed, done>>

(* The top-up seeds the variants that have no row and no others. *)
TopUp(v) ==
  /\ v \notin stocked
  /\ stocked' = stocked \cup {v}
  /\ onHand' = [onHand EXCEPT ![v] = SeededOnHand]
  /\ UNCHANGED <<header, line, reserved, lapsed, done>>

AdminStep(v) ==
  \/ \E q \in 0 .. MaxStockOnHand : SetOnHand(v, q)
  \/ \E delta \in (-MaxStockOnHand .. MaxStockOnHand) \ {0} : AdjustOnHand(v, delta)
  \/ TopUp(v)

OrderStep(o) ==
  \/ TryReserve(o)
  \/ TryRefused(o)
  \/ \E op \in CommandOp : CommandApplied(op, o) \/ CommandAnswered(op, o)
  \/ HoldLapses(o)
  \/ ReleaseLapsedHold(o)

Next == (\E o \in Orders : OrderStep(o)) \/ (\E v \in Variants : AdminStep(v))

Spec == Init /\ [][Next]_vars

-------------------------------------------------------------------------------
(* The rows hold statuses of their enums and quantities their columns can   *)
(* hold: no decrement goes below zero and no increment past INT4_MAX.       *)
TypeOK ==
  /\ header \in [Orders -> ReservationOrderStatus]
  /\ line \in [Orders -> [Variants -> ReservationStatus \cup {"NONE"}]]
  /\ stocked \in SUBSET Variants
  /\ onHand \in [Variants -> 0 .. Int4Max]
  /\ reserved \in [Variants -> 0 .. Int4Max]
  /\ lapsed \in [Orders -> BOOLEAN]
  /\ done \in [Orders -> SUBSET ReservationFenceOp]

(* The units of v that the lines in the given status stand for: the k-th of *)
(* the Quantity[o][v] units of order o is the pair <<o, k>>.                *)
UnitsOf(lines, v, status) ==
  {u \in Orders \X (1 .. MaxQuantity) :
     lines[u[1]][v] = status /\ u[2] <= Quantity[u[1]][v]}

UnitsIn(v, status) == UnitsOf(line, v, status)

(* quantity_reserved is exactly the units of the HELD lines: no retry,      *)
(* sweep or race of two commands moves a hold's units twice or leaks them.  *)
HoldsAccounted == \A v \in Variants : reserved[v] = Cardinality(UnitsIn(v, "HELD"))

(* Never oversell: the units promised to orders never exceed the units on   *)
(* hand, whatever the admins do meanwhile.                                  *)
NoOversell == \A v \in Variants : reserved[v] <= onHand[v]

(* An order's lines all share the fate its header records; an order whose   *)
(* header is FENCED or missing has no line at all.                          *)
LinesFollowHeader ==
  \A o \in Orders, v \in Variants :
    line[o][v] = IF v \in Lines(o) /\ header[o] \in ReservationStatus
                 THEN header[o] ELSE "NONE"

(* Answers stay true: once a release has been answered as done the order    *)
(* holds nothing, now and after any late Try or commit; once a commit has   *)
(* been answered as done the units are gone until restocked; a Try answered *)
(* RESERVED was not a hold the fence had already refused.                   *)
AnswersStayTrue ==
  \A o \in Orders :
    /\ "try" \in done[o] => header[o] \in ReservationStatus
    /\ "commit" \in done[o] => header[o] \in {"COMMITTED", "RESTOCKED"}
    /\ "release" \in done[o] => header[o] \in {"RELEASED", "FENCED"}
    /\ "restock" \in done[o] => header[o] = "RESTOCKED"

(* Units are conserved: what is on hand plus what is sold changes only by   *)
(* an admin's hand, or is lost by a restock that meets the column's width.  *)
UnitsConserved ==
  [][\A v \in Variants :
       \/ onHand'[v] + Cardinality(UnitsIn(v, "COMMITTED"))' =
            onHand[v] + Cardinality(UnitsIn(v, "COMMITTED"))
       \/ /\ onHand'[v] = Int4Max
          /\ onHand'[v] + Cardinality(UnitsIn(v, "COMMITTED"))' <
               onHand[v] + Cardinality(UnitsIn(v, "COMMITTED"))
       \/ AdminStep(v)]_vars
===============================================================================
