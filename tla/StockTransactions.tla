--------------------------- MODULE StockTransactions --------------------------
(***************************************************************************)
(* The transactions of inventory-service, one step per SQL statement that  *)
(* can wait for a lock.  Transactions run under READ COMMITTED: a          *)
(* statement sees what is committed (and what its own transaction wrote),  *)
(* a row a transaction wrote or selected FOR UPDATE stays locked until it  *)
(* ends, and nothing it wrote is seen before it commits.  A transaction's  *)
(* writes to stock levels are relative and its rows locked, so they are    *)
(* kept as the set of lines it moved and take effect at its commit.        *)
(*                                                                         *)
(* The module implements Inventory, where each request is one step.        *)
(***************************************************************************)
EXTENDS Inventory

CONSTANTS
  Workers,    \* concurrent transactions
  NoWorker,   \* the holder of a free lock
  Strategies, \* inventory.lockStrategy of the running processes
  MaxRetries, \* inventory.optimisticMaxRetries
  MaxVersion  \* bound: admin writes stop when a row's version gets here

ASSUME StrategyAssumption == Strategies \subseteq {"pessimistic", "optimistic"}
(* A process has a fixed pool of connections, and there are so many processes. *)
ASSUME WorkersAssumption == IsFiniteSet(Workers)
ASSUME RetriesAssumption == MaxRetries \in Nat /\ MaxVersion \in Nat
(* Variants are numbers, so that `variantId` ascending is the order <=. *)
ASSUME VariantsAssumption == Variants \subseteq Nat /\ NoWorker \notin Workers

(* The variables of Inventory are the committed rows. *)
VARIABLES
  version,     \* stock_levels.version, committed
  headerLock,  \* the transaction holding the order's header row, or inserting it
  levelLock,   \* the transaction holding the variant's stock row
  tx           \* what each worker is doing

locks == <<headerLock, levelLock>>
txVars == <<vars, version, locks, tx>>

(* A transaction that has done nothing yet. *)
Started(pc, op, o, strategy) ==
  [pc |-> pc, op |-> op, order |-> o, todo |-> {}, moved |-> {},
   wrote |-> "NONE", seen |-> 0, attempt |-> 0, strategy |-> strategy]

Idle == Started("idle", "none", "none", "none")

TxOp == ReservationFenceOp \cup {"sweep"}

TxInit ==
  /\ Init
  /\ version = [v \in Variants |-> 0]
  /\ headerLock = [o \in Orders |-> NoWorker]
  /\ levelLock = [v \in Variants |-> NoWorker]
  /\ tx = [w \in Workers |-> Idle]

-------------------------------------------------------------------------------
(* The lines still to do are taken in ascending order of variant: the       *)
(* reserve paths and moveLines each sort their own.                         *)
ReserveNext(todo) == CHOOSE v \in todo : \A u \in todo : v <= u

(* Defect: moveLines takes the lines in another order than the reserve paths. *)
MoveNextDescending(todo) == CHOOSE v \in todo : \A u \in todo : u <= v

MoveNext(todo) == CHOOSE v \in todo : \A u \in todo : v <= u

NextLine(w) == IF tx[w].op = "try" THEN ReserveNext(tx[w].todo) ELSE MoveNext(tx[w].todo)

LinesIn(o, status) == {v \in Variants : line[o][v] = status}

At(w, pc) == tx[w].pc = pc
Goto(w, pc) == tx' = [tx EXCEPT ![w].pc = pc]

(* The end of a transaction, by COMMIT or ROLLBACK: its locks go with it. *)
EndTx(w) ==
  /\ headerLock' = [o \in Orders |-> IF headerLock[o] = w THEN NoWorker ELSE headerLock[o]]
  /\ levelLock' = [v \in Variants |-> IF levelLock[v] = w THEN NoWorker ELSE levelLock[v]]
  /\ tx' = [tx EXCEPT ![w] = Idle]

(* A transaction that ends having written nothing, with its answer. *)
EndUnchanged(w, outcome) ==
  /\ EndTx(w)
  /\ Answered(tx[w].order, tx[w].op, outcome)
  /\ UNCHANGED <<header, line, stocked, onHand, reserved, lapsed, version>>

(* A request arrives at a process, whose configuration fixes the strategy   *)
(* of a Try.  The sweep picks its order from an unlocked read.              *)
Begin(w, op, o, strategy) ==
  /\ At(w, "idle")
  /\ op = "sweep" => header[o] = "HELD" /\ lapsed[o]
  /\ tx' = [tx EXCEPT ![w] = Started(
       CASE op = "try" -> "insertHeader" [] op = "sweep" -> "lockLapsed" [] OTHER -> "findHeader",
       op, o, IF op = "try" THEN strategy ELSE "none")]
  /\ UNCHANGED <<vars, version, locks>>

(* INSERT ... ON CONFLICT DO NOTHING of the header: waits for another       *)
(* transaction's uncommitted insert, loses to a committed row.              *)
InsertHeaderRow(w, status, todo, lost) ==
  LET o == tx[w].order IN
  \/ /\ header[o] = "NONE" /\ headerLock[o] = NoWorker
     /\ headerLock' = [headerLock EXCEPT ![o] = w]
     /\ tx' = [tx EXCEPT ![w].pc = "lines", ![w].wrote = status, ![w].todo = todo]
     /\ UNCHANGED <<vars, version, levelLock>>
  \/ /\ header[o] # "NONE"
     /\ Goto(w, lost)
     /\ UNCHANGED <<vars, version, locks>>

insertHeader(w) ==
  /\ At(w, "insertHeader")
  /\ InsertHeaderRow(w, "HELD", Lines(tx[w].order), "findHeader")

insertFencedHeader(w) ==
  /\ At(w, "insertFenced")
  /\ InsertHeaderRow(w, "FENCED", {}, "findHeader")

(* SELECT ... FOR UPDATE of the header and what the fence makes of it.  A   *)
(* row another transaction has only inserted is not there yet.              *)
findHeaderForUpdate(w) ==
  LET o == tx[w].order
      op == tx[w].op
      decision == decideReservationFence(op, header[o])
  IN
  /\ At(w, "findHeader")
  /\ \/ /\ header[o] = "NONE"
        /\ \/ op = "release" /\ Goto(w, "insertFenced") /\ UNCHANGED <<vars, version, locks>>
           \/ op \in {"commit", "restock"} /\ EndUnchanged(w, "CONFLICT")
     \/ /\ header[o] # "NONE" /\ headerLock[o] = NoWorker
        /\ \/ op = "try" /\ EndUnchanged(w, IF decision = "conflict" THEN "CONFLICT" ELSE "RESERVED")
           \/ /\ op # "try" /\ decision # "apply"
              /\ EndUnchanged(w, IF decision = "idempotent" THEN "IDEMPOTENT" ELSE "CONFLICT")
           \/ /\ op # "try" /\ decision = "apply"
              /\ headerLock' = [headerLock EXCEPT ![o] = w]
              /\ tx' = [tx EXCEPT ![w].pc = "lines", ![w].wrote = FenceNext(op, header[o]),
                                  ![w].todo = LinesIn(o, MovesFrom(op))]
              /\ UNCHANGED <<vars, version, levelLock>>

(* Defect: the sweep leaves the lines. *)
LapsedLinesKept(o) == {}

(* The lines a sweep releases. *)
LapsedLines(o) == LinesIn(o, "HELD")

(* The sweep's SELECT ... FOR UPDATE SKIP LOCKED re-checks what it read. *)
lockLapsedHeader(w) ==
  LET o == tx[w].order
      got == header[o] = "HELD" /\ lapsed[o] /\ headerLock[o] = NoWorker
  IN
  /\ At(w, "lockLapsed")
  /\ \/ /\ got
        /\ headerLock' = [headerLock EXCEPT ![o] = w]
        /\ tx' = [tx EXCEPT ![w].pc = "lines", ![w].wrote = "RELEASED", ![w].todo = LapsedLines(o)]
        /\ UNCHANGED <<vars, version, levelLock>>
     \/ ~got /\ EndTx(w) /\ UNCHANGED <<vars, version>>

-------------------------------------------------------------------------------
(* The next line's stock row is locked and its change noted. *)
TakeLine(w, v) ==
  /\ levelLock' = [levelLock EXCEPT ![v] = w]
  /\ tx' = [tx EXCEPT ![w].pc = "lines", ![w].todo = @ \ {v}, ![w].moved = @ \cup {v}, ![w].attempt = 0]
  /\ UNCHANGED <<vars, version, headerLock>>

Fits(w, v) == v \in stocked /\ Available(v) >= Quantity[tx[w].order][v]

(* Defect: the stock row is read without FOR UPDATE. *)
reserveUnlocked(w) ==
  LET v == NextLine(w) IN
  /\ tx[w].strategy = "pessimistic"
  /\ At(w, "lines") /\ tx[w].op = "try" /\ tx[w].todo # {}
  /\ IF Fits(w, v) THEN TakeLine(w, v) ELSE EndUnchanged(w, "OUT_OF_STOCK")

(* SELECT ... FOR UPDATE of the stock row, the check under the lock, the hold. *)
reservePessimistic(w) ==
  LET v == NextLine(w) IN
  /\ tx[w].strategy = "pessimistic"
  /\ At(w, "lines") /\ tx[w].op = "try" /\ tx[w].todo # {}
  /\ \/ v \notin stocked /\ EndUnchanged(w, "OUT_OF_STOCK")
     \/ /\ v \in stocked /\ levelLock[v] = NoWorker
        /\ IF Fits(w, v) THEN TakeLine(w, v) ELSE EndUnchanged(w, "OUT_OF_STOCK")

(* casReserve, first statement: an unlocked read of level and version. *)
casRead(w) ==
  LET v == NextLine(w) IN
  /\ tx[w].strategy = "optimistic"
  /\ At(w, "lines") /\ tx[w].op = "try" /\ tx[w].todo # {}
  /\ \/ ~Fits(w, v) /\ EndUnchanged(w, "OUT_OF_STOCK")
     \/ Fits(w, v) /\ tx[w].attempt > MaxRetries /\ EndUnchanged(w, "CONTENDED")
     \/ /\ Fits(w, v) /\ tx[w].attempt <= MaxRetries
        /\ tx' = [tx EXCEPT ![w].pc = "cas", ![w].seen = version[v]]
        /\ UNCHANGED <<vars, version, locks>>

(* casReserve, second statement: the guarded UPDATE waits for the row, then *)
(* takes it only at the version that was read.                              *)
casUpdate(w) ==
  LET v == NextLine(w) IN
  /\ At(w, "cas")
  /\ levelLock[v] = NoWorker
  /\ IF version[v] = tx[w].seen /\ Fits(w, v)
     THEN TakeLine(w, v)
     ELSE /\ tx' = [tx EXCEPT ![w].pc = "lines", ![w].attempt = @ + 1]
          /\ UNCHANGED <<vars, version, locks>>

(* One line of a commit, release, restock or sweep. *)
moveLine(w) ==
  LET v == NextLine(w) IN
  /\ At(w, "lines") /\ tx[w].op # "try" /\ tx[w].todo # {}
  /\ levelLock[v] = NoWorker
  /\ TakeLine(w, v)

(* Defect: a commit leaves the hold's units reserved. *)
ReservedKept(o, v, to) ==
  CASE to = "HELD" -> reserved[v] + Quantity[o][v] [] to = "RELEASED" -> reserved[v] - Quantity[o][v]
    [] OTHER -> reserved[v]

(* What a moved line makes of its level's reserved units and units on hand. *)
ReservedAfter(o, v, to) ==
  CASE to = "HELD"                      -> reserved[v] + Quantity[o][v]
    [] to \in {"COMMITTED", "RELEASED"} -> reserved[v] - Quantity[o][v]
    [] OTHER                            -> reserved[v]

(* Defect: a commit does not take the units away. *)
OnHandKept(o, v, to) ==
  IF to = "RESTOCKED" THEN Min2(onHand[v] + Quantity[o][v], Int4Max) ELSE onHand[v]

OnHandAfter(o, v, to) ==
  CASE to = "COMMITTED" -> onHand[v] - Quantity[o][v]
    [] to = "RESTOCKED" -> Min2(onHand[v] + Quantity[o][v], Int4Max)
    [] OTHER            -> onHand[v]

(* COMMIT: the header, the moved lines and their levels, all at once. *)
Commit(w) ==
  LET o == tx[w].order
      to == tx[w].wrote
      moved == tx[w].moved
  IN
  /\ At(w, "lines") /\ tx[w].todo = {}
  /\ header' = [header EXCEPT ![o] = to]
  /\ line' = [line EXCEPT ![o] = [v \in Variants |-> IF v \in moved THEN to ELSE @[v]]]
  /\ reserved' = [v \in Variants |-> IF v \in moved THEN ReservedAfter(o, v, to) ELSE reserved[v]]
  /\ onHand' = [v \in Variants |-> IF v \in moved THEN OnHandAfter(o, v, to) ELSE onHand[v]]
  /\ version' = [v \in Variants |-> IF v \in moved THEN version[v] + 1 ELSE version[v]]
  /\ IF tx[w].op = "sweep" THEN done' = done
     ELSE Answered(o, tx[w].op, IF tx[w].op = "try" THEN "RESERVED" ELSE "APPLIED")
  /\ EndTx(w)
  /\ UNCHANGED <<stocked, lapsed>>

(* The lock budget or the deadline runs out, or the service stops: the      *)
(* transaction rolls back and the caller gets no outcome.                   *)
Rollback(w) ==
  /\ ~At(w, "idle")
  /\ EndTx(w)
  /\ UNCHANGED <<vars, version>>

(* Admin writes are one statement each, waiting for the row like any other. *)
AdminWrite(v) ==
  /\ levelLock[v] = NoWorker
  /\ version[v] < MaxVersion
  /\ AdminStep(v)
  /\ version' = [version EXCEPT ![v] = IF v \in stocked THEN @ + 1 ELSE @]
  /\ UNCHANGED <<locks, tx>>

Lapses(o) == HoldLapses(o) /\ UNCHANGED <<version, locks, tx>>

Step(w) ==
  \/ insertHeader(w)
  \/ insertFencedHeader(w)
  \/ findHeaderForUpdate(w)
  \/ lockLapsedHeader(w)
  \/ reservePessimistic(w)
  \/ casRead(w)
  \/ casUpdate(w)
  \/ moveLine(w)
  \/ Commit(w)

TxNext ==
  \/ \E w \in Workers :
       \/ \E op \in TxOp, o \in Orders, strategy \in Strategies : Begin(w, op, o, strategy)
       \/ Step(w)
       \/ Rollback(w)
  \/ \E v \in Variants : AdminWrite(v)
  \/ \E o \in Orders : Lapses(o)

TxSpec == TxInit /\ [][TxNext]_txVars

-------------------------------------------------------------------------------
(* The row lock a worker is waiting for, by its holder. *)
BlockedBy(w) ==
  LET o == tx[w].order
      v == NextLine(w)
  IN CASE tx[w].pc \in {"insertHeader", "insertFenced"} /\ header[o] = "NONE"   -> headerLock[o]
       [] tx[w].pc = "findHeader" /\ header[o] # "NONE"                         -> headerLock[o]
       [] \/ tx[w].pc = "cas"
          \/ tx[w].pc = "lines" /\ tx[w].todo # {} /\ tx[w].strategy # "optimistic"
                                                                                -> levelLock[v]
       [] OTHER                                                                 -> NoWorker

(* No deadlock: no set of transactions waits only for one another, however  *)
(* the lines of their orders overlap.  Locks are taken header first, then   *)
(* levels by ascending variant, on the reserve path and the resolve path.   *)
NoLockCycle ==
  \A S \in (SUBSET Workers) \ {{}} : \E w \in S : BlockedBy(w) \notin S

(* Every transaction is, to its callers, one atomic step of Inventory: the  *)
(* fence and the stock checks are still true when the transaction commits.  *)
AtomicSpec == Spec
===============================================================================
