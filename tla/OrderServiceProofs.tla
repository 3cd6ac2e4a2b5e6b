-------------------------- MODULE OrderServiceProofs ---------------------------
(***************************************************************************)
(* order-service around the saga: its idempotent checkout, the process it  *)
(* runs in, the breakers of its calls and the times its settings allow.    *)
(*                                                                         *)
(* For any number of concurrent requests, keys and orders a key places at  *)
(* most one order, every 201 under it names that order, and the user never *)
(* has more orders in flight than the cap (Spec, of CheckoutGate).  The    *)
(* process drains before it tears down (Process), a refused call was never *)
(* asked (Breaker), and no setting that boots lets a hold lapse under a    *)
(* saga that waits (Timing).                                               *)
(***************************************************************************)
EXTENDS CheckoutGate, MCServiceProcess, FiniteSetTheorems, TLAPS

-------------------------------------------------------------------------------
(* The idempotent checkout *)

RowStatus == {"none", "IN_PROGRESS", "COMPLETED"}
OrderStatus == {"none", "RESERVING", "PENDING", "SETTLED", "REJECTED", "deleted"}
Pc == {"idle", "find", "findAgain", "insert", "reinsert", "reclaim", "create", "failed",
       "reserve", "reserveAgain", "replay"}

Row == [status : RowStatus, claim : Nat, order : Nat]
Order == [status : OrderStatus, key : Keys \union {NoKey}, placedUnder : Keys \union {NoKey}]
Request == [pc : Pc, key : Keys \union {NoKey}, claim : Nat, order : Nat]

TypeInv ==
    /\ row \in [Keys -> Row]
    /\ claims \in Nat
    /\ order \in [Orders -> Order]
    /\ request \in [Requests -> Request]
    /\ answers \in [Keys -> SUBSET Orders]

----------------------------------------------------------------------------
\* The inductive invariant. The order row is what makes a key's order unique: an order carries its
\* key from its creation until it is rejected, and two orders never carry the same one. The answers,
\* the frozen rows and the requests about to answer only ever name the placed order that carries
\* the key.

\* An order carries the key it was placed under exactly while it can still be the key's order.
Carries(o) ==
    IF order[o].status \in PlacedStatus \union {"RESERVING"}
    THEN order[o].key \in Keys /\ order[o].key = order[o].placedUnder
    ELSE order[o].key = NoKey

KeysUnique == \A o, p \in Orders : order[o].key \in Keys /\ order[o].key = order[p].key => o = p

\* o is the placed order of key k.
Names(k, o) == o \in Orders /\ order[o].status \in PlacedStatus /\ order[o].key = k

AnswersName == \A k \in Keys : \A o \in answers[k] : Names(k, o)

RowsName == \A k \in Keys : row[k].status = "COMPLETED" => Names(k, row[k].order)

\* What a request remembers of its order.
Knows(r) ==
    /\ request[r].pc # "idle" => request[r].key \in Keys
    /\ request[r].pc \in {"reserve", "reserveAgain"} =>
         /\ request[r].order \in Orders
         /\ order[request[r].order].status # "none"
         /\ order[request[r].order].placedUnder = request[r].key
    /\ request[r].pc = "replay" => Names(request[r].key, request[r].order)

GateInv ==
    /\ TypeInv
    /\ \A o \in Orders : Carries(o)
    /\ KeysUnique
    /\ AnswersName
    /\ RowsName
    /\ \A r \in Requests : Knows(r)
    /\ PendingCap

----------------------------------------------------------------------------
LEMMA OrdersFinite ==
    ASSUME NEW S \in SUBSET Orders
    PROVE  IsFiniteSet(S) /\ Cardinality(S) \in Nat
<1>1. IsFiniteSet(Orders)
  BY FS_Interval, GateAssumption DEF Orders
<1>2. IsFiniteSet(S)
  BY <1>1, FS_Subset
<1> QED BY <1>2, FS_CardinalityType

\* A set whose members are all the same has at most one.
LEMMA AtMostOne ==
    ASSUME NEW S, \A x, y \in S : x = y
    PROVE  Cardinality(S) <= 1
<1>1. CASE S = {}
  BY <1>1, FS_EmptySet
<1>2. CASE S # {}
  <2>1. PICK x \in S : TRUE
    BY <1>2
  <2>2. S = {x}
    BY <2>1
  <2> QED BY <2>2, FS_Singleton
<1> QED BY <1>1, <1>2

LEMMA InvImplies == GateInv => OneOrderPerKey /\ PendingCap
<1> SUFFICES ASSUME GateInv PROVE OneOrderPerKey /\ PendingCap
  OBVIOUS
<1>1. OneOrderPerKey
  <2> SUFFICES ASSUME NEW k \in Keys
               PROVE  LET placed == {o \in Orders : order[o].placedUnder = k /\ order[o].status \in PlacedStatus}
                          named == answers[k] \union {o \in Orders : row[k].status = "COMPLETED" /\ row[k].order = o}
                      IN Cardinality(placed) <= 1 /\ Cardinality(named) <= 1 /\ \A o \in named : order[o].status \in PlacedStatus
    BY DEF OneOrderPerKey
  <2> DEFINE placed == {o \in Orders : order[o].placedUnder = k /\ order[o].status \in PlacedStatus}
             named == answers[k] \union {o \in Orders : row[k].status = "COMPLETED" /\ row[k].order = o}
  <2>1. \A o \in placed : o \in Orders /\ order[o].key = k
    BY DEF GateInv, Carries
  <2>2. \A o \in named : Names(k, o)
    BY DEF GateInv, AnswersName, RowsName
  <2>3. \A x, y \in placed : x = y
    BY <2>1 DEF GateInv, KeysUnique
  <2>4. \A x, y \in named : x = y
    BY <2>2 DEF GateInv, KeysUnique, Names
  <2>5. \A o \in named : order[o].status \in PlacedStatus
    BY <2>2 DEF Names
  <2> HIDE DEF placed, named
  <2>6. Cardinality(placed) <= 1 /\ Cardinality(named) <= 1
    BY <2>3, <2>4, AtMostOne
  <2> QED BY <2>5, <2>6 DEF placed, named
<1> QED BY <1>1 DEF GateInv

LEMMA InitInv == Init => GateInv
<1> SUFFICES ASSUME Init PROVE GateInv
  OBVIOUS
<1>1. TypeInv
  BY DEF Init, TypeInv, Row, Order, Request, RowStatus, OrderStatus, Pc, NoRow, NoOrder, Idle, Orders
<1>2. (\A o \in Orders : Carries(o)) /\ KeysUnique
  BY GateAssumption DEF Init, Carries, KeysUnique, NoOrder, PlacedStatus
<1>3. AnswersName /\ RowsName /\ \A r \in Requests : Knows(r)
  BY DEF Init, AnswersName, RowsName, Knows, NoRow, Idle
<1>4. PendingCap
  <2>1. {o \in Orders : order[o].status \in InFlightStatus} = {}
    BY DEF Init, NoOrder, InFlightStatus
  <2>2. Cardinality({o \in Orders : order[o].status \in InFlightStatus}) = 0
    BY <2>1, FS_EmptySet
  <2> QED BY <2>2, GateAssumption DEF PendingCap
<1> QED BY <1>1, <1>2, <1>3, <1>4 DEF GateInv

----------------------------------------------------------------------------
\* Steps of a request that leave the order rows alone.

\* A step that touches no order keeps the invariant when what it answers, freezes or remembers
\* names a placed order.
LEMMA RequestKeeps ==
    ASSUME GateInv, TypeInv', UNCHANGED order, AnswersName', RowsName',
           NEW r \in Requests, \A q \in Requests \ {r} : request'[q] = request[q], Knows(r)'
    PROVE  GateInv'
<1>1. (\A o \in Orders : Carries(o))' /\ KeysUnique' /\ PendingCap'
  BY DEF GateInv, Carries, KeysUnique, PendingCap
<1>2. \A q \in Requests \ {r} : Knows(q)'
  BY DEF GateInv, Knows, Names
<1>3. \A q \in Requests : Knows(q)'
  BY <1>2
<1> QED BY <1>1, <1>3 DEF GateInv

\* A request ends, or goes on to a step where it names no order.
LEMMA GoesOn ==
    ASSUME GateInv, NEW r \in Requests, NEW rec \in Request, request' = [request EXCEPT ![r] = rec],
           rec.pc \notin {"reserve", "reserveAgain", "replay"}, rec.pc # "idle" => rec.key \in Keys
    PROVE  /\ request' \in [Requests -> Request]
           /\ \A q \in Requests \ {r} : request'[q] = request[q]
           /\ Knows(r)'
<1>1. request'[r] = rec /\ request' \in [Requests -> Request] /\ \A q \in Requests \ {r} : request'[q] = request[q]
  BY DEF GateInv, TypeInv
<1> QED BY <1>1 DEF Knows

LEMMA EndRec == Idle \in Request /\ Idle.pc = "idle"
BY DEF Idle, Request, Pc

LEMMA GoRec ==
    ASSUME GateInv, NEW r \in Requests, NEW pc \in Pc, request[r].pc # "idle"
    PROVE  /\ [request[r] EXCEPT !.pc = pc] \in Request
           /\ [request[r] EXCEPT !.pc = pc].pc = pc
           /\ [request[r] EXCEPT !.pc = pc].key = request[r].key
           /\ [request[r] EXCEPT !.pc = pc].order = request[r].order
           /\ request[r].key \in Keys /\ request[r] \in Request
BY DEF GateInv, TypeInv, Request, Knows

\* A request's step that writes no order and no answer, and of the rows at most drops one, claims
\* one or leaves them.
LEMMA QuietStep ==
    ASSUME GateInv, NEW r \in Requests, NEW rec \in Request, request' = [request EXCEPT ![r] = rec],
           rec.pc \notin {"reserve", "reserveAgain", "replay"}, rec.pc # "idle" => rec.key \in Keys,
           UNCHANGED <<order, answers>>, claims' \in Nat, row' \in [Keys -> Row],
           \A k \in Keys : row'[k] = row[k] \/ row'[k].status # "COMPLETED"
    PROVE  GateInv'
<1>1. /\ request' \in [Requests -> Request]
      /\ \A q \in Requests \ {r} : request'[q] = request[q]
      /\ Knows(r)'
  BY GoesOn
<1>2. TypeInv'
  BY <1>1 DEF GateInv, TypeInv
<1>3. AnswersName' /\ RowsName'
  BY DEF GateInv, AnswersName, RowsName, Names
<1> QED BY <1>1, <1>2, <1>3, RequestKeeps

LEMMA EndKeeps ==
    ASSUME GateInv, NEW r \in Requests, End(r), UNCHANGED <<order, answers, claims>>,
           row' \in [Keys -> Row], \A k \in Keys : row'[k] = row[k] \/ row'[k].status # "COMPLETED"
    PROVE  GateInv'
<1>1. request' = [request EXCEPT ![r] = Idle] /\ claims' \in Nat
  BY DEF End, GateInv, TypeInv
<1> QED BY <1>1, EndRec, QuietStep

LEMMA GoKeeps ==
    ASSUME GateInv, NEW r \in Requests, NEW pc \in Pc \ {"reserve", "reserveAgain", "replay"}, Go(r, pc),
           request[r].pc # "idle", UNCHANGED <<order, answers, claims>>,
           row' \in [Keys -> Row], \A k \in Keys : row'[k] = row[k] \/ row'[k].status # "COMPLETED"
    PROVE  GateInv'
<1>1. request' = [request EXCEPT ![r] = [request[r] EXCEPT !.pc = pc]] /\ claims' \in Nat
  BY DEF Go, GateInv, TypeInv
<1> QED BY <1>1, GoRec, QuietStep

\* A 201 for the placed order of the request's key.
LEMMA AnswerKeeps ==
    ASSUME GateInv, NEW r \in Requests, NEW o, request[r].key \in Keys, Names(request[r].key, o), Answer(r, o),
           UNCHANGED <<order, claims>>, row' \in [Keys -> Row], RowsName'
    PROVE  GateInv'
<1>1. request' = [request EXCEPT ![r] = Idle] /\ answers' = [answers EXCEPT ![request[r].key] = @ \union {o}]
  BY DEF Answer, End
<1>2. /\ request' \in [Requests -> Request]
      /\ \A q \in Requests \ {r} : request'[q] = request[q]
      /\ Knows(r)'
  BY <1>1, EndRec, GoesOn
<1>3. answers' \in [Keys -> SUBSET Orders]
  BY <1>1 DEF GateInv, TypeInv, Names
<1>4. TypeInv'
  BY <1>2, <1>3 DEF GateInv, TypeInv
<1>5. AnswersName'
  <2>1. ASSUME NEW k \in Keys, NEW p \in answers'[k] PROVE Names(k, p)
    BY <1>1, <2>1 DEF GateInv, TypeInv, AnswersName
  <2> QED BY <2>1 DEF AnswersName, Names
<1> QED BY <1>2, <1>4, <1>5, RequestKeeps

\* The key's row answers with its placed order from now on, or is gone.
LEMMA MarkCompletedKeeps ==
    ASSUME GateInv, NEW k \in Keys, NEW o \in Orders, markCompleted(k, o)
    PROVE  /\ row' \in [Keys -> Row]
           /\ \A j \in Keys : row'[j] = row[j] \/ (j = k /\ row'[j].order = o)
<1>1. CASE row[k].status = "none"
  BY <1>1 DEF markCompleted, GateInv, TypeInv
<1>2. CASE row[k].status # "none"
  <2> DEFINE rec == [row[k] EXCEPT !.status = "COMPLETED", !.order = o]
  <2>1. row[k] \in Row /\ o \in Nat
    BY GateAssumption DEF GateInv, TypeInv, Orders
  <2>2. rec \in Row /\ rec.order = o
    BY <2>1 DEF Row, RowStatus
  <2>3. row' = [row EXCEPT ![k] = rec]
    BY <1>2 DEF markCompleted
  <2> HIDE DEF rec
  <2> QED BY <2>2, <2>3 DEF GateInv, TypeInv
<1> QED BY <1>1, <1>2

LEMMA ArriveKeeps ==
    ASSUME GateInv, NEW r \in Requests, NEW k \in Keys, arrive(r, k)
    PROVE  GateInv'
<1> DEFINE rec == [Idle EXCEPT !.pc = "find", !.key = k]
<1>1. rec \in Request /\ rec.pc = "find" /\ rec.key = k
  BY DEF Idle, Request, Pc
<1>2. request' = [request EXCEPT ![r] = rec]
  BY DEF arrive
<1> HIDE DEF rec
<1>3. UNCHANGED <<row, order, answers>> /\ claims' \in Nat /\ row \in [Keys -> Row]
  BY DEF arrive, GateInv, TypeInv
<1> QED BY <1>1, <1>2, <1>3, QuietStep

LEMMA FindKeeps ==
    ASSUME GateInv, NEW r \in Requests, findByScopeAndKey(r)
    PROVE  GateInv'
<1> DEFINE found == row[request[r].key]
<1>1. request[r].pc # "idle" /\ request[r].key \in Keys /\ UNCHANGED <<row, claims, order>> /\ row \in [Keys -> Row]
      /\ request[r] \in Request
  BY DEF findByScopeAndKey, At, GateInv, TypeInv, Knows
<1>2. CASE End(r) /\ UNCHANGED answers
  BY <1>1, <1>2, EndKeeps
<1>3. CASE Go(r, "insert") /\ UNCHANGED answers
  BY <1>1, <1>3, GoKeeps DEF Pc
<1>4. CASE found.status = "COMPLETED" /\ Answer(r, found.order)
  <2>1. Names(request[r].key, found.order)
    BY <1>1, <1>4 DEF GateInv, RowsName
  <2>2. RowsName'
    BY <1>1 DEF GateInv, RowsName, Names
  <2> QED BY <1>1, <1>4, <2>1, <2>2, AnswerKeeps
<1>5. CASE request' = [request EXCEPT ![r].pc = "reclaim", ![r].claim = found.claim] /\ UNCHANGED answers
  <2> DEFINE rec == [request[r] EXCEPT !.pc = "reclaim", !.claim = found.claim]
  <2>1. found \in Row
    BY <1>1
  <2>2. rec \in Request /\ rec.pc = "reclaim" /\ rec.key = request[r].key
    BY <1>1, <2>1 DEF Row, Request, Pc
  <2>3. request' = [request EXCEPT ![r] = rec]
    BY <1>5
  <2> HIDE DEF rec
  <2>4. claims' \in Nat
    BY <1>1 DEF GateInv, TypeInv
  <2> QED BY <1>1, <1>5, <2>2, <2>3, <2>4, QuietStep
<1> QED BY <1>2, <1>3, <1>4, <1>5 DEF findByScopeAndKey

LEMMA InsertKeeps ==
    ASSUME GateInv, NEW r \in Requests, tryInsertInProgress(r)
    PROVE  GateInv'
<1> DEFINE k == request[r].key
<1>1. request[r].pc # "idle" /\ k \in Keys /\ UNCHANGED <<order, answers>> /\ row \in [Keys -> Row] /\ claims \in Nat
      /\ request[r] \in Request
  BY DEF tryInsertInProgress, At, GateInv, TypeInv, Knows
<1>2. CASE /\ claims' = claims + 1
           /\ row' = [row EXCEPT ![k] = [status |-> "IN_PROGRESS", claim |-> claims + 1, order |-> 0]]
           /\ request' = [request EXCEPT ![r].pc = "create", ![r].claim = claims + 1]
  <2> DEFINE rec == [request[r] EXCEPT !.pc = "create", !.claim = claims + 1]
             new == [status |-> "IN_PROGRESS", claim |-> claims + 1, order |-> 0]
  <2>1. claims + 1 \in Nat
    BY <1>1
  <2>2. rec \in Request /\ rec.pc = "create" /\ rec.key = k
    BY <1>1, <2>1 DEF Request, Pc
  <2>3. new \in Row /\ new.status # "COMPLETED"
    BY <2>1 DEF Row, RowStatus
  <2>4. request' = [request EXCEPT ![r] = rec] /\ row' = [row EXCEPT ![k] = new]
    BY <1>2
  <2> HIDE DEF rec, new
  <2>5. row' \in [Keys -> Row] /\ \A j \in Keys : row'[j] = row[j] \/ row'[j].status # "COMPLETED"
    BY <1>1, <2>3, <2>4
  <2> QED BY <1>1, <1>2, <2>1, <2>2, <2>4, <2>5, QuietStep
<1>3. CASE Go(r, "findAgain") /\ UNCHANGED <<row, claims>>
  BY <1>1, <1>3, GoKeeps DEF Pc
<1>4. CASE End(r) /\ UNCHANGED <<row, claims>>
  BY <1>1, <1>4, EndKeeps
<1> QED BY <1>2, <1>3, <1>4 DEF tryInsertInProgress

\* A row is dropped or left.
LEMMA DropRow ==
    ASSUME GateInv, NEW k \in Keys, row' = [row EXCEPT ![k] = NoRow] \/ row' = row
    PROVE  row' \in [Keys -> Row] /\ \A j \in Keys : row'[j] = row[j] \/ row'[j].status # "COMPLETED"
BY DEF GateInv, TypeInv, NoRow, Row, RowStatus

LEMMA DeleteKeeps ==
    ASSUME GateInv, NEW r \in Requests, deleteExpiredInProgress(r) \/ deleteInProgress(r)
    PROVE  GateInv'
<1>1. request[r].pc # "idle" /\ request[r].key \in Keys /\ UNCHANGED <<order, answers, claims>>
  BY DEF deleteExpiredInProgress, deleteInProgress, At, GateInv, Knows
<1>2. row' \in [Keys -> Row] /\ \A j \in Keys : row'[j] = row[j] \/ row'[j].status # "COMPLETED"
  BY <1>1, DropRow DEF deleteExpiredInProgress, deleteInProgress
<1>3. CASE Go(r, "reinsert")
  BY <1>1, <1>2, <1>3, GoKeeps DEF Pc
<1>4. CASE End(r)
  BY <1>1, <1>2, <1>4, EndKeeps
<1> QED BY <1>3, <1>4 DEF deleteExpiredInProgress, deleteInProgress

LEMMA FailKeeps ==
    ASSUME GateInv, NEW r \in Requests, handlerFails(r) \/ crash(r)
    PROVE  GateInv'
<1>1. request[r].pc # "idle" /\ UNCHANGED <<row, order, answers, claims>> /\ row \in [Keys -> Row]
  BY DEF handlerFails, crash, At, GateInv, TypeInv
<1>2. CASE Go(r, "failed")
  BY <1>1, <1>2, GoKeeps DEF Pc
<1>3. CASE End(r)
  BY <1>1, <1>3, EndKeeps
<1> QED BY <1>2, <1>3 DEF handlerFails, crash

----------------------------------------------------------------------------
\* The request and its order.

LEMMA CreateKeeps ==
    ASSUME GateInv, NEW r \in Requests, createReserving(r)
    PROVE  GateInv'
<1> DEFINE k == request[r].key
<1>1. request[r].pc = "create" /\ k \in Keys /\ UNCHANGED <<row, claims, answers>> /\ row \in [Keys -> Row]
      /\ request[r] \in Request
  BY DEF createReserving, At, GateInv, TypeInv, Knows
<1>2. ASSUME NEW o \in WithKey(k), UNCHANGED order,
             request' = [request EXCEPT ![r].order = o,
                           ![r].pc = IF order[o].status = "RESERVING" THEN "reserveAgain" ELSE "replay"]
      PROVE  GateInv'
  <2> DEFINE pc == IF order[o].status = "RESERVING" THEN "reserveAgain" ELSE "replay"
             rec == [request[r] EXCEPT !.order = o, !.pc = pc]
  <2>1. o \in Orders /\ order[o].key = k /\ o \in Nat
    BY GateAssumption DEF WithKey, Orders
  <2>2. order[o].status \in PlacedStatus \union {"RESERVING"} /\ order[o].placedUnder = k
    BY <1>1, <2>1, GateAssumption DEF GateInv, Carries
  <2>3. pc \in Pc /\ (pc = "replay" => order[o].status \in PlacedStatus) /\ pc \in {"reserveAgain", "replay"}
    BY <2>2 DEF Pc
  <2>4. request' = [request EXCEPT ![r] = rec]
    BY <1>2
  <2> HIDE DEF pc
  <2>5. rec \in Request /\ rec.pc = pc /\ rec.key = k /\ rec.order = o
    BY <1>1, <2>1, <2>3 DEF Request
  <2> HIDE DEF rec
  <2>6. request' \in [Requests -> Request] /\ request'[r] = rec /\ \A q \in Requests \ {r} : request'[q] = request[q]
    BY <2>4, <2>5 DEF GateInv, TypeInv
  <2>7. Knows(r)'
    BY <1>1, <1>2, <2>1, <2>2, <2>3, <2>5, <2>6 DEF Knows, Names, PlacedStatus
  <2>8. TypeInv' /\ AnswersName' /\ RowsName'
    BY <1>1, <1>2, <2>6 DEF GateInv, TypeInv, AnswersName, RowsName, Names
  <2> QED BY <1>2, <2>6, <2>7, <2>8, RequestKeeps
<1>3. CASE Go(r, "failed") /\ UNCHANGED order
  BY <1>1, <1>3, GoKeeps DEF Pc
<1>4. ASSUME WithKey(k) = {}, Cardinality(InFlight) < MaxPending, NEW o \in Unused,
             order' = [order EXCEPT ![o] = [status |-> "RESERVING", key |-> k, placedUnder |-> k]],
             request' = [request EXCEPT ![r].order = o, ![r].pc = "reserve"]
      PROVE  GateInv'
  <2> DEFINE new == [status |-> "RESERVING", key |-> k, placedUnder |-> k]
             rec == [request[r] EXCEPT !.order = o, !.pc = "reserve"]
  <2>1. o \in Orders /\ order[o].status = "none" /\ o \in Nat
    BY GateAssumption DEF Unused, Orders
  <2>2. new \in Order /\ new.status = "RESERVING" /\ new.key = k /\ new.placedUnder = k
    BY <1>1 DEF Order, OrderStatus
  <2>3. rec \in Request /\ rec.pc = "reserve" /\ rec.key = k /\ rec.order = o
    BY <1>1, <2>1 DEF Request, Pc
  <2>4. order' = [order EXCEPT ![o] = new] /\ request' = [request EXCEPT ![r] = rec]
    BY <1>4
  <2> HIDE DEF new, rec
  <2>5. /\ order' \in [Orders -> Order] /\ order'[o] = new /\ \A p \in Orders \ {o} : order'[p] = order[p]
        /\ request' \in [Requests -> Request] /\ request'[r] = rec /\ \A q \in Requests \ {r} : request'[q] = request[q]
    BY <2>1, <2>2, <2>3, <2>4 DEF GateInv, TypeInv
  <2>6. TypeInv'
    BY <1>1, <2>5 DEF GateInv, TypeInv
  <2>7. \A p \in Orders : Carries(p)'
    BY <1>1, <2>1, <2>2, <2>5 DEF GateInv, Carries, PlacedStatus
  <2>8. KeysUnique'
    <3>1. \A p \in Orders : order[p].key # k
      BY <1>4 DEF WithKey
    <3> QED BY <2>2, <2>5, <3>1 DEF GateInv, KeysUnique
  <2>9. \A j, p : Names(j, p) => Names(j, p)' /\ p # o
    BY <2>1, <2>5 DEF Names, PlacedStatus
  <2>10. AnswersName' /\ RowsName'
    BY <1>1, <2>9 DEF GateInv, AnswersName, RowsName
  <2>11. Knows(r)'
    BY <1>1, <2>1, <2>2, <2>3, <2>5 DEF Knows
  <2>12. \A q \in Requests \ {r} : Knows(q)'
    <3>1. ASSUME NEW q \in Requests \ {r} PROVE Knows(q)'
      <4>1. Knows(q) /\ request'[q] = request[q]
        BY <2>5 DEF GateInv
      <4>2. request[q].pc = "replay" =>
              /\ request[q].order \in Orders
              /\ order'[request[q].order] = order[request[q].order]
        BY <2>1, <2>5, <4>1 DEF Knows, Names, PlacedStatus
      <4>3. request[q].pc \in {"reserve", "reserveAgain"} => order'[request[q].order] = order[request[q].order]
        BY <2>1, <2>5, <4>1 DEF Knows
      <4> QED BY <4>1, <4>2, <4>3 DEF Knows, Names
    <3> QED BY <3>1
  <2>13. PendingCap'
    <3>1. InFlight' = InFlight \union {o} /\ o \notin InFlight /\ InFlight \in SUBSET Orders
      BY <2>1, <2>2, <2>5 DEF InFlight, InFlightStatus
    <3>2. IsFiniteSet(InFlight) /\ Cardinality(InFlight) \in Nat
      BY <3>1, OrdersFinite
    <3>3. Cardinality(InFlight') = Cardinality(InFlight) + 1
      BY <3>1, <3>2, FS_AddElement
    <3>4. Cardinality(InFlight') <= MaxPending
      BY <1>4, <3>2, <3>3, GateAssumption
    <3> QED BY <3>4 DEF PendingCap, InFlight
  <2> QED BY <2>6, <2>7, <2>8, <2>10, <2>11, <2>12, <2>13 DEF GateInv
<1> QED BY <1>2, <1>3, <1>4 DEF createReserving

LEMMA ReserveKeeps ==
    ASSUME GateInv, NEW r \in Requests, reserve(r) \/ replay(r)
    PROVE  GateInv'
<1> DEFINE k == request[r].key
           o == request[r].order
<1>1. request[r].pc \in {"reserve", "reserveAgain", "replay"} /\ k \in Keys /\ o \in Orders
      /\ UNCHANGED <<claims, order>> /\ request[r] \in Request /\ row \in [Keys -> Row]
  BY DEF reserve, replay, At, GateInv, TypeInv, Knows, Names
<1>2. CASE reserve(r)
  <2>1. request[r].pc \in {"reserve", "reserveAgain"} /\ UNCHANGED row
    BY <1>2 DEF reserve, At
  <2>2. order[o].status \in PlacedStatus => Names(k, o)
    BY <1>1, <2>1 DEF GateInv, Knows, Carries, Names
  <2>3. RowsName' /\ row' \in [Keys -> Row]
    BY <1>1, <2>1 DEF GateInv, RowsName, Names
  <2>4. CASE Answer(r, o) /\ order[o].status \in PlacedStatus
    BY <1>1, <2>2, <2>3, <2>4, AnswerKeeps
  <2>5. CASE Go(r, "failed") /\ UNCHANGED answers
    BY <1>1, <2>1, <2>5, GoKeeps DEF Pc
  <2>6. CASE Go(r, "replay") /\ UNCHANGED answers /\ order[o].status \in PlacedStatus
    <3> DEFINE rec == [request[r] EXCEPT !.pc = "replay"]
    <3>1. rec \in Request /\ rec.pc = "replay" /\ rec.key = k /\ rec.order = o
      BY <1>1 DEF Request, Pc
    <3>2. request' = [request EXCEPT ![r] = rec]
      BY <2>6 DEF Go
    <3> HIDE DEF rec
    <3>3. request' \in [Requests -> Request] /\ request'[r] = rec /\ \A q \in Requests \ {r} : request'[q] = request[q]
      BY <3>1, <3>2 DEF GateInv, TypeInv
    <3>4. Knows(r)'
      BY <1>1, <2>2, <2>6, <3>1, <3>3 DEF Knows, Names
    <3>5. TypeInv' /\ AnswersName'
      BY <1>1, <2>1, <2>6, <3>3 DEF GateInv, TypeInv, AnswersName, Names
    <3> QED BY <1>1, <2>3, <3>3, <3>4, <3>5, RequestKeeps
  <2>7. PlacedStatus = {"PENDING", "SETTLED"}
    BY DEF PlacedStatus
  <2> QED BY <1>2, <2>4, <2>5, <2>6, <2>7 DEF reserve
<1>3. CASE replay(r)
  <2>1. Names(k, o)
    BY <1>3 DEF replay, At, GateInv, Knows
  <2>2. row' \in [Keys -> Row] /\ \A j \in Keys : row'[j] = row[j] \/ (j = k /\ row'[j].order = o)
    BY <1>1, <1>3, MarkCompletedKeeps DEF replay
  <2>3. RowsName'
    BY <1>1, <2>1, <2>2 DEF GateInv, RowsName, Names
  <2> QED BY <1>1, <1>3, <2>1, <2>2, <2>3, AnswerKeeps DEF replay
<1> QED BY <1>2, <1>3

----------------------------------------------------------------------------
\* The saga, the lease and the sweeps.

\* An order moves on. What names it as placed still does, and no new order is in flight.
LEMMA OrderMovesKeeps ==
    ASSUME GateInv, NEW o \in Orders, NEW rec \in Order, order' = [order EXCEPT ![o] = rec],
           UNCHANGED <<claims, request, answers>>, row' \in [Keys -> Row], RowsName',
           order[o].status # "none", rec.status # "none", rec.placedUnder = order[o].placedUnder,
           \/ rec.status \in PlacedStatus /\ rec.key = order[o].key /\ order[o].status \in {"RESERVING", "PENDING"}
           \/ rec.status \in {"REJECTED", "deleted"} /\ rec.key = NoKey /\ order[o].status \notin PlacedStatus
    PROVE  GateInv'
<1>1. order' \in [Orders -> Order] /\ order'[o] = rec /\ \A p \in Orders \ {o} : order'[p] = order[p]
  BY DEF GateInv, TypeInv
<1>2. TypeInv'
  BY <1>1 DEF GateInv, TypeInv
<1>3. \A p \in Orders : Carries(p)'
  BY <1>1, GateAssumption DEF GateInv, Carries, PlacedStatus
<1>4. KeysUnique'
  BY <1>1, GateAssumption DEF GateInv, KeysUnique
<1>5. \A k, p : Names(k, p) => Names(k, p)'
  BY <1>1 DEF Names, PlacedStatus
<1>6. AnswersName'
  BY <1>5 DEF GateInv, AnswersName
<1>7. \A q \in Requests : Knows(q)'
  <2>1. ASSUME NEW q \in Requests PROVE Knows(q)'
    <3>1. Knows(q) /\ request'[q] = request[q]
      BY DEF GateInv
    <3>2. request[q].pc = "replay" => Names(request[q].key, request[q].order)
      BY <3>1 DEF Knows
    <3>3. request[q].pc = "replay" =>
            /\ request[q].order \in Orders
            /\ order'[request[q].order].status \in PlacedStatus
            /\ order'[request[q].order].key = request[q].key
      BY <1>1, <3>2 DEF Names, PlacedStatus
    <3>4. request[q].pc \in {"reserve", "reserveAgain"} =>
            /\ order'[request[q].order].status # "none"
            /\ order'[request[q].order].placedUnder = request[q].key
      BY <1>1, <3>1 DEF Knows
    <3> QED BY <3>1, <3>3, <3>4 DEF Knows, Names
  <2> QED BY <2>1
<1>8. PendingCap'
  <2>1. InFlight' \subseteq InFlight /\ InFlight \in SUBSET Orders
    BY <1>1 DEF InFlight, InFlightStatus, PlacedStatus
  <2>2. IsFiniteSet(InFlight) /\ Cardinality(InFlight) \in Nat
    BY <2>1, OrdersFinite
  <2>3. Cardinality(InFlight') <= Cardinality(InFlight) /\ Cardinality(InFlight') \in Nat
    BY <2>1, <2>2, FS_Subset, FS_CardinalityType
  <2>4. Cardinality(InFlight) <= MaxPending /\ MaxPending \in Nat
    BY GateAssumption DEF GateInv, PendingCap, InFlight
  <2>5. Cardinality(InFlight') <= MaxPending
    BY <2>2, <2>3, <2>4
  <2> QED BY <2>5 DEF PendingCap, InFlight
<1> QED BY <1>2, <1>3, <1>4, <1>6, <1>7, <1>8 DEF GateInv

LEMMA SagaKeeps ==
    ASSUME GateInv, NEW o \in Orders, tryHeld(o) \/ tryRejected(o) \/ settle(o) \/ sweepRejectedOrders(o)
    PROVE  GateInv'
<1>1. order[o] \in Order /\ row \in [Keys -> Row] /\ UNCHANGED <<claims, request, answers>>
  BY DEF GateInv, TypeInv, tryHeld, tryRejected, settle, sweepRejectedOrders
<1>2. CASE tryHeld(o)
  <2> DEFINE rec == [order[o] EXCEPT !.status = "PENDING"]
             k == order[o].key
  <2>1. rec \in Order /\ rec.status = "PENDING" /\ rec.key = k /\ rec.placedUnder = order[o].placedUnder
    BY <1>1 DEF Order, OrderStatus
  <2>2. order' = [order EXCEPT ![o] = rec] /\ order[o].status = "RESERVING"
    BY <1>2 DEF tryHeld
  <2> HIDE DEF rec
  <2>3. k \in Keys
    BY <2>2 DEF GateInv, Carries
  <2>4. row' \in [Keys -> Row] /\ \A j \in Keys : row'[j] = row[j] \/ (j = k /\ row'[j].order = o)
    BY <1>2, <2>3, MarkCompletedKeeps DEF tryHeld
  <2>5. \A j, p : Names(j, p) => Names(j, p)'
    BY <2>1, <2>2 DEF Names, PlacedStatus, GateInv, TypeInv
  <2>7. RowsName'
    <3>1. ASSUME NEW j \in Keys, row'[j].status = "COMPLETED"
          PROVE  /\ row'[j].order \in Orders
                 /\ order'[row'[j].order].status \in PlacedStatus
                 /\ order'[row'[j].order].key = j
      <4>1. CASE row'[j] = row[j]
        <5>1. Names(j, row[j].order)
          BY <3>1, <4>1 DEF GateInv, RowsName
        <5>2. order'[row[j].order].status \in PlacedStatus /\ order'[row[j].order].key = j
          BY <2>5, <5>1 DEF Names
        <5> QED BY <4>1, <5>1, <5>2 DEF Names
      <4>2. CASE j = k /\ row'[j].order = o
        BY <2>1, <2>2, <4>2 DEF Names, GateInv, TypeInv, PlacedStatus
      <4> QED BY <2>4, <4>1, <4>2
    <3> QED BY <3>1 DEF RowsName, Names
  <2> QED BY <1>1, <2>1, <2>2, <2>4, <2>7, OrderMovesKeeps DEF PlacedStatus
<1>3. CASE tryRejected(o)
  <2> DEFINE rec == [order[o] EXCEPT !.status = "REJECTED", !.key = NoKey]
  <2>1. rec \in Order /\ rec.status = "REJECTED" /\ rec.key = NoKey /\ rec.placedUnder = order[o].placedUnder
    BY <1>1 DEF Order, OrderStatus
  <2>2. order' = [order EXCEPT ![o] = rec] /\ order[o].status = "RESERVING" /\ row' = row
    BY <1>3 DEF tryRejected
  <2> HIDE DEF rec
  <2>3. RowsName'
    BY <2>1, <2>2 DEF GateInv, TypeInv, RowsName, Names, PlacedStatus
  <2> QED BY <1>1, <2>1, <2>2, <2>3, OrderMovesKeeps DEF PlacedStatus
<1>4. CASE settle(o)
  <2> DEFINE rec == [order[o] EXCEPT !.status = "SETTLED"]
  <2>1. rec \in Order /\ rec.status = "SETTLED" /\ rec.key = order[o].key /\ rec.placedUnder = order[o].placedUnder
    BY <1>1 DEF Order, OrderStatus
  <2>2. order' = [order EXCEPT ![o] = rec] /\ order[o].status = "PENDING" /\ row' = row
    BY <1>4 DEF settle
  <2> HIDE DEF rec
  <2>3. RowsName'
    BY <2>1, <2>2 DEF GateInv, TypeInv, RowsName, Names, PlacedStatus
  <2> QED BY <1>1, <2>1, <2>2, <2>3, OrderMovesKeeps DEF PlacedStatus
<1>5. CASE sweepRejectedOrders(o)
  <2> DEFINE rec == [order[o] EXCEPT !.status = "deleted"]
  <2>1. order[o].status = "REJECTED" /\ order[o].key = NoKey
    BY <1>5 DEF sweepRejectedOrders, deleteRejectedBefore, GateInv, Carries, PlacedStatus
  <2>2. rec \in Order /\ rec.status = "deleted" /\ rec.key = NoKey /\ rec.placedUnder = order[o].placedUnder
    BY <1>1, <2>1 DEF Order, OrderStatus
  <2>3. order' = [order EXCEPT ![o] = rec] /\ row' = row
    BY <1>5 DEF sweepRejectedOrders, deleteRejectedBefore
  <2> HIDE DEF rec
  <2>4. RowsName'
    BY <2>1, <2>2, <2>3 DEF GateInv, TypeInv, RowsName, Names, PlacedStatus
  <2> QED BY <1>1, <2>1, <2>2, <2>3, <2>4, OrderMovesKeeps DEF PlacedStatus
<1> QED BY <1>2, <1>3, <1>4, <1>5

LEMMA SweepKeeps ==
    ASSUME GateInv, NEW k \in Keys, leaseLapses(k) \/ sweepIdempotencyKeys(k)
    PROVE  GateInv'
<1>1. UNCHANGED <<claims, order, request, answers>>
  BY DEF leaseLapses, sweepIdempotencyKeys
<1>2. row' \in [Keys -> Row] /\ \A j \in Keys : row'[j] = row[j] \/ row'[j].status # "COMPLETED"
  BY DropRow DEF leaseLapses, sweepIdempotencyKeys, deleteExpired
<1>3. TypeInv'
  BY <1>1, <1>2 DEF GateInv, TypeInv
<1>4. AnswersName' /\ RowsName' /\ KeysUnique' /\ PendingCap'
  BY <1>1, <1>2 DEF GateInv, AnswersName, RowsName, Names, KeysUnique, PendingCap
<1>5. (\A o \in Orders : Carries(o))' /\ \A r \in Requests : Knows(r)'
  BY <1>1 DEF GateInv, Carries, Knows, Names
<1> QED BY <1>3, <1>4, <1>5 DEF GateInv

----------------------------------------------------------------------------
LEMMA StepKeeps ==
    ASSUME GateInv, [Next]_vars
    PROVE  GateInv'
<1>1. ASSUME NEW r \in Requests, Handle(r) PROVE GateInv'
  BY <1>1, FindKeeps, InsertKeeps, DeleteKeeps, FailKeeps, CreateKeeps, ReserveKeeps DEF Handle
<1>2. CASE UNCHANGED vars
  <2>1. UNCHANGED <<row, claims, order, request, answers>>
    BY <1>2 DEF vars
  <2>2. TypeInv' /\ AnswersName' /\ RowsName' /\ KeysUnique' /\ PendingCap'
    BY <2>1 DEF GateInv, TypeInv, AnswersName, RowsName, Names, KeysUnique, PendingCap
  <2>3. (\A o \in Orders : Carries(o))' /\ \A r \in Requests : Knows(r)'
    BY <2>1 DEF GateInv, Carries, Knows, Names
  <2> QED BY <2>2, <2>3 DEF GateInv
<1> QED BY <1>1, <1>2, ArriveKeeps, SagaKeeps, SweepKeeps DEF Next

THEOREM GateIsSafe == Spec => []GateInv
<1>1. GateInv /\ [Next]_vars => GateInv'
  BY StepKeeps
<1> QED BY <1>1, InitInv, PTL DEF Spec

\* However a checkout is retried, reclaimed, crashed or swept, its key places at most one order and
\* every answer under the key, live or frozen, names that order.
THEOREM OneOrderPerKeyHolds == Spec => []OneOrderPerKey
BY GateIsSafe, InvImplies, PTL

\* However many checkouts run at once, the user's orders in flight never exceed the cap.
THEOREM PendingCapHolds == Spec => []PendingCap
BY GateIsSafe, InvImplies, PTL

-----------------------------------------------------------------------------
(* The breaker *)

BreakerInv ==
  /\ breaker \in {"closed", "open", "half_open", "shutdown"} /\ faulted \in BOOLEAN
  /\ call \in [Calls -> [caller : {"idle", "waiting", "told"}, request : {"none", "sent", "landed"},
                         told : {"nothing", "open", "timeout", "ok", "rejected", "fault"}]]
  /\ \A c \in Calls : call[c].caller # "told" => call[c].told = "nothing"
  /\ Breaker!BreakerTells

LEMMA BreakerKept == BreakerInv /\ [Breaker!Next]_(Breaker!vars) => BreakerInv'
<1> SUFFICES ASSUME BreakerInv, [Breaker!Next]_(Breaker!vars) PROVE BreakerInv'
  OBVIOUS
<1> USE DEF BreakerInv, Breaker!BreakerTells
<1>1. ASSUME NEW c \in Calls, Breaker!refuse(c) \/ Breaker!fire(c) \/ Breaker!lands(c) \/ Breaker!ends(c)
      PROVE  BreakerInv'
  <2>1. CASE Breaker!refuse(c)
    <3>1. Breaker!Told("ESHUTDOWN") = "open" /\ Breaker!Told("EOPENBREAKER") = "open"
      BY DEF Breaker!Told
    <3>2. call' = [call EXCEPT ![c] = [call[c] EXCEPT !.caller = "told", !.told = "open"]]
      BY <2>1, <3>1 DEF Breaker!refuse, Breaker!Answers
    <3>3. call[c].request = "none" /\ UNCHANGED <<breaker, faulted>>
      BY <2>1 DEF Breaker!refuse, Breaker!NotCalled
    <3> QED
      BY <3>2, <3>3
  <2>2. CASE Breaker!fire(c)
    BY <2>2 DEF Breaker!fire, Breaker!NotCalled
  <2>3. CASE Breaker!lands(c) \/ Breaker!ends(c)
    BY <2>3 DEF Breaker!lands, Breaker!ends, Breaker!NotCalled
  <2> QED
    BY <1>1, <2>1, <2>2, <2>3
<1>2. ASSUME NEW failed \in BOOLEAN, Breaker!Counts(failed), faulted' = (faulted \/ failed)
      PROVE  breaker' \in {"closed", "open", "half_open", "shutdown"} /\ faulted' \in BOOLEAN
             /\ (breaker' \in {"open", "half_open"} => faulted')
  BY <1>2 DEF Breaker!Counts
<1>3. ASSUME NEW c \in Calls, NEW outcome \in Breaker!Outcomes, Breaker!answers(c, outcome)
      PROVE  BreakerInv'
  <2>1. Breaker!Told(outcome) = outcome
    BY DEF Breaker!Told, Breaker!Outcomes
  <2>2. /\ breaker' \in {"closed", "open", "half_open", "shutdown"} /\ faulted' \in BOOLEAN
        /\ breaker' \in {"open", "half_open"} => faulted'
    BY <1>2, <1>3 DEF Breaker!answers, Breaker!IsDownstreamFault
  <2> DEFINE answered == [[call[c] EXCEPT !.caller = "told", !.told = outcome] EXCEPT
                            !.request = IF outcome = "rejected" THEN "none" ELSE call[c].request]
  <2>3. call' = [call EXCEPT ![c] = answered]
    BY <1>3, <2>1 DEF Breaker!answers, Breaker!Answers
  <2>4. /\ answered \in [caller : {"idle", "waiting", "told"}, request : {"none", "sent", "landed"},
                         told : {"nothing", "open", "timeout", "ok", "rejected", "fault"}]
        /\ answered.caller = "told" /\ answered.told = outcome
    BY DEF Breaker!Outcomes
  <2>5. outcome # "open"
    BY DEF Breaker!Outcomes
  <2> HIDE DEF answered
  <2> QED
    BY <2>2, <2>3, <2>4, <2>5
<1>4. ASSUME NEW c \in Calls, Breaker!timesOut(c)
      PROVE  BreakerInv'
  <2>1. /\ breaker' \in {"closed", "open", "half_open", "shutdown"} /\ faulted' \in BOOLEAN
        /\ breaker' \in {"open", "half_open"} => faulted'
    BY <1>2, <1>4 DEF Breaker!timesOut
  <2>2. call' = [call EXCEPT ![c].caller = "told", ![c].told = "timeout"]
    BY <1>4 DEF Breaker!timesOut, Breaker!Answers, Breaker!Told
  <2> DEFINE told == [call[c] EXCEPT !.caller = "told", !.told = "timeout"]
  <2>3. /\ told \in [caller : {"idle", "waiting", "told"}, request : {"none", "sent", "landed"},
                     told : {"nothing", "open", "timeout", "ok", "rejected", "fault"}]
        /\ told.caller = "told" /\ told.told = "timeout"
    OBVIOUS
  <2>4. call' = [call EXCEPT ![c] = told]
    BY <2>2
  <2> HIDE DEF told
  <2> QED
    BY <2>1, <2>3, <2>4
<1>5. CASE Breaker!resetTimeout \/ Breaker!rolls \/ Breaker!onApplicationShutdown \/ UNCHANGED Breaker!vars
  BY <1>5 DEF Breaker!resetTimeout, Breaker!rolls, Breaker!onApplicationShutdown, Breaker!vars
<1> QED
  BY <1>1, <1>3, <1>4, <1>5 DEF Breaker!Next

(* A call reported as open never reached the dependency and never will, and a dependency that only     *)
(* said no never finds its circuit open (CircuitBreakerFactory, DownstreamUnavailableError).           *)
THEOREM BreakerAlwaysTells == Breaker!Spec => []BreakerTells
<1>1. Breaker!Init => BreakerInv
  <2>1. /\ Breaker!NotCalled \in [caller : {"idle", "waiting", "told"}, request : {"none", "sent", "landed"},
                                  told : {"nothing", "open", "timeout", "ok", "rejected", "fault"}]
        /\ Breaker!NotCalled.told = "nothing"
    BY DEF Breaker!NotCalled
  <2> QED
    BY <2>1 DEF Breaker!Init, BreakerInv, Breaker!BreakerTells
<1>2. BreakerInv => BreakerTells
  BY DEF BreakerInv, BreakerTells
<1> QED
  BY <1>1, <1>2, BreakerKept, PTL DEF Breaker!Spec

-----------------------------------------------------------------------------
(* The times of a checkout *)

SettingsHold == Timing!CheckoutSagaEnv(env) /\ Timing!assertCheckoutSagaEnv(env) /\ env \in Timing!Settings

(* The saga waits within the hold; a run of the reaper is past the budget of its Try. *)
RunInTime ==
  /\ now \in Int /\ budget \in Int
  /\ run = "none" => hold = "none" /\ ~byReaper
  /\ run = "waiting" => hold = "held" /\ now <= Timing!expiresAt
  /\ byReaper => /\ hold = "none" /\ budget = 0 /\ run \in {"started", "closed"}
                 /\ now > Timing!orphanedAt

AttemptInTime ==
  \/ attempt = Timing!NoAttempt
  \/ /\ attempt \in [service : Timing!Participants, phase : {"calling", "recording"}, age : Int]
     /\ attempt.age <= Timing!LatestAge

TimingInv == SettingsHold /\ RunInTime /\ AttemptInTime

(* What the rules leave between the instants of an order. *)
LEMMA RulesGive ==
  ASSUME SettingsHold
  PROVE  /\ Timing!expiresAt \in Int /\ Timing!holdUntil \in Int /\ Timing!overdueAt \in Int
         /\ Timing!expiresAt < Timing!holdUntil /\ Timing!expiresAt < Timing!overdueAt
         /\ Timing!orphanedAt \in Int /\ Timing!orphanedAt > env.CHECKOUT_TRY_TIMEOUT_MS
         /\ Timing!payCutoff \in Int /\ Timing!paymentDeadline \in Int
         /\ env.CHECKOUT_TRY_TIMEOUT_MS \in Int
  BY DEF SettingsHold, Timing!Settings, Timing!CheckoutSagaEnv, Timing!assertCheckoutSagaEnv, Timing!GraceFits,
         Timing!expiresAt, Timing!holdUntil, Timing!overdueAt, Timing!orphanedAt, Timing!paymentDeadline,
         Timing!payCutoff

LEMMA AttemptsFit ==
  ASSUME SettingsHold, NEW service \in Timing!Participants
  PROVE  /\ Timing!CommandTimeout(env, service) \in Nat
         /\ Timing!CommandTimeout(env, service) + 5000 < env.SAGA_ACTIVITY_TIMEOUT_MS
         /\ env.SAGA_ACTIVITY_TIMEOUT_MS \in Int /\ env.SAGA_ACTIVITY_TIMEOUT_MS > 0
  BY DEF SettingsHold, Timing!Settings, Timing!CheckoutSagaEnv, Timing!assertCheckoutSagaEnv,
         Timing!CommandTimeout, Timing!Participants, Timing!RecordAllowance

LEMMA RunKept ==
  ASSUME TimingInv, UNCHANGED <<env, attempt>>,
         \/ Timing!Tick \/ Timing!reserve \/ Timing!reap \/ Timing!planTry \/ Timing!tryReserve
         \/ Timing!payOrder \/ Timing!authorized \/ Timing!onDeadline \/ Timing!releaseLapsedHold
  PROVE  TimingInv'
<1>1. SettingsHold' /\ AttemptInTime'
  BY DEF TimingInv, SettingsHold, AttemptInTime, Timing!LatestAge
<1>2. /\ Timing!expiresAt' = Timing!expiresAt /\ Timing!orphanedAt' = Timing!orphanedAt
  BY DEF Timing!expiresAt, Timing!orphanedAt, Timing!paymentDeadline
<1>3. /\ Timing!expiresAt \in Int /\ Timing!holdUntil \in Int /\ Timing!overdueAt \in Int
      /\ Timing!expiresAt < Timing!holdUntil /\ Timing!expiresAt < Timing!overdueAt
      /\ Timing!orphanedAt \in Int /\ Timing!orphanedAt > env.CHECKOUT_TRY_TIMEOUT_MS
      /\ Timing!payCutoff \in Int /\ Timing!paymentDeadline \in Int
      /\ env.CHECKOUT_TRY_TIMEOUT_MS \in Int
  BY RulesGive DEF TimingInv
<1>4. RunInTime
  BY DEF TimingInv
<1>5. RunInTime'
  <2>1. CASE Timing!Tick
    <3>1. PICK t \in Timing!Instants :
            /\ t > now /\ now' = t /\ \A timer \in Timing!Timers : t <= timer
            /\ UNCHANGED <<run, budget, byReaper, hold>>
      BY <2>1 DEF Timing!Tick
    <3>2. t \in Int
      <4>1. PICK at \in {0, Timing!payCutoff, Timing!paymentDeadline, Timing!orphanedAt, Timing!expiresAt,
                        Timing!overdueAt, Timing!holdUntil, Timing!tryEnds} : t = at \/ t = at + 1
        <5> DEFINE Told == {0, Timing!payCutoff, Timing!paymentDeadline, Timing!orphanedAt, Timing!expiresAt,
                             Timing!overdueAt, Timing!holdUntil}
        <5>1. CASE t \in UNION {{i, i + 1} : i \in Told}
          <6>1. \E i \in Told : t \in {i, i + 1}
            BY <5>1
          <6> QED
            BY <6>1
        <5>2. CASE t = Timing!tryEnds
          BY <5>2
        <5>3. t \in UNION {{i, i + 1} : i \in Told} \/ t = Timing!tryEnds
          BY <3>1 DEF Timing!Instants
        <5> QED
          BY <5>1, <5>2, <5>3
      <4>2. at \in Int
        BY <1>3, <1>4, <4>1 DEF Timing!tryEnds, RunInTime
      <4> QED
        BY <4>1, <4>2
    <3>3. run = "waiting" => t <= Timing!expiresAt
      BY <3>1 DEF Timing!Timers
    <3> QED
      BY <1>2, <1>3, <1>4, <3>1, <3>2, <3>3 DEF RunInTime
  <2>2. CASE Timing!reserve
    BY <1>2, <1>4, <2>2 DEF Timing!reserve, RunInTime
  <2>3. CASE Timing!reap
    BY <1>2, <1>4, <2>3 DEF Timing!reap, RunInTime
  <2>4. CASE Timing!planTry
    BY <1>2, <1>3, <1>4, <2>4 DEF Timing!planTry, Timing!tryEnds, RunInTime
  <2>5. CASE Timing!tryReserve
    BY <1>2, <1>3, <1>4, <2>5 DEF Timing!tryReserve, RunInTime
  <2>6. CASE Timing!payOrder \/ Timing!authorized \/ Timing!onDeadline
    BY <1>2, <1>4, <2>6 DEF Timing!payOrder, Timing!authorized, Timing!onDeadline, RunInTime
  <2>7. CASE Timing!releaseLapsedHold
    BY <1>2, <1>3, <1>4, <2>7 DEF Timing!releaseLapsedHold, RunInTime
  <2> QED
    BY <2>1, <2>2, <2>3, <2>4, <2>5, <2>6, <2>7
<1> QED
  BY <1>1, <1>5 DEF TimingInv

LEMMA AttemptsKept ==
  ASSUME TimingInv, (\E service \in Timing!Participants : Timing!startAttempt(service)) \/ Timing!attemptWorks
  PROVE  TimingInv'
<1>1. UNCHANGED <<env, now, run, budget, byReaper, hold, session>>
  BY DEF Timing!startAttempt, Timing!attemptWorks
<1>2. SettingsHold' /\ RunInTime'
  BY <1>1 DEF TimingInv, SettingsHold, RunInTime, Timing!expiresAt, Timing!orphanedAt, Timing!paymentDeadline
<1>3. AttemptInTime'
  <2>1. ASSUME NEW service \in Timing!Participants, Timing!startAttempt(service)
        PROVE  AttemptInTime'
    <3>1. Timing!CommandTimeout(env, service) \in Nat
      BY AttemptsFit DEF TimingInv
    <3>2. attempt' = [service |-> service, phase |-> "calling", age |-> 0]
      BY <2>1 DEF Timing!startAttempt
    <3>3. Timing!LatestAge' = Timing!CommandTimeout(env, service)
      BY <1>1, <3>1, <3>2 DEF Timing!LatestAge, Timing!CommandTimeout
    <3> QED
      BY <3>1, <3>2, <3>3 DEF AttemptInTime
  <2>2. CASE Timing!attemptWorks
    <3>1. /\ attempt \in [service : Timing!Participants, phase : {"calling", "recording"}, age : Int]
          /\ attempt.age <= Timing!LatestAge
      BY <2>2 DEF TimingInv, AttemptInTime, Timing!attemptWorks
    <3> DEFINE limit == Timing!CommandTimeout(env, attempt.service)
    <3>2. limit \in Nat /\ env.SAGA_ACTIVITY_TIMEOUT_MS \in Int
      BY <3>1, AttemptsFit DEF TimingInv
    <3>3. Timing!LatestAge = limit + (IF attempt.phase = "calling" THEN 0 ELSE 5000)
      BY DEF Timing!LatestAge, Timing!RecordAllowance
    <3>4. attempt'.service = attempt.service =>
            Timing!LatestAge' = limit + (IF attempt'.phase = "calling" THEN 0 ELSE 5000)
      BY <1>1 DEF Timing!LatestAge, Timing!RecordAllowance, Timing!CommandTimeout
    <3>5. Timing!Ages \subseteq Int
      BY <3>2, <3>3 DEF Timing!Ages
    <3> HIDE DEF limit
    <3>6. CASE \E age \in Timing!Ages : age <= Timing!LatestAge /\ attempt' = [attempt EXCEPT !.age = age]
      BY <3>1, <3>3, <3>4, <3>5, <3>6 DEF AttemptInTime
    <3>7. CASE attempt.phase = "calling" /\ attempt' = [attempt EXCEPT !.phase = "recording"]
      BY <3>1, <3>2, <3>3, <3>4, <3>7 DEF AttemptInTime
    <3>8. CASE attempt' = Timing!NoAttempt
      BY <3>8 DEF AttemptInTime, Timing!NoAttempt
    <3> QED
      BY <2>2, <3>6, <3>7, <3>8 DEF Timing!attemptWorks
  <2> QED
    BY <2>1, <2>2
<1> QED
  BY <1>2, <1>3 DEF TimingInv

LEMMA TimingKept == TimingInv /\ [Timing!Next]_(Timing!timingVars) => TimingInv'
<1> SUFFICES ASSUME TimingInv, [Timing!Next]_(Timing!timingVars) PROVE TimingInv'
  OBVIOUS
<1>1. CASE \/ Timing!Tick \/ Timing!reserve \/ Timing!reap \/ Timing!planTry \/ Timing!tryReserve
           \/ Timing!payOrder \/ Timing!authorized \/ Timing!onDeadline \/ Timing!releaseLapsedHold
  <2>1. UNCHANGED <<env, attempt>>
    BY <1>1 DEF Timing!Tick, Timing!reserve, Timing!reap, Timing!planTry, Timing!tryReserve,
       Timing!payOrder, Timing!authorized, Timing!onDeadline, Timing!releaseLapsedHold
  <2> QED
    BY <1>1, <2>1, RunKept
<1>2. CASE UNCHANGED Timing!timingVars
  BY <1>2 DEF Timing!timingVars, TimingInv, SettingsHold, RunInTime, AttemptInTime, Timing!LatestAge,
              Timing!expiresAt, Timing!orphanedAt, Timing!paymentDeadline
<1> QED
  BY <1>1, <1>2, AttemptsKept DEF Timing!Next

(* Under every setting the process accepts the stock is held as long as the saga waits, a run of the   *)
(* reaper holds nothing, and an attempt of an activity ends before the next (assertCheckoutSagaEnv).   *)
THEOREM TimingAlwaysHolds == Timing!Init /\ [][Timing!Next]_(Timing!timingVars) => []TimingHolds
<1>1. Timing!Init => TimingInv
  BY SettingsAssumption DEF Timing!Init, Timing!None, TimingInv, SettingsHold, RunInTime, AttemptInTime
<1>2. TimingInv => TimingHolds
  <2> SUFFICES ASSUME TimingInv PROVE Timing!TimingHolds
    BY DEF TimingHolds
  <2>1. run = "waiting" => hold = "held" /\ now < Timing!overdueAt
    BY RulesGive DEF TimingInv, RunInTime
  <2>2. attempt.age < env.SAGA_ACTIVITY_TIMEOUT_MS
    <3>1. CASE attempt = Timing!NoAttempt
      BY <3>1, AttemptsFit DEF TimingInv, Timing!NoAttempt, Timing!Participants
    <3>2. CASE /\ attempt \in [service : Timing!Participants, phase : {"calling", "recording"}, age : Int]
               /\ attempt.age <= Timing!LatestAge
      BY <3>2, AttemptsFit DEF TimingInv, Timing!LatestAge, Timing!RecordAllowance
    <3> QED
      BY <3>1, <3>2 DEF TimingInv, AttemptInTime
  <2> QED
    BY <2>1, <2>2 DEF TimingInv, RunInTime, Timing!TimingHolds
<1> QED
  BY <1>1, <1>2, TimingKept, PTL
-----------------------------------------------------------------------------
(* The process *)

Timers == Sweeps \cup Schedulers
Stopping == {"stopWorker", "closeJobs", "closeRoutes", "dispose", "teardown", "exited"}
PastStop == Stopping \ {"stopWorker"}

ProcessTypes ==
  /\ phase \in {"serving", "grace"} \cup Stopping
  /\ late \subseteq {"supervisor", "activities", "jobs", "routes"}
  /\ sup \in [pc : {"connecting", "creating", "running", "releasing", "backoff", "stopped"}, closing : BOOLEAN]
  /\ stopRequested \in BOOLEAN /\ link \in BOOLEAN /\ native \in Int
  /\ worker \in {"none", "running", "draining"} /\ act \in Nat

(* The shedder counts the open responses, and the server closes with the last of them. *)
RequestsCountedIn ==
  /\ httpRequest \in [Clients -> {"none", "open", "orphan"}]
  /\ IsFiniteSet(Process!Open) /\ inFlight = Cardinality(Process!Open)
  /\ phase \in {"teardown", "exited"} => Process!Open = {}

(* The supervisor holds a connection from the connect to the release of it, unless the stop that gave  *)
(* up on the supervisor took the connection away.                                                      *)
OneConnection ==
  /\ stopRequested <=> phase \in Stopping
  /\ "supervisor" \in late => phase \in PastStop /\ "activities" \in late
  /\ phase \in PastStop => sup.pc = "stopped" \/ "supervisor" \in late
  /\ native \in 0 .. 1
  /\ sup.pc \notin {"creating", "running"} => ~link
  /\ link => native = 1
  /\ sup.pc \in {"connecting", "creating"} /\ ~link => native = 0
  /\ sup.pc \in {"creating", "running"} /\ ~link => "supervisor" \in late
  /\ sup.pc = "releasing" /\ sup.closing => native = 1
  /\ sup.pc = "releasing" /\ ~sup.closing => native = 0 \/ "supervisor" \in late
  /\ sup.pc \in {"backoff", "stopped"} => native = 0 \/ "supervisor" \in late
  /\ sup.pc = "backoff" /\ ~stopRequested => native = 0

(* An activity is started by a worker that runs, and outlives it only when the run failed or was left. *)
ActivitiesDrained ==
  /\ worker # "none" => sup.pc = "running"
  /\ worker = "running" => ~stopRequested
  /\ sup.pc # "running" => act = 0 \/ "activities" \in late

QueueDrained ==
  /\ jobs \in Int /\ routes \in Int
  /\ phase \in {"closeRoutes", "dispose", "teardown", "exited"} => jobs = 0 \/ {"jobs", "routes"} \subseteq late
  /\ phase \in {"dispose", "teardown", "exited"} => routes = 0 \/ "routes" \in late

(* The flag is set for as long as the work of the tick is under way. *)
OnePass ==
  /\ pass \in [Timers -> [running : BOOLEAN, statements : 0 .. 1, awaited : BOOLEAN]]
  /\ \A s \in Timers : pass[s].running <=> pass[s].statements = 1

ProcessInv == ProcessTypes /\ RequestsCountedIn /\ OneConnection /\ ActivitiesDrained /\ QueueDrained /\ OnePass

LEMMA OpenSize == \A S : Process!Cardinality(S) = Cardinality(S)
  BY DEF Process!Cardinality, Cardinality

LEMMA EarlierPhases ==
  /\ Process!Before("closeJobs") => phase \in {"serving", "grace", "stopWorker"}
  /\ Process!Before("dispose") => phase \in {"serving", "grace", "stopWorker", "closeJobs", "closeRoutes"}
  BY DEF Process!Before, Process!Phases

LEMMA RequestsKept ==
  ASSUME ProcessInv, NEW c \in Clients,
         Process!admit(c) \/ Process!handlerEnds(c) \/ \E how \in {"finished", "gone"} : Process!close(c, how)
  PROVE  ProcessInv'
<1> DEFINE Opened == Process!Open
<1>1. /\ httpRequest \in [Clients -> {"none", "open", "orphan"}]
      /\ IsFiniteSet(Opened) /\ inFlight = Cardinality(Opened)
      /\ phase \in {"teardown", "exited"} => Opened = {}
  BY DEF ProcessInv, RequestsCountedIn
<1>2. /\ UNCHANGED <<phase, late, sup, stopRequested, link, native, worker, act, jobs, routes, pass>>
      /\ httpRequest' \in [Clients -> {"none", "open", "orphan"}]
  BY <1>1 DEF Process!admit, Process!handlerEnds, Process!close, Process!temporal, Process!queue
<1>3. IsFiniteSet(Opened') /\ inFlight' = Cardinality(Opened') /\ (phase \in {"teardown", "exited"} => Opened' = {})
  <2>1. CASE Process!admit(c)
    <3>1. Opened' = Opened \cup {c} /\ c \notin Opened /\ inFlight' = inFlight + 1
      BY <1>1, <2>1 DEF Process!Open, Process!admit
    <3>2. phase \notin {"teardown", "exited"}
      BY <2>1, EarlierPhases DEF Process!admit
    <3> QED
      BY <1>1, <3>1, <3>2, FS_AddElement
  <2>2. CASE Process!handlerEnds(c)
    <3>1. Opened' = Opened /\ inFlight' = inFlight
      BY <1>1, <2>2 DEF Process!Open, Process!handlerEnds
    <3> QED
      BY <1>1, <3>1
  <2>3. CASE \E how \in {"finished", "gone"} : Process!close(c, how)
    <3>1. Opened' = Opened \ {c} /\ c \in Opened /\ inFlight' = inFlight - 1
      BY <1>1, <2>3 DEF Process!Open, Process!close, Process!Closed
    <3> QED
      BY <1>1, <3>1, FS_RemoveElement
  <2> QED
    BY <2>1, <2>2, <2>3
<1>4. RequestsCountedIn'
  BY <1>2, <1>3 DEF RequestsCountedIn
<1>5. ProcessTypes' /\ OneConnection' /\ ActivitiesDrained' /\ QueueDrained' /\ OnePass'
  BY <1>2 DEF ProcessInv, ProcessTypes, OneConnection, ActivitiesDrained, QueueDrained, OnePass
<1> QED
  BY <1>4, <1>5 DEF ProcessInv

LEMMA SuperviseKept == ProcessInv /\ Process!Supervise => ProcessInv'
<1> SUFFICES ASSUME ProcessInv, Process!Supervise PROVE ProcessInv'
  OBVIOUS
<1>1. UNCHANGED <<phase, httpRequest, inFlight, stopRequested, act, jobs, routes, pass>>
  BY DEF Process!Supervise, Process!connect, Process!create, Process!runEnds, Process!release, Process!backoff,
         Process!http, Process!queue
<1>2. late \subseteq late' /\ late' \subseteq late \cup {"activities"}
  BY DEF Process!Supervise, Process!connect, Process!create, Process!runEnds, Process!release, Process!backoff
<1>3. RequestsCountedIn' /\ OnePass'
  BY <1>1 DEF ProcessInv, RequestsCountedIn, OnePass, Process!Open
<1>4. QueueDrained'
  BY <1>1, <1>2 DEF ProcessInv, QueueDrained
<1>5. /\ sup.pc \in {"connecting", "creating", "running", "releasing", "backoff", "stopped"} /\ sup.closing \in BOOLEAN
      /\ ProcessTypes /\ OneConnection /\ ActivitiesDrained
  BY DEF ProcessInv, ProcessTypes
<1>6. ("supervisor" \in late' <=> "supervisor" \in late) /\ ("activities" \in late => "activities" \in late')
  BY <1>2
<1>7. ASSUME sup' \in [pc : {"connecting", "creating", "running", "releasing", "backoff", "stopped"}, closing : BOOLEAN],
             link' \in BOOLEAN, native' \in Int, worker' \in {"none", "running", "draining"}
      PROVE  ProcessTypes'
  <2>1. late' \subseteq {"supervisor", "activities", "jobs", "routes"}
    BY <1>2, <1>5 DEF ProcessTypes
  <2> QED
    BY <1>1, <1>5, <1>7, <2>1 DEF ProcessTypes
<1>8. CASE Process!connect
  <2>1. sup.pc = "connecting" /\ native = 0 /\ ~link /\ worker = "none"
        /\ (phase \in PastStop => "supervisor" \in late)
    BY <1>5, <1>8 DEF Process!connect, OneConnection, ActivitiesDrained, ProcessTypes
  <2>2. \/ native' = 1 /\ stopRequested /\ Process!Releases(TRUE)
        \/ native' = 1 /\ ~stopRequested /\ Process!Goes("creating") /\ link' = TRUE /\ UNCHANGED worker
        \/ native' = 0 /\ Process!Releases(FALSE)
    BY <1>5, <1>8, <2>1 DEF Process!connect, Process!Connected, Process!Goes, Process!Releases, ProcessTypes
  <2>3. ProcessTypes' /\ OneConnection' /\ ActivitiesDrained'
    <3>1. CASE native' = 1 /\ stopRequested /\ Process!Releases(TRUE)
      <4>1. ProcessTypes' /\ sup'.pc = "releasing" /\ sup'.closing = TRUE
        <5>1. sup' = [pc |-> "releasing", closing |-> TRUE] /\ link' = FALSE /\ worker' = "none"
              /\ native' \in Int
          BY <3>1 DEF Process!Releases
        <5>2. sup' \in [pc : {"connecting", "creating", "running", "releasing", "backoff", "stopped"}, closing : BOOLEAN]
          BY <5>1
        <5>3. ProcessTypes'
          BY <1>7, <5>1, <5>2
        <5> QED
          BY <5>1, <5>3
      <4> QED
        BY <1>1, <1>5, <1>6, <2>1, <3>1, <4>1 DEF Process!Releases, OneConnection, ActivitiesDrained
    <3>2. CASE native' = 1 /\ ~stopRequested /\ Process!Goes("creating") /\ link' = TRUE /\ UNCHANGED worker
      <4>1. ProcessTypes' /\ sup'.pc = "creating" /\ sup'.closing = FALSE
        <5>1. sup' = [pc |-> "creating", closing |-> FALSE] /\ worker' = "none"
          BY <2>1, <3>2 DEF Process!Goes
        <5> QED
          BY <1>7, <3>2, <5>1
      <4> QED
        BY <1>1, <1>5, <1>6, <2>1, <3>2, <4>1 DEF OneConnection, ActivitiesDrained
    <3>3. CASE native' = 0 /\ Process!Releases(FALSE)
      <4>1. ProcessTypes' /\ sup'.pc = "releasing" /\ sup'.closing = FALSE
        <5>1. sup' = [pc |-> "releasing", closing |-> FALSE] /\ link' = FALSE /\ worker' = "none"
              /\ native' \in Int
          BY <3>3 DEF Process!Releases
        <5>2. sup' \in [pc : {"connecting", "creating", "running", "releasing", "backoff", "stopped"}, closing : BOOLEAN]
          BY <5>1
        <5>3. ProcessTypes'
          BY <1>7, <5>1, <5>2
        <5> QED
          BY <5>1, <5>3
      <4> QED
        BY <1>1, <1>5, <1>6, <2>1, <3>3, <4>1 DEF Process!Releases, OneConnection, ActivitiesDrained
    <3> QED
      BY <2>2, <3>1, <3>2, <3>3
  <2> QED
    BY <1>3, <1>4, <2>3 DEF ProcessInv
<1>9. CASE Process!create \/ Process!runEnds
  <2>1. /\ sup.pc \in {"creating", "running"} /\ UNCHANGED native
        /\ link \in BOOLEAN /\ native \in Int
        /\ (phase \in PastStop => "supervisor" \in late)
    BY <1>5, <1>9 DEF Process!create, Process!runEnds, OneConnection, ProcessTypes
  <2>2. CASE Process!Releases(link)
    <3>1. ProcessTypes' /\ sup'.pc = "releasing" /\ sup'.closing = link
      BY <1>7, <2>1, <2>2 DEF Process!Releases
    <3>2. act = 0 \/ "activities" \in late'
      <4>1. CASE Process!create
        BY <1>5, <1>6, <4>1 DEF Process!create, ActivitiesDrained
      <4>2. CASE Process!runEnds
        BY <1>5, <4>2 DEF Process!runEnds, ProcessTypes
      <4> QED
        BY <1>9, <4>1, <4>2
    <3>3. OneConnection'
      BY <1>1, <1>5, <1>6, <2>1, <2>2, <3>1 DEF Process!Releases, OneConnection
    <3> QED
      BY <1>1, <1>3, <1>4, <2>2, <3>1, <3>2, <3>3 DEF ProcessInv, Process!Releases, ActivitiesDrained
  <2>3. CASE Process!create /\ Process!Goes("running") /\ worker' = Process!Created /\ UNCHANGED link
    <3>1. /\ worker' \in {"running", "draining"} /\ (worker' = "running" => ~stopRequested)
      BY <2>3 DEF Process!Created
    <3>2. ProcessTypes' /\ sup'.pc = "running" /\ sup'.closing = FALSE
      BY <1>7, <2>1, <2>3, <3>1 DEF Process!Goes
    <3>3. OneConnection'
      BY <1>1, <1>5, <1>6, <2>1, <2>3, <3>2 DEF Process!create, OneConnection
    <3> QED
      BY <1>1, <1>3, <1>4, <3>1, <3>2, <3>3 DEF ProcessInv, ActivitiesDrained
  <2> QED
    BY <1>9, <2>2, <2>3 DEF Process!create, Process!runEnds
<1>10. CASE Process!release \/ Process!backoff
  <2> DEFINE next == IF Process!release THEN Process!AfterRelease
                     ELSE IF stopRequested THEN "stopped" ELSE "connecting"
  <2>1. /\ sup' = [pc |-> next, closing |-> FALSE] /\ UNCHANGED <<link, worker>>
        /\ next \in {"connecting", "backoff", "stopped"} /\ (next # "stopped" <=> ~stopRequested)
        /\ (next = "connecting" => sup.pc = "backoff")
        /\ sup.pc \in {"releasing", "backoff"}
        /\ native' = native - (IF sup.pc = "releasing" /\ sup.closing THEN 1 ELSE 0)
    BY <1>5, <1>10 DEF Process!release, Process!backoff, Process!AfterRelease, Process!Goes, ProcessTypes
  <2> HIDE DEF next
  <2>2. ~link /\ native' \in 0 .. 1 /\ (native' = 0 \/ "supervisor" \in late)
    BY <1>5, <2>1 DEF OneConnection, ProcessTypes
  <2>3. ProcessTypes' /\ sup'.pc = next /\ sup'.closing = FALSE
    <3>1. link' \in BOOLEAN /\ worker' \in {"none", "running", "draining"}
      BY <1>5, <2>1 DEF ProcessTypes
    <3> QED
      BY <1>7, <2>1, <2>2, <3>1
  <2>4. phase \in PastStop => stopRequested
    BY <1>5 DEF OneConnection, PastStop
  <2>5. "supervisor" \in late => stopRequested
    BY <1>5, <2>4 DEF OneConnection
  <2>6. OneConnection'
    BY <1>1, <1>5, <1>6, <2>1, <2>2, <2>3, <2>4, <2>5 DEF OneConnection
  <2>7. ActivitiesDrained'
    BY <1>1, <1>5, <1>6, <2>1, <2>3 DEF ActivitiesDrained
  <2> QED
    BY <1>3, <1>4, <2>3, <2>6, <2>7 DEF ProcessInv
<1> QED
  BY <1>8, <1>9, <1>10 DEF Process!Supervise

LEMMA WorkersKept ==
  ProcessInv /\ (Process!startActivity \/ Process!endActivity \/ Process!takeJob \/ Process!endJob
                 \/ Process!endRoute) => ProcessInv'
<1> SUFFICES ASSUME ProcessInv, \/ Process!startActivity \/ Process!endActivity
                                \/ Process!takeJob \/ Process!endJob \/ Process!endRoute
             PROVE  ProcessInv'
  OBVIOUS
<1>1. UNCHANGED <<phase, late, httpRequest, inFlight, sup, stopRequested, link, native, worker, pass>>
  BY DEF Process!startActivity, Process!endActivity, Process!takeJob, Process!endJob, Process!endRoute,
         Process!http, Process!queue, Process!temporal
<1>2. RequestsCountedIn' /\ OnePass' /\ OneConnection'
  BY <1>1 DEF ProcessInv, RequestsCountedIn, OnePass, Process!Open, OneConnection
<1>3. ProcessTypes' /\ ActivitiesDrained'
  BY <1>1 DEF ProcessInv, ProcessTypes, ActivitiesDrained, Process!temporal,
     Process!startActivity, Process!endActivity, Process!takeJob, Process!endJob, Process!endRoute
<1>4. QueueDrained'
  BY <1>1, EarlierPhases DEF ProcessInv, QueueDrained, Process!queue,
     Process!startActivity, Process!endActivity, Process!takeJob, Process!endJob, Process!endRoute
<1> QED
  BY <1>2, <1>3, <1>4 DEF ProcessInv

LEMMA TimersKept ==
  ASSUME ProcessInv,
         \/ \E s \in Timers : Process!tick(s) \/ Process!passEnds(s)
         \/ \E s \in Sweeps : Process!sweepTimesOut(s)
  PROVE  ProcessInv'
<1>1. PICK s \in Timers : Process!tick(s) \/ Process!passEnds(s) \/ Process!sweepTimesOut(s)
  BY DEF Timers
<1>2. UNCHANGED <<phase, late, httpRequest, inFlight, sup, stopRequested, link, native, worker, act, jobs, routes>>
  BY <1>1 DEF Process!tick, Process!passEnds, Process!sweepTimesOut, Process!http, Process!queue, Process!temporal
<1>3. /\ pass \in [Timers -> [running : BOOLEAN, statements : 0 .. 1, awaited : BOOLEAN]]
      /\ \A t \in Timers : pass[t].running <=> pass[t].statements = 1
  BY DEF ProcessInv, OnePass
<1>4. OnePass'
  <2>1. CASE Process!tick(s)
    BY <1>1, <1>3, <2>1 DEF OnePass, Process!tick, Process!Started
  <2>2. CASE Process!passEnds(s)
    BY <1>1, <1>3, <2>2 DEF OnePass, Process!passEnds
  <2>3. CASE Process!sweepTimesOut(s)
    BY <1>1, <1>3, <2>3 DEF OnePass, Process!sweepTimesOut, Process!TimedOut
  <2> QED
    BY <1>1, <2>1, <2>2, <2>3
<1>5. RequestsCountedIn' /\ OneConnection' /\ ProcessTypes' /\ ActivitiesDrained' /\ QueueDrained'
  BY <1>2 DEF ProcessInv, RequestsCountedIn, Process!Open, OneConnection, ProcessTypes, ActivitiesDrained, QueueDrained
<1> QED
  BY <1>4, <1>5 DEF ProcessInv

LEMMA DrainKept == ProcessInv /\ (Process!signal \/ Process!Drain) => ProcessInv'
<1> SUFFICES ASSUME ProcessInv, Process!signal \/ Process!Drain PROVE ProcessInv'
  OBVIOUS
<1>1. UNCHANGED <<httpRequest, inFlight, act, jobs, routes, pass>>
  BY DEF Process!signal, Process!Drain, Process!stop, Process!stopped, Process!jobsClosed, Process!routesSettled,
         Process!disposed, Process!exit, Process!http, Process!queue, Process!temporal
<1>2. OnePass'
  BY <1>1 DEF ProcessInv, OnePass
<1> USE DEF Process!temporal, Stopping, PastStop
<1>3. RequestsCountedIn'
  <2>1. phase' \in {"teardown", "exited"} => Process!Open = {}
    BY DEF ProcessInv, RequestsCountedIn, Process!signal, Process!Drain, Process!stop, Process!stopped,
       Process!jobsClosed, Process!routesSettled, Process!disposed, Process!exit
  <2>2. Process!Open' = Process!Open
    BY <1>1 DEF Process!Open
  <2> QED
    BY <1>1, <2>1, <2>2 DEF ProcessInv, RequestsCountedIn
<1>4. CASE Process!stopped
  <2>1. /\ late \subseteq late' /\ late' \subseteq late \cup {"supervisor", "activities"}
        /\ "supervisor" \in late' => "activities" \in late'
        /\ sup.pc = "stopped" \/ "supervisor" \in late'
    BY <1>4 DEF ProcessInv, OneConnection, Process!stopped
  <2>2. sup \in [pc : {"connecting", "creating", "running", "releasing", "backoff", "stopped"}, closing : BOOLEAN]
    BY DEF ProcessInv, ProcessTypes
  <2>3. /\ phase = "stopWorker" /\ phase' = "closeJobs" /\ ~link' /\ worker' = "none"
        /\ link' \in BOOLEAN
        /\ native' = native - (IF link /\ sup.pc # "running" THEN 1 ELSE 0)
        /\ UNCHANGED <<sup, stopRequested, act>>
    BY <1>4 DEF Process!stopped
  <2>4. ProcessTypes'
    BY <1>1, <2>1, <2>3 DEF ProcessInv, ProcessTypes
  <2>5. OneConnection'
    BY <2>1, <2>2, <2>3 DEF ProcessInv, OneConnection
  <2>6. ActivitiesDrained'
    BY <2>1, <2>3 DEF ProcessInv, ActivitiesDrained
  <2>7. QueueDrained'
    BY <1>1, <2>1, <2>3 DEF ProcessInv, QueueDrained
  <2> QED
    BY <1>2, <1>3, <2>4, <2>5, <2>6, <2>7 DEF ProcessInv
<1>5. CASE Process!stop
  <2>1. ProcessTypes' /\ OneConnection' /\ ActivitiesDrained' /\ QueueDrained'
    BY <1>1, <1>5 DEF ProcessInv, ProcessTypes, OneConnection, ActivitiesDrained, QueueDrained, Process!stop
  <2> QED
    BY <1>2, <1>3, <2>1 DEF ProcessInv
<1>6. CASE Process!jobsClosed \/ Process!routesSettled
  <2>1. /\ late \subseteq late' /\ late' \subseteq late \cup {"jobs", "routes"}
        /\ phase \in PastStop /\ phase' \in PastStop
        /\ UNCHANGED <<sup, stopRequested, link, native, worker>>
    BY <1>6 DEF Process!jobsClosed, Process!routesSettled, Process!RoutesAwaited
  <2>2. ProcessTypes' /\ OneConnection' /\ ActivitiesDrained'
    <3>1. /\ "supervisor" \in late' <=> "supervisor" \in late
          /\ "activities" \in late' <=> "activities" \in late
          /\ phase' \in Stopping /\ phase \in Stopping
      BY <2>1
    <3>2. late' \subseteq {"supervisor", "activities", "jobs", "routes"}
      BY <2>1 DEF ProcessInv, ProcessTypes
    <3> QED
      BY <1>1, <2>1, <3>1, <3>2 DEF ProcessInv, ProcessTypes, OneConnection, ActivitiesDrained
  <2>3. QueueDrained'
    BY <1>1, <1>6 DEF ProcessInv, QueueDrained, ProcessTypes, Process!jobsClosed, Process!routesSettled,
                      Process!RoutesAwaited
  <2> QED
    BY <1>2, <1>3, <2>2, <2>3 DEF ProcessInv
<1>7. CASE Process!signal \/ Process!disposed \/ Process!exit
  <2>1. /\ UNCHANGED <<late, sup, stopRequested, link, native, worker>>
        /\ \/ phase = "serving" /\ phase' = "grace"
           \/ phase = "dispose" /\ phase' = "teardown"
           \/ phase = "teardown" /\ phase' = "exited"
    BY <1>7 DEF Process!signal, Process!disposed, Process!exit
  <2>2. ProcessTypes' /\ OneConnection' /\ ActivitiesDrained' /\ QueueDrained'
    BY <1>1, <2>1 DEF ProcessInv, ProcessTypes, OneConnection, ActivitiesDrained, QueueDrained
  <2> QED
    BY <1>2, <1>3, <2>2 DEF ProcessInv
<1> QED
  BY <1>4, <1>5, <1>6, <1>7 DEF Process!Drain

LEMMA ProcessKept == ProcessInv /\ [Process!Next]_(Process!vars) => ProcessInv'
<1>1. ASSUME ProcessInv, UNCHANGED Process!vars PROVE ProcessInv'
  BY <1>1 DEF Process!vars, Process!http, Process!temporal, Process!queue, ProcessInv, ProcessTypes, RequestsCountedIn,
     OneConnection, ActivitiesDrained, QueueDrained, OnePass, Process!Open
<1>2. ASSUME ProcessInv, Process!Work PROVE ProcessInv'
  BY <1>2, RequestsKept, WorkersKept, TimersKept DEF Process!Work, Timers
<1> QED
  BY <1>1, <1>2, SuperviseKept, DrainKept DEF Process!Next

LEMMA ProcessStarts == Process!Init => ProcessInv
<1> SUFFICES ASSUME Process!Init PROVE ProcessInv
  OBVIOUS
<1> USE DEF Process!Init, Process!Boots
<1>1. ProcessTypes /\ OneConnection /\ ActivitiesDrained /\ QueueDrained
  <2>1. sup.pc = "connecting" /\ late = {}
    OBVIOUS
  <2>2. sup \in [pc : {"connecting", "creating", "running", "releasing", "backoff", "stopped"}, closing : BOOLEAN]
    OBVIOUS
  <2>3. ProcessTypes
    <3>1. /\ phase = "serving" /\ late = {} /\ stopRequested = FALSE /\ link = FALSE
          /\ native = 0 /\ worker = "none" /\ act = 0
      OBVIOUS
    <3>2. phase \in {"serving", "grace"} \cup Stopping /\ late \subseteq {"supervisor", "activities", "jobs", "routes"}
      BY <3>1
    <3>3. stopRequested \in BOOLEAN /\ link \in BOOLEAN
      BY <3>1
    <3> QED
      BY <2>2, <3>1, <3>2, <3>3 DEF ProcessTypes
  <2>4. OneConnection /\ ActivitiesDrained /\ QueueDrained
    BY <2>1 DEF OneConnection, ActivitiesDrained, QueueDrained, Stopping, PastStop
  <2> QED
    BY <2>3, <2>4
<1>2. RequestsCountedIn
  <2>1. Process!Open = {}
    BY DEF Process!Open
  <2> QED
    BY <2>1, FS_EmptySet DEF RequestsCountedIn
<1>3. OnePass
  <2>1. Process!NotRunning \in [running : BOOLEAN, statements : 0 .. 1, awaited : BOOLEAN]
    BY DEF Process!NotRunning
  <2> QED
    BY <2>1 DEF OnePass, Timers, Process!NotRunning
<1> QED
  BY <1>1, <1>2, <1>3 DEF ProcessInv

(* The shedder counts the open responses, at most one connection to Temporal is open and none once the *)
(* supervisor waits or has ended, and no two ticks of a timer run at once (LoadSheddingMiddleware,     *)
(* CheckoutSagaWorker, RetentionScheduler), for any numbers of clients, slots, timers and faults.      *)
THEOREM NothingEverLeaks == Process!Spec => []NothingLeaks
<1>1. ProcessInv => NothingLeaks
  BY OpenSize DEF ProcessInv, RequestsCountedIn, OneConnection, OnePass, Timers, NothingLeaks, Process!NothingLeaks
<1> QED
  BY <1>1, ProcessStarts, ProcessKept, PTL DEF Process!Spec

(* When the pool, Redis and the queues are torn down nothing accepted is at work, except what outlasted *)
(* the bounded wait for it (GracefulShutdownService and the steps registered with it).                  *)
THEOREM AlwaysDrainsBeforeTeardown == Process!Spec => []DrainsBeforeTeardown
<1>1. ProcessInv => DrainsBeforeTeardown
  BY DEF ProcessInv, RequestsCountedIn, OneConnection, ActivitiesDrained, QueueDrained, PastStop, Stopping,
         DrainsBeforeTeardown, Process!DrainsBeforeTeardown
<1> QED
  BY <1>1, ProcessStarts, ProcessKept, PTL DEF Process!Spec
================================================================================
