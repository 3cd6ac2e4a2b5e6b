---------------------------- MODULE CheckoutGate ----------------------------
(***************************************************************************)
(* POST /orders of one user: the Idempotency-Key row a request claims      *)
(* before its handler runs, the lease after which another request may      *)
(* reclaim it, the order row that carries the key itself, the cap on       *)
(* orders in flight, and the frozen answer a retry replays.                *)
(*                                                                         *)
(* The saga is seen through what it writes: the Try's result and the end   *)
(* of the order. A request is what runs between two awaits.                *)
(***************************************************************************)
EXTENDS Integers, FiniteSets

CONSTANTS
    Requests,       \* requests that can be in flight at a time
    Keys,           \* Idempotency-Keys
    NoKey,          \* the cleared idempotency_key of a rejected order
    MaxPending,     \* MAX_PENDING_ORDERS_PER_USER
    MaxClaims,      \* bound: claims ever made
    MaxOrders       \* bound: orders ever created

ASSUME GateAssumption ==
    /\ {MaxPending, MaxClaims, MaxOrders} \subseteq Nat \ {0}
    /\ NoKey \notin Keys

VARIABLES
    row,      \* key -> its idempotency_keys row
    lapsed,   \* claims older than IN_PROGRESS_LEASE_MS
    claims,   \* claims made so far
    order,    \* order -> its row
    request,  \* request -> where it is
    answers   \* the orders answered with 201, by key

vars == <<row, lapsed, claims, order, request, answers>>

Orders == 1..MaxOrders
NoRow == [status |-> "none", claim |-> 0, order |-> 0]
NoOrder == [status |-> "none", key |-> NoKey, placedUnder |-> NoKey]
Idle == [pc |-> "idle", key |-> NoKey, claim |-> 0, order |-> 0]
\* PENDING stands for CONFIRMING too: both are placed and in flight.
InFlightStatus == {"RESERVING", "PENDING"}
PlacedStatus == {"PENDING", "SETTLED"}

Init ==
    /\ row = [k \in Keys |-> NoRow]
    /\ lapsed = {}
    /\ claims = 0
    /\ order = [o \in Orders |-> NoOrder]
    /\ request = [r \in Requests |-> Idle]
    /\ answers = [k \in Keys |-> {}]

At(r, pc) == request[r].pc = pc
Go(r, pc) == request' = [request EXCEPT ![r].pc = pc]
End(r) == request' = [request EXCEPT ![r] = Idle]
Answer(r, o) == answers' = [answers EXCEPT ![request[r].key] = @ \union {o}] /\ End(r)

----------------------------------------------------------------------------
\* IdempotencyInterceptor.

arrive(r, k) ==
    /\ At(r, "idle")
    /\ request' = [request EXCEPT ![r] = [Idle EXCEPT !.pc = "find", !.key = k]]
    /\ UNCHANGED <<row, lapsed, claims, order, answers>>

\* What the row read decides: a frozen answer is replayed, a claim within its lease is a 409, a
\* lapsed one is reclaimed. No row on the second read is a 409 too.
findByScopeAndKey(r) ==
    LET found == row[request[r].key] IN
    /\ At(r, "find") \/ At(r, "findAgain")
    /\ \/ /\ found.status = "none"
          /\ IF At(r, "find") THEN Go(r, "insert") ELSE End(r)
          /\ UNCHANGED answers
       \/ /\ found.status = "COMPLETED"
          /\ Answer(r, found.order)
       \/ /\ found.status = "IN_PROGRESS" /\ found.claim \notin lapsed
          /\ End(r) /\ UNCHANGED answers
       \/ /\ found.status = "IN_PROGRESS" /\ found.claim \in lapsed
          /\ request' = [request EXCEPT ![r].pc = "reclaim", ![r].claim = found.claim]
          /\ UNCHANGED answers
    /\ UNCHANGED <<row, lapsed, claims, order>>

\* INSERT ... ON CONFLICT DO NOTHING: a loser reads again, or answers 409 if it was reclaiming.
tryInsertInProgress(r) ==
    LET k == request[r].key IN
    /\ At(r, "insert") \/ At(r, "reinsert")
    /\ IF row[k].status = "none"
       THEN /\ claims < MaxClaims
            /\ claims' = claims + 1
            /\ row' = [row EXCEPT ![k] = [status |-> "IN_PROGRESS", claim |-> claims + 1, order |-> 0]]
            /\ request' = [request EXCEPT ![r].pc = "create", ![r].claim = claims + 1]
       ELSE /\ IF At(r, "insert") THEN Go(r, "findAgain") ELSE End(r)
            /\ UNCHANGED <<row, claims>>
    /\ UNCHANGED <<lapsed, order, answers>>

\* Scoped by the cutoff: of the key's rows only the one that was read as lapsed is older.
deleteExpiredInProgress(r) ==
    LET k == request[r].key IN
    /\ At(r, "reclaim")
    /\ row' = IF row[k].status = "IN_PROGRESS" /\ row[k].claim = request[r].claim
              THEN [row EXCEPT ![k] = NoRow] ELSE row
    /\ Go(r, "reinsert")
    /\ UNCHANGED <<lapsed, claims, order, answers>>

\* The handler threw: the request drops its own claim, or fails to, and answers an error.
deleteInProgress(r) ==
    LET k == request[r].key IN
    /\ At(r, "failed")
    /\ \/ row' = IF row[k].status = "IN_PROGRESS" /\ row[k].claim = request[r].claim
                 THEN [row EXCEPT ![k] = NoRow] ELSE row
       \/ UNCHANGED row
    /\ End(r)
    /\ UNCHANGED <<lapsed, claims, order, answers>>

----------------------------------------------------------------------------
\* CheckoutOrderUseCase.

\* The key's row, whoever claimed it, answers with this order from now on.
markCompleted(k, o) ==
    row' = IF row[k].status = "none" THEN row
           ELSE [row EXCEPT ![k] = [@ EXCEPT !.status = "COMPLETED", !.order = o]]

\* The cart snapshot is refused, or the id service or the database does not answer.
handlerFails(r) ==
    /\ At(r, "create")
    /\ Go(r, "failed")
    /\ UNCHANGED <<row, lapsed, claims, order, answers>>

WithKey(k) == {o \in Orders : order[o].key = k}
Unused == {o \in Orders : order[o].status = "none"}

\* Defect: RESERVING orders do not count against the cap.
PendingOnly == {o \in Orders : order[o].status = "PENDING"}

InFlight == {o \in Orders : order[o].status \in InFlightStatus}

\* The transaction behind the user's advisory lock: the order that carries the key already, or the
\* cap, or a new order.
createReserving(r) ==
    LET k == request[r].key IN
    /\ At(r, "create")
    /\ \/ \E o \in WithKey(k) :
            /\ request' = [request EXCEPT ![r].order = o,
                             ![r].pc = IF order[o].status = "RESERVING" THEN "reserveAgain" ELSE "replay"]
            /\ UNCHANGED order
       \/ /\ WithKey(k) = {} /\ Cardinality(InFlight) >= MaxPending
          /\ Go(r, "failed") /\ UNCHANGED order
       \/ /\ WithKey(k) = {} /\ Cardinality(InFlight) < MaxPending
          /\ \E o \in Unused :
               /\ \A u \in Unused : o <= u
               /\ order' = [order EXCEPT ![o] = [status |-> "RESERVING", key |-> k, placedUnder |-> k]]
               /\ request' = [request EXCEPT ![r].order = o, ![r].pc = "reserve"]
    /\ UNCHANGED <<row, lapsed, claims, answers>>

\* engine.reserve: the Try's outcome, which the saga has written by then; a run already closed,
\* where the row decides the same way; or no answer in time, a 503 like a refusal.
reserve(r) ==
    LET o == request[r].order IN
    /\ At(r, "reserve") \/ At(r, "reserveAgain")
    /\ \/ /\ order[o].status \in PlacedStatus
          /\ IF At(r, "reserve") THEN Answer(r, o) ELSE Go(r, "replay") /\ UNCHANGED answers
       \/ /\ order[o].status = "SETTLED" /\ At(r, "reserve")
          /\ Go(r, "replay") /\ UNCHANGED answers
       \/ /\ Go(r, "failed") /\ UNCHANGED answers
    /\ UNCHANGED <<row, lapsed, claims, order>>

\* An order placed by an earlier attempt: the key this request holds is pointed at it.
replay(r) ==
    /\ At(r, "replay")
    /\ markCompleted(request[r].key, request[r].order)
    /\ Answer(r, request[r].order)
    /\ UNCHANGED <<lapsed, claims, order>>

\* The process dies; its claim stays behind.
crash(r) ==
    /\ ~At(r, "idle")
    /\ End(r)
    /\ UNCHANGED <<row, lapsed, claims, order, answers>>

----------------------------------------------------------------------------
\* The saga, time and the sweep.

\* Defect: a placed order loses its key like a rejected one.
tryHeldClearingKey(o) ==
    /\ order[o].status = "RESERVING"
    /\ order' = [order EXCEPT ![o].status = "PENDING", ![o].key = NoKey]
    /\ markCompleted(order[o].key, o)
    /\ UNCHANGED <<lapsed, claims, request, answers>>

\* applyTryResult, tx B: the order is placed and its key frozen in one transaction.
tryHeld(o) ==
    /\ order[o].status = "RESERVING"
    /\ order' = [order EXCEPT ![o].status = "PENDING"]
    /\ markCompleted(order[o].key, o)
    /\ UNCHANGED <<lapsed, claims, request, answers>>

\* applyTryResult: a refused Try clears the order's key, so a retry may place a fresh order.
tryRejected(o) ==
    /\ order[o].status = "RESERVING"
    /\ order' = [order EXCEPT ![o].status = "REJECTED", ![o].key = NoKey]
    /\ UNCHANGED <<row, lapsed, claims, request, answers>>

\* Paid, cancelled, expired or failed: no longer in flight.
settle(o) ==
    /\ order[o].status = "PENDING"
    /\ order' = [order EXCEPT ![o].status = "SETTLED"]
    /\ UNCHANGED <<row, lapsed, claims, request, answers>>

leaseLapses(k) ==
    /\ row[k].status = "IN_PROGRESS"
    /\ lapsed' = lapsed \union {row[k].claim}
    /\ UNCHANGED <<row, claims, order, request, answers>>

\* DELETE ... WHERE expires_at < cutoff, whatever the row's status.
deleteExpired(k) ==
    /\ row[k].status # "none"
    /\ row' = [row EXCEPT ![k] = NoRow]

\* The key's TTL is a day: no request that read the row is still running.
sweepIdempotencyKeys(k) ==
    /\ \A r \in Requests : request[r].key # k
    /\ deleteExpired(k)
    /\ UNCHANGED <<lapsed, claims, order, request, answers>>

\* Only a rejected order goes, its items with it; its id is never used again.
deleteRejectedBefore(o) ==
    /\ order[o].status = "REJECTED"
    /\ order' = [order EXCEPT ![o].status = "deleted"]

\* Rejected orders are kept for days: no request that created one is still running.
sweepRejectedOrders(o) ==
    /\ \A r \in Requests : request[r].order # o
    /\ deleteRejectedBefore(o)
    /\ UNCHANGED <<row, lapsed, claims, request, answers>>

Handle(r) ==
    \/ findByScopeAndKey(r) \/ tryInsertInProgress(r) \/ deleteExpiredInProgress(r) \/ deleteInProgress(r)
    \/ handlerFails(r) \/ createReserving(r) \/ reserve(r) \/ replay(r) \/ crash(r)

Next ==
    \/ \E r \in Requests, k \in Keys : arrive(r, k)
    \/ \E r \in Requests : Handle(r)
    \/ \E o \in Orders : tryHeld(o) \/ tryRejected(o) \/ settle(o) \/ sweepRejectedOrders(o)
    \/ \E k \in Keys : leaseLapses(k) \/ sweepIdempotencyKeys(k)

Spec == Init /\ [][Next]_vars

----------------------------------------------------------------------------
\* However often a checkout is retried under its key, whatever is reclaimed or swept, one key
\* places at most one order (checkout-order.use-case.ts, uq_orders_user_idempotency_key), and every
\* 201 under the key, the frozen row a later retry will replay included, names that placed order.
OneOrderPerKey ==
    \A k \in Keys :
        LET placed == {o \in Orders : order[o].placedUnder = k /\ order[o].status \in PlacedStatus}
            named == answers[k] \union {o \in Orders : row[k].status = "COMPLETED" /\ row[k].order = o} IN
        Cardinality(placed) <= 1 /\ Cardinality(named) <= 1 /\ \A o \in named : order[o].status \in PlacedStatus

\* The user never has more orders in flight than the cap, however many checkouts run at once
\* (drizzle-order.repository.ts, the count behind the advisory lock).
PendingCap == Cardinality({o \in Orders : order[o].status \in InFlightStatus}) <= MaxPending
=============================================================================
