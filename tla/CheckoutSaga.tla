----------------------------- MODULE CheckoutSaga -----------------------------
(***************************************************************************)
(* order-service's checkout of one order: the Temporal workflow, the order *)
(* row it writes, and the two participants it commands over an unreliable  *)
(* network.                                                                *)
(*                                                                         *)
(* The stock participant is the header of Inventory (its lines follow the  *)
(* header, and its answers stay true: StockTransactionsProofs).  The       *)
(* payment participant is module Payment, whose calls the saga starts.     *)
(*                                                                         *)
(* A workflow task is one step: it takes one signal, update, timer or      *)
(* activity result, applies the pure transition and schedules the commands *)
(* that come back.  An activity that fails or times out is run again while *)
(* the attempt before it may still be running, so whatever a task sends    *)
(* may also take effect unanswered, once more, and after the task is over. *)
(***************************************************************************)
EXTENDS Naturals, Sequences, FiniteSets, ReservationFence

CONSTANTS
  MaxAttempts, Calls, Mismatched, MaxFaults,  \* of Payment
  MaxDeliveries                               \* bound on deliveries of payment.authorized

ASSUME DeliveriesAssumption == MaxDeliveries \in Nat
ASSUME PaymentAssumption ==
  /\ MaxAttempts \in Nat \ {0} /\ Mismatched \subseteq 1 .. MaxAttempts
  /\ MaxFaults \in Nat

VARIABLES
  run,        \* the order's workflow: none, running or closed
  saga,       \* the CheckoutSagaState of the latest run
  tasks,      \* activities scheduled and not finished
  order,      \* orders.status
  stock,      \* the order's header in inventory-service
  try,        \* the one Try request: unsent, sent, or what it was answered
  cancel,     \* the cancel update: none, asked, accepted, confirmed, refused
  delivered,  \* deliveries of payment.authorized so far
  sent,       \* kinds of the finished tasks: attempts of theirs may linger
  announced,  \* the order's events in the outbox, named for the status they tell
  caller,     \* the task that waits for a payment call
  header, authorizedAt, payment, keyGen, webhook, session, intent, fault, call, emitted, answered

Pay == INSTANCE Payment WITH
         MaxAttempts <- MaxAttempts, Calls <- Calls, Mismatched <- Mismatched, MaxFaults <- MaxFaults,
         header <- header, authorizedAt <- authorizedAt, payment <- payment, keyGen <- keyGen,
         webhook <- webhook, session <- session, intent <- intent, fault <- fault, call <- call,
         emitted <- emitted, answered <- answered

payVars == <<header, authorizedAt, payment, keyGen, webhook, session, intent, fault, call, emitted, answered>>
orderRow == <<order, announced>>
sagaVars == <<run, saga, tasks>>
vars == <<sagaVars, orderRow, stock, try, cancel, delivered, sent, caller, payVars>>

-------------------------------------------------------------------------------
(***************************************************************************)
(* The pure transitions of domain/checkout-saga.ts.  Each gives the next   *)
(* state and the tasks its commands amount to; an order change runs before *)
(* the commands listed after it, which wait in its `then`.                 *)
(***************************************************************************)

Task(kind, id, arg, then) == [kind |-> kind, id |-> id, arg |-> arg, then |-> then]
NoTask == Task("NONE", 0, "", {})

initialCheckoutSagaState(mode) ==
  [mode        |-> mode,
   step        |-> IF mode = "checkout" THEN "RESERVING" ELSE "COMPENSATING",
   orderStatus |-> IF mode = "checkout" THEN "RESERVING" ELSE "NONE",
   verifying   |-> {}, voided |-> {}, pending |-> {}, nextCommandId |-> 1]

To(state, commands) == [state |-> state, commands |-> commands]
noop(s) == To(s, {})

changeOrder(to, then) == Task("CHANGE_ORDER", 0, to, then)

(* `first` is the status an order change writes before the compensations, *)
(* or NONE.                                                               *)
compensate(s, first, kinds) ==
  LET issued == {Task(kinds[i], s.nextCommandId + i - 1, "", {}) : i \in DOMAIN kinds} IN
  To([s EXCEPT !.step = "COMPENSATING",
               !.pending = @ \cup {t.id : t \in issued},
               !.nextCommandId = @ + Len(kinds),
               !.orderStatus = IF first = "NONE" THEN @ ELSE first],
     IF first = "NONE" THEN issued ELSE {changeOrder(first, issued)})

onTryResult(s, outcome) ==
  IF s.step # "RESERVING" THEN noop(s)
  ELSE IF outcome = "HELD"
  THEN noop([s EXCEPT !.step = "AWAITING_AUTH", !.orderStatus = "PENDING"])
  ELSE compensate([s EXCEPT !.orderStatus = "REJECTED"], "NONE", <<"RELEASE_STOCK">>)

onAuthorized(s, p) ==
  CASE s.step \in {"COMPENSATING", "COMPENSATED"} ->
         LET seen == [s EXCEPT !.voided = @ \cup {p}] IN
         IF p \in s.voided THEN noop(s)
         ELSE IF s.mode = "lateAuthorization" /\ s.orderStatus = "NONE" THEN noop(seen)
         ELSE compensate(seen, "NONE", <<"CANCEL_PAYMENT">>)
    [] s.step = "AWAITING_AUTH" /\ p \notin s.verifying ->
         To([s EXCEPT !.verifying = @ \cup {p}], {Task("VERIFY_AUTHORIZATION", p, "", {})})
    [] OTHER -> noop(s)

onAuthorizationVerified(s, p, verdict) ==
  LET settled == [s EXCEPT !.verifying = @ \ {p}] IN
  IF s.step # "AWAITING_AUTH" THEN noop(s)
  ELSE IF verdict # "VERIFIED" THEN noop(settled)
  ELSE To([settled EXCEPT !.step = "COMMITTING_STOCK", !.orderStatus = "CONFIRMING"],
          {changeOrder("CONFIRMING", {Task("COMMIT_STOCK", 0, "", {})})})

(* Defect: a refused commit is taken for done. *)
commitAlwaysHeld(s, outcome) == To([s EXCEPT !.step = "CAPTURING"], {Task("CAPTURE_PAYMENT", 0, "", {})})

onCommitResult(s, outcome) ==
  IF s.step # "COMMITTING_STOCK" THEN noop(s)
  ELSE IF outcome = "CONFLICT" THEN compensate(s, "FAILED", <<"CANCEL_PAYMENT">>)
  ELSE To([s EXCEPT !.step = "CAPTURING"], {Task("CAPTURE_PAYMENT", 0, "", {})})

(* Defect: committed stock is not given back when the capture fails. *)
captureWithoutRestock(s, outcome) ==
  IF outcome = "NOT_CAPTURABLE" THEN compensate(s, "FAILED", <<"CANCEL_PAYMENT">>)
  ELSE To([s EXCEPT !.step = "COMPLETED", !.orderStatus = "PAID"], {changeOrder("PAID", {})})

onCaptureResult(s, outcome) ==
  IF s.step # "CAPTURING" THEN noop(s)
  ELSE IF outcome = "NOT_CAPTURABLE" THEN compensate(s, "FAILED", <<"RESTOCK", "CANCEL_PAYMENT">>)
  ELSE To([s EXCEPT !.step = "COMPLETED", !.orderStatus = "PAID"], {changeOrder("PAID", {})})

(* Defect: the deadline forgets the stock. *)
deadlineKeepsStock(s) == compensate(s, "EXPIRED", <<"CANCEL_PAYMENT">>)

onDeadline(s) ==
  IF s.step # "AWAITING_AUTH" THEN noop(s)
  ELSE compensate(s, "EXPIRED", <<"RELEASE_STOCK", "CANCEL_PAYMENT">>)

canCancel(s) == s.step = "AWAITING_AUTH" \/ s.orderStatus = "CANCELLED"

onCancelRequested(s) ==
  IF s.step # "AWAITING_AUTH" THEN noop(s)
  ELSE compensate(s, "CANCELLED", <<"RELEASE_STOCK", "CANCEL_PAYMENT">>)

onCompensationDone(s, id) ==
  LET pending == s.pending \ {id} IN
  IF id \notin s.pending THEN noop(s)
  ELSE noop([s EXCEPT !.pending = pending, !.step = IF pending = {} THEN "COMPENSATED" ELSE @])

onLateAuthorizationContext(s, orderStatus) ==
  LET known == [s EXCEPT !.orderStatus = orderStatus] IN
  IF s.mode # "lateAuthorization" \/ s.orderStatus # "NONE" THEN noop(s)
  ELSE IF orderStatus = "PAID" THEN noop([known EXCEPT !.step = "COMPLETED"])
  ELSE compensate(known, "NONE", <<"CANCEL_PAYMENT">>)

-------------------------------------------------------------------------------
(***************************************************************************)
(* The workflow.                                                           *)
(***************************************************************************)

(* The workflow applies a transition on behalf of the task that ended. *)
apply(finished, transition) ==
  /\ saga' = transition.state
  /\ tasks' = (tasks \ {finished}) \cup transition.commands
  /\ sent' = IF finished = NoTask THEN sent ELSE sent \cup {finished.kind}
  /\ UNCHANGED run

Init ==
  /\ run = "none" /\ saga = initialCheckoutSagaState("checkout") /\ tasks = {}
  /\ order = "RESERVING" /\ stock = "NONE" /\ try = "unsent" /\ cancel = "none"
  /\ delivered = 0 /\ sent = {} /\ announced = <<>>
  /\ caller = [c \in Calls |-> NoTask]
  /\ Pay!Init

(* A run begins, with what its mode has it do first. *)
startRun(mode, state) ==
  /\ run' = "running" /\ saga' = state
  /\ tasks' = {Task(IF mode = "checkout" THEN "TRY" ELSE "LOAD_CONTEXT", 0, "", {})}

(* The reserve update, or the reaper for an order still RESERVING. *)
ensureStarted ==
  /\ run = "none" /\ order = "RESERVING"
  /\ startRun("checkout", initialCheckoutSagaState("checkout"))
  /\ UNCHANGED <<orderRow, stock, try, cancel, delivered, sent, caller, payVars>>

(* attemptTry: out of budget before it starts, the Try is not sent at all. *)
attemptTry ==
  \E t \in tasks :
    /\ t.kind = "TRY" /\ try = "unsent"
    /\ \/ try' = "sent" /\ UNCHANGED tasks
       \/ try' = "unsent" /\ tasks' = {Task("APPLY_TRY", 0, "ABANDONED", {})}
    /\ UNCHANGED <<run, saga, orderRow, stock, cancel, delivered, sent, caller, payVars>>

(* The Try reaches inventory-service, perhaps long after it timed out. *)
tryReserve ==
  /\ try = "sent"
  /\ \/ stock = "NONE" /\ stock' = "HELD" /\ try' = "HELD"
     \/ stock = "NONE" /\ stock' = stock /\ try' \in {"OUT_OF_STOCK", "CONTENDED"}
     \/ /\ stock # "NONE" /\ stock' = stock
        /\ try' = IF decideReservationFence("try", stock) = "conflict" THEN "CONFLICT" ELSE "HELD"
  /\ UNCHANGED <<sagaVars, orderRow, cancel, delivered, sent, caller, payVars>>

(* One attempt: its answer, or TIMEOUT/ERROR when none came. *)
tryAnswered ==
  \E t \in tasks, outcome \in {try, "TIMEOUT"} :
    /\ t.kind = "TRY" /\ try # "unsent" /\ outcome # "sent"
    /\ tasks' = {Task("APPLY_TRY", 0, outcome, {})}
    /\ UNCHANGED <<run, saga, orderRow, stock, try, cancel, delivered, sent, caller, payVars>>

(* The status the saga moves a row from; any other row is left as it is. *)
From(to) ==
  CASE to \in {"PENDING", "REJECTED"}                  -> "RESERVING"
    [] to \in {"CONFIRMING", "EXPIRED", "CANCELLED"}   -> "PENDING"
    [] OTHER                                           -> "CONFIRMING"

(* A row that is placed or settled tells so in the outbox, by the same *)
(* transaction; a rejected one was never heard of.                     *)
EventOf(to) == IF to \in {"CONFIRMING", "REJECTED"} THEN <<>> ELSE <<to>>

(* Defect: an attempt that finds its work done tells of it once more. *)
tellAgain(to) ==
  /\ order' = IF order = From(to) THEN to ELSE order
  /\ announced' = IF order \in {From(to), to} THEN announced \o EventOf(to) ELSE announced

moveTo(to) ==
  \/ order = From(to) /\ order' = to /\ announced' = announced \o EventOf(to)
  \/ order # From(to) /\ UNCHANGED orderRow

(* The local activity writes the row; the workflow learns of it later. *)
applyTryResult ==
  \E t \in tasks :
    /\ t.kind = "APPLY_TRY" /\ order = "RESERVING"
    /\ moveTo(IF t.arg = "HELD" THEN "PENDING" ELSE "REJECTED")
    /\ UNCHANGED <<sagaVars, stock, try, cancel, delivered, sent, caller, payVars>>

tryApplied ==
  \E t \in tasks :
    /\ t.kind = "APPLY_TRY" /\ order # "RESERVING"
    /\ apply(t, onTryResult(saga, t.arg))
    /\ UNCHANGED <<orderRow, stock, try, cancel, delivered, caller, payVars>>

(* The write, and the task done by it; or the answer is lost. *)
applyOrderChange ==
  \E t \in tasks :
    /\ t.kind = "CHANGE_ORDER"
    /\ moveTo(t.arg)
    /\ \/ tasks' = (tasks \ {t}) \cup t.then /\ sent' = sent \cup {t.arg}
       \/ order # order' /\ UNCHANGED <<tasks, sent>>
    /\ UNCHANGED <<run, saga, stock, try, cancel, delivered, caller, payVars>>

(* What an order change of the saga may aim at; the rest throws. *)
SagaTargets == {"CONFIRMING", "PAID", "FAILED", "EXPIRED", "CANCELLED"}

(* An attempt that timed out and commits only now. *)
lateOrderChange ==
  \E to \in sent \cap SagaTargets :
    /\ moveTo(to)
    /\ UNCHANGED <<sagaVars, stock, try, cancel, delivered, sent, caller, payVars>>

(* The signal goes to the running saga; over a closed one it starts a       *)
(* late-authorization run.                                                  *)
notifyAuthorized(p) ==
  \/ run = "running" /\ apply(NoTask, onAuthorized(saga, p))
  \/ /\ run = "closed"
     /\ startRun("lateAuthorization", onAuthorized(initialCheckoutSagaState("lateAuthorization"), p).state)
     /\ UNCHANGED sent

(* payment.authorized is delivered at least once. *)
paymentAuthorized(p) ==
  /\ emitted[p] > 0 /\ delivered < MaxDeliveries
  /\ delivered' = delivered + 1
  /\ notifyAuthorized(p)
  /\ UNCHANGED <<orderRow, stock, try, cancel, caller, payVars>>

loadLateAuthorizationContext ==
  \E t \in tasks :
    /\ t.kind = "LOAD_CONTEXT"
    /\ apply(t, onLateAuthorizationContext(saga, order))
    /\ UNCHANGED <<orderRow, stock, try, cancel, delivered, caller, payVars>>

(* The verdict is read from payment-service, and reaches the saga later. *)
verifyAuthorization ==
  \E t \in tasks :
    /\ t.kind = "VERIFY_AUTHORIZATION" /\ t.arg = ""
    /\ tasks' = (tasks \ {t}) \cup {[t EXCEPT !.arg =
         IF Pay!statusOf.header # "AUTHORIZED" THEN "NOT_AUTHORIZED"
         ELSE IF Pay!statusOf.authorized = t.id THEN "VERIFIED" ELSE "PAYMENT_MISMATCH"]}
    /\ UNCHANGED <<run, saga, orderRow, stock, try, cancel, delivered, sent, caller, payVars>>

authorizationVerified ==
  \E t \in tasks :
    /\ t.kind = "VERIFY_AUTHORIZATION" /\ t.arg # ""
    /\ apply(t, onAuthorizationVerified(saga, t.id, t.arg))
    /\ UNCHANGED <<orderRow, stock, try, cancel, delivered, caller, payVars>>

deadline ==
  /\ run = "running" /\ saga.step = "AWAITING_AUTH"
  /\ apply(NoTask, onDeadline(saga))
  /\ UNCHANGED <<orderRow, stock, try, cancel, delivered, caller, payVars>>

(* Never placed as far as the buyer knows: read as if it did not exist. *)
HIDDEN_FROM_BUYER == {"RESERVING", "REJECTED"}

findForUser == IF order \in HIDDEN_FROM_BUYER THEN "none" ELSE order

(* CancelOrder reads a PENDING row and sends the update; the validator may  *)
(* refuse it; a closed run answers with what became of the order.           *)
requestCancel ==
  /\ findForUser = "PENDING" /\ cancel = "none"
  /\ cancel' = "asked"
  /\ UNCHANGED <<sagaVars, orderRow, stock, try, delivered, sent, caller, payVars>>

cancelUpdate ==
  /\ cancel = "asked"
  /\ \/ /\ run = "running" /\ canCancel(saga)
        /\ cancel' = "accepted"
        /\ apply(NoTask, onCancelRequested(saga))
     \/ /\ run = "closed" \/ ~canCancel(saga)
        /\ cancel' = IF run = "closed" /\ order = "CANCELLED" THEN "confirmed" ELSE "refused"
        /\ UNCHANGED <<sagaVars, sent>>
  /\ UNCHANGED <<orderRow, stock, try, delivered, caller, payVars>>

cancelConfirmed ==
  /\ cancel = "accepted" /\ saga.step = "COMPENSATED"
  /\ cancel' = "confirmed"
  /\ UNCHANGED <<sagaVars, orderRow, stock, try, delivered, sent, caller, payVars>>

close ==
  /\ run = "running" /\ saga.step \in {"COMPLETED", "COMPENSATED"}
  /\ tasks = {} /\ cancel # "accepted"
  /\ run' = "closed"
  /\ UNCHANGED <<saga, tasks, orderRow, stock, try, cancel, delivered, sent, caller, payVars>>

-------------------------------------------------------------------------------
(***************************************************************************)
(* Stock commands: one request is one transaction.  Its answer stays true, *)
(* so it may be read when the transaction commits.                         *)
(***************************************************************************)

StockOp(kind) ==
  CASE kind = "COMMIT_STOCK" -> "commit" [] kind = "RELEASE_STOCK" -> "release" [] kind = "RESTOCK" -> "restock"

StockKinds == {"COMMIT_STOCK", "RELEASE_STOCK", "RESTOCK"}

runStockCommand(op) ==
  stock' = IF decideReservationFence(op, stock) = "apply" THEN FenceNext(op, stock) ELSE stock

StockConflict(op) == decideReservationFence(op, stock) = "conflict"

(* The kinds of request that may still be on their way. *)
InTransit == sent \cup {t.kind : t \in tasks}

commitStock ==
  \E t \in tasks :
    /\ t.kind = "COMMIT_STOCK"
    /\ runStockCommand("commit")
    /\ apply(t, onCommitResult(saga, IF StockConflict("commit") THEN "CONFLICT" ELSE "APPLIED"))
    /\ UNCHANGED <<orderRow, try, cancel, delivered, caller, payVars>>

(* A conflict is thrown as retryable: the task stays. *)
releaseOrRestock ==
  \E t \in tasks :
    /\ t.kind \in {"RELEASE_STOCK", "RESTOCK"}
    /\ runStockCommand(StockOp(t.kind))
    /\ IF StockConflict(StockOp(t.kind))
       THEN UNCHANGED <<sagaVars, sent>>
       ELSE apply(t, onCompensationDone(saga, t.id))
    /\ UNCHANGED <<orderRow, try, cancel, delivered, caller, payVars>>

(* A request takes effect and nobody hears of it. *)
unansweredStockCommand ==
  \E kind \in InTransit \cap StockKinds :
    /\ runStockCommand(StockOp(kind)) /\ stock' # stock
    /\ UNCHANGED <<sagaVars, orderRow, try, cancel, delivered, sent, caller, payVars>>

(* The sweep of lapsed holds. *)
releaseLapsedHold ==
  /\ stock = "HELD" /\ stock' = "RELEASED"
  /\ UNCHANGED <<sagaVars, orderRow, try, cancel, delivered, sent, caller, payVars>>

-------------------------------------------------------------------------------
(***************************************************************************)
(* Payment commands, whose calls take several steps.                       *)
(***************************************************************************)

PayKinds == {"CAPTURE_PAYMENT", "CANCEL_PAYMENT"}

startPayCall(kind, c) == IF kind = "CAPTURE_PAYMENT" THEN Pay!capture(c) ELSE Pay!flip(c)

paymentActivity(c) ==
  \E t \in tasks :
    /\ t.kind \in PayKinds /\ \A d \in Calls : caller[d] # t
    /\ startPayCall(t.kind, c)
    /\ caller' = [caller EXCEPT ![c] = t]
    /\ UNCHANGED <<sagaVars, orderRow, stock, try, cancel, delivered, sent>>

(* A request whose attempt was given up on reaches payment-service. *)
latePaymentRequest(c) ==
  \E kind \in sent \cap PayKinds :
    /\ startPayCall(kind, c)
    /\ UNCHANGED <<sagaVars, orderRow, stock, try, cancel, delivered, sent, caller>>

(* The activity times out; the call it started runs on. *)
activityTimesOut(c) ==
  /\ caller[c] # NoTask
  /\ caller' = [caller EXCEPT ![c] = NoTask]
  /\ UNCHANGED <<sagaVars, orderRow, stock, try, cancel, delivered, sent, payVars>>

(* Conflicts are thrown as retryable: the task stays. *)
paymentAnswered(c) ==
  LET t == caller[c]
      outcome == call[c].seen
  IN
  /\ t # NoTask /\ call[c].pc = "done"
  /\ Pay!CallStops(c)
  /\ caller' = [caller EXCEPT ![c] = NoTask]
  /\ IF outcome \in {"CONFLICT", "CAPTURED_CONFLICT"}
     THEN UNCHANGED <<sagaVars, sent>>
     ELSE apply(t, IF t.kind = "CAPTURE_PAYMENT" THEN onCaptureResult(saga, outcome)
                                                 ELSE onCompensationDone(saga, t.id))
  /\ UNCHANGED <<orderRow, stock, try, cancel, delivered>>

(* A call fails, or its answer is lost: the activity is run again. *)
paymentCallStops(c) ==
  /\ Pay!CallStops(c)
  /\ caller' = [caller EXCEPT ![c] = NoTask]
  /\ UNCHANGED <<sagaVars, orderRow, stock, try, cancel, delivered, sent>>

(* PayOrder opens a session for an order it has read as PENDING; by the time *)
(* its request arrives the order may be anything a placed one becomes.       *)
payOrder(c) == findForUser # "none" /\ Pay!openSession(c)

(* The other steps of payment-service and of Stripe are its own.  A call     *)
(* that throws fails the activity that waits for it.                         *)
paymentService ==
  /\ \/ \E c \in Calls : payOrder(c)
     \/ \E c \in Calls : Pay!Proceed(c) \/ Pay!reconcileHeld(c)
     \/ \E c \in Calls, p \in Pay!Attempts : Pay!Reconcile(c, p) \/ Pay!completed(c, p)
     \/ \E p \in Pay!Attempts : Pay!Outside(p)
  /\ caller' = [c \in Calls |-> IF call'[c] = Pay!Idle THEN NoTask ELSE caller[c]]
  /\ UNCHANGED <<sagaVars, orderRow, stock, try, cancel, delivered, sent>>

-------------------------------------------------------------------------------
Next ==
  \/ ensureStarted \/ attemptTry \/ tryReserve \/ tryAnswered \/ applyTryResult \/ tryApplied
  \/ applyOrderChange \/ lateOrderChange
  \/ \E p \in Pay!Attempts : paymentAuthorized(p)
  \/ loadLateAuthorizationContext \/ verifyAuthorization \/ authorizationVerified
  \/ deadline \/ requestCancel \/ cancelUpdate \/ cancelConfirmed \/ close
  \/ commitStock \/ releaseOrRestock \/ unansweredStockCommand \/ releaseLapsedHold
  \/ \E c \in Calls : \/ paymentActivity(c) \/ latePaymentRequest(c) \/ activityTimesOut(c)
                      \/ paymentAnswered(c) \/ paymentCallStops(c)
  \/ paymentService

Spec == Init /\ [][Next]_vars

(* What the reaper, Temporal and its timers get done: a run is started, and  *)
(* a scheduled task, a due timer and an accepted update are all attended to. *)
SagaStep ==
  \/ ensureStarted \/ attemptTry \/ tryAnswered \/ applyTryResult \/ tryApplied
  \/ applyOrderChange \/ loadLateAuthorizationContext \/ verifyAuthorization \/ authorizationVerified
  \/ deadline \/ cancelUpdate \/ cancelConfirmed \/ close \/ commitStock \/ releaseOrRestock

(* A request on an intent reaches Stripe and is answered, with a 5xx perhaps. *)
Requested(c, pc) ==
  paymentService /\ (Pay!requestIntent(c, pc) \/ (call[c].pc = pc /\ Pay!serverError(c)))

(* Payment activities are retried without limit, and a call made again and   *)
(* again does not fail at the same place for ever.                           *)
Fairness ==
  /\ WF_vars(SagaStep)
  /\ \A c \in Calls : WF_vars(paymentCallStops(c) \/ (Pay!Proceed(c) /\ paymentService))
  /\ SF_vars(\E c \in Calls : paymentActivity(c))
  /\ SF_vars(\E c \in Calls : paymentAnswered(c))
  /\ SF_vars(\E c \in Calls : Pay!releaseSession(c) /\ paymentService)
  /\ SF_vars(\E c \in Calls : Pay!releaseCompleted(c) /\ paymentService)
  /\ SF_vars(\E c \in Calls : Requested(c, "cancel.void"))
  /\ SF_vars(\E c \in Calls : Pay!readIntentAfter(c) /\ paymentService)
  /\ SF_vars(\E c \in Calls : Pay!incrementKeyGen(c) /\ paymentService)
  /\ SF_vars(\E c \in Calls : Pay!recordRelease(c) /\ paymentService)
  /\ SF_vars(\E c \in Calls : Pay!captureRead(c) /\ paymentService)
  /\ SF_vars(\E c \in Calls : Requested(c, "capture.intent"))
  /\ SF_vars(\E c \in Calls : Pay!settle(c) /\ paymentService)

FairSpec == Spec /\ Fairness

-------------------------------------------------------------------------------
Dead == {"FAILED", "EXPIRED", "CANCELLED", "REJECTED"}

Money(state) == \E p \in Pay!Attempts : intent[p] = state

(* Money is taken only from a buyer whose order is going through and whose   *)
(* stock is committed; nobody else is ever charged.                          *)
ChargedIsServed == Money("succeeded") => order \in {"CONFIRMING", "PAID"} /\ stock = "COMMITTED"

TERMINAL_SAGA_STATUSES == Dead \cup {"PAID"}

(* What does not add up between a settled order and its participants. *)
evaluateCheckoutInvariants(status, standing, pay) ==
  LET paid == status = "PAID" IN
  {kind \in {"captured_without_paid", "paid_without_capture", "paid_without_commit",
             "orphan_hold", "authorized_on_dead_order"} :
     CASE kind = "captured_without_paid"    -> ~paid /\ (pay.header = "CAPTURED" \/ "SUCCEEDED" \in pay.attempts)
       [] kind = "paid_without_capture"     -> paid /\ pay.header # "CAPTURED"
       [] kind = "paid_without_commit"      -> paid /\ standing # "COMMITTED"
       [] kind = "orphan_hold"              -> ~paid /\ standing = "HELD"
       [] kind = "authorized_on_dead_order" -> ~paid /\ "AUTHORIZED" \in pay.attempts}

(* Both are read from Temporal's visibility and from the order rows. *)
runningOrderIds == run = "running"
findTerminalSagaOrders == order \in TERMINAL_SAGA_STATUSES

(* The checker judges the settled orders whose saga is not running. *)
check ==
  IF findTerminalSagaOrders /\ ~runningOrderIds
  THEN evaluateCheckoutInvariants(order, stock, Pay!statusOf) ELSE {}

(* Once a run has closed, the order is settled, and the invariant checker    *)
(* never finds anything to report: it agrees with both participants for good.*)
ClosedMeansConsistent == (run = "closed" => order \in TERMINAL_SAGA_STATUSES) /\ check = {}

(* A dead order holds nothing, even where the checker does not look: its     *)
(* stock is back on sale, and Stripe neither holds nor can take its money.   *)
(* And a cancel is confirmed to the buyer only once it is complete.          *)
DeadOrdersHoldNothing ==
  /\ run = "closed" /\ order \in Dead =>
       /\ stock \notin {"HELD", "COMMITTED"}
       /\ \A p \in Pay!Attempts : session[p] # "open" /\ intent[p] \notin {"requires_capture", "succeeded"}
  /\ cancel = "confirmed" =>
       /\ order = "CANCELLED" /\ stock \in {"RELEASED", "FENCED"}
       /\ ~Money("requires_capture") /\ ~Money("succeeded")

(* The other services are told of every order what became of it, once and in *)
(* order, however often the saga's writes are attempted and whatever attempt *)
(* commits late: placed when it was, and one end that is the order's.        *)
OrderToldOnce ==
  announced = CASE order \in {"RESERVING", "REJECTED"}   -> <<>>
                [] order \in {"PENDING", "CONFIRMING"}   -> <<"PENDING">>
                [] OTHER                                 -> <<"PENDING", order>>

(* Every order placed is settled, and every run, a late-authorization run    *)
(* included, comes to its end with all its compensations acknowledged: no    *)
(* crash, timeout, lost answer or 5xx of Stripe leaves one open for ever.    *)
RunsSettle == []<>(run = "closed" /\ order \in TERMINAL_SAGA_STATUSES)
===============================================================================
