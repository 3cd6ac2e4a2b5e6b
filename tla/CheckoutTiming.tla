---------------------------- MODULE CheckoutTiming ----------------------------
(***************************************************************************)
(* The times of one checkout under the settings the order-service accepts  *)
(* at boot.  Times are milliseconds since the order was placed; the clock  *)
(* jumps between the instants that a setting tells apart.  Timers of a     *)
(* running process are punctual; what a process that is down does late is  *)
(* in CheckoutSaga, where nothing is timed.                                *)
(***************************************************************************)
EXTENDS Integers

CONSTANT Candidates  \* settings an operator may try, as sets of values per variable

VARIABLES
  env,       \* the settings the process booted with
  now,
  run,       \* the order's run: none, started, trying, waiting, settling, closed
  budget,    \* when the budget of the Try began: tryStartedAt, or placedAt for the reaper
  byReaper,  \* whether the reaper started the run
  hold,      \* the stock of the order: none, held, lapsed
  session,   \* whether a payment session was opened
  attempt    \* the attempt of an activity: the service it calls, its phase and its age

timingVars == <<env, now, run, budget, byReaper, hold, session, attempt>>

None == -1
BREAKER_HEADROOM_MS == 1000
POOL_SPARE == 5
RecordAllowance == 5000  \* what an activity is given to record an answer it got

Larger(a, b) == IF a >= b THEN a ELSE b
Services == {"inventory-service", "payment-service", "api-internal"}

(* An activity calls a participant; api-internal is read by the checkout request, before any run. *)
Participants == {"inventory-service", "payment-service"}

(* The time a service has to answer a command of an activity. *)
CommandTimeout(e, service) ==
  CASE service = "inventory-service" -> e.INVENTORY_COMMAND_TIMEOUT_MS
    [] service = "payment-service"   -> e.PAYMENT_COMMAND_TIMEOUT_MS
    [] OTHER                         -> e.API_SERVICE_TIMEOUT_MS

BreakerTimeout(e, service) ==
  BREAKER_HEADROOM_MS + IF service = "inventory-service"
                        THEN Larger(e.CHECKOUT_TRY_TIMEOUT_MS, e.INVENTORY_COMMAND_TIMEOUT_MS)
                        ELSE CommandTimeout(e, service)

(* The floors of the single variables, those that no timing here depends on left out: waits and       *)
(* intervals of requests and schedulers, backoff, Temporal's address, the invariant checker.         *)
CheckoutSagaEnv(e) ==
  /\ e.CHECKOUT_PAYMENT_DEADLINE_SEC >= 5 /\ e.CHECKOUT_PAY_CUTOFF_SEC >= 0
  /\ e.CHECKOUT_HOLD_SAFETY_SEC >= 10 /\ e.CHECKOUT_TRY_TIMEOUT_MS >= 500
  /\ e.CHECKOUT_RESERVE_WAIT_MS >= 1000 /\ e.CHECKOUT_RESERVING_ORPHAN_SEC >= 1
  /\ e.SAGA_AUTH_GRACE_SEC >= 0 /\ e.SAGA_ACTIVITY_TIMEOUT_MS >= 1000
  /\ e.SAGA_ACTIVITY_CONCURRENCY \in 1 .. 20 /\ e.SAGA_LOCAL_ACTIVITY_CONCURRENCY \in 1 .. 20
  /\ e.SAGA_OVERDUE_GRACE_SEC >= 1

\* Defect: the grace for a late authorization is not held against the safety of the hold.
GraceUnchecked(e) == e.SAGA_AUTH_GRACE_SEC < e.SAGA_OVERDUE_GRACE_SEC

GraceFits(e) ==
  e.SAGA_AUTH_GRACE_SEC < e.CHECKOUT_HOLD_SAFETY_SEC /\ e.SAGA_AUTH_GRACE_SEC < e.SAGA_OVERDUE_GRACE_SEC

(* The rules between those variables.  A process whose settings break one does not boot. *)
assertCheckoutSagaEnv(e) ==
  /\ \A service \in Participants :
       e.SAGA_ACTIVITY_TIMEOUT_MS > CommandTimeout(e, service) + RecordAllowance
  /\ \A service \in Services : e.SAGA_ACTIVITY_TIMEOUT_MS > BreakerTimeout(e, service)
  /\ e.CHECKOUT_RESERVE_WAIT_MS >= e.CHECKOUT_TRY_TIMEOUT_MS + 2000
  /\ e.CHECKOUT_RESERVING_ORPHAN_SEC * 1000 > e.CHECKOUT_RESERVE_WAIT_MS
  /\ GraceFits(e)
  /\ e.QUEUE_WORKER_CONCURRENCY + e.SAGA_ACTIVITY_CONCURRENCY + e.SAGA_LOCAL_ACTIVITY_CONCURRENCY + POOL_SPARE
       <= e.DB_POOL_MAX
  /\ e.CHECKOUT_PAYMENT_DEADLINE_SEC > e.CHECKOUT_PAY_CUTOFF_SEC

-----------------------------------------------------------------------------
(* Instants of the order *)

paymentDeadline == env.CHECKOUT_PAYMENT_DEADLINE_SEC * 1000
expiresAt == paymentDeadline + env.SAGA_AUTH_GRACE_SEC * 1000
holdUntil == paymentDeadline + env.CHECKOUT_HOLD_SAFETY_SEC * 1000
payCutoff == paymentDeadline - env.CHECKOUT_PAY_CUTOFF_SEC * 1000
orphanedAt == env.CHECKOUT_RESERVING_ORPHAN_SEC * 1000
tryEnds == budget + env.CHECKOUT_TRY_TIMEOUT_MS
overdueAt == paymentDeadline + env.SAGA_OVERDUE_GRACE_SEC * 1000

Instants ==
  (UNION {{t, t + 1} : t \in {0, payCutoff, paymentDeadline, orphanedAt, expiresAt, overdueAt, holdUntil}})
    \union (IF budget = None THEN {} ELSE {tryEnds})

(* The timers of the run that have yet to fire. *)
Timers ==
  (IF run = "trying" THEN {tryEnds} ELSE {}) \union (IF run = "waiting" THEN {expiresAt} ELSE {})

Tick ==
  \E t \in Instants :
    /\ t > now /\ \A timer \in Timers : t <= timer
    /\ now' = t
    /\ UNCHANGED <<env, run, budget, byReaper, hold, session, attempt>>

-----------------------------------------------------------------------------
(* The run *)

(* The checkout starts the run once its transaction has committed; the budget of its Try begins then. *)
reserve ==
  /\ run = "none"
  /\ run' = "started" /\ budget' = now
  /\ UNCHANGED <<env, now, byReaper, hold, session, attempt>>

(* The reaper starts the run of an order that is RESERVING for too long. *)
reap ==
  /\ run = "none" /\ now > orphanedAt
  /\ run' = "started" /\ budget' = 0 /\ byReaper' = TRUE
  /\ UNCHANGED <<env, now, hold, session, attempt>>

(* The worker gets to the Try now, or later. *)
planTry ==
  /\ run = "started"
  /\ run' = IF tryEnds - now > 0 THEN "trying" ELSE "closed"
  /\ UNCHANGED <<env, now, budget, byReaper, hold, session, attempt>>

(* Held, the order waits for its payment, unless its time is up already; or the Try failed. *)
tryReserve ==
  /\ run = "trying"
  /\ \/ /\ now < tryEnds /\ hold' = "held"
        /\ run' = IF expiresAt - now > 0 THEN "waiting" ELSE "closed"
     \/ run' = "closed" /\ UNCHANGED hold
  /\ UNCHANGED <<env, now, budget, byReaper, session, attempt>>

payOrder ==
  /\ run = "waiting" /\ ~session /\ payCutoff >= now
  /\ session' = TRUE
  /\ UNCHANGED <<env, now, run, budget, byReaper, hold, attempt>>

(* The authorization of the session is verified, perhaps in the grace. *)
authorized ==
  /\ run = "waiting" /\ session
  /\ run' = "settling"
  /\ UNCHANGED <<env, now, budget, byReaper, hold, session, attempt>>

onDeadline ==
  /\ run = "waiting" /\ now >= expiresAt
  /\ run' = "closed"
  /\ UNCHANGED <<env, now, budget, byReaper, hold, session, attempt>>

releaseLapsedHold ==
  /\ hold = "held" /\ holdUntil < now
  /\ hold' = "lapsed"
  /\ UNCHANGED <<env, now, run, budget, byReaper, session, attempt>>

-----------------------------------------------------------------------------
(* The attempts of an activity.  Temporal gives up on one that is as old as its timeout and starts    *)
(* the next, but does not stop it.                                                                    *)

NoAttempt == [service |-> "none", phase |-> "none", age |-> 0]

startAttempt(service) ==
  /\ run = "settling" /\ attempt = NoAttempt
  /\ attempt' = [service |-> service, phase |-> "calling", age |-> 0]
  /\ UNCHANGED <<env, now, run, budget, byReaper, hold, session>>

(* The call is over at the abort of its deadline, and the answer recorded soon after. *)
LatestAge ==
  CommandTimeout(env, attempt.service) + IF attempt.phase = "calling" THEN 0 ELSE RecordAllowance

Ages == {CommandTimeout(env, attempt.service), LatestAge, env.SAGA_ACTIVITY_TIMEOUT_MS}

attemptWorks ==
  /\ attempt # NoAttempt
  /\ \/ \E age \in Ages : age > attempt.age /\ age <= LatestAge /\ attempt' = [attempt EXCEPT !.age = age]
     \/ attempt.phase = "calling" /\ attempt' = [attempt EXCEPT !.phase = "recording"]
     \/ attempt.phase = "recording" /\ attempt' = NoAttempt
  /\ UNCHANGED <<env, now, run, budget, byReaper, hold, session>>

-----------------------------------------------------------------------------

(* The settings that are read here are integers of the environment. *)
Settings ==
  [CHECKOUT_PAYMENT_DEADLINE_SEC : Int, CHECKOUT_PAY_CUTOFF_SEC : Int, CHECKOUT_HOLD_SAFETY_SEC : Int,
   CHECKOUT_TRY_TIMEOUT_MS : Int, CHECKOUT_RESERVE_WAIT_MS : Int, CHECKOUT_RESERVING_ORPHAN_SEC : Int,
   SAGA_AUTH_GRACE_SEC : Int, SAGA_OVERDUE_GRACE_SEC : Int, SAGA_ACTIVITY_TIMEOUT_MS : Int,
   PAYMENT_COMMAND_TIMEOUT_MS : Nat, INVENTORY_COMMAND_TIMEOUT_MS : Nat, API_SERVICE_TIMEOUT_MS : Nat,
   SAGA_ACTIVITY_CONCURRENCY : Int, SAGA_LOCAL_ACTIVITY_CONCURRENCY : Int, QUEUE_WORKER_CONCURRENCY : Int,
   DB_POOL_MAX : Int]

Init ==
  /\ env \in {e \in Candidates : CheckoutSagaEnv(e) /\ assertCheckoutSagaEnv(e)}
  /\ now = 0 /\ run = "none" /\ budget = None /\ byReaper = FALSE /\ hold = "none"
  /\ session = FALSE /\ attempt = NoAttempt

Next ==
  \/ Tick \/ reserve \/ reap \/ planTry \/ tryReserve \/ payOrder \/ authorized \/ onDeadline \/ releaseLapsedHold
  \/ (\E service \in Participants : startAttempt(service)) \/ attemptWorks

-----------------------------------------------------------------------------

(* Under every setting the process accepts: the stock stays held for as long as the saga waits, its   *)
(* grace included, and no waiting saga is reported overdue; a run the reaper started is past the      *)
(* budget of its Try and holds nothing; and an attempt of an activity has recorded its answer before   *)
(* Temporal gives up on it and starts the next beside it.                                             *)
TimingHolds ==
  /\ run = "waiting" => hold = "held" /\ now < overdueAt
  /\ byReaper => hold = "none"
  /\ attempt.age < env.SAGA_ACTIVITY_TIMEOUT_MS
===============================================================================
