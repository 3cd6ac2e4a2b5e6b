--------------------------- MODULE MCServiceProcess ---------------------------
(***************************************************************************)
(* The order service: the gate its checkouts pass, its processes, the      *)
(* breaker of one of their dependencies, and the times of a checkout under *)
(* the settings they boot with.  They share no state, so they are explored *)
(* side by side and not interleaved: a behaviour follows one of them, from *)
(* the start to the end.                                                   *)
(***************************************************************************)
EXTENDS CheckoutGate, TLC

CONSTANTS
  Clients, MaxInFlight, ActivitySlots, JobSlots, Sweeps, Schedulers, MaxFaults,  \* of ServiceProcess
  Calls, VolumeThreshold, ErrorThreshold, MaxWindow,                             \* of OutboundCall
  Candidates                                                                     \* of CheckoutTiming

VARIABLES
  processPart,
  phase, late, httpRequest, inFlight, sup, stopRequested, link, native, worker, act, jobs, routes, pass, faults,
  breaker, trial, window, call, faulted,
  env, now, run, budget, byReaper, hold, session, attempt

processVars ==
  <<phase, late, httpRequest, inFlight, sup, stopRequested, link, native, worker, act, jobs, routes, pass, faults>>
callVars == <<breaker, trial, window, call, faulted>>
timingVars == <<env, now, run, budget, byReaper, hold, session, attempt>>

Process == INSTANCE ServiceProcess WITH request <- httpRequest
Breaker == INSTANCE OutboundCall
Timing == INSTANCE CheckoutTiming

ASSUME ProcessAssumption == Process!SlotAssumption
ASSUME SettingsAssumption == Candidates \subseteq Timing!Settings

(* Settings on both sides of every rule. *)
Tried ==
  [CHECKOUT_PAYMENT_DEADLINE_SEC : {20}, CHECKOUT_PAY_CUTOFF_SEC : {0, 15, 20}, CHECKOUT_HOLD_SAFETY_SEC : {10},
   CHECKOUT_TRY_TIMEOUT_MS : {1000, 1001}, CHECKOUT_RESERVE_WAIT_MS : {3000},
   CHECKOUT_RESERVING_ORPHAN_SEC : {3, 4}, SAGA_AUTH_GRACE_SEC : {0, 9, 11}, SAGA_OVERDUE_GRACE_SEC : {10, 12},
   SAGA_ACTIVITY_TIMEOUT_MS : {12000, 12001}, PAYMENT_COMMAND_TIMEOUT_MS : {7000},
   INVENTORY_COMMAND_TIMEOUT_MS : {5000}, API_SERVICE_TIMEOUT_MS : {2000}, SAGA_ACTIVITY_CONCURRENCY : {2},
   SAGA_LOCAL_ACTIVITY_CONCURRENCY : {2}, QUEUE_WORKER_CONCURRENCY : {5}, DB_POOL_MAX : {13, 14}]

(* The gate's requests and keys are interchangeable.  No temporal property speaks of the gate, and in  *)
(* the other parts nothing holds one of them, so the reduction touches no behaviour those are about.   *)
GateSymmetry == Permutations(Requests) \union Permutations(Keys)

(* A process that has exited takes no step. *)
ProcessInit ==
  /\ Init /\ Breaker!Init /\ Timing!Init
  /\ \/ processPart = "timing" /\ Process!Boots("exited")
     \/ /\ env = CHOOSE e \in Candidates : Timing!CheckoutSagaEnv(e) /\ Timing!assertCheckoutSagaEnv(e)
        /\ \/ processPart = "process" /\ Process!Init
           \/ processPart \in {"calls", "gate"} /\ Process!Boots("exited")

ProcessNext ==
  /\ UNCHANGED processPart
  /\ \/ processPart = "process" /\ Process!Next /\ UNCHANGED <<callVars, timingVars, vars>>
     \/ processPart = "calls" /\ Breaker!Next /\ UNCHANGED <<processVars, timingVars, vars>>
     \/ processPart = "timing" /\ Timing!Next /\ UNCHANGED <<processVars, callVars, vars>>
     \/ processPart = "gate" /\ Next /\ UNCHANGED <<processVars, callVars, timingVars>>

ProcessSpec ==
  /\ ProcessInit /\ [][ProcessNext]_<<processPart, processVars, callVars, timingVars, vars>>
  /\ Process!Fairness

(* DrainsBeforeTeardown of ServiceProcess: nothing accepted is at work once the pool is torn down.     *)
DrainsBeforeTeardown == Process!DrainsBeforeTeardown

(* NothingLeaks of ServiceProcess: no slot, connection or timer is counted or run twice.               *)
NothingLeaks == Process!NothingLeaks

(* ProcessSettles of ServiceProcess: a worker runs again after failures, and a drain ends.             *)
ProcessSettles == Process!ProcessSettles

(* BreakerTells of OutboundCall: a refused call was never asked, and a dependency that only said no   *)
(* never finds its circuit open, where isDownstreamFault is given.                                    *)
BreakerTells == Breaker!BreakerTells

(* TimingHolds of CheckoutTiming: no setting the process accepts lets a hold lapse under a saga that  *)
(* waits, the reaper take stock, or an attempt outlive its timeout.                                   *)
TimingHolds == Timing!TimingHolds
===============================================================================
