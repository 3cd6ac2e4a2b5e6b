---------------------------- MODULE ServiceProcess ----------------------------
(***************************************************************************)
(* The life of one service process: the requests it admits, the queue      *)
(* worker, the Temporal worker and its supervisor (order-service), the     *)
(* timers, and the drain a SIGTERM starts.  The framework runs the hooks   *)
(* of a shutdown in a fixed order: onModuleDestroy (timers are cleared),   *)
(* beforeApplicationShutdown (the grace and the registered steps), the     *)
(* HTTP server's close, and onApplicationShutdown (pool, Redis, breakers). *)
(*                                                                         *)
(* Every wait of the drain is bounded by a timeout; what a wait that timed *)
(* out, or a run that failed, left at work is remembered in late.          *)
(***************************************************************************)
EXTENDS Integers, FiniteSets

CONSTANTS
  Clients,       \* connections a request may arrive on
  MaxInFlight,   \* resilience.loadShedding.maxInFlight
  ActivitySlots, \* activities the Temporal worker runs at once
  JobSlots,      \* queue.workerConcurrency
  Sweeps,        \* the registered retention sweeps
  Schedulers,    \* the other timers: reaper, invariant check, lapsed holds
  MaxFaults      \* bound: failed connects, failed runs and timeouts

(* Assumed where the module is instantiated. *)
SlotAssumption ==
  /\ MaxInFlight \in Nat \ {0} /\ ActivitySlots \in Nat \ {0} /\ JobSlots \in Nat \ {0}
  /\ MaxFaults \in Nat

VARIABLES
  phase,     \* where the process is in its life
  late,      \* the waits of the drain that timed out
  request,   \* per client: its request
  inFlight,  \* the load shedder's counter
  sup,       \* the supervisor of the Temporal worker
  stopRequested,
  link,      \* whether it holds a connection
  native,    \* connections to Temporal that are open
  worker,    \* the worker it holds
  act,       \* activities running
  jobs,      \* queue jobs being processed
  routes,    \* moves to the dead-letter queue under way
  pass,      \* per timer: the running flag, its statements, whether a tick waits for it
  faults

http == <<request, inFlight>>
temporal == <<sup, stopRequested, link, native, worker, act>>
queue == <<jobs, routes>>
vars == <<phase, late, http, temporal, queue, pass, faults>>

Phases == <<"serving", "grace", "stopWorker", "closeJobs", "closeRoutes", "dispose", "teardown", "exited">>
Before(p) == \E i, j \in DOMAIN Phases : Phases[i] = phase /\ Phases[j] = p /\ i < j

Fails == faults < MaxFaults /\ faults' = faults + 1

-----------------------------------------------------------------------------
(* Requests.  One that finds every slot taken is answered 503 and changes nothing. *)

Open == {c \in Clients : request[c] = "open"}

admit(c) ==
  /\ Before("dispose") /\ request[c] = "none" /\ inFlight < MaxInFlight
  /\ request' = [request EXCEPT ![c] = "open"]
  /\ inFlight' = inFlight + 1
  /\ UNCHANGED <<phase, late, temporal, queue, pass, faults>>

(* 'close' fires once, whether the response finished or the client went away first. *)
Closed(how) == 1

(* The handler of a client that went away runs on. *)
close(c, how) ==
  /\ request[c] = "open"
  /\ request' = [request EXCEPT ![c] = IF how = "finished" THEN "none" ELSE "orphan"]
  /\ inFlight' = inFlight - Closed(how)
  /\ UNCHANGED <<phase, late, temporal, queue, pass, faults>>

handlerEnds(c) ==
  /\ request[c] = "orphan"
  /\ request' = [request EXCEPT ![c] = "none"]
  /\ UNCHANGED <<phase, late, inFlight, temporal, queue, pass, faults>>

-----------------------------------------------------------------------------
(* The supervisor of the Temporal worker *)

(* supervise leaves its try block: release takes the connection and the worker away at once and       *)
(* closes the connection next.                                                                        *)
Releases(held) ==
  /\ sup' = [pc |-> "releasing", closing |-> held]
  /\ link' = FALSE /\ worker' = "none"

Goes(pc) == sup' = [pc |-> pc, closing |-> FALSE]

\* Defect: the worker is created although the stop came in during the connect, and left unrun.
ConnectedKeptOn ==
  IF stopRequested
  THEN Goes("stopped") /\ link' = TRUE /\ UNCHANGED worker
  ELSE Goes("creating") /\ link' = TRUE /\ UNCHANGED worker

Connected ==
  IF stopRequested THEN Releases(TRUE) ELSE Goes("creating") /\ link' = TRUE /\ UNCHANGED worker

connect ==
  /\ sup.pc = "connecting"
  /\ \/ native' = native + 1 /\ Connected /\ UNCHANGED faults
     \/ Fails /\ Releases(FALSE) /\ UNCHANGED native
  /\ UNCHANGED <<phase, late, http, stopRequested, act, queue, pass>>

\* Defect: a worker created while the stop came in is left running.
CreatedRunning == "running"

Created == IF stopRequested THEN "draining" ELSE "running"

(* The worker runs even when the stop came in meanwhile, and is shut down at once. *)
create ==
  /\ sup.pc = "creating"
  /\ \/ /\ Goes("running") /\ worker' = Created
        /\ UNCHANGED <<link, faults>>
     \/ Fails /\ Releases(link)
  /\ UNCHANGED <<phase, late, http, stopRequested, native, act, queue, pass>>

(* A run ends by itself only with an error, and leaves its activities; one that drains ends with its activities, or when the     *)
(* force time is up and the SDK fails what still runs.                                                *)
runEnds ==
  /\ sup.pc = "running"
  /\ \/ worker = "running" /\ Fails /\ late' = IF act > 0 THEN late \cup {"activities"} ELSE late
     \/ worker # "running" /\ act = 0 /\ UNCHANGED <<late, faults>>
     \/ worker # "running" /\ act > 0 /\ Fails /\ late' = late \cup {"activities"}
  /\ Releases(link)
  /\ UNCHANGED <<phase, http, stopRequested, native, act, queue, pass>>

AfterRelease == IF stopRequested THEN "stopped" ELSE "backoff"

release ==
  /\ sup.pc = "releasing"
  /\ native' = native - (IF sup.closing THEN 1 ELSE 0)
  /\ Goes(AfterRelease)
  /\ UNCHANGED <<phase, late, http, stopRequested, link, worker, act, queue, pass, faults>>

(* The wait is over, or cancelled by the stop. *)
backoff ==
  /\ sup.pc = "backoff"
  /\ Goes(IF stopRequested THEN "stopped" ELSE "connecting")
  /\ UNCHANGED <<phase, late, http, stopRequested, link, native, worker, act, queue, pass, faults>>

startActivity ==
  /\ worker = "running" /\ act < ActivitySlots
  /\ act' = act + 1
  /\ UNCHANGED <<phase, late, http, sup, stopRequested, link, native, worker, queue, pass, faults>>

endActivity ==
  /\ act > 0 /\ act' = act - 1
  /\ UNCHANGED <<phase, late, http, sup, stopRequested, link, native, worker, queue, pass, faults>>

-----------------------------------------------------------------------------
(* The queue worker *)

takeJob ==
  /\ Before("closeJobs") /\ jobs < JobSlots
  /\ jobs' = jobs + 1
  /\ UNCHANGED <<phase, late, http, temporal, routes, pass, faults>>

(* A failed job's move to the dead-letter queue is started and not awaited. *)
endJob ==
  /\ jobs > 0 /\ jobs' = jobs - 1
  /\ routes' \in {routes, routes + 1} /\ routes' <= JobSlots
  /\ UNCHANGED <<phase, late, http, temporal, pass, faults>>

endRoute ==
  /\ routes > 0 /\ routes' = routes - 1
  /\ UNCHANGED <<phase, late, http, temporal, jobs, pass, faults>>

-----------------------------------------------------------------------------
(* Timers *)

NotRunning == [running |-> FALSE, statements |-> 0, awaited |-> FALSE]

(* Set when the module starts; cleared by onModuleDestroy, the first hook of a shutdown. *)
TimersOn == phase = "serving"

Started(s) == [running |-> TRUE, statements |-> pass[s].statements + 1, awaited |-> s \in Sweeps]

(* A tick that finds the last one still running is skipped. *)
tick(s) ==
  /\ TimersOn /\ ~pass[s].running
  /\ pass' = [pass EXCEPT ![s] = Started(s)]
  /\ UNCHANGED <<phase, late, http, temporal, queue, faults>>

(* The end of the work clears the flag, whether it failed or not. *)
passEnds(s) ==
  /\ pass[s].statements > 0
  /\ pass' = [pass EXCEPT ![s] = [running |-> FALSE, statements |-> @.statements - 1, awaited |-> FALSE]]
  /\ UNCHANGED <<phase, late, http, temporal, queue, faults>>

(* The timeout of a sweep ends the wait and not the statement. *)
TimedOut(s) == [pass[s] EXCEPT !.awaited = FALSE]

sweepTimesOut(s) ==
  /\ pass[s].awaited /\ pass[s].running
  /\ pass' = [pass EXCEPT ![s] = TimedOut(s)]
  /\ UNCHANGED <<phase, late, http, temporal, queue, faults>>

-----------------------------------------------------------------------------
(* The drain *)

signal ==
  /\ phase = "serving"
  /\ phase' = "grace"
  /\ UNCHANGED <<late, http, temporal, queue, pass, faults>>

(* The grace is over: the first step stops the Temporal worker. *)
stop ==
  /\ phase = "grace"
  /\ phase' = "stopWorker"
  /\ stopRequested' = TRUE
  /\ worker' = IF worker = "running" THEN "draining" ELSE worker
  /\ UNCHANGED <<late, http, sup, link, native, act, queue, pass, faults>>

(* stop waits for the supervisor, then releases what is left; the close fails under a worker that     *)
(* still runs.                                                                                        *)
stopped ==
  /\ phase = "stopWorker"
  /\ \/ sup.pc = "stopped" /\ UNCHANGED <<late, faults>>
     \/ sup.pc # "stopped" /\ Fails /\ late' = late \cup {"supervisor", "activities"}
  /\ link' = FALSE /\ worker' = "none"
  /\ native' = native - (IF link /\ sup.pc # "running" THEN 1 ELSE 0)
  /\ phase' = "closeJobs"
  /\ UNCHANGED <<http, sup, stopRequested, act, queue, pass>>

jobsClosed ==
  /\ phase = "closeJobs"
  /\ \/ jobs = 0 /\ UNCHANGED <<late, faults>>
     \/ jobs > 0 /\ Fails /\ late' = late \cup {"jobs", "routes"}
  /\ phase' = "closeRoutes"
  /\ UNCHANGED <<http, temporal, queue, pass>>

\* Defect: the close returns with the worker's.
RoutesUnawaited == UNCHANGED <<late, faults>>

RoutesAwaited ==
  \/ routes = 0 /\ UNCHANGED <<late, faults>>
  \/ routes > 0 /\ Fails /\ late' = late \cup {"routes"}

routesSettled ==
  /\ phase = "closeRoutes"
  /\ RoutesAwaited
  /\ phase' = "dispose"
  /\ UNCHANGED <<http, temporal, queue, pass>>

(* The HTTP server closes with its last connection. *)
disposed ==
  /\ phase = "dispose" /\ Open = {}
  /\ phase' = "teardown"
  /\ UNCHANGED <<late, http, temporal, queue, pass, faults>>

(* Pool, Redis and breakers are shut down, and the process ends. *)
exit ==
  /\ phase = "teardown"
  /\ phase' = "exited"
  /\ UNCHANGED <<late, http, temporal, queue, pass, faults>>

-----------------------------------------------------------------------------

Boots(p) ==
  /\ phase = p /\ late = {}
  /\ request = [c \in Clients |-> "none"] /\ inFlight = 0
  /\ sup = [pc |-> "connecting", closing |-> FALSE]
  /\ stopRequested = FALSE /\ link = FALSE /\ native = 0 /\ worker = "none" /\ act = 0
  /\ jobs = 0 /\ routes = 0
  /\ pass = [s \in Sweeps \cup Schedulers |-> NotRunning]
  /\ faults = 0

Init == Boots("serving")

Supervise == connect \/ create \/ runEnds \/ release \/ backoff
Drain == stop \/ stopped \/ jobsClosed \/ routesSettled \/ disposed \/ exit

Work ==
  \/ \E c \in Clients : admit(c) \/ handlerEnds(c) \/ \E how \in {"finished", "gone"} : close(c, how)
  \/ startActivity \/ endActivity
  \/ takeJob \/ endJob \/ endRoute
  \/ \E s \in Sweeps \cup Schedulers : tick(s) \/ passEnds(s)
  \/ \E s \in Sweeps : sweepTimesOut(s)

Next == phase # "exited" /\ (Supervise \/ signal \/ Drain \/ Work)

(* Awaited promises and timers are served by the event loop, and a response that is open is closed    *)
(* by its handler or its client.                                                                      *)
Fairness ==
  /\ WF_vars(phase # "exited" /\ Supervise) /\ WF_vars(Drain)
  /\ \A c \in Clients : WF_vars(phase # "exited" /\ \E how \in {"finished", "gone"} : close(c, how))
  /\ WF_vars(phase # "exited" /\ endActivity) /\ WF_vars(phase # "exited" /\ endJob)
  /\ WF_vars(phase # "exited" /\ endRoute)

Spec == Init /\ [][Next]_vars /\ Fairness

-----------------------------------------------------------------------------

(* When the pool, Redis and the queues are torn down nothing accepted is still at work: no request    *)
(* with a client, no activity, no job and no move to the dead letters, except what outlasted the      *)
(* bounded wait for it.                                                                               *)
DrainsBeforeTeardown ==
  phase \in {"teardown", "exited"} =>
    /\ Open = {}
    /\ act = 0 \/ "activities" \in late
    /\ jobs = 0 \/ "jobs" \in late
    /\ routes = 0 \/ "routes" \in late

(* Nothing leaks and nothing runs twice, wherever a stop, a gone client or a timeout cuts in: the     *)
(* load shedder counts the open responses, there is at most one connection to Temporal and none once  *)
(* the supervisor waits or has ended, and no two ticks of a timer run at once, also not beside a      *)
(* sweep that outlived its timeout.                                                                   *)
NothingLeaks ==
  /\ inFlight = Cardinality(Open)
  /\ native \in 0 .. 1
  /\ sup.pc \in {"backoff", "stopped"} /\ "supervisor" \notin late => native = 0
  /\ \A s \in Sweeps \cup Schedulers : pass[s].statements <= 1

(* A worker whose connects or runs failed is running again, for as long as the process serves; and a  *)
(* drain, once begun, ends.                                                                           *)
ProcessSettles ==
  /\ []<>(worker = "running" \/ phase # "serving")
  /\ phase # "serving" ~> phase = "exited"
===============================================================================
