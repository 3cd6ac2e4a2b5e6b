----------------------------- MODULE Messaging -----------------------------
(***************************************************************************)
(* Domain events from the producer's outbox to the consumer's inbox: the   *)
(* relay that publishes unpublished rows, the BullMQ queue, the workers    *)
(* that claim a message in the inbox and apply it in the same transaction, *)
(* the dead-letter router, the operator's replay of dead letters and the   *)
(* retention sweeps (packages/messaging).                                  *)
(*                                                                         *)
(* Time is counted in days, the unit of the retention windows.             *)
(***************************************************************************)
EXTENDS Integers, FiniteSets

CONSTANTS
    Messages,             \* outbox row ids; the job id and the inbox key of an event
    Workers,              \* the concurrent deliveries the workers can run
    Nobody,               \* no worker holds the job's lock
    Attempts,             \* attempts of a job before it is failed
    MaxRefusalsPerTick,   \* refusals that end a relay tick
    InboxRetention,       \* RETENTION_INBOX_DAYS
    FailRetention,        \* REMOVE_ON_FAIL_AGE_SEC in days
    MaxTime,              \* bound: days
    MaxFaults,            \* bound: crashes, refusals and lost answers
    MaxFailures           \* bound: times a message is failed

ASSUME RetentionAssumption ==
    /\ {InboxRetention, FailRetention, MaxTime, MaxFaults} \subseteq Nat
    /\ {Attempts, MaxRefusalsPerTick, MaxFailures} \subseteq Nat \ {0}
    /\ InboxRetention >= FailRetention      \* assertClearsRedeliveryHorizon, at boot
    /\ Nobody \notin Workers

ASSUME WorkersAssumption == IsFiniteSet(Workers)

VARIABLES
    now,        \* the day
    outbox,     \* message -> its row: none, unpublished, published or swept
    bornAt,     \* message -> created_at, the envelope's occurredAt
    relay,      \* the relay's open transaction
    job,        \* message -> its job in the main queue
    dlq,        \* message -> the failure its dead-letter entry describes, 0 for no entry
    worker,     \* worker -> the delivery it runs
    inbox,      \* message -> the day of its claim, or Unclaimed
    replay,     \* the replay CLI
    applied,    \* message -> how often its effect was committed
    mailed,     \* message -> how often its post-commit effect ran
    forwarded,  \* messages whose prepare step went through
    forgotten,  \* messages whose failed job left the main queue with nothing in its place
    failures,   \* message -> times its job was failed
    backlogged, \* history: applied messages a backlog kept from a further delivery for too long
    retriedLate, \* history: applied messages retried in place later than FailRetention allows for
    faults      \* faults so far

queueVars == <<job, dlq>>
effectVars == <<inbox, applied, mailed, forwarded>>
boundVars == <<forgotten, failures>>
lateVars == <<backlogged, retriedLate>>
vars == <<now, outbox, bornAt, relay, queueVars, worker, effectVars, replay, boundVars, lateVars, faults>>

Unclaimed == -1
NeverFailed == -1

\* A job nobody runs and nobody tried. failedAt is its last failure, which the queue counts from,
\* and firstFailedAt its first.
Job(state, failedAt, firstFailedAt) ==
    [state |-> state, owner |-> Nobody, tries |-> 0, stalled |-> FALSE, doomed |-> FALSE,
     failedAt |-> failedAt, firstFailedAt |-> firstFailedAt]

NoJob == Job("none", NeverFailed, NeverFailed)
NewJob == Job("waiting", NeverFailed, NeverFailed)
IdleRelay == [open |-> FALSE, rows |-> {}, done |-> {}, refused |-> {}]
IdleWorker == [pc |-> "idle", msg |-> {}, result |-> "none", failure |-> 0]
IdleReplay == [pc |-> "idle", msg |-> {}, failure |-> 0]

Init ==
    /\ now = 0
    /\ outbox = [m \in Messages |-> "none"]
    /\ bornAt = [m \in Messages |-> 0]
    /\ relay = IdleRelay
    /\ job = [m \in Messages |-> NoJob]
    /\ dlq = [m \in Messages |-> 0]
    /\ worker = [w \in Workers |-> IdleWorker]
    /\ inbox = [m \in Messages |-> Unclaimed]
    /\ replay = IdleReplay
    /\ applied = [m \in Messages |-> 0]
    /\ mailed = [m \in Messages |-> 0]
    /\ forwarded = {}
    /\ forgotten = {}
    /\ failures = [m \in Messages |-> 0]
    /\ backlogged = {} /\ retriedLate = {}
    /\ faults = 0

Fault == faults < MaxFaults /\ faults' = faults + 1

----------------------------------------------------------------------------
\* Producer and relay.

\* The row is written by the transaction of the change the event describes.
append(m) ==
    /\ outbox[m] = "none"
    /\ outbox' = [outbox EXCEPT ![m] = "unpublished"]
    /\ bornAt' = [bornAt EXCEPT ![m] = now]
    /\ UNCHANGED <<now, relay, queueVars, worker, effectVars, replay, boundVars, faults, lateVars>>

\* Queue.add with a job id the queue still knows, in whatever state, is ignored.
QueueAdd(m) ==
    /\ job' = IF job[m].state = "none" THEN [job EXCEPT ![m] = NewJob] ELSE job
    /\ forgotten' = forgotten \ {m}

\* The tick locks the unpublished rows; a second relay skips locked rows.
lockUnpublished ==
    /\ ~relay.open
    /\ \E m \in Messages : outbox[m] = "unpublished"
    /\ relay' = [IdleRelay EXCEPT !.open = TRUE, !.rows = {m \in Messages : outbox[m] = "unpublished"}]
    /\ UNCHANGED <<now, outbox, bornAt, queueVars, worker, effectVars, replay, boundVars, faults, lateVars>>

TickIsOver == relay.rows = {} \/ Cardinality(relay.refused) >= MaxRefusalsPerTick

\* publish lands: the job is on the queue whether or not the mark commits.
publish(m) ==
    /\ m \in relay.rows /\ ~TickIsOver
    /\ QueueAdd(m)
    /\ relay' = [relay EXCEPT !.rows = @ \ {m}, !.done = @ \union {m}]
    /\ UNCHANGED <<now, outbox, bornAt, dlq, worker, effectVars, replay, failures, faults, lateVars>>

\* publish throws; the command may have reached Redis before its answer was lost.
publishRefused(m) ==
    /\ m \in relay.rows /\ ~TickIsOver
    /\ QueueAdd(m) \/ UNCHANGED <<job, forgotten>>
    /\ relay' = [relay EXCEPT !.rows = @ \ {m}, !.refused = @ \union {m}]
    /\ Fault
    /\ UNCHANGED <<now, outbox, bornAt, dlq, worker, effectVars, replay, failures, lateVars>>

\* The transaction commits publishedAt of every row published in this tick.
relayCommit ==
    /\ relay.open /\ TickIsOver
    /\ outbox' = [m \in Messages |-> IF m \in relay.done THEN "published" ELSE outbox[m]]
    /\ relay' = IdleRelay
    /\ UNCHANGED <<now, bornAt, queueVars, worker, effectVars, replay, boundVars, faults, lateVars>>

\* The relay dies, or its transaction fails: every mark is rolled back.
relayAbort ==
    /\ relay.open
    /\ relay' = IdleRelay
    /\ Fault
    /\ UNCHANGED <<now, outbox, bornAt, queueVars, worker, effectVars, replay, boundVars, lateVars>>

----------------------------------------------------------------------------
\* A delivery: DomainEventProcessor.process under a BullMQ worker.

\* The worker takes the job and its lock. A job that stalled once too often is failed on pickup.
take(w, m) ==
    /\ worker[w].pc = "idle" /\ job[m].state = "waiting"
    /\ job' = [job EXCEPT ![m].state = "active", ![m].owner = w]
    /\ worker' = [worker EXCEPT ![w] = IF job[m].doomed
                    THEN [IdleWorker EXCEPT !.pc = "nack", !.msg = {m}, !.result = "permanent"]
                    ELSE [IdleWorker EXCEPT !.pc = "prepare", !.msg = {m}]]
    /\ UNCHANGED <<now, outbox, bornAt, relay, dlq, effectVars, replay, boundVars, faults, lateVars>>

Delivering(w, m, pc) == worker[w].pc = pc /\ worker[w].msg = {m}

\* dispatcher.prepare, settled rather than awaited. For payment.authorized it signals the saga.
prepare(w, m) ==
    /\ Delivering(w, m, "prepare")
    /\ \E result \in {"ok", "transient", "permanent"} :
         /\ worker' = [worker EXCEPT ![w].pc = "claim", ![w].result = result]
         /\ forwarded' = IF result = "ok" THEN forwarded \union {m} ELSE forwarded
    /\ UNCHANGED <<now, outbox, bornAt, relay, queueVars, inbox, applied, mailed, replay, boundVars, faults, lateVars>>

\* The transaction: claim, then the prepared step, both or neither. A duplicate succeeds even if
\* its prepare failed.
Claims(w, m) == inbox[m] = Unclaimed /\ worker[w].result = "ok"

claimAndApply(w, m) ==
    /\ Delivering(w, m, "claim")
    /\ worker' = [worker EXCEPT ![w].pc = CASE inbox[m] # Unclaimed -> "ack"
                                            [] Claims(w, m)         -> "effect"
                                            [] OTHER                -> "nack"]
    /\ inbox' = IF Claims(w, m) THEN [inbox EXCEPT ![m] = now] ELSE inbox
    /\ applied' = IF Claims(w, m) THEN [applied EXCEPT ![m] = @ + 1] ELSE applied
    /\ UNCHANGED <<now, outbox, bornAt, relay, queueVars, mailed, forwarded, replay, boundVars, faults, lateVars>>

\* The database fails the transaction, or commits it and the answer is lost: the delivery fails.
transactionFails(w, m) ==
    /\ Delivering(w, m, "claim")
    /\ worker' = [worker EXCEPT ![w].pc = "nack", ![w].result = "transient"]
    /\ \/ UNCHANGED <<inbox, applied>>
       \/ /\ Claims(w, m)
          /\ inbox' = [inbox EXCEPT ![m] = now]
          /\ applied' = [applied EXCEPT ![m] = @ + 1]
    /\ Fault
    /\ UNCHANGED <<now, outbox, bornAt, relay, queueVars, mailed, forwarded, replay, boundVars, lateVars>>

\* The post-commit effect; its failure is logged and never fails the consume.
runPostCommit(w, m) ==
    /\ Delivering(w, m, "effect")
    /\ mailed' = [mailed EXCEPT ![m] = @ + 1]
    /\ worker' = [worker EXCEPT ![w].pc = "ack"]
    /\ UNCHANGED <<now, outbox, bornAt, relay, queueVars, inbox, applied, forwarded, replay, boundVars, faults, lateVars>>

\* A delivery whose lock was lost meanwhile can neither complete nor fail the job.
Owns(w, m) == job[m].state = "active" /\ job[m].owner = w

ack(w, m) ==
    /\ Delivering(w, m, "ack")
    /\ job' = IF Owns(w, m) THEN [job EXCEPT ![m] = Job("completed", NeverFailed, NeverFailed)] ELSE job
    /\ worker' = [worker EXCEPT ![w] = IdleWorker]
    /\ UNCHANGED <<now, outbox, bornAt, relay, dlq, effectVars, replay, boundVars, faults, lateVars>>

\* An attempt that cannot be repeated: a permanent error, or the last of `attempts`.
LastAttempt(w, m) == worker[w].result = "permanent" \/ job[m].tries + 1 >= Attempts

FailedJob(m) ==
    Job("failed", now, IF job[m].firstFailedAt = NeverFailed THEN now ELSE job[m].firstFailedAt)

\* The job is failed for good and handed to the router, or goes back with its backoff.
nack(w, m) ==
    /\ Delivering(w, m, "nack")
    /\ \/ /\ Owns(w, m) /\ LastAttempt(w, m)
          /\ job' = [job EXCEPT ![m] = FailedJob(m)]
          /\ failures' = [failures EXCEPT ![m] = @ + 1]
          /\ worker' = [worker EXCEPT ![w].pc = "route", ![w].failure = failures[m] + 1]
       \/ /\ Owns(w, m) /\ ~LastAttempt(w, m)
          /\ job' = [job EXCEPT ![m].state = "waiting", ![m].owner = Nobody, ![m].tries = @ + 1]
          /\ worker' = [worker EXCEPT ![w] = IdleWorker]
          /\ UNCHANGED failures
       \/ /\ ~Owns(w, m)
          /\ worker' = [worker EXCEPT ![w] = IdleWorker]
          /\ UNCHANGED <<job, failures>>
    /\ UNCHANGED <<now, outbox, bornAt, relay, dlq, effectVars, replay, forgotten, faults, lateVars>>

\* DeadLetterRouter.route: remove the older diagnosis, then add this one under the same id.
routeRemove(w, m) ==
    /\ Delivering(w, m, "route")
    /\ dlq' = [dlq EXCEPT ![m] = 0]
    /\ worker' = [worker EXCEPT ![w].pc = "park"]
    /\ UNCHANGED <<now, outbox, bornAt, relay, job, effectVars, replay, boundVars, faults, lateVars>>

routeAdd(w, m) ==
    /\ Delivering(w, m, "park")
    /\ dlq' = IF dlq[m] = 0 THEN [dlq EXCEPT ![m] = worker[w].failure] ELSE dlq
    /\ worker' = [worker EXCEPT ![w] = IdleWorker]
    /\ UNCHANGED <<now, outbox, bornAt, relay, job, effectVars, replay, boundVars, faults, lateVars>>

\* The process dies, or a dead-letter move fails and is only logged. The job's lock stays behind.
workerLost(w) ==
    /\ worker[w].pc # "idle"
    /\ worker' = [worker EXCEPT ![w] = IdleWorker]
    /\ Fault
    /\ UNCHANGED <<now, outbox, bornAt, relay, queueVars, effectVars, replay, boundVars, lateVars>>

\* BullMQ's stalled check: a job whose lock ran out goes back, the second time to be failed. A
\* worker that is merely slow goes on without the lock, which takes a fault.
stall(m) ==
    /\ job[m].state = "active"
    /\ job' = [job EXCEPT ![m].state = "waiting", ![m].owner = Nobody, ![m].stalled = TRUE,
                          ![m].doomed = job[m].stalled]
    /\ IF worker[job[m].owner].msg = {m} THEN Fault ELSE UNCHANGED faults
    /\ UNCHANGED <<now, outbox, bornAt, relay, dlq, worker, effectVars, replay, boundVars, lateVars>>

----------------------------------------------------------------------------
\* Retention.

\* removeOnComplete: an hour, less than a day.
forgetCompleted(m) ==
    /\ job[m].state = "completed"
    /\ job' = [job EXCEPT ![m] = NoJob]
    /\ UNCHANGED <<now, outbox, bornAt, relay, dlq, worker, effectVars, replay, boundVars, faults, lateVars>>

\* removeOnFail.
forgetFailed(m) ==
    /\ job[m].state = "failed" /\ now - job[m].failedAt >= FailRetention
    /\ job' = [job EXCEPT ![m] = NoJob]
    /\ forgotten' = forgotten \union {m}
    /\ UNCHANGED <<now, outbox, bornAt, relay, dlq, worker, effectVars, replay, failures, faults, lateVars>>

\* Defect: claims of exactly the retention's age go too.
SweepInboxAtHorizon(m) ==
    /\ inbox[m] # Unclaimed /\ now - inbox[m] >= InboxRetention
    /\ inbox' = [inbox EXCEPT ![m] = Unclaimed]
    /\ UNCHANGED <<now, outbox, bornAt, relay, queueVars, worker, applied, mailed, forwarded, replay, boundVars, faults, lateVars>>

\* Claims older than the retention window.
SweepInbox(m) ==
    /\ inbox[m] # Unclaimed /\ now - inbox[m] > InboxRetention
    /\ inbox' = [inbox EXCEPT ![m] = Unclaimed]
    /\ UNCHANGED <<now, outbox, bornAt, relay, queueVars, worker, applied, mailed, forwarded, replay, boundVars, faults, lateVars>>

\* Defect: the sweep does not ask whether the row was published.
SweepOutboxRows(m) ==
    /\ outbox[m] \in {"unpublished", "published"}
    /\ outbox' = [outbox EXCEPT ![m] = "swept"]
    /\ UNCHANGED <<now, bornAt, relay, queueVars, worker, effectVars, replay, boundVars, faults, lateVars>>

\* Published rows only; their age decides nothing else, so any age will do.
SweepPublishedOutbox(m) ==
    /\ outbox[m] = "published"
    /\ outbox' = [outbox EXCEPT ![m] = "swept"]
    /\ UNCHANGED <<now, bornAt, relay, queueVars, worker, effectVars, replay, boundVars, faults, lateVars>>

----------------------------------------------------------------------------
\* The operator.

\* The applied message is retried later than FailRetention after its job first failed.
RetriedLate(m) == applied[m] > 0 /\ now - job[m].firstFailedAt > FailRetention

\* Retries a failed job in place, while the queue still has it: that is FailRetention from its
\* last failure, however long ago the first was.
retryFailed(m) ==
    /\ job[m].state = "failed" /\ now - job[m].failedAt <= FailRetention /\ failures[m] < MaxFailures
    /\ job' = [job EXCEPT ![m] = Job("waiting", NeverFailed, job[m].firstFailedAt)]
    /\ retriedLate' = IF RetriedLate(m) THEN retriedLate \union {m} ELSE retriedLate
    /\ UNCHANGED <<now, outbox, bornAt, relay, dlq, worker, effectVars, replay, boundVars, faults, backlogged>>

\* replayOne, the guard: refuse a claimed message, and one old enough for its claim to be swept
\* unless the operator has confirmed that it was never applied (--force).
ReplayAllowed(m) ==
    /\ inbox[m] = Unclaimed
    /\ now - bornAt[m] <= InboxRetention \/ applied[m] = 0

replayStart(m) ==
    /\ replay.pc = "idle" /\ dlq[m] # 0 /\ failures[m] < MaxFailures
    /\ ReplayAllowed(m)
    /\ replay' = [pc |-> "remove", msg |-> {m}, failure |-> dlq[m]]
    /\ UNCHANGED <<now, outbox, bornAt, relay, queueVars, worker, effectVars, boundVars, faults, lateVars>>

Replaying(m, pc) == replay.pc = pc /\ replay.msg = {m}

\* stale.remove() refuses a locked job, which ends the replay of this entry.
replayRemoveStale(m) ==
    /\ Replaying(m, "remove")
    /\ IF job[m].state = "active"
       THEN replay' = IdleReplay /\ UNCHANGED job
       ELSE replay' = [replay EXCEPT !.pc = "add"] /\ job' = [job EXCEPT ![m] = NoJob]
    /\ UNCHANGED <<now, outbox, bornAt, relay, dlq, worker, effectVars, boundVars, faults, lateVars>>

replayAdd(m) ==
    /\ Replaying(m, "add")
    /\ QueueAdd(m)
    /\ replay' = [replay EXCEPT !.pc = "reread"]
    /\ UNCHANGED <<now, outbox, bornAt, relay, dlq, worker, effectVars, failures, faults, lateVars>>

\* The entry is read again and compared with the one replayed...
replayReread(m) ==
    /\ Replaying(m, "reread")
    /\ replay' = IF dlq[m] = replay.failure THEN [replay EXCEPT !.pc = "drop"] ELSE IdleReplay
    /\ UNCHANGED <<now, outbox, bornAt, relay, queueVars, worker, effectVars, boundVars, faults, lateVars>>

\* ...and removed by its id, whatever is under that id by then.
replayDrop(m) ==
    /\ Replaying(m, "drop")
    /\ dlq' = [dlq EXCEPT ![m] = 0]
    /\ replay' = IdleReplay
    /\ UNCHANGED <<now, outbox, bornAt, relay, job, worker, effectVars, boundVars, faults, lateVars>>

\* The CLI is killed, at worst between the removal of the stale job and the add.
replayLost ==
    /\ replay.pc # "idle"
    /\ replay' = IdleReplay
    /\ forgotten' = IF replay.pc = "add" THEN forgotten \union replay.msg ELSE forgotten
    /\ Fault
    /\ UNCHANGED <<now, outbox, bornAt, relay, queueVars, worker, effectVars, failures, lateVars>>

----------------------------------------------------------------------------
\* A delivery, a tick or a replay takes far less than a day. How long a row stays unpublished or a
\* job waits is bounded by nothing.
Overnight ==
    /\ ~relay.open /\ replay.pc = "idle"
    /\ \A w \in Workers : worker[w].pc = "idle"
    /\ \A m \in Messages : job[m].state # "active"

\* The days a claim outlives the failed job of the day it was made.
Slack == InboxRetention - FailRetention

\* Tomorrow the applied message is still unpublished or waiting, more than Slack after its claim.
Backlogged(m) ==
    /\ applied[m] > 0 /\ (outbox[m] = "unpublished" \/ job[m].state = "waiting")
    /\ now + 1 - inbox[m] > Slack

Day ==
    /\ now < MaxTime /\ Overnight
    /\ now' = now + 1
    /\ backlogged' = backlogged \union {m \in Messages : Backlogged(m)}
    /\ UNCHANGED <<outbox, bornAt, relay, queueVars, worker, effectVars, replay, boundVars, faults, retriedLate>>

Relay(m) == publish(m) \/ publishRefused(m)

Deliver(w, m) ==
    \/ prepare(w, m) \/ claimAndApply(w, m) \/ transactionFails(w, m) \/ runPostCommit(w, m)
    \/ ack(w, m) \/ nack(w, m) \/ routeRemove(w, m) \/ routeAdd(w, m)

Retain(m) == forgetCompleted(m) \/ forgetFailed(m) \/ SweepInbox(m) \/ SweepPublishedOutbox(m)

Operate(m) ==
    \/ retryFailed(m) \/ replayStart(m) \/ replayRemoveStale(m) \/ replayAdd(m)
    \/ replayReread(m) \/ replayDrop(m)

Next ==
    \/ Day \/ lockUnpublished \/ relayCommit \/ relayAbort \/ replayLost
    \/ \E m \in Messages : append(m) \/ Relay(m) \/ stall(m) \/ Retain(m) \/ Operate(m)
    \/ \E w \in Workers : workerLost(w)
    \/ \E w \in Workers, m \in Messages : take(w, m) \/ Deliver(w, m)

Spec == Init /\ [][Next]_vars

\* The relay polls on an interval, BullMQ hands out waiting jobs and checks for stalled ones, and
\* a running delivery goes on.
Fairness ==
    /\ WF_vars(lockUnpublished) /\ WF_vars(relayCommit)
    /\ \A m \in Messages :
         /\ WF_vars(Relay(m)) /\ WF_vars(stall(m))
         /\ WF_vars(\E w \in Workers : take(w, m))
    /\ \A w \in Workers : WF_vars(\E m \in Messages : Deliver(w, m))

FairSpec == Spec /\ Fairness

----------------------------------------------------------------------------
\* The event is a job, a dead letter, or in the hands of the router or the replay moving it.
InQueues(m) ==
    \/ job[m].state \in {"waiting", "active", "failed"} \/ dlq[m] # 0 \/ Replaying(m, "add")
    \/ \E w \in Workers : Delivering(w, m, "route") \/ Delivering(w, m, "park")

\* What the retention windows can keep, with no assumption on the relay, the workers or the operator.
\* An event no backlog held past its claim's slack and nobody retried too late is applied at most
\* once, however often it is published, redelivered, retried or replayed, by any interleaving of
\* deliveries and sweeps (inbox.store.ts, sweep-inbox.ts, dead-letter.replay.ts). Of every event
\* whatever: no mail without its commit, no effect before its prepare went through, and one whose
\* job failed stays in a queue until it is applied or its failed job is forgotten (dead-letter.ts).
AppliedOnce ==
    \A m \in Messages :
        /\ applied[m] <= 1 \/ m \in backlogged \union retriedLate
        /\ mailed[m] <= applied[m]
        /\ applied[m] > 0 => m \in forwarded
        /\ failures[m] > 0 /\ applied[m] = 0 => InQueues(m) \/ m \in forgotten

\* Violated. An event is applied at most once, whenever it is redelivered: the boot check and
\* sweep-inbox.ts take the failed job's retention for the whole of the redelivery horizon, while a
\* job still waiting, or a row still unpublished, has no age limit, and a failed job's age is
\* counted anew from each failure.
WindowsCoverRedelivery == \A m \in Messages : applied[m] <= 1

\* A committed event is consumed, or its job was failed and needs the operator: neither relay nor
\* worker crashes leave it lying in between.
Delivered ==
    \A m \in Messages : (outbox[m] = "unpublished") ~> (applied[m] > 0 \/ failures[m] > 0)
=============================================================================
