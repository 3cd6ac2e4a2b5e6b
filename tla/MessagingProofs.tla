--------------------------- MODULE MessagingProofs ---------------------------
(***************************************************************************)
(* Exactly once, for any number of events and workers, any number of days, *)
(* faults and failures, and any two retention windows the service accepts. *)
(***************************************************************************)
EXTENDS Messaging, FiniteSetTheorems, TLAPS

JobRecord ==
    [state : {"none", "waiting", "active", "completed", "failed"}, owner : Workers \union {Nobody},
     tries : Nat, stalled : BOOLEAN, doomed : BOOLEAN, failedAt : Int, firstFailedAt : Int]

WorkerRecord ==
    [pc : {"idle", "prepare", "claim", "effect", "ack", "nack", "route", "park"},
     msg : SUBSET Messages, result : {"none", "ok", "transient", "permanent"}, failure : Nat]

RelayRecord ==
    [open : BOOLEAN, rows : SUBSET Messages, done : SUBSET Messages, refused : SUBSET Messages]

ReplayRecord ==
    [pc : {"idle", "remove", "add", "reread", "drop"}, msg : SUBSET Messages, failure : Nat]

TypeOK ==
    /\ now \in Nat /\ faults \in Nat
    /\ outbox \in [Messages -> {"none", "unpublished", "published", "swept"}]
    /\ bornAt \in [Messages -> Nat]
    /\ relay \in RelayRecord
    /\ job \in [Messages -> JobRecord]
    /\ dlq \in [Messages -> Nat]
    /\ worker \in [Workers -> WorkerRecord]
    /\ inbox \in [Messages -> Int]
    /\ replay \in ReplayRecord
    /\ applied \in [Messages -> Nat] /\ mailed \in [Messages -> Nat] /\ failures \in [Messages -> Nat]
    /\ forwarded \subseteq Messages /\ forgotten \subseteq Messages
    /\ backlogged \subseteq Messages /\ retriedLate \subseteq Messages

(* Whoever has nothing to do holds nothing. *)
Rests ==
    /\ ~relay.open => relay.rows = {}
    /\ replay.pc = "idle" => replay.msg = {}
    /\ \A w \in Workers : worker[w].pc = "idle" => worker[w].msg = {}

Handled(w, m) == worker[w].msg = {m}

(* Before its row is written there is no trace of an event. *)
NoTrace(m) ==
    /\ job[m].state = "none" /\ m \notin relay.rows /\ dlq[m] = 0 /\ applied[m] = 0 /\ replay.msg # {m}
    /\ \A w \in Workers : ~Handled(w, m)

(* The first failure of a job is in the past, and a failed job has one. *)
FailureDated(m) ==
    /\ job[m].firstFailedAt \in NeverFailed..now
    /\ job[m].state = "failed" => job[m].firstFailedAt # NeverFailed

(* Neither a backlog nor a late retry took the event past what the retention windows clear. *)
OnTime(m) == m \notin backlogged /\ m \notin retriedLate

(* Nothing but the retry of a job that failed within the claim's slack delivers the event again. *)
Settled(m) ==
    /\ outbox[m] # "unpublished" /\ m \notin relay.rows /\ replay.msg # {m}
    /\ job[m].state \in {"waiting", "active", "failed"} =>
         job[m].firstFailedAt \in 0..(inbox[m] + InboxRetention - FailRetention)

(* A claim is no older than its event and no younger than today; once its slack is over an event *)
(* on time is settled.                                                                           *)
ClaimDated(m) ==
    inbox[m] # Unclaimed =>
        /\ applied[m] > 0
        /\ bornAt[m] <= inbox[m] /\ inbox[m] <= now
        /\ OnTime(m) /\ now - inbox[m] > InboxRetention - FailRetention => Settled(m)

(* The claim of an event on time may be swept. *)
ClaimLapsed(m) ==
    OnTime(m) /\ applied[m] > 0 /\ (inbox[m] = Unclaimed \/ now - inbox[m] > InboxRetention)

(* Nothing delivers the event any more, and a retry of its job would be late. *)
Unreachable(m) ==
    /\ outbox[m] # "unpublished" /\ m \notin relay.rows /\ replay.msg # {m}
    /\ job[m].state \notin {"waiting", "active"}
    /\ job[m].state = "failed" => now - job[m].firstFailedAt > FailRetention
    /\ now - bornAt[m] > InboxRetention
    /\ \A w \in Workers : ~Handled(w, m)

(* On time, a mail to be sent is the only one, of an effect that was committed. *)
MailOnce(m) == OnTime(m) =>
    /\ applied[m] <= 1 /\ mailed[m] <= applied[m]
    /\ \A w \in Workers : Delivering(w, m, "effect") =>
         /\ applied[m] = 1 /\ mailed[m] = 0
         /\ \A x \in Workers : Delivering(x, m, "effect") => x = w

PreparedFirst(m) ==
    /\ applied[m] > 0 => m \in forwarded
    /\ \A w \in Workers : Delivering(w, m, "claim") /\ worker[w].result = "ok" => m \in forwarded

CompletedIsApplied(m) ==
    /\ job[m].state = "completed" => applied[m] > 0
    /\ \A w \in Workers : Delivering(w, m, "effect") \/ Delivering(w, m, "ack") => applied[m] > 0

(* Stronger than InQueues: the dead-letter entry is not needed. *)
StillQueued(m) ==
    failures[m] > 0 /\ applied[m] = 0 =>
        job[m].state \in {"waiting", "active", "failed"} \/ m \in forgotten \/ Replaying(m, "add")

EventInv(m) ==
    /\ outbox[m] = "none" => NoTrace(m)
    /\ bornAt[m] <= now
    /\ FailureDated(m)
    /\ ClaimDated(m)
    /\ ClaimLapsed(m) => Unreachable(m)
    /\ MailOnce(m)
    /\ PreparedFirst(m)
    /\ CompletedIsApplied(m)
    /\ StillQueued(m)

OnceInv == TypeOK /\ Rests /\ \A m \in Messages : EventInv(m)

-----------------------------------------------------------------------------
(* Types. *)

LEMMA JobsTyped ==
    /\ \A state \in {"none", "waiting", "active", "completed", "failed"}, f, g \in Int :
         Job(state, f, g) \in JobRecord
    /\ \A j \in JobRecord :
         /\ \A w \in Workers : [j EXCEPT !.state = "active", !.owner = w] \in JobRecord
         /\ [j EXCEPT !.state = "waiting", !.owner = Nobody, !.tries = @ + 1] \in JobRecord
         /\ [j EXCEPT !.state = "waiting", !.owner = Nobody, !.stalled = TRUE, !.doomed = j.stalled] \in JobRecord
<1>1. 0 \in Nat /\ \A n \in Nat : n + 1 \in Nat
  OBVIOUS
<1>2. \A state \in {"none", "waiting", "active", "completed", "failed"}, f, g \in Int :
        Job(state, f, g) \in JobRecord
  BY <1>1 DEF Job, JobRecord
<1>3. ASSUME NEW j \in JobRecord
      PROVE  /\ \A w \in Workers : [j EXCEPT !.state = "active", !.owner = w] \in JobRecord
             /\ [j EXCEPT !.state = "waiting", !.owner = Nobody, !.tries = @ + 1] \in JobRecord
             /\ [j EXCEPT !.state = "waiting", !.owner = Nobody, !.stalled = TRUE, !.doomed = j.stalled] \in JobRecord
  BY <1>1, Zenon DEF JobRecord
<1> QED
  BY <1>2, <1>3

LEMMA WorkersTyped ==
    /\ IdleWorker \in WorkerRecord
    /\ \A m \in Messages :
         /\ [IdleWorker EXCEPT !.pc = "nack", !.msg = {m}, !.result = "permanent"] \in WorkerRecord
         /\ [IdleWorker EXCEPT !.pc = "prepare", !.msg = {m}] \in WorkerRecord
    /\ \A k \in WorkerRecord, pc \in {"idle", "prepare", "claim", "effect", "ack", "nack", "route", "park"},
          result \in {"none", "ok", "transient", "permanent"}, n \in Nat :
         /\ [k EXCEPT !.pc = pc] \in WorkerRecord
         /\ [k EXCEPT !.pc = pc, !.result = result] \in WorkerRecord
         /\ [k EXCEPT !.pc = pc, !.failure = n] \in WorkerRecord
<1>1. 0 \in Nat
  OBVIOUS
<1> QED
  BY <1>1, ZenonT(60) DEF WorkerRecord, IdleWorker

LEMMA TypeStep ==
    ASSUME TypeOK, [Next]_vars
    PROVE  TypeOK'
<1> USE RetentionAssumption
<1>j. ASSUME NEW m \in Messages, NEW j \in JobRecord, job' = [job EXCEPT ![m] = j]
      PROVE  job' \in [Messages -> JobRecord]
  BY <1>j DEF TypeOK
<1>w. ASSUME NEW w \in Workers, NEW k \in WorkerRecord, worker' = [worker EXCEPT ![w] = k]
      PROVE  worker' \in [Workers -> WorkerRecord]
  BY <1>w DEF TypeOK
<1>f. ASSUME NEW m \in Messages
      PROVE  job[m] \in JobRecord /\ job[m].failedAt \in Int /\ job[m].firstFailedAt \in Int
  BY DEF TypeOK, JobRecord
<1>k. ASSUME NEW w \in Workers
      PROVE  worker[w] \in WorkerRecord
  BY DEF TypeOK
<1>n. now \in Int /\ NeverFailed \in Int
  BY DEF TypeOK, NeverFailed
<1>1. ASSUME Day
      PROVE  TypeOK'
  BY <1>1 DEF TypeOK, Day, queueVars, effectVars, boundVars, lateVars, RelayRecord, ReplayRecord
<1>2. ASSUME lockUnpublished
      PROVE  TypeOK'
  BY <1>2 DEF TypeOK, lockUnpublished, queueVars, effectVars, boundVars, lateVars, RelayRecord, ReplayRecord, IdleRelay
<1>3. ASSUME relayCommit
      PROVE  TypeOK'
  BY <1>3 DEF TypeOK, relayCommit, queueVars, effectVars, boundVars, lateVars, RelayRecord, ReplayRecord, IdleRelay
<1>4. ASSUME relayAbort
      PROVE  TypeOK'
  BY <1>4 DEF TypeOK, relayAbort, queueVars, effectVars, boundVars, lateVars, RelayRecord, ReplayRecord, IdleRelay, Fault
<1>5. ASSUME replayLost
      PROVE  TypeOK'
  BY <1>5 DEF TypeOK, replayLost, queueVars, effectVars, boundVars, lateVars, RelayRecord, ReplayRecord, IdleReplay, Fault
<1>6. ASSUME NEW m \in Messages, append(m)
      PROVE  TypeOK'
  BY <1>6 DEF TypeOK, append, queueVars, effectVars, boundVars, lateVars, RelayRecord, ReplayRecord
<1>7. ASSUME NEW m \in Messages, publish(m)
      PROVE  TypeOK'
  <2>1. job' \in [Messages -> JobRecord]
    BY <1>7, JobsTyped, <1>j, <1>f, <1>n DEF TypeOK, publish, QueueAdd, NoJob, NewJob
  <2> QED
    BY <1>7, <2>1 DEF TypeOK, publish, queueVars, effectVars, boundVars, lateVars, RelayRecord, QueueAdd
<1>8. ASSUME NEW m \in Messages, publishRefused(m)
      PROVE  TypeOK'
  <2>1. job' \in [Messages -> JobRecord]
    BY <1>8, JobsTyped, <1>j, <1>f, <1>n DEF TypeOK, publishRefused, QueueAdd, NewJob
  <2>2. relay' \in RelayRecord
    <3>1. relay \in RelayRecord /\ relay' = [relay EXCEPT !.rows = @ \ {m}, !.refused = @ \union {m}]
      BY <1>8 DEF TypeOK, publishRefused
    <3> QED
      BY <3>1 DEF RelayRecord
  <2>3. forgotten' \subseteq Messages
    BY <1>8 DEF TypeOK, publishRefused, QueueAdd
  <2>4. faults' \in Nat
    BY <1>8 DEF TypeOK, publishRefused, Fault
  <2> QED
    BY <1>8, <2>1, <2>2, <2>3, <2>4 DEF TypeOK, publishRefused, effectVars, lateVars
<1>9. ASSUME NEW m \in Messages, stall(m)
      PROVE  TypeOK'
  <2>1. job' = [job EXCEPT ![m] = [job[m] EXCEPT !.state = "waiting", !.owner = Nobody, !.stalled = TRUE,
                                                 !.doomed = job[m].stalled]]
    BY <1>9 DEF TypeOK, stall
  <2>2. job' \in [Messages -> JobRecord]
    BY <1>f, JobsTyped, <2>1, <1>j
  <2> QED
    BY <1>9, <2>2 DEF TypeOK, stall, queueVars, effectVars, boundVars, lateVars, Fault
<1>10. ASSUME NEW m \in Messages, forgetCompleted(m)
      PROVE  TypeOK'
  <2>1. job' \in [Messages -> JobRecord]
    BY <1>10, JobsTyped, <1>j, <1>f, <1>n DEF TypeOK, forgetCompleted, NoJob
  <2> QED
    BY <1>10, <2>1 DEF TypeOK, forgetCompleted, queueVars, effectVars, boundVars, lateVars, RelayRecord
<1>11. ASSUME NEW m \in Messages, forgetFailed(m)
      PROVE  TypeOK'
  <2>1. job' \in [Messages -> JobRecord]
    BY <1>11, JobsTyped, <1>j, <1>f, <1>n DEF TypeOK, forgetFailed, NoJob
  <2> QED
    BY <1>11, <2>1 DEF TypeOK, forgetFailed, queueVars, effectVars, boundVars, lateVars, RelayRecord
<1>12. ASSUME NEW m \in Messages, SweepInbox(m)
      PROVE  TypeOK'
  BY <1>12 DEF TypeOK, SweepInbox, queueVars, effectVars, boundVars, lateVars, RelayRecord, ReplayRecord, Unclaimed
<1>13. ASSUME NEW m \in Messages, SweepPublishedOutbox(m)
      PROVE  TypeOK'
  BY <1>13 DEF TypeOK, SweepPublishedOutbox, queueVars, effectVars, boundVars, lateVars, RelayRecord, ReplayRecord
<1>14. ASSUME NEW m \in Messages, retryFailed(m)
      PROVE  TypeOK'
  <2>1. job' \in [Messages -> JobRecord]
    BY <1>14, JobsTyped, <1>j, <1>f, <1>n DEF TypeOK, retryFailed, NoJob, NeverFailed
  <2> QED
    BY <1>14, <2>1 DEF TypeOK, retryFailed, queueVars, effectVars, boundVars, lateVars, RelayRecord, NeverFailed
<1>15. ASSUME NEW m \in Messages, replayStart(m)
      PROVE  TypeOK'
  BY <1>15 DEF TypeOK, replayStart, queueVars, effectVars, boundVars, lateVars, RelayRecord, ReplayRecord
<1>16. ASSUME NEW m \in Messages, replayRemoveStale(m)
      PROVE  TypeOK'
  <2>1. job' \in [Messages -> JobRecord]
    BY <1>16, JobsTyped, <1>j, <1>f, <1>n DEF TypeOK, replayRemoveStale, NoJob, IdleReplay, Replaying
  <2>2. replay' \in ReplayRecord
    BY <1>16 DEF TypeOK, replayRemoveStale, ReplayRecord, NoJob, IdleReplay, Replaying
  <2> QED
    BY <1>16, <2>1, <2>2 DEF TypeOK, replayRemoveStale, queueVars, effectVars, boundVars, lateVars, RelayRecord, IdleReplay, Replaying
<1>17. ASSUME NEW m \in Messages, replayAdd(m)
      PROVE  TypeOK'
  <2>1. job' \in [Messages -> JobRecord]
    BY <1>17, JobsTyped, <1>j, <1>f, <1>n DEF TypeOK, replayAdd, QueueAdd, NoJob, NewJob, Replaying
  <2>2. replay' \in ReplayRecord
    BY <1>17 DEF TypeOK, replayAdd, ReplayRecord, QueueAdd, NoJob, NewJob, Replaying
  <2> QED
    BY <1>17, <2>1, <2>2 DEF TypeOK, replayAdd, queueVars, effectVars, boundVars, lateVars, RelayRecord, QueueAdd, Replaying
<1>18. ASSUME NEW m \in Messages, replayReread(m)
      PROVE  TypeOK'
  BY <1>18 DEF TypeOK, replayReread, queueVars, effectVars, boundVars, lateVars, RelayRecord, ReplayRecord, IdleReplay, Replaying
<1>19. ASSUME NEW m \in Messages, replayDrop(m)
      PROVE  TypeOK'
  BY <1>19 DEF TypeOK, replayDrop, queueVars, effectVars, boundVars, lateVars, RelayRecord, ReplayRecord, IdleReplay, Replaying
<1>20. ASSUME NEW w \in Workers, workerLost(w)
      PROVE  TypeOK'
  <2>1. worker' \in [Workers -> WorkerRecord]
    BY <1>20, WorkersTyped, <1>w DEF TypeOK, workerLost
  <2> QED
    BY <1>20, <2>1 DEF TypeOK, workerLost, queueVars, effectVars, boundVars, lateVars, RelayRecord, Fault
<1>21. ASSUME NEW w \in Workers, NEW m \in Messages, take(w, m)
      PROVE  TypeOK'
  <2>1. job' \in [Messages -> JobRecord]
    BY <1>21, JobsTyped, <1>j, <1>f, <1>n DEF TypeOK, take
  <2>2. worker' \in [Workers -> WorkerRecord]
    BY <1>21, WorkersTyped, <1>w DEF TypeOK, take
  <2> QED
    BY <1>21, <2>1, <2>2 DEF TypeOK, take, queueVars, effectVars, boundVars, lateVars, RelayRecord
<1>22. ASSUME NEW w \in Workers, NEW m \in Messages, prepare(w, m)
      PROVE  TypeOK'
  <2>1. PICK result \in {"ok", "transient", "permanent"} :
               /\ worker' = [worker EXCEPT ![w].pc = "claim", ![w].result = result]
               /\ forwarded' = IF result = "ok" THEN forwarded \union {m} ELSE forwarded
    BY <1>22 DEF prepare
  <2>2. worker' = [worker EXCEPT ![w] = [worker[w] EXCEPT !.pc = "claim", !.result = result]]
    BY <2>1 DEF TypeOK
  <2>3. worker' \in [Workers -> WorkerRecord]
    BY <1>k, WorkersTyped, <2>2, <1>w
  <2> QED
    BY <1>22, <2>1, <2>3 DEF TypeOK, prepare, queueVars, boundVars, lateVars
<1>23. ASSUME NEW w \in Workers, NEW m \in Messages, claimAndApply(w, m)
      PROVE  TypeOK'
  <2>1. worker' \in [Workers -> WorkerRecord]
    BY <1>23, WorkersTyped, <1>w DEF TypeOK, claimAndApply, Delivering
  <2> QED
    BY <1>23, <2>1 DEF TypeOK, claimAndApply, queueVars, effectVars, boundVars, lateVars, RelayRecord, Delivering, Claims
<1>24. ASSUME NEW w \in Workers, NEW m \in Messages, transactionFails(w, m)
      PROVE  TypeOK'
  <2>1. worker' \in [Workers -> WorkerRecord]
    BY <1>24, WorkersTyped, <1>w DEF TypeOK, transactionFails, Delivering
  <2> QED
    BY <1>24, <2>1 DEF TypeOK, transactionFails, queueVars, effectVars, boundVars, lateVars, RelayRecord, Delivering, Claims, Fault
<1>25. ASSUME NEW w \in Workers, NEW m \in Messages, runPostCommit(w, m)
      PROVE  TypeOK'
  <2>1. worker' \in [Workers -> WorkerRecord]
    BY <1>25, WorkersTyped, <1>w DEF TypeOK, runPostCommit, Delivering
  <2> QED
    BY <1>25, <2>1 DEF TypeOK, runPostCommit, queueVars, effectVars, boundVars, lateVars, RelayRecord, Delivering
<1>26. ASSUME NEW w \in Workers, NEW m \in Messages, ack(w, m)
      PROVE  TypeOK'
  <2>1. job' \in [Messages -> JobRecord]
    BY <1>26, JobsTyped, <1>j, <1>f, <1>n DEF TypeOK, ack, Delivering, NoJob
  <2>2. worker' \in [Workers -> WorkerRecord]
    BY <1>26, WorkersTyped, <1>w DEF TypeOK, ack, Delivering, NoJob
  <2> QED
    BY <1>26, <2>1, <2>2 DEF TypeOK, ack, queueVars, effectVars, boundVars, lateVars, RelayRecord, Delivering
<1>27. ASSUME NEW w \in Workers, NEW m \in Messages, nack(w, m)
      PROVE  TypeOK'
  <2>1. FailedJob(m) \in JobRecord
    BY <1>f, <1>n, JobsTyped DEF FailedJob
  <2>2. CASE Owns(w, m) /\ LastAttempt(w, m)
    <3>1. job' = [job EXCEPT ![m] = FailedJob(m)] /\ failures' = [failures EXCEPT ![m] = @ + 1]
      BY <1>27, <2>2 DEF nack
    <3>2. worker' = [worker EXCEPT ![w] = [worker[w] EXCEPT !.pc = "route", !.failure = failures[m] + 1]]
      BY <1>27, <2>2 DEF nack, TypeOK
    <3>3. failures[m] + 1 \in Nat
      BY DEF TypeOK
    <3>4. job' \in [Messages -> JobRecord] /\ worker' \in [Workers -> WorkerRecord]
      BY <3>1, <3>2, <3>3, <2>1, <1>j, <1>k, WorkersTyped, <1>w
    <3> QED
      BY <1>27, <3>1, <3>4 DEF nack, TypeOK, effectVars, lateVars
  <2>3. CASE Owns(w, m) /\ ~LastAttempt(w, m)
    <3>1. /\ job' = [job EXCEPT ![m] = [job[m] EXCEPT !.state = "waiting", !.owner = Nobody, !.tries = @ + 1]]
          /\ worker' = [worker EXCEPT ![w] = IdleWorker] /\ UNCHANGED failures
      BY <1>27, <2>3 DEF nack, TypeOK
    <3>2. job' \in [Messages -> JobRecord] /\ worker' \in [Workers -> WorkerRecord]
      BY <3>1, <1>f, JobsTyped, <1>j, WorkersTyped, <1>w
    <3> QED
      BY <1>27, <3>1, <3>2 DEF nack, TypeOK, effectVars, lateVars
  <2>4. CASE ~Owns(w, m)
    <3>1. worker' = [worker EXCEPT ![w] = IdleWorker] /\ UNCHANGED <<job, failures>>
      BY <1>27, <2>4 DEF nack
    <3>2. worker' \in [Workers -> WorkerRecord]
      BY <3>1, WorkersTyped, <1>w
    <3> QED
      BY <1>27, <3>1, <3>2 DEF nack, TypeOK, effectVars, lateVars
  <2> QED
    BY <2>2, <2>3, <2>4
<1>28. ASSUME NEW w \in Workers, NEW m \in Messages, routeRemove(w, m)
      PROVE  TypeOK'
  <2>1. worker' \in [Workers -> WorkerRecord]
    BY <1>28, WorkersTyped, <1>w DEF TypeOK, routeRemove, Delivering
  <2> QED
    BY <1>28, <2>1 DEF TypeOK, routeRemove, queueVars, effectVars, boundVars, lateVars, RelayRecord, Delivering
<1>29. ASSUME NEW w \in Workers, NEW m \in Messages, routeAdd(w, m)
      PROVE  TypeOK'
  <2>1. worker' \in [Workers -> WorkerRecord]
    BY <1>29, WorkersTyped, <1>w DEF TypeOK, routeAdd
  <2>2. worker[w].failure \in Nat
    BY DEF TypeOK, WorkerRecord
  <2>3. dlq' \in [Messages -> Nat]
    BY <1>29, <2>2 DEF TypeOK, routeAdd
  <2> QED
    BY <1>29, <2>1, <2>3 DEF TypeOK, routeAdd, effectVars, boundVars, lateVars
<1>s. CASE UNCHANGED vars
  BY <1>s DEF TypeOK, vars, queueVars, effectVars, boundVars, lateVars
<1> QED
  BY <1>s, <1>1, <1>2, <1>3, <1>4, <1>5, <1>6, <1>7, <1>8, <1>9, <1>10, <1>11, <1>12, <1>13, <1>14, <1>15, <1>16, <1>17, <1>18, <1>19, <1>20, <1>21, <1>22, <1>23, <1>24, <1>25, <1>26, <1>27, <1>28, <1>29
     DEF Next, Relay, Retain, Operate, Deliver

-----------------------------------------------------------------------------
(* Whoever has nothing to do holds nothing. *)

LEMMA RestStep ==
    ASSUME TypeOK, Rests, [Next]_vars
    PROVE  Rests'
<1>1. ASSUME Day
      PROVE  Rests'
  BY <1>1 DEF Rests, Day, queueVars, effectVars, boundVars, lateVars
<1>2. ASSUME lockUnpublished
      PROVE  Rests'
  BY <1>2 DEF TypeOK, RelayRecord, ReplayRecord, Rests, lockUnpublished, queueVars, effectVars, boundVars, lateVars, IdleRelay
<1>3. ASSUME relayCommit
      PROVE  Rests'
  BY <1>3 DEF TypeOK, RelayRecord, ReplayRecord, Rests, relayCommit, queueVars, effectVars, boundVars, lateVars, IdleRelay
<1>4. ASSUME relayAbort
      PROVE  Rests'
  BY <1>4 DEF TypeOK, RelayRecord, ReplayRecord, Rests, relayAbort, queueVars, effectVars, boundVars, lateVars, IdleRelay, Fault
<1>5. ASSUME replayLost
      PROVE  Rests'
  BY <1>5 DEF TypeOK, RelayRecord, ReplayRecord, Rests, replayLost, queueVars, effectVars, boundVars, lateVars, IdleReplay, Fault
<1>6. ASSUME NEW m \in Messages, append(m)
      PROVE  Rests'
  BY <1>6 DEF Rests, append, queueVars, effectVars, boundVars, lateVars
<1>7. ASSUME NEW m \in Messages, publish(m)
      PROVE  Rests'
  BY <1>7 DEF TypeOK, RelayRecord, ReplayRecord, Rests, publish, queueVars, effectVars, boundVars, lateVars, QueueAdd, NoJob, NewJob
<1>8. ASSUME NEW m \in Messages, publishRefused(m)
      PROVE  Rests'
  BY <1>8 DEF TypeOK, RelayRecord, ReplayRecord, Rests, publishRefused, queueVars, effectVars, boundVars, lateVars, QueueAdd, NoJob, NewJob, Fault
<1>9. ASSUME NEW m \in Messages, stall(m)
      PROVE  Rests'
  BY <1>9 DEF Rests, stall, queueVars, effectVars, boundVars, lateVars, Fault
<1>10. ASSUME NEW m \in Messages, forgetCompleted(m)
      PROVE  Rests'
  BY <1>10 DEF Rests, forgetCompleted, queueVars, effectVars, boundVars, lateVars, NoJob
<1>11. ASSUME NEW m \in Messages, forgetFailed(m)
      PROVE  Rests'
  BY <1>11 DEF Rests, forgetFailed, queueVars, effectVars, boundVars, lateVars, NoJob
<1>12. ASSUME NEW m \in Messages, SweepInbox(m)
      PROVE  Rests'
  BY <1>12 DEF Rests, SweepInbox, queueVars, effectVars, boundVars, lateVars, Unclaimed
<1>13. ASSUME NEW m \in Messages, SweepPublishedOutbox(m)
      PROVE  Rests'
  BY <1>13 DEF Rests, SweepPublishedOutbox, queueVars, effectVars, boundVars, lateVars
<1>14. ASSUME NEW m \in Messages, retryFailed(m)
      PROVE  Rests'
  BY <1>14 DEF Rests, retryFailed, queueVars, effectVars, boundVars, lateVars, NoJob, NeverFailed
<1>15. ASSUME NEW m \in Messages, replayStart(m)
      PROVE  Rests'
  BY <1>15 DEF TypeOK, RelayRecord, ReplayRecord, Rests, replayStart, queueVars, effectVars, boundVars, lateVars
<1>16. ASSUME NEW m \in Messages, replayRemoveStale(m)
      PROVE  Rests'
  BY <1>16 DEF TypeOK, RelayRecord, ReplayRecord, Rests, replayRemoveStale, queueVars, effectVars, boundVars, lateVars, NoJob, IdleReplay, Replaying
<1>17. ASSUME NEW m \in Messages, replayAdd(m)
      PROVE  Rests'
  BY <1>17 DEF TypeOK, RelayRecord, ReplayRecord, Rests, replayAdd, queueVars, effectVars, boundVars, lateVars, QueueAdd, NoJob, NewJob, Replaying
<1>18. ASSUME NEW m \in Messages, replayReread(m)
      PROVE  Rests'
  BY <1>18 DEF TypeOK, RelayRecord, ReplayRecord, Rests, replayReread, queueVars, effectVars, boundVars, lateVars, IdleReplay, Replaying
<1>19. ASSUME NEW m \in Messages, replayDrop(m)
      PROVE  Rests'
  BY <1>19 DEF TypeOK, RelayRecord, ReplayRecord, Rests, replayDrop, queueVars, effectVars, boundVars, lateVars, IdleReplay, Replaying
<1>20. ASSUME NEW w \in Workers, workerLost(w)
      PROVE  Rests'
  BY <1>20 DEF TypeOK, WorkerRecord, Rests, workerLost, queueVars, effectVars, boundVars, lateVars, IdleWorker, Fault
<1>21. ASSUME NEW w \in Workers, NEW m \in Messages, take(w, m)
      PROVE  Rests'
  BY <1>21 DEF TypeOK, WorkerRecord, Rests, take, queueVars, effectVars, boundVars, lateVars, IdleWorker
<1>22. ASSUME NEW w \in Workers, NEW m \in Messages, prepare(w, m)
      PROVE  Rests'
  BY <1>22 DEF TypeOK, WorkerRecord, Rests, prepare, queueVars, effectVars, boundVars, lateVars, Delivering
<1>23. ASSUME NEW w \in Workers, NEW m \in Messages, claimAndApply(w, m)
      PROVE  Rests'
  BY <1>23 DEF TypeOK, WorkerRecord, Rests, claimAndApply, queueVars, effectVars, boundVars, lateVars, Delivering, Claims
<1>24. ASSUME NEW w \in Workers, NEW m \in Messages, transactionFails(w, m)
      PROVE  Rests'
  BY <1>24 DEF TypeOK, WorkerRecord, Rests, transactionFails, queueVars, effectVars, boundVars, lateVars, Delivering, Claims, Fault
<1>25. ASSUME NEW w \in Workers, NEW m \in Messages, runPostCommit(w, m)
      PROVE  Rests'
  BY <1>25 DEF TypeOK, WorkerRecord, Rests, runPostCommit, queueVars, effectVars, boundVars, lateVars, Delivering
<1>26. ASSUME NEW w \in Workers, NEW m \in Messages, ack(w, m)
      PROVE  Rests'
  BY <1>26 DEF TypeOK, WorkerRecord, Rests, ack, queueVars, effectVars, boundVars, lateVars, Delivering, NoJob, IdleWorker
<1>27. ASSUME NEW w \in Workers, NEW m \in Messages, nack(w, m)
      PROVE  Rests'
  <2>1. UNCHANGED <<relay, replay>> /\ worker[w].msg = {m}
    BY <1>27 DEF nack, Delivering
  <2>2. worker'[w].pc = "idle" => worker'[w].msg = {}
    BY <1>27 DEF TypeOK, WorkerRecord, nack, IdleWorker
  <2>3. \A x \in Workers : x # w => worker'[x] = worker[x]
    BY <1>27 DEF TypeOK, nack
  <2> QED
    BY <2>1, <2>2, <2>3 DEF Rests
<1>28. ASSUME NEW w \in Workers, NEW m \in Messages, routeRemove(w, m)
      PROVE  Rests'
  BY <1>28 DEF TypeOK, WorkerRecord, Rests, routeRemove, queueVars, effectVars, boundVars, lateVars, Delivering
<1>29. ASSUME NEW w \in Workers, NEW m \in Messages, routeAdd(w, m)
      PROVE  Rests'
  BY <1>29 DEF TypeOK, WorkerRecord, Rests, routeAdd, queueVars, effectVars, boundVars, lateVars, Delivering, IdleWorker
<1>s. CASE UNCHANGED vars
  BY <1>s DEF Rests, vars
<1> QED
  BY <1>s, <1>1, <1>2, <1>3, <1>4, <1>5, <1>6, <1>7, <1>8, <1>9, <1>10, <1>11, <1>12, <1>13, <1>14, <1>15, <1>16, <1>17, <1>18, <1>19, <1>20, <1>21, <1>22, <1>23, <1>24, <1>25, <1>26, <1>27, <1>28, <1>29
     DEF Next, Relay, Retain, Operate, Deliver

-----------------------------------------------------------------------------
(* An event that a step does not touch. *)

Untouched(m) ==
    /\ now' = now
    /\ outbox'[m] = outbox[m] /\ bornAt'[m] = bornAt[m] /\ job'[m] = job[m] /\ dlq'[m] = dlq[m]
    /\ inbox'[m] = inbox[m] /\ applied'[m] = applied[m] /\ mailed'[m] = mailed[m] /\ failures'[m] = failures[m]
    /\ m \in relay'.rows => m \in relay.rows
    /\ replay' = replay \/ (replay.msg # {m} /\ replay'.msg # {m})
    /\ \A w \in Workers : worker'[w] = worker[w] \/ worker'[w].msg # {m}
    /\ m \in forwarded => m \in forwarded'
    /\ m \in forgotten => m \in forgotten'
    /\ m \in backlogged => m \in backlogged'
    /\ m \in retriedLate => m \in retriedLate'

LEMMA UntouchedKeeps ==
    ASSUME NEW m \in Messages, EventInv(m), Untouched(m)
    PROVE  EventInv(m)'
<1>1. outbox'[m] = "none" => NoTrace(m)'
  BY DEF EventInv, OnTime, Untouched, NoTrace, Handled
<1>2. bornAt'[m] <= now'
  BY DEF EventInv, OnTime, Untouched
<1>3. FailureDated(m)'
  BY DEF EventInv, OnTime, Untouched, FailureDated
<1>4. ClaimDated(m)'
  BY DEF EventInv, OnTime, Untouched, ClaimDated, Settled
<1>5. ClaimLapsed(m)' => Unreachable(m)'
  BY DEF EventInv, OnTime, Untouched, ClaimLapsed, Unreachable, Handled
<1>6. MailOnce(m)'
  BY DEF EventInv, OnTime, Untouched, MailOnce, Delivering
<1>7. PreparedFirst(m)'
  BY DEF EventInv, OnTime, Untouched, PreparedFirst, Delivering
<1>8. CompletedIsApplied(m)'
  BY DEF EventInv, OnTime, Untouched, CompletedIsApplied, Delivering
<1>9. StillQueued(m)'
  BY DEF EventInv, OnTime, Untouched, StillQueued, Replaying
<1> QED
  BY <1>1, <1>2, <1>3, <1>4, <1>5, <1>6, <1>7, <1>8, <1>9 DEF EventInv

LEMMA publishKeeps ==
    ASSUME TypeOK, Rests, NEW m \in Messages, publish(m), EventInv(m)
    PROVE  EventInv(m)'
<1>1. /\ m \in relay.rows /\ relay'.rows = relay.rows \ {m}
      /\ job'[m] = IF job[m].state = "none" THEN NewJob ELSE job[m]
      /\ forgotten' = forgotten \ {m}
      /\ UNCHANGED <<now, outbox, bornAt, dlq, worker, inbox, replay, applied, mailed, failures, forwarded, backlogged, retriedLate>>
  BY DEF TypeOK, publish, queueVars, effectVars, boundVars, lateVars, RelayRecord, QueueAdd
<1>2. /\ now \in Nat /\ bornAt[m] \in Nat /\ inbox[m] \in Int /\ applied[m] \in Nat /\ mailed[m] \in Nat
      /\ failures[m] \in Nat /\ job[m].firstFailedAt \in Int
      /\ job[m].state \in {"none", "waiting", "active", "completed", "failed"}
  BY DEF TypeOK, JobRecord
<1>3. outbox'[m] = "none" => NoTrace(m)'
  BY <1>1, <1>2, RetentionAssumption DEF EventInv, OnTime, Unclaimed, NoTrace, Handled, NoJob, NewJob, FailedJob, Job, NeverFailed
<1>4. bornAt'[m] <= now'
  BY <1>1, <1>2, RetentionAssumption DEF EventInv, OnTime, Unclaimed, NoJob, NewJob, FailedJob, Job, NeverFailed
<1>5. FailureDated(m)'
  BY <1>1, <1>2, RetentionAssumption DEF EventInv, OnTime, Unclaimed, FailureDated, NoJob, NewJob, FailedJob, Job, NeverFailed
<1>6. ClaimDated(m)'
  BY <1>1, <1>2, RetentionAssumption DEF EventInv, OnTime, Unclaimed, ClaimLapsed, Unreachable, Handled, ClaimDated, Settled, FailureDated, NoJob, NewJob, FailedJob, Job, NeverFailed
<1>7. ClaimLapsed(m)' => Unreachable(m)'
  BY <1>1, <1>2, RetentionAssumption DEF EventInv, OnTime, Unclaimed, ClaimDated, Settled, FailureDated, MailOnce, CompletedIsApplied, ClaimLapsed, Unreachable, Handled, NoJob, NewJob, FailedJob, Job, NeverFailed
<1>8. MailOnce(m)'
  BY <1>1, <1>2, RetentionAssumption DEF EventInv, OnTime, Unclaimed, ClaimLapsed, Unreachable, Handled, ClaimDated, Settled, FailureDated, MailOnce, CompletedIsApplied, MailOnce, Delivering, NoJob, NewJob, FailedJob, Job, NeverFailed
<1>9. PreparedFirst(m)'
  BY <1>1, <1>2, RetentionAssumption DEF EventInv, OnTime, Unclaimed, ClaimLapsed, Unreachable, Handled, PreparedFirst, Delivering, NoJob, NewJob, FailedJob, Job, NeverFailed
<1>10. CompletedIsApplied(m)'
  BY <1>1, <1>2, RetentionAssumption DEF EventInv, OnTime, Unclaimed, ClaimLapsed, Unreachable, Handled, ClaimDated, Settled, FailureDated, MailOnce, CompletedIsApplied, CompletedIsApplied, Delivering, NoJob, NewJob, FailedJob, Job, NeverFailed
<1>11. StillQueued(m)'
  BY <1>1, <1>2, RetentionAssumption DEF EventInv, OnTime, Unclaimed, ClaimDated, Settled, FailureDated, MailOnce, CompletedIsApplied, StillQueued, Replaying, NoJob, NewJob, FailedJob, Job, NeverFailed
<1> QED
  BY <1>3, <1>4, <1>5, <1>6, <1>7, <1>8, <1>9, <1>10, <1>11 DEF EventInv


LEMMA publishRefusedKeeps ==
    ASSUME TypeOK, Rests, NEW m \in Messages, publishRefused(m), EventInv(m)
    PROVE  EventInv(m)'
<1>1. /\ m \in relay.rows /\ relay'.rows = relay.rows \ {m}
      /\ \/ job'[m] = (IF job[m].state = "none" THEN NewJob ELSE job[m]) /\ forgotten' = forgotten \ {m}
         \/ job' = job /\ forgotten' = forgotten
      /\ UNCHANGED <<now, outbox, bornAt, dlq, worker, inbox, replay, applied, mailed, failures, forwarded, backlogged, retriedLate>>
  BY DEF TypeOK, publishRefused, queueVars, effectVars, boundVars, lateVars, RelayRecord, QueueAdd
<1>2. /\ now \in Nat /\ bornAt[m] \in Nat /\ inbox[m] \in Int /\ applied[m] \in Nat /\ mailed[m] \in Nat
      /\ failures[m] \in Nat /\ job[m].firstFailedAt \in Int
      /\ job[m].state \in {"none", "waiting", "active", "completed", "failed"}
  BY DEF TypeOK, JobRecord
<1>3. outbox'[m] = "none" => NoTrace(m)'
  BY <1>1, <1>2, RetentionAssumption DEF EventInv, OnTime, Unclaimed, NoTrace, Handled, NoJob, NewJob, FailedJob, Job, NeverFailed
<1>4. bornAt'[m] <= now'
  BY <1>1, <1>2, RetentionAssumption DEF EventInv, OnTime, Unclaimed, NoJob, NewJob, FailedJob, Job, NeverFailed
<1>5. FailureDated(m)'
  BY <1>1, <1>2, RetentionAssumption DEF EventInv, OnTime, Unclaimed, FailureDated, NoJob, NewJob, FailedJob, Job, NeverFailed
<1>6. ClaimDated(m)'
  BY <1>1, <1>2, RetentionAssumption DEF EventInv, OnTime, Unclaimed, ClaimLapsed, Unreachable, Handled, ClaimDated, Settled, FailureDated, NoJob, NewJob, FailedJob, Job, NeverFailed
<1>7. ClaimLapsed(m)' => Unreachable(m)'
  BY <1>1, <1>2, RetentionAssumption DEF EventInv, OnTime, Unclaimed, ClaimDated, Settled, FailureDated, MailOnce, CompletedIsApplied, ClaimLapsed, Unreachable, Handled, NoJob, NewJob, FailedJob, Job, NeverFailed
<1>8. MailOnce(m)'
  BY <1>1, <1>2, RetentionAssumption DEF EventInv, OnTime, Unclaimed, ClaimLapsed, Unreachable, Handled, ClaimDated, Settled, FailureDated, MailOnce, CompletedIsApplied, MailOnce, Delivering, NoJob, NewJob, FailedJob, Job, NeverFailed
<1>9. PreparedFirst(m)'
  BY <1>1, <1>2, RetentionAssumption DEF EventInv, OnTime, Unclaimed, ClaimLapsed, Unreachable, Handled, PreparedFirst, Delivering, NoJob, NewJob, FailedJob, Job, NeverFailed
<1>10. CompletedIsApplied(m)'
  BY <1>1, <1>2, RetentionAssumption DEF EventInv, OnTime, Unclaimed, ClaimLapsed, Unreachable, Handled, ClaimDated, Settled, FailureDated, MailOnce, CompletedIsApplied, CompletedIsApplied, Delivering, NoJob, NewJob, FailedJob, Job, NeverFailed
<1>11. StillQueued(m)'
  BY <1>1, <1>2, RetentionAssumption DEF EventInv, OnTime, Unclaimed, ClaimDated, Settled, FailureDated, MailOnce, CompletedIsApplied, StillQueued, Replaying, NoJob, NewJob, FailedJob, Job, NeverFailed
<1> QED
  BY <1>3, <1>4, <1>5, <1>6, <1>7, <1>8, <1>9, <1>10, <1>11 DEF EventInv


LEMMA replayStartKeeps ==
    ASSUME TypeOK, Rests, NEW m \in Messages, replayStart(m), EventInv(m)
    PROVE  EventInv(m)'
<1>1. /\ replay'.msg = {m} /\ replay'.pc = "remove" /\ replay.pc = "idle" /\ dlq[m] # 0
      /\ ReplayAllowed(m)
      /\ UNCHANGED <<now, outbox, bornAt, relay, job, dlq, worker, inbox, applied, mailed, failures, forwarded, forgotten, backlogged, retriedLate>>
  BY DEF TypeOK, replayStart, queueVars, effectVars, boundVars, lateVars, ReplayRecord
<1>2. /\ now \in Nat /\ bornAt[m] \in Nat /\ inbox[m] \in Int /\ applied[m] \in Nat /\ mailed[m] \in Nat
      /\ failures[m] \in Nat /\ job[m].firstFailedAt \in Int
      /\ job[m].state \in {"none", "waiting", "active", "completed", "failed"}
  BY DEF TypeOK, JobRecord
<1>3. outbox'[m] = "none" => NoTrace(m)'
  BY <1>1, <1>2, RetentionAssumption DEF EventInv, OnTime, Unclaimed, ReplayAllowed, NoTrace, Handled
<1>4. bornAt'[m] <= now'
  BY <1>1, <1>2, RetentionAssumption DEF EventInv, OnTime, Unclaimed, ReplayAllowed
<1>5. FailureDated(m)'
  BY <1>1, <1>2, RetentionAssumption DEF EventInv, OnTime, Unclaimed, ReplayAllowed, FailureDated
<1>6. ClaimDated(m)'
  BY <1>1, <1>2, RetentionAssumption DEF EventInv, OnTime, Unclaimed, ClaimLapsed, Unreachable, Handled, ReplayAllowed, ClaimDated, Settled, FailureDated
<1>7. ClaimLapsed(m)' => Unreachable(m)'
  BY <1>1, <1>2, RetentionAssumption DEF EventInv, OnTime, Unclaimed, ClaimDated, Settled, FailureDated, MailOnce, CompletedIsApplied, ReplayAllowed, ClaimLapsed, Unreachable, Handled
<1>8. MailOnce(m)'
  BY <1>1, <1>2, RetentionAssumption DEF EventInv, OnTime, Unclaimed, ClaimLapsed, Unreachable, Handled, ClaimDated, Settled, FailureDated, MailOnce, CompletedIsApplied, ReplayAllowed, MailOnce, Delivering
<1>9. PreparedFirst(m)'
  BY <1>1, <1>2, RetentionAssumption DEF EventInv, OnTime, Unclaimed, ClaimLapsed, Unreachable, Handled, ReplayAllowed, PreparedFirst, Delivering
<1>10. CompletedIsApplied(m)'
  BY <1>1, <1>2, RetentionAssumption DEF EventInv, OnTime, Unclaimed, ClaimLapsed, Unreachable, Handled, ClaimDated, Settled, FailureDated, MailOnce, CompletedIsApplied, ReplayAllowed, CompletedIsApplied, Delivering
<1>11. StillQueued(m)'
  BY <1>1, <1>2, RetentionAssumption DEF EventInv, OnTime, Unclaimed, ClaimDated, Settled, FailureDated, MailOnce, CompletedIsApplied, ReplayAllowed, StillQueued, Replaying
<1> QED
  BY <1>3, <1>4, <1>5, <1>6, <1>7, <1>8, <1>9, <1>10, <1>11 DEF EventInv


LEMMA replayRemoveStaleKeeps ==
    ASSUME TypeOK, Rests, NEW m \in Messages, replayRemoveStale(m), EventInv(m)
    PROVE  EventInv(m)'
<1>1. /\ replay.msg = {m} /\ replay.pc = "remove"
      /\ \/ job' = job /\ replay'.pc = "idle" /\ replay'.msg = {}
         \/ job[m].state # "active" /\ job'[m] = NoJob /\ replay'.pc = "add" /\ replay'.msg = {m}
      /\ UNCHANGED <<now, outbox, bornAt, relay, dlq, worker, inbox, applied, mailed, failures, forwarded, forgotten, backlogged, retriedLate>>
  BY DEF TypeOK, replayRemoveStale, queueVars, effectVars, boundVars, lateVars, ReplayRecord, IdleReplay, Replaying
<1>2. /\ now \in Nat /\ bornAt[m] \in Nat /\ inbox[m] \in Int /\ applied[m] \in Nat /\ mailed[m] \in Nat
      /\ failures[m] \in Nat /\ job[m].firstFailedAt \in Int
      /\ job[m].state \in {"none", "waiting", "active", "completed", "failed"}
  BY DEF TypeOK, JobRecord
<1>3. outbox'[m] = "none" => NoTrace(m)'
  BY <1>1, <1>2, RetentionAssumption DEF EventInv, OnTime, Unclaimed, NoTrace, Handled, NoJob, NewJob, FailedJob, Job, NeverFailed
<1>4. bornAt'[m] <= now'
  BY <1>1, <1>2, RetentionAssumption DEF EventInv, OnTime, Unclaimed, NoJob, NewJob, FailedJob, Job, NeverFailed
<1>5. FailureDated(m)'
  BY <1>1, <1>2, RetentionAssumption DEF EventInv, OnTime, Unclaimed, FailureDated, NoJob, NewJob, FailedJob, Job, NeverFailed
<1>6. ClaimDated(m)'
  BY <1>1, <1>2, RetentionAssumption DEF EventInv, OnTime, Unclaimed, ClaimLapsed, Unreachable, Handled, ClaimDated, Settled, FailureDated, NoJob, NewJob, FailedJob, Job, NeverFailed
<1>7. ClaimLapsed(m)' => Unreachable(m)'
  BY <1>1, <1>2, RetentionAssumption DEF EventInv, OnTime, Unclaimed, ClaimDated, Settled, FailureDated, MailOnce, CompletedIsApplied, ClaimLapsed, Unreachable, Handled, NoJob, NewJob, FailedJob, Job, NeverFailed
<1>8. MailOnce(m)'
  BY <1>1, <1>2, RetentionAssumption DEF EventInv, OnTime, Unclaimed, ClaimLapsed, Unreachable, Handled, ClaimDated, Settled, FailureDated, MailOnce, CompletedIsApplied, MailOnce, Delivering, NoJob, NewJob, FailedJob, Job, NeverFailed
<1>9. PreparedFirst(m)'
  BY <1>1, <1>2, RetentionAssumption DEF EventInv, OnTime, Unclaimed, ClaimLapsed, Unreachable, Handled, PreparedFirst, Delivering, NoJob, NewJob, FailedJob, Job, NeverFailed
<1>10. CompletedIsApplied(m)'
  BY <1>1, <1>2, RetentionAssumption DEF EventInv, OnTime, Unclaimed, ClaimLapsed, Unreachable, Handled, ClaimDated, Settled, FailureDated, MailOnce, CompletedIsApplied, CompletedIsApplied, Delivering, NoJob, NewJob, FailedJob, Job, NeverFailed
<1>11. StillQueued(m)'
  BY <1>1, <1>2, RetentionAssumption DEF EventInv, OnTime, Unclaimed, ClaimDated, Settled, FailureDated, MailOnce, CompletedIsApplied, StillQueued, Replaying, NoJob, NewJob, FailedJob, Job, NeverFailed
<1> QED
  BY <1>3, <1>4, <1>5, <1>6, <1>7, <1>8, <1>9, <1>10, <1>11 DEF EventInv


LEMMA replayAddKeeps ==
    ASSUME TypeOK, Rests, NEW m \in Messages, replayAdd(m), EventInv(m)
    PROVE  EventInv(m)'
<1>1. /\ replay.msg = {m} /\ replay.pc = "add" /\ replay'.msg = {m} /\ replay'.pc = "reread"
      /\ job'[m] = IF job[m].state = "none" THEN NewJob ELSE job[m]
      /\ forgotten' = forgotten \ {m}
      /\ UNCHANGED <<now, outbox, bornAt, relay, dlq, worker, inbox, applied, mailed, failures, forwarded, backlogged, retriedLate>>
  BY DEF TypeOK, replayAdd, queueVars, effectVars, boundVars, lateVars, ReplayRecord, QueueAdd, Replaying
<1>2. /\ now \in Nat /\ bornAt[m] \in Nat /\ inbox[m] \in Int /\ applied[m] \in Nat /\ mailed[m] \in Nat
      /\ failures[m] \in Nat /\ job[m].firstFailedAt \in Int
      /\ job[m].state \in {"none", "waiting", "active", "completed", "failed"}
  BY DEF TypeOK, JobRecord
<1>3. outbox'[m] = "none" => NoTrace(m)'
  BY <1>1, <1>2, RetentionAssumption DEF EventInv, OnTime, Unclaimed, NoTrace, Handled, NoJob, NewJob, FailedJob, Job, NeverFailed
<1>4. bornAt'[m] <= now'
  BY <1>1, <1>2, RetentionAssumption DEF EventInv, OnTime, Unclaimed, NoJob, NewJob, FailedJob, Job, NeverFailed
<1>5. FailureDated(m)'
  BY <1>1, <1>2, RetentionAssumption DEF EventInv, OnTime, Unclaimed, FailureDated, NoJob, NewJob, FailedJob, Job, NeverFailed
<1>6. ClaimDated(m)'
  BY <1>1, <1>2, RetentionAssumption DEF EventInv, OnTime, Unclaimed, ClaimLapsed, Unreachable, Handled, ClaimDated, Settled, FailureDated, NoJob, NewJob, FailedJob, Job, NeverFailed
<1>7. ClaimLapsed(m)' => Unreachable(m)'
  BY <1>1, <1>2, RetentionAssumption DEF EventInv, OnTime, Unclaimed, ClaimDated, Settled, FailureDated, MailOnce, CompletedIsApplied, ClaimLapsed, Unreachable, Handled, NoJob, NewJob, FailedJob, Job, NeverFailed
<1>8. MailOnce(m)'
  BY <1>1, <1>2, RetentionAssumption DEF EventInv, OnTime, Unclaimed, ClaimLapsed, Unreachable, Handled, ClaimDated, Settled, FailureDated, MailOnce, CompletedIsApplied, MailOnce, Delivering, NoJob, NewJob, FailedJob, Job, NeverFailed
<1>9. PreparedFirst(m)'
  BY <1>1, <1>2, RetentionAssumption DEF EventInv, OnTime, Unclaimed, ClaimLapsed, Unreachable, Handled, PreparedFirst, Delivering, NoJob, NewJob, FailedJob, Job, NeverFailed
<1>10. CompletedIsApplied(m)'
  BY <1>1, <1>2, RetentionAssumption DEF EventInv, OnTime, Unclaimed, ClaimLapsed, Unreachable, Handled, ClaimDated, Settled, FailureDated, MailOnce, CompletedIsApplied, CompletedIsApplied, Delivering, NoJob, NewJob, FailedJob, Job, NeverFailed
<1>11. StillQueued(m)'
  BY <1>1, <1>2, RetentionAssumption DEF EventInv, OnTime, Unclaimed, ClaimDated, Settled, FailureDated, MailOnce, CompletedIsApplied, StillQueued, Replaying, NoJob, NewJob, FailedJob, Job, NeverFailed
<1> QED
  BY <1>3, <1>4, <1>5, <1>6, <1>7, <1>8, <1>9, <1>10, <1>11 DEF EventInv


LEMMA takeKeeps ==
    ASSUME TypeOK, Rests, NEW w \in Workers, NEW m \in Messages, take(w, m), EventInv(m)
    PROVE  EventInv(m)'
<1>1. /\ worker'[w].msg = {m} /\ worker'[w].pc \in {"nack", "prepare"}
      /\ job[m].state = "waiting" /\ job'[m].state = "active" /\ job'[m].firstFailedAt = job[m].firstFailedAt
      /\ \A x \in Workers : x # w => worker'[x] = worker[x]
      /\ UNCHANGED <<now, outbox, bornAt, relay, dlq, inbox, replay, applied, mailed, failures, forwarded, forgotten, backlogged, retriedLate>>
  BY DEF TypeOK, take, queueVars, effectVars, boundVars, lateVars, WorkerRecord, JobRecord, IdleWorker
<1>2. /\ now \in Nat /\ bornAt[m] \in Nat /\ inbox[m] \in Int /\ applied[m] \in Nat /\ mailed[m] \in Nat
      /\ failures[m] \in Nat /\ job[m].firstFailedAt \in Int
      /\ job[m].state \in {"none", "waiting", "active", "completed", "failed"}
  BY DEF TypeOK, JobRecord
<1>3. outbox'[m] = "none" => NoTrace(m)'
  BY <1>1, <1>2, RetentionAssumption DEF EventInv, OnTime, Unclaimed, NoTrace, Handled, NoJob, NewJob, FailedJob, Job, NeverFailed
<1>4. bornAt'[m] <= now'
  BY <1>1, <1>2, RetentionAssumption DEF EventInv, OnTime, Unclaimed, NoJob, NewJob, FailedJob, Job, NeverFailed
<1>5. FailureDated(m)'
  BY <1>1, <1>2, RetentionAssumption DEF EventInv, OnTime, Unclaimed, FailureDated, NoJob, NewJob, FailedJob, Job, NeverFailed
<1>6. ClaimDated(m)'
  BY <1>1, <1>2, RetentionAssumption DEF EventInv, OnTime, Unclaimed, ClaimLapsed, Unreachable, Handled, ClaimDated, Settled, FailureDated, NoJob, NewJob, FailedJob, Job, NeverFailed
<1>7. ClaimLapsed(m)' => Unreachable(m)'
  BY <1>1, <1>2, RetentionAssumption DEF EventInv, OnTime, Unclaimed, ClaimDated, Settled, FailureDated, MailOnce, CompletedIsApplied, ClaimLapsed, Unreachable, Handled, NoJob, NewJob, FailedJob, Job, NeverFailed
<1>8. MailOnce(m)'
  BY <1>1, <1>2, RetentionAssumption DEF EventInv, OnTime, Unclaimed, ClaimLapsed, Unreachable, Handled, ClaimDated, Settled, FailureDated, MailOnce, CompletedIsApplied, MailOnce, Delivering, NoJob, NewJob, FailedJob, Job, NeverFailed
<1>9. PreparedFirst(m)'
  BY <1>1, <1>2, RetentionAssumption DEF EventInv, OnTime, Unclaimed, ClaimLapsed, Unreachable, Handled, PreparedFirst, Delivering, NoJob, NewJob, FailedJob, Job, NeverFailed
<1>10. CompletedIsApplied(m)'
  BY <1>1, <1>2, RetentionAssumption DEF EventInv, OnTime, Unclaimed, ClaimLapsed, Unreachable, Handled, ClaimDated, Settled, FailureDated, MailOnce, CompletedIsApplied, CompletedIsApplied, Delivering, NoJob, NewJob, FailedJob, Job, NeverFailed
<1>11. StillQueued(m)'
  BY <1>1, <1>2, RetentionAssumption DEF EventInv, OnTime, Unclaimed, ClaimDated, Settled, FailureDated, MailOnce, CompletedIsApplied, StillQueued, Replaying, NoJob, NewJob, FailedJob, Job, NeverFailed
<1> QED
  BY <1>3, <1>4, <1>5, <1>6, <1>7, <1>8, <1>9, <1>10, <1>11 DEF EventInv


LEMMA prepareKeeps ==
    ASSUME TypeOK, Rests, NEW w \in Workers, NEW m \in Messages, prepare(w, m), EventInv(m)
    PROVE  EventInv(m)'
<1>1. /\ worker[w].msg = {m} /\ worker'[w].msg = {m} /\ worker'[w].pc = "claim"
      /\ worker'[w].result = "ok" => m \in forwarded'
      /\ forwarded \subseteq forwarded'
      /\ \A x \in Workers : x # w => worker'[x] = worker[x]
      /\ UNCHANGED <<now, outbox, bornAt, relay, job, dlq, inbox, replay, applied, mailed, failures, forgotten, backlogged, retriedLate>>
  BY DEF TypeOK, prepare, queueVars, effectVars, boundVars, lateVars, WorkerRecord, Delivering
<1>2. /\ now \in Nat /\ bornAt[m] \in Nat /\ inbox[m] \in Int /\ applied[m] \in Nat /\ mailed[m] \in Nat
      /\ failures[m] \in Nat /\ job[m].firstFailedAt \in Int
      /\ job[m].state \in {"none", "waiting", "active", "completed", "failed"}
  BY DEF TypeOK, JobRecord
<1>3. outbox'[m] = "none" => NoTrace(m)'
  BY <1>1, <1>2, RetentionAssumption DEF EventInv, OnTime, Unclaimed, NoTrace, Handled
<1>4. bornAt'[m] <= now'
  BY <1>1, <1>2, RetentionAssumption DEF EventInv, OnTime, Unclaimed
<1>5. FailureDated(m)'
  BY <1>1, <1>2, RetentionAssumption DEF EventInv, OnTime, Unclaimed, FailureDated
<1>6. ClaimDated(m)'
  BY <1>1, <1>2, RetentionAssumption DEF EventInv, OnTime, Unclaimed, ClaimLapsed, Unreachable, Handled, ClaimDated, Settled, FailureDated
<1>7. ClaimLapsed(m)' => Unreachable(m)'
  BY <1>1, <1>2, RetentionAssumption DEF EventInv, OnTime, Unclaimed, ClaimDated, Settled, FailureDated, MailOnce, CompletedIsApplied, ClaimLapsed, Unreachable, Handled
<1>8. MailOnce(m)'
  BY <1>1, <1>2, RetentionAssumption DEF EventInv, OnTime, Unclaimed, ClaimLapsed, Unreachable, Handled, ClaimDated, Settled, FailureDated, MailOnce, CompletedIsApplied, MailOnce, Delivering
<1>9. PreparedFirst(m)'
  BY <1>1, <1>2, RetentionAssumption DEF EventInv, OnTime, Unclaimed, ClaimLapsed, Unreachable, Handled, PreparedFirst, Delivering
<1>10. CompletedIsApplied(m)'
  BY <1>1, <1>2, RetentionAssumption DEF EventInv, OnTime, Unclaimed, ClaimLapsed, Unreachable, Handled, ClaimDated, Settled, FailureDated, MailOnce, CompletedIsApplied, CompletedIsApplied, Delivering
<1>11. StillQueued(m)'
  BY <1>1, <1>2, RetentionAssumption DEF EventInv, OnTime, Unclaimed, ClaimDated, Settled, FailureDated, MailOnce, CompletedIsApplied, StillQueued, Replaying
<1> QED
  BY <1>3, <1>4, <1>5, <1>6, <1>7, <1>8, <1>9, <1>10, <1>11 DEF EventInv


LEMMA claimAndApplyKeeps ==
    ASSUME TypeOK, Rests, NEW w \in Workers, NEW m \in Messages, claimAndApply(w, m), EventInv(m)
    PROVE  EventInv(m)'
<1>1. /\ worker[w].msg = {m} /\ worker[w].pc = "claim" /\ worker'[w].msg = {m}
      /\ \/ /\ inbox[m] = Unclaimed /\ worker[w].result = "ok" /\ worker'[w].pc = "effect"
            /\ inbox'[m] = now /\ applied'[m] = applied[m] + 1
         \/ /\ worker'[w].pc \in {"ack", "nack"} /\ (worker'[w].pc = "ack" => inbox[m] # Unclaimed)
            /\ inbox' = inbox /\ applied' = applied
      /\ \A x \in Workers : x # w => worker'[x] = worker[x]
      /\ UNCHANGED <<now, outbox, bornAt, relay, job, dlq, replay, mailed, failures, forwarded, forgotten, backlogged, retriedLate>>
  BY DEF TypeOK, claimAndApply, queueVars, effectVars, boundVars, lateVars, WorkerRecord, Delivering, Claims
<1>2. /\ now \in Nat /\ bornAt[m] \in Nat /\ inbox[m] \in Int /\ applied[m] \in Nat /\ mailed[m] \in Nat
      /\ failures[m] \in Nat /\ job[m].firstFailedAt \in Int
      /\ job[m].state \in {"none", "waiting", "active", "completed", "failed"}
  BY DEF TypeOK, JobRecord
<1>3. outbox'[m] = "none" => NoTrace(m)'
  BY <1>1, <1>2, RetentionAssumption DEF EventInv, OnTime, Unclaimed, NoTrace, Handled
<1>4. bornAt'[m] <= now'
  BY <1>1, <1>2, RetentionAssumption DEF EventInv, OnTime, Unclaimed
<1>5. FailureDated(m)'
  BY <1>1, <1>2, RetentionAssumption DEF EventInv, OnTime, Unclaimed, FailureDated
<1>6. ClaimDated(m)'
  BY <1>1, <1>2, RetentionAssumption DEF EventInv, OnTime, Unclaimed, ClaimLapsed, Unreachable, Handled, ClaimDated, Settled, FailureDated
<1>7. ClaimLapsed(m)' => Unreachable(m)'
  BY <1>1, <1>2, RetentionAssumption DEF EventInv, OnTime, Unclaimed, ClaimDated, Settled, FailureDated, MailOnce, CompletedIsApplied, ClaimLapsed, Unreachable, Handled
<1>8. MailOnce(m)'
  BY <1>1, <1>2, RetentionAssumption DEF EventInv, OnTime, Unclaimed, ClaimLapsed, Unreachable, Handled, ClaimDated, Settled, FailureDated, MailOnce, CompletedIsApplied, MailOnce, Delivering
<1>9. PreparedFirst(m)'
  BY <1>1, <1>2, RetentionAssumption DEF EventInv, OnTime, Unclaimed, ClaimLapsed, Unreachable, Handled, PreparedFirst, Delivering
<1>10. CompletedIsApplied(m)'
  BY <1>1, <1>2, RetentionAssumption DEF EventInv, OnTime, Unclaimed, ClaimLapsed, Unreachable, Handled, ClaimDated, Settled, FailureDated, MailOnce, CompletedIsApplied, CompletedIsApplied, Delivering
<1>11. StillQueued(m)'
  BY <1>1, <1>2, RetentionAssumption DEF EventInv, OnTime, Unclaimed, ClaimDated, Settled, FailureDated, MailOnce, CompletedIsApplied, StillQueued, Replaying
<1> QED
  BY <1>3, <1>4, <1>5, <1>6, <1>7, <1>8, <1>9, <1>10, <1>11 DEF EventInv


LEMMA transactionFailsKeeps ==
    ASSUME TypeOK, Rests, NEW w \in Workers, NEW m \in Messages, transactionFails(w, m), EventInv(m)
    PROVE  EventInv(m)'
<1>1. /\ worker[w].msg = {m} /\ worker[w].pc = "claim" /\ worker'[w].msg = {m} /\ worker'[w].pc = "nack"
      /\ \/ /\ inbox[m] = Unclaimed /\ worker[w].result = "ok"
            /\ inbox'[m] = now /\ applied'[m] = applied[m] + 1
         \/ inbox' = inbox /\ applied' = applied
      /\ \A x \in Workers : x # w => worker'[x] = worker[x]
      /\ UNCHANGED <<now, outbox, bornAt, relay, job, dlq, replay, mailed, failures, forwarded, forgotten, backlogged, retriedLate>>
  BY DEF TypeOK, transactionFails, queueVars, effectVars, boundVars, lateVars, WorkerRecord, Delivering, Claims
<1>2. /\ now \in Nat /\ bornAt[m] \in Nat /\ inbox[m] \in Int /\ applied[m] \in Nat /\ mailed[m] \in Nat
      /\ failures[m] \in Nat /\ job[m].firstFailedAt \in Int
      /\ job[m].state \in {"none", "waiting", "active", "completed", "failed"}
  BY DEF TypeOK, JobRecord
<1>3. outbox'[m] = "none" => NoTrace(m)'
  BY <1>1, <1>2, RetentionAssumption DEF EventInv, OnTime, Unclaimed, NoTrace, Handled
<1>4. bornAt'[m] <= now'
  BY <1>1, <1>2, RetentionAssumption DEF EventInv, OnTime, Unclaimed
<1>5. FailureDated(m)'
  BY <1>1, <1>2, RetentionAssumption DEF EventInv, OnTime, Unclaimed, FailureDated
<1>6. ClaimDated(m)'
  BY <1>1, <1>2, RetentionAssumption DEF EventInv, OnTime, Unclaimed, ClaimLapsed, Unreachable, Handled, ClaimDated, Settled, FailureDated
<1>7. ClaimLapsed(m)' => Unreachable(m)'
  BY <1>1, <1>2, RetentionAssumption DEF EventInv, OnTime, Unclaimed, ClaimDated, Settled, FailureDated, MailOnce, CompletedIsApplied, ClaimLapsed, Unreachable, Handled
<1>8. MailOnce(m)'
  BY <1>1, <1>2, RetentionAssumption DEF EventInv, OnTime, Unclaimed, ClaimLapsed, Unreachable, Handled, ClaimDated, Settled, FailureDated, MailOnce, CompletedIsApplied, MailOnce, Delivering
<1>9. PreparedFirst(m)'
  BY <1>1, <1>2, RetentionAssumption DEF EventInv, OnTime, Unclaimed, ClaimLapsed, Unreachable, Handled, PreparedFirst, Delivering
<1>10. CompletedIsApplied(m)'
  BY <1>1, <1>2, RetentionAssumption DEF EventInv, OnTime, Unclaimed, ClaimLapsed, Unreachable, Handled, ClaimDated, Settled, FailureDated, MailOnce, CompletedIsApplied, CompletedIsApplied, Delivering
<1>11. StillQueued(m)'
  BY <1>1, <1>2, RetentionAssumption DEF EventInv, OnTime, Unclaimed, ClaimDated, Settled, FailureDated, MailOnce, CompletedIsApplied, StillQueued, Replaying
<1> QED
  BY <1>3, <1>4, <1>5, <1>6, <1>7, <1>8, <1>9, <1>10, <1>11 DEF EventInv


LEMMA nackKeeps ==
    ASSUME TypeOK, Rests, NEW w \in Workers, NEW m \in Messages, nack(w, m), EventInv(m)
    PROVE  EventInv(m)'
<1>1. /\ worker[w].msg = {m} /\ worker[w].pc = "nack" /\ (worker'[w].msg = {m} \/ worker'[w].msg = {}) /\ worker'[w].pc \in {"idle", "route"}
      /\ \/ job[m].state = "active" /\ job'[m] = FailedJob(m) /\ failures'[m] = failures[m] + 1
         \/ /\ job[m].state = "active" /\ job'[m].state = "waiting" /\ job'[m].firstFailedAt = job[m].firstFailedAt
            /\ failures' = failures
         \/ job' = job /\ failures' = failures
      /\ \A x \in Workers : x # w => worker'[x] = worker[x]
      /\ UNCHANGED <<now, outbox, bornAt, relay, dlq, inbox, replay, applied, mailed, forwarded, forgotten, backlogged, retriedLate>>
  BY DEF TypeOK, nack, queueVars, effectVars, boundVars, lateVars, WorkerRecord, JobRecord, Delivering, IdleWorker, Owns
<1>2. /\ now \in Nat /\ bornAt[m] \in Nat /\ inbox[m] \in Int /\ applied[m] \in Nat /\ mailed[m] \in Nat
      /\ failures[m] \in Nat /\ job[m].firstFailedAt \in Int
      /\ job[m].state \in {"none", "waiting", "active", "completed", "failed"}
  BY DEF TypeOK, JobRecord
<1>3. outbox'[m] = "none" => NoTrace(m)'
  BY <1>1, <1>2, RetentionAssumption DEF EventInv, OnTime, Unclaimed, NoTrace, Handled, NoJob, NewJob, FailedJob, Job, NeverFailed
<1>4. bornAt'[m] <= now'
  BY <1>1, <1>2, RetentionAssumption DEF EventInv, OnTime, Unclaimed, NoJob, NewJob, FailedJob, Job, NeverFailed
<1>5. FailureDated(m)'
  BY <1>1, <1>2, RetentionAssumption DEF EventInv, OnTime, Unclaimed, FailureDated, NoJob, NewJob, FailedJob, Job, NeverFailed
<1>6. ClaimDated(m)'
  BY <1>1, <1>2, RetentionAssumption DEF EventInv, OnTime, Unclaimed, ClaimLapsed, Unreachable, Handled, ClaimDated, Settled, FailureDated, NoJob, NewJob, FailedJob, Job, NeverFailed
<1>7. ClaimLapsed(m)' => Unreachable(m)'
  BY <1>1, <1>2, RetentionAssumption DEF EventInv, OnTime, Unclaimed, ClaimDated, Settled, FailureDated, MailOnce, CompletedIsApplied, ClaimLapsed, Unreachable, Handled, NoJob, NewJob, FailedJob, Job, NeverFailed
<1>8. MailOnce(m)'
  BY <1>1, <1>2, RetentionAssumption DEF EventInv, OnTime, Unclaimed, ClaimLapsed, Unreachable, Handled, ClaimDated, Settled, FailureDated, MailOnce, CompletedIsApplied, MailOnce, Delivering, NoJob, NewJob, FailedJob, Job, NeverFailed
<1>9. PreparedFirst(m)'
  BY <1>1, <1>2, RetentionAssumption DEF EventInv, OnTime, Unclaimed, ClaimLapsed, Unreachable, Handled, PreparedFirst, Delivering, NoJob, NewJob, FailedJob, Job, NeverFailed
<1>10. CompletedIsApplied(m)'
  BY <1>1, <1>2, RetentionAssumption DEF EventInv, OnTime, Unclaimed, ClaimLapsed, Unreachable, Handled, ClaimDated, Settled, FailureDated, MailOnce, CompletedIsApplied, CompletedIsApplied, Delivering, NoJob, NewJob, FailedJob, Job, NeverFailed
<1>11. StillQueued(m)'
  BY <1>1, <1>2, RetentionAssumption DEF EventInv, OnTime, Unclaimed, ClaimDated, Settled, FailureDated, MailOnce, CompletedIsApplied, StillQueued, Replaying, NoJob, NewJob, FailedJob, Job, NeverFailed
<1> QED
  BY <1>3, <1>4, <1>5, <1>6, <1>7, <1>8, <1>9, <1>10, <1>11 DEF EventInv

LEMMA appendKeeps ==
    ASSUME TypeOK, NEW m \in Messages, append(m), EventInv(m)
    PROVE  EventInv(m)'
  BY RetentionAssumption DEF TypeOK, EventInv, OnTime, append, queueVars, effectVars, boundVars, lateVars, NoTrace, Handled, FailureDated, ClaimDated, Settled, ClaimLapsed, Unreachable, MailOnce, PreparedFirst, CompletedIsApplied, StillQueued, Replaying, Delivering, WorkerRecord, Job, NeverFailed


LEMMA stallKeeps ==
    ASSUME TypeOK, NEW m \in Messages, stall(m), EventInv(m)
    PROVE  EventInv(m)'
  BY RetentionAssumption DEF TypeOK, EventInv, OnTime, stall, queueVars, effectVars, boundVars, lateVars, NoTrace, Handled, FailureDated, ClaimDated, Settled, ClaimLapsed, Unreachable, MailOnce, PreparedFirst, CompletedIsApplied, StillQueued, Replaying, Delivering, WorkerRecord, JobRecord, Job, NeverFailed


LEMMA forgetCompletedKeeps ==
    ASSUME TypeOK, NEW m \in Messages, forgetCompleted(m), EventInv(m)
    PROVE  EventInv(m)'
  BY RetentionAssumption DEF TypeOK, EventInv, OnTime, forgetCompleted, queueVars, effectVars, boundVars, lateVars, NoTrace, Handled, FailureDated, ClaimDated, Settled, ClaimLapsed, Unreachable, MailOnce, PreparedFirst, CompletedIsApplied, StillQueued, Replaying, Delivering, WorkerRecord, NoJob, Job, NeverFailed


LEMMA forgetFailedKeeps ==
    ASSUME TypeOK, NEW m \in Messages, forgetFailed(m), EventInv(m)
    PROVE  EventInv(m)'
  BY RetentionAssumption DEF TypeOK, EventInv, OnTime, forgetFailed, queueVars, effectVars, boundVars, lateVars, NoTrace, Handled, FailureDated, ClaimDated, Settled, ClaimLapsed, Unreachable, MailOnce, PreparedFirst, CompletedIsApplied, StillQueued, Replaying, Delivering, WorkerRecord, NoJob, Job, NeverFailed


LEMMA SweepInboxKeeps ==
    ASSUME TypeOK, NEW m \in Messages, SweepInbox(m), EventInv(m)
    PROVE  EventInv(m)'
  BY RetentionAssumption DEF TypeOK, EventInv, OnTime, SweepInbox, queueVars, effectVars, boundVars, lateVars, NoTrace, Handled, FailureDated, ClaimDated, Settled, ClaimLapsed, Unreachable, MailOnce, PreparedFirst, CompletedIsApplied, StillQueued, Replaying, Delivering, WorkerRecord, Unclaimed, Job, NeverFailed


LEMMA SweepPublishedOutboxKeeps ==
    ASSUME TypeOK, NEW m \in Messages, SweepPublishedOutbox(m), EventInv(m)
    PROVE  EventInv(m)'
  BY RetentionAssumption DEF TypeOK, EventInv, OnTime, SweepPublishedOutbox, queueVars, effectVars, boundVars, lateVars, NoTrace, Handled, FailureDated, ClaimDated, Settled, ClaimLapsed, Unreachable, MailOnce, PreparedFirst, CompletedIsApplied, StillQueued, Replaying, Delivering, WorkerRecord, Job, NeverFailed


LEMMA retryFailedKeeps ==
    ASSUME TypeOK, NEW m \in Messages, retryFailed(m), EventInv(m)
    PROVE  EventInv(m)'
  BY RetentionAssumption DEF TypeOK, EventInv, OnTime, retryFailed, RetriedLate, queueVars, effectVars, boundVars, lateVars, NoTrace, Handled, FailureDated, ClaimDated, Settled, ClaimLapsed, Unreachable, MailOnce, PreparedFirst, CompletedIsApplied, StillQueued, Replaying, Delivering, WorkerRecord, NoJob, NeverFailed, Job


LEMMA replayRereadKeeps ==
    ASSUME TypeOK, NEW m \in Messages, replayReread(m), EventInv(m)
    PROVE  EventInv(m)'
  BY RetentionAssumption DEF TypeOK, EventInv, OnTime, replayReread, queueVars, effectVars, boundVars, lateVars, NoTrace, Handled, FailureDated, ClaimDated, Settled, ClaimLapsed, Unreachable, MailOnce, PreparedFirst, CompletedIsApplied, StillQueued, Replaying, Delivering, WorkerRecord, IdleReplay, Job, NeverFailed


LEMMA replayDropKeeps ==
    ASSUME TypeOK, NEW m \in Messages, replayDrop(m), EventInv(m)
    PROVE  EventInv(m)'
  BY RetentionAssumption DEF TypeOK, EventInv, OnTime, replayDrop, queueVars, effectVars, boundVars, lateVars, NoTrace, Handled, FailureDated, ClaimDated, Settled, ClaimLapsed, Unreachable, MailOnce, PreparedFirst, CompletedIsApplied, StillQueued, Replaying, Delivering, WorkerRecord, IdleReplay, Job, NeverFailed


LEMMA runPostCommitKeeps ==
    ASSUME TypeOK, NEW w \in Workers, NEW m \in Messages, runPostCommit(w, m), EventInv(m)
    PROVE  EventInv(m)'
<1>1. /\ worker[w].pc = "effect" /\ worker[w].msg = {m} /\ worker'[w].pc = "ack" /\ worker'[w].msg = {m}
      /\ mailed'[m] = mailed[m] + 1
      /\ \A x \in Workers : x # w => worker'[x] = worker[x]
      /\ UNCHANGED <<now, outbox, bornAt, relay, job, dlq, inbox, applied, replay, forwarded, forgotten, failures,
                     backlogged, retriedLate>>
  BY DEF TypeOK, runPostCommit, Delivering, WorkerRecord, queueVars, boundVars, lateVars
<1>2. applied[m] \in Nat /\ mailed[m] \in Nat
  BY DEF TypeOK
<1>3. (outbox'[m] = "none" => NoTrace(m)') /\ bornAt'[m] <= now' /\ FailureDated(m)' /\ ClaimDated(m)'
  BY <1>1 DEF EventInv, OnTime, NoTrace, Handled, FailureDated, ClaimDated, Settled
<1>4. ClaimLapsed(m)' => Unreachable(m)'
  BY <1>1 DEF EventInv, OnTime, ClaimLapsed, Unreachable, Handled
<1>5. MailOnce(m)'
  BY <1>1, <1>2 DEF EventInv, OnTime, MailOnce, Delivering
<1>6. PreparedFirst(m)' /\ StillQueued(m)'
  BY <1>1 DEF EventInv, PreparedFirst, StillQueued, Delivering, Replaying
<1>7. CompletedIsApplied(m)'
  BY <1>1 DEF EventInv, CompletedIsApplied, Delivering
<1> QED
  BY <1>3, <1>4, <1>5, <1>6, <1>7 DEF EventInv

LEMMA ackKeeps ==
    ASSUME TypeOK, NEW w \in Workers, NEW m \in Messages, ack(w, m), EventInv(m)
    PROVE  EventInv(m)'
  BY RetentionAssumption DEF TypeOK, EventInv, OnTime, ack, queueVars, effectVars, boundVars, lateVars, NoTrace, Handled, FailureDated, ClaimDated, Settled, ClaimLapsed, Unreachable, MailOnce, PreparedFirst, CompletedIsApplied, StillQueued, Replaying, Delivering, WorkerRecord, NoJob, IdleWorker, Job, NeverFailed


LEMMA routeRemoveKeeps ==
    ASSUME TypeOK, NEW w \in Workers, NEW m \in Messages, routeRemove(w, m), EventInv(m)
    PROVE  EventInv(m)'
  BY RetentionAssumption, ZenonT(60) DEF TypeOK, EventInv, OnTime, routeRemove, queueVars, effectVars, boundVars, lateVars, NoTrace, Handled, FailureDated, ClaimDated, Settled, ClaimLapsed, Unreachable, MailOnce, PreparedFirst, CompletedIsApplied, StillQueued, Replaying, Delivering, WorkerRecord, Job, NeverFailed


LEMMA routeAddKeeps ==
    ASSUME TypeOK, NEW w \in Workers, NEW m \in Messages, routeAdd(w, m), EventInv(m)
    PROVE  EventInv(m)'
  BY RetentionAssumption DEF TypeOK, EventInv, OnTime, routeAdd, queueVars, effectVars, boundVars, lateVars, NoTrace, Handled, FailureDated, ClaimDated, Settled, ClaimLapsed, Unreachable, MailOnce, PreparedFirst, CompletedIsApplied, StillQueued, Replaying, Delivering, WorkerRecord, IdleWorker, Job, NeverFailed


LEMMA lockUnpublishedKeeps ==
    ASSUME TypeOK, Rests, NEW n \in Messages, lockUnpublished, EventInv(n)
    PROVE  EventInv(n)'
  BY RetentionAssumption DEF TypeOK, Rests, EventInv, OnTime, lockUnpublished, queueVars, effectVars, boundVars, lateVars, NoTrace, Handled, FailureDated, ClaimDated, Settled, ClaimLapsed, Unreachable, MailOnce, PreparedFirst, CompletedIsApplied, StillQueued, Replaying, Delivering, WorkerRecord, RelayRecord, IdleRelay


LEMMA relayCommitKeeps ==
    ASSUME TypeOK, Rests, NEW n \in Messages, relayCommit, EventInv(n)
    PROVE  EventInv(n)'
  BY RetentionAssumption DEF TypeOK, Rests, EventInv, OnTime, relayCommit, queueVars, effectVars, boundVars, lateVars, NoTrace, Handled, FailureDated, ClaimDated, Settled, ClaimLapsed, Unreachable, MailOnce, PreparedFirst, CompletedIsApplied, StillQueued, Replaying, Delivering, WorkerRecord, RelayRecord, IdleRelay


LEMMA relayAbortKeeps ==
    ASSUME TypeOK, Rests, NEW n \in Messages, relayAbort, EventInv(n)
    PROVE  EventInv(n)'
  BY RetentionAssumption DEF TypeOK, Rests, EventInv, OnTime, relayAbort, queueVars, effectVars, boundVars, lateVars, NoTrace, Handled, FailureDated, ClaimDated, Settled, ClaimLapsed, Unreachable, MailOnce, PreparedFirst, CompletedIsApplied, StillQueued, Replaying, Delivering, WorkerRecord, RelayRecord, IdleRelay


LEMMA replayLostKeeps ==
    ASSUME TypeOK, Rests, NEW n \in Messages, replayLost, EventInv(n)
    PROVE  EventInv(n)'
  BY RetentionAssumption DEF TypeOK, Rests, EventInv, OnTime, replayLost, queueVars, effectVars, boundVars, lateVars, NoTrace, Handled, FailureDated, ClaimDated, Settled, ClaimLapsed, Unreachable, MailOnce, PreparedFirst, CompletedIsApplied, StillQueued, Replaying, Delivering, WorkerRecord, RelayRecord, IdleReplay


LEMMA workerLostKeeps ==
    ASSUME TypeOK, Rests, NEW n \in Messages, NEW w \in Workers, workerLost(w), EventInv(n)
    PROVE  EventInv(n)'
  BY RetentionAssumption, ZenonT(60) DEF TypeOK, Rests, EventInv, OnTime, workerLost, queueVars, effectVars, boundVars, lateVars, NoTrace, Handled, FailureDated, ClaimDated, Settled, ClaimLapsed, Unreachable, MailOnce, PreparedFirst, CompletedIsApplied, StillQueued, Replaying, Delivering, WorkerRecord, RelayRecord, IdleWorker


LEMMA DayKeeps ==
    ASSUME TypeOK, Rests, NEW m \in Messages, Day, EventInv(m)
    PROVE  EventInv(m)'
<1>1. /\ now \in Nat /\ now' = now + 1 /\ Overnight
      /\ UNCHANGED <<outbox, bornAt, job, dlq, inbox, applied, mailed, failures, relay, replay, worker, forwarded, forgotten>>
      /\ OnTime(m)' => OnTime(m) /\ ~Backlogged(m)
  BY DEF Day, TypeOK, queueVars, effectVars, boundVars, lateVars, OnTime
<1>2. /\ bornAt[m] \in Nat /\ inbox[m] \in Int /\ job[m].firstFailedAt \in Int
  BY DEF TypeOK, JobRecord
<1>3. /\ m \notin relay.rows /\ replay.msg # {m} /\ job[m].state # "active"
      /\ \A w \in Workers : ~Handled(w, m)
  BY <1>1 DEF Overnight, Rests, Handled
<1>4. (outbox'[m] = "none" => NoTrace(m)') /\ bornAt'[m] <= now'
  BY <1>1, <1>2 DEF EventInv, NoTrace, Handled
<1>5. FailureDated(m)'
  BY <1>1, <1>2 DEF EventInv, FailureDated, NeverFailed
<1>6. ClaimDated(m)'
  BY <1>1, <1>2, <1>3, RetentionAssumption
     DEF EventInv, ClaimDated, Settled, FailureDated, NeverFailed, Backlogged, Slack
<1>7. ClaimLapsed(m)' => Unreachable(m)'
  <2>1. SUFFICES ASSUME ClaimLapsed(m)'
                 PROVE  Unreachable(m)'
    OBVIOUS
  <2>2. CASE inbox[m] = Unclaimed
    BY <1>1, <1>2, <1>3, <2>1, <2>2, RetentionAssumption DEF EventInv, ClaimLapsed, Unreachable, Handled
  <2>3. CASE inbox[m] # Unclaimed
    <3>1. Settled(m)' /\ bornAt[m] <= inbox[m] /\ now' - inbox[m] > InboxRetention
      BY <1>1, <1>2, <1>6, <2>1, <2>3, RetentionAssumption DEF ClaimLapsed, ClaimDated
    <3>2. job[m].state # "waiting"
      BY <1>1, <1>2, <2>1, <3>1, RetentionAssumption DEF ClaimLapsed, Backlogged, Slack
    <3> QED
      BY <1>1, <1>2, <1>3, <3>1, <3>2, RetentionAssumption DEF Settled, Unreachable, Handled
  <2> QED
    BY <2>2, <2>3
<1>8. MailOnce(m)' /\ PreparedFirst(m)' /\ CompletedIsApplied(m)' /\ StillQueued(m)'
  BY <1>1 DEF EventInv, MailOnce, PreparedFirst, CompletedIsApplied, StillQueued, Delivering, Replaying
<1> QED
  BY <1>4, <1>5, <1>6, <1>7, <1>8 DEF EventInv

LEMMA OthersUntouched ==
    ASSUME TypeOK, Rests, NEW m \in Messages, NEW n \in Messages, n # m
    PROVE  /\ Relay(m) \/ append(m) \/ stall(m) \/ Retain(m) \/ Operate(m) => Untouched(n)
           /\ \A w \in Workers : take(w, m) \/ Deliver(w, m) => Untouched(n)
<1>0. {m} # {n}
  OBVIOUS
<1>1. ASSUME append(m)
      PROVE  Untouched(n)
  BY <1>0, <1>1 DEF TypeOK, Untouched, append, queueVars, effectVars, boundVars, lateVars
<1>2. ASSUME publish(m)
      PROVE  Untouched(n)
  BY <1>0, <1>2 DEF TypeOK, Untouched, publish, queueVars, effectVars, boundVars, lateVars, RelayRecord, QueueAdd
<1>3. ASSUME publishRefused(m)
      PROVE  Untouched(n)
  BY <1>0, <1>3 DEF TypeOK, Untouched, publishRefused, queueVars, effectVars, boundVars, lateVars, RelayRecord, QueueAdd
<1>4. ASSUME stall(m)
      PROVE  Untouched(n)
  BY <1>0, <1>4 DEF TypeOK, Untouched, stall, queueVars, effectVars, boundVars, lateVars
<1>5. ASSUME forgetCompleted(m)
      PROVE  Untouched(n)
  BY <1>0, <1>5 DEF TypeOK, Untouched, forgetCompleted, queueVars, effectVars, boundVars, lateVars
<1>6. ASSUME forgetFailed(m)
      PROVE  Untouched(n)
  BY <1>0, <1>6 DEF TypeOK, Untouched, forgetFailed, queueVars, effectVars, boundVars, lateVars
<1>7. ASSUME SweepInbox(m)
      PROVE  Untouched(n)
  BY <1>0, <1>7 DEF TypeOK, Untouched, SweepInbox, queueVars, effectVars, boundVars, lateVars, Unclaimed
<1>8. ASSUME SweepPublishedOutbox(m)
      PROVE  Untouched(n)
  BY <1>0, <1>8 DEF TypeOK, Untouched, SweepPublishedOutbox, queueVars, effectVars, boundVars, lateVars, RelayRecord
<1>9. ASSUME retryFailed(m)
      PROVE  Untouched(n)
  BY <1>0, <1>9 DEF TypeOK, Untouched, retryFailed, queueVars, effectVars, boundVars, lateVars, NeverFailed
<1>10. ASSUME replayStart(m)
      PROVE  Untouched(n)
  BY <1>0, <1>10 DEF TypeOK, Untouched, replayStart, queueVars, effectVars, boundVars, lateVars, ReplayRecord, Rests
<1>11. ASSUME replayRemoveStale(m)
      PROVE  Untouched(n)
  <2>1. replay.msg = {m} /\ (replay'.msg = {m} \/ replay'.msg = {})
    BY <1>11 DEF TypeOK, ReplayRecord, replayRemoveStale, Replaying, IdleReplay
  <2>2. job'[n] = job[n]
    BY <1>11 DEF TypeOK, replayRemoveStale
  <2> QED
    BY <1>0, <1>11, <2>1, <2>2 DEF Untouched, replayRemoveStale, effectVars, boundVars, lateVars
<1>12. ASSUME replayAdd(m)
      PROVE  Untouched(n)
  BY <1>0, <1>12 DEF TypeOK, Untouched, replayAdd, queueVars, effectVars, boundVars, lateVars, ReplayRecord, QueueAdd, Replaying, Rests
<1>13. ASSUME replayReread(m)
      PROVE  Untouched(n)
  BY <1>0, <1>13 DEF TypeOK, Untouched, replayReread, queueVars, effectVars, boundVars, lateVars, ReplayRecord, IdleReplay, Replaying, Rests
<1>14. ASSUME replayDrop(m)
      PROVE  Untouched(n)
  BY <1>0, <1>14 DEF TypeOK, Untouched, replayDrop, queueVars, effectVars, boundVars, lateVars, ReplayRecord, IdleReplay, Replaying, Rests
<1>15. ASSUME NEW w \in Workers, take(w, m)
      PROVE  Untouched(n)
  BY <1>0, <1>15 DEF TypeOK, Untouched, take, queueVars, effectVars, boundVars, lateVars, WorkerRecord, IdleWorker
<1>16. ASSUME NEW w \in Workers, prepare(w, m)
      PROVE  Untouched(n)
  <2>1. \A x \in Workers : worker'[x] = worker[x] \/ worker'[x].msg \in {{}, {m}}
    BY <1>16 DEF TypeOK, WorkerRecord, prepare, Delivering
  <2>2. forwarded \subseteq forwarded'
    BY <1>16 DEF TypeOK, prepare
  <2>3. UNCHANGED <<now, outbox, bornAt, relay, job, dlq, inbox, applied, mailed, replay, forgotten, failures, backlogged, retriedLate>>
    BY <1>16 DEF prepare, queueVars, effectVars, boundVars, lateVars
  <2> QED
    BY <1>0, <2>1, <2>2, <2>3 DEF Untouched
<1>17. ASSUME NEW w \in Workers, claimAndApply(w, m)
      PROVE  Untouched(n)
  BY <1>0, <1>17 DEF TypeOK, Untouched, claimAndApply, queueVars, effectVars, boundVars, lateVars, WorkerRecord, Delivering, Claims
<1>18. ASSUME NEW w \in Workers, transactionFails(w, m)
      PROVE  Untouched(n)
  <2>1. \A x \in Workers : worker'[x] = worker[x] \/ worker'[x].msg \in {{}, {m}}
    BY <1>18 DEF TypeOK, WorkerRecord, transactionFails, Delivering, Claims
  <2>2. inbox'[n] = inbox[n] /\ applied'[n] = applied[n]
    BY <1>18 DEF TypeOK, transactionFails
  <2>3. UNCHANGED <<now, outbox, bornAt, relay, job, dlq, mailed, replay, forwarded, forgotten, failures, backlogged, retriedLate>>
    BY <1>18 DEF transactionFails, queueVars, effectVars, boundVars, lateVars
  <2> QED
    BY <1>0, <2>1, <2>2, <2>3 DEF Untouched
<1>19. ASSUME NEW w \in Workers, runPostCommit(w, m)
      PROVE  Untouched(n)
  BY <1>0, <1>19 DEF TypeOK, Untouched, runPostCommit, queueVars, effectVars, boundVars, lateVars, WorkerRecord, Delivering
<1>20. ASSUME NEW w \in Workers, ack(w, m)
      PROVE  Untouched(n)
  BY <1>0, <1>20 DEF TypeOK, Untouched, ack, queueVars, effectVars, boundVars, lateVars, WorkerRecord, Delivering, IdleWorker
<1>21. ASSUME NEW w \in Workers, nack(w, m)
      PROVE  Untouched(n)
  <2>1. \A x \in Workers : worker'[x] = worker[x] \/ worker'[x].msg \in {{}, {m}}
    BY <1>21 DEF TypeOK, WorkerRecord, nack, Delivering, IdleWorker, Owns
  <2>2. job'[n] = job[n] /\ failures'[n] = failures[n]
    BY <1>21 DEF TypeOK, nack
  <2>3. UNCHANGED <<now, outbox, bornAt, relay, dlq, inbox, applied, mailed, replay, forwarded, forgotten, backlogged, retriedLate>>
    BY <1>21 DEF nack, queueVars, effectVars, boundVars, lateVars
  <2> QED
    BY <1>0, <2>1, <2>2, <2>3 DEF Untouched
<1>22. ASSUME NEW w \in Workers, routeRemove(w, m)
      PROVE  Untouched(n)
  BY <1>0, <1>22 DEF TypeOK, Untouched, routeRemove, queueVars, effectVars, boundVars, lateVars, WorkerRecord, Delivering
<1>23. ASSUME NEW w \in Workers, routeAdd(w, m)
      PROVE  Untouched(n)
  BY <1>0, <1>23 DEF TypeOK, Untouched, routeAdd, queueVars, effectVars, boundVars, lateVars, WorkerRecord, Delivering, IdleWorker
<1> QED
  BY <1>1, <1>2, <1>3, <1>4, <1>5, <1>6, <1>7, <1>8, <1>9, <1>10, <1>11, <1>12, <1>13, <1>14, <1>15, <1>16, <1>17, <1>18, <1>19, <1>20, <1>21, <1>22, <1>23 DEF Relay, Retain, Operate, Deliver

-----------------------------------------------------------------------------
(* The theorems. *)

LEMMA OnceInvStep ==
    ASSUME OnceInv, [Next]_vars
    PROVE  OnceInv'
<1> USE DEF OnceInv
<1>1. TypeOK' /\ Rests'
  BY TypeStep, RestStep
<1>2. SUFFICES ASSUME NEW n \in Messages
               PROVE  EventInv(n)'
  BY <1>1
<1>3. ASSUME NEW m \in Messages, append(m) \/ Relay(m) \/ stall(m) \/ Retain(m) \/ Operate(m)
      PROVE  EventInv(n)'
  <2>1. CASE n # m
    BY <1>3, <2>1, OthersUntouched, UntouchedKeeps
  <2>2. EventInv(m)'
    BY <1>3, appendKeeps, publishKeeps, publishRefusedKeeps, stallKeeps, forgetCompletedKeeps, forgetFailedKeeps, SweepInboxKeeps, SweepPublishedOutboxKeeps, retryFailedKeeps, replayStartKeeps, replayRemoveStaleKeeps, replayAddKeeps, replayRereadKeeps, replayDropKeeps
       DEF Relay, Retain, Operate
  <2> QED
    BY <2>1, <2>2
<1>4. ASSUME NEW w \in Workers, NEW m \in Messages, take(w, m) \/ Deliver(w, m)
      PROVE  EventInv(n)'
  <2>1. CASE n # m
    BY <1>4, <2>1, OthersUntouched, UntouchedKeeps
  <2>2. EventInv(m)'
    BY <1>4, takeKeeps, prepareKeeps, claimAndApplyKeeps, transactionFailsKeeps, runPostCommitKeeps, ackKeeps, nackKeeps, routeRemoveKeeps, routeAddKeeps
       DEF Deliver
  <2> QED
    BY <2>1, <2>2
<1>5. ASSUME NEW w \in Workers, workerLost(w)
      PROVE  EventInv(n)'
  BY <1>5, workerLostKeeps
<1>6. CASE Day \/ lockUnpublished \/ relayCommit \/ relayAbort \/ replayLost
  BY <1>6, DayKeeps, lockUnpublishedKeeps, relayCommitKeeps, relayAbortKeeps, replayLostKeeps
<1>7. CASE UNCHANGED vars
  BY <1>7, UntouchedKeeps DEF vars, queueVars, effectVars, boundVars, lateVars, Untouched
<1> QED
  BY <1>3, <1>4, <1>5, <1>6, <1>7 DEF Next

LEMMA OnceInvInit ==
    Init => OnceInv
<1> SUFFICES ASSUME Init
             PROVE  OnceInv
  OBVIOUS
<1>1. TypeOK
  <2>1. job \in [Messages -> JobRecord] /\ worker \in [Workers -> WorkerRecord]
    <3>1. NeverFailed \in Int
      BY DEF NeverFailed
    <3> QED
      BY <3>1, JobsTyped, WorkersTyped DEF Init, NoJob
  <2> QED
    BY <2>1 DEF Init, TypeOK, RelayRecord, ReplayRecord, IdleRelay, IdleReplay, Unclaimed
<1>2. Rests
  BY DEF Init, Rests, IdleRelay, IdleReplay, IdleWorker
<1>3. ASSUME NEW m \in Messages
      PROVE  EventInv(m)
  <2>1. /\ outbox[m] = "none" /\ bornAt[m] = 0 /\ now = 0 /\ relay.rows = {} /\ replay.msg = {} /\ dlq[m] = 0
        /\ job[m].state = "none" /\ job[m].firstFailedAt = NeverFailed
        /\ inbox[m] = Unclaimed /\ applied[m] = 0 /\ mailed[m] = 0 /\ failures[m] = 0
    BY DEF Init, IdleRelay, IdleReplay, NoJob, Job
  <2>2. \A w \in Workers : worker[w].msg = {} /\ worker[w].pc = "idle"
    BY DEF Init, IdleWorker
  <2>3. NoTrace(m) /\ FailureDated(m)
    BY <2>1, <2>2 DEF NoTrace, FailureDated, Handled, NeverFailed
  <2> QED
    BY <2>1, <2>2, <2>3 DEF EventInv, OnTime, ClaimDated, ClaimLapsed, MailOnce, PreparedFirst, CompletedIsApplied,
                            StillQueued, Delivering
<1> QED
  BY <1>1, <1>2, <1>3 DEF OnceInv

(* Of any event whatever, no mail without its commit: those sent and those about to be sent are *)
(* as many as the effects committed, at most.                                                   *)
Mailing(m) == {w \in Workers : Delivering(w, m, "effect")}
MailsFollow == \A m \in Messages : mailed[m] + Cardinality(Mailing(m)) <= applied[m]

LEMMA MailingIsFinite ==
    ASSUME NEW m \in Messages
    PROVE  IsFiniteSet(Mailing(m)) /\ Cardinality(Mailing(m)) \in Nat
  BY WorkersAssumption, FS_Subset, FS_CardinalityType DEF Mailing

LEMMA OneMore ==
    ASSUME NEW S, NEW T, NEW x, IsFiniteSet(S), T \subseteq S \union {x}
    PROVE  Cardinality(T) \in Nat /\ Cardinality(T) <= Cardinality(S) + 1
<1>1. IsFiniteSet(S \union {x}) /\ Cardinality(S \union {x}) <= Cardinality(S) + 1
  <2>1. Cardinality(S) \in Nat
    BY FS_CardinalityType
  <2> QED
    BY <2>1, FS_AddElement
<1>2. IsFiniteSet(T) /\ Cardinality(T) <= Cardinality(S \union {x})
  BY <1>1, FS_Subset
<1> QED
  BY <1>1, <1>2, FS_CardinalityType

LEMMA OneLess ==
    ASSUME NEW S, NEW T, NEW x \in S, IsFiniteSet(S), T \subseteq S \ {x}
    PROVE  Cardinality(T) \in Nat /\ Cardinality(T) <= Cardinality(S) - 1
<1>1. IsFiniteSet(S \ {x}) /\ Cardinality(S \ {x}) = Cardinality(S) - 1
  BY FS_RemoveElement
<1>2. IsFiniteSet(T) /\ Cardinality(T) <= Cardinality(S \ {x})
  BY <1>1, FS_Subset
<1> QED
  BY <1>1, <1>2, FS_CardinalityType

(* Fewer deliveries about to send, and nothing sent: the bound stays. *)
LEMMA MailsFollowFewer ==
    ASSUME TypeOK, TypeOK', MailsFollow, NEW m \in Messages,
           mailed'[m] = mailed[m], applied'[m] >= applied[m], Mailing(m)' \subseteq Mailing(m)
    PROVE  (mailed[m] + Cardinality(Mailing(m)) <= applied[m])'
<1>1. Cardinality(Mailing(m)') <= Cardinality(Mailing(m)) /\ Cardinality(Mailing(m)') \in Nat
  BY MailingIsFinite, FS_Subset, FS_CardinalityType
<1> QED
  BY <1>1, MailingIsFinite DEF TypeOK, MailsFollow

LEMMA MailsFollowStep ==
    ASSUME TypeOK, TypeOK', MailsFollow, [Next]_vars
    PROVE  MailsFollow'
<1>0. SUFFICES ASSUME NEW n \in Messages
               PROVE  (mailed[n] + Cardinality(Mailing(n)) <= applied[n])'
  BY DEF MailsFollow
<1>q. ASSUME mailed' = mailed, applied' = applied,
             \A x \in Workers : worker'[x] = worker[x] \/ worker'[x].pc # "effect"
      PROVE  (mailed[n] + Cardinality(Mailing(n)) <= applied[n])'
  <2>1. Mailing(n)' \subseteq Mailing(n)
    BY <1>q DEF Mailing, Delivering
  <2> QED
    BY <1>q, <2>1, MailsFollowFewer DEF TypeOK
<1>1. ASSUME NEW w \in Workers, NEW m \in Messages, claimAndApply(w, m)
      PROVE  (mailed[n] + Cardinality(Mailing(n)) <= applied[n])'
  <2>1. mailed' = mailed /\ \A x \in Workers : x # w => worker'[x] = worker[x]
    BY <1>1 DEF claimAndApply, effectVars, lateVars, TypeOK
  <2>2. CASE n = m /\ Claims(w, m)
    <3>1. applied'[n] = applied[n] + 1
      BY <1>1, <2>2 DEF claimAndApply, TypeOK
    <3>2. Mailing(n)' \subseteq Mailing(n) \union {w}
      BY <2>1 DEF Mailing, Delivering
    <3>3. Cardinality(Mailing(n)') <= Cardinality(Mailing(n)) + 1 /\ Cardinality(Mailing(n)') \in Nat
      BY <3>2, MailingIsFinite, OneMore
    <3> QED
      BY <2>1, <3>1, <3>3, MailingIsFinite DEF TypeOK, MailsFollow
  <2>3. CASE ~(n = m /\ Claims(w, m))
    <3>1. applied'[n] = applied[n]
      BY <1>1, <2>3 DEF claimAndApply, TypeOK
    <3>2. Mailing(n)' \subseteq Mailing(n)
      <4>1. ~Delivering(w, n, "effect")'
        <5>1. CASE n = m
          BY <1>1, <2>3, <5>1 DEF claimAndApply, TypeOK, WorkerRecord, Delivering, Claims
        <5>2. CASE n # m
          <6>1. worker[w].msg = {m} /\ worker'[w].msg = worker[w].msg /\ {m} # {n}
            <7>1. worker[w].msg = {m} /\ {m} # {n}
              BY <1>1, <5>2 DEF claimAndApply, Delivering
            <7>2. worker'[w].msg = worker[w].msg
              BY <1>1 DEF claimAndApply, TypeOK, WorkerRecord
            <7> QED
              BY <7>1, <7>2
          <6> QED
            BY <6>1 DEF Delivering
        <5> QED
          BY <5>1, <5>2
      <4> QED
        BY <2>1, <4>1 DEF Mailing, Delivering
    <3> QED
      BY <2>1, <3>1, <3>2, MailsFollowFewer DEF TypeOK
  <2> QED
    BY <2>2, <2>3
<1>2. ASSUME NEW w \in Workers, NEW m \in Messages, transactionFails(w, m)
      PROVE  (mailed[n] + Cardinality(Mailing(n)) <= applied[n])'
  <2>1. mailed' = mailed /\ applied'[n] >= applied[n]
    BY <1>2 DEF transactionFails, effectVars, lateVars, TypeOK
  <2>2. Mailing(n)' \subseteq Mailing(n)
    BY <1>2 DEF transactionFails, TypeOK, WorkerRecord, Mailing, Delivering
  <2> QED
    BY <2>1, <2>2, MailsFollowFewer
<1>3. ASSUME NEW w \in Workers, NEW m \in Messages, runPostCommit(w, m)
      PROVE  (mailed[n] + Cardinality(Mailing(n)) <= applied[n])'
  <2>1. applied' = applied /\ Delivering(w, m, "effect") /\ worker'[w].pc = "ack"
    BY <1>3 DEF runPostCommit, TypeOK, WorkerRecord
  <2>2. \A x \in Workers : x # w => worker'[x] = worker[x]
    BY <1>3 DEF runPostCommit, TypeOK
  <2>3. CASE n = m
    <3>1. mailed'[n] = mailed[n] + 1 /\ w \in Mailing(n)
      BY <1>3, <2>1, <2>3 DEF runPostCommit, TypeOK, Mailing
    <3>2. Mailing(n)' \subseteq Mailing(n) \ {w}
      BY <2>1, <2>2 DEF Mailing, Delivering
    <3>3. Cardinality(Mailing(n)') <= Cardinality(Mailing(n)) - 1 /\ Cardinality(Mailing(n)') \in Nat
      BY <3>1, <3>2, MailingIsFinite, OneLess
    <3> QED
      BY <2>1, <3>1, <3>3, MailingIsFinite DEF TypeOK, MailsFollow
  <2>4. CASE n # m
    <3>1. mailed'[n] = mailed[n]
      BY <1>3, <2>4 DEF runPostCommit, TypeOK
    <3>2. Mailing(n)' \subseteq Mailing(n)
      BY <2>1, <2>2 DEF Mailing, Delivering
    <3> QED
      BY <2>1, <3>1, <3>2, MailsFollowFewer DEF TypeOK
  <2> QED
    BY <2>3, <2>4
<1>4. ASSUME NEW w \in Workers, NEW m \in Messages, take(w, m) \/ prepare(w, m) \/ routeRemove(w, m) \/ routeAdd(w, m)
      PROVE  (mailed[n] + Cardinality(Mailing(n)) <= applied[n])'
  <2>1. mailed' = mailed /\ applied' = applied
    BY <1>4 DEF take, prepare, routeRemove, routeAdd, effectVars
  <2>2. \A x \in Workers : worker'[x] = worker[x] \/ worker'[x].pc # "effect"
    <3>1. CASE take(w, m)
      BY <3>1 DEF take, TypeOK, WorkerRecord, IdleWorker
    <3>2. CASE prepare(w, m)
      BY <3>2 DEF prepare, TypeOK, WorkerRecord
    <3>3. CASE routeRemove(w, m) \/ routeAdd(w, m)
      BY <3>3 DEF routeRemove, routeAdd, TypeOK, WorkerRecord, IdleWorker
    <3> QED
      BY <1>4, <3>1, <3>2, <3>3
  <2> QED
    BY <2>1, <2>2, <1>q
<1>5. ASSUME NEW w \in Workers, NEW m \in Messages, ack(w, m) \/ nack(w, m)
      PROVE  (mailed[n] + Cardinality(Mailing(n)) <= applied[n])'
  BY <1>5, <1>q DEF ack, nack, effectVars, boundVars, lateVars, TypeOK, WorkerRecord, IdleWorker
<1>6. ASSUME NEW w \in Workers, workerLost(w)
      PROVE  (mailed[n] + Cardinality(Mailing(n)) <= applied[n])'
  BY <1>6, <1>q DEF workerLost, effectVars, boundVars, lateVars, TypeOK, WorkerRecord, IdleWorker
<1>7. ASSUME NEW m \in Messages, append(m) \/ Relay(m) \/ stall(m) \/ Retain(m) \/ Operate(m)
      PROVE  (mailed[n] + Cardinality(Mailing(n)) <= applied[n])'
  BY <1>7, <1>q DEF append, Relay, publish, publishRefused, stall, Retain, forgetCompleted, forgetFailed, SweepInbox,
                    SweepPublishedOutbox, Operate, retryFailed, replayStart, replayRemoveStale, replayAdd, replayReread,
                    replayDrop, effectVars, boundVars, lateVars
<1>8. CASE Day \/ lockUnpublished \/ relayCommit \/ relayAbort \/ replayLost \/ UNCHANGED vars
  BY <1>8, <1>q DEF Day, lockUnpublished, relayCommit, relayAbort, replayLost, vars, effectVars, boundVars, lateVars
<1> QED
  BY <1>1, <1>2, <1>3, <1>4, <1>5, <1>6, <1>7, <1>8 DEF Next, Deliver

LEMMA MailsFollowInit ==
    Init => MailsFollow
<1> SUFFICES ASSUME Init, NEW m \in Messages
             PROVE  mailed[m] + Cardinality(Mailing(m)) <= applied[m]
  BY DEF MailsFollow
<1>1. Mailing(m) = {}
  BY DEF Init, IdleWorker, Mailing, Delivering
<1> QED
  BY <1>1, FS_EmptySet DEF Init

(* The invariant of the whole path of an event, from its row to its inbox claim, its mail and its    *)
(* failed job.  Nothing is assumed of the relay, the workers or the operator: what a backlog or a    *)
(* late retry breaks is said of the events they touch (OnTime).                                      *)
THEOREM DeliveryIsConsistent ==
    Spec => [](OnceInv /\ MailsFollow)
<1>1. Init => OnceInv /\ MailsFollow
  BY OnceInvInit, MailsFollowInit
<1>2. OnceInv /\ MailsFollow /\ [Next]_vars => (OnceInv /\ MailsFollow)'
  BY OnceInvStep, MailsFollowStep DEF OnceInv
<1> QED
  BY <1>1, <1>2, PTL DEF Spec

(* An event that no backlog and no late retry took past its retention windows is applied at most     *)
(* once, whatever is published, redelivered, retried, replayed and swept; no event is mailed more    *)
(* often than applied, nor applied before its prepare; and a failed event that was not applied stays *)
(* in a queue until its failed job ages out (inbox.store.ts, sweep-inbox.ts, dead-letter.ts).        *)
THEOREM EffectsAreAppliedOnce ==
    Spec => []AppliedOnce
<1>1. OnceInv /\ MailsFollow => AppliedOnce
  <2> SUFFICES ASSUME OnceInv, MailsFollow, NEW m \in Messages
               PROVE  /\ applied[m] <= 1 \/ m \in backlogged \union retriedLate
                      /\ mailed[m] <= applied[m]
                      /\ applied[m] > 0 => m \in forwarded
                      /\ failures[m] > 0 /\ applied[m] = 0 => InQueues(m) \/ m \in forgotten
    BY DEF AppliedOnce
  <2>1. mailed[m] <= applied[m]
    BY MailingIsFinite DEF MailsFollow, OnceInv, TypeOK
  <2> QED
    BY <2>1 DEF OnceInv, EventInv, MailOnce, OnTime, PreparedFirst, StillQueued, InQueues
<1> QED
  BY <1>1, DeliveryIsConsistent, PTL
=============================================================================
