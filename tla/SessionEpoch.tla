------------------------------ MODULE SessionEpoch ------------------------------
(***************************************************************************)
(* How the epoch of one user reaches the services that verify access       *)
(* tokens.  The user-service commits an epoch and raises a Redis key to    *)
(* it; a verifier reads the key, and on a miss asks the user-service, which *)
(* reads its row and raises the key itself; a reconciler publishes again   *)
(* what the rows changed since its last clean pass.                        *)
(***************************************************************************)
EXTENDS Integers

CONSTANTS
  Writers,    \* requests that commit an epoch: registration, reuse, logout-all, password
  Verifiers,  \* requests another service is authenticating
  MaxEpoch, MaxFaults \* bounds

ASSUME BoundAssumption == MaxEpoch \in Nat /\ MaxFaults \in Nat

VARIABLES
  epoch,      \* token_epoch of the user's row
  published,  \* the key in Redis
  writer,     \* per writer: the epoch it has committed and not yet published
  recent,     \* whether the row changed since the reconciler's watermark
  pass,       \* the reconciler's pass: the epoch it read, and whether the row changed since
  look,       \* per verifier: where it is, and the epoch it works with
  answered,   \* history: the highest epoch whose revocation was answered
  faults

vars == <<epoch, published, writer, recent, pass, look, answered, faults>>

None == -1
Later(a, b) == IF a >= b THEN a ELSE b

NoPass == [epoch |-> None, changed |-> FALSE]
NotLooking == [pc |-> "idle", floor |-> None, epoch |-> None]

\* Defect: a plain SET.
Overwrite(current, proposed) == proposed

(* SET-max in one round trip. *)
Raise(current, proposed) == Later(current, proposed)

Fails == faults < MaxFaults /\ faults' = faults + 1

-----------------------------------------------------------------------------
(* The user-service *)

(* A transaction commits the next epoch, and with it a new updated_at. *)
bump(w) ==
  /\ writer[w] = None /\ epoch < MaxEpoch
  /\ epoch' = epoch + 1
  /\ writer' = [writer EXCEPT ![w] = epoch + 1]
  /\ recent' = TRUE /\ pass' = IF pass = NoPass THEN pass ELSE [pass EXCEPT !.changed = TRUE]
  /\ UNCHANGED <<published, look, answered, faults>>

(* Three attempts, then a 5xx. *)
publishEpochOrRaise(w) ==
  /\ writer[w] # None
  /\ \/ /\ published' = Raise(published, writer[w])
        /\ answered' = Later(answered, writer[w])
        /\ UNCHANGED faults
     \/ Fails /\ UNCHANGED <<published, answered>>
  /\ writer' = [writer EXCEPT ![w] = None]
  /\ UNCHANGED <<epoch, recent, pass, look>>

-----------------------------------------------------------------------------
(* The reconciler.  A change may be stamped before the watermark and committed after the pass has     *)
(* read; the overlap of the passes covers it, so a change counts from its commit.                     *)

listChanges ==
  /\ pass = NoPass /\ recent
  /\ pass' = [epoch |-> epoch, changed |-> FALSE]
  /\ UNCHANGED <<epoch, published, writer, recent, look, answered, faults>>

\* Defect: a pass that failed moves the watermark too.
WatermarkMoves(clean) == pass.changed

(* Whether the row counts as changed after a pass: a failed one leaves the watermark. *)
Watermark(clean) == ~clean \/ pass.changed

reconcileOnce ==
  /\ pass # NoPass
  /\ \/ published' = Raise(published, pass.epoch) /\ recent' = Watermark(TRUE) /\ UNCHANGED faults
     \/ Fails /\ recent' = Watermark(FALSE) /\ UNCHANGED published
  /\ pass' = NoPass
  /\ UNCHANGED <<epoch, writer, look, answered>>

-----------------------------------------------------------------------------
(* A service that verifies an access token: a token behind the epoch it hears is refused.  It hears   *)
(* the key when there is one.                                                                         *)

verify(v) ==
  /\ look[v].pc = "idle" /\ published = None
  /\ look' = [look EXCEPT ![v] = [pc |-> "miss", floor |-> answered, epoch |-> None]]
  /\ UNCHANGED <<epoch, published, writer, recent, pass, answered, faults>>

(* The read-through: the user-service reads its row, publishes what it read and answers what is then  *)
(* published.                                                                                         *)
fillReads(v) ==
  /\ look[v].pc = "miss"
  /\ look' = [look EXCEPT ![v].pc = "filling", ![v].epoch = epoch]
  /\ UNCHANGED <<epoch, published, writer, recent, pass, answered, faults>>

fillPublishes(v) ==
  /\ look[v].pc = "filling"
  /\ \/ /\ published' = Raise(published, look[v].epoch)
        /\ look' = [look EXCEPT ![v].pc = "heard", ![v].epoch = Raise(published, look[v].epoch)]
        /\ UNCHANGED faults
     \/ Fails /\ look' = [look EXCEPT ![v] = NotLooking] /\ UNCHANGED published
  /\ UNCHANGED <<epoch, writer, recent, pass, answered>>

decides(v) ==
  /\ look[v].pc = "heard"
  /\ look' = [look EXCEPT ![v] = NotLooking]
  /\ UNCHANGED <<epoch, published, writer, recent, pass, answered, faults>>

-----------------------------------------------------------------------------
(* Faults *)

(* The user-service dies.  Its first pass looks back past the life of an access token. *)
Crash ==
  /\ Fails
  /\ writer' = [w \in Writers |-> None]
  /\ look' = [v \in Verifiers |-> IF look[v].pc = "heard" THEN look[v] ELSE NotLooking]
  /\ pass' = NoPass /\ recent' = TRUE
  /\ UNCHANGED <<epoch, published, answered>>

Publishing == pass # NoPass \/ (\E w \in Writers : writer[w] # None) \/ \E v \in Verifiers : look[v].pc = "filling"

(* Redis loses the key while no older epoch is on its way to it. *)
KeyLost ==
  /\ ~Publishing /\ Fails
  /\ published' = None
  /\ UNCHANGED <<epoch, writer, recent, pass, look, answered>>

-----------------------------------------------------------------------------

(* The user's row is there, and the request that registers it has yet to publish: a best effort, as   *)
(* a key never published is one the verifiers miss.                                                   *)
Init ==
  /\ epoch = 0 /\ published = None
  /\ \E registering \in Writers : writer = [w \in Writers |-> IF w = registering THEN 0 ELSE None]
  /\ recent = TRUE /\ pass = NoPass
  /\ look = [v \in Verifiers |-> NotLooking]
  /\ answered = 0 /\ faults = 0

Next ==
  \/ \E w \in Writers : bump(w) \/ publishEpochOrRaise(w)
  \/ listChanges \/ reconcileOnce
  \/ \E v \in Verifiers : verify(v) \/ fillReads(v) \/ fillPublishes(v) \/ decides(v)
  \/ Crash \/ KeyLost

(* The reconciler runs on an interval. *)
Fairness == WF_vars(listChanges) /\ WF_vars(reconcileOnce)

Spec == Init /\ [][Next]_vars /\ Fairness

-----------------------------------------------------------------------------

TypeOK ==
  /\ epoch \in 0 .. MaxEpoch /\ published \in None .. MaxEpoch
  /\ writer \in [Writers -> None .. MaxEpoch]
  /\ recent \in BOOLEAN /\ pass \in [epoch : None .. MaxEpoch, changed : BOOLEAN]
  /\ look \in [Verifiers -> [pc : {"idle", "miss", "filling", "heard"}, floor : None .. MaxEpoch, epoch : None .. MaxEpoch]]
  /\ answered \in 0 .. MaxEpoch /\ faults \in 0 .. MaxFaults

(* A verification that begins after a revocation was answered hears at least its epoch, and so        *)
(* refuses every access token it revoked: over read-through fills that race the bump, publishes out   *)
(* of order and a lost key.                                                                           *)
AnsweredIsEffective ==
  /\ published # None => published >= answered
  /\ \A v \in Verifiers : look[v].pc = "heard" => look[v].epoch >= look[v].floor

(* The verifiers always get to hear of every committed revocation, even when its publish failed or its *)
(* process died: the reconciler still has to publish it.                                              *)
RevocationReaches == []<>(published = None \/ published >= epoch)
===============================================================================
