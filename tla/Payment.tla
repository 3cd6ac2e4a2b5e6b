------------------------------- MODULE Payment --------------------------------
(***************************************************************************)
(* payment-service for one order, between its database and Stripe.         *)
(*                                                                         *)
(* A call is one execution of a use case.  It runs a few steps, each a     *)
(* transaction, an unlocked read or one request to Stripe, and others run  *)
(* between them; it may stop for good at any point (a crash, a timeout, a  *)
(* Stripe fault).  Transactions lock the header row first, so each is one  *)
(* step.                                                                   *)
(*                                                                         *)
(* Attempts are numbered in the order their payments rows are created.     *)
(* A checkout session that loses its insert never leaves the service, so a *)
(* session exists here from the moment its row does.                       *)
(***************************************************************************)
EXTENDS Naturals, FiniteSets, PaymentFence

CONSTANTS
  MaxAttempts,  \* bound on the payments rows of the order
  Calls,        \* concurrent executions of the use cases
  Mismatched,   \* attempts whose card hold is not for the order's total
  MaxFaults     \* bound on the requests Stripe answers with a 5xx

ASSUME AttemptsAssumption == MaxAttempts \in Nat \ {0}
ASSUME MismatchedAssumption == Mismatched \subseteq 1 .. MaxAttempts
ASSUME FaultsAssumption == MaxFaults \in Nat

VARIABLES
  header,        \* payment_orders.status
  authorizedAt,  \* payment_orders.authorized_at is set
  payment,       \* payments.status per attempt
  keyGen,        \* payments.stripe_key_gen per attempt
  webhook,       \* the attempts whose completed event has a webhook_events row
  session,       \* Stripe: the checkout session of the attempt
  intent,        \* Stripe: its payment intent
  fault,         \* Stripe: the idempotency keys whose stored answer is a 5xx
  call,          \* where each execution is, and what it remembers
  emitted,       \* payment.authorized events written to the outbox, per attempt
  answered       \* history: the answers cancel and capture have given

headerRow == <<header, authorizedAt>>
rows == <<headerRow, payment, keyGen, webhook>>
stripe == <<session, intent, fault>>
history == <<emitted, answered>>
vars == <<rows, stripe, call, history>>

Attempts == 1 .. MaxAttempts
Rows == {p \in Attempts : payment[p] # "NONE"}
Latest == Cardinality(Rows)

(* A call's local state: where it is, the payment it works on (0 = none) and *)
(* what it has read: a status or a result, whether a hold was recorded, and  *)
(* the payment's key generation; and whether it carries a webhook event.     *)
(* A call that is done holds its answer until its caller takes it.           *)
Idle == [pc |-> "idle", p |-> 0, seen |-> "", flag |-> FALSE, gen |-> 0, event |-> FALSE]

Go(c, pc, p, seen) == call' = [call EXCEPT ![c].pc = pc, ![c].p = p, ![c].seen = seen]
End(c) == call' = [call EXCEPT ![c] = Idle]

(* The call reads payment p, with the key generation of its row. *)
GoRead(c, pc, p, seen) ==
  call' = [call EXCEPT ![c].pc = pc, ![c].p = p, ![c].seen = seen, ![c].gen = keyGen[p], ![c].flag = FALSE]
Answer(c, outcome) ==
  /\ call' = [call EXCEPT ![c] = [Idle EXCEPT !.pc = "done", !.seen = outcome]]
  /\ answered' = answered \cup {outcome}

Init ==
  /\ header = "NONE" /\ authorizedAt = FALSE
  /\ payment = [p \in Attempts |-> "NONE"]
  /\ keyGen = [p \in Attempts |-> 0]
  /\ webhook = {}
  /\ session = [p \in Attempts |-> "none"]
  /\ intent = [p \in Attempts |-> "none"]
  /\ fault = {}
  /\ call = [c \in Calls |-> Idle]
  /\ emitted = [p \in Attempts |-> 0]
  /\ answered = {}

(* findActiveByOrderIdForUpdate; the partial unique index allows one. *)
Active == {p \in Attempts : payment[p] \notin {"NONE", "FAILED", "EXPIRED"}}

(* updateStatus with an expectedStatus. *)
updateStatus(p, expected, status) ==
  payment' = [payment EXCEPT ![p] = IF @ \in expected THEN status ELSE @]

-------------------------------------------------------------------------------
(***************************************************************************)
(* OpenPaymentSession                                                      *)
(***************************************************************************)

(* insertOpen and insertFenced: the header a command finds or leaves there. *)
insertHeader(status) == IF header = "NONE" THEN status ELSE header

openSession(c) ==
  LET h == insertHeader("OPEN") IN
  /\ call[c] = Idle
  /\ OpenSessionDecision(h) = "open"
  /\ header' = h
  /\ \/ Active = {} /\ Go(c, "open.insert", 0, "")
     \/ \E p \in Active : IF payment[p] = "PENDING" THEN Go(c, "open.probe", p, "") ELSE End(c)
  /\ UNCHANGED <<authorizedAt, payment, keyGen, webhook, stripe, history>>

(* Defect: an attempt is retired without Stripe saying its session expired. *)
probeByOwnClock(c) ==
  LET p == call[c].p IN
  /\ call[c].pc = "open.probe"
  /\ IF session[p] = "complete" THEN End(c) ELSE Go(c, "open.insert", p, "")
  /\ UNCHANGED <<rows, stripe, history>>

probe(c) ==
  LET p == call[c].p IN
  /\ call[c].pc = "open.probe"
  /\ \/ session[p] = "expired" /\ Go(c, "open.insert", p, "")
     \/ session[p] = "complete" /\ intent[p] = "requires_capture" /\ Go(c, "auth.read", p, "")
     \/ session[p] = "complete" /\ intent[p] # "requires_capture" /\ End(c)
     \/ session[p] = "open" /\ End(c)
  /\ UNCHANGED <<rows, stripe, history>>

createSession(p) == session' = [session EXCEPT ![p] = "open"]

(* Defect: the insert does not look at the header again. *)
insertAnyway(c) ==
  LET new == Latest + 1 IN
  /\ call[c].pc = "open.insert"
  /\ Active = {} /\ new <= MaxAttempts
  /\ payment' = [payment EXCEPT ![new] = "PENDING"]
  /\ createSession(new)
  /\ End(c)
  /\ UNCHANGED <<headerRow, keyGen, webhook, intent, fault, history>>

insertIfStillOpen(c) ==
  LET new == Latest + 1
      replaceable == \A p \in Active : p = call[c].p /\ payment[p] = "PENDING"
  IN
  /\ call[c].pc = "open.insert"
  /\ \/ /\ header = "OPEN" /\ replaceable
        /\ new <= MaxAttempts
        /\ payment' = [p \in Attempts |-> CASE p = new       -> "PENDING"
                                            [] p \in Active -> "EXPIRED"
                                            [] OTHER        -> payment[p]]
        /\ createSession(new)
     \/ /\ header # "OPEN" \/ ~replaceable
        /\ UNCHANGED <<payment, session>>
  /\ End(c)
  /\ UNCHANGED <<headerRow, keyGen, webhook, intent, fault, history>>

-------------------------------------------------------------------------------
(***************************************************************************)
(* Requests on a payment intent: capture it, or void its hold.  Stripe     *)
(* stores its answer to {op}:{paymentId}:{gen} and repeats it, a 5xx too.  *)
(***************************************************************************)

OpAt(pc) == IF pc = "capture.intent" THEN "capture" ELSE "void"
IntentPC == {"capture.intent", "cancel.void", "auth.void"}

Key(c) == <<OpAt(call[c].pc), call[c].p, call[c].gen>>

(* Stripe settles a hold once and for all, and refuses what comes after. *)
IntentAfter(op, status) ==
  IF status # "requires_capture" THEN status ELSE IF op = "capture" THEN "succeeded" ELSE "canceled"

(* How the call that asked at pc goes on once it knows what the intent reads. *)
intentAnswered(c, pc, status) ==
  LET on(next, seen) == call' = [call EXCEPT ![c].pc = next, ![c].seen = seen, ![c].gen = 0] IN
  CASE pc = "capture.intent" -> on("capture.settle", IF status = "canceled" THEN "not_capturable" ELSE "captured")
    [] pc = "cancel.void"    -> on("cancel.record", IF status = "succeeded" THEN "CAPTURED" ELSE "VOIDED")
    [] pc = "auth.void"      -> on("auth.apply", "strayVoided")

(* Stripe applies the request, or refuses it over an intent that is settled: *)
(* the adapter reads it back, and a settled intent reads the same later.     *)
requestIntent(c, pc) ==
  LET p == call[c].p
      status == IntentAfter(OpAt(pc), intent[p])
  IN
  /\ call[c].pc = pc /\ Key(c) \notin fault
  /\ intent' = [intent EXCEPT ![p] = status]
  /\ intentAnswered(c, pc, status)
  /\ UNCHANGED <<rows, session, fault, history>>

(* A 5xx: a new one, whether or not the request took effect, or the answer   *)
(* stored under the key.                                                     *)
serverError(c) ==
  LET p == call[c].p
      pc == call[c].pc
  IN
  /\ pc \in IntentPC
  /\ \/ /\ Key(c) \notin fault /\ Cardinality(fault) < MaxFaults
        /\ fault' = fault \cup {Key(c)}
        /\ intent' \in {intent, [intent EXCEPT ![p] = IntentAfter(OpAt(pc), @)]}
     \/ Key(c) \in fault /\ UNCHANGED <<intent, fault>>
  /\ Go(c, "intent.read", p, pc)
  /\ UNCHANGED <<rows, session, history>>

(* The intent is read back: still held, the request did not land. *)
readIntentAfter(c) ==
  LET p == call[c].p IN
  /\ call[c].pc = "intent.read"
  /\ IF intent[p] = "requires_capture" THEN Go(c, "intent.key", p, "")
                                       ELSE intentAnswered(c, call[c].seen, intent[p])
  /\ UNCHANGED <<rows, stripe, history>>

(* Defect: the poisoned key is kept. *)
keepKeyGen(c) ==
  /\ call[c].pc = "intent.key"
  /\ End(c)
  /\ UNCHANGED <<rows, stripe, history>>

(* Defect: the generation moves on from wherever it is by now. *)
incrementAnyGen(c) ==
  /\ call[c].pc = "intent.key"
  /\ keyGen' = [keyGen EXCEPT ![call[c].p] = @ + 1]
  /\ End(c)
  /\ UNCHANGED <<headerRow, payment, webhook, stripe, history>>

(* withIntentKey moves the generation on from the one it used, and throws. *)
incrementKeyGen(c) ==
  /\ call[c].pc = "intent.key"
  /\ keyGen' = [keyGen EXCEPT ![call[c].p] = IF @ = call[c].gen THEN @ + 1 ELSE @]
  /\ End(c)
  /\ UNCHANGED <<headerRow, payment, webhook, stripe, history>>

-------------------------------------------------------------------------------
(***************************************************************************)
(* RecordAuthorization, reached from the completed webhook, the reconciler *)
(* and a probe that finds its session complete.                            *)
(***************************************************************************)

retrieveAuthorization(p) == IF session[p] = "complete" THEN intent[p] ELSE "none"

(* findStaleTcc: what the reconciler comes back to, a payment left PENDING   *)
(* and a hold recorded on a dead order.                                      *)
StaleTcc ==
  {p \in Rows : payment[p] = "PENDING" \/ (payment[p] = "AUTHORIZED" /\ header \in {"CANCELLED", "FENCED"})}

(* The reconciler, reading the hold of a payment. *)
holdReported(c, p) ==
  /\ call[c] = Idle
  /\ p \in StaleTcc /\ payment[p] = "PENDING" /\ retrieveAuthorization(p) = "requires_capture"
  /\ Go(c, "auth.read", p, "")
  /\ UNCHANGED <<rows, stripe, history>>

(* insertIfNew, in the transaction that applies the event.  Whether the row  *)
(* then reads PROCESSED or SKIPPED is only for the record.                   *)
logged(p) == webhook' = webhook \cup {p}

(* checkout.session.completed is delivered, at least once.  With no hold to  *)
(* be seen it is logged as skipped, and a redelivery is a duplicate.         *)
completed(c, p) ==
  /\ call[c] = Idle
  /\ p \in Rows /\ session[p] = "complete"
  /\ \/ /\ retrieveAuthorization(p) = "requires_capture"
        /\ call' = [call EXCEPT ![c] = [Idle EXCEPT !.pc = "auth.read", !.p = p, !.event = TRUE]]
        /\ UNCHANGED webhook
     \/ /\ retrieveAuthorization(p) # "requires_capture" /\ p \notin webhook
        /\ logged(p)
        /\ UNCHANGED call
  /\ UNCHANGED <<headerRow, payment, keyGen, stripe, history>>

(* prepare reads the header, then the payment, with no lock. *)
prepareHeader(c) ==
  /\ call[c].pc = "auth.read"
  /\ call' = [call EXCEPT ![c].pc = "auth.decide", ![c].seen = header, ![c].flag = authorizedAt]
  /\ UNCHANGED <<rows, stripe, history>>

preparePayment(c) ==
  LET p == call[c].p
      decision == decideAuthorization(payment[p], call[c].seen, call[c].flag, p \notin Mismatched)
  IN
  /\ call[c].pc = "auth.decide"
  /\ GoRead(c, IF decision = "STRAY" THEN "auth.void" ELSE "auth.apply", p,
            IF decision \in {"RECORD", "RECORD_LATE"} THEN "minted" ELSE "")
  /\ UNCHANGED <<rows, stripe, history>>

voidStray(c) == requestIntent(c, "auth.void")

(* payment.authorized in the outbox, by the transaction that records the hold. *)
appendAuthorized(p) == emitted' = [emitted EXCEPT ![p] = @ + 1]

(* apply decides again on the locked rows.  What prepare did not prepare for *)
(* is thrown back for a retry, and so leaves no event row; the other         *)
(* decisions write nothing but that row.  A duplicate event applies nothing. *)
applyAuthorization(c) ==
  LET p == call[c].p
      event == call[c].event
      duplicate == event /\ p \in webhook
      decision == decideAuthorization(payment[p], header, authorizedAt, p \notin Mismatched)
      recordable == decision \in {"RECORD", "RECORD_LATE"}
      unprepared == \/ recordable /\ call[c].seen # "minted"
                    \/ decision = "STRAY" /\ call[c].seen # "strayVoided"
  IN
  /\ call[c].pc = "auth.apply"
  /\ \/ /\ ~duplicate /\ ~unprepared /\ recordable
        /\ payment' = [payment EXCEPT ![p] = "AUTHORIZED"]
        /\ header' = IF decision = "RECORD" THEN "AUTHORIZED" ELSE header
        /\ authorizedAt' = TRUE
        /\ appendAuthorized(p)
        /\ IF event THEN logged(p) ELSE UNCHANGED webhook
     \/ /\ ~duplicate /\ ~unprepared /\ ~recordable
        /\ IF event THEN logged(p) ELSE UNCHANGED webhook
        /\ UNCHANGED <<headerRow, payment, emitted>>
     \/ /\ duplicate \/ unprepared
        /\ UNCHANGED <<headerRow, payment, webhook, emitted>>
  /\ End(c)
  /\ UNCHANGED <<keyGen, stripe, answered>>

-------------------------------------------------------------------------------
(***************************************************************************)
(* CancelPayment: flip the header, release the attempt at Stripe, record.  *)
(***************************************************************************)

flip(c) ==
  LET decision == CancelDecision(header) IN
  /\ call[c] = Idle
  /\ header' = IF decision = "cancel" THEN "CANCELLED" ELSE insertHeader("FENCED")
  /\ \/ decision = "captured_conflict" /\ Answer(c, "CAPTURED_CONFLICT")
     \/ /\ decision # "captured_conflict"
        /\ \E p \in Active : \/ payment[p] = "AUTHORIZED" /\ GoRead(c, "cancel.void", p, "")
                             \/ payment[p] = "PENDING" /\ GoRead(c, "cancel.expire", p, "")
        /\ UNCHANGED answered
     \/ /\ decision # "captured_conflict"
        /\ \A p \in Active : payment[p] \notin {"PENDING", "AUTHORIZED"}
        /\ Answer(c, "CANCELLED")
  /\ UNCHANGED <<authorizedAt, payment, keyGen, webhook, stripe, emitted>>

(* An open session is closed; one that is completed or expired is refused    *)
(* and read back, and reads the same later.                                  *)
expireSession(p) == session' = [session EXCEPT ![p] = IF @ = "open" THEN "expired" ELSE @]

releaseSession(c) ==
  LET p == call[c].p IN
  /\ call[c].pc = "cancel.expire"
  /\ expireSession(p)
  /\ IF session[p] = "complete" THEN Go(c, "cancel.read", p, "")
                                ELSE Go(c, "cancel.record", p, "EXPIRED")
  /\ UNCHANGED <<rows, intent, fault, history>>

(* The buyer got through first: what the card holds decides. *)
releaseCompleted(c) ==
  LET p == call[c].p IN
  /\ call[c].pc = "cancel.read"
  /\ \/ retrieveAuthorization(p) = "requires_capture" /\ Go(c, "cancel.void", p, "")
     \/ retrieveAuthorization(p) = "canceled" /\ Go(c, "cancel.record", p, "VOIDED")
     \/ retrieveAuthorization(p) = "succeeded" /\ Go(c, "cancel.record", p, "CAPTURED")
  /\ UNCHANGED <<rows, stripe, history>>

voidHold(c) == requestIntent(c, "cancel.void")

recordRelease(c) ==
  LET p == call[c].p
      released == call[c].seen
  IN
  /\ call[c].pc = "cancel.record"
  /\ \/ released = "EXPIRED" /\ updateStatus(p, {"PENDING"}, "EXPIRED") /\ UNCHANGED header
     \/ released = "VOIDED" /\ updateStatus(p, {"PENDING", "AUTHORIZED"}, "VOIDED") /\ UNCHANGED header
     \/ /\ released = "CAPTURED" /\ updateStatus(p, {"PENDING", "AUTHORIZED"}, "SUCCEEDED")
        /\ header' = "CAPTURED"
  /\ Answer(c, IF released = "CAPTURED" THEN "CAPTURED_CONFLICT" ELSE "CANCELLED")
  /\ UNCHANGED <<authorizedAt, keyGen, webhook, stripe, emitted>>

-------------------------------------------------------------------------------
(***************************************************************************)
(* CapturePayment: decide on an unlocked read, capture, settle.            *)
(***************************************************************************)

capture(c) ==
  LET decision == CaptureDecision(header) IN
  /\ call[c] = Idle
  /\ \/ decision = "capture" /\ Go(c, "capture.read", 0, "") /\ UNCHANGED answered
     \/ decision = "idempotent" /\ Answer(c, "CAPTURED")
     \/ decision = "not_capturable" /\ Answer(c, "NOT_CAPTURABLE")
     \/ decision = "conflict" /\ Answer(c, "CONFLICT")
  /\ UNCHANGED <<rows, stripe, emitted>>

(* findByOrderId: the newest payment; not AUTHORIZED any more, it throws. *)
captureRead(c) ==
  /\ call[c].pc = "capture.read"
  /\ IF payment[Latest] = "AUTHORIZED" THEN GoRead(c, "capture.intent", Latest, "") ELSE End(c)
  /\ UNCHANGED <<rows, stripe, history>>

captureIntent(c) == requestIntent(c, "capture.intent")

settle(c) ==
  LET p == call[c].p
      result == call[c].seen
  IN
  /\ call[c].pc = "capture.settle"
  /\ \/ /\ result = "not_capturable"
        /\ updateStatus(p, {"AUTHORIZED"}, "FAILED")
        /\ header' = "CANCELLED"
        /\ Answer(c, "NOT_CAPTURABLE")
     \/ /\ result = "captured" /\ payment[p] = "AUTHORIZED"
        /\ updateStatus(p, {"AUTHORIZED"}, "SUCCEEDED")
        /\ header' = "CAPTURED"
        /\ Answer(c, "CAPTURED")
     \/ /\ result = "captured" /\ payment[p] = "SUCCEEDED"
        /\ Answer(c, "CAPTURED")
        /\ UNCHANGED <<header, payment>>
  /\ UNCHANGED <<authorizedAt, keyGen, webhook, stripe, emitted>>

-------------------------------------------------------------------------------
(***************************************************************************)
(* The reconciler, the expired webhook and the world outside.              *)
(***************************************************************************)

(* The expired webhook, or the reconciler reading the session as expired. *)
markExpired(p) ==
  /\ payment[p] = "PENDING" /\ session[p] = "expired"
  /\ updateStatus(p, {"PENDING"}, "EXPIRED")
  /\ UNCHANGED <<headerRow, keyGen, webhook, stripe, call, history>>

(* The reconciler reading a completed session whose hold is gone. *)
markVoided(p) ==
  /\ payment[p] = "PENDING" /\ retrieveAuthorization(p) = "canceled"
  /\ updateStatus(p, {"PENDING"}, "VOIDED")
  /\ UNCHANGED <<headerRow, keyGen, webhook, stripe, call, history>>

(* The reconciler cancelling again for a hold recorded on a dead order. *)
reconcileHeld(c) ==
  /\ \E p \in StaleTcc : payment[p] = "AUTHORIZED"
  /\ flip(c)

deleteReceivedBefore(p) == p \in webhook /\ webhook' = webhook \ {p}

(* The retention sweep: a redelivery after it is taken for a new event. *)
sweepWebhookEvents(p) ==
  /\ deleteReceivedBefore(p)
  /\ UNCHANGED <<headerRow, payment, keyGen, stripe, call, history>>

BuyerCompletes(p) ==
  /\ session[p] = "open"
  /\ session' = [session EXCEPT ![p] = "complete"]
  /\ intent' = [intent EXCEPT ![p] = "requires_capture"]
  /\ UNCHANGED <<rows, fault, call, history>>

SessionLapses(p) ==
  /\ session[p] = "open"
  /\ session' = [session EXCEPT ![p] = "expired"]
  /\ UNCHANGED <<rows, intent, fault, call, history>>

HoldLapses(p) ==
  /\ intent[p] = "requires_capture"
  /\ intent' = [intent EXCEPT ![p] = "canceled"]
  /\ UNCHANGED <<rows, session, fault, call, history>>

AtStripe == IntentPC \cup {"open.probe", "cancel.expire", "cancel.read", "intent.read"}

(* Stripe does not answer, refuses for now, or its breaker is open: thrown. *)
gatewayFails(c) == call[c].pc \in AtStripe /\ End(c) /\ UNCHANGED <<rows, stripe, history>>

(* The call crashes, times out or throws elsewhere; or, once done, its answer *)
(* is taken or lost.                                                          *)
callLost(c) == call[c].pc \notin AtStripe \cup {"idle"} /\ End(c) /\ UNCHANGED <<rows, stripe, history>>

CallStops(c) == gatewayFails(c) \/ callLost(c)

Outside(p) == BuyerCompletes(p) \/ SessionLapses(p) \/ HoldLapses(p)

(* The rest of a use case that has begun. *)
Proceed(c) ==
  \/ probe(c) \/ insertIfStillOpen(c)
  \/ prepareHeader(c) \/ preparePayment(c) \/ voidStray(c) \/ applyAuthorization(c)
  \/ releaseSession(c) \/ releaseCompleted(c) \/ voidHold(c) \/ recordRelease(c)
  \/ captureRead(c) \/ captureIntent(c) \/ settle(c)
  \/ serverError(c) \/ readIntentAfter(c) \/ incrementKeyGen(c)

(* The participant's commands. *)
Commands(c) == openSession(c) \/ flip(c) \/ capture(c)

(* A tick of the reconciler, for one of the payments it selects. *)
Reconcile(c, p) == holdReported(c, p) \/ markExpired(p) \/ markVoided(p)

(* Stripe's webhook; the expired event does what the reconciler would. *)
Webhook(c, p) == completed(c, p) \/ markExpired(p)

Next ==
  \/ \E c \in Calls : Commands(c) \/ Proceed(c) \/ CallStops(c)
  \/ \E c \in Calls, p \in Attempts : Reconcile(c, p) \/ Webhook(c, p)
  \/ \E p \in Attempts : sweepWebhookEvents(p) \/ Outside(p)

Spec == Init /\ [][Next]_vars

-------------------------------------------------------------------------------
(* The answer to a status query: the header, and the one attempt that holds  *)
(* or took money (0 = none).                                                 *)
statusOf ==
  LET funded == {p \in Attempts : payment[p] \in {"AUTHORIZED", "SUCCEEDED"}} IN
  [header     |-> header,
   authorized |-> IF funded = {} THEN 0 ELSE CHOOSE p \in funded : TRUE,
   attempts   |-> {payment[p] : p \in funded}]

(* A key is left behind only for good reason: every generation before the    *)
(* current one had a request that Stripe answered with a 5xx.  A request     *)
(* whose outcome is unknown is sent again under the key it was sent under.   *)
KeptKeys ==
  \A p \in Attempts : \A g \in 0 .. keyGen[p] - 1 : \E op \in {"capture", "void"} : <<op, p, g>> \in fault

(* At most one of the order's attempts can take money: a buyer never has two *)
(* sessions to pay, a session and a hold, or a hold and a charge.            *)
OneLiveAttempt ==
  Cardinality({p \in Attempts : session[p] = "open" \/ intent[p] \in {"requires_capture", "succeeded"}}) <= 1

(* The header tells the truth about the money: payment.authorized is emitted *)
(* at most once, for the payment a header that reads AUTHORIZED stands on; a *)
(* header that reads CAPTURED, and a capture answered as done, stand for     *)
(* money Stripe has taken, and the header never says otherwise afterwards.   *)
(* A cancel that was answered as done left nothing behind: no session can be *)
(* completed and nothing is held or taken, now or later, whatever opens,     *)
(* webhooks and captures were under way.                                     *)
HeaderIsTrue ==
  /\ \A p \in Attempts : emitted[p] <= 1
  /\ Cardinality({p \in Attempts : emitted[p] > 0}) <= 1
  /\ header = "AUTHORIZED" => payment[Latest] = "AUTHORIZED" /\ emitted[Latest] = 1
  /\ header = "CAPTURED" => \E p \in Attempts : payment[p] = "SUCCEEDED" /\ intent[p] = "succeeded"
  /\ "CAPTURED" \in answered => header = "CAPTURED"
  /\ "CANCELLED" \in answered =>
       \A p \in Attempts : session[p] # "open" /\ intent[p] \notin {"requires_capture", "succeeded"}

(* The service lets a hold go only once the order is cancelled or is not     *)
(* owed it: the hold the header counts on is never voided as stray.  And     *)
(* every payment follows the state machine, though most writes go past it:   *)
(* what is settled stays settled whichever of cancel, capture, webhook and   *)
(* reconciler comes last.                                                    *)
GoodHoldKept ==
  [][\A p \in Attempts :
       /\ intent[p] = "requires_capture" /\ intent'[p] = "canceled" /\ ~HoldLapses(p) =>
            header \notin {"OPEN", "AUTHORIZED"}
       /\ payment'[p] # payment[p] => canTransition(payment[p], payment'[p])]_vars
===============================================================================
