------------------------- MODULE CheckoutSagaProofs -------------------------
(***************************************************************************)
(* order-service's checkout of one order, for any number of payment        *)
(* attempts, concurrent calls, Stripe faults and deliveries of events: the *)
(* money is taken only for stock that is committed, a run that has closed  *)
(* leaves nothing inconsistent, a dead order holds nothing, and each order *)
(* is told of once.                                                        *)
(*                                                                         *)
(* The invariant says which phase the order is in, and for each phase what *)
(* is still owed to the stock and to the payment, by which task: a request *)
(* whose task is over may still be executed, so a phase says as well which *)
(* requests were never made.  Of payment-service it uses what              *)
(* PaymentProofs shows of every step of it (PP is that module, over the    *)
(* variables of Pay).                                                      *)
(***************************************************************************)
EXTENDS CheckoutSaga, SequenceTheorems, TLAPS

(* payment-service, with what is proved of it. *)
PP == INSTANCE PaymentProofs

-----------------------------------------------------------------------------
(* The shape of the saga's state and of its tasks *)

SagaRecord ==
  [mode : {"checkout", "lateAuthorization"},
   step : {"RESERVING", "AWAITING_AUTH", "COMMITTING_STOCK", "CAPTURING", "COMPLETED", "COMPENSATING", "COMPENSATED"},
   orderStatus : {"NONE", "RESERVING", "REJECTED", "PENDING"} \union SagaTargets,
   verifying : SUBSET Nat, voided : SUBSET Nat, pending : SUBSET Nat, nextCommandId : Nat]

CompKinds == {"RELEASE_STOCK", "RESTOCK", "CANCEL_PAYMENT"}
TaskKinds ==
  CompKinds \union {"TRY", "APPLY_TRY", "VERIFY_AUTHORIZATION", "CHANGE_ORDER", "COMMIT_STOCK", "CAPTURE_PAYMENT",
                    "LOAD_CONTEXT"}

TryAnswers == {"unsent", "sent", "HELD", "OUT_OF_STOCK", "CONTENDED", "CONFLICT"}
TaskArgs ==
  TryAnswers \union {"", "TIMEOUT", "ABANDONED", "VERIFIED", "NOT_AUTHORIZED", "PAYMENT_MISMATCH"} \union SagaTargets

LeafTask == [kind : TaskKinds, id : Nat, arg : TaskArgs, then : {{}}]
TaskRecord == [kind : TaskKinds, id : Nat, arg : TaskArgs, then : SUBSET LeafTask]

SagaTypes ==
  /\ saga \in SagaRecord
  /\ tasks \subseteq TaskRecord
  /\ try \in TryAnswers
  /\ caller \in [Calls -> TaskRecord \union {NoTask}]

-----------------------------------------------------------------------------
(* Where the order is.  A saga goes through one phase after another, and     *)
(* each says what is owed, by which tasks, to the stock and to the payment.  *)

Owes(K) == \E t \in tasks : t.kind = K \/ \E u \in t.then : u.kind = K
Never(K) == K \notin sent /\ ~Owes(K)
Verifying(t) == t.kind = "VERIFY_AUTHORIZATION" /\ t.then = {}
Quiet == {"APPLY_TRY", "VERIFY_AUTHORIZATION"}

CommitTask == Task("COMMIT_STOCK", 0, "", {})
CaptureTask == Task("CAPTURE_PAYMENT", 0, "", {})
ConfirmTask == changeOrder("CONFIRMING", {CommitTask})
PaidTask == changeOrder("PAID", {})
LoadTask == Task("LOAD_CONTEXT", 0, "", {})

NotStarted ==
  /\ run = "none" /\ saga = initialCheckoutSagaState("checkout")
  /\ tasks = {} /\ sent = {} /\ try = "unsent" /\ order = "RESERVING" /\ stock = "NONE"

ReservingTask(t) ==
  /\ t.then = {}
  /\ \/ t.kind = "TRY" /\ order = "RESERVING"
     \/ /\ t.kind = "APPLY_TRY"
        /\ order \in {"RESERVING", IF t.arg = "HELD" THEN "PENDING" ELSE "REJECTED"}
        /\ t.arg = "HELD" => stock # "NONE"

Reserving ==
  /\ run = "running" /\ saga = initialCheckoutSagaState("checkout")
  /\ sent = {} /\ stock \in {"NONE", "HELD", "RELEASED"}
  /\ \E t \in tasks : tasks = {t} /\ ReservingTask(t)

Placed == run = "running" /\ saga.mode = "checkout" /\ saga.pending = {}

Awaiting ==
  /\ Placed /\ saga.step = "AWAITING_AUTH" /\ saga.orderStatus = "PENDING"
  /\ \A t \in tasks : Verifying(t)
  /\ sent \subseteq Quiet /\ order = "PENDING" /\ stock \in {"HELD", "RELEASED"}

Confirming ==
  /\ Placed /\ saga.step = "COMMITTING_STOCK" /\ saga.orderStatus = "CONFIRMING" /\ authorizedAt
  /\ \A t \in tasks : Verifying(t) \/ t = ConfirmTask
  /\ sent \subseteq Quiet /\ order \in {"PENDING", "CONFIRMING"} /\ stock \in {"HELD", "RELEASED"}

Committing ==
  /\ Placed /\ saga.step = "COMMITTING_STOCK" /\ saga.orderStatus = "CONFIRMING" /\ authorizedAt
  /\ \A t \in tasks : Verifying(t) \/ t = CommitTask
  /\ sent \subseteq Quiet \union {"CONFIRMING"} /\ order = "CONFIRMING"
  /\ stock \in {"HELD", "RELEASED", "COMMITTED"}

Capturing ==
  /\ Placed /\ saga.step = "CAPTURING" /\ saga.orderStatus = "CONFIRMING" /\ authorizedAt
  /\ \A t \in tasks : Verifying(t) \/ t = CaptureTask
  /\ sent \subseteq Quiet \union {"CONFIRMING", "COMMIT_STOCK"} /\ order = "CONFIRMING" /\ stock = "COMMITTED"

(* The money is taken.  A late authorization may still ask what became of the order. *)
Charged ==
  /\ run \in {"running", "closed"} /\ saga.pending = {} /\ saga.orderStatus \in {"PAID", "NONE"}
  /\ \/ saga.step = "COMPLETED"
     \/ saga.mode = "lateAuthorization" /\ saga.step = "COMPENSATING" /\ saga.orderStatus = "NONE" /\ order = "PAID"
  /\ \A t \in tasks : Verifying(t) \/ t = PaidTask \/ (t = LoadTask /\ order = "PAID")
  /\ sent \subseteq Quiet \union {"CONFIRMING", "COMMIT_STOCK", "CAPTURE_PAYMENT", "PAID", "LOAD_CONTEXT"}
  /\ order = "PAID" \/ (order = "CONFIRMING" /\ PaidTask \in tasks /\ "PAID" \notin sent)
  /\ stock = "COMMITTED" /\ "CAPTURED" \in answered

Ending == run \in {"running", "closed"} /\ saga.step \in {"COMPENSATING", "COMPENSATED"}

Rejected ==
  /\ Ending /\ saga.mode = "checkout" /\ saga.orderStatus = "REJECTED"
  /\ \A t \in tasks : t.kind = "RELEASE_STOCK" /\ t.then = {}
  /\ sent \subseteq {"APPLY_TRY", "RELEASE_STOCK"} /\ order = "REJECTED"
  /\ stock \in {"RELEASED", "FENCED"} \/ (stock \in {"NONE", "HELD"} /\ tasks # {})

(* What a dead order owes its stock: it was never committed, its commit was  *)
(* refused, or its capture was.                                              *)
NeverCommitted(X) ==
  /\ X # "FAILED" /\ stock \in {"HELD", "RELEASED"}
  /\ stock = "HELD" => Owes("RELEASE_STOCK")
  /\ Never("COMMIT_STOCK") /\ Never("CAPTURE_PAYMENT") /\ Never("RESTOCK")

CommitRefused(X) ==
  /\ X = "FAILED" /\ stock = "RELEASED"
  /\ Never("CAPTURE_PAYMENT") /\ Never("RESTOCK") /\ Never("RELEASE_STOCK")

CaptureRefused(X) ==
  /\ X = "FAILED" /\ stock \in {"COMMITTED", "RESTOCKED"}
  /\ stock = "COMMITTED" => Owes("RESTOCK")
  /\ Never("RELEASE_STOCK")
  /\ PP!NothingLive /\ authorizedAt

DoomedTask(X, t) ==
  \/ t.kind \in CompKinds /\ t.then = {}
  \/ Verifying(t)
  \/ t.kind = "LOAD_CONTEXT" /\ t.then = {} /\ order = X
  \/ /\ t.kind = "CHANGE_ORDER" /\ t.arg = X
     /\ \A u \in t.then : u.kind \in CompKinds /\ u.then = {}
     /\ \E u \in t.then : u.kind = "CANCEL_PAYMENT"

Doomed(X) ==
  /\ Ending
  /\ saga.orderStatus = X \/ (saga.mode = "lateAuthorization" /\ saga.orderStatus = "NONE")
  /\ saga.mode = "lateAuthorization" => order = X
  /\ \A t \in tasks : DoomedTask(X, t)
  /\ sent \intersect SagaTargets \subseteq {X, "CONFIRMING"}
  /\ "CONFIRMING" \in sent => X = "FAILED"
  /\ order = X \/ (order = From(X) /\ X \notin sent /\ \E t \in tasks : t.kind = "CHANGE_ORDER")
  /\ "CANCELLED" \in answered \/ Owes("CANCEL_PAYMENT")
  /\ NeverCommitted(X) \/ CommitRefused(X) \/ CaptureRefused(X)

Ends == {"EXPIRED", "CANCELLED", "FAILED"}

Phase ==
  \/ NotStarted \/ Reserving \/ Awaiting \/ Confirming \/ Committing \/ Capturing \/ Charged \/ Rejected
  \/ \E X \in Ends : Doomed(X)

-----------------------------------------------------------------------------
ClosedIdle == run # "running" => tasks = {}
HeldStays == try = "HELD" => stock \notin {"NONE", "FENCED"}
Verdicts == \A t \in tasks : t.kind = "VERIFY_AUTHORIZATION" /\ t.arg = "VERIFIED" => authorizedAt

(* What the saga has not asked for does not happen to the money. *)
Asked(K) == K \in sent \/ \E t \in tasks : t.kind = K

MoneyInv ==
  /\ PP!PaymentInv /\ PP!AnswersKept
  /\ ~Asked("CAPTURE_PAYMENT") => PP!NoCharge
  /\ ~Asked("CANCEL_PAYMENT") => PP!NoCancel
  /\ order \in HIDDEN_FROM_BUYER => header = "NONE"

(* A call somebody waits for is of the kind he asked for. *)
WaitsFor(c) ==
  /\ caller[c] \in tasks
  /\ \/ caller[c].kind = "CAPTURE_PAYMENT" /\ PP!Capturing(c)
     \/ caller[c].kind = "CANCEL_PAYMENT" /\ PP!Cancelling(c)

Callers ==
  /\ \A c \in Calls : caller[c] = NoTask \/ WaitsFor(c)
  /\ \A c, d \in Calls : caller[c] = caller[d] /\ caller[c] # NoTask => c = d

(* Every compensation that is owed has an id of its own, and is waited for. *)
Comp(t) == t.kind \in CompKinds

Ids ==
  /\ \A t \in tasks : (Comp(t) => t.id \in saga.pending) /\ \A u \in t.then : Comp(u) => u.id \in saga.pending
  /\ \A t, u \in tasks : Comp(t) /\ Comp(u) /\ t.id = u.id => t = u
  /\ \A t \in tasks : \A u, v \in t.then : Comp(u) /\ Comp(v) /\ u.id = v.id => u = v
  /\ \A t, u \in tasks : \A v \in u.then : Comp(t) /\ Comp(v) => t.id # v.id
  /\ \A t, u \in tasks : t.then # {} /\ u.then # {} => t = u
  /\ \A i \in saga.pending : i < saga.nextCommandId
  /\ saga.step = "COMPENSATED" => saga.pending = {}

Cancels ==
  /\ cancel = "accepted" => run = "running" /\ saga.orderStatus = "CANCELLED"
  /\ cancel = "confirmed" => order = "CANCELLED" /\ stock = "RELEASED" /\ "CANCELLED" \in answered

(* Pay and PP are the same module over the same variables: their definitions agree. *)
LEMMA SameSize == ASSUME NEW S PROVE Pay!Cardinality(S) = PP!Cardinality(S)
  BY Zenon DEF Pay!Cardinality, PP!Cardinality

LEMMA SameRows == Pay!Rows = PP!Rows /\ Pay!Active = PP!Active /\ Pay!Latest = PP!Latest /\ Pay!Attempts = PP!Attempts
<1>1. Pay!Attempts = PP!Attempts
  BY DEF Pay!Attempts, PP!Attempts
<1>2. Pay!Rows = PP!Rows /\ Pay!Active = PP!Active
  BY <1>1 DEF Pay!Rows, PP!Rows, Pay!Active, PP!Active
<1> QED
  BY <1>1, <1>2, SameSize DEF Pay!Latest, PP!Latest

LEMMA SameAsk ==
  ASSUME NEW c
  PROVE  /\ Pay!Key(c) = PP!Key(c) /\ Pay!IntentPC = PP!IntentPC
         /\ \A op, s : Pay!IntentAfter(op, s) = PP!IntentAfter(op, s)
         /\ \A pc : Pay!OpAt(pc) = PP!OpAt(pc)
         /\ \A pc, p, s : Pay!Go(c, pc, p, s) => PP!Go(c, pc, p, s)
  BY DEF Pay!Key, PP!Key, Pay!IntentPC, PP!IntentPC, Pay!IntentAfter, PP!IntentAfter, Pay!OpAt, PP!OpAt, Pay!Go, PP!Go

(* What a call may do next is the same, handler by handler. *)
LEMMA SameProceed == ASSUME NEW c \in Calls PROVE Pay!Proceed(c) => PP!Proceed(c)
<1>1. Pay!probe(c) => PP!probe(c)
  BY DEF Pay!probe, PP!probe, Pay!Go, PP!Go, Pay!End, PP!End, Pay!rows, PP!rows, Pay!headerRow, PP!headerRow,
     Pay!stripe, PP!stripe, Pay!history, PP!history, Pay!Idle, PP!Idle
<1>2. Pay!insertIfStillOpen(c) => PP!insertIfStillOpen(c)
  BY SameRows, ZenonT(60) DEF Pay!insertIfStillOpen, PP!insertIfStillOpen, Pay!End, PP!End, Pay!createSession,
     PP!createSession, Pay!rows, PP!rows, Pay!headerRow, PP!headerRow, Pay!stripe, PP!stripe, Pay!history,
     PP!history, Pay!Idle, PP!Idle
<1>3. Pay!prepareHeader(c) => PP!prepareHeader(c)
  BY DEF Pay!prepareHeader, PP!prepareHeader, Pay!rows, PP!rows, Pay!headerRow, PP!headerRow, Pay!stripe,
     PP!stripe, Pay!history, PP!history, Pay!Idle, PP!Idle
<1>4. Pay!preparePayment(c) => PP!preparePayment(c)
  BY DEF Pay!preparePayment, PP!preparePayment, Pay!GoRead, PP!GoRead, Pay!decideAuthorization,
     PP!decideAuthorization, Pay!RECORDED, PP!RECORDED, Pay!RETIRED, PP!RETIRED, Pay!rows, PP!rows, Pay!headerRow,
     PP!headerRow, Pay!stripe, PP!stripe, Pay!history, PP!history, Pay!Idle, PP!Idle
<1>5. Pay!voidStray(c) => PP!voidStray(c)
  BY DEF Pay!voidStray, PP!voidStray, Pay!requestIntent, PP!requestIntent, Pay!OpAt, PP!OpAt, Pay!Key, PP!Key,
     Pay!IntentAfter, PP!IntentAfter, Pay!intentAnswered, PP!intentAnswered, Pay!rows, PP!rows, Pay!headerRow,
     PP!headerRow, Pay!stripe, PP!stripe, Pay!history, PP!history, Pay!Idle, PP!Idle
<1>6. Pay!applyAuthorization(c) => PP!applyAuthorization(c)
  BY DEF Pay!applyAuthorization, PP!applyAuthorization, Pay!decideAuthorization, PP!decideAuthorization,
     Pay!RECORDED, PP!RECORDED, Pay!RETIRED, PP!RETIRED, Pay!logged, PP!logged, Pay!appendAuthorized,
     PP!appendAuthorized, Pay!End, PP!End, Pay!rows, PP!rows, Pay!headerRow, PP!headerRow, Pay!stripe, PP!stripe,
     Pay!history, PP!history, Pay!Idle, PP!Idle
<1>7. Pay!releaseSession(c) => PP!releaseSession(c)
  BY DEF Pay!releaseSession, PP!releaseSession, Pay!expireSession, PP!expireSession, Pay!Go, PP!Go, Pay!rows,
     PP!rows, Pay!headerRow, PP!headerRow, Pay!stripe, PP!stripe, Pay!history, PP!history, Pay!Idle, PP!Idle
<1>8. Pay!releaseCompleted(c) => PP!releaseCompleted(c)
  BY DEF Pay!releaseCompleted, PP!releaseCompleted, Pay!retrieveAuthorization, PP!retrieveAuthorization, Pay!Go,
     PP!Go, Pay!rows, PP!rows, Pay!headerRow, PP!headerRow, Pay!stripe, PP!stripe, Pay!history, PP!history, Pay!Idle,
     PP!Idle
<1>9. Pay!voidHold(c) => PP!voidHold(c)
  BY DEF Pay!voidHold, PP!voidHold, Pay!requestIntent, PP!requestIntent, Pay!OpAt, PP!OpAt, Pay!Key, PP!Key,
     Pay!IntentAfter, PP!IntentAfter, Pay!intentAnswered, PP!intentAnswered, Pay!rows, PP!rows, Pay!headerRow,
     PP!headerRow, Pay!stripe, PP!stripe, Pay!history, PP!history, Pay!Idle, PP!Idle
<1>10. Pay!recordRelease(c) => PP!recordRelease(c)
  BY DEF Pay!recordRelease, PP!recordRelease, Pay!updateStatus, PP!updateStatus, Pay!Answer, PP!Answer, Pay!rows,
     PP!rows, Pay!headerRow, PP!headerRow, Pay!stripe, PP!stripe, Pay!history, PP!history, Pay!Idle, PP!Idle
<1>11. Pay!captureRead(c) => PP!captureRead(c)
  BY SameRows DEF Pay!captureRead, PP!captureRead, Pay!GoRead, PP!GoRead, Pay!End, PP!End, Pay!rows, PP!rows,
     Pay!headerRow, PP!headerRow, Pay!stripe, PP!stripe, Pay!history, PP!history, Pay!Idle, PP!Idle
<1>12. Pay!captureIntent(c) => PP!captureIntent(c)
  BY DEF Pay!captureIntent, PP!captureIntent, Pay!requestIntent, PP!requestIntent, Pay!OpAt, PP!OpAt, Pay!Key,
     PP!Key, Pay!IntentAfter, PP!IntentAfter, Pay!intentAnswered, PP!intentAnswered, Pay!rows, PP!rows,
     Pay!headerRow, PP!headerRow, Pay!stripe, PP!stripe, Pay!history, PP!history, Pay!Idle, PP!Idle
<1>13. Pay!settle(c) => PP!settle(c)
  BY DEF Pay!settle, PP!settle, Pay!updateStatus, PP!updateStatus, Pay!Answer, PP!Answer, Pay!rows, PP!rows,
     Pay!headerRow, PP!headerRow, Pay!stripe, PP!stripe, Pay!history, PP!history, Pay!Idle, PP!Idle
<1>14. Pay!serverError(c) => PP!serverError(c)
  BY SameAsk, SameSize DEF Pay!serverError, PP!serverError, Pay!rows, PP!rows, Pay!headerRow, PP!headerRow,
     Pay!stripe, PP!stripe, Pay!history, PP!history, Pay!Idle, PP!Idle
<1>15. Pay!readIntentAfter(c) => PP!readIntentAfter(c)
  BY DEF Pay!readIntentAfter, PP!readIntentAfter, Pay!Go, PP!Go, Pay!intentAnswered, PP!intentAnswered, Pay!rows,
     PP!rows, Pay!headerRow, PP!headerRow, Pay!stripe, PP!stripe, Pay!history, PP!history, Pay!Idle, PP!Idle
<1>16. Pay!incrementKeyGen(c) => PP!incrementKeyGen(c)
  BY DEF Pay!incrementKeyGen, PP!incrementKeyGen, Pay!End, PP!End, Pay!rows, PP!rows, Pay!headerRow, PP!headerRow,
     Pay!stripe, PP!stripe, Pay!history, PP!history, Pay!Idle, PP!Idle
<1> QED
  BY <1>1, <1>2, <1>3, <1>4, <1>5, <1>6, <1>7, <1>8, <1>9, <1>10, <1>11, <1>12, <1>13, <1>14, <1>15, <1>16 DEF
     Pay!Proceed, PP!Proceed

LEMMA SameFlip == ASSUME NEW c \in Calls, Pay!flip(c) PROVE PP!flip(c)
  BY SameRows DEF Pay!flip, PP!flip, Pay!insertHeader, PP!insertHeader, Pay!CancelDecision, PP!CancelDecision,
     Pay!Answer, PP!Answer, Pay!GoRead, PP!GoRead, Pay!rows, PP!rows, Pay!headerRow, PP!headerRow, Pay!stripe,
     PP!stripe, Pay!history, PP!history, Pay!Idle, PP!Idle, Pay!Attempts, PP!Attempts

LEMMA SameCapture == ASSUME NEW c \in Calls, Pay!capture(c) PROVE PP!capture(c)
  BY SameRows DEF Pay!capture, PP!capture, Pay!CaptureDecision, PP!CaptureDecision, Pay!Go, PP!Go, Pay!Answer,
     PP!Answer, Pay!rows, PP!rows, Pay!headerRow, PP!headerRow, Pay!stripe, PP!stripe, Pay!history, PP!history,
     Pay!Idle, PP!Idle, Pay!Attempts, PP!Attempts

LEMMA SameOpenSession == ASSUME NEW c \in Calls, Pay!openSession(c) PROVE PP!openSession(c)
  BY SameRows DEF Pay!openSession, PP!openSession, Pay!insertHeader, PP!insertHeader, Pay!OpenSessionDecision,
     PP!OpenSessionDecision, Pay!Go, PP!Go, Pay!End, PP!End, Pay!rows, PP!rows, Pay!headerRow, PP!headerRow,
     Pay!stripe, PP!stripe, Pay!history, PP!history, Pay!Idle, PP!Idle, Pay!Attempts, PP!Attempts

LEMMA SameCallStops == ASSUME NEW c \in Calls, Pay!CallStops(c) PROVE PP!CallStops(c)
  BY SameRows DEF Pay!CallStops, PP!CallStops, Pay!gatewayFails, PP!gatewayFails, Pay!callLost, PP!callLost,
     Pay!AtStripe, PP!AtStripe, Pay!IntentPC, PP!IntentPC, Pay!End, PP!End, Pay!rows, PP!rows, Pay!headerRow,
     PP!headerRow, Pay!stripe, PP!stripe, Pay!history, PP!history, Pay!Idle, PP!Idle, Pay!Attempts, PP!Attempts

LEMMA SameOutside == ASSUME NEW p \in PP!Attempts, Pay!Outside(p) PROVE PP!Outside(p)
  BY SameRows DEF Pay!Outside, PP!Outside, Pay!BuyerCompletes, PP!BuyerCompletes, Pay!SessionLapses,
     PP!SessionLapses, Pay!HoldLapses, PP!HoldLapses, Pay!rows, PP!rows, Pay!headerRow, PP!headerRow, Pay!stripe,
     PP!stripe, Pay!history, PP!history, Pay!Idle, PP!Idle, Pay!Attempts, PP!Attempts

LEMMA SameInit == Pay!Init => PP!Init
  BY DEF Pay!Init, PP!Init, Pay!Idle, PP!Idle, Pay!Attempts, PP!Attempts

LEMMA SameReconcile == ASSUME NEW c \in Calls, NEW p \in PP!Attempts, Pay!Reconcile(c, p) \/ Pay!completed(c, p)
  PROVE PP!Reconcile(c, p) \/ PP!completed(c, p)
  BY SameRows DEF Pay!Reconcile, PP!Reconcile, Pay!completed, PP!completed, Pay!holdReported, PP!holdReported,
     Pay!markExpired, PP!markExpired, Pay!markVoided, PP!markVoided, Pay!retrieveAuthorization,
     PP!retrieveAuthorization, Pay!updateStatus, PP!updateStatus, Pay!logged, PP!logged, Pay!StaleTcc, PP!StaleTcc,
     Pay!Go, PP!Go, Pay!rows, PP!rows, Pay!headerRow, PP!headerRow, Pay!stripe, PP!stripe, Pay!history, PP!history,
     Pay!Idle, PP!Idle, Pay!Attempts, PP!Attempts

LEMMA SameHeld == ASSUME NEW c \in Calls, Pay!reconcileHeld(c) PROVE PP!reconcileHeld(c)
  BY SameRows, SameFlip DEF Pay!reconcileHeld, PP!reconcileHeld, Pay!StaleTcc, PP!StaleTcc

(* The inductive invariant: the phase of the order, with tasks, ids, callers and the money as it says. *)
SagaInv ==
  /\ SagaTypes /\ Phase /\ ClosedIdle /\ HeldStays /\ Verdicts
  /\ MoneyInv /\ Callers /\ Ids /\ Cancels /\ OrderToldOnce

(* What payment-service keeps, whoever moves it. *)
PaySteps ==
  /\ PP!PaymentInv' /\ PP!AnswersKept'
  /\ answered \subseteq answered' /\ (authorizedAt => authorizedAt')
  /\ PP!NothingLive /\ authorizedAt => PP!NothingLive'

(* A step that leaves payment-service alone leaves all that is known of it. *)
LEMMA PayRests ==
  ASSUME UNCHANGED payVars
  PROVE  /\ UNCHANGED <<header, authorizedAt, call, answered>>
         /\ PP!PaymentInv => PP!PaymentInv'
         /\ PP!AnswersKept' = PP!AnswersKept /\ PP!NoCharge' = PP!NoCharge /\ PP!NoCancel' = PP!NoCancel
         /\ PP!NothingLive' = PP!NothingLive
         /\ \A c \in Calls : PP!Capturing(c)' = PP!Capturing(c) /\ PP!Cancelling(c)' = PP!Cancelling(c)
<1>1. UNCHANGED PP!vars /\ UNCHANGED <<header, authorizedAt, call, answered, payment, intent, session>>
  BY DEF payVars, PP!vars, PP!rows, PP!headerRow, PP!stripe, PP!history
<1>2. PP!PaymentInv => PP!PaymentInv'
  <2>1. [PP!Next]_PP!vars
    BY <1>1
  <2> QED
    BY <2>1, PP!PaymentInvStep, PaymentAssumption
<1> QED
  BY <1>1, <1>2 DEF PP!AnswersKept, PP!NoCharge, PP!NoCancel, PP!NothingLive, PP!Capturing, PP!Cancelling, PP!Where,
     PP!CapturePC, PP!CancelPC, PP!Attempts

LEMMA PayRestsSteps ==
  ASSUME MoneyInv, UNCHANGED payVars
  PROVE  PaySteps
  BY PayRests DEF PaySteps, MoneyInv

(* What is known of the money holds on while payment-service rests and nothing new is asked of it. *)
LEMMA MoneyRests ==
  ASSUME MoneyInv, UNCHANGED payVars,
         Asked("CAPTURE_PAYMENT") => Asked("CAPTURE_PAYMENT")', Asked("CANCEL_PAYMENT") => Asked("CANCEL_PAYMENT")',
         order' \in HIDDEN_FROM_BUYER => order \in HIDDEN_FROM_BUYER
  PROVE  MoneyInv'
  BY PayRests DEF MoneyInv, HIDDEN_FROM_BUYER

(* Callers are told apart as before while their tasks and their calls stay. *)
LEMMA CallersRest ==
  ASSUME Callers, UNCHANGED payVars, UNCHANGED caller, \A t \in tasks : t.kind \in PayKinds => t \in tasks'
  PROVE  Callers'
  BY PayRests DEF Callers, WaitsFor, PayKinds

(* A verdict that was true is true for good. *)
LEMMA VerdictsKept ==
  ASSUME Verdicts, authorizedAt => authorizedAt',
         \A t \in tasks' : t \in tasks \/ t.kind # "VERIFY_AUTHORIZATION" \/ t.arg # "VERIFIED" \/ authorizedAt
  PROVE  Verdicts'
  BY DEF Verdicts

(* The phase does not change while the saga, the order and the stock rest. *)
LEMMA PhaseRests ==
  ASSUME Phase, UNCHANGED <<run, saga, tasks, order, stock, sent>>, try = "unsent" => try' = "unsent" \/ tasks # {}, PaySteps
  PROVE  Phase'
<1>1. /\ UNCHANGED run /\ UNCHANGED saga /\ UNCHANGED tasks /\ UNCHANGED order /\ UNCHANGED stock /\ UNCHANGED sent
      /\ answered \subseteq answered' /\ (authorizedAt => authorizedAt')
      /\ PP!NothingLive /\ authorizedAt => PP!NothingLive'
  BY DEF PaySteps
<1>2. NotStarted => NotStarted'
  BY <1>1 DEF NotStarted, initialCheckoutSagaState
<1>3. Reserving => Reserving'
  BY <1>1 DEF Reserving, ReservingTask, initialCheckoutSagaState
<1>4. (Awaiting => Awaiting') /\ (Confirming => Confirming') /\ (Committing => Committing') /\ (Capturing => Capturing')
  BY <1>1 DEF Awaiting, Confirming, Committing, Capturing, Placed, Verifying
<1>5. (Charged => Charged') /\ (Rejected => Rejected')
  BY <1>1 DEF Charged, Rejected, Ending, Verifying
<1>6. ASSUME NEW X \in Ends, Doomed(X)
      PROVE  Doomed(X)'
  <2>1. (NeverCommitted(X) => NeverCommitted(X)') /\ (CommitRefused(X) => CommitRefused(X)')
        /\ (CaptureRefused(X) => CaptureRefused(X)') /\ (Owes("CANCEL_PAYMENT") => Owes("CANCEL_PAYMENT")')
    BY <1>1 DEF NeverCommitted, CommitRefused, CaptureRefused, Owes, Never
  <2>2. \A t \in tasks : DoomedTask(X, t) => DoomedTask(X, t)'
    BY <1>1 DEF DoomedTask, Verifying
  <2> QED
    BY <1>1, <1>6, <2>1, <2>2 DEF Doomed, Ending, From
<1> QED
  BY <1>2, <1>3, <1>4, <1>5, <1>6 DEF Phase

(* The ids hold on while no compensation is issued or done. *)
LEMMA IdsRest ==
  ASSUME Ids, saga'.pending = saga.pending, saga'.nextCommandId = saga.nextCommandId,
         saga'.step = "COMPENSATED" => saga'.pending = {},
         \A t \in tasks' : t \in tasks \/ (~Comp(t) /\ t.then = {})
  PROVE  Ids'
  BY DEF Ids, Comp

LEMMA SagaRests ==
  ASSUME SagaTypes, Ids, UNCHANGED <<saga, tasks>>
  PROVE  Ids'
  BY IdsRest DEF Ids

(* NoTask is not a task of the saga. *)
LEMMA NoTaskIsNone == ASSUME SagaTypes PROVE NoTask \notin tasks /\ NoTask.kind = "NONE" /\ NoTask.then = {}
  BY DEF SagaTypes, NoTask, Task, TaskRecord, TaskKinds, CompKinds

(* The phase a task belongs to. *)
LEMMA PhaseOfTask ==
  ASSUME Phase, NEW t \in tasks
  PROVE  /\ t.kind \in {"TRY", "APPLY_TRY"} => Reserving /\ tasks = {t} /\ ReservingTask(t)
         /\ t.kind = "COMMIT_STOCK" => Committing /\ t = CommitTask
         /\ t.kind = "CAPTURE_PAYMENT" => Capturing /\ t = CaptureTask
         /\ t.kind = "CHANGE_ORDER" =>
              \/ Confirming /\ t = ConfirmTask
              \/ Charged /\ t = PaidTask
              \/ \E X \in Ends : Doomed(X) /\ DoomedTask(X, t)
         /\ t.kind = "RELEASE_STOCK" => Rejected \/ \E X \in Ends : Doomed(X)
         /\ t.kind \in {"RESTOCK", "CANCEL_PAYMENT"} => \E X \in Ends : Doomed(X)
         /\ t.kind \in CompKinds \union {"VERIFY_AUTHORIZATION", "LOAD_CONTEXT"} => t.then = {}
         /\ t.kind = "LOAD_CONTEXT" => (Charged /\ order = "PAID") \/ \E X \in Ends : Doomed(X) /\ order = X
         /\ t.kind = "VERIFY_AUTHORIZATION" =>
              Awaiting \/ Confirming \/ Committing \/ Capturing \/ Charged \/ \E X \in Ends : Doomed(X)
<1> DEFINE Goal ==
         /\ t.kind \in {"TRY", "APPLY_TRY"} => Reserving /\ tasks = {t} /\ ReservingTask(t)
         /\ t.kind = "COMMIT_STOCK" => Committing /\ t = CommitTask
         /\ t.kind = "CAPTURE_PAYMENT" => Capturing /\ t = CaptureTask
         /\ t.kind = "CHANGE_ORDER" =>
              \/ Confirming /\ t = ConfirmTask
              \/ Charged /\ t = PaidTask
              \/ \E X \in Ends : Doomed(X) /\ DoomedTask(X, t)
         /\ t.kind = "RELEASE_STOCK" => Rejected \/ \E X \in Ends : Doomed(X)
         /\ t.kind \in {"RESTOCK", "CANCEL_PAYMENT"} => \E X \in Ends : Doomed(X)
         /\ t.kind \in CompKinds \union {"VERIFY_AUTHORIZATION", "LOAD_CONTEXT"} => t.then = {}
         /\ t.kind = "LOAD_CONTEXT" => (Charged /\ order = "PAID") \/ \E X \in Ends : Doomed(X) /\ order = X
         /\ t.kind = "VERIFY_AUTHORIZATION" =>
              Awaiting \/ Confirming \/ Committing \/ Capturing \/ Charged \/ \E X \in Ends : Doomed(X)
<1>0. /\ ConfirmTask.kind = "CHANGE_ORDER" /\ CommitTask.kind = "COMMIT_STOCK" /\ CaptureTask.kind = "CAPTURE_PAYMENT"
      /\ PaidTask.kind = "CHANGE_ORDER" /\ LoadTask.kind = "LOAD_CONTEXT" /\ LoadTask.then = {}
  BY DEF ConfirmTask, CommitTask, CaptureTask, PaidTask, LoadTask, changeOrder, Task
<1>1. ~NotStarted
  BY DEF NotStarted
<1>2. ASSUME Reserving PROVE Goal
  <2>1. tasks = {t} /\ ReservingTask(t)
    BY <1>2 DEF Reserving
  <2> QED
    BY <1>2, <2>1 DEF ReservingTask, CompKinds
<1>3. ASSUME Awaiting PROVE Goal
  <2>1. Verifying(t)
    BY <1>3 DEF Awaiting
  <2> QED
    BY <1>3, <2>1 DEF Verifying, CompKinds
<1>4. ASSUME Confirming PROVE Goal
  <2>1. Verifying(t) \/ t = ConfirmTask
    BY <1>4 DEF Confirming
  <2> QED
    BY <1>0, <1>4, <2>1 DEF Verifying, CompKinds
<1>5. ASSUME Committing PROVE Goal
  <2>1. Verifying(t) \/ t = CommitTask
    BY <1>5 DEF Committing
  <2> QED
    BY <1>0, <1>5, <2>1 DEF Verifying, CompKinds
<1>6. ASSUME Capturing PROVE Goal
  <2>1. Verifying(t) \/ t = CaptureTask
    BY <1>6 DEF Capturing
  <2> QED
    BY <1>0, <1>6, <2>1 DEF Verifying, CompKinds
<1>7. ASSUME Charged PROVE Goal
  <2>1. Verifying(t) \/ t = PaidTask \/ (t = LoadTask /\ order = "PAID")
    BY <1>7 DEF Charged
  <2> QED
    BY <1>0, <1>7, <2>1 DEF Verifying, CompKinds
<1>8. ASSUME Rejected PROVE Goal
  <2>1. t.kind = "RELEASE_STOCK" /\ t.then = {}
    BY <1>8 DEF Rejected
  <2> QED
    BY <1>8, <2>1 DEF CompKinds
<1>9. ASSUME NEW X \in Ends, Doomed(X) PROVE Goal
  <2>1. DoomedTask(X, t)
    BY <1>9 DEF Doomed
  <2>2. \/ t.kind \in CompKinds /\ t.then = {}
        \/ t.kind = "VERIFY_AUTHORIZATION" /\ t.then = {}
        \/ t.kind = "LOAD_CONTEXT" /\ t.then = {} /\ order = X
        \/ t.kind = "CHANGE_ORDER"
    BY <2>1 DEF DoomedTask, Verifying
  <2> QED
    BY <1>9, <2>1, <2>2 DEF CompKinds
<1> QED
  BY <1>1, <1>2, <1>3, <1>4, <1>5, <1>6, <1>7, <1>8, <1>9 DEF Phase

(* The phases that a step of the saga can be in. *)
LEMMA PhaseOfStep ==
  ASSUME Phase
  PROVE  /\ saga.step = "RESERVING" => NotStarted \/ Reserving
         /\ saga.step = "AWAITING_AUTH" => Awaiting
         /\ saga.step = "COMMITTING_STOCK" => Confirming \/ Committing
         /\ saga.step = "CAPTURING" => Capturing
         /\ saga.step = "COMPLETED" => Charged
         /\ saga.step = "COMPENSATED" => Rejected \/ \E X \in Ends : Doomed(X)
         /\ saga.step = "COMPENSATING" => Charged \/ Rejected \/ \E X \in Ends : Doomed(X)
         /\ run = "closed" => Charged \/ Rejected \/ \E X \in Ends : Doomed(X)
         /\ run \in {"none", "running", "closed"}
<1>1. NotStarted \/ Reserving => saga.step = "RESERVING"
  BY DEF NotStarted, Reserving, initialCheckoutSagaState
<1>2. \A X \in Ends : Doomed(X) => saga.step \in {"COMPENSATING", "COMPENSATED"} /\ run \in {"running", "closed"}
  BY DEF Doomed, Ending
<1>3. Rejected => saga.step \in {"COMPENSATING", "COMPENSATED"} /\ run \in {"running", "closed"}
  BY DEF Rejected, Ending
<1>4. Charged => saga.step \in {"COMPLETED", "COMPENSATING"} /\ run \in {"running", "closed"}
  BY DEF Charged
<1>5. /\ Awaiting => saga.step = "AWAITING_AUTH" /\ run = "running"
      /\ Confirming \/ Committing => saga.step = "COMMITTING_STOCK" /\ run = "running"
      /\ Capturing => saga.step = "CAPTURING" /\ run = "running"
      /\ NotStarted => run = "none"
      /\ Reserving => run = "running"
  BY DEF Awaiting, Confirming, Committing, Capturing, Placed, NotStarted, Reserving
<1> QED
  BY <1>1, <1>2, <1>3, <1>4, <1>5 DEF Phase

(* The stock commands *)
LEMMA StockMoves ==
  /\ runStockCommand("commit") =>
       /\ stock' = IF stock = "HELD" THEN "COMMITTED" ELSE stock
       /\ StockConflict("commit") <=> stock \notin {"HELD", "COMMITTED"}
  /\ runStockCommand("release") =>
       /\ stock' = IF stock = "NONE" THEN "FENCED" ELSE IF stock = "HELD" THEN "RELEASED" ELSE stock
       /\ StockConflict("release") <=> stock \notin {"NONE", "HELD", "RELEASED", "FENCED"}
  /\ runStockCommand("restock") =>
       /\ stock' = IF stock = "COMMITTED" THEN "RESTOCKED" ELSE stock
       /\ StockConflict("restock") <=> stock \notin {"COMMITTED", "RESTOCKED"}
  BY DEF runStockCommand, StockConflict, decideReservationFence, FenceNext, FenceDone

Single(kinds, k) == DOMAIN kinds = {1} /\ kinds[1] = k /\ Len(kinds) = 1
Pair(kinds, k1, k2) == DOMAIN kinds = {1, 2} /\ kinds[1] = k1 /\ kinds[2] = k2 /\ Len(kinds) = 2

(* A command list of one or of two, read as a function. *)
LEMMA SingleIs == ASSUME NEW k PROVE Single(<<k>>, k)
  BY DEF Single

LEMMA PairIs == ASSUME NEW k1, NEW k2 PROVE Pair(<<k1, k2>>, k1, k2)
  BY DEF Pair

LEMMA ToIs == ASSUME NEW s, NEW commands PROVE To(s, commands).state = s /\ To(s, commands).commands = commands
  BY DEF To

LEMMA NextIds == ASSUME NEW n \in Nat PROVE n + 1 - 1 = n /\ n + 2 - 1 = n + 1 /\ n + 1 \in Nat /\ n + 2 \in Nat
  OBVIOUS

(* What compensate leaves, for one compensation and for two. *)
OneOwed(s, first, r, t) ==
  /\ r.state \in SagaRecord /\ r.state.mode = s.mode /\ r.state.step = "COMPENSATING"
  /\ r.state.orderStatus = IF first = "NONE" THEN s.orderStatus ELSE first
  /\ r.state.pending = s.pending \union {s.nextCommandId} /\ r.state.nextCommandId = s.nextCommandId + 1
  /\ r.state.voided = s.voided
  /\ r.commands = IF first = "NONE" THEN {t} ELSE {changeOrder(first, {t})}

TwoOwed(s, first, r, t, u) ==
  /\ r.state \in SagaRecord /\ r.state.mode = s.mode /\ r.state.step = "COMPENSATING"
  /\ r.state.orderStatus = first
  /\ r.state.pending = s.pending \union {s.nextCommandId, s.nextCommandId + 1}
  /\ r.state.nextCommandId = s.nextCommandId + 2
  /\ r.commands = {changeOrder(first, {t, u})}

LEMMA CompensateOne ==
  ASSUME NEW s \in SagaRecord, NEW first \in {"NONE"} \union SagaTargets, NEW k \in CompKinds,
         NEW kinds, Single(kinds, k),
         NEW r, r = compensate(s, first, kinds), NEW t, t = Task(k, s.nextCommandId, "", {})
  PROVE  OneOwed(s, first, r, t)
<1>1. PICK n : n = s.nextCommandId
  OBVIOUS
<1>2. n \in Nat
  BY <1>1 DEF SagaRecord
<1>3. n + 1 - 1 = n /\ n + 1 \in Nat
  BY <1>2, NextIds
<1> DEFINE issued == {Task(kinds[i], n + i - 1, "", {}) : i \in DOMAIN kinds}
           status == IF first = "NONE" THEN s.orderStatus ELSE first
           next == [s EXCEPT !.step = "COMPENSATING", !.pending = s.pending \union {n}, !.nextCommandId = n + 1,
                             !.orderStatus = status]
<1>4. t.id = n
  BY <1>1 DEF Task
<1>5. issued = {t}
  <2>1. t = Task(kinds[1], n + 1 - 1, "", {})
    BY <1>1, <1>3 DEF Single
  <2> QED
    BY <2>1 DEF Single
<1> HIDE DEF issued
<1>6. {u.id : u \in issued} = {n}
  BY <1>4, <1>5
<1>7. r = To([s EXCEPT !.step = "COMPENSATING", !.pending = s.pending \union {u.id : u \in issued},
                       !.nextCommandId = n + Len(kinds), !.orderStatus = status],
             IF first = "NONE" THEN issued ELSE {changeOrder(first, issued)})
  BY <1>1 DEF compensate, issued, SagaRecord
<1>8. r = To(next, IF first = "NONE" THEN {t} ELSE {changeOrder(first, {t})})
  BY <1>5, <1>6, <1>7 DEF Single
<1>9. r.state = next /\ r.commands = IF first = "NONE" THEN {t} ELSE {changeOrder(first, {t})}
  <2>1. PICK a, b : a = next /\ b = IF first = "NONE" THEN {t} ELSE {changeOrder(first, {t})}
    OBVIOUS
  <2>2. r = To(a, b)
    BY <1>8, <2>1, ZenonT(60)
  <2>3. r.state = a /\ r.commands = b
    BY <2>2, ToIs, Zenon
  <2> HIDE DEF next
  <2> QED
    BY <2>1, <2>3, Zenon
<1>10. status \in {"NONE", "RESERVING", "REJECTED", "PENDING"} \union SagaTargets
  BY DEF SagaRecord
<1> HIDE DEF status
<1>11. /\ next \in SagaRecord /\ next.mode = s.mode /\ next.step = "COMPENSATING" /\ next.orderStatus = status
       /\ next.pending = s.pending \union {n} /\ next.nextCommandId = n + 1 /\ next.voided = s.voided
  <2>1. s.pending \union {n} \in SUBSET Nat
    BY <1>2 DEF SagaRecord
  <2> QED
    BY <1>3, <1>10, <2>1 DEF SagaRecord
<1> HIDE DEF next
<1> QED
  BY <1>1, <1>9, <1>11 DEF status, OneOwed

LEMMA CompensateTwo ==
  ASSUME NEW s \in SagaRecord, NEW first \in SagaTargets, NEW k1 \in CompKinds, NEW k2 \in CompKinds,
         NEW kinds, Pair(kinds, k1, k2),
         NEW r, r = compensate(s, first, kinds), NEW t, t = Task(k1, s.nextCommandId, "", {}),
         NEW u, u = Task(k2, s.nextCommandId + 1, "", {})
  PROVE  TwoOwed(s, first, r, t, u)
<1>1. PICK n : n = s.nextCommandId
  OBVIOUS
<1>2. n \in Nat
  BY <1>1 DEF SagaRecord
<1>3. n + 1 - 1 = n /\ n + 2 - 1 = n + 1 /\ n + 1 \in Nat /\ n + 2 \in Nat
  BY <1>2, NextIds
<1> DEFINE issued == {Task(kinds[i], n + i - 1, "", {}) : i \in DOMAIN kinds}
           next == [s EXCEPT !.step = "COMPENSATING", !.pending = s.pending \union {n, n + 1}, !.nextCommandId = n + 2,
                             !.orderStatus = first]
<1>4. t.id = n /\ u.id = n + 1
  BY <1>1 DEF Task
<1>5. issued = {t, u}
  <2>1. t = Task(kinds[1], n + 1 - 1, "", {}) /\ u = Task(kinds[2], n + 2 - 1, "", {})
    BY <1>1, <1>3 DEF Pair
  <2> QED
    BY <2>1 DEF Pair
<1> HIDE DEF issued
<1>6. {v.id : v \in issued} = {n, n + 1}
  BY <1>4, <1>5
<1>7. r = To([s EXCEPT !.step = "COMPENSATING", !.pending = s.pending \union {v.id : v \in issued},
                       !.nextCommandId = n + Len(kinds), !.orderStatus = first],
             {changeOrder(first, issued)})
  BY <1>1 DEF compensate, issued, SagaRecord, SagaTargets
<1>8. r = To(next, {changeOrder(first, {t, u})})
  BY <1>5, <1>6, <1>7 DEF Pair
<1>9. r.state = next /\ r.commands = {changeOrder(first, {t, u})}
  <2>1. PICK a, b : a = next /\ b = {changeOrder(first, {t, u})}
    OBVIOUS
  <2>2. r = To(a, b)
    BY <1>8, <2>1, ZenonT(60)
  <2>3. r.state = a /\ r.commands = b
    BY <2>2, ToIs, Zenon
  <2> HIDE DEF next
  <2> QED
    BY <2>1, <2>3, Zenon
<1>11. /\ next \in SagaRecord /\ next.mode = s.mode /\ next.step = "COMPENSATING" /\ next.orderStatus = first
       /\ next.pending = s.pending \union {n, n + 1} /\ next.nextCommandId = n + 2
  <2>1. s.pending \union {n, n + 1} \in SUBSET Nat
    BY <1>2, <1>3 DEF SagaRecord
  <2> QED
    BY <1>3, <2>1 DEF SagaRecord
<1> HIDE DEF next
<1> QED
  BY <1>1, <1>9, <1>11 DEF TwoOwed

-----------------------------------------------------------------------------
(* The payment steps *)

(* Before the order is placed, and once it is rejected, nothing has been asked of payment-service. *)
LEMMA HiddenAsksNothing ==
  ASSUME Phase, order \in HIDDEN_FROM_BUYER
  PROVE  ~Asked("CAPTURE_PAYMENT") /\ ~Asked("CANCEL_PAYMENT")
<1> USE DEF HIDDEN_FROM_BUYER
<1>1. CASE NotStarted
  BY <1>1 DEF NotStarted, Asked
<1>2. CASE Reserving
  BY <1>2 DEF Reserving, ReservingTask, Asked
<1>3. CASE Rejected
  BY <1>3 DEF Rejected, Asked
<1>4. ~Awaiting /\ ~Confirming /\ ~Committing /\ ~Capturing /\ ~Charged
  BY DEF Awaiting, Confirming, Committing, Capturing, Charged
<1>5. ASSUME NEW X \in Ends PROVE ~Doomed(X)
  BY DEF Doomed, From, Ends
<1> QED
  BY <1>1, <1>2, <1>3, <1>4, <1>5 DEF Phase

(* Whatever payment-service or Stripe does of its own keeps what the saga relies on. *)
LEMMA PayMoves ==
  ASSUME Phase, MoneyInv, PP!Elsewhere \/ \E c \in Calls : PP!reconcileHeld(c),
         order \in HIDDEN_FROM_BUYER => PP!Onward \/ \E c \in Calls : PP!reconcileHeld(c)
  PROVE  /\ PaySteps
         /\ PP!NoCharge => PP!NoCharge'
         /\ PP!NoCancel => PP!NoCancel'
         /\ order \in HIDDEN_FROM_BUYER => header' = "NONE"
<1>1. PP!PaymentInv /\ PP!AnswersKept
  BY DEF MoneyInv
<1>2. (\E c \in Calls : PP!reconcileHeld(c)) => \E c \in Calls : PP!flip(c)
  BY DEF PP!reconcileHeld
<1>3. PaySteps
  BY <1>1, <1>2, PP!StepsKeep, PaymentAssumption DEF PaySteps
<1>4. PP!NoCharge => PP!NoCharge'
  BY <1>1, <1>2, PP!NoChargeKept, PaymentAssumption
<1>5. PP!NoCancel => ~\E c \in Calls : PP!reconcileHeld(c)
  BY PP!NothingToReconcile, PaymentAssumption
<1>6. PP!NoCancel => PP!NoCancel'
  BY <1>1, <1>5, PP!NoCancelKept, PaymentAssumption
<1>7. ASSUME order \in HIDDEN_FROM_BUYER PROVE header' = "NONE"
  <2>1. PP!NoCharge /\ PP!NoCancel /\ header = "NONE"
    BY <1>7, HiddenAsksNothing DEF MoneyInv
  <2> QED
    BY <1>1, <1>5, <1>7, <2>1, PP!NoHeaderKept, PaymentAssumption
<1> QED
  BY <1>3, <1>4, <1>6, <1>7

(* A step of payment-service preserves the invariant. *)
LEMMA PayStepKeeps ==
  ASSUME SagaInv, UNCHANGED <<run, saga, tasks, order, announced, stock, try, cancel, sent>>, PaySteps,
         caller' \in [Calls -> TaskRecord \union {NoTask}], MoneyInv', Callers'
  PROVE  SagaInv'
<1>0. /\ UNCHANGED run /\ UNCHANGED saga /\ UNCHANGED tasks /\ UNCHANGED order /\ UNCHANGED announced
      /\ UNCHANGED stock /\ UNCHANGED try /\ UNCHANGED cancel
      /\ answered \subseteq answered' /\ (authorizedAt => authorizedAt')
  BY DEF PaySteps
<1>1. SagaTypes' /\ ClosedIdle' /\ HeldStays'
  BY <1>0 DEF SagaInv, SagaTypes, ClosedIdle, HeldStays
<1>2. Phase'
  BY <1>0, PhaseRests DEF SagaInv
<1>3. Verdicts'
  BY <1>0, VerdictsKept DEF SagaInv
<1>4. Ids'
  BY <1>0, SagaRests DEF SagaInv
<1>5. Cancels' /\ OrderToldOnce'
  BY <1>0 DEF SagaInv, Cancels, OrderToldOnce
<1> QED
  BY <1>1, <1>2, <1>3, <1>4, <1>5 DEF SagaInv

(* A call keeps to the kind it was made for, and ends with its caller told. *)
LEMMA CallersFollow ==
  ASSUME SagaTypes, Callers, NEW free \in SUBSET Calls, \A c \in Calls \ free : caller[c] \in tasks => caller[c] \in tasks',
         caller' = [c \in Calls |-> IF c \in free THEN NoTask ELSE caller[c]],
         \A c \in Calls \ free : /\ PP!Capturing(c) => PP!Capturing(c)'
                                 /\ PP!Cancelling(c) => PP!Cancelling(c)'
  PROVE  Callers' /\ caller' \in [Calls -> TaskRecord \union {NoTask}]
<1>1. caller' \in [Calls -> TaskRecord \union {NoTask}]
  BY DEF SagaTypes
<1>2. \A c \in Calls : caller'[c] = NoTask \/ (c \notin free /\ caller'[c] = caller[c])
  OBVIOUS
<1>3. ASSUME NEW c \in Calls, caller'[c] # NoTask PROVE WaitsFor(c)'
  BY <1>2, <1>3 DEF Callers, WaitsFor
<1> QED
  BY <1>1, <1>2, <1>3 DEF Callers

(* paymentService: a session, a call's next handler, the reconciler, a webhook, or Stripe itself. *)
LEMMA PaymentServiceKeeps ==
  ASSUME SagaInv, paymentService
  PROVE  SagaInv'
<1>0. /\ Phase /\ MoneyInv /\ SagaTypes /\ Callers /\ PP!PaymentInv
  BY DEF SagaInv, MoneyInv
<1>1. /\ PP!Elsewhere \/ \E c \in Calls : PP!reconcileHeld(c)
      /\ order \in HIDDEN_FROM_BUYER => PP!Onward \/ \E c \in Calls : PP!reconcileHeld(c)
  <2>1. CASE \E c \in Calls : payOrder(c)
    <3>1. PICK c \in Calls : payOrder(c)
      BY <2>1
    <3>2. PP!openSession(c) /\ order \notin HIDDEN_FROM_BUYER
      BY <3>1, SameOpenSession DEF payOrder, findForUser
    <3> QED
      BY <3>2 DEF PP!Elsewhere
  <2>2. CASE \E c \in Calls : Pay!Proceed(c)
    BY <2>2, SameProceed DEF PP!Elsewhere, PP!Onward
  <2>3. CASE \E c \in Calls : Pay!reconcileHeld(c)
    BY <2>3, SameHeld
  <2>4. CASE \E c \in Calls, p \in Pay!Attempts : Pay!Reconcile(c, p) \/ Pay!completed(c, p)
    <3>1. PICK c \in Calls, p \in PP!Attempts : Pay!Reconcile(c, p) \/ Pay!completed(c, p)
      BY <2>4, SameRows
    <3>2. PP!Reconcile(c, p) \/ PP!completed(c, p)
      BY <3>1, SameReconcile
    <3> QED
      BY <3>2 DEF PP!Elsewhere, PP!Onward, PP!Webhook
  <2>5. CASE \E p \in Pay!Attempts : Pay!Outside(p)
    BY <2>5, SameOutside, SameRows DEF PP!Elsewhere, PP!Onward
  <2> QED
    BY <2>1, <2>2, <2>3, <2>4, <2>5 DEF paymentService
<1>2. /\ PaySteps
      /\ PP!NoCharge => PP!NoCharge'
      /\ PP!NoCancel => PP!NoCancel'
      /\ order \in HIDDEN_FROM_BUYER => header' = "NONE"
  BY <1>0, <1>1, PayMoves
<1>3. UNCHANGED <<run, saga, tasks, order, announced, stock, try, cancel, sent>>
  BY DEF paymentService, sagaVars, orderRow
<1>4. MoneyInv'
  BY <1>0, <1>2, <1>3 DEF MoneyInv, PaySteps, Asked, HIDDEN_FROM_BUYER
<1>5. Callers' /\ caller' \in [Calls -> TaskRecord \union {NoTask}]
  <2> DEFINE free == {c \in Calls : call'[c] = PP!Idle}
  <2>1. caller' = [c \in Calls |-> IF c \in free THEN NoTask ELSE caller[c]]
    BY DEF paymentService, Pay!Idle, PP!Idle
  <2>2. PP!Elsewhere \/ \E d \in Calls : PP!capture(d) \/ PP!flip(d)
    BY <1>1 DEF PP!reconcileHeld
  <2>3. ASSUME NEW c \in Calls \ free
        PROVE  /\ PP!Capturing(c) => PP!Capturing(c)'
               /\ PP!Cancelling(c) => PP!Cancelling(c)'
    BY <1>0, <2>2, <2>3, PP!FamilyKept, PaymentAssumption
  <2> HIDE DEF free
  <2>4. free \in SUBSET Calls
    BY DEF free
  <2> QED
    BY <1>0, <1>3, <2>1, <2>3, <2>4, CallersFollow
<1> QED
  BY <1>2, <1>3, <1>4, <1>5, PayStepKeeps

LEMMA StopIsOnward ==
  ASSUME NEW c \in Calls, Pay!CallStops(c)
  PROVE  PP!CallStops(c) /\ PP!Onward /\ PP!Elsewhere
  BY SameCallStops DEF PP!Onward, PP!Elsewhere

(* paymentCallStops: the call fails or its answer is lost, and its caller waits no longer. *)
LEMMA PaymentCallStopsKeeps ==
  ASSUME SagaInv, NEW c \in Calls, paymentCallStops(c)
  PROVE  SagaInv'
<1>0. /\ Phase /\ MoneyInv /\ SagaTypes /\ Callers /\ PP!PaymentInv
  BY DEF SagaInv, MoneyInv
<1>1. PP!CallStops(c) /\ PP!Onward /\ PP!Elsewhere
  BY StopIsOnward DEF paymentCallStops
<1>2. /\ PaySteps
      /\ PP!NoCharge => PP!NoCharge'
      /\ PP!NoCancel => PP!NoCancel'
      /\ order \in HIDDEN_FROM_BUYER => header' = "NONE"
  BY <1>0, <1>1, PayMoves
<1>3. UNCHANGED <<run, saga, tasks, order, announced, stock, try, cancel, sent>>
  BY DEF paymentCallStops, sagaVars, orderRow
<1>4. MoneyInv'
  BY <1>0, <1>2, <1>3 DEF MoneyInv, PaySteps, Asked, HIDDEN_FROM_BUYER
<1>5. \A d \in Calls \ {c} : call'[d] = call[d]
  BY <1>0, <1>1, PP!EndsAt, PaymentAssumption DEF PP!CallStops, PP!gatewayFails, PP!callLost, PP!OnlyCall,
     PP!PaymentInv
<1>6. Callers' /\ caller' \in [Calls -> TaskRecord \union {NoTask}]
  <2>1. caller' = [d \in Calls |-> IF d \in {c} THEN NoTask ELSE caller[d]]
    BY <1>0 DEF paymentCallStops, SagaTypes
  <2>2. ASSUME NEW d \in Calls \ {c}
        PROVE  /\ PP!Capturing(d) => PP!Capturing(d)'
               /\ PP!Cancelling(d) => PP!Cancelling(d)'
    <3>1. call'[d] = call[d] /\ answered \subseteq answered'
      BY <1>2, <1>5 DEF PaySteps
    <3> QED
      BY <3>1 DEF PP!Capturing, PP!Cancelling, PP!Where, PP!CapturePC, PP!CancelPC
  <2> QED
    BY <1>0, <1>3, <2>1, <2>2, CallersFollow
<1> QED
  BY <1>2, <1>3, <1>4, <1>6, PayStepKeeps

(* activityTimesOut: the caller is gone, its call runs on. *)
LEMMA ActivityTimesOutKeeps ==
  ASSUME SagaInv, NEW c \in Calls, activityTimesOut(c)
  PROVE  SagaInv'
<1>0. /\ MoneyInv /\ SagaTypes /\ Callers
  BY DEF SagaInv
<1>1. /\ UNCHANGED <<run, saga, tasks, order, announced, stock, try, cancel, sent>> /\ UNCHANGED payVars
      /\ order' = order
  BY DEF activityTimesOut, sagaVars, orderRow
<1>2. PaySteps
  BY <1>0, <1>1, PayRestsSteps
<1>3. MoneyInv'
  BY <1>0, <1>1, MoneyRests DEF Asked
<1>4. Callers' /\ caller' \in [Calls -> TaskRecord \union {NoTask}]
  <2>1. caller' = [d \in Calls |-> IF d \in {c} THEN NoTask ELSE caller[d]]
    BY <1>0 DEF activityTimesOut, SagaTypes
  <2>2. \A d \in Calls : /\ PP!Capturing(d) => PP!Capturing(d)'
                         /\ PP!Cancelling(d) => PP!Cancelling(d)'
    BY <1>1, PayRests
  <2> QED
    BY <1>0, <1>1, <2>1, <2>2, CallersFollow
<1> QED
  BY <1>1, <1>2, <1>3, <1>4, PayStepKeeps

(* A request that reaches payment-service begins a call. *)
LEMMA CallBegins ==
  ASSUME SagaInv, NEW kind \in PayKinds, Asked(kind), NEW c \in Calls, startPayCall(kind, c),
         UNCHANGED <<tasks, order, sent>>
  PROVE  /\ PaySteps /\ MoneyInv' /\ call[c] = PP!Idle
         /\ \A d \in Calls \ {c} : (PP!Capturing(d) => PP!Capturing(d)') /\ (PP!Cancelling(d) => PP!Cancelling(d)')
         /\ kind = "CAPTURE_PAYMENT" => PP!Capturing(c)'
         /\ kind = "CANCEL_PAYMENT" => PP!Cancelling(c)'
<1>0. /\ Phase /\ MoneyInv /\ PP!PaymentInv /\ PP!PaymentTypes /\ PP!AnswersKept
  BY DEF SagaInv, MoneyInv, PP!PaymentInv
<1>1. order \notin HIDDEN_FROM_BUYER
  BY <1>0, HiddenAsksNothing DEF PayKinds
<1>2. CASE kind = "CAPTURE_PAYMENT"
  <2>1. PP!capture(c)
    BY <1>2, SameCapture DEF startPayCall
  <2>2. PaySteps
    BY <1>0, <2>1, PP!StepsKeep, PaymentAssumption DEF PaySteps
  <2>3. PP!NoCancel => PP!NoCancel'
    BY <1>0, <2>1, PP!NoCancelKept, PaymentAssumption
  <2>4. MoneyInv'
    BY <1>0, <1>1, <1>2, <2>2, <2>3 DEF MoneyInv, PaySteps, Asked, HIDDEN_FROM_BUYER
  <2>5. PP!Capturing(c)' /\ call[c] = PP!Idle /\ \A x \in Calls \ {c} : call'[x] = call[x]
    BY <1>0, <2>1, PP!CaptureBegins, PaymentAssumption
  <2> QED
    BY <1>2, <2>2, <2>4, <2>5 DEF PP!Capturing, PP!Cancelling, PP!Where, PP!CapturePC, PP!CancelPC
<1>3. CASE kind = "CANCEL_PAYMENT"
  <2>1. PP!flip(c)
    BY <1>3, SameFlip DEF startPayCall
  <2>2. PaySteps
    BY <1>0, <2>1, PP!StepsKeep, PaymentAssumption DEF PaySteps
  <2>3. PP!NoCharge => PP!NoCharge'
    BY <1>0, <2>1, PP!NoChargeKept, PaymentAssumption
  <2>4. MoneyInv'
    BY <1>0, <1>1, <1>3, <2>2, <2>3 DEF MoneyInv, PaySteps, Asked, HIDDEN_FROM_BUYER
  <2>5. PP!Cancelling(c)' /\ call[c] = PP!Idle /\ \A x \in Calls \ {c} : call'[x] = call[x]
    BY <1>0, <2>1, PP!CancelBegins, PaymentAssumption
  <2> QED
    BY <1>3, <2>2, <2>4, <2>5 DEF PP!Capturing, PP!Cancelling, PP!Where, PP!CapturePC, PP!CancelPC
<1> QED
  BY <1>2, <1>3 DEF PayKinds

(* paymentActivity: a task calls payment-service. *)
LEMMA PaymentActivityKeeps ==
  ASSUME SagaInv, NEW c \in Calls, paymentActivity(c)
  PROVE  SagaInv'
<1>0. SagaTypes /\ Callers
  BY DEF SagaInv
<1>1. /\ UNCHANGED <<run, saga, tasks, order, announced, stock, try, cancel, sent>> /\ UNCHANGED tasks
  BY DEF paymentActivity, sagaVars, orderRow
<1>2. PICK t \in tasks :
        /\ t.kind \in PayKinds /\ \A d \in Calls : caller[d] # t
        /\ startPayCall(t.kind, c)
        /\ caller' = [caller EXCEPT ![c] = t]
  BY DEF paymentActivity
<1>3. Asked(t.kind)
  BY DEF Asked
<1>4. /\ PaySteps /\ MoneyInv'
      /\ \A d \in Calls \ {c} : (PP!Capturing(d) => PP!Capturing(d)') /\ (PP!Cancelling(d) => PP!Cancelling(d)')
      /\ t.kind = "CAPTURE_PAYMENT" => PP!Capturing(c)'
      /\ t.kind = "CANCEL_PAYMENT" => PP!Cancelling(c)'
  BY <1>1, <1>2, <1>3, CallBegins
<1>5. /\ caller' \in [Calls -> TaskRecord \union {NoTask}] /\ caller'[c] = t
      /\ \A d \in Calls \ {c} : caller'[d] = caller[d]
  BY <1>0, <1>2 DEF SagaTypes
<1>6. Callers'
  <2>1. ASSUME NEW d \in Calls, caller'[d] # NoTask PROVE WaitsFor(d)'
    <3>1. CASE d = c
      BY <1>1, <1>2, <1>4, <1>5, <3>1 DEF WaitsFor, PayKinds
    <3>2. CASE d # c
      BY <1>0, <1>1, <1>4, <1>5, <2>1, <3>2 DEF WaitsFor, Callers
    <3> QED
      BY <3>1, <3>2
  <2>2. \A d, e \in Calls : caller'[d] = caller'[e] /\ caller'[d] # NoTask => d = e
    BY <1>0, <1>2, <1>5 DEF Callers
  <2> QED
    BY <2>1, <2>2 DEF Callers
<1> QED
  BY <1>1, <1>4, <1>5, <1>6, PayStepKeeps

(* latePaymentRequest: the request of a finished task is executed once more. *)
LEMMA LatePaymentRequestKeeps ==
  ASSUME SagaInv, NEW c \in Calls, latePaymentRequest(c)
  PROVE  SagaInv'
<1>0. SagaTypes /\ Callers
  BY DEF SagaInv
<1>1. UNCHANGED <<run, saga, tasks, order, announced, stock, try, cancel, sent>> /\ UNCHANGED caller /\ UNCHANGED tasks
  BY DEF latePaymentRequest, sagaVars, orderRow
<1>2. PICK kind \in sent \cap PayKinds : startPayCall(kind, c)
  BY DEF latePaymentRequest
<1>3. Asked(kind) /\ kind \in PayKinds
  BY DEF Asked
<1>4. /\ PaySteps /\ MoneyInv' /\ call[c] = PP!Idle
      /\ \A d \in Calls \ {c} : (PP!Capturing(d) => PP!Capturing(d)') /\ (PP!Cancelling(d) => PP!Cancelling(d)')
  BY <1>1, <1>2, <1>3, CallBegins
<1>5. caller[c] = NoTask
  <2>0. call[c] = PP!Idle
    BY <1>4
  <2>01. call[c].pc = "idle"
    BY <2>0, PP!IdleTyped, PaymentAssumption
  <2>1. ~PP!Capturing(c) /\ ~PP!Cancelling(c)
    BY <2>01 DEF PP!Capturing, PP!Cancelling, PP!Where, PP!CapturePC, PP!CancelPC
  <2> QED
    BY <1>0, <2>1 DEF Callers, WaitsFor
<1>6. caller' = [d \in Calls |-> IF d \in {c} THEN NoTask ELSE caller[d]]
  BY <1>0, <1>1, <1>5 DEF SagaTypes
<1>7. Callers' /\ caller' \in [Calls -> TaskRecord \union {NoTask}]
  BY <1>0, <1>1, <1>4, <1>6, CallersFollow
<1> QED
  BY <1>1, <1>4, <1>7, PayStepKeeps

-----------------------------------------------------------------------------
(* The stock *)

(* How the header in inventory-service moves, and at whose request. *)
StockMove ==
  \/ UNCHANGED stock
  \/ stock = "NONE" /\ stock' = "HELD" /\ run # "none"
  \/ stock = "HELD" /\ stock' = "RELEASED"
  \/ Asked("COMMIT_STOCK") /\ stock = "HELD" /\ stock' = "COMMITTED"
  \/ Asked("RELEASE_STOCK") /\ stock = "NONE" /\ stock' = "FENCED"
  \/ Asked("RESTOCK") /\ stock = "COMMITTED" /\ stock' = "RESTOCKED"

(* The kinds of the tasks named above. *)
LEMMA TaskKindsAre ==
  /\ ConfirmTask.kind = "CHANGE_ORDER" /\ ConfirmTask.arg = "CONFIRMING" /\ ConfirmTask.then = {CommitTask}
  /\ CommitTask.kind = "COMMIT_STOCK" /\ CommitTask.then = {}
  /\ CaptureTask.kind = "CAPTURE_PAYMENT" /\ CaptureTask.then = {}
  /\ PaidTask.kind = "CHANGE_ORDER" /\ PaidTask.arg = "PAID" /\ PaidTask.then = {}
  /\ LoadTask.kind = "LOAD_CONTEXT" /\ LoadTask.then = {}
  BY DEF ConfirmTask, CommitTask, CaptureTask, PaidTask, LoadTask, changeOrder, Task

LEMMA AskedIsNotNever ==
  ASSUME NEW K, Asked(K)
  PROVE  ~Never(K)
  BY DEF Asked, Never, Owes

(* The stock moves only as its phase allows, by an answered request or by one whose answer is lost. *)
LEMMA PhaseStockMoves ==
  ASSUME Phase, StockMove, UNCHANGED <<run, saga, tasks, order, sent>>, UNCHANGED payVars,
         run = "none" => UNCHANGED try
  PROVE  Phase'
<1>1. /\ UNCHANGED run /\ UNCHANGED saga /\ UNCHANGED tasks /\ UNCHANGED order /\ UNCHANGED sent
      /\ UNCHANGED authorizedAt /\ UNCHANGED answered /\ PP!NothingLive' = PP!NothingLive
  BY PayRests
<1>2. ASSUME NotStarted PROVE Phase'
  <2>1. ~Asked("COMMIT_STOCK") /\ ~Asked("RELEASE_STOCK") /\ ~Asked("RESTOCK")
    BY <1>2 DEF NotStarted, Asked
  <2>2. NotStarted'
    BY <1>1, <1>2, <2>1 DEF NotStarted, StockMove, initialCheckoutSagaState
  <2> QED
    BY <2>2 DEF Phase
<1>3. ASSUME Reserving PROVE Phase'
  <2>1. PICK t \in tasks : tasks = {t} /\ ReservingTask(t)
    BY <1>3 DEF Reserving
  <2>2. ~Asked("COMMIT_STOCK") /\ ~Asked("RELEASE_STOCK") /\ ~Asked("RESTOCK")
    BY <1>3, <2>1 DEF Reserving, ReservingTask, Asked
  <2>3. ReservingTask(t)'
    BY <1>1, <2>1, <2>2 DEF ReservingTask, StockMove
  <2>4. stock' \in {"NONE", "HELD", "RELEASED"}
    BY <1>3, <2>2 DEF StockMove, Reserving
  <2>5. Reserving'
    BY <1>1, <1>3, <2>1, <2>3, <2>4 DEF Reserving, initialCheckoutSagaState
  <2> QED
    BY <2>5 DEF Phase
<1>4. ASSUME Awaiting \/ Confirming PROVE Phase'
  <2>1. ~Asked("COMMIT_STOCK")
    BY <1>4, TaskKindsAre DEF Awaiting, Confirming, Asked, Verifying, Quiet
  <2>2. stock' \in {"HELD", "RELEASED"}
    BY <1>4, <2>1 DEF Awaiting, Confirming, StockMove
  <2>3. Awaiting' \/ Confirming'
    BY <1>1, <1>4, <2>2 DEF Awaiting, Confirming, Placed, Verifying
  <2> QED
    BY <2>3 DEF Phase
<1>5. ASSUME Committing PROVE Phase'
  <2>1. ~Asked("RESTOCK")
    BY <1>5, TaskKindsAre DEF Committing, Asked, Verifying, Quiet
  <2>2. stock' \in {"HELD", "RELEASED", "COMMITTED"}
    BY <1>5, <2>1 DEF Committing, StockMove
  <2>3. Committing'
    BY <1>1, <1>5, <2>2 DEF Committing, Placed, Verifying
  <2> QED
    BY <2>3 DEF Phase
<1>6. ASSUME Capturing \/ Charged PROVE Phase'
  <2>1. ~Asked("RESTOCK")
    BY <1>6, TaskKindsAre DEF Capturing, Charged, Asked, Verifying, Quiet
  <2>2. stock' = "COMMITTED"
    BY <1>6, <2>1 DEF Capturing, Charged, StockMove
  <2>3. Capturing' \/ Charged'
    BY <1>1, <1>6, <2>2 DEF Capturing, Charged, Placed, Verifying
  <2> QED
    BY <2>3 DEF Phase
<1>7. ASSUME Rejected PROVE Phase'
  <2>1. ~Asked("COMMIT_STOCK") /\ ~Asked("RESTOCK")
    BY <1>7 DEF Rejected, Asked
  <2>2. Rejected'
    BY <1>1, <1>7, <2>1 DEF Rejected, Ending, StockMove
  <2> QED
    BY <2>2 DEF Phase
<1>8. ASSUME NEW X \in Ends, Doomed(X) PROVE Phase'
  <2>1. \A K : Owes(K)' <=> Owes(K)
    BY <1>1 DEF Owes
  <2>2. \A K : Never(K)' <=> Never(K)
    BY <1>1, <2>1 DEF Never
  <2>3. ASSUME NeverCommitted(X) PROVE NeverCommitted(X)'
    <3>1. ~Asked("COMMIT_STOCK") /\ ~Asked("RESTOCK")
      BY <2>3, AskedIsNotNever DEF NeverCommitted
    <3> QED
      BY <2>1, <2>2, <2>3, <3>1 DEF NeverCommitted, StockMove
  <2>4. ASSUME CommitRefused(X) PROVE CommitRefused(X)'
    BY <2>2, <2>4 DEF CommitRefused, StockMove
  <2>5. ASSUME CaptureRefused(X) PROVE CaptureRefused(X)'
    BY <1>1, <2>1, <2>2, <2>5 DEF CaptureRefused, StockMove
  <2>6. Doomed(X)'
    BY <1>1, <1>8, <2>1, <2>3, <2>4, <2>5 DEF Doomed, DoomedTask, Verifying, Ending, From
  <2> QED
    BY <2>6 DEF Phase
<1> QED
  BY <1>2, <1>3, <1>4, <1>5, <1>6, <1>7, <1>8 DEF Phase

LEMMA HeldStaysOn ==
  ASSUME HeldStays, StockMove, UNCHANGED try
  PROVE  HeldStays'
  BY DEF HeldStays, StockMove

LEMMA CancelsStockMoves ==
  ASSUME Cancels, StockMove, UNCHANGED <<run, saga, order, cancel, answered>>
  PROVE  Cancels'
  BY DEF Cancels, StockMove

(* A step that moves only the stock preserves the invariant. *)
LEMMA StockStepKeeps ==
  ASSUME SagaInv, StockMove, UNCHANGED <<run, saga, tasks, order, announced, cancel, sent, caller>>, UNCHANGED payVars,
         run = "none" => UNCHANGED try, HeldStays', try' \in TryAnswers
  PROVE  SagaInv'
<1>0. /\ UNCHANGED run /\ UNCHANGED saga /\ UNCHANGED tasks /\ UNCHANGED order /\ UNCHANGED announced
      /\ UNCHANGED cancel /\ UNCHANGED caller /\ UNCHANGED sent /\ UNCHANGED answered /\ UNCHANGED authorizedAt
  BY PayRests
<1>1. SagaTypes' /\ ClosedIdle'
  BY <1>0 DEF SagaInv, SagaTypes, ClosedIdle
<1>2. Phase'
  BY <1>0, PhaseStockMoves DEF SagaInv
<1>3. Verdicts'
  BY <1>0, VerdictsKept DEF SagaInv
<1>4. Ids'
  BY <1>0, SagaRests DEF SagaInv
<1>5. Cancels' /\ OrderToldOnce'
  BY <1>0, CancelsStockMoves DEF SagaInv, OrderToldOnce
<1>6. MoneyInv'
  BY <1>0, MoneyRests DEF SagaInv, Asked
<1>7. Callers'
  BY <1>0, CallersRest DEF SagaInv
<1> QED
  BY <1>1, <1>2, <1>3, <1>4, <1>5, <1>6, <1>7 DEF SagaInv

(* tryReserve: the Try reaches inventory-service, perhaps long after its task is over. *)
LEMMA TryReserveKeeps ==
  ASSUME SagaInv, tryReserve
  PROVE  SagaInv'
<1>1. UNCHANGED <<run, saga, tasks, order, announced, cancel, sent, caller>> /\ UNCHANGED payVars
  BY DEF tryReserve, sagaVars, orderRow
<1>2. run # "none"
  <2>1. NotStarted => FALSE
    BY DEF tryReserve, NotStarted
  <2> QED
    BY <2>1 DEF SagaInv, Phase, Reserving, Awaiting, Confirming, Committing, Capturing, Placed, Charged, Rejected,
       Doomed, Ending
<1>3. /\ StockMove
      /\ try' \in {"HELD", "OUT_OF_STOCK", "CONTENDED", "CONFLICT"}
      /\ try' = "HELD" => stock' \notin {"NONE", "FENCED"}
  BY <1>2 DEF tryReserve, StockMove, decideReservationFence, FenceNext, FenceDone
<1>4. HeldStays' /\ try' \in TryAnswers
  BY <1>3 DEF HeldStays, TryAnswers
<1> QED
  BY <1>1, <1>2, <1>3, <1>4, StockStepKeeps

(* A stock command in transit moves the header as StockMove says. *)
LEMMA StockCommandMoves ==
  ASSUME NEW kind \in StockKinds, Asked(kind), runStockCommand(StockOp(kind))
  PROVE  StockMove
  BY StockMoves DEF StockKinds, StockOp, StockMove

(* unansweredStockCommand: a request takes effect and nobody hears of it. *)
LEMMA UnansweredStockCommandKeeps ==
  ASSUME SagaInv, unansweredStockCommand
  PROVE  SagaInv'
<1>1. /\ UNCHANGED <<run, saga, tasks, order, announced, cancel, sent, caller>> /\ UNCHANGED payVars
      /\ UNCHANGED try
  BY DEF unansweredStockCommand, sagaVars, orderRow
<1>2. PICK kind \in InTransit \cap StockKinds : runStockCommand(StockOp(kind))
  BY DEF unansweredStockCommand
<1>3. StockMove
  BY <1>2, StockCommandMoves DEF InTransit, Asked
<1> QED
  BY <1>1, <1>3, StockStepKeeps, HeldStaysOn DEF SagaInv, SagaTypes

(* releaseLapsedHold: the sweep releases a hold whose time is over. *)
LEMMA ReleaseLapsedHoldKeeps ==
  ASSUME SagaInv, releaseLapsedHold
  PROVE  SagaInv'
<1>1. /\ UNCHANGED <<run, saga, tasks, order, announced, cancel, sent, caller>> /\ UNCHANGED payVars
      /\ UNCHANGED try
  BY DEF releaseLapsedHold, sagaVars, orderRow
<1>2. StockMove
  BY DEF StockMove, releaseLapsedHold
<1> QED
  BY <1>1, <1>2, StockStepKeeps, HeldStaysOn DEF SagaInv, SagaTypes

-----------------------------------------------------------------------------
(* The workflow *)

(* A step of the workflow that leaves payment-service alone preserves the invariant, given its phase and ids. *)
LEMMA SagaStepKeeps ==
  ASSUME SagaInv, UNCHANGED payVars, UNCHANGED caller,
         saga' \in SagaRecord, tasks' \subseteq TaskRecord, try' \in TryAnswers,
         Phase', ClosedIdle', Ids', HeldStays', Cancels', OrderToldOnce',
         sent \subseteq sent', \A t \in tasks : t.kind \in PayKinds => t \in tasks',
         \A t \in tasks' : t \in tasks \/ t.kind # "VERIFY_AUTHORIZATION" \/ t.arg # "VERIFIED" \/ authorizedAt,
         order' \in HIDDEN_FROM_BUYER => order \in HIDDEN_FROM_BUYER
  PROVE  SagaInv'
<1>1. SagaTypes'
  BY DEF SagaInv, SagaTypes
<1>2. Verdicts'
  BY PayRests, VerdictsKept DEF SagaInv
<1>3. Callers'
  BY CallersRest DEF SagaInv
<1>4. /\ Asked("CAPTURE_PAYMENT") => Asked("CAPTURE_PAYMENT")'
      /\ Asked("CANCEL_PAYMENT") => Asked("CANCEL_PAYMENT")'
  BY DEF Asked, PayKinds
<1>5. MoneyInv'
  BY <1>4, MoneyRests DEF SagaInv
<1> QED
  BY <1>1, <1>2, <1>3, <1>5 DEF SagaInv

(* The outbox after one more event. *)
LEMMA PairOf == ASSUME NEW x PROVE <<"PENDING">> \o <<x>> = <<"PENDING", x>>
<1> DEFINE S == {"PENDING", x}
           a == <<"PENDING">>
           b == <<x>>
           d == <<"PENDING", x>>
<1>1. a \in Seq(S) /\ b \in Seq(S) /\ d \in Seq(S)
  OBVIOUS
<1>2. Len(a) = 1 /\ Len(b) = 1 /\ Len(d) = 2 /\ a[1] = "PENDING" /\ b[1] = x /\ d[1] = "PENDING" /\ d[2] = x
  OBVIOUS
<1> HIDE DEF a, b, d, S
<1>3. /\ a \o b \in Seq(S)
         /\ Len(a \o b) = Len(a) + Len(b)
         /\ \A i \in 1 .. Len(a) + Len(b) : (a \o b)[i] =
                     IF i <= Len(a) THEN a[i] ELSE b[i - Len(a)]
  BY <1>1, ConcatProperties
<1>4. Len(a \o b) = Len(d) /\ \A i \in 1 .. 2 : (a \o b)[i] = d[i]
  BY <1>2, <1>3
<1>5. a \o b = d
  BY <1>1, <1>2, <1>3, <1>4, SeqEqual
<1> QED
  BY <1>5 DEF a, b, d

LEMMA ToldBy ==
  ASSUME NEW s, s \in {<<>>, <<"PENDING">>}
  PROVE  s \o <<>> = s /\ <<>> \o <<"PENDING">> = <<"PENDING">>
<1>1. <<>> \in Seq({"PENDING"}) /\ <<"PENDING">> \in Seq({"PENDING"})
  OBVIOUS
<1>2. s \in Seq({"PENDING"})
  BY <1>1
<1> QED
  BY <1>1, <1>2, ConcatEmptySeq

(* moveTo writes each status from one status only, and tells of it in the same transaction. *)
LEMMA OrderMoves ==
  ASSUME OrderToldOnce, NEW to \in SagaTargets \union {"PENDING", "REJECTED"}, moveTo(to)
  PROVE  /\ OrderToldOnce'
         /\ (order = From(to) /\ order' = to) \/ (order # From(to) /\ order' = order)
<1> DEFINE next == announced \o EventOf(to)
<1>1. \/ order = From(to) /\ order' = to /\ announced' = next
      \/ order # From(to) /\ order' = order /\ announced' = announced
  <2>1. \/ order = From(to) /\ order' = to /\ announced' = next
        \/ order # From(to) /\ UNCHANGED <<order, announced>>
    BY DEF moveTo, orderRow
  <2> HIDE DEF next
  <2> QED
    BY <2>1
<1>2. ASSUME order = From(to), order' = to, announced' = announced \o EventOf(to)
      PROVE  OrderToldOnce'
  <2>1. CASE to = "PENDING"
    <3>1. announced = <<>> /\ EventOf(to) = <<"PENDING">>
      BY <1>2, <2>1 DEF OrderToldOnce, From, EventOf
    <3>2. announced' = <<"PENDING">>
      BY <1>2, <3>1, ToldBy
    <3> QED
      BY <1>2, <2>1, <3>2 DEF OrderToldOnce
  <2>2. CASE to = "REJECTED"
    <3>1. announced = <<>> /\ EventOf(to) = <<>>
      BY <1>2, <2>2 DEF OrderToldOnce, From, EventOf
    <3>2. announced' = <<>>
      BY <1>2, <3>1, ToldBy
    <3> QED
      BY <1>2, <2>2, <3>2 DEF OrderToldOnce
  <2>3. CASE to = "CONFIRMING"
    <3>1. announced = <<"PENDING">> /\ EventOf(to) = <<>>
      BY <1>2, <2>3 DEF OrderToldOnce, From, EventOf
    <3>2. announced' = <<"PENDING">>
      BY <1>2, <3>1, ToldBy
    <3> QED
      BY <1>2, <2>3, <3>2 DEF OrderToldOnce
  <2>4. CASE to \in {"PAID", "FAILED", "EXPIRED", "CANCELLED"}
    <3>1. announced = <<"PENDING">> /\ EventOf(to) = <<to>>
      BY <1>2, <2>4 DEF OrderToldOnce, From, EventOf
    <3>2. announced' = <<"PENDING", to>>
      BY <1>2, <3>1, PairOf
    <3> QED
      BY <1>2, <2>4, <3>2 DEF OrderToldOnce
  <2> QED
    BY <2>1, <2>2, <2>3, <2>4 DEF SagaTargets
<1>3. order' = order /\ announced' = announced => OrderToldOnce'
  BY DEF OrderToldOnce
<1>4. order = From(to) /\ order' = to /\ announced' = next => OrderToldOnce'
  BY <1>2, Zenon
<1> HIDE DEF next
<1>5. OrderToldOnce'
  BY <1>1, <1>3, <1>4
<1>6. (order = From(to) /\ order' = to) \/ (order # From(to) /\ order' = order)
  BY <1>1
<1> QED
  BY <1>5, <1>6

(* The states a run begins in. *)
LEMMA InitialSaga ==
  ASSUME NEW mode \in {"checkout", "lateAuthorization"}
  PROVE  /\ initialCheckoutSagaState(mode) \in SagaRecord
         /\ initialCheckoutSagaState(mode).mode = mode
         /\ initialCheckoutSagaState(mode).step = IF mode = "checkout" THEN "RESERVING" ELSE "COMPENSATING"
         /\ initialCheckoutSagaState(mode).orderStatus = IF mode = "checkout" THEN "RESERVING" ELSE "NONE"
         /\ initialCheckoutSagaState(mode).pending = {}
         /\ initialCheckoutSagaState(mode).nextCommandId = 1
         /\ initialCheckoutSagaState(mode).voided = {}
  BY DEF initialCheckoutSagaState, SagaRecord

LEMMA NewTask ==
  ASSUME NEW kind \in TaskKinds, NEW arg \in TaskArgs, NEW id \in Nat, NEW then \in SUBSET LeafTask
  PROVE  /\ Task(kind, id, arg, then) \in TaskRecord
         /\ Task(kind, id, arg, then).kind = kind /\ Task(kind, id, arg, then).id = id
         /\ Task(kind, id, arg, then).arg = arg /\ Task(kind, id, arg, then).then = then
         /\ then = {} => Task(kind, id, arg, then) \in LeafTask
  BY DEF Task, TaskRecord, LeafTask

(* ensureStarted: the reserve update, or the reaper, starts the run. *)
LEMMA EnsureStartedKeeps ==
  ASSUME SagaInv, ensureStarted
  PROVE  SagaInv'
<1> DEFINE s == initialCheckoutSagaState("checkout")
           t == Task("TRY", 0, "", {})
<1>1. NotStarted
  BY DEF ensureStarted, SagaInv, Phase, Reserving, Awaiting, Confirming, Committing, Capturing, Placed, Charged,
     Rejected,
     Doomed, Ending
<1>2. /\ run' = "running" /\ saga' = s /\ tasks' = {t} /\ order' = order /\ stock' = stock /\ sent' = sent
      /\ cancel' = cancel /\ announced' = announced /\ try' = try
      /\ UNCHANGED payVars /\ UNCHANGED caller
  BY DEF ensureStarted, startRun, orderRow
<1>3. t \in TaskRecord /\ t.kind = "TRY" /\ t.then = {}
  BY DEF Task, TaskRecord, TaskKinds, TaskArgs
<1>4. s \in SagaRecord /\ s.pending = {} /\ s.nextCommandId = 1 /\ s.step = "RESERVING" /\ s.orderStatus = "RESERVING"
  BY InitialSaga
<1> HIDE DEF t
<1>5. Reserving'
  <2>1. ReservingTask(t)'
    BY <1>1, <1>2, <1>3 DEF ReservingTask, NotStarted
  <2>2. \E u \in tasks' : tasks' = {u} /\ ReservingTask(u)'
    BY <1>2, <2>1
  <2>3. saga' = initialCheckoutSagaState("checkout")'
    BY <1>2 DEF initialCheckoutSagaState
  <2> QED
    BY <1>1, <1>2, <2>2, <2>3 DEF Reserving, NotStarted
<1> HIDE DEF s
<1>6. Phase' /\ ClosedIdle' /\ HeldStays'
  BY <1>2, <1>5 DEF Phase, ClosedIdle, HeldStays, SagaInv
<1>7. Ids'
  BY <1>2, <1>3, <1>4 DEF Ids, Comp, CompKinds
<1>8. Cancels' /\ OrderToldOnce'
  BY <1>1, <1>2 DEF SagaInv, Cancels, OrderToldOnce, NotStarted
<1>9. \A u \in tasks : u.kind \notin PayKinds
  BY <1>1 DEF NotStarted
<1> QED
  BY <1>1, <1>2, <1>3, <1>4, <1>6, <1>7, <1>8, <1>9, SagaStepKeeps DEF NotStarted, SagaInv, SagaTypes

(* The saga is reserving, and goes on with one task. *)
LEMMA ReservingGoesOn ==
  ASSUME SagaInv, Reserving, NEW t \in TaskRecord, t.kind \in {"TRY", "APPLY_TRY"}, tasks' = {t}, ReservingTask(t)',
         UNCHANGED <<run, saga, order, announced, stock, cancel, sent, caller>>, UNCHANGED payVars,
         try' \in TryAnswers, try' = "HELD" => try = "HELD"
  PROVE  SagaInv'
<1>1. /\ UNCHANGED run /\ UNCHANGED saga /\ UNCHANGED order /\ UNCHANGED announced
      /\ UNCHANGED stock /\ UNCHANGED cancel /\ UNCHANGED sent /\ UNCHANGED caller /\ UNCHANGED answered
  BY PayRests
<1>2. PICK u \in tasks : tasks = {u} /\ ReservingTask(u)
  BY DEF Reserving
<1>3. t.then = {}
  BY DEF ReservingTask
<1>4. Reserving'
  BY <1>1 DEF Reserving, initialCheckoutSagaState
<1>5. Phase' /\ ClosedIdle' /\ HeldStays'
  BY <1>1, <1>4 DEF Phase, Reserving, ClosedIdle, HeldStays, SagaInv
<1>6. Ids'
  BY <1>1, <1>3, IdsRest DEF SagaInv, Comp, CompKinds, Ids
<1>7. Cancels' /\ OrderToldOnce'
  BY <1>1 DEF SagaInv, Cancels, OrderToldOnce
<1>8. \A v \in tasks : v.kind \notin PayKinds
  BY <1>2 DEF ReservingTask, PayKinds
<1> QED
  BY <1>1, <1>5, <1>6, <1>7, <1>8, SagaStepKeeps DEF SagaInv, SagaTypes

(* attemptTry: the Try is sent, or is out of budget before it is. *)
LEMMA AttemptTryKeeps ==
  ASSUME SagaInv, attemptTry
  PROVE  SagaInv'
<1>1. PICK t \in tasks :
        /\ t.kind = "TRY" /\ try = "unsent"
        /\ \/ try' = "sent" /\ UNCHANGED tasks
           \/ try' = "unsent" /\ tasks' = {Task("APPLY_TRY", 0, "ABANDONED", {})}
  BY DEF attemptTry
<1>2. UNCHANGED <<run, saga, order, announced, stock, cancel, sent, caller>> /\ UNCHANGED payVars /\ order' = order
      /\ stock' = stock
  BY DEF attemptTry, orderRow
<1>3. Reserving /\ tasks = {t} /\ ReservingTask(t)
  BY <1>1, PhaseOfTask DEF SagaInv
<1>4. t \in TaskRecord /\ order = "RESERVING"
  BY <1>1, <1>3 DEF SagaInv, SagaTypes, ReservingTask
<1>5. CASE try' = "sent" /\ UNCHANGED tasks
  <2>1. ReservingTask(t)'
    BY <1>1, <1>2, <1>3 DEF ReservingTask
  <2> QED
    BY <1>1, <1>2, <1>3, <1>4, <1>5, <2>1, ReservingGoesOn DEF TryAnswers
<1>6. CASE try' = "unsent" /\ tasks' = {Task("APPLY_TRY", 0, "ABANDONED", {})}
  <2> DEFINE u == Task("APPLY_TRY", 0, "ABANDONED", {})
  <2>1. u \in TaskRecord /\ u.kind = "APPLY_TRY" /\ u.then = {} /\ u.arg = "ABANDONED"
    BY DEF Task, TaskRecord, TaskKinds, TaskArgs
  <2> HIDE DEF u
  <2>2. ReservingTask(u)'
    BY <1>2, <1>4, <2>1 DEF ReservingTask
  <2>3. tasks' = {u}
    BY <1>6 DEF u
  <2> QED
    BY <1>1, <1>2, <1>3, <1>6, <2>1, <2>2, <2>3, ReservingGoesOn DEF TryAnswers
<1> QED
  BY <1>1, <1>5, <1>6

(* tryAnswered: the answer of the Try, or its timeout, is taken. *)
LEMMA TryAnsweredKeeps ==
  ASSUME SagaInv, tryAnswered
  PROVE  SagaInv'
<1>1. PICK t \in tasks, outcome \in {try, "TIMEOUT"} :
        /\ t.kind = "TRY" /\ try # "unsent" /\ outcome # "sent"
        /\ tasks' = {Task("APPLY_TRY", 0, outcome, {})}
  BY DEF tryAnswered
<1>2. /\ UNCHANGED <<run, saga, order, announced, stock, cancel, sent, caller>> /\ UNCHANGED payVars /\ order' = order
      /\ stock' = stock /\ try' = try
  BY DEF tryAnswered, orderRow
<1>3. Reserving /\ tasks = {t} /\ ReservingTask(t)
  BY <1>1, PhaseOfTask DEF SagaInv
<1>4. order = "RESERVING" /\ outcome \in TaskArgs
  BY <1>1, <1>3 DEF SagaInv, SagaTypes, ReservingTask, TaskArgs
<1> DEFINE u == Task("APPLY_TRY", 0, outcome, {})
<1>5. u \in TaskRecord /\ u.kind = "APPLY_TRY" /\ u.then = {} /\ u.arg = outcome
  BY <1>4, NewTask DEF TaskKinds
<1> HIDE DEF u
<1>6. ReservingTask(u)'
  BY <1>1, <1>2, <1>4, <1>5 DEF ReservingTask, SagaInv, HeldStays
<1>7. tasks' = {u}
  BY <1>1 DEF u
<1> QED
  BY <1>2, <1>3, <1>5, <1>6, <1>7, ReservingGoesOn DEF SagaInv, SagaTypes

(* applyTryResult: the local activity writes PENDING or REJECTED. *)
LEMMA ApplyTryResultKeeps ==
  ASSUME SagaInv, applyTryResult
  PROVE  SagaInv'
<1>1. PICK t \in tasks :
        /\ t.kind = "APPLY_TRY" /\ order = "RESERVING"
        /\ moveTo(IF t.arg = "HELD" THEN "PENDING" ELSE "REJECTED")
  BY DEF applyTryResult
<1>2. /\ UNCHANGED run /\ UNCHANGED saga /\ UNCHANGED tasks /\ UNCHANGED stock /\ UNCHANGED cancel /\ UNCHANGED sent
      /\ UNCHANGED caller /\ UNCHANGED payVars /\ UNCHANGED try /\ UNCHANGED answered
  BY PayRests DEF applyTryResult, sagaVars
<1>3. Reserving /\ tasks = {t} /\ ReservingTask(t)
  BY <1>1, PhaseOfTask DEF SagaInv
<1>4. /\ OrderToldOnce'
      /\ order' = IF t.arg = "HELD" THEN "PENDING" ELSE "REJECTED"
  <2>1. \E to \in {"PENDING", "REJECTED"} : to = (IF t.arg = "HELD" THEN "PENDING" ELSE "REJECTED") /\ moveTo(to)
    BY <1>1
  <2>2. PICK to \in {"PENDING", "REJECTED"} : to = (IF t.arg = "HELD" THEN "PENDING" ELSE "REJECTED") /\ moveTo(to)
    BY <2>1
  <2>3. /\ OrderToldOnce'
        /\ (order = From(to) /\ order' = to) \/ (order # From(to) /\ order' = order)
    BY <2>2, OrderMoves DEF SagaInv
  <2> QED
    BY <1>1, <2>2, <2>3 DEF From
<1>5. ReservingTask(t)'
  BY <1>1, <1>2, <1>3, <1>4 DEF ReservingTask
<1>6. Reserving'
  BY <1>2, <1>3, <1>5 DEF Reserving, initialCheckoutSagaState
<1>7. Phase' /\ ClosedIdle' /\ HeldStays'
  BY <1>2, <1>6 DEF Phase, ClosedIdle, HeldStays, SagaInv
<1>8. Cancels' /\ Ids'
  BY <1>1, <1>2, SagaRests DEF SagaInv, Cancels
<1> QED
  BY <1>1, <1>2, <1>4, <1>7, <1>8, SagaStepKeeps DEF SagaInv, SagaTypes, HIDDEN_FROM_BUYER

-----------------------------------------------------------------------------
(* The ids of the compensations *)

(* The ids hold after a batch of compensations that waits in one order change. *)
LEMMA IdsBatch ==
  ASSUME NEW b, ~Comp(b), \A t \in tasks' : t = b \/ (~Comp(t) /\ t.then = {}),
         \A u \in b.then : Comp(u) => u.id \in saga'.pending,
         \A u, v \in b.then : Comp(u) /\ Comp(v) /\ u.id = v.id => u = v,
         \A i \in saga'.pending : i < saga'.nextCommandId, saga'.step # "COMPENSATED"
  PROVE  Ids'
<1> USE DEF Comp
<1>1. \A t \in tasks' : ~Comp(t) /\ (t.then # {} => t = b)
  OBVIOUS
<1>2. \A t \in tasks' : \A u \in t.then : t = b
  OBVIOUS
<1> QED
  BY <1>1, <1>2 DEF Ids

(* The ids hold after one more compensation scheduled directly. *)
LEMMA IdsDirect ==
  ASSUME Ids, saga \in SagaRecord, NEW t, t.id = saga.nextCommandId, t.then = {}, \A u \in tasks' : u \in tasks \/ u = t,
         saga'.pending = saga.pending \union {t.id}, saga'.nextCommandId = saga.nextCommandId + 1,
         saga'.step # "COMPENSATED"
  PROVE  Ids'
<1> USE DEF Comp
<1>1. saga.nextCommandId \in Nat /\ saga.pending \subseteq Nat
  BY DEF SagaRecord
<1>2. \A i \in saga.pending : i < saga.nextCommandId /\ i # t.id
  BY <1>1 DEF Ids
<1>3. \A i \in saga'.pending : i < saga'.nextCommandId
  BY <1>1, <1>2
<1>4. /\ \A u \in tasks : Comp(u) => u.id # t.id
      /\ \A u \in tasks : \A v \in u.then : Comp(v) => v.id # t.id
  BY <1>2 DEF Ids
<1>5. \A u \in tasks' : (Comp(u) => u.id \in saga'.pending) /\ \A v \in u.then : Comp(v) => v.id \in saga'.pending
  BY DEF Ids
<1>6. \A u, v \in tasks' : Comp(u) /\ Comp(v) /\ u.id = v.id => u = v
  BY <1>4 DEF Ids
<1>7. \A u \in tasks' : \A v, w \in u.then : Comp(v) /\ Comp(w) /\ v.id = w.id => v = w
  BY DEF Ids
<1>8. \A u, v \in tasks' : \A w \in v.then : Comp(u) /\ Comp(w) => u.id # w.id
  BY <1>4 DEF Ids
<1>9. \A u, v \in tasks' : u.then # {} /\ v.then # {} => u = v
  BY DEF Ids
<1> QED
  BY <1>3, <1>5, <1>6, <1>7, <1>8, <1>9 DEF Ids

(* The ids hold after one compensation is done. *)
LEMMA IdsDone ==
  ASSUME Ids, NEW t \in tasks, Comp(t), t.then = {}, tasks' = tasks \ {t},
         saga'.pending = saga.pending \ {t.id}, saga'.nextCommandId = saga.nextCommandId,
         saga'.step = "COMPENSATED" => saga'.pending = {}
  PROVE  Ids'
<1> USE DEF Comp
<1>1. \A u \in tasks' : u \in tasks /\ u # t
  OBVIOUS
<1>2. \A u \in tasks' : (Comp(u) => u.id \in saga'.pending) /\ \A v \in u.then : Comp(v) => v.id \in saga'.pending
  BY <1>1 DEF Ids
<1> QED
  BY <1>1, <1>2 DEF Ids

(* The ids hold when the order change is done and the compensations in it are scheduled. *)
LEMMA IdsUnpacked ==
  ASSUME Ids, NEW t \in tasks, \A u \in t.then : u.then = {}, tasks' = (tasks \ {t}) \union t.then, UNCHANGED saga
  PROVE  Ids'
<1> USE DEF Comp
<1>1. \A u \in tasks' : u \in t.then \/ (u \in tasks /\ (t.then # {} => u.then = {}))
  BY DEF Ids
<1>2. \A u \in tasks' : (Comp(u) => u.id \in saga'.pending) /\ \A v \in u.then : Comp(v) => v.id \in saga'.pending
  BY <1>1 DEF Ids
<1>3. \A u, v \in tasks' : Comp(u) /\ Comp(v) /\ u.id = v.id => u = v
  BY <1>1 DEF Ids
<1>4. \A u \in tasks' : \A v, w \in u.then : Comp(v) /\ Comp(w) /\ v.id = w.id => v = w
  BY <1>1 DEF Ids
<1>5. \A u, v \in tasks' : \A w \in v.then : Comp(u) /\ Comp(w) => u.id # w.id
  BY <1>1 DEF Ids
<1>6. \A u, v \in tasks' : u.then # {} /\ v.then # {} => u = v
  BY <1>1 DEF Ids
<1> QED
  BY <1>2, <1>3, <1>4, <1>5, <1>6 DEF Ids

(* What apply does. *)
LEMMA Applied ==
  ASSUME SagaTypes, NEW f \in tasks \union {NoTask}, NEW tr, apply(f, tr)
  PROVE  /\ saga' = tr.state /\ run' = run
         /\ f # NoTask => tasks' = (tasks \ {f}) \union tr.commands /\ sent' = sent \union {f.kind}
         /\ f = NoTask => tasks' = tasks \union tr.commands /\ sent' = sent
  BY NoTaskIsNone DEF apply

-----------------------------------------------------------------------------
(* The buyer's cancel *)

(* A dead order whose compensations are all done holds nothing. *)
LEMMA DoomedEnds ==
  ASSUME NEW X \in Ends, Doomed(X), \A t \in tasks : ~Comp(t) /\ \A u \in t.then : ~Comp(u)
  PROVE  /\ order = X /\ "CANCELLED" \in answered /\ stock \notin {"HELD", "COMMITTED"}
         /\ X # "FAILED" => stock = "RELEASED"
<1>1. ~Owes("RELEASE_STOCK") /\ ~Owes("RESTOCK") /\ ~Owes("CANCEL_PAYMENT")
  BY DEF Owes, Comp, CompKinds
<1>2. \A t \in tasks : t.kind # "CHANGE_ORDER"
  BY DEF Doomed, DoomedTask, Comp, CompKinds, Verifying
<1> QED
  BY <1>1, <1>2 DEF Doomed, NeverCommitted, CommitRefused, CaptureRefused

LEMMA NothingPendingNothingOwed ==
  ASSUME Ids, saga.pending = {}
  PROVE  \A t \in tasks : ~Comp(t) /\ \A u \in t.then : ~Comp(u)
  BY DEF Ids

(* A step that moves nothing but the cancel update preserves the invariant. *)
LEMMA CancelOnlyKeeps ==
  ASSUME SagaInv, UNCHANGED <<run, saga, tasks, order, announced, stock, try, sent, caller>>, UNCHANGED payVars, Cancels'
  PROVE  SagaInv'
<1>1. /\ UNCHANGED run /\ UNCHANGED saga /\ UNCHANGED tasks /\ UNCHANGED order /\ UNCHANGED announced
      /\ UNCHANGED stock /\ UNCHANGED try /\ UNCHANGED sent /\ UNCHANGED caller
  OBVIOUS
<1>2. Phase'
  BY <1>1, PhaseRests, PayRestsSteps DEF SagaInv
<1>3. ClosedIdle' /\ HeldStays' /\ OrderToldOnce' /\ Ids'
  BY <1>1, SagaRests DEF SagaInv, ClosedIdle, HeldStays, OrderToldOnce
<1> QED
  BY <1>1, <1>2, <1>3, SagaStepKeeps DEF SagaInv, SagaTypes

(* requestCancel: the buyer asks for it. *)
LEMMA RequestCancelKeeps ==
  ASSUME SagaInv, requestCancel
  PROVE  SagaInv'
  BY CancelOnlyKeeps DEF requestCancel, sagaVars, orderRow, Cancels

(* cancelConfirmed: the update is answered once every compensation is done. *)
LEMMA CancelConfirmedKeeps ==
  ASSUME SagaInv, cancelConfirmed
  PROVE  SagaInv'
<1>1. cancel = "accepted" /\ saga.step = "COMPENSATED" /\ cancel' = "confirmed"
  BY DEF cancelConfirmed
<1>2. UNCHANGED <<run, saga, tasks, order, announced, stock, try, sent, caller>> /\ UNCHANGED payVars
      /\ order' = order /\ stock' = stock /\ answered' = answered
  BY PayRests DEF cancelConfirmed, sagaVars, orderRow
<1>3. saga.orderStatus = "CANCELLED"
  BY <1>1 DEF SagaInv, Cancels
<1>4. PICK X \in Ends : Doomed(X)
  BY <1>1, <1>3, PhaseOfStep DEF SagaInv, Rejected
<1>5. X = "CANCELLED"
  BY <1>3, <1>4 DEF Doomed
<1>6. \A t \in tasks : ~Comp(t) /\ \A u \in t.then : ~Comp(u)
  BY <1>1, NothingPendingNothingOwed DEF SagaInv, Ids
<1>7. order = "CANCELLED" /\ stock = "RELEASED" /\ "CANCELLED" \in answered
  BY <1>4, <1>5, <1>6, DoomedEnds
<1> QED
  BY <1>1, <1>2, <1>7, CancelOnlyKeeps DEF Cancels

LEMMA ClosedHoldsNothing ==
  ASSUME SagaInv, run = "closed", order = "CANCELLED"
  PROVE  stock = "RELEASED" /\ "CANCELLED" \in answered
<1>1. tasks = {}
  BY DEF SagaInv, ClosedIdle
<1>2. PICK X \in Ends : Doomed(X)
  BY PhaseOfStep DEF SagaInv, Charged, Rejected
<1>3. X = "CANCELLED"
  BY <1>2 DEF Doomed, From, Ends
<1> QED
  BY <1>1, <1>2, <1>3, DoomedEnds

(* close: the run ends. *)
LEMMA CloseKeeps ==
  ASSUME SagaInv, close
  PROVE  SagaInv'
<1>1. /\ saga.step \in {"COMPLETED", "COMPENSATED"} /\ tasks = {} /\ cancel # "accepted" /\ run' = "closed"
      /\ UNCHANGED saga /\ UNCHANGED tasks /\ UNCHANGED order /\ UNCHANGED announced /\ UNCHANGED stock
      /\ UNCHANGED try /\ UNCHANGED cancel /\ UNCHANGED sent /\ UNCHANGED caller /\ UNCHANGED payVars
  BY DEF close, orderRow
<1>2. /\ UNCHANGED answered /\ UNCHANGED authorizedAt /\ PP!NothingLive' = PP!NothingLive
  BY <1>1, PayRests
<1>3. Phase'
  <2>1. CASE Charged
    <3>1. Charged'
      BY <1>1, <1>2, <2>1 DEF Charged
    <3> QED
      BY <3>1 DEF Phase
  <2>2. CASE Rejected
    <3>1. Rejected'
      BY <1>1, <2>2 DEF Rejected, Ending
    <3> QED
      BY <3>1 DEF Phase
  <2>3. ASSUME NEW X \in Ends, Doomed(X)
        PROVE  Phase'
    <3>1. \A K : (Owes(K)' <=> Owes(K)) /\ (Never(K)' <=> Never(K))
      BY <1>1 DEF Owes, Never
    <3>2. /\ NeverCommitted(X) => NeverCommitted(X)'
          /\ CommitRefused(X) => CommitRefused(X)'
          /\ CaptureRefused(X) => CaptureRefused(X)'
      BY <1>1, <1>2, <3>1 DEF NeverCommitted, CommitRefused, CaptureRefused
    <3>3. Doomed(X)'
      BY <1>1, <1>2, <2>3, <3>1, <3>2 DEF Doomed, Ending, From
    <3> QED
      BY <3>3 DEF Phase
  <2> QED
    BY <1>1, <2>1, <2>2, <2>3, PhaseOfStep DEF SagaInv
<1>4. ClosedIdle' /\ HeldStays' /\ Ids'
  BY <1>1, SagaRests DEF SagaInv, ClosedIdle, HeldStays
<1>5. Cancels' /\ OrderToldOnce'
  BY <1>1, <1>2 DEF SagaInv, Cancels, OrderToldOnce
<1> QED
  BY <1>1, <1>3, <1>4, <1>5, SagaStepKeeps DEF SagaInv, SagaTypes

-----------------------------------------------------------------------------
(* The answer to the Try *)

(* tryApplied: the saga learns of the Try, and awaits the buyer or gives the stock back. *)
LEMMA TryAppliedKeeps ==
  ASSUME SagaInv, tryApplied
  PROVE  SagaInv'
<1>1. PICK t \in tasks : t.kind = "APPLY_TRY" /\ order # "RESERVING" /\ apply(t, onTryResult(saga, t.arg))
  BY DEF tryApplied
<1>2. /\ UNCHANGED order /\ UNCHANGED announced /\ UNCHANGED stock /\ UNCHANGED try /\ UNCHANGED cancel
      /\ UNCHANGED caller /\ UNCHANGED payVars /\ UNCHANGED answered
  BY PayRests DEF tryApplied, orderRow
<1>3. /\ Reserving /\ tasks = {t} /\ ReservingTask(t) /\ t # NoTask
      /\ saga \in SagaRecord /\ SagaTypes
  BY <1>1, PhaseOfTask, NoTaskIsNone DEF SagaInv, SagaTypes
<1>4. /\ saga.mode = "checkout" /\ saga.step = "RESERVING" /\ saga.orderStatus = "RESERVING" /\ saga.pending = {}
      /\ saga.nextCommandId = 1 /\ run = "running" /\ sent = {} /\ stock \in {"NONE", "HELD", "RELEASED"}
  BY <1>3, InitialSaga DEF Reserving
<1>5. /\ run' = "running" /\ sent' = {"APPLY_TRY"}
      /\ saga' = onTryResult(saga, t.arg).state /\ tasks' = onTryResult(saga, t.arg).commands
  <2>1. PICK tr : tr = onTryResult(saga, t.arg)
    OBVIOUS
  <2>2. apply(t, tr)
    BY <1>1, <2>1
  <2>3. saga' = tr.state /\ run' = run /\ tasks' = (tasks \ {t}) \union tr.commands /\ sent' = sent \union {t.kind}
    BY <1>3, <2>2, Applied
  <2>4. tasks \ {t} = {}
    BY <1>3
  <2>5. tasks' = tr.commands
    BY <2>3, <2>4
  <2> QED
    BY <1>1, <1>4, <2>1, <2>3, <2>5
<1>6. cancel # "accepted"
  BY <1>4 DEF SagaInv, Cancels
<1>7. ClosedIdle' /\ HeldStays' /\ Cancels' /\ OrderToldOnce'
  BY <1>2, <1>5, <1>6 DEF SagaInv, ClosedIdle, HeldStays, Cancels, OrderToldOnce
<1>8. ASSUME t.arg = "HELD"
      PROVE  saga' \in SagaRecord /\ tasks' = {} /\ Phase' /\ Ids'
  <2>1. saga' = [saga EXCEPT !.step = "AWAITING_AUTH", !.orderStatus = "PENDING"] /\ tasks' = {}
    BY <1>4, <1>5, <1>8 DEF onTryResult, noop, To
  <2>2. /\ saga' \in SagaRecord /\ saga'.mode = "checkout" /\ saga'.step = "AWAITING_AUTH" /\ saga'.orderStatus = "PENDING"
        /\ saga'.pending = {} /\ saga'.nextCommandId = saga.nextCommandId
    BY <1>3, <1>4, <2>1 DEF SagaRecord
  <2>3. order = "PENDING" /\ stock \in {"HELD", "RELEASED"}
    BY <1>1, <1>3, <1>4, <1>8 DEF ReservingTask
  <2>4. Awaiting'
    BY <1>2, <1>5, <2>1, <2>2, <2>3 DEF Awaiting, Placed, Quiet
  <2>5. Ids'
    BY <2>1, <2>2 DEF Ids
  <2> QED
    BY <2>1, <2>2, <2>4, <2>5 DEF Phase
<1>9. ASSUME t.arg # "HELD"
      PROVE  /\ saga' \in SagaRecord /\ tasks' \subseteq TaskRecord /\ Phase' /\ Ids'
             /\ \A u \in tasks' : u.kind = "RELEASE_STOCK"
  <2> DEFINE s == [saga EXCEPT !.orderStatus = "REJECTED"]
             u == Task("RELEASE_STOCK", s.nextCommandId, "", {})
  <2>1. saga' = compensate(s, "NONE", <<"RELEASE_STOCK">>).state /\ tasks' = compensate(s, "NONE", <<"RELEASE_STOCK">>).commands
    BY <1>4, <1>5, <1>9 DEF onTryResult
  <2>2. /\ s \in SagaRecord /\ s.mode = "checkout" /\ s.pending = {} /\ s.nextCommandId = 1 /\ s.orderStatus = "REJECTED"
    BY <1>3, <1>4 DEF SagaRecord
  <2> HIDE DEF s
  <2>3. /\ saga' \in SagaRecord /\ saga'.mode = "checkout" /\ saga'.step = "COMPENSATING" /\ saga'.orderStatus = "REJECTED"
        /\ saga'.pending = {1} /\ saga'.nextCommandId = 2 /\ tasks' = {u}
    <3>1. PICK first \in {"NONE"} \union SagaTargets, k \in CompKinds : first = "NONE" /\ k = "RELEASE_STOCK"
      BY DEF CompKinds
    <3>2. PICK kinds : kinds = <<k>>
      OBVIOUS
    <3>3. Single(kinds, k)
      BY <3>2, SingleIs
    <3>4. PICK r : r = compensate(s, first, kinds)
      OBVIOUS
    <3>5. saga' = r.state /\ tasks' = r.commands /\ u = Task(k, s.nextCommandId, "", {})
      BY <2>1, <3>1, <3>2, <3>4
    <3> HIDE DEF u
    <3>6. /\ saga' \in SagaRecord /\ saga'.mode = s.mode /\ saga'.step = "COMPENSATING"
          /\ saga'.orderStatus = IF first = "NONE" THEN s.orderStatus ELSE first
          /\ saga'.pending = s.pending \union {s.nextCommandId} /\ saga'.nextCommandId = s.nextCommandId + 1
          /\ tasks' = IF first = "NONE" THEN {u} ELSE {changeOrder(first, {u})}
      <4>1. OneOwed(s, first, r, u)
        BY <2>2, <3>3, <3>4, <3>5, CompensateOne, Zenon
      <4> QED
        BY <3>5, <4>1 DEF OneOwed
    <3> QED
      BY <2>2, <3>1, <3>6
  <2>4. u \in TaskRecord /\ u.kind = "RELEASE_STOCK" /\ u.then = {} /\ u.id = 1
    BY <2>2 DEF Task, TaskRecord, TaskKinds, TaskArgs, CompKinds
  <2> HIDE DEF u
  <2>5. order = "REJECTED"
    BY <1>1, <1>3, <1>9 DEF ReservingTask
  <2>6. Rejected'
    BY <1>2, <1>4, <1>5, <2>3, <2>4, <2>5 DEF Rejected, Ending
  <2>7. Ids'
    BY <1>3, <1>4, <2>3, <2>4, IdsDirect DEF SagaInv
  <2> QED
    BY <2>3, <2>4, <2>6, <2>7 DEF Phase
<1>10. saga' \in SagaRecord /\ tasks' \subseteq TaskRecord /\ Phase' /\ Ids' /\ \A u \in tasks' : u.kind = "RELEASE_STOCK"
  BY <1>8, <1>9
<1>11. sent \subseteq sent' /\ \A u \in tasks : u.kind \notin PayKinds
  BY <1>1, <1>3, <1>4 DEF PayKinds
<1> QED
  BY <1>2, <1>3, <1>7, <1>10, <1>11, SagaStepKeeps DEF SagaTypes

-----------------------------------------------------------------------------
(* The order's row *)

(* An attempt that commits late finds the row where it has been left. *)
LEMMA LateChangeIsNone ==
  ASSUME Phase, NEW to \in sent \cap SagaTargets
  PROVE  order # From(to)
<1>1. ~NotStarted /\ ~Reserving /\ ~Rejected /\ ~Awaiting /\ ~Confirming
  BY DEF NotStarted, Reserving, Rejected, Awaiting, Confirming, Quiet, SagaTargets
<1>2. CASE Committing \/ Capturing
  BY <1>2 DEF Committing, Capturing, Quiet, SagaTargets, From
<1>3. CASE Charged
  <2>1. to \in {"CONFIRMING", "PAID"}
    BY <1>3 DEF Charged, Quiet, SagaTargets
  <2>2. order = "PAID" \/ (order = "CONFIRMING" /\ "PAID" \notin sent)
    BY <1>3 DEF Charged
  <2> QED
    BY <2>1, <2>2 DEF From
<1>4. ASSUME NEW X \in Ends, Doomed(X) PROVE order # From(to)
  <2>1. to \in {X, "CONFIRMING"} /\ (to = "CONFIRMING" => X = "FAILED")
    BY <1>4 DEF Doomed
  <2>2. order = X \/ (order = From(X) /\ X \notin sent)
    BY <1>4 DEF Doomed
  <2> QED
    BY <2>1, <2>2 DEF From, Ends
<1> QED
  BY <1>1, <1>2, <1>3, <1>4 DEF Phase

(* lateOrderChange: it finds nothing to move. *)
LEMMA LateOrderChangeKeeps ==
  ASSUME SagaInv, lateOrderChange
  PROVE  SagaInv'
<1>1. PICK to \in sent \cap SagaTargets : moveTo(to)
  BY DEF lateOrderChange
<1>2. order # From(to)
  BY LateChangeIsNone DEF SagaInv
<1>3. UNCHANGED orderRow
  BY <1>1, <1>2 DEF moveTo
<1>4. UNCHANGED <<run, saga, tasks, order, announced, stock, try, cancel, sent, caller>> /\ UNCHANGED payVars
      /\ order' = order /\ stock' = stock
  BY <1>3 DEF lateOrderChange, sagaVars, orderRow
<1>5. Cancels'
  BY <1>4, PayRests DEF SagaInv, Cancels
<1> QED
  BY <1>4, <1>5, CancelOnlyKeeps

(* What the task of an order change finds and leaves. *)
LEMMA ChangeWrites ==
  ASSUME SagaInv, NEW t \in tasks, t.kind = "CHANGE_ORDER", moveTo(t.arg)
  PROVE  /\ t.arg \in SagaTargets /\ order' = t.arg /\ order \in {t.arg, From(t.arg)} /\ OrderToldOnce'
         /\ \A u \in t.then : u.kind \in CompKinds \union {"COMMIT_STOCK"}
<1>1. /\ t.arg \in SagaTargets /\ order \in {t.arg, From(t.arg)}
      /\ \A u \in t.then : u.kind \in CompKinds \union {"COMMIT_STOCK"}
  <2>1. CASE Confirming /\ t = ConfirmTask
    BY <2>1, TaskKindsAre DEF Confirming, SagaTargets, From
  <2>2. CASE Charged /\ t = PaidTask
    BY <2>2, TaskKindsAre DEF Charged, SagaTargets, From
  <2>3. ASSUME NEW X \in Ends, Doomed(X), DoomedTask(X, t)
        PROVE  t.arg = X /\ order \in {X, From(X)} /\ \A u \in t.then : u.kind \in CompKinds
    BY <2>3 DEF Doomed, DoomedTask, CompKinds, Verifying
  <2>4. Ends \subseteq SagaTargets
    BY DEF Ends, SagaTargets
  <2> QED
    BY <2>1, <2>2, <2>3, <2>4, PhaseOfTask DEF SagaInv
<1>2. PICK to \in SagaTargets : to = t.arg
  BY <1>1
<1>3. /\ OrderToldOnce'
      /\ (order = From(to) /\ order' = to) \/ (order # From(to) /\ order' = order)
  BY <1>2, OrderMoves DEF SagaInv
<1> QED
  BY <1>1, <1>2, <1>3

(* An order change that is done, or whose answer is lost, leaves the order in a phase. *)
LEMMA ApplyOrderChangePhase ==
  ASSUME SagaInv, NEW t \in tasks, t.kind = "CHANGE_ORDER", order' = t.arg, order \in {t.arg, From(t.arg)},
         UNCHANGED <<run, saga, stock, answered, authorizedAt>>, PP!NothingLive' = PP!NothingLive,
         \/ tasks' = (tasks \ {t}) \union t.then /\ sent' = sent \union {t.arg}
         \/ UNCHANGED <<tasks, sent>>
  PROVE  Phase'
<1>0. /\ UNCHANGED run /\ UNCHANGED saga /\ UNCHANGED stock /\ UNCHANGED answered /\ UNCHANGED authorizedAt
      /\ \A u \in tasks' : u \in tasks \/ u \in t.then
      /\ \A K \in sent' : K \in sent \/ K = t.arg
  OBVIOUS
<1>1. ASSUME Confirming, t = ConfirmTask PROVE Phase'
  <2>1. order' = "CONFIRMING"
    BY <1>1, TaskKindsAre
  <2>2. ASSUME tasks' = (tasks \ {t}) \union t.then, sent' = sent \union {t.arg} PROVE Committing'
    <3>1. tasks' = (tasks \ {ConfirmTask}) \union {CommitTask} /\ sent' = sent \union {"CONFIRMING"}
      BY <1>1, <2>2, TaskKindsAre
    <3> QED
      BY <1>0, <1>1, <2>1, <3>1 DEF Confirming, Committing, Placed, Verifying
  <2>3. ASSUME UNCHANGED <<tasks, sent>> PROVE Confirming'
    BY <1>0, <1>1, <2>1, <2>3 DEF Confirming, Placed, Verifying
  <2> QED
    BY <2>2, <2>3 DEF Phase
<1>2. ASSUME Charged, t = PaidTask PROVE Phase'
  <2>1. order' = "PAID" /\ t.arg = "PAID" /\ t.then = {}
    BY <1>2, TaskKindsAre
  <2>2. \A u \in tasks' : u \in tasks
    BY <1>0, <2>1
  <2>3. Charged'
    BY <1>0, <1>2, <2>1, <2>2 DEF Charged, Verifying
  <2> QED
    BY <2>3 DEF Phase
<1>3. ASSUME NEW X \in Ends, Doomed(X), DoomedTask(X, t) PROVE Phase'
  <2>1. t.arg = X /\ \A u \in t.then : u.kind \in CompKinds /\ u.then = {}
    BY <1>3 DEF DoomedTask, CompKinds, Verifying
  <2>2. \A u \in tasks' : DoomedTask(X, u)'
    BY <1>0, <1>3, <2>1 DEF Doomed, DoomedTask, Verifying
  <2>3. ASSUME NEW K, K \in CompKinds \union {"COMMIT_STOCK", "CAPTURE_PAYMENT"}
        PROVE  (Owes(K)' <=> Owes(K)) /\ (Never(K)' <=> Never(K))
    <3>1. Owes(K)' <=> Owes(K)
      <4>1. CASE tasks' = (tasks \ {t}) \union t.then
        <5>1. t.kind # K
          BY <2>3 DEF CompKinds
        <5>2. ASSUME Owes(K) PROVE Owes(K)'
          <6>1. PICK v \in tasks : v.kind = K \/ \E u \in v.then : u.kind = K
            BY <5>2 DEF Owes
          <6>2. CASE v = t
            BY <4>1, <5>1, <6>1, <6>2 DEF Owes
          <6>3. CASE v # t
            BY <4>1, <6>1, <6>3 DEF Owes
          <6> QED
            BY <6>2, <6>3
        <5>3. ASSUME Owes(K)' PROVE Owes(K)
          BY <4>1, <2>1, <5>3 DEF Owes
        <5> QED
          BY <5>2, <5>3
      <4>2. CASE UNCHANGED <<tasks, sent>>
        BY <4>2 DEF Owes
      <4> QED
        BY <4>1, <4>2
    <3>2. K # X
      BY <2>3 DEF Ends, CompKinds
    <3>3. K \in sent' <=> K \in sent
      BY <2>1, <3>2
    <3> QED
      BY <3>1, <3>3 DEF Never
  <2>4. /\ NeverCommitted(X) => NeverCommitted(X)'
        /\ CommitRefused(X) => CommitRefused(X)'
        /\ CaptureRefused(X) => CaptureRefused(X)'
    <3>1. /\ Owes("RELEASE_STOCK")' <=> Owes("RELEASE_STOCK")
          /\ Owes("RESTOCK")' <=> Owes("RESTOCK")
          /\ Never("RELEASE_STOCK")' <=> Never("RELEASE_STOCK")
          /\ Never("RESTOCK")' <=> Never("RESTOCK")
          /\ Never("COMMIT_STOCK")' <=> Never("COMMIT_STOCK")
          /\ Never("CAPTURE_PAYMENT")' <=> Never("CAPTURE_PAYMENT")
      BY <2>3 DEF CompKinds
    <3> QED
      BY <1>0, <3>1 DEF NeverCommitted, CommitRefused, CaptureRefused
  <2>5. Owes("CANCEL_PAYMENT") => Owes("CANCEL_PAYMENT")'
    BY <2>3 DEF CompKinds
  <2>6. sent' \intersect SagaTargets \subseteq {X, "CONFIRMING"} /\ ("CONFIRMING" \in sent' => X = "FAILED")
    BY <1>0, <1>3, <2>1 DEF Doomed, Ends
  <2>7. Doomed(X)'
    BY <1>0, <1>3, <2>1, <2>2, <2>4, <2>5, <2>6 DEF Doomed, Ending
  <2> QED
    BY <2>7 DEF Phase
<1> QED
  BY <1>1, <1>2, <1>3, PhaseOfTask DEF SagaInv

(* applyOrderChange: the row is written, and the commands that waited for it are scheduled. *)
LEMMA ApplyOrderChangeKeeps ==
  ASSUME SagaInv, applyOrderChange
  PROVE  SagaInv'
<1>1. PICK t \in tasks :
        /\ t.kind = "CHANGE_ORDER"
        /\ moveTo(t.arg)
        /\ \/ tasks' = (tasks \ {t}) \cup t.then /\ sent' = sent \cup {t.arg}
           \/ order # order' /\ UNCHANGED <<tasks, sent>>
  BY DEF applyOrderChange
<1>2. /\ UNCHANGED run /\ UNCHANGED saga /\ UNCHANGED stock /\ UNCHANGED try /\ UNCHANGED cancel /\ UNCHANGED caller
      /\ UNCHANGED payVars
  BY DEF applyOrderChange
<1>3. UNCHANGED answered /\ UNCHANGED authorizedAt /\ PP!NothingLive' = PP!NothingLive
  BY <1>2, PayRests
<1>4. /\ t.arg \in SagaTargets /\ order' = t.arg /\ order \in {t.arg, From(t.arg)} /\ OrderToldOnce'
      /\ \A u \in t.then : u.kind \in CompKinds \union {"COMMIT_STOCK"}
  BY <1>1, ChangeWrites
<1>5. Phase'
  BY <1>1, <1>2, <1>3, <1>4, ApplyOrderChangePhase
<1>6. SagaTypes /\ t \in TaskRecord /\ \A u \in t.then : u \in LeafTask /\ u.then = {}
  BY DEF SagaInv, SagaTypes, TaskRecord, LeafTask
<1>7. LeafTask \subseteq TaskRecord
  BY DEF LeafTask, TaskRecord
<1>8. tasks' \subseteq TaskRecord /\ sent \subseteq sent'
  BY <1>1, <1>6, <1>7 DEF SagaTypes
<1>9. Ids'
  BY <1>1, <1>2, <1>6, SagaRests, IdsUnpacked DEF SagaInv
<1>10. ClosedIdle' /\ HeldStays'
  BY <1>1, <1>2 DEF SagaInv, ClosedIdle, HeldStays
<1>11. Cancels'
  <2>1. order = "CANCELLED" => order' = "CANCELLED"
    BY <1>4 DEF From, SagaTargets
  <2> QED
    BY <1>2, <1>3, <2>1 DEF SagaInv, Cancels
<1>12. order' \notin HIDDEN_FROM_BUYER
  BY <1>4 DEF SagaTargets, HIDDEN_FROM_BUYER
<1>13. \A u \in tasks' : u \in tasks \/ u.kind # "VERIFY_AUTHORIZATION"
  BY <1>1, <1>4 DEF CompKinds
<1>14. \A u \in tasks : u.kind \in PayKinds => u \in tasks'
  BY <1>1 DEF PayKinds
<1> QED
  BY <1>2, <1>4, <1>5, <1>6, <1>8, <1>9, <1>10, <1>11, <1>12, <1>13, <1>14, SagaStepKeeps DEF SagaTypes

-----------------------------------------------------------------------------
(* Signals and verdicts *)

Underway ==
  Awaiting \/ Confirming \/ Committing \/ Capturing \/ Charged \/ \E X \in Ends : Doomed(X)

Light(t) == t.kind \in {"VERIFY_AUTHORIZATION", "LOAD_CONTEXT"} /\ t.then = {}

(* A task of no consequence comes or goes. *)
LEMMA OwesOn ==
  ASSUME NEW K, K \notin {"VERIFY_AUTHORIZATION", "LOAD_CONTEXT"},
         \A u \in tasks' : u \in tasks \/ Light(u), \A u \in tasks : u \in tasks' \/ Light(u),
         sent \subseteq sent', sent' \subseteq sent \union {"VERIFY_AUTHORIZATION", "LOAD_CONTEXT"}
  PROVE  (Owes(K)' <=> Owes(K)) /\ (Never(K)' <=> Never(K))
<1>1. Owes(K)' <=> Owes(K)
  BY DEF Owes, Light
<1> QED
  BY <1>1 DEF Never

(* Light tasks change no phase. *)
LEMMA UnderwayStays ==
  ASSUME Underway, UNCHANGED <<run, order, stock>>, UNCHANGED payVars,
         saga'.mode = saga.mode, saga'.step = saga.step, saga'.orderStatus = saga.orderStatus, saga'.pending = saga.pending,
         \A u \in tasks' : u \in tasks \/ Verifying(u), \A u \in tasks : u \in tasks' \/ Light(u),
         sent \subseteq sent', sent' \subseteq sent \union {"VERIFY_AUTHORIZATION", "LOAD_CONTEXT"},
         "LOAD_CONTEXT" \in sent' => "LOAD_CONTEXT" \in sent \/ Charged \/ \E X \in Ends : Doomed(X)
  PROVE  Phase'
<1>0. /\ UNCHANGED run /\ UNCHANGED order /\ UNCHANGED stock /\ UNCHANGED answered /\ UNCHANGED authorizedAt
      /\ PP!NothingLive' = PP!NothingLive
  BY PayRests
<1>1. ~Charged /\ ~(\E X \in Ends : Doomed(X)) /\ "LOAD_CONTEXT" \notin sent => sent' \subseteq sent \union {"VERIFY_AUTHORIZATION"}
  OBVIOUS
<1>2. ASSUME Awaiting PROVE Phase'
  <2>1. Awaiting'
    <3>1. "LOAD_CONTEXT" \notin sent /\ ~Charged /\ ~(\E X \in Ends : Doomed(X))
      BY <1>2 DEF Awaiting, Charged, Doomed, Ending, Quiet
    <3>2. sent' \subseteq Quiet
      BY <1>1, <1>2, <3>1 DEF Awaiting, Quiet
    <3> QED
      BY <1>0, <1>2, <3>2 DEF Awaiting, Placed, Verifying
  <2> QED
    BY <2>1 DEF Phase
<1>3. ASSUME Confirming PROVE Phase'
  <2>1. Confirming'
    <3>1. "LOAD_CONTEXT" \notin sent /\ ~Charged /\ ~(\E X \in Ends : Doomed(X))
      BY <1>3 DEF Confirming, Charged, Doomed, Ending, Quiet
    <3>2. sent' \subseteq Quiet
      BY <1>1, <1>3, <3>1 DEF Confirming, Quiet
    <3> QED
      BY <1>0, <1>3, <3>2 DEF Confirming, Placed, Verifying
  <2> QED
    BY <2>1 DEF Phase
<1>4. ASSUME Committing PROVE Phase'
  <2>1. Committing'
    <3>1. "LOAD_CONTEXT" \notin sent /\ ~Charged /\ ~(\E X \in Ends : Doomed(X))
      BY <1>4 DEF Committing, Charged, Doomed, Ending, Quiet
    <3>2. sent' \subseteq Quiet \union {"CONFIRMING"}
      BY <1>1, <1>4, <3>1 DEF Committing, Quiet
    <3> QED
      BY <1>0, <1>4, <3>2 DEF Committing, Placed, Verifying
  <2> QED
    BY <2>1 DEF Phase
<1>5. ASSUME Capturing PROVE Phase'
  <2>1. Capturing'
    <3>1. "LOAD_CONTEXT" \notin sent /\ ~Charged /\ ~(\E X \in Ends : Doomed(X))
      BY <1>5 DEF Capturing, Charged, Doomed, Ending, Quiet
    <3>2. sent' \subseteq Quiet \union {"CONFIRMING", "COMMIT_STOCK"}
      BY <1>1, <1>5, <3>1 DEF Capturing, Quiet
    <3> QED
      BY <1>0, <1>5, <3>2 DEF Capturing, Placed, Verifying
  <2> QED
    BY <2>1 DEF Phase
<1>6. ASSUME Charged PROVE Phase'
  <2>1. ~Light(PaidTask) /\ ("PAID" \in sent' => "PAID" \in sent)
    BY TaskKindsAre DEF Light
  <2>2. /\ \A u \in tasks' : Verifying(u) \/ u = PaidTask \/ (u = LoadTask /\ order = "PAID")
        /\ PaidTask \in tasks => PaidTask \in tasks'
    BY <1>6, <2>1 DEF Charged
  <2>3. Charged'
    BY <1>0, <1>6, <2>1, <2>2 DEF Charged, Verifying, Quiet
  <2> QED
    BY <2>3 DEF Phase
<1>7. ASSUME NEW X \in Ends, Doomed(X) PROVE Phase'
  <2>1. \A K \in CompKinds \union {"COMMIT_STOCK", "CAPTURE_PAYMENT"} : (Owes(K)' <=> Owes(K)) /\ (Never(K)' <=> Never(K))
    <3>1. \A u \in tasks' : u \in tasks \/ Light(u)
      BY DEF Verifying, Light
    <3> QED
      BY <3>1, OwesOn DEF CompKinds
  <2>2. /\ NeverCommitted(X) => NeverCommitted(X)'
        /\ CommitRefused(X) => CommitRefused(X)'
        /\ CaptureRefused(X) => CaptureRefused(X)'
        /\ Owes("CANCEL_PAYMENT") => Owes("CANCEL_PAYMENT")'
    <3>1. /\ Owes("RELEASE_STOCK")' <=> Owes("RELEASE_STOCK")
          /\ Owes("RESTOCK")' <=> Owes("RESTOCK")
          /\ Owes("CANCEL_PAYMENT")' <=> Owes("CANCEL_PAYMENT")
          /\ Never("RELEASE_STOCK")' <=> Never("RELEASE_STOCK")
          /\ Never("RESTOCK")' <=> Never("RESTOCK")
          /\ Never("COMMIT_STOCK")' <=> Never("COMMIT_STOCK")
          /\ Never("CAPTURE_PAYMENT")' <=> Never("CAPTURE_PAYMENT")
      BY <2>1 DEF CompKinds
    <3> QED
      BY <1>0, <3>1 DEF NeverCommitted, CommitRefused, CaptureRefused
  <2>3. \A u \in tasks' : DoomedTask(X, u)'
    BY <1>0, <1>7 DEF Doomed, DoomedTask, Verifying
  <2>4. (\E u \in tasks : u.kind = "CHANGE_ORDER") => \E u \in tasks' : u.kind = "CHANGE_ORDER"
    BY DEF Light
  <2>5. (X \in sent' => X \in sent) /\ ("CONFIRMING" \in sent' => "CONFIRMING" \in sent)
        /\ sent' \intersect SagaTargets \subseteq sent \intersect SagaTargets
    BY DEF Ends, SagaTargets
  <2>6. Doomed(X)'
    BY <1>0, <1>7, <2>2, <2>3, <2>4, <2>5 DEF Doomed, Ending, From
  <2> QED
    BY <2>6 DEF Phase
<1> QED
  BY <1>2, <1>3, <1>4, <1>5, <1>6, <1>7 DEF Underway

(* A dead order that learns of another authorization owes one more cancel. *)
LEMMA DoomedCancelsMore ==
  ASSUME NEW X \in Ends, Doomed(X), UNCHANGED <<run, order, stock>>, UNCHANGED payVars,
         NEW c, c.kind = "CANCEL_PAYMENT", c.then = {},
         c \in tasks', \A u \in tasks' : u \in tasks \/ u = c, \A u \in tasks : u \in tasks' \/ Light(u),
         saga'.mode = saga.mode, saga'.step = "COMPENSATING", saga'.orderStatus = X,
         sent \subseteq sent', sent' \subseteq sent \union {"LOAD_CONTEXT"}
  PROVE  Phase'
<1>0. /\ UNCHANGED run /\ UNCHANGED order /\ UNCHANGED stock /\ UNCHANGED answered /\ UNCHANGED authorizedAt
      /\ PP!NothingLive' = PP!NothingLive
  BY PayRests
<1>1. Owes("CANCEL_PAYMENT")'
  BY DEF Owes
<1>2. ASSUME NEW K, K \notin {"VERIFY_AUTHORIZATION", "LOAD_CONTEXT", "CANCEL_PAYMENT"}
      PROVE  (Owes(K)' <=> Owes(K)) /\ (Never(K)' <=> Never(K))
  <2>1. Owes(K)' <=> Owes(K)
    BY <1>2 DEF Owes, Light
  <2> QED
    BY <1>2, <2>1 DEF Never
<1>3. /\ NeverCommitted(X) => NeverCommitted(X)'
      /\ CommitRefused(X) => CommitRefused(X)'
      /\ CaptureRefused(X) => CaptureRefused(X)'
  <2>1. /\ Owes("RELEASE_STOCK")' <=> Owes("RELEASE_STOCK")
        /\ Owes("RESTOCK")' <=> Owes("RESTOCK")
        /\ Never("RELEASE_STOCK")' <=> Never("RELEASE_STOCK")
        /\ Never("RESTOCK")' <=> Never("RESTOCK")
        /\ Never("COMMIT_STOCK")' <=> Never("COMMIT_STOCK")
        /\ Never("CAPTURE_PAYMENT")' <=> Never("CAPTURE_PAYMENT")
    BY <1>2
  <2> QED
    BY <1>0, <2>1 DEF NeverCommitted, CommitRefused, CaptureRefused
<1>4. \A u \in tasks' : DoomedTask(X, u)'
  BY <1>0 DEF Doomed, DoomedTask, Verifying, CompKinds
<1>5. (\E u \in tasks : u.kind = "CHANGE_ORDER") => \E u \in tasks' : u.kind = "CHANGE_ORDER"
  BY DEF Light
<1>6. (X \in sent' => X \in sent) /\ ("CONFIRMING" \in sent' => "CONFIRMING" \in sent)
      /\ sent' \intersect SagaTargets \subseteq sent \intersect SagaTargets
  BY DEF Ends, SagaTargets
<1>7. Doomed(X)'
  BY <1>0, <1>1, <1>3, <1>4, <1>5, <1>6 DEF Doomed, Ending, From
<1> QED
  BY <1>7 DEF Phase

(* What an authorization that is reported says of the order. *)
LEMMA ReportedIsPlaced ==
  ASSUME SagaInv, NEW p \in PP!Attempts, emitted[p] > 0
  PROVE  authorizedAt /\ order \notin HIDDEN_FROM_BUYER /\ (Reserving \/ Underway) /\ p \in Nat
<1>1. PP!PaymentTypes /\ PP!DataInv
  BY DEF SagaInv, MoneyInv, PP!PaymentInv
<1>2. emitted[p] = 1
  BY <1>1, PaymentAssumption DEF PP!PaymentTypes
<1>3. authorizedAt
  BY <1>1, <1>2 DEF PP!DataInv, PP!RecordedOnce
<1>4. header # "NONE"
  BY <1>1, <1>3 DEF PP!DataInv, PP!HeaderFits
<1>5. order \notin HIDDEN_FROM_BUYER
  BY <1>4 DEF SagaInv, MoneyInv
<1>6. ~NotStarted /\ ~Rejected
  BY <1>5 DEF NotStarted, Rejected, HIDDEN_FROM_BUYER
<1>7. p \in Nat
  BY PaymentAssumption DEF PP!Attempts
<1> QED
  BY <1>3, <1>5, <1>6, <1>7 DEF SagaInv, Phase, Underway

LEMMA UnderwayIs ==
  ASSUME Underway
  PROVE  /\ saga.step # "RESERVING"
         /\ saga.step = "AWAITING_AUTH" => Awaiting
         /\ saga.step \in {"COMPENSATING", "COMPENSATED"} =>
              \/ Charged /\ saga.mode = "lateAuthorization" /\ saga.orderStatus = "NONE" /\ order = "PAID"
              \/ \E X \in Ends : Doomed(X)
         /\ run \in {"running", "closed"}
  BY DEF Underway, Awaiting, Confirming, Committing, Capturing, Placed, Charged, Doomed, Ending

(* The workflow's step in an order under way, once its phase and ids are known. *)
LEMMA UnderwayStepKeeps ==
  ASSUME SagaInv, run = "running", UNCHANGED <<run, order, announced, stock, try, caller>>, UNCHANGED payVars,
         cancel' = cancel \/ (cancel' = "accepted" /\ cancel = "asked"),
         saga' \in SagaRecord, saga'.orderStatus = "CANCELLED" \/ cancel' # "accepted",
         Phase', Ids', tasks' \subseteq TaskRecord, sent \subseteq sent',
         \A t \in tasks : t.kind \in PayKinds => t \in tasks',
         \A t \in tasks' : t \in tasks \/ t.kind # "VERIFY_AUTHORIZATION" \/ t.arg # "VERIFIED" \/ authorizedAt
  PROVE  SagaInv'
<1>1. /\ UNCHANGED run /\ UNCHANGED order /\ UNCHANGED announced /\ UNCHANGED stock /\ UNCHANGED try
      /\ UNCHANGED caller /\ UNCHANGED answered
  BY PayRests
<1>2. ClosedIdle' /\ HeldStays' /\ OrderToldOnce' /\ Cancels'
  BY <1>1 DEF SagaInv, ClosedIdle, HeldStays, OrderToldOnce, Cancels
<1> QED
  BY <1>1, <1>2, SagaStepKeeps DEF SagaInv, SagaTypes

(* The dead order's one more cancel. *)
LEMMA OneMoreCancel ==
  ASSUME SagaInv, run = "running", NEW X \in Ends, Doomed(X), UNCHANGED <<run, order, announced, stock, try, caller, cancel>>,
         UNCHANGED payVars, NEW s \in SagaRecord,
         s.mode = saga.mode, s.pending = saga.pending, s.nextCommandId = saga.nextCommandId, s.orderStatus = X,
         NEW gone, \A u \in gone : Light(u),
         saga' = compensate(s, "NONE", <<"CANCEL_PAYMENT">>).state,
         tasks' = (tasks \ gone) \union compensate(s, "NONE", <<"CANCEL_PAYMENT">>).commands,
         sent \subseteq sent', sent' \subseteq sent \union {"LOAD_CONTEXT"}
  PROVE  SagaInv'
<1>0. /\ UNCHANGED run /\ UNCHANGED order /\ UNCHANGED announced /\ UNCHANGED stock /\ UNCHANGED try
      /\ UNCHANGED caller /\ UNCHANGED cancel /\ SagaTypes /\ saga \in SagaRecord /\ Ids
  BY DEF SagaInv, SagaTypes
<1>1. PICK first \in {"NONE"} \union SagaTargets, k \in CompKinds : first = "NONE" /\ k = "CANCEL_PAYMENT"
  BY DEF CompKinds
<1>2. PICK kinds : kinds = <<k>>
  OBVIOUS
<1>3. Single(kinds, k)
  BY <1>2, SingleIs
<1>4. PICK r : r = compensate(s, first, kinds)
  OBVIOUS
<1>5. PICK c : c = Task(k, s.nextCommandId, "", {})
  OBVIOUS
<1>6. OneOwed(s, first, r, c)
  BY <1>3, <1>4, <1>5, CompensateOne, Zenon
<1>7. saga' = r.state /\ tasks' = (tasks \ gone) \union r.commands
  BY <1>1, <1>2, <1>4
<1>8. s.nextCommandId \in Nat
  BY DEF SagaRecord
<1>9. c \in TaskRecord /\ c.kind = "CANCEL_PAYMENT" /\ c.then = {} /\ c.id = s.nextCommandId
  BY <1>1, <1>5, <1>8 DEF Task, TaskRecord, TaskKinds, TaskArgs, CompKinds
<1>10. /\ saga' \in SagaRecord /\ saga'.mode = saga.mode /\ saga'.step = "COMPENSATING" /\ saga'.orderStatus = X
       /\ saga'.pending = saga.pending \union {c.id} /\ saga'.nextCommandId = saga.nextCommandId + 1
       /\ tasks' = (tasks \ gone) \union {c}
  BY <1>1, <1>6, <1>7, <1>9 DEF OneOwed
<1>11. Phase'
  BY <1>0, <1>9, <1>10, DoomedCancelsMore
<1>12. Ids'
  BY <1>0, <1>9, <1>10, IdsDirect
<1>13. saga'.orderStatus = "CANCELLED" \/ cancel' # "accepted"
  BY <1>0, <1>10 DEF SagaInv, Cancels, Doomed
<1>14. tasks' \subseteq TaskRecord
  BY <1>0, <1>9, <1>10 DEF SagaTypes
<1>15. \A u \in tasks : u.kind \in PayKinds => u \in tasks'
  BY <1>10 DEF Light, PayKinds
<1>16. \A u \in tasks' : u \in tasks \/ u.kind # "VERIFY_AUTHORIZATION"
  BY <1>9, <1>10
<1> QED
  BY <1>0, <1>10, <1>11, <1>12, <1>13, <1>14, <1>15, <1>16, UnderwayStepKeeps

(* payment.authorized is signalled to the run under way. *)
LEMMA SignalToRunning ==
  ASSUME SagaInv, NEW p \in PP!Attempts, emitted[p] > 0, run = "running", apply(NoTask, onAuthorized(saga, p)),
         UNCHANGED <<orderRow, stock, try, cancel, caller, payVars>>
  PROVE  SagaInv'
<1>0. /\ UNCHANGED order /\ UNCHANGED announced /\ UNCHANGED stock /\ UNCHANGED try /\ UNCHANGED cancel
      /\ UNCHANGED caller /\ UNCHANGED payVars /\ SagaTypes /\ saga \in SagaRecord /\ Ids
  BY DEF orderRow, SagaInv, SagaTypes
<1>1. PICK r : r = onAuthorized(saga, p)
  OBVIOUS
<1>2. saga' = r.state /\ run' = run /\ tasks' = tasks \union r.commands /\ sent' = sent
  <2>1. apply(NoTask, r)
    BY <1>1
  <2>2. PICK f \in tasks \union {NoTask} : f = NoTask
    OBVIOUS
  <2>3. apply(f, r)
    BY <2>1, <2>2
  <2> QED
    BY <1>0, <2>2, <2>3, Applied
<1>3. authorizedAt /\ (Reserving \/ Underway) /\ p \in Nat
  BY ReportedIsPlaced
<1>8. Reserving => saga.step = "RESERVING"
  BY DEF Reserving, initialCheckoutSagaState
<1>4. CASE r = noop(saga)
  <2>1. saga' = saga /\ tasks' = tasks
    BY <1>2, <1>4 DEF noop, To
  <2>2. Cancels'
    BY <1>0, <1>2, <2>1, PayRests DEF SagaInv, Cancels
  <2> QED
    BY <1>0, <1>2, <2>1, <2>2, CancelOnlyKeeps
<1>5. CASE /\ saga.step \in {"COMPENSATING", "COMPENSATED"} /\ saga.mode = "lateAuthorization" /\ saga.orderStatus = "NONE"
           /\ r = noop([saga EXCEPT !.voided = @ \cup {p}])
  <2>1. saga' = [saga EXCEPT !.voided = @ \cup {p}] /\ tasks' = tasks
    BY <1>2, <1>5 DEF noop, To
  <2>2. saga.voided \union {p} \in SUBSET Nat
    BY <1>0, <1>3 DEF SagaRecord
  <2>3. /\ saga' \in SagaRecord /\ saga'.mode = saga.mode /\ saga'.step = saga.step /\ saga'.orderStatus = saga.orderStatus
        /\ saga'.pending = saga.pending /\ saga'.nextCommandId = saga.nextCommandId
    BY <1>0, <2>1, <2>2 DEF SagaRecord
  <2>4. Underway
    BY <1>3, <1>5 DEF Reserving, initialCheckoutSagaState
  <2>5. Phase'
    BY <1>0, <1>2, <2>1, <2>3, <2>4, UnderwayStays
  <2>6. Ids'
    BY <1>0, <2>1, <2>3, IdsRest DEF Ids
  <2>7. saga'.orderStatus = "CANCELLED" \/ cancel' # "accepted"
    BY <1>0, <2>3 DEF SagaInv, Cancels
  <2> QED
    BY <1>0, <1>2, <2>1, <2>3, <2>5, <2>6, <2>7, UnderwayStepKeeps DEF SagaTypes
<1>6. CASE /\ saga.step \in {"COMPENSATING", "COMPENSATED"}
           /\ ~(saga.mode = "lateAuthorization" /\ saga.orderStatus = "NONE")
           /\ r = compensate([saga EXCEPT !.voided = @ \cup {p}], "NONE", <<"CANCEL_PAYMENT">>)
  <2> DEFINE s == [saga EXCEPT !.voided = @ \cup {p}]
  <2>1. Underway
    BY <1>3, <1>6 DEF Reserving, initialCheckoutSagaState
  <2>2. PICK X \in Ends : Doomed(X)
    BY <1>6, <2>1, UnderwayIs
  <2>3. saga.orderStatus = X
    BY <1>6, <2>2 DEF Doomed
  <2>4. saga.voided \union {p} \in SUBSET Nat
    BY <1>0, <1>3 DEF SagaRecord
  <2>5. /\ s \in SagaRecord /\ s.mode = saga.mode /\ s.orderStatus = X
        /\ s.pending = saga.pending /\ s.nextCommandId = saga.nextCommandId
    BY <1>0, <2>3, <2>4 DEF SagaRecord
  <2>6. saga' = compensate(s, "NONE", <<"CANCEL_PAYMENT">>).state
        /\ tasks' = tasks \union compensate(s, "NONE", <<"CANCEL_PAYMENT">>).commands
    BY <1>2, <1>6
  <2> HIDE DEF s
  <2>7. PICK gone : gone = {}
    OBVIOUS
  <2>8. tasks' = (tasks \ gone) \union compensate(s, "NONE", <<"CANCEL_PAYMENT">>).commands
    BY <2>6, <2>7
  <2>9. PICK z \in SagaRecord : z = s
    BY <2>5
  <2> QED
    BY <1>0, <1>2, <2>2, <2>5, <2>6, <2>7, <2>8, <2>9, OneMoreCancel
<1>7. CASE /\ saga.step = "AWAITING_AUTH"
           /\ r = To([saga EXCEPT !.verifying = @ \cup {p}], {Task("VERIFY_AUTHORIZATION", p, "", {})})
  <2> DEFINE t == Task("VERIFY_AUTHORIZATION", p, "", {})
  <2>1. saga' = [saga EXCEPT !.verifying = @ \cup {p}] /\ tasks' = tasks \union {t}
    BY <1>2, <1>7 DEF To
  <2>2. saga.verifying \union {p} \in SUBSET Nat
    BY <1>0, <1>3 DEF SagaRecord
  <2>3. /\ saga' \in SagaRecord /\ saga'.mode = saga.mode /\ saga'.step = saga.step /\ saga'.orderStatus = saga.orderStatus
        /\ saga'.pending = saga.pending /\ saga'.nextCommandId = saga.nextCommandId
    BY <1>0, <2>1, <2>2 DEF SagaRecord
  <2>4. t \in TaskRecord /\ t.kind = "VERIFY_AUTHORIZATION" /\ t.then = {} /\ t.arg = ""
    BY <1>3 DEF Task, TaskRecord, TaskKinds, TaskArgs
  <2> HIDE DEF t
  <2>5. Underway
    <3>1. saga.step = "AWAITING_AUTH"
      BY <1>7
    <3> QED
      BY <1>3, <1>8, <3>1
  <2>6. Phase'
    BY <1>0, <1>2, <2>1, <2>3, <2>4, <2>5, UnderwayStays DEF Verifying
  <2>7. Ids'
    BY <1>0, <2>1, <2>3, <2>4, IdsRest DEF Ids, Comp, CompKinds
  <2>8. saga'.orderStatus = "CANCELLED" \/ cancel' # "accepted"
    BY <1>0, <2>3 DEF SagaInv, Cancels
  <2> QED
    BY <1>0, <1>2, <2>1, <2>3, <2>4, <2>6, <2>7, <2>8, UnderwayStepKeeps DEF SagaTypes
<1>9. \/ r = noop(saga)
      \/ /\ saga.step \in {"COMPENSATING", "COMPENSATED"} /\ saga.mode = "lateAuthorization" /\ saga.orderStatus = "NONE"
         /\ r = noop([saga EXCEPT !.voided = @ \cup {p}])
      \/ /\ saga.step \in {"COMPENSATING", "COMPENSATED"} /\ ~(saga.mode = "lateAuthorization" /\ saga.orderStatus = "NONE")
         /\ r = compensate([saga EXCEPT !.voided = @ \cup {p}], "NONE", <<"CANCEL_PAYMENT">>)
      \/ /\ saga.step = "AWAITING_AUTH"
         /\ r = To([saga EXCEPT !.verifying = @ \cup {p}], {Task("VERIFY_AUTHORIZATION", p, "", {})})
  <2>1. CASE saga.step \in {"COMPENSATING", "COMPENSATED"}
    BY <1>1, <2>1 DEF onAuthorized
  <2>2. CASE saga.step = "AWAITING_AUTH" /\ p \notin saga.verifying
    BY <1>1, <2>2 DEF onAuthorized
  <2>3. CASE saga.step \notin {"COMPENSATING", "COMPENSATED"} /\ ~(saga.step = "AWAITING_AUTH" /\ p \notin saga.verifying)
    BY <1>1, <2>3 DEF onAuthorized
  <2> QED
    BY <2>1, <2>2, <2>3
<1> QED
  BY <1>4, <1>5, <1>6, <1>7, <1>9, Zenon

(* payment.authorized is signalled after the run has closed, and starts another. *)
LEMMA SignalToClosed ==
  ASSUME SagaInv, NEW p \in PP!Attempts, emitted[p] > 0, run = "closed",
         startRun("lateAuthorization", onAuthorized(initialCheckoutSagaState("lateAuthorization"), p).state),
         UNCHANGED sent, UNCHANGED <<orderRow, stock, try, cancel, caller, payVars>>
  PROVE  SagaInv'
<1> DEFINE s == initialCheckoutSagaState("lateAuthorization")
<1>0. /\ UNCHANGED order /\ UNCHANGED announced /\ UNCHANGED stock /\ UNCHANGED try /\ UNCHANGED cancel
      /\ UNCHANGED caller /\ UNCHANGED payVars /\ SagaTypes /\ tasks = {} /\ UNCHANGED answered
      /\ UNCHANGED authorizedAt /\ PP!NothingLive' = PP!NothingLive
  BY PayRests DEF orderRow, SagaInv, ClosedIdle
<1>1. authorizedAt /\ Underway /\ p \in Nat /\ order \notin HIDDEN_FROM_BUYER
  BY ReportedIsPlaced DEF Reserving
<1>2. /\ s \in SagaRecord /\ s.mode = "lateAuthorization" /\ s.step = "COMPENSATING" /\ s.orderStatus = "NONE"
      /\ s.pending = {} /\ s.nextCommandId = 1 /\ s.voided = {}
  BY InitialSaga
<1>3. run' = "running" /\ saga' = onAuthorized(s, p).state /\ tasks' = {LoadTask}
  BY DEF startRun, LoadTask
<1> HIDE DEF s
<1>4. saga' = [s EXCEPT !.voided = @ \cup {p}]
  BY <1>2, <1>3 DEF onAuthorized, noop, To
<1>5. s.voided \union {p} \in SUBSET Nat
  BY <1>1, <1>2
<1>6. /\ saga' \in SagaRecord /\ saga'.mode = "lateAuthorization" /\ saga'.step = "COMPENSATING" /\ saga'.orderStatus = "NONE"
      /\ saga'.pending = {} /\ saga'.nextCommandId = 1
  BY <1>2, <1>4, <1>5 DEF SagaRecord
<1>7. Phase'
  <2>1. CASE Charged
    <3>1. order = "PAID"
      BY <1>0, <2>1 DEF Charged
    <3>2. Charged'
      BY <1>0, <1>3, <1>6, <2>1, <3>1 DEF Charged
    <3> QED
      BY <3>2 DEF Phase
  <2>2. ASSUME NEW X \in Ends, Doomed(X) PROVE Phase'
    <3>1. order = X /\ "CANCELLED" \in answered /\ stock \notin {"HELD", "COMMITTED"}
      BY <1>0, <2>2, DoomedEnds
    <3>2. \A K : (K # "LOAD_CONTEXT" => (Never(K)' <=> Never(K)))
      BY <1>0, <1>3, TaskKindsAre DEF Never, Owes
    <3>3. /\ Never("COMMIT_STOCK")' <=> Never("COMMIT_STOCK")
          /\ Never("CAPTURE_PAYMENT")' <=> Never("CAPTURE_PAYMENT")
          /\ Never("RESTOCK")' <=> Never("RESTOCK")
          /\ Never("RELEASE_STOCK")' <=> Never("RELEASE_STOCK")
      BY <3>2
    <3>4. /\ NeverCommitted(X) => NeverCommitted(X)'
          /\ CommitRefused(X) => CommitRefused(X)'
          /\ CaptureRefused(X) => CaptureRefused(X)'
      BY <1>0, <3>1, <3>3 DEF NeverCommitted, CommitRefused, CaptureRefused
    <3>5. \A u \in tasks' : DoomedTask(X, u)'
      BY <1>0, <1>3, <3>1, TaskKindsAre DEF DoomedTask
    <3>6. Doomed(X)'
      BY <1>0, <1>3, <1>6, <2>2, <3>1, <3>4, <3>5 DEF Doomed, Ending
    <3> QED
      BY <3>6 DEF Phase
  <2> QED
    BY <1>1, <2>1, <2>2 DEF Underway, Awaiting, Confirming, Committing, Capturing, Placed
<1>8. Ids'
  BY <1>3, <1>6, TaskKindsAre DEF Ids, Comp, CompKinds
<1>9. ClosedIdle' /\ HeldStays' /\ OrderToldOnce' /\ Cancels'
  BY <1>0, <1>3 DEF SagaInv, ClosedIdle, HeldStays, OrderToldOnce, Cancels
<1>10. LoadTask \in TaskRecord
  BY DEF LoadTask, Task, TaskRecord, TaskKinds, TaskArgs
<1> QED
  BY <1>0, <1>3, <1>6, <1>7, <1>8, <1>9, <1>10, TaskKindsAre, SagaStepKeeps DEF SagaTypes

(* paymentAuthorized: a delivery of the event, the first or one more. *)
LEMMA PaymentAuthorizedKeeps ==
  ASSUME SagaInv, NEW p \in PP!Attempts, paymentAuthorized(p)
  PROVE  SagaInv'
<1>1. emitted[p] > 0 /\ notifyAuthorized(p) /\ UNCHANGED <<orderRow, stock, try, cancel, caller, payVars>>
  BY DEF paymentAuthorized
<1> QED
  BY <1>1, SignalToRunning, SignalToClosed DEF notifyAuthorized

(* A task runs only in a run. *)
LEMMA TasksRun == ASSUME SagaInv, NEW t \in tasks PROVE run = "running" /\ t # NoTask /\ SagaTypes /\ t \in TaskRecord
  BY NoTaskIsNone DEF SagaInv, ClosedIdle, SagaTypes

LEMMA AppliedTask ==
  ASSUME SagaTypes, NEW t \in tasks, NEW tr, apply(t, tr)
  PROVE  saga' = tr.state /\ run' = run /\ tasks' = (tasks \ {t}) \union tr.commands /\ sent' = sent \union {t.kind}
<1>1. t # NoTask
  BY NoTaskIsNone
<1> QED
  BY <1>1, Applied

LEMMA NoopIs == ASSUME NEW s, NEW tr, tr = noop(s) PROVE tr.state = s /\ tr.commands = {}
  BY DEF noop, To

(* A task of no consequence ends, and the saga makes no move. *)
LEMMA LightTaskEnds ==
  ASSUME SagaInv, Underway, NEW t \in tasks, Light(t), UNCHANGED <<orderRow, stock, try, cancel, caller, payVars>>,
         run' = run, tasks' = tasks \ {t}, sent' = sent \union {t.kind}, saga' \in SagaRecord,
         saga'.mode = saga.mode, saga'.step = saga.step, saga'.orderStatus = saga.orderStatus,
         saga'.pending = saga.pending, saga'.nextCommandId = saga.nextCommandId
  PROVE  SagaInv'
<1>0. /\ UNCHANGED order /\ UNCHANGED announced /\ UNCHANGED stock /\ UNCHANGED try /\ UNCHANGED cancel
      /\ UNCHANGED caller /\ UNCHANGED payVars /\ SagaTypes /\ run = "running"
  BY TasksRun DEF orderRow
<1>1. t.kind = "LOAD_CONTEXT" => Charged \/ \E X \in Ends : Doomed(X)
  BY PhaseOfTask DEF SagaInv
<1>2. Phase'
  BY <1>0, <1>1, UnderwayStays DEF Light
<1>3. Ids'
  BY <1>0, IdsRest DEF SagaInv, Ids
<1>4. saga'.orderStatus = "CANCELLED" \/ cancel' # "accepted"
  BY <1>0 DEF SagaInv, Cancels
<1> QED
  BY <1>0, <1>2, <1>3, <1>4, UnderwayStepKeeps DEF SagaTypes, Light, PayKinds

(* loadLateAuthorizationContext: the late run reads the order, and ends or cancels the payment. *)
LEMMA LoadLateAuthorizationContextKeeps ==
  ASSUME SagaInv, loadLateAuthorizationContext
  PROVE  SagaInv'
<1>1. PICK t \in tasks : t.kind = "LOAD_CONTEXT" /\ apply(t, onLateAuthorizationContext(saga, order))
  BY DEF loadLateAuthorizationContext
<1>2. UNCHANGED <<orderRow, stock, try, cancel, caller, payVars>>
  BY DEF loadLateAuthorizationContext
<1>0. /\ UNCHANGED order /\ UNCHANGED announced /\ UNCHANGED stock /\ UNCHANGED try /\ UNCHANGED cancel
      /\ UNCHANGED caller /\ UNCHANGED payVars /\ UNCHANGED answered /\ UNCHANGED authorizedAt
  BY <1>2, PayRests DEF orderRow
<1>3. run = "running" /\ SagaTypes /\ saga \in SagaRecord
  BY <1>1, TasksRun DEF SagaTypes
<1>4. Light(t) /\ ((Charged /\ order = "PAID") \/ \E X \in Ends : Doomed(X) /\ order = X)
  BY <1>1, PhaseOfTask DEF SagaInv, Light
<1>5. Underway
  BY <1>4 DEF Underway
<1>6. PICK r : r = onLateAuthorizationContext(saga, order)
  OBVIOUS
<1>7. saga' = r.state /\ run' = run /\ tasks' = (tasks \ {t}) \union r.commands /\ sent' = sent \union {"LOAD_CONTEXT"}
  BY <1>1, <1>3, <1>6, AppliedTask
<1>8. order \in {"NONE", "RESERVING", "REJECTED", "PENDING"} \union SagaTargets
  BY <1>4 DEF Ends, SagaTargets
<1>9. CASE saga.mode # "lateAuthorization" \/ saga.orderStatus # "NONE"
  <2>1. r = noop(saga)
    BY <1>6, <1>9 DEF onLateAuthorizationContext
  <2>2. saga' = saga /\ tasks' = tasks \ {t}
    BY <1>7, <2>1, NoopIs
  <2> QED
    BY <1>1, <1>2, <1>3, <1>4, <1>5, <1>7, <2>2, LightTaskEnds
<1>10. CASE saga.mode = "lateAuthorization" /\ saga.orderStatus = "NONE" /\ order = "PAID"
  <2>1. Charged
    BY <1>4, <1>10 DEF Ends
  <2>2. r = noop([[saga EXCEPT !.orderStatus = order] EXCEPT !.step = "COMPLETED"])
    BY <1>6, <1>10 DEF onLateAuthorizationContext
  <2>3. saga' = [[saga EXCEPT !.orderStatus = order] EXCEPT !.step = "COMPLETED"] /\ tasks' = tasks \ {t}
    BY <1>7, <2>2, NoopIs
  <2>4. /\ saga' \in SagaRecord /\ saga'.step = "COMPLETED" /\ saga'.orderStatus = "PAID"
        /\ saga'.pending = saga.pending /\ saga'.nextCommandId = saga.nextCommandId
    BY <1>3, <1>8, <1>10, <2>3 DEF SagaRecord
  <2>5. Charged'
    <3>1. \A u \in tasks' : Verifying(u) \/ u = PaidTask \/ (u = LoadTask /\ order = "PAID")
      BY <2>1, <2>3 DEF Charged
    <3> QED
      BY <1>0, <1>3, <1>7, <1>10, <2>1, <2>4, <3>1 DEF Charged, Verifying
  <2>6. Ids'
    BY <2>3, <2>4, IdsRest DEF SagaInv, Ids
  <2>7. cancel' # "accepted"
    BY <1>0, <1>10 DEF SagaInv, Cancels
  <2> QED
    BY <1>0, <1>1, <1>3, <1>7, <2>3, <2>4, <2>5, <2>6, <2>7, UnderwayStepKeeps DEF Phase, SagaTypes, PayKinds
<1>11. CASE saga.mode = "lateAuthorization" /\ saga.orderStatus = "NONE" /\ order # "PAID"
  <2> DEFINE s == [saga EXCEPT !.orderStatus = order]
  <2>1. PICK X \in Ends : Doomed(X) /\ order = X
    BY <1>4, <1>11
  <2>2. r = compensate(s, "NONE", <<"CANCEL_PAYMENT">>)
    BY <1>6, <1>11 DEF onLateAuthorizationContext
  <2>3. /\ s \in SagaRecord /\ s.mode = saga.mode /\ s.orderStatus = X
        /\ s.pending = saga.pending /\ s.nextCommandId = saga.nextCommandId
    BY <1>3, <1>8, <2>1 DEF SagaRecord
  <2>4. PICK gone : gone = {t}
    OBVIOUS
  <2> HIDE DEF s
  <2>5. /\ saga' = compensate(s, "NONE", <<"CANCEL_PAYMENT">>).state
        /\ tasks' = (tasks \ gone) \union compensate(s, "NONE", <<"CANCEL_PAYMENT">>).commands
    BY <1>7, <2>2, <2>4
  <2>6. PICK z \in SagaRecord : z = s
    BY <2>3
  <2> QED
    BY <1>0, <1>3, <1>4, <1>7, <2>1, <2>3, <2>4, <2>5, <2>6, OneMoreCancel
<1> QED
  BY <1>9, <1>10, <1>11

(* verifyAuthorization: the verdict is read from payment-service. *)
LEMMA VerifyAuthorizationKeeps ==
  ASSUME SagaInv, verifyAuthorization
  PROVE  SagaInv'
<1> DEFINE verdict(t) == IF Pay!statusOf.header # "AUTHORIZED" THEN "NOT_AUTHORIZED"
                         ELSE IF Pay!statusOf.authorized = t.id THEN "VERIFIED" ELSE "PAYMENT_MISMATCH"
<1>1. PICK t \in tasks :
        /\ t.kind = "VERIFY_AUTHORIZATION" /\ t.arg = ""
        /\ tasks' = (tasks \ {t}) \cup {[t EXCEPT !.arg = verdict(t)]}
  BY DEF verifyAuthorization
<1>2. /\ UNCHANGED run /\ UNCHANGED saga /\ UNCHANGED order /\ UNCHANGED announced /\ UNCHANGED stock /\ UNCHANGED try
      /\ UNCHANGED cancel /\ UNCHANGED sent /\ UNCHANGED caller /\ UNCHANGED payVars
  BY DEF verifyAuthorization, orderRow
<1>3. run = "running" /\ SagaTypes /\ saga \in SagaRecord /\ t \in TaskRecord
  BY <1>1, TasksRun DEF SagaTypes
<1>4. verdict(t) = "VERIFIED" => authorizedAt
  <2>1. verdict(t) = "VERIFIED" => header = "AUTHORIZED"
    BY DEF Pay!statusOf
  <2> QED
    BY <2>1 DEF SagaInv, MoneyInv, PP!PaymentInv, PP!DataInv, PP!HeaderFits
<1>5. PICK v : v = verdict(t)
  OBVIOUS
<1>6. v \in {"NOT_AUTHORIZED", "VERIFIED", "PAYMENT_MISMATCH"} /\ (v = "VERIFIED" => authorizedAt)
  BY <1>4, <1>5
<1>7. PICK u : u = [t EXCEPT !.arg = v]
  OBVIOUS
<1>8. tasks' = (tasks \ {t}) \union {u}
  BY <1>1, <1>5, <1>7
<1>9. u \in TaskRecord /\ u.kind = "VERIFY_AUTHORIZATION" /\ u.then = t.then /\ u.arg = v
  BY <1>1, <1>3, <1>6, <1>7 DEF TaskRecord, TaskArgs
<1>10. Underway /\ Light(t) /\ Verifying(u)
  BY <1>1, <1>9, PhaseOfTask DEF SagaInv, Underway, Light, Verifying
<1>11. Phase'
  BY <1>2, <1>8, <1>10, UnderwayStays
<1>12. Ids'
  BY <1>2, <1>8, <1>9, <1>10, IdsRest DEF SagaInv, Ids, Comp, CompKinds, Verifying
<1>13. saga'.orderStatus = "CANCELLED" \/ cancel' # "accepted"
  BY <1>2 DEF SagaInv, Cancels
<1> QED
  BY <1>1, <1>2, <1>3, <1>6, <1>8, <1>9, <1>11, <1>12, <1>13, UnderwayStepKeeps DEF SagaTypes, PayKinds

(* authorizationVerified: the verdict is taken, and a true one commits the saga to the order. *)
LEMMA AuthorizationVerifiedKeeps ==
  ASSUME SagaInv, authorizationVerified
  PROVE  SagaInv'
<1>1. PICK t \in tasks : t.kind = "VERIFY_AUTHORIZATION" /\ t.arg # "" /\ apply(t, onAuthorizationVerified(saga, t.id, t.arg))
  BY DEF authorizationVerified
<1>2. UNCHANGED <<orderRow, stock, try, cancel, caller, payVars>>
  BY DEF authorizationVerified
<1>0. /\ UNCHANGED order /\ UNCHANGED announced /\ UNCHANGED stock /\ UNCHANGED try /\ UNCHANGED cancel
      /\ UNCHANGED caller /\ UNCHANGED payVars /\ UNCHANGED answered /\ UNCHANGED authorizedAt
  BY <1>2, PayRests DEF orderRow
<1>3. run = "running" /\ SagaTypes /\ saga \in SagaRecord
  BY <1>1, TasksRun DEF SagaTypes
<1>4. Light(t) /\ Underway
  BY <1>1, PhaseOfTask DEF SagaInv, Light, Underway
<1>5. PICK r : r = onAuthorizationVerified(saga, t.id, t.arg)
  OBVIOUS
<1>6. saga' = r.state /\ run' = run /\ tasks' = (tasks \ {t}) \union r.commands /\ sent' = sent \union {t.kind}
  BY <1>1, <1>3, <1>5, AppliedTask
<1> DEFINE settled == [saga EXCEPT !.verifying = @ \ {t.id}]
<1>7. /\ settled \in SagaRecord /\ settled.mode = saga.mode /\ settled.step = saga.step
      /\ settled.orderStatus = saga.orderStatus /\ settled.pending = saga.pending
      /\ settled.nextCommandId = saga.nextCommandId
  <2>1. saga.verifying \ {t.id} \in SUBSET Nat
    BY <1>3 DEF SagaRecord
  <2> QED
    BY <1>3, <2>1 DEF SagaRecord
<1>8. CASE saga.step # "AWAITING_AUTH"
  <2>1. r = noop(saga)
    BY <1>5, <1>8 DEF onAuthorizationVerified
  <2>2. saga' = saga /\ tasks' = tasks \ {t}
    BY <1>6, <2>1, NoopIs
  <2> QED
    BY <1>2, <1>3, <1>4, <1>6, <2>2, LightTaskEnds
<1>9. CASE saga.step = "AWAITING_AUTH" /\ t.arg # "VERIFIED"
  <2>1. r = noop(settled)
    BY <1>5, <1>9 DEF onAuthorizationVerified
  <2> HIDE DEF settled
  <2>2. saga' = settled /\ tasks' = tasks \ {t}
    BY <1>6, <2>1, NoopIs
  <2> QED
    BY <1>2, <1>3, <1>4, <1>6, <1>7, <2>2, LightTaskEnds
<1>10. CASE saga.step = "AWAITING_AUTH" /\ t.arg = "VERIFIED"
  <2>1. r = To([settled EXCEPT !.step = "COMMITTING_STOCK", !.orderStatus = "CONFIRMING"], {ConfirmTask})
    BY <1>5, <1>10 DEF onAuthorizationVerified, ConfirmTask, CommitTask
  <2>2. saga' = [settled EXCEPT !.step = "COMMITTING_STOCK", !.orderStatus = "CONFIRMING"] /\ tasks' = (tasks \ {t}) \union {ConfirmTask}
    BY <1>6, <2>1 DEF To
  <2>3. Awaiting
    BY <1>4, <1>10, UnderwayIs
  <2>4. authorizedAt
    BY <1>1, <1>10 DEF SagaInv, Verdicts
  <2> HIDE DEF settled
  <2>5. /\ saga' \in SagaRecord /\ saga'.mode = "checkout" /\ saga'.step = "COMMITTING_STOCK" /\ saga'.orderStatus = "CONFIRMING"
        /\ saga'.pending = {}
    BY <1>7, <2>2, <2>3 DEF SagaRecord, SagaTargets, Awaiting, Placed
  <2>6. /\ run = "running" /\ \A u \in tasks : Verifying(u)
        /\ sent \subseteq Quiet /\ order = "PENDING" /\ stock \in {"HELD", "RELEASED"}
    BY <2>3 DEF Awaiting, Placed
  <2>7. Confirming'
    BY <1>0, <1>1, <1>6, <2>2, <2>4, <2>5, <2>6 DEF Confirming, Placed, Verifying, Quiet
  <2>8. Ids'
    <3>1. PICK b : b = ConfirmTask
      OBVIOUS
    <3>2. ~Comp(b) /\ \A u \in b.then : ~Comp(u)
      BY <3>1, TaskKindsAre DEF Comp, CompKinds
    <3>3. \A u \in tasks' : u = b \/ (~Comp(u) /\ u.then = {})
      BY <2>2, <2>6, <3>1 DEF Comp, CompKinds, Verifying
    <3> QED
      BY <2>5, <3>2, <3>3, IdsBatch
  <2>9. cancel' # "accepted"
    BY <1>0, <2>3 DEF SagaInv, Cancels, Awaiting
  <2>10. ConfirmTask \in TaskRecord
    <3>1. CommitTask \in LeafTask
      BY DEF CommitTask, Task, LeafTask, TaskKinds, TaskArgs
    <3> HIDE DEF CommitTask
    <3>2. ConfirmTask = [kind |-> "CHANGE_ORDER", id |-> 0, arg |-> "CONFIRMING", then |-> {CommitTask}]
      BY DEF ConfirmTask, changeOrder, Task
    <3> QED
      BY <3>1, <3>2 DEF TaskRecord, TaskKinds, TaskArgs, SagaTargets
  <2> QED
    BY <1>0, <1>1, <1>3, <1>6, <2>2, <2>5, <2>7, <2>8, <2>9, <2>10, TaskKindsAre, UnderwayStepKeeps DEF Phase,
       SagaTypes, PayKinds
<1> QED
  BY <1>8, <1>9, <1>10

-----------------------------------------------------------------------------
(* The order dies *)

LEMMA ChangeTyped ==
  ASSUME NEW X \in SagaTargets, NEW S \in SUBSET LeafTask, NEW b, b = changeOrder(X, S)
  PROVE  b \in TaskRecord /\ b.kind = "CHANGE_ORDER" /\ b.arg = X /\ b.then = S
<1>1. b = [kind |-> "CHANGE_ORDER", id |-> 0, arg |-> X, then |-> S]
  BY DEF changeOrder, Task
<1>2. X \in TaskArgs /\ "CHANGE_ORDER" \in TaskKinds
  BY DEF TaskArgs, TaskKinds
<1>3. b \in TaskRecord
  BY <1>1, <1>2 DEF TaskRecord
<1> QED
  BY <1>1, <1>3

(* The saga gives up: the order's change is scheduled, and the compensations wait in it. *)
Dooms(X, b, S) ==
  /\ b = changeOrder(X, S) /\ S \subseteq LeafTask
  /\ \A u \in S : u.kind \in CompKinds
  /\ \E u \in S : u.kind = "CANCEL_PAYMENT"

LEMMA DoomOwes ==
  ASSUME NEW X \in Ends, NEW b, NEW S, Dooms(X, b, S), b \in tasks', \A u \in tasks' : Verifying(u) \/ u = b,
         NEW K, K \in CompKinds \union {"COMMIT_STOCK", "CAPTURE_PAYMENT"}
  PROVE  /\ Owes(K)' <=> \E u \in S : u.kind = K
         /\ K \notin sent' /\ ~(\E u \in S : u.kind = K) => Never(K)'
<1>1. X \in SagaTargets /\ S \in SUBSET LeafTask /\ b = changeOrder(X, S)
  BY DEF Ends, SagaTargets, Dooms
<1>2. b.kind = "CHANGE_ORDER" /\ b.then = S
  BY <1>1, ChangeTyped
<1>3. Owes(K)' <=> \E u \in S : u.kind = K
  BY <1>2 DEF Owes, Verifying, CompKinds
<1> QED
  BY <1>3 DEF Never

(* The order is doomed from then on. *)
LEMMA DoomBegins ==
  ASSUME NEW X \in Ends, NEW b, NEW S, Dooms(X, b, S), b \in tasks', \A u \in tasks' : Verifying(u) \/ u = b,
         run' = "running", saga'.mode = "checkout", saga'.step = "COMPENSATING", saga'.orderStatus = X,
         order' = From(X), sent' \intersect SagaTargets \subseteq {"CONFIRMING"}, "CONFIRMING" \in sent' => X = "FAILED",
         NeverCommitted(X)' \/ CommitRefused(X)' \/ CaptureRefused(X)'
  PROVE  Phase' /\ b \in TaskRecord /\ b.kind = "CHANGE_ORDER"
<1>1. X \in SagaTargets /\ S \in SUBSET LeafTask /\ b = changeOrder(X, S) /\ X # "CONFIRMING"
  BY DEF Ends, SagaTargets, Dooms
<1>2. b \in TaskRecord /\ b.kind = "CHANGE_ORDER" /\ b.arg = X /\ b.then = S
  BY <1>1, ChangeTyped
<1>3. \A u \in S : u.kind \in CompKinds /\ u.then = {}
  BY DEF Dooms, LeafTask
<1>4. \A u \in tasks' : DoomedTask(X, u)'
  BY <1>2, <1>3 DEF DoomedTask, Verifying, Dooms
<1>5. Owes("CANCEL_PAYMENT")'
  BY <1>2 DEF Owes, Dooms
<1>6. X \notin sent'
  BY <1>1
<1>7. Doomed(X)'
  BY <1>2, <1>4, <1>5, <1>6 DEF Doomed, Ending, From
<1> QED
  BY <1>2, <1>7 DEF Phase

(* Given up before the commit, by the deadline or by the buyer. *)
LEMMA AwaitingEnds ==
  ASSUME SagaInv, Awaiting, NEW X \in {"EXPIRED", "CANCELLED"}, UNCHANGED <<orderRow, stock, try, caller, payVars>>,
         cancel' = cancel \/ (cancel' = "accepted" /\ cancel = "asked" /\ X = "CANCELLED"),
         apply(NoTask, compensate(saga, X, <<"RELEASE_STOCK", "CANCEL_PAYMENT">>))
  PROVE  SagaInv'
<1>0. /\ UNCHANGED order /\ UNCHANGED announced /\ UNCHANGED stock /\ UNCHANGED try
      /\ UNCHANGED caller /\ UNCHANGED payVars /\ SagaTypes /\ saga \in SagaRecord
  BY DEF orderRow, SagaInv, SagaTypes
<1>1. PICK first \in SagaTargets, k1 \in CompKinds, k2 \in CompKinds : first = X /\ k1 = "RELEASE_STOCK" /\ k2 = "CANCEL_PAYMENT"
  BY DEF CompKinds, SagaTargets
<1>2. PICK kinds : kinds = <<k1, k2>>
  OBVIOUS
<1>3. Pair(kinds, k1, k2)
  BY <1>2, PairIs
<1>4. PICK r : r = compensate(saga, first, kinds)
  OBVIOUS
<1>5. PICK s \in SagaRecord : s = saga
  BY <1>0
<1>6. PICK t : t = Task(k1, s.nextCommandId, "", {})
  OBVIOUS
<1>7. PICK u : u = Task(k2, s.nextCommandId + 1, "", {})
  OBVIOUS
<1>8. TwoOwed(s, first, r, t, u)
  <2>1. r = compensate(s, first, kinds)
    BY <1>4, <1>5
  <2> QED
    BY <1>3, <1>6, <1>7, <2>1, CompensateTwo, Zenon
<1>9. apply(NoTask, r)
  BY <1>1, <1>2, <1>4
<1>10. saga' = r.state /\ run' = run /\ tasks' = tasks \union r.commands /\ sent' = sent
  <2>1. PICK f \in tasks \union {NoTask} : f = NoTask
    OBVIOUS
  <2>2. apply(f, r)
    BY <1>9, <2>1
  <2> QED
    BY <1>0, <2>1, <2>2, Applied
<1>11. PICK n \in Nat : n = s.nextCommandId
  BY DEF SagaRecord
<1>12. n + 1 \in Nat /\ n # n + 1 /\ n < n + 2 /\ n + 1 < n + 2
  BY <1>11
<1>13. /\ t \in LeafTask /\ t.kind = "RELEASE_STOCK" /\ t.id = n /\ u \in LeafTask /\ u.kind = "CANCEL_PAYMENT" /\ u.id = n + 1
  BY <1>1, <1>6, <1>7, <1>11, <1>12 DEF Task, LeafTask, TaskKinds, TaskArgs, CompKinds
<1>14. /\ run = "running" /\ saga.mode = "checkout" /\ saga.pending = {} /\ saga.orderStatus = "PENDING"
       /\ \A v \in tasks : Verifying(v)
       /\ sent \subseteq Quiet /\ order = "PENDING" /\ stock \in {"HELD", "RELEASED"}
  BY DEF Awaiting, Placed
<1>15. PICK S : S = {t, u}
  OBVIOUS
<1>16. PICK b : b = changeOrder(X, S)
  OBVIOUS
<1>17. /\ saga' \in SagaRecord /\ saga'.mode = "checkout" /\ saga'.step = "COMPENSATING" /\ saga'.orderStatus = X
       /\ saga'.pending = {n, n + 1} /\ saga'.nextCommandId = n + 2 /\ tasks' = tasks \union {b}
  BY <1>1, <1>5, <1>8, <1>10, <1>11, <1>14, <1>15, <1>16 DEF TwoOwed
<1>18. Dooms(X, b, S) /\ X \in Ends
  BY <1>13, <1>15, <1>16 DEF Dooms, CompKinds, Ends
<1>19. b \in tasks' /\ \A v \in tasks' : Verifying(v) \/ v = b
  BY <1>14, <1>17
<1>20. NeverCommitted(X)'
  <2>1. \A K \in CompKinds \union {"COMMIT_STOCK", "CAPTURE_PAYMENT"} :
          /\ Owes(K)' <=> \E v \in S : v.kind = K
          /\ K \notin sent' /\ ~(\E v \in S : v.kind = K) => Never(K)'
    BY <1>18, <1>19, DoomOwes
  <2>2. Owes("RELEASE_STOCK")'
    BY <1>13, <1>15, <2>1 DEF CompKinds
  <2>3. \A K \in {"COMMIT_STOCK", "CAPTURE_PAYMENT", "RESTOCK"} : K \notin sent' /\ ~(\E v \in S : v.kind = K)
    BY <1>10, <1>13, <1>14, <1>15 DEF Quiet
  <2>4. Never("COMMIT_STOCK")' /\ Never("CAPTURE_PAYMENT")' /\ Never("RESTOCK")'
    BY <2>1, <2>3 DEF CompKinds
  <2> QED
    BY <1>0, <1>14, <2>2, <2>4 DEF NeverCommitted
<1>21. Phase' /\ b \in TaskRecord /\ b.kind = "CHANGE_ORDER"
  <2>1. sent' \intersect SagaTargets = {}
    BY <1>10, <1>14 DEF Quiet, SagaTargets
  <2>2. "CONFIRMING" \notin sent'
    BY <1>10, <1>14 DEF Quiet
  <2>3. order' = From(X) /\ run' = "running"
    BY <1>0, <1>10, <1>14 DEF From
  <2> QED
    BY <1>17, <1>18, <1>19, <1>20, <2>1, <2>2, <2>3, DoomBegins
<1>22. Ids'
  <2>1. ~Comp(b) /\ b.then = S
    <3>1. S \in SUBSET LeafTask /\ X \in SagaTargets
      BY <1>18 DEF Dooms, Ends, SagaTargets
    <3> QED
      BY <1>16, <1>21, <3>1, ChangeTyped DEF Comp, CompKinds
  <2>2. \A v \in tasks' : v = b \/ (~Comp(v) /\ v.then = {})
    BY <1>19 DEF Verifying, Comp, CompKinds
  <2>3. \A v \in b.then : v.id \in saga'.pending
    BY <1>13, <1>15, <1>17, <2>1
  <2>4. \A v, w \in b.then : v.id = w.id => v = w
    BY <1>12, <1>13, <1>15, <2>1
  <2>5. \A i \in saga'.pending : i < saga'.nextCommandId
    BY <1>12, <1>17
  <2> QED
    BY <1>17, <2>1, <2>2, <2>3, <2>4, <2>5, IdsBatch
<1>23. saga'.orderStatus = "CANCELLED" \/ cancel' # "accepted"
  BY <1>14, <1>17 DEF SagaInv, Cancels
<1> QED
  BY <1>0, <1>10, <1>14, <1>17, <1>21, <1>22, <1>23, UnderwayStepKeeps DEF SagaTypes

(* deadline: the time to pay is over. *)
LEMMA DeadlineKeeps ==
  ASSUME SagaInv, deadline
  PROVE  SagaInv'
<1>1. Awaiting
  BY PhaseOfStep DEF deadline, SagaInv
<1>2. apply(NoTask, compensate(saga, "EXPIRED", <<"RELEASE_STOCK", "CANCEL_PAYMENT">>))
  BY DEF deadline, onDeadline
<1>3. PICK X \in {"EXPIRED", "CANCELLED"} : X = "EXPIRED"
  OBVIOUS
<1>4. apply(NoTask, compensate(saga, X, <<"RELEASE_STOCK", "CANCEL_PAYMENT">>))
  BY <1>2, <1>3
<1>5. UNCHANGED <<orderRow, stock, try, caller, payVars>> /\ cancel' = cancel
  BY DEF deadline
<1> QED
  BY <1>1, <1>4, <1>5, AwaitingEnds

(* cancelUpdate: the buyer's cancel is accepted, refused, or answered from the row. *)
LEMMA CancelUpdateKeeps ==
  ASSUME SagaInv, cancelUpdate
  PROVE  SagaInv'
<1>0. cancel = "asked" /\ UNCHANGED <<orderRow, stock, try, caller, payVars>>
  BY DEF cancelUpdate
<1>01. /\ UNCHANGED order /\ UNCHANGED announced /\ UNCHANGED stock /\ UNCHANGED try
       /\ UNCHANGED caller /\ UNCHANGED payVars /\ UNCHANGED answered /\ SagaTypes
  BY <1>0, PayRests DEF orderRow, SagaInv
<1>1. CASE /\ run = "running" /\ canCancel(saga)
           /\ cancel' = "accepted"
           /\ apply(NoTask, onCancelRequested(saga))
  <2>1. CASE saga.step = "AWAITING_AUTH"
    <3>1. Awaiting
      BY <2>1, PhaseOfStep DEF SagaInv
    <3>2. apply(NoTask, compensate(saga, "CANCELLED", <<"RELEASE_STOCK", "CANCEL_PAYMENT">>))
      BY <1>1, <2>1 DEF onCancelRequested
    <3>3. PICK X \in {"EXPIRED", "CANCELLED"} : X = "CANCELLED"
      OBVIOUS
    <3>4. apply(NoTask, compensate(saga, X, <<"RELEASE_STOCK", "CANCEL_PAYMENT">>))
      BY <3>2, <3>3
    <3> QED
      BY <1>0, <1>1, <3>1, <3>3, <3>4, AwaitingEnds
  <2>2. CASE saga.step # "AWAITING_AUTH"
    <3>1. saga.orderStatus = "CANCELLED"
      BY <1>1, <2>2 DEF canCancel
    <3>2. PICK r : r = noop(saga)
      OBVIOUS
    <3>3. apply(NoTask, r)
      BY <1>1, <2>2, <3>2 DEF onCancelRequested
    <3>4. PICK f \in tasks \union {NoTask} : f = NoTask
      OBVIOUS
    <3>5. apply(f, r)
      BY <3>3, <3>4
    <3>6. saga' = r.state /\ run' = run /\ tasks' = tasks \union r.commands /\ sent' = sent
      BY <1>01, <3>4, <3>5, Applied
    <3>7. saga' = saga /\ tasks' = tasks
      BY <3>2, <3>6, NoopIs
    <3>8. Cancels'
      BY <1>01, <1>1, <3>1, <3>6, <3>7 DEF Cancels
    <3> QED
      BY <1>01, <3>6, <3>7, <3>8, CancelOnlyKeeps
  <2> QED
    BY <2>1, <2>2
<1>2. CASE /\ run = "closed" \/ ~canCancel(saga)
           /\ cancel' = IF run = "closed" /\ order = "CANCELLED" THEN "confirmed" ELSE "refused"
           /\ UNCHANGED <<sagaVars, sent>>
  <2>1. UNCHANGED run /\ UNCHANGED saga /\ UNCHANGED tasks /\ UNCHANGED sent
    BY <1>2 DEF sagaVars
  <2>2. Cancels'
    BY <1>01, <1>2, <2>1, ClosedHoldsNothing DEF Cancels
  <2> QED
    BY <1>01, <2>1, <2>2, CancelOnlyKeeps
<1> QED
  BY <1>1, <1>2 DEF cancelUpdate

-----------------------------------------------------------------------------
(* The commit *)

CommittingIs ==
  /\ run = "running" /\ saga.mode = "checkout" /\ saga.pending = {} /\ saga.step = "COMMITTING_STOCK"
  /\ saga.orderStatus = "CONFIRMING" /\ authorizedAt /\ \A u \in tasks : Verifying(u) \/ u = CommitTask
  /\ sent \subseteq Quiet \union {"CONFIRMING"} /\ order = "CONFIRMING"
  /\ stock \in {"HELD", "RELEASED", "COMMITTED"}

(* The commit succeeds. *)
LEMMA CommitHeld ==
  ASSUME SagaInv, CommittingIs, UNCHANGED <<orderRow, try, cancel, caller, payVars>>,
         stock' = "COMMITTED", StockMove, run' = run, sent' = sent \union {"COMMIT_STOCK"},
         saga' = [saga EXCEPT !.step = "CAPTURING"], tasks' = (tasks \ {CommitTask}) \union {CaptureTask}
  PROVE  SagaInv'
<1>0. /\ UNCHANGED order /\ UNCHANGED announced /\ UNCHANGED try /\ UNCHANGED cancel /\ UNCHANGED answered
      /\ UNCHANGED caller /\ UNCHANGED payVars /\ SagaTypes /\ saga \in SagaRecord /\ UNCHANGED authorizedAt
  BY PayRests DEF orderRow, SagaInv, SagaTypes
<1>1. /\ saga' \in SagaRecord /\ saga'.mode = "checkout" /\ saga'.step = "CAPTURING" /\ saga'.orderStatus = "CONFIRMING"
      /\ saga'.pending = {}
  BY <1>0 DEF CommittingIs, SagaRecord
<1>2. Capturing'
  BY <1>0, <1>1 DEF CommittingIs, Capturing, Placed, Verifying
<1>3. Ids'
  <2>1. PICK b : b = CaptureTask
    OBVIOUS
  <2>2. ~Comp(b) /\ b.then = {}
    BY <2>1, TaskKindsAre DEF Comp, CompKinds
  <2>3. \A u \in tasks' : u = b \/ (~Comp(u) /\ u.then = {})
    BY <2>1 DEF Comp, CompKinds, Verifying, CommittingIs
  <2> QED
    BY <1>1, <2>2, <2>3, IdsBatch
<1>4. CaptureTask \in TaskRecord
  BY DEF CaptureTask, Task, TaskRecord, TaskKinds, TaskArgs
<1>5. HeldStays' /\ ClosedIdle' /\ OrderToldOnce' /\ Cancels'
  BY <1>0, HeldStaysOn DEF SagaInv, ClosedIdle, OrderToldOnce, Cancels, CommittingIs
<1> QED
  BY <1>0, <1>1, <1>2, <1>3, <1>4, <1>5, TaskKindsAre, SagaStepKeeps DEF Phase, SagaTypes, SagaInv, PayKinds

(* The commit is refused, since the hold had lapsed: the order fails and its payment is cancelled. *)
LEMMA CommitRefusedKeeps ==
  ASSUME SagaInv, CommittingIs, UNCHANGED <<orderRow, stock, try, cancel, caller, payVars>>,
         stock = "RELEASED", run' = run, sent' = sent \union {"COMMIT_STOCK"},
         NEW r, r = compensate(saga, "FAILED", <<"CANCEL_PAYMENT">>),
         saga' = r.state, tasks' = (tasks \ {CommitTask}) \union r.commands
  PROVE  SagaInv'
<1>0. /\ UNCHANGED order /\ UNCHANGED announced /\ UNCHANGED stock /\ UNCHANGED try /\ UNCHANGED cancel
      /\ UNCHANGED caller /\ UNCHANGED payVars /\ SagaTypes /\ saga \in SagaRecord
  BY DEF orderRow, SagaInv, SagaTypes
<1>1. PICK first \in {"NONE"} \union SagaTargets, k \in CompKinds : first = "FAILED" /\ k = "CANCEL_PAYMENT"
  BY DEF CompKinds, SagaTargets
<1>2. PICK kinds : kinds = <<k>>
  OBVIOUS
<1>3. Single(kinds, k)
  BY <1>2, SingleIs
<1>5. PICK s \in SagaRecord : s = saga
  BY <1>0
<1>6. PICK t : t = Task(k, s.nextCommandId, "", {})
  OBVIOUS
<1>8. OneOwed(s, first, r, t)
  <2>1. r = compensate(s, first, kinds)
    BY <1>1, <1>2, <1>5
  <2> QED
    BY <1>3, <1>6, <2>1, CompensateOne, Zenon
<1>11. PICK n \in Nat : n = s.nextCommandId
  BY DEF SagaRecord
<1>12. n < n + 1
  BY <1>11
<1>13. t \in LeafTask /\ t.kind = "CANCEL_PAYMENT" /\ t.id = n
  BY <1>1, <1>6, <1>11 DEF Task, LeafTask, TaskKinds, TaskArgs, CompKinds
<1>15. PICK S : S = {t}
  OBVIOUS
<1>151. PICK X \in Ends : X = "FAILED"
  BY DEF Ends
<1>16. PICK b : b = changeOrder(X, S)
  OBVIOUS
<1>17. /\ saga' \in SagaRecord /\ saga'.mode = "checkout" /\ saga'.step = "COMPENSATING" /\ saga'.orderStatus = "FAILED"
       /\ saga'.pending = {n} /\ saga'.nextCommandId = n + 1 /\ tasks' = (tasks \ {CommitTask}) \union {b}
  BY <1>1, <1>5, <1>8, <1>11, <1>15, <1>151, <1>16 DEF OneOwed, CommittingIs
<1>18. Dooms(X, b, S)
  BY <1>13, <1>15, <1>16 DEF Dooms, CompKinds
<1>19. b \in tasks' /\ \A v \in tasks' : Verifying(v) \/ v = b
  BY <1>17 DEF CommittingIs
<1>20. CommitRefused(X)'
  <2>1. \A K \in CompKinds \union {"COMMIT_STOCK", "CAPTURE_PAYMENT"} :
          /\ Owes(K)' <=> \E v \in S : v.kind = K
          /\ K \notin sent' /\ ~(\E v \in S : v.kind = K) => Never(K)'
    BY <1>18, <1>19, DoomOwes
  <2>2. \A K \in {"RELEASE_STOCK", "CAPTURE_PAYMENT", "RESTOCK"} : K \notin sent' /\ ~(\E v \in S : v.kind = K)
    BY <1>13, <1>15 DEF Quiet, CommittingIs
  <2>3. Never("RELEASE_STOCK")' /\ Never("CAPTURE_PAYMENT")' /\ Never("RESTOCK")'
    BY <2>1, <2>2 DEF CompKinds
  <2> QED
    BY <1>0, <1>151, <2>3 DEF CommitRefused
<1>21. Phase' /\ b \in TaskRecord /\ b.kind = "CHANGE_ORDER"
  <2>1. sent' \intersect SagaTargets \subseteq {"CONFIRMING"}
    BY DEF Quiet, SagaTargets, CommittingIs
  <2>3. order' = From(X) /\ run' = "running"
    BY <1>0, <1>151 DEF From, CommittingIs
  <2> QED
    BY <1>151, <1>17, <1>18, <1>19, <1>20, <2>1, <2>3, DoomBegins
<1>22. Ids'
  <2>1. ~Comp(b) /\ b.then = S
    <3>1. S \in SUBSET LeafTask /\ X \in SagaTargets
      BY <1>18 DEF Dooms, Ends, SagaTargets
    <3> QED
      BY <1>16, <1>21, <3>1, ChangeTyped DEF Comp, CompKinds
  <2>2. \A v \in tasks' : v = b \/ (~Comp(v) /\ v.then = {})
    BY <1>19 DEF Verifying, Comp, CompKinds
  <2>3. \A v \in b.then : v.id \in saga'.pending
    BY <1>13, <1>15, <1>17, <2>1
  <2>4. \A v, w \in b.then : v.id = w.id => v = w
    BY <1>15, <2>1
  <2>5. \A i \in saga'.pending : i < saga'.nextCommandId
    BY <1>12, <1>17
  <2> QED
    BY <1>17, <2>1, <2>2, <2>3, <2>4, <2>5, IdsBatch
<1>23. saga'.orderStatus = "CANCELLED" \/ cancel' # "accepted"
  BY <1>0 DEF SagaInv, Cancels, CommittingIs
<1>24. run = "running"
  BY DEF CommittingIs
<1>25. \A u \in tasks : u.kind \in PayKinds => u \in tasks'
  BY <1>17, TaskKindsAre DEF PayKinds
<1> QED
  BY <1>0, <1>17, <1>21, <1>22, <1>23, <1>24, <1>25, UnderwayStepKeeps DEF SagaTypes

(* commitStock: the answer of the commit is taken. *)
LEMMA CommitStockKeeps ==
  ASSUME SagaInv, commitStock
  PROVE  SagaInv'
<1>1. PICK t \in tasks :
        /\ t.kind = "COMMIT_STOCK"
        /\ runStockCommand("commit")
        /\ apply(t, onCommitResult(saga, IF StockConflict("commit") THEN "CONFLICT" ELSE "APPLIED"))
  BY DEF commitStock
<1>2. UNCHANGED <<orderRow, try, cancel, caller, payVars>>
  BY DEF commitStock
<1>3. Committing /\ t = CommitTask /\ SagaTypes
  BY <1>1, PhaseOfTask DEF SagaInv
<1>4. CommittingIs
  BY <1>3 DEF Committing, CommittingIs, Placed
<1>5. /\ stock' = IF stock = "HELD" THEN "COMMITTED" ELSE stock
      /\ StockConflict("commit") <=> stock \notin {"HELD", "COMMITTED"}
  BY <1>1, StockMoves
<1>6. StockMove
  BY <1>1, <1>5 DEF StockMove, Asked
<1>7. PICK r : r = onCommitResult(saga, IF StockConflict("commit") THEN "CONFLICT" ELSE "APPLIED")
  OBVIOUS
<1>8. saga' = r.state /\ run' = run /\ tasks' = (tasks \ {t}) \union r.commands /\ sent' = sent \union {"COMMIT_STOCK"}
  BY <1>1, <1>3, <1>7, AppliedTask
<1>9. CASE StockConflict("commit")
  <2>1. stock = "RELEASED" /\ stock' = stock
    BY <1>4, <1>5, <1>9 DEF CommittingIs
  <2>2. r = compensate(saga, "FAILED", <<"CANCEL_PAYMENT">>)
    BY <1>4, <1>7, <1>9 DEF onCommitResult, CommittingIs
  <2>3. UNCHANGED <<orderRow, stock, try, cancel, caller, payVars>>
    BY <1>2, <2>1
  <2> QED
    BY <1>3, <1>4, <1>8, <2>1, <2>2, <2>3, CommitRefusedKeeps
<1>10. CASE ~StockConflict("commit")
  <2>1. stock' = "COMMITTED"
    BY <1>5, <1>10
  <2>2. r = To([saga EXCEPT !.step = "CAPTURING"], {CaptureTask})
    BY <1>4, <1>7, <1>10 DEF onCommitResult, CommittingIs, CaptureTask
  <2>3. saga' = [saga EXCEPT !.step = "CAPTURING"] /\ tasks' = (tasks \ {CommitTask}) \union {CaptureTask}
    BY <1>3, <1>8, <2>2 DEF To
  <2> QED
    BY <1>2, <1>4, <1>6, <1>8, <2>1, <2>3, CommitHeld
<1> QED
  BY <1>9, <1>10

-----------------------------------------------------------------------------
(* A compensation is done *)

(* What the saga makes of a compensation that is done. *)
LEMMA CompensationDone ==
  ASSUME SagaInv, Ending, NEW t \in tasks, Comp(t), NEW r, r = onCompensationDone(saga, t.id), saga' = r.state
  PROVE  /\ r.commands = {}
         /\ saga' \in SagaRecord /\ saga'.mode = saga.mode /\ saga'.orderStatus = saga.orderStatus
         /\ saga'.pending = saga.pending \ {t.id} /\ saga'.nextCommandId = saga.nextCommandId
         /\ saga'.step \in {"COMPENSATING", "COMPENSATED"}
         /\ saga'.step = "COMPENSATED" => saga'.pending = {}
<1>1. saga \in SagaRecord /\ t.id \in saga.pending /\ saga.step \in {"COMPENSATING", "COMPENSATED"}
      /\ (saga.step = "COMPENSATED" => saga.pending = {})
  BY DEF SagaInv, SagaTypes, Ids, Ending
<1>2. PICK left : left = saga.pending \ {t.id}
  OBVIOUS
<1>3. left \in SUBSET Nat
  BY <1>1, <1>2 DEF SagaRecord
<1>4. PICK step : step = IF left = {} THEN "COMPENSATED" ELSE saga.step
  OBVIOUS
<1>5. r = noop([saga EXCEPT !.pending = left, !.step = step])
  BY <1>1, <1>2, <1>4 DEF onCompensationDone, SagaRecord
<1>6. saga' = [saga EXCEPT !.pending = left, !.step = step] /\ r.commands = {}
  BY <1>5, NoopIs
<1>7. step \in {"COMPENSATING", "COMPENSATED"} /\ (step = "COMPENSATED" => left = {})
  BY <1>1, <1>4
<1> QED
  BY <1>1, <1>2, <1>3, <1>6, <1>7 DEF SagaRecord

(* Nothing else that is owed is forgotten by it. *)
LEMMA CompOwes ==
  ASSUME Phase, NEW t \in tasks, Comp(t), tasks' = tasks \ {t}, sent' = sent \union {t.kind}, NEW K, K # t.kind
  PROVE  (Owes(K)' <=> Owes(K)) /\ (Never(K)' <=> Never(K))
<1>1. t.then = {}
  BY PhaseOfTask DEF Comp
<1>2. Owes(K)' <=> Owes(K)
  BY <1>1 DEF Owes
<1> QED
  BY <1>2 DEF Never

LEMMA CompensationEnds ==
  ASSUME NEW X \in Ends, Doomed(X), NEW t \in tasks, Comp(t), tasks' = tasks \ {t}, sent' = sent \union {t.kind},
         UNCHANGED <<run, order>>, saga'.mode = saga.mode, saga'.orderStatus = saga.orderStatus,
         saga'.step \in {"COMPENSATING", "COMPENSATED"},
         ("CANCELLED" \in answered \/ Owes("CANCEL_PAYMENT"))',
         NeverCommitted(X)' \/ CommitRefused(X)' \/ CaptureRefused(X)'
  PROVE  Phase'
<1>0. UNCHANGED run /\ UNCHANGED order
  OBVIOUS
<1>1. \A u \in tasks' : DoomedTask(X, u)'
  BY <1>0 DEF Doomed, DoomedTask, Verifying
<1>2. (X \in sent' => X \in sent) /\ ("CONFIRMING" \in sent' => "CONFIRMING" \in sent)
      /\ sent' \intersect SagaTargets \subseteq sent \intersect SagaTargets
  BY DEF Ends, SagaTargets, Comp, CompKinds
<1>3. (\E u \in tasks : u.kind = "CHANGE_ORDER") => \E u \in tasks' : u.kind = "CHANGE_ORDER"
  BY DEF Comp, CompKinds
<1>4. Doomed(X)'
  BY <1>0, <1>1, <1>2, <1>3 DEF Doomed, Ending, From
<1> QED
  BY <1>4 DEF Phase

(* releaseOrRestock: the stock is given back, or a conflict has the task run again. *)
LEMMA ReleaseOrRestockKeeps ==
  ASSUME SagaInv, releaseOrRestock
  PROVE  SagaInv'
<1>1. PICK t \in tasks :
        /\ t.kind \in {"RELEASE_STOCK", "RESTOCK"}
        /\ runStockCommand(StockOp(t.kind))
        /\ IF StockConflict(StockOp(t.kind))
           THEN UNCHANGED <<sagaVars, sent>>
           ELSE apply(t, onCompensationDone(saga, t.id))
  BY DEF releaseOrRestock
<1>2. /\ UNCHANGED order /\ UNCHANGED announced /\ UNCHANGED try /\ UNCHANGED cancel
      /\ UNCHANGED caller /\ UNCHANGED payVars /\ UNCHANGED answered /\ UNCHANGED authorizedAt
      /\ PP!NothingLive' = PP!NothingLive
  BY PayRests DEF releaseOrRestock, orderRow
<1>3. StockMove
  BY <1>1, StockCommandMoves DEF Asked, StockKinds
<1>4. HeldStays' /\ try' \in TryAnswers
  BY <1>2, <1>3, HeldStaysOn DEF SagaInv, SagaTypes
<1>5. CASE StockConflict(StockOp(t.kind))
  <2>1. UNCHANGED run /\ UNCHANGED saga /\ UNCHANGED tasks /\ UNCHANGED sent
    BY <1>1, <1>5 DEF sagaVars
  <2> QED
    BY <1>2, <1>3, <1>4, <2>1, StockStepKeeps
<1>6. CASE ~StockConflict(StockOp(t.kind))
  <2>1. run = "running" /\ SagaTypes /\ Comp(t) /\ t.then = {} /\ Phase /\ Ids
    BY <1>1, TasksRun, PhaseOfTask DEF SagaInv, Comp, CompKinds
  <2>2. PICK r : r = onCompensationDone(saga, t.id)
    OBVIOUS
  <2>3. apply(t, r)
    BY <1>1, <1>6, <2>2
  <2>4. saga' = r.state /\ run' = run /\ tasks' = (tasks \ {t}) \union r.commands /\ sent' = sent \union {t.kind}
    BY <2>1, <2>3, AppliedTask
  <2>5. Rejected \/ \E X \in Ends : Doomed(X)
    BY <1>1, PhaseOfTask DEF SagaInv
  <2>6. Ending
    BY <2>5 DEF Rejected, Doomed
  <2>7. /\ r.commands = {}
        /\ saga' \in SagaRecord /\ saga'.mode = saga.mode /\ saga'.orderStatus = saga.orderStatus
        /\ saga'.pending = saga.pending \ {t.id} /\ saga'.nextCommandId = saga.nextCommandId
        /\ saga'.step \in {"COMPENSATING", "COMPENSATED"}
        /\ saga'.step = "COMPENSATED" => saga'.pending = {}
    BY <2>1, <2>2, <2>4, <2>6, CompensationDone
  <2>8. tasks' = tasks \ {t}
    BY <2>4, <2>7
  <2>9. Ids'
    BY <2>1, <2>7, <2>8, IdsDone
  <2>10. ASSUME Rejected PROVE Phase'
    <3>1. t.kind = "RELEASE_STOCK"
      BY <2>10 DEF Rejected
    <3>2. stock' \in {"FENCED", "RELEASED"}
      BY <1>1, <1>6, <3>1, <2>10, StockMoves DEF StockOp, Rejected
    <3>3. Rejected'
      BY <1>2, <2>4, <2>7, <2>8, <2>10, <3>1, <3>2 DEF Rejected, Ending
    <3> QED
      BY <3>3 DEF Phase
  <2>11. ASSUME NEW X \in Ends, Doomed(X) PROVE Phase'
    <3>1. \A K : K # t.kind => (Owes(K)' <=> Owes(K)) /\ (Never(K)' <=> Never(K))
      BY <2>1, <2>4, <2>8, CompOwes
    <3>2. "CANCELLED" \in answered' \/ Owes("CANCEL_PAYMENT")'
      BY <1>1, <1>2, <2>11, <3>1 DEF Doomed
    <3>3. Owes(t.kind)
      BY DEF Owes
    <3>4. ASSUME t.kind = "RELEASE_STOCK" PROVE NeverCommitted(X)'
      <4>1. NeverCommitted(X)
        BY <2>11, <3>3, <3>4 DEF Doomed, CommitRefused, CaptureRefused, Never
      <4>2. stock' = "RELEASED"
        BY <1>1, <3>4, <4>1, StockMoves DEF StockOp, NeverCommitted
      <4>3. Never("COMMIT_STOCK")' /\ Never("CAPTURE_PAYMENT")' /\ Never("RESTOCK")'
        BY <3>1, <3>4, <4>1 DEF NeverCommitted
      <4> QED
        BY <4>1, <4>2, <4>3 DEF NeverCommitted
    <3>5. ASSUME t.kind = "RESTOCK" PROVE CaptureRefused(X)'
      <4>1. CaptureRefused(X)
        BY <2>11, <3>3, <3>5 DEF Doomed, CommitRefused, NeverCommitted, Never
      <4>2. stock' = "RESTOCKED"
        BY <1>1, <3>5, <4>1, StockMoves DEF StockOp, CaptureRefused
      <4>3. Never("RELEASE_STOCK")'
        BY <3>1, <3>5, <4>1 DEF CaptureRefused
      <4> QED
        BY <1>2, <4>1, <4>2, <4>3 DEF CaptureRefused
    <3>6. NeverCommitted(X)' \/ CommitRefused(X)' \/ CaptureRefused(X)'
      BY <1>1, <3>4, <3>5
    <3> QED
      BY <1>2, <2>1, <2>4, <2>7, <2>8, <2>11, <3>2, <3>6, CompensationEnds
  <2>12. Phase'
    BY <2>5, <2>10, <2>11
  <2>13. ClosedIdle' /\ OrderToldOnce' /\ Cancels'
    <3>1. ClosedIdle' /\ OrderToldOnce'
      BY <1>2, <2>1, <2>4 DEF SagaInv, ClosedIdle, OrderToldOnce
    <3>2. cancel = "confirmed" => stock' = "RELEASED"
      BY <1>3 DEF SagaInv, Cancels, StockMove
    <3> QED
      BY <1>2, <2>1, <2>4, <2>7, <3>1, <3>2 DEF SagaInv, Cancels
  <2> QED
    BY <1>1, <1>2, <1>4, <2>1, <2>4, <2>7, <2>8, <2>9, <2>12, <2>13, SagaStepKeeps DEF SagaTypes, PayKinds
<1> QED
  BY <1>5, <1>6

-----------------------------------------------------------------------------
(* The answer of payment-service *)

(* The call ends: what it kept of the payment is kept. *)
LEMMA AnswerMoves ==
  ASSUME SagaInv, NEW c \in Calls, Pay!CallStops(c)
  PROVE  /\ PaySteps
         /\ PP!NoCharge => PP!NoCharge'
         /\ PP!NoCancel => PP!NoCancel'
         /\ order \in HIDDEN_FROM_BUYER => header' = "NONE"
         /\ \A d \in Calls \ {c} : (PP!Capturing(d) => PP!Capturing(d)') /\ (PP!Cancelling(d) => PP!Cancelling(d)')
<1>0. Phase /\ MoneyInv /\ PP!PaymentInv
  BY DEF SagaInv, MoneyInv
<1>1. PP!CallStops(c) /\ PP!Onward /\ PP!Elsewhere
  BY StopIsOnward
<1>2. /\ PaySteps
      /\ PP!NoCharge => PP!NoCharge'
      /\ PP!NoCancel => PP!NoCancel'
      /\ order \in HIDDEN_FROM_BUYER => header' = "NONE"
  BY <1>0, <1>1, PayMoves
<1>3. \A d \in Calls \ {c} : call'[d] = call[d]
  BY <1>0, <1>1, PP!EndsAt, PaymentAssumption DEF PP!CallStops, PP!gatewayFails, PP!callLost, PP!OnlyCall,
     PP!PaymentInv
<1>4. ASSUME NEW d \in Calls \ {c}
      PROVE  (PP!Capturing(d) => PP!Capturing(d)') /\ (PP!Cancelling(d) => PP!Cancelling(d)')
  <2>1. call'[d] = call[d] /\ answered \subseteq answered'
    BY <1>2, <1>3 DEF PaySteps
  <2> QED
    BY <2>1 DEF PP!Capturing, PP!Cancelling, PP!Where, PP!CapturePC, PP!CancelPC
<1> QED
  BY <1>2, <1>4

(* The workflow's step on an answer, once its phase and ids are known. *)
LEMMA AnswerKeeps ==
  ASSUME SagaInv, NEW c \in Calls, Pay!CallStops(c), caller[c] \in tasks, caller' = [caller EXCEPT ![c] = NoTask],
         UNCHANGED <<run, order, announced, stock, try, cancel>>,
         \A u \in tasks : u \in tasks' \/ u = caller[c], \A u \in tasks' : u \in tasks \/ u.kind # "VERIFY_AUTHORIZATION",
         sent \subseteq sent', caller[c].kind \in sent', saga' \in SagaRecord, tasks' \subseteq TaskRecord, Phase', Ids',
         saga'.orderStatus = "CANCELLED" \/ cancel # "accepted"
  PROVE  SagaInv'
<1>0. /\ UNCHANGED run /\ UNCHANGED order /\ UNCHANGED announced /\ UNCHANGED stock /\ UNCHANGED try /\ UNCHANGED cancel
      /\ SagaTypes /\ Callers /\ MoneyInv /\ run = "running" /\ caller[c] # NoTask
  BY TasksRun DEF SagaInv
<1>1. /\ PaySteps
      /\ PP!NoCharge => PP!NoCharge'
      /\ PP!NoCancel => PP!NoCancel'
      /\ order \in HIDDEN_FROM_BUYER => header' = "NONE"
  BY AnswerMoves
<1>2. /\ answered \subseteq answered' /\ (authorizedAt => authorizedAt')
  BY <1>1 DEF PaySteps
<1>3. \A K : Asked(K) => Asked(K)'
  BY DEF Asked
<1>4. MoneyInv'
  <2>1. /\ Asked("CAPTURE_PAYMENT") => Asked("CAPTURE_PAYMENT")'
        /\ Asked("CANCEL_PAYMENT") => Asked("CANCEL_PAYMENT")'
    BY <1>3
  <2> QED
    BY <1>0, <1>1, <2>1 DEF MoneyInv, PaySteps, HIDDEN_FROM_BUYER
<1>5. Callers' /\ caller' \in [Calls -> TaskRecord \union {NoTask}]
  <2>1. caller' = [d \in Calls |-> IF d \in {c} THEN NoTask ELSE caller[d]]
    BY <1>0 DEF SagaTypes
  <2>2. \A d \in Calls \ {c} : caller[d] \in tasks => caller[d] \in tasks'
    BY <1>0 DEF Callers
  <2>3. \A d \in Calls \ {c} : (PP!Capturing(d) => PP!Capturing(d)') /\ (PP!Cancelling(d) => PP!Cancelling(d)')
    BY AnswerMoves
  <2> QED
    BY <1>0, <2>1, <2>2, <2>3, CallersFollow
<1>6. SagaTypes' /\ ClosedIdle' /\ HeldStays' /\ OrderToldOnce'
  BY <1>0, <1>5 DEF SagaInv, SagaTypes, ClosedIdle, HeldStays, OrderToldOnce
<1>7. Verdicts'
  BY <1>2, VerdictsKept DEF SagaInv
<1>8. Cancels'
  BY <1>0, <1>2 DEF SagaInv, Cancels
<1> QED
  BY <1>4, <1>5, <1>6, <1>7, <1>8 DEF SagaInv

CapturingIs ==
  /\ run = "running" /\ saga.mode = "checkout" /\ saga.pending = {} /\ saga.step = "CAPTURING"
  /\ saga.orderStatus = "CONFIRMING" /\ authorizedAt /\ \A u \in tasks : Verifying(u) \/ u = CaptureTask
  /\ sent \subseteq Quiet \union {"CONFIRMING", "COMMIT_STOCK"} /\ order = "CONFIRMING" /\ stock = "COMMITTED"

(* The capture succeeds. *)
LEMMA CaptureHeld ==
  ASSUME SagaInv, CapturingIs, NEW c \in Calls, Pay!CallStops(c), caller[c] = CaptureTask, CaptureTask \in tasks,
         caller' = [caller EXCEPT ![c] = NoTask], UNCHANGED <<orderRow, stock, try, cancel>>,
         "CAPTURED" \in answered, run' = run, sent' = sent \union {"CAPTURE_PAYMENT"},
         saga' = [saga EXCEPT !.step = "COMPLETED", !.orderStatus = "PAID"],
         tasks' = (tasks \ {CaptureTask}) \union {PaidTask}
  PROVE  SagaInv'
<1>0. /\ UNCHANGED order /\ UNCHANGED announced /\ UNCHANGED stock /\ UNCHANGED try /\ UNCHANGED cancel
      /\ SagaTypes /\ saga \in SagaRecord
  BY DEF orderRow, SagaInv, SagaTypes
<1>1. /\ saga' \in SagaRecord /\ saga'.mode = "checkout" /\ saga'.step = "COMPLETED" /\ saga'.orderStatus = "PAID"
      /\ saga'.pending = {}
  BY <1>0 DEF CapturingIs, SagaRecord, SagaTargets
<1>2. "CAPTURED" \in answered'
  BY AnswerMoves DEF PaySteps
<1>3. Charged'
  <2>1. "PAID" \notin sent'
    BY DEF CapturingIs, Quiet
  <2> QED
    BY <1>0, <1>1, <1>2, <2>1 DEF CapturingIs, Charged, Verifying, Quiet
<1>4. Ids'
  <2>1. PICK b : b = PaidTask
    OBVIOUS
  <2>2. ~Comp(b) /\ b.then = {}
    BY <2>1, TaskKindsAre DEF Comp, CompKinds
  <2>3. \A u \in tasks' : u = b \/ (~Comp(u) /\ u.then = {})
    BY <2>1 DEF Comp, CompKinds, Verifying, CapturingIs
  <2> QED
    BY <1>1, <2>2, <2>3, IdsBatch
<1>5. PaidTask \in TaskRecord
  BY DEF PaidTask, changeOrder, Task, TaskRecord, TaskKinds, TaskArgs, SagaTargets
<1>6. cancel # "accepted"
  BY DEF SagaInv, Cancels, CapturingIs
<1> QED
  BY <1>0, <1>1, <1>3, <1>4, <1>5, <1>6, TaskKindsAre, AnswerKeeps DEF Phase, SagaTypes

(* The capture is refused: the order fails, its stock is restocked and its payment cancelled. *)
LEMMA CaptureRefusedKeeps ==
  ASSUME SagaInv, CapturingIs, NEW c \in Calls, Pay!CallStops(c), caller[c] = CaptureTask, CaptureTask \in tasks,
         caller' = [caller EXCEPT ![c] = NoTask], UNCHANGED <<orderRow, stock, try, cancel>>,
         "NOT_CAPTURABLE" \in answered, run' = run, sent' = sent \union {"CAPTURE_PAYMENT"},
         NEW r, r = compensate(saga, "FAILED", <<"RESTOCK", "CANCEL_PAYMENT">>),
         saga' = r.state, tasks' = (tasks \ {CaptureTask}) \union r.commands
  PROVE  SagaInv'
<1>0. /\ UNCHANGED order /\ UNCHANGED announced /\ UNCHANGED stock /\ UNCHANGED try /\ UNCHANGED cancel
      /\ SagaTypes /\ saga \in SagaRecord
  BY DEF orderRow, SagaInv, SagaTypes
<1>1. PICK first \in SagaTargets, k1 \in CompKinds, k2 \in CompKinds : first = "FAILED" /\ k1 = "RESTOCK" /\ k2 = "CANCEL_PAYMENT"
  BY DEF CompKinds, SagaTargets
<1>2. PICK kinds : kinds = <<k1, k2>>
  OBVIOUS
<1>3. Pair(kinds, k1, k2)
  BY <1>2, PairIs
<1>5. PICK s \in SagaRecord : s = saga
  BY <1>0
<1>6. PICK t : t = Task(k1, s.nextCommandId, "", {})
  OBVIOUS
<1>7. PICK u : u = Task(k2, s.nextCommandId + 1, "", {})
  OBVIOUS
<1>8. TwoOwed(s, first, r, t, u)
  <2>1. r = compensate(s, first, kinds)
    BY <1>1, <1>2, <1>5
  <2> QED
    BY <1>3, <1>6, <1>7, <2>1, CompensateTwo, Zenon
<1>11. PICK n \in Nat : n = s.nextCommandId
  BY DEF SagaRecord
<1>12. n + 1 \in Nat /\ n # n + 1 /\ n < n + 2 /\ n + 1 < n + 2
  BY <1>11
<1>13. /\ t \in LeafTask /\ t.kind = "RESTOCK" /\ t.id = n /\ u \in LeafTask /\ u.kind = "CANCEL_PAYMENT" /\ u.id = n + 1
  BY <1>1, <1>6, <1>7, <1>11, <1>12 DEF Task, LeafTask, TaskKinds, TaskArgs, CompKinds
<1>15. PICK S : S = {t, u}
  OBVIOUS
<1>151. PICK X \in Ends : X = "FAILED"
  BY DEF Ends
<1>16. PICK b : b = changeOrder(X, S)
  OBVIOUS
<1>17. /\ saga' \in SagaRecord /\ saga'.mode = "checkout" /\ saga'.step = "COMPENSATING" /\ saga'.orderStatus = "FAILED"
       /\ saga'.pending = {n, n + 1} /\ saga'.nextCommandId = n + 2 /\ tasks' = (tasks \ {CaptureTask}) \union {b}
  BY <1>1, <1>5, <1>8, <1>11, <1>15, <1>151, <1>16 DEF TwoOwed, CapturingIs
<1>18. Dooms(X, b, S)
  BY <1>13, <1>15, <1>16 DEF Dooms, CompKinds
<1>19. b \in tasks' /\ \A v \in tasks' : Verifying(v) \/ v = b
  BY <1>17 DEF CapturingIs
<1>20. CaptureRefused(X)'
  <2>1. \A K \in CompKinds \union {"COMMIT_STOCK", "CAPTURE_PAYMENT"} :
          /\ Owes(K)' <=> \E v \in S : v.kind = K
          /\ K \notin sent' /\ ~(\E v \in S : v.kind = K) => Never(K)'
    BY <1>18, <1>19, DoomOwes
  <2>2. Owes("RESTOCK")'
    BY <1>13, <1>15, <2>1 DEF CompKinds
  <2>3. "RELEASE_STOCK" \notin sent' /\ ~(\E v \in S : v.kind = "RELEASE_STOCK")
    BY <1>13, <1>15 DEF Quiet, CapturingIs
  <2>4. Never("RELEASE_STOCK")'
    BY <2>1, <2>3 DEF CompKinds
  <2>5. ~Asked("CANCEL_PAYMENT")
    BY TaskKindsAre DEF Asked, CapturingIs, Quiet, Verifying
  <2>6. PP!NoCancel
    BY <2>5 DEF SagaInv, MoneyInv
  <2>7. PP!NothingLive
    BY <2>6 DEF PP!NoCancel
  <2>8. PP!NothingLive' /\ authorizedAt'
    BY <2>7, AnswerMoves DEF PaySteps, CapturingIs
  <2> QED
    BY <1>0, <1>151, <2>2, <2>4, <2>8 DEF CaptureRefused, CapturingIs
<1>21. Phase' /\ b \in TaskRecord /\ b.kind = "CHANGE_ORDER"
  <2>1. sent' \intersect SagaTargets \subseteq {"CONFIRMING"}
    BY DEF Quiet, SagaTargets, CapturingIs
  <2>3. order' = From(X) /\ run' = "running"
    BY <1>0, <1>151 DEF From, CapturingIs
  <2> QED
    BY <1>151, <1>17, <1>18, <1>19, <1>20, <2>1, <2>3, DoomBegins
<1>22. Ids'
  <2>1. ~Comp(b) /\ b.then = S
    <3>1. S \in SUBSET LeafTask /\ X \in SagaTargets
      BY <1>18 DEF Dooms, Ends, SagaTargets
    <3> QED
      BY <1>16, <1>21, <3>1, ChangeTyped DEF Comp, CompKinds
  <2>2. \A v \in tasks' : v = b \/ (~Comp(v) /\ v.then = {})
    BY <1>19 DEF Verifying, Comp, CompKinds
  <2>3. \A v \in b.then : v.id \in saga'.pending
    BY <1>13, <1>15, <1>17, <2>1
  <2>4. \A v, w \in b.then : v.id = w.id => v = w
    BY <1>12, <1>13, <1>15, <2>1
  <2>5. \A i \in saga'.pending : i < saga'.nextCommandId
    BY <1>12, <1>17
  <2> QED
    BY <1>17, <2>1, <2>2, <2>3, <2>4, <2>5, IdsBatch
<1>23. cancel # "accepted"
  BY DEF SagaInv, Cancels, CapturingIs
<1> QED
  BY <1>0, <1>17, <1>21, <1>22, <1>23, TaskKindsAre, AnswerKeeps DEF SagaTypes

(* The payment is cancelled. *)
LEMMA CancelAnswered ==
  ASSUME SagaInv, NEW c \in Calls, Pay!CallStops(c), caller[c] \in tasks, caller[c].kind = "CANCEL_PAYMENT",
         caller' = [caller EXCEPT ![c] = NoTask], UNCHANGED <<orderRow, stock, try, cancel>>,
         "CANCELLED" \in answered, run' = run, sent' = sent \union {"CANCEL_PAYMENT"},
         NEW r, r = onCompensationDone(saga, caller[c].id),
         saga' = r.state, tasks' = (tasks \ {caller[c]}) \union r.commands
  PROVE  SagaInv'
<1>0. /\ UNCHANGED order /\ UNCHANGED announced /\ UNCHANGED stock /\ UNCHANGED try /\ UNCHANGED cancel
      /\ SagaTypes /\ Phase /\ Ids
  BY DEF orderRow, SagaInv
<1>1. PICK t \in tasks : t = caller[c]
  OBVIOUS
<1>2. Comp(t) /\ t.kind = "CANCEL_PAYMENT" /\ t.then = {}
  BY <1>0, <1>1, PhaseOfTask DEF Comp, CompKinds
<1>3. PICK X \in Ends : Doomed(X)
  BY <1>0, <1>2, PhaseOfTask
<1>4. Ending
  BY <1>3 DEF Doomed
<1>5. /\ r.commands = {}
      /\ saga' \in SagaRecord /\ saga'.mode = saga.mode /\ saga'.orderStatus = saga.orderStatus
      /\ saga'.pending = saga.pending \ {t.id} /\ saga'.nextCommandId = saga.nextCommandId
      /\ saga'.step \in {"COMPENSATING", "COMPENSATED"}
      /\ saga'.step = "COMPENSATED" => saga'.pending = {}
  BY <1>1, <1>2, <1>4, CompensationDone
<1>6. tasks' = tasks \ {t}
  BY <1>1, <1>5
<1>7. Ids'
  BY <1>0, <1>2, <1>5, <1>6, IdsDone
<1>8. PaySteps
  BY AnswerMoves
<1>9. "CANCELLED" \in answered' /\ (authorizedAt => authorizedAt') /\ (PP!NothingLive /\ authorizedAt => PP!NothingLive')
  BY <1>8 DEF PaySteps
<1>10. \A K : K # "CANCEL_PAYMENT" => (Owes(K)' <=> Owes(K)) /\ (Never(K)' <=> Never(K))
  BY <1>0, <1>2, <1>6, CompOwes
<1>11. /\ Owes("RELEASE_STOCK")' <=> Owes("RELEASE_STOCK")
       /\ Owes("RESTOCK")' <=> Owes("RESTOCK")
       /\ Never("RELEASE_STOCK")' <=> Never("RELEASE_STOCK")
       /\ Never("RESTOCK")' <=> Never("RESTOCK")
       /\ Never("COMMIT_STOCK")' <=> Never("COMMIT_STOCK")
       /\ Never("CAPTURE_PAYMENT")' <=> Never("CAPTURE_PAYMENT")
  BY <1>10
<1>12. NeverCommitted(X)' \/ CommitRefused(X)' \/ CaptureRefused(X)'
  BY <1>0, <1>3, <1>9, <1>11 DEF Doomed, NeverCommitted, CommitRefused, CaptureRefused
<1>13. Phase'
  BY <1>0, <1>2, <1>3, <1>5, <1>6, <1>9, <1>12, CompensationEnds
<1>14. saga'.orderStatus = "CANCELLED" \/ cancel # "accepted"
  BY <1>5 DEF SagaInv, Cancels
<1> QED
  BY <1>0, <1>1, <1>5, <1>6, <1>7, <1>13, <1>14, AnswerKeeps DEF SagaTypes

(* paymentAnswered: the answer of a capture or of a cancel is taken. *)
LEMMA PaymentAnsweredKeeps ==
  ASSUME SagaInv, NEW c \in Calls, paymentAnswered(c)
  PROVE  SagaInv'
<1>1. PICK t, outcome :
        /\ t = caller[c] /\ outcome = call[c].seen
        /\ t # NoTask /\ call[c].pc = "done"
        /\ Pay!CallStops(c)
        /\ caller' = [caller EXCEPT ![c] = NoTask]
        /\ IF outcome \in {"CONFLICT", "CAPTURED_CONFLICT"}
           THEN UNCHANGED <<sagaVars, sent>>
           ELSE apply(t, IF t.kind = "CAPTURE_PAYMENT" THEN onCaptureResult(saga, outcome)
                                                       ELSE onCompensationDone(saga, t.id))
        /\ UNCHANGED <<orderRow, stock, try, cancel, delivered>>
  BY DEF paymentAnswered
<1>2. CASE outcome \in {"CONFLICT", "CAPTURED_CONFLICT"}
  BY <1>1, <1>2, PaymentCallStopsKeeps DEF paymentCallStops
<1>3. CASE outcome \notin {"CONFLICT", "CAPTURED_CONFLICT"}
  <2>1. WaitsFor(c) /\ SagaTypes /\ Phase /\ PP!AnswersKept
    BY <1>1 DEF SagaInv, Callers, MoneyInv
  <2>2. t \in tasks /\ outcome \in answered
    BY <1>1, <2>1 DEF WaitsFor, PP!AnswersKept
  <2>3. \/ t.kind = "CAPTURE_PAYMENT" /\ outcome \in {"CAPTURED", "NOT_CAPTURABLE"}
        \/ t.kind = "CANCEL_PAYMENT" /\ outcome = "CANCELLED"
    BY <1>1, <1>3, <2>1 DEF WaitsFor, PP!Capturing, PP!Cancelling, PP!Where, PP!CapturePC, PP!CancelPC
  <2>4. CASE t.kind = "CAPTURE_PAYMENT"
    <3>1. t = CaptureTask /\ CapturingIs
      BY <2>1, <2>2, <2>4, PhaseOfTask DEF Capturing, CapturingIs, Placed
    <3>2. PICK r : r = onCaptureResult(saga, outcome)
      OBVIOUS
    <3>3. apply(t, r)
      BY <1>1, <1>3, <2>4, <3>2
    <3>4. saga' = r.state /\ run' = run /\ tasks' = (tasks \ {t}) \union r.commands /\ sent' = sent \union {"CAPTURE_PAYMENT"}
      BY <2>1, <2>2, <2>4, <3>3, AppliedTask
    <3>5. UNCHANGED <<orderRow, stock, try, cancel>>
      BY <1>1
    <3>6. CASE outcome = "CAPTURED"
      <4>1. r = To([saga EXCEPT !.step = "COMPLETED", !.orderStatus = "PAID"], {PaidTask})
        BY <3>1, <3>2, <3>6 DEF onCaptureResult, CapturingIs, PaidTask
      <4>2. saga' = [saga EXCEPT !.step = "COMPLETED", !.orderStatus = "PAID"] /\ tasks' = (tasks \ {CaptureTask}) \union {PaidTask}
        BY <3>1, <3>4, <4>1 DEF To
      <4> QED
        BY <1>1, <2>2, <3>1, <3>4, <3>5, <3>6, <4>2, CaptureHeld
    <3>7. CASE outcome = "NOT_CAPTURABLE"
      <4>1. r = compensate(saga, "FAILED", <<"RESTOCK", "CANCEL_PAYMENT">>)
        BY <3>1, <3>2, <3>7 DEF onCaptureResult, CapturingIs
      <4> QED
        BY <1>1, <2>2, <3>1, <3>4, <3>5, <3>7, <4>1, CaptureRefusedKeeps
    <3> QED
      BY <2>3, <2>4, <3>6, <3>7
  <2>5. CASE t.kind = "CANCEL_PAYMENT"
    <3>2. PICK r : r = onCompensationDone(saga, t.id)
      OBVIOUS
    <3>3. apply(t, r)
      BY <1>1, <1>3, <2>5, <3>2
    <3>4. saga' = r.state /\ run' = run /\ tasks' = (tasks \ {t}) \union r.commands /\ sent' = sent \union {"CANCEL_PAYMENT"}
      BY <2>1, <2>2, <2>5, <3>3, AppliedTask
    <3>5. UNCHANGED <<orderRow, stock, try, cancel>> /\ "CANCELLED" \in answered
      BY <1>1, <2>2, <2>3, <2>5
    <3> QED
      BY <1>1, <2>2, <2>5, <3>2, <3>4, <3>5, CancelAnswered
  <2> QED
    BY <2>3, <2>4, <2>5
<1> QED
  BY <1>2, <1>3

-----------------------------------------------------------------------------
(* The inductive invariant *)

LEMMA SagaInvInit == Init => SagaInv
<1> SUFFICES ASSUME Init PROVE SagaInv
  OBVIOUS
<1>1. /\ run = "none" /\ saga = initialCheckoutSagaState("checkout") /\ tasks = {}
      /\ order = "RESERVING" /\ stock = "NONE" /\ try = "unsent" /\ cancel = "none"
      /\ sent = {} /\ announced = <<>> /\ caller = [c \in Calls |-> NoTask]
  BY DEF Init
<1>2. PP!Init
  BY SameInit DEF Init
<1>3. PP!PaymentInv
  BY <1>2, PP!PaymentInvInit, PaymentAssumption
<1>4. \A c \in Calls : PP!Where(c) = "idle" /\ call[c].pc = "idle"
  BY <1>2, PP!IdleTyped, PaymentAssumption DEF PP!Init, PP!Where
<1>5. PP!AnswersKept /\ PP!NoCharge /\ PP!NoCancel /\ header = "NONE"
  BY <1>2, <1>4 DEF PP!Init, PP!AnswersKept, PP!NoCharge, PP!NoCancel, PP!CapturePC, PP!CancelPC
<1>6. MoneyInv
  BY <1>3, <1>5 DEF MoneyInv
<1>7. SagaTypes
  <2>1. saga \in SagaRecord
    BY <1>1, InitialSaga
  <2> QED
    BY <1>1, <2>1 DEF SagaTypes, TryAnswers
<1>8. Phase
  BY <1>1 DEF Phase, NotStarted
<1>9. ClosedIdle /\ HeldStays /\ Verdicts /\ Callers /\ Cancels /\ OrderToldOnce
  BY <1>1 DEF ClosedIdle, HeldStays, Verdicts, Callers, Cancels, OrderToldOnce
<1>10. Ids
  <2>1. saga.pending = {} /\ saga.step = "RESERVING"
    BY <1>1 DEF initialCheckoutSagaState
  <2> QED
    BY <1>1, <2>1 DEF Ids
<1> QED
  BY <1>6, <1>7, <1>8, <1>9, <1>10 DEF SagaInv

(* Every action of Next preserves the invariant. *)
LEMMA SagaInvStep == SagaInv /\ [Next]_vars => SagaInv'
<1> SUFFICES ASSUME SagaInv, [Next]_vars PROVE SagaInv'
  OBVIOUS
<1>1. CASE UNCHANGED vars
  BY <1>1, CancelOnlyKeeps DEF vars, sagaVars, orderRow, SagaInv, Cancels, payVars
<1>2. CASE ensureStarted \/ attemptTry \/ tryReserve \/ tryAnswered \/ applyTryResult \/ tryApplied
  BY <1>2, EnsureStartedKeeps, AttemptTryKeeps, TryReserveKeeps, TryAnsweredKeeps, ApplyTryResultKeeps,
     TryAppliedKeeps, Zenon
<1>3. CASE applyOrderChange \/ lateOrderChange
  BY <1>3, ApplyOrderChangeKeeps, LateOrderChangeKeeps, Zenon
<1>4. CASE \E p \in Pay!Attempts : paymentAuthorized(p)
  <2>1. PICK p \in PP!Attempts : paymentAuthorized(p)
    BY <1>4, SameRows
  <2> QED
    BY <2>1, PaymentAuthorizedKeeps
<1>5. CASE loadLateAuthorizationContext \/ verifyAuthorization \/ authorizationVerified
  BY <1>5, LoadLateAuthorizationContextKeeps, VerifyAuthorizationKeeps, AuthorizationVerifiedKeeps, Zenon
<1>6. CASE deadline \/ requestCancel \/ cancelUpdate \/ cancelConfirmed \/ close
  BY <1>6, DeadlineKeeps, RequestCancelKeeps, CancelUpdateKeeps, CancelConfirmedKeeps, CloseKeeps, Zenon
<1>7. CASE commitStock \/ releaseOrRestock \/ unansweredStockCommand \/ releaseLapsedHold
  BY <1>7, CommitStockKeeps, ReleaseOrRestockKeeps, UnansweredStockCommandKeeps, ReleaseLapsedHoldKeeps, Zenon
<1>8. CASE \E c \in Calls : \/ paymentActivity(c) \/ latePaymentRequest(c) \/ activityTimesOut(c)
                            \/ paymentAnswered(c) \/ paymentCallStops(c)
  BY <1>8, PaymentActivityKeeps, LatePaymentRequestKeeps, ActivityTimesOutKeeps, PaymentAnsweredKeeps,
     PaymentCallStopsKeeps, Zenon
<1>9. CASE paymentService
  BY <1>9, PaymentServiceKeeps
<1> QED
  BY <1>1, <1>2, <1>3, <1>4, <1>5, <1>6, <1>7, <1>8, <1>9 DEF Next

(* For any number of attempts, calls, faults and deliveries, the saga is always in one of its phases, with its *)
(* tasks, its ids, its callers and the participants as that phase says.                                        *)
THEOREM SagaInvariant == Spec => []SagaInv
<1> QED
  BY SagaInvInit, SagaInvStep, PTL DEF Spec

-----------------------------------------------------------------------------
(* What the invariant says of the money, the stock and the order *)

(* Capture has been asked for only by an order that is going through, or by one whose capture was refused. *)
LEMMA CaptureAsked ==
  ASSUME SagaInv, Asked("CAPTURE_PAYMENT")
  PROVE  \/ order \in {"CONFIRMING", "PAID"} /\ stock = "COMMITTED"
         \/ PP!NothingLive
<1>0. Phase
  BY DEF SagaInv
<1>1. ~NotStarted /\ ~Reserving /\ ~Awaiting /\ ~Rejected
  BY DEF NotStarted, Reserving, ReservingTask, Awaiting, Rejected, Verifying, Asked, Quiet
<1>2. ~Confirming /\ ~Committing
  BY TaskKindsAre DEF Confirming, Committing, Verifying, Asked, Quiet
<1>3. CASE Capturing \/ Charged
  BY <1>3 DEF Capturing, Charged
<1>4. ASSUME NEW X \in Ends, Doomed(X) PROVE PP!NothingLive
  <2>1. ~Never("CAPTURE_PAYMENT")
    BY DEF Never, Asked, Owes
  <2> QED
    BY <1>4, <2>1 DEF Doomed, NeverCommitted, CommitRefused, CaptureRefused
<1> QED
  BY <1>0, <1>1, <1>2, <1>3, <1>4 DEF Phase

LEMMA TakenIsAsked ==
  ASSUME SagaInv, Money("succeeded")
  PROVE  order \in {"CONFIRMING", "PAID"} /\ stock = "COMMITTED"
<1>1. PICK p \in PP!Attempts : intent[p] = "succeeded"
  BY SameRows DEF Money
<1>2. ~PP!NoCharge /\ ~PP!NothingLive
  BY <1>1 DEF PP!NoCharge, PP!NothingLive
<1> QED
  BY <1>2, CaptureAsked DEF SagaInv, MoneyInv

(* Where a run that has closed leaves things. *)
LEMMA ClosedEnds ==
  ASSUME SagaInv, run = "closed"
  PROVE  \/ order = "PAID" /\ stock = "COMMITTED" /\ "CAPTURED" \in answered
         \/ order = "REJECTED" /\ stock \in {"RELEASED", "FENCED"} /\ header = "NONE"
         \/ order \in Ends /\ stock \notin {"HELD", "COMMITTED"} /\ "CANCELLED" \in answered
<1>1. tasks = {}
  BY DEF SagaInv, ClosedIdle
<1>2. CASE Charged
  BY <1>1, <1>2 DEF Charged
<1>3. CASE Rejected
  BY <1>1, <1>3 DEF Rejected, SagaInv, MoneyInv, HIDDEN_FROM_BUYER
<1>4. ASSUME NEW X \in Ends, Doomed(X)
      PROVE  order \in Ends /\ stock \notin {"HELD", "COMMITTED"} /\ "CANCELLED" \in answered
  BY <1>1, <1>4, DoomedEnds
<1> QED
  BY <1>2, <1>3, <1>4, PhaseOfStep DEF SagaInv

(* Without a header there is no attempt, and with nothing live none that holds or took anything. *)
LEMMA NothingHeld ==
  ASSUME SagaInv, header = "NONE" \/ "CANCELLED" \in answered
  PROVE  /\ header # "CAPTURED"
         /\ \A p \in PP!Attempts : /\ session[p] # "open" /\ intent[p] \notin {"requires_capture", "succeeded"}
                                   /\ payment[p] \notin {"AUTHORIZED", "SUCCEEDED"}
<1>0. PP!PaymentTypes /\ PP!RowsAreTrue /\ PP!HeaderFits /\ PP!AnswersKept
  BY DEF SagaInv, MoneyInv, PP!PaymentInv, PP!DataInv
<1>1. CASE header = "NONE"
  <2>1. PP!Rows = {}
    BY <1>0, <1>1 DEF PP!HeaderFits
  <2>2. ASSUME NEW p \in PP!Attempts PROVE payment[p] = "NONE"
    BY <2>1 DEF PP!Rows
  <2>3. ASSUME NEW p \in PP!Attempts PROVE session[p] = "none" /\ intent[p] = "none"
    BY <1>0, <2>2 DEF PP!RowsAreTrue, PP!PaymentTypes
  <2> QED
    BY <1>1, <2>2, <2>3
<1>2. CASE "CANCELLED" \in answered
  <2>1. PP!NothingLive
    BY <1>0, <1>2 DEF PP!AnswersKept
  <2>2. \A p \in PP!Attempts : payment[p] # "SUCCEEDED"
    BY <1>0, <2>1 DEF PP!RowsAreTrue, PP!NothingLive
  <2>3. header # "CAPTURED"
    BY <1>0, <2>2 DEF PP!HeaderFits
  <2> QED
    BY <2>1, <2>2, <2>3 DEF PP!NothingLive
<1> QED
  BY <1>1, <1>2

(* The checker finds nothing where the order, the stock and the payment have one of those ends. *)
LEMMA NothingToReport ==
  ASSUME SagaInv, run = "closed"
  PROVE  order \in TERMINAL_SAGA_STATUSES /\ evaluateCheckoutInvariants(order, stock, Pay!statusOf) = {}
<1> DEFINE funded == {p \in Pay!Attempts : payment[p] \in {"AUTHORIZED", "SUCCEEDED"}}
<1>1. Pay!statusOf.header = header /\ Pay!statusOf.attempts = {payment[p] : p \in funded}
  BY DEF Pay!statusOf
<1>2. CASE order = "PAID" /\ stock = "COMMITTED" /\ "CAPTURED" \in answered
  <2>1. header = "CAPTURED"
    BY <1>2 DEF SagaInv, MoneyInv, PP!PaymentInv, PP!DataInv, PP!AnswersHold
  <2> QED
    BY <1>1, <1>2, <2>1 DEF evaluateCheckoutInvariants, TERMINAL_SAGA_STATUSES
<1>3. CASE /\ order \in Dead /\ stock \notin {"HELD", "COMMITTED"}
           /\ header = "NONE" \/ "CANCELLED" \in answered
  <2>1. header # "CAPTURED" /\ funded = {}
    BY <1>3, NothingHeld, SameRows
  <2>2. Pay!statusOf.attempts = {}
    BY <1>1, <2>1
  <2> QED
    BY <1>1, <1>3, <2>1, <2>2 DEF evaluateCheckoutInvariants, TERMINAL_SAGA_STATUSES, Dead
<1> QED
  BY <1>2, <1>3, ClosedEnds DEF Dead, Ends

LEMMA ClosedIsConsistent ==
  ASSUME SagaInv
  PROVE  ClosedMeansConsistent
<1>1. CASE run = "closed"
  BY <1>1, NothingToReport DEF ClosedMeansConsistent, check
<1>2. CASE run = "running"
  BY <1>2 DEF ClosedMeansConsistent, check, runningOrderIds
<1>3. CASE run = "none"
  <2>1. NotStarted
    BY <1>3, PhaseOfStep DEF SagaInv, Phase, Reserving, Awaiting, Confirming, Committing, Capturing, Charged,
       Rejected, Doomed, Placed, Ending
  <2> QED
    BY <1>3, <2>1 DEF NotStarted, ClosedMeansConsistent, check, findTerminalSagaOrders, TERMINAL_SAGA_STATUSES, Dead
<1> QED
  BY <1>1, <1>2, <1>3, PhaseOfStep DEF SagaInv

LEMMA DeadHoldNothing ==
  ASSUME SagaInv
  PROVE  DeadOrdersHoldNothing
<1>1. ASSUME run = "closed", order \in Dead
      PROVE  /\ stock \notin {"HELD", "COMMITTED"}
             /\ \A p \in Pay!Attempts : session[p] # "open" /\ intent[p] \notin {"requires_capture", "succeeded"}
  <2>1. stock \notin {"HELD", "COMMITTED"} /\ (header = "NONE" \/ "CANCELLED" \in answered)
    BY <1>1, ClosedEnds DEF Dead
  <2> QED
    BY <2>1, NothingHeld, SameRows
<1>2. ASSUME cancel = "confirmed"
      PROVE  /\ order = "CANCELLED" /\ stock \in {"RELEASED", "FENCED"}
             /\ ~Money("requires_capture") /\ ~Money("succeeded")
  <2>1. order = "CANCELLED" /\ stock = "RELEASED" /\ "CANCELLED" \in answered
    BY <1>2 DEF SagaInv, Cancels
  <2>2. \A p \in Pay!Attempts : intent[p] \notin {"requires_capture", "succeeded"}
    BY <2>1, NothingHeld, SameRows
  <2> QED
    BY <2>1, <2>2 DEF Money
<1> QED
  BY <1>1, <1>2 DEF DeadOrdersHoldNothing

(* ChargedIsServed: the capture is asked for only after the commit is answered, so no interleaving of retries, late *)
(* requests, lost answers or the lapsed-hold sweep takes money for an order that is not going through.              *)
THEOREM OnlyServedAreCharged == Spec => []ChargedIsServed
<1>1. SagaInv => ChargedIsServed
  BY TakenIsAsked DEF ChargedIsServed
<1> QED
  BY <1>1, SagaInvariant, PTL

(* ClosedMeansConsistent: once a run has closed, evaluateCheckoutInvariants finds nothing, whatever lingering *)
(* request is executed later.                                                                                 *)
THEOREM ClosedStaysConsistent == Spec => []ClosedMeansConsistent
<1> QED
  BY ClosedIsConsistent, SagaInvariant, PTL

(* DeadOrdersHoldNothing: a dead order's stock is back on sale and Stripe holds none of its money; a cancel is *)
(* confirmed only then.                                                                                        *)
THEOREM DeadOrdersAreFree == Spec => []DeadOrdersHoldNothing
<1> QED
  BY DeadHoldNothing, SagaInvariant, PTL

(* OrderToldOnce: moveTo writes and tells in one transaction, from one status only, so no attempt made again and no *)
(* late one tells twice.                                                                                            *)
THEOREM EventsToldOnce == Spec => []OrderToldOnce
<1>1. SagaInv => OrderToldOnce
  BY DEF SagaInv
<1> QED
  BY <1>1, SagaInvariant, PTL
===============================================================================
