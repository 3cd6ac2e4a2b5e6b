---------------------------- MODULE PaymentProofs ----------------------------
(***************************************************************************)
(* payment-service for one order, for any number of concurrent calls,      *)
(* attempts and Stripe faults: the money Stripe holds or took, the rows    *)
(* and the answers agree.                                                  *)
(***************************************************************************)
EXTENDS Payment, FiniteSetTheorems, TLAPS

Words ==
  {"idle", "done", "open.probe", "open.insert", "auth.read", "auth.decide", "auth.void", "auth.apply",
   "cancel.expire", "cancel.read", "cancel.void", "cancel.record", "capture.read", "capture.intent",
   "capture.settle", "intent.read", "intent.key",
   "", "minted", "strayVoided", "EXPIRED", "VOIDED", "captured", "not_capturable",
   "CAPTURED_CONFLICT", "NOT_CAPTURABLE", "CONFLICT"} \union PaymentOrderStatus

CallRecord ==
  [pc : Words, p : 0 .. MaxAttempts, seen : Words, flag : BOOLEAN, gen : Nat, event : BOOLEAN]

PaymentTypes ==
  /\ header \in PaymentOrderStatus
  /\ authorizedAt \in BOOLEAN
  /\ payment \in [Attempts -> PaymentStatus]
  /\ keyGen \in [Attempts -> Nat]
  /\ webhook \subseteq Attempts
  /\ session \in [Attempts -> {"none", "open", "complete", "expired"}]
  /\ intent \in [Attempts -> {"none", "requires_capture", "succeeded", "canceled"}]
  /\ fault \subseteq {"capture", "void"} \X Attempts \X Nat
  /\ call \in [Calls -> CallRecord]
  /\ emitted \in [Attempts -> {0, 1}]

(* The rows are numbered from 1, and the last is the only one that may be active. *)
RowsInOrder == \E n \in 0 .. MaxAttempts : Rows = 1 .. n
OneActive == \A p \in Active, q \in Rows : q <= p

Ended(p) == session[p] = "expired" \/ intent[p] = "canceled"

(* What the status of a payment tells about Stripe and about the events. *)
RowsAreTrue ==
  \A p \in Attempts :
    /\ payment[p] = "NONE" <=> session[p] = "none"
    /\ intent[p] # "none" <=> session[p] = "complete"
    /\ payment[p] \in {"NONE", "PENDING"} => emitted[p] = 0
    /\ payment[p] = "AUTHORIZED" => emitted[p] = 1 /\ session[p] = "complete"
    /\ payment[p] = "SUCCEEDED" => intent[p] = "succeeded" /\ header = "CAPTURED"
    /\ payment[p] = "VOIDED" => intent[p] = "canceled"
    /\ payment[p] \in RETIRED => Ended(p)
    /\ intent[p] = "succeeded" => emitted[p] = 1

(* What the header tells about the rows. *)
HeaderFits ==
  /\ header \in {"NONE", "FENCED"} => Rows = {}
  /\ header = "AUTHORIZED" => authorizedAt /\ \E p \in Attempts : payment[p] = "AUTHORIZED"
  /\ header = "CAPTURED" => authorizedAt /\ \E p \in Attempts : payment[p] = "SUCCEEDED"
  /\ authorizedAt => header \in {"AUTHORIZED", "CAPTURED", "CANCELLED"}

(* A hold is recorded once, and after it no payment waits for one. *)
RecordedOnce ==
  /\ authorizedAt <=> \E p \in Attempts : emitted[p] = 1
  /\ \A p, q \in Attempts : emitted[p] = 1 /\ emitted[q] = 1 => p = q
  /\ authorizedAt => \A p \in Attempts : payment[p] # "PENDING"

Closed == header \in {"CANCELLED", "CAPTURED"}
IsLatest(p) == p \in Rows /\ \A q \in Rows : q <= p

AnswersHold ==
  /\ "CAPTURED" \in answered => header = "CAPTURED"
  /\ "CANCELLED" \in answered =>
       /\ header # "NONE" /\ header # "OPEN"
       /\ \A p \in Attempts : session[p] # "open" /\ intent[p] \notin {"requires_capture", "succeeded"}

(* What a call relies on, by where it is: nothing it has read is undone before it acts.  A call that  *)
(* reads an intent back remembers where it asked.                                                     *)
Where(c) == IF call[c].pc = "intent.read" THEN call[c].seen ELSE call[c].pc

OpenCall(c) ==
  /\ call[c].pc = "open.probe" => call[c].p \in Rows
  /\ call[c].pc = "open.insert" /\ call[c].p # 0 => session[call[c].p] = "expired"

AuthCall(c) ==
  /\ Where(c) \in {"auth.read", "auth.decide", "auth.void", "auth.apply"} =>
       call[c].p \in Rows /\ intent[call[c].p] # "none"
  /\ call[c].pc = "auth.decide" /\ (call[c].flag \/ call[c].seen \in {"AUTHORIZED", "CAPTURED"}) => authorizedAt
  /\ Where(c) = "auth.void" => intent[call[c].p] = "canceled"

CancelCall(c) ==
  /\ Where(c) \in {"cancel.expire", "cancel.read", "cancel.void", "cancel.record"} => Closed /\ IsLatest(call[c].p)
  /\ Where(c) \in {"cancel.read", "cancel.void"} => intent[call[c].p] # "none"
  /\ call[c].pc = "cancel.record" =>
       \/ call[c].seen = "EXPIRED" /\ session[call[c].p] = "expired"
       \/ call[c].seen = "VOIDED" /\ intent[call[c].p] = "canceled"
       \/ call[c].seen = "CAPTURED" /\ intent[call[c].p] = "succeeded"

CaptureCall(c) ==
  /\ call[c].pc = "capture.read" => authorizedAt
  /\ Where(c) \in {"capture.intent", "capture.settle"} =>
       call[c].p \in Rows /\ emitted[call[c].p] = 1 /\ intent[call[c].p] # "none"
  /\ call[c].pc = "capture.settle" =>
       \/ call[c].seen = "captured" /\ intent[call[c].p] = "succeeded"
       \/ call[c].seen = "not_capturable" /\ intent[call[c].p] = "canceled"

KeyCall(c) ==
  /\ call[c].pc = "intent.read" => call[c].seen \in IntentPC /\ <<OpAt(call[c].seen), call[c].p, call[c].gen>> \in fault
  /\ call[c].pc = "intent.key" => \E op \in {"capture", "void"} : <<op, call[c].p, call[c].gen>> \in fault

CallOK(c) == OpenCall(c) /\ AuthCall(c) /\ CancelCall(c) /\ CaptureCall(c) /\ KeyCall(c)

DataInv == RowsInOrder /\ OneActive /\ RowsAreTrue /\ HeaderFits /\ RecordedOnce /\ AnswersHold /\ KeptKeys
PaymentInv == PaymentTypes /\ DataInv /\ \A c \in Calls : CallOK(c)

-----------------------------------------------------------------------------
(* Frames *)

(* What no step undoes. *)
Grows ==
  /\ Rows \subseteq Rows' /\ fault \subseteq fault'
  /\ authorizedAt => authorizedAt'
  /\ Closed => Closed' /\ Rows' = Rows
  /\ \A p \in Attempts :
       /\ session[p] = "expired" => session'[p] = "expired"
       /\ intent[p] # "none" => intent'[p] # "none"
       /\ intent[p] = "canceled" => intent'[p] = "canceled"
       /\ intent[p] = "succeeded" => intent'[p] = "succeeded"
       /\ emitted[p] = 1 => emitted'[p] = 1

LEMMA CallKept ==
  ASSUME PaymentTypes, Grows, NEW c \in Calls, CallOK(c), call'[c] = call[c]
  PROVE  CallOK(c)'
<1>1. /\ Where(c)' = Where(c) /\ Rows \subseteq Attempts
      /\ call[c].p # 0 => call[c].p \in Attempts
  BY DEF Where, Rows, PaymentTypes, CallRecord, Attempts
<1>2. OpenCall(c)'
  BY <1>1 DEF CallOK, OpenCall, Grows
<1>3. AuthCall(c)'
  BY <1>1 DEF CallOK, AuthCall, Grows
<1>4. CancelCall(c)'
  <2>1. /\ Where(c) \in {"cancel.expire", "cancel.read", "cancel.void"} \/ call[c].pc = "cancel.record" =>
             call[c].p \in Attempts /\ Closed /\ IsLatest(call[c].p)
        /\ call[c].pc = "cancel.record" => Where(c) = "cancel.record"
    BY <1>1 DEF CallOK, CancelCall, IsLatest, Where
  <2>2. IsLatest(call[c].p) /\ Closed => IsLatest(call[c].p)' /\ Closed'
    BY DEF IsLatest, Grows
  <2> QED
    BY <1>1, <2>1, <2>2 DEF CallOK, CancelCall, Grows
<1>5. CaptureCall(c)'
  <2>1. call[c].pc = "capture.settle" => Where(c) = "capture.settle"
    BY DEF Where
  <2> QED
    BY <1>1, <2>1 DEF CallOK, CaptureCall, Grows
<1>6. KeyCall(c)'
  BY DEF CallOK, KeyCall, Grows
<1> QED
  BY <1>2, <1>3, <1>4, <1>5, <1>6 DEF CallOK

(* A call that has ended or not begun relies on nothing. *)
LEMMA RestingCallOK ==
  ASSUME NEW c \in Calls, call'[c].pc \in {"idle", "done"}
  PROVE  CallOK(c)'
  BY DEF CallOK, OpenCall, AuthCall, CancelCall, CaptureCall, KeyCall, Where

LEMMA OneCallSteps ==
  ASSUME PaymentInv, PaymentTypes', DataInv', Grows, NEW c \in Calls, CallOK(c)',
         \A x \in Calls \ {c} : call'[x] = call[x]
  PROVE  PaymentInv'
  BY CallKept DEF PaymentInv

LEMMA NoCallSteps ==
  ASSUME PaymentInv, PaymentTypes', DataInv', Grows, UNCHANGED call
  PROVE  PaymentInv'
  BY CallKept DEF PaymentInv

LEMMA GoEffect ==
  ASSUME PaymentTypes, NEW c \in Calls, NEW pc \in Words, NEW p \in 0 .. MaxAttempts, NEW seen \in Words,
         Go(c, pc, p, seen)
  PROVE  /\ call' \in [Calls -> CallRecord]
         /\ call'[c].pc = pc /\ call'[c].p = p /\ call'[c].seen = seen
         /\ call'[c].gen = call[c].gen /\ call'[c].flag = call[c].flag
         /\ \A x \in Calls \ {c} : call'[x] = call[x]
<1> DEFINE r == [call[c] EXCEPT !.pc = pc, !.p = p, !.seen = seen]
<1>1. call[c] \in CallRecord
  BY DEF PaymentTypes
<1>2. r \in CallRecord /\ r.pc = pc /\ r.p = p /\ r.seen = seen /\ r.gen = call[c].gen /\ r.flag = call[c].flag
  BY <1>1 DEF CallRecord
<1>3. call' = [call EXCEPT ![c] = r]
  BY DEF Go, PaymentTypes
<1> HIDE DEF r
<1> QED
  BY <1>2, <1>3 DEF PaymentTypes

LEMMA GoReadEffect ==
  ASSUME PaymentTypes, NEW c \in Calls, NEW pc \in Words, NEW p \in Attempts, NEW seen \in Words,
         GoRead(c, pc, p, seen)
  PROVE  /\ call' \in [Calls -> CallRecord]
         /\ call'[c].pc = pc /\ call'[c].p = p /\ call'[c].seen = seen
         /\ \A x \in Calls \ {c} : call'[x] = call[x]
<1> DEFINE r == [call[c] EXCEPT !.pc = pc, !.p = p, !.seen = seen, !.gen = keyGen[p], !.flag = FALSE]
<1>1. call[c] \in CallRecord /\ keyGen[p] \in Nat /\ p \in 0 .. MaxAttempts /\ FALSE \in BOOLEAN
  BY DEF PaymentTypes, Attempts
<1>2. r \in CallRecord /\ r.pc = pc /\ r.p = p /\ r.seen = seen
  BY <1>1 DEF CallRecord
<1>3. call' = [call EXCEPT ![c] = r]
  BY DEF GoRead, PaymentTypes
<1> HIDE DEF r
<1> QED
  BY <1>2, <1>3 DEF PaymentTypes

LEMMA IdleTyped == Idle \in CallRecord /\ Idle.pc = "idle" /\ Idle.p = 0
<1>1. 0 \in 0 .. MaxAttempts /\ 0 \in Nat
  BY AttemptsAssumption
<1>2. "idle" \in Words /\ "" \in Words /\ FALSE \in BOOLEAN
  BY DEF Words
<1> QED
  BY <1>1, <1>2, Zenon DEF Idle, CallRecord

LEMMA EndEffect ==
  ASSUME PaymentTypes, NEW c \in Calls, End(c)
  PROVE  /\ call' \in [Calls -> CallRecord]
         /\ CallOK(c)' /\ \A x \in Calls \ {c} : call'[x] = call[x]
<1>1. call' \in [Calls -> CallRecord] /\ call'[c] = Idle /\ \A x \in Calls \ {c} : call'[x] = call[x]
  BY IdleTyped DEF End, PaymentTypes
<1> QED
  BY <1>1, IdleTyped, RestingCallOK

LEMMA AnswerEffect ==
  ASSUME PaymentTypes, NEW c \in Calls, NEW outcome \in Words, Answer(c, outcome)
  PROVE  /\ call' \in [Calls -> CallRecord] /\ answered' = answered \union {outcome}
         /\ CallOK(c)' /\ \A x \in Calls \ {c} : call'[x] = call[x]
<1> DEFINE r == [Idle EXCEPT !.pc = "done", !.seen = outcome]
<1>1. r \in CallRecord /\ r.pc = "done"
  <2>1. "done" \in Words
    BY DEF Words
  <2> QED
    BY <2>1, IdleTyped, Zenon DEF CallRecord
<1>2. call' = [call EXCEPT ![c] = r] /\ answered' = answered \union {outcome}
  BY DEF Answer
<1> HIDE DEF r
<1>3. call' \in [Calls -> CallRecord] /\ call'[c].pc = "done" /\ \A x \in Calls \ {c} : call'[x] = call[x]
  BY <1>1, <1>2 DEF PaymentTypes
<1> QED
  BY <1>2, <1>3, RestingCallOK

data == <<headerRow, payment, keyGen, stripe, history>>

(* A step of a call that only reads. *)
LEMMA DataKept ==
  ASSUME PaymentTypes, DataInv, UNCHANGED data
  PROVE  DataInv' /\ Grows
<1>1. /\ UNCHANGED <<header, authorizedAt, payment, keyGen, session, intent, fault, emitted, answered>>
      /\ Rows' = Rows /\ Active' = Active
  BY DEF data, headerRow, stripe, history, Rows, Active
<1>2. RowsInOrder' /\ OneActive' /\ RowsAreTrue' /\ HeaderFits'
  BY <1>1 DEF DataInv, RowsInOrder, OneActive, RowsAreTrue, HeaderFits, Ended
<1>3. RecordedOnce' /\ AnswersHold' /\ KeptKeys'
  BY <1>1 DEF DataInv, RecordedOnce, AnswersHold, KeptKeys
<1>4. Grows
  BY <1>1 DEF Grows, Closed
<1> QED
  BY <1>2, <1>3, <1>4 DEF DataInv

LEMMA CallReads ==
  ASSUME PaymentInv, NEW c \in Calls, UNCHANGED data, webhook' \subseteq Attempts,
         call' \in [Calls -> CallRecord], CallOK(c)', \A x \in Calls \ {c} : call'[x] = call[x]
  PROVE  PaymentInv'
<1>1. PaymentTypes'
  BY DEF PaymentInv, PaymentTypes, data, headerRow, stripe, history
<1> QED
  BY <1>1, DataKept, OneCallSteps DEF PaymentInv

LEMMA CallEnds ==
  ASSUME PaymentInv, NEW c \in Calls, UNCHANGED data, webhook' \subseteq Attempts, End(c)
  PROVE  PaymentInv'
  BY EndEffect, CallReads DEF PaymentInv

LEMMA LatestIs ==
  ASSUME PaymentTypes, RowsInOrder
  PROVE  Latest \in 0 .. MaxAttempts /\ Rows = 1 .. Latest
<1>1. PICK n \in 0 .. MaxAttempts : Rows = 1 .. n
  BY DEF RowsInOrder
<1>2. n \in Nat
  BY AttemptsAssumption
<1>3. Latest = n
  BY <1>1, <1>2, FS_Interval DEF Latest
<1> QED
  BY <1>1, <1>3

-----------------------------------------------------------------------------
(* The steps that only read *)

LEMMA ProbeKeeps ==
  ASSUME PaymentInv, NEW c \in Calls, probe(c)
  PROVE  PaymentInv'
<1> DEFINE p == call[c].p
<1>1. /\ PaymentTypes /\ UNCHANGED data /\ webhook' \subseteq Attempts /\ p \in 0 .. MaxAttempts
      /\ p \in Rows /\ "open.insert" \in Words /\ "auth.read" \in Words /\ "" \in Words
  BY DEF PaymentInv, PaymentTypes, CallRecord, CallOK, OpenCall, probe, data, rows, Words
<1>2. CASE End(c)
  BY <1>1, <1>2, CallEnds
<1>3. CASE session[p] = "expired" /\ Go(c, "open.insert", p, "")
  <2>1. /\ call' \in [Calls -> CallRecord] /\ session' = session
        /\ call'[c].pc = "open.insert" /\ call'[c].p = p /\ \A x \in Calls \ {c} : call'[x] = call[x]
    BY <1>1, <1>3, GoEffect DEF data, stripe
  <2>2. CallOK(c)'
    BY <1>3, <2>1 DEF CallOK, OpenCall, AuthCall, CancelCall, CaptureCall, KeyCall, Where
  <2> QED
    BY <1>1, <2>1, <2>2, CallReads
<1>4. CASE intent[p] = "requires_capture" /\ Go(c, "auth.read", p, "")
  <2>1. /\ call' \in [Calls -> CallRecord] /\ UNCHANGED <<intent, payment>>
        /\ call'[c].pc = "auth.read" /\ call'[c].p = p /\ \A x \in Calls \ {c} : call'[x] = call[x]
    BY <1>1, <1>4, GoEffect, ZenonT(60) DEF data, stripe
  <2>2. p \in Rows'
    BY <1>1, <2>1 DEF Rows
  <2>3. CallOK(c)'
    BY <1>4, <2>1, <2>2 DEF CallOK, OpenCall, AuthCall, CancelCall, CaptureCall, KeyCall, Where
  <2> QED
    BY <1>1, <2>1, <2>3, CallReads
<1> QED
  BY <1>2, <1>3, <1>4 DEF probe

LEMMA HoldReadKeeps ==
  ASSUME PaymentInv, NEW c \in Calls, NEW p \in Attempts, holdReported(c, p) \/ completed(c, p)
  PROVE  PaymentInv'
<1>1. PaymentTypes /\ UNCHANGED data /\ webhook' \subseteq Attempts
  BY DEF PaymentInv, PaymentTypes, holdReported, completed, logged, data, rows
<1>2. CASE UNCHANGED call
  <2>1. PaymentTypes'
    BY <1>1, <1>2 DEF PaymentTypes, data, headerRow, stripe, history
  <2> QED
    BY <1>1, <1>2, <2>1, DataKept, NoCallSteps DEF PaymentInv
<1>3. CASE ~UNCHANGED call
  <2>1. p \in Rows /\ intent[p] # "none"
    BY <1>1, <1>3 DEF holdReported, completed, StaleTcc, retrieveAuthorization
  <2>2. /\ call' \in [Calls -> CallRecord]
        /\ call'[c].pc = "auth.read" /\ call'[c].p = p /\ \A x \in Calls \ {c} : call'[x] = call[x]
    <3>1. "auth.read" \in Words /\ "" \in Words /\ p \in 0 .. MaxAttempts /\ TRUE \in BOOLEAN
      BY AttemptsAssumption DEF Words, Attempts
    <3>2. CASE holdReported(c, p)
      BY <1>1, <3>1, <3>2, GoEffect, ZenonT(60) DEF holdReported
    <3>3. CASE completed(c, p)
      <4> DEFINE r == [Idle EXCEPT !.pc = "auth.read", !.p = p, !.event = TRUE]
      <4>1. r \in CallRecord /\ r.pc = "auth.read" /\ r.p = p
        BY <3>1, IdleTyped, Zenon DEF CallRecord
      <4>2. call' = [call EXCEPT ![c] = r]
        BY <1>3, <3>3 DEF completed
      <4> HIDE DEF r
      <4> QED
        BY <1>1, <4>1, <4>2 DEF PaymentTypes
    <3> QED
      BY <3>2, <3>3
  <2>3. p \in Rows' /\ intent'[p] # "none"
    BY <1>1, <2>1 DEF Rows, data, stripe
  <2>4. CallOK(c)'
    BY <2>2, <2>3 DEF CallOK, OpenCall, AuthCall, CancelCall, CaptureCall, KeyCall, Where
  <2> QED
    BY <1>1, <2>2, <2>4, CallReads
<1> QED
  BY <1>2, <1>3

(* A header read as holding or having taken money was told by a recorded hold, which stays recorded. *)
LEMMA PrepareHeaderKeeps ==
  ASSUME PaymentInv, NEW c \in Calls, prepareHeader(c)
  PROVE  PaymentInv'
<1> DEFINE p == call[c].p
           r == [call[c] EXCEPT !.pc = "auth.decide", !.seen = header, !.flag = authorizedAt]
<1>1. /\ PaymentTypes /\ UNCHANGED data /\ webhook' \subseteq Attempts /\ call[c] \in CallRecord
      /\ header \in Words /\ "auth.decide" \in Words /\ authorizedAt \in BOOLEAN
  BY DEF PaymentInv, PaymentTypes, prepareHeader, data, rows, Words
<1>2. /\ r \in CallRecord
      /\ r.pc = "auth.decide" /\ r.p = p /\ r.seen = header /\ r.flag = authorizedAt
  BY <1>1, Zenon DEF CallRecord
<1>3. call' = [call EXCEPT ![c] = r]
  BY <1>1 DEF prepareHeader, PaymentTypes
<1>4. p \in Rows /\ intent[p] # "none"
  BY DEF PaymentInv, CallOK, AuthCall, Where, prepareHeader
<1> HIDE DEF r
<1>5. /\ call' \in [Calls -> CallRecord]
      /\ call'[c].pc = "auth.decide" /\ call'[c].p = p
      /\ call'[c].seen = header /\ call'[c].flag = authorizedAt
      /\ \A x \in Calls \ {c} : call'[x] = call[x]
  BY <1>1, <1>2, <1>3 DEF PaymentTypes
<1>6. p \in Rows' /\ intent'[p] # "none" /\ authorizedAt' = authorizedAt
  BY <1>1, <1>4 DEF Rows, data, stripe, headerRow
<1>7. header \in {"AUTHORIZED", "CAPTURED"} => authorizedAt
  BY DEF PaymentInv, DataInv, HeaderFits
<1>8. CallOK(c)'
  BY <1>5, <1>6, <1>7 DEF CallOK, OpenCall, AuthCall, CancelCall, CaptureCall, KeyCall, Where
<1> QED
  BY <1>1, <1>5, <1>8, CallReads

(* A stray is a payment retired with its hold gone: after a recorded hold none is pending. *)
LEMMA PreparePaymentKeeps ==
  ASSUME PaymentInv, NEW c \in Calls, preparePayment(c)
  PROVE  PaymentInv'
<1> DEFINE p == call[c].p
           decision == decideAuthorization(payment[p], call[c].seen, call[c].flag, p \notin Mismatched)
           pc == IF decision = "STRAY" THEN "auth.void" ELSE "auth.apply"
           seen == IF decision \in {"RECORD", "RECORD_LATE"} THEN "minted" ELSE ""
<1>1. /\ PaymentTypes /\ UNCHANGED data /\ webhook' \subseteq Attempts
      /\ pc \in Words /\ seen \in Words
  BY DEF PaymentInv, PaymentTypes, preparePayment, data, rows, Words
<1>2. /\ p \in Rows /\ p \in Attempts /\ intent[p] # "none"
      /\ call[c].flag \/ call[c].seen \in {"AUTHORIZED", "CAPTURED"} => authorizedAt
  BY DEF PaymentInv, CallOK, AuthCall, Where, preparePayment, Rows
<1>3. decision = "STRAY" => intent[p] = "canceled"
  <2>1. ASSUME decision = "STRAY"
        PROVE  payment[p] \notin RECORDED /\ (payment[p] \in RETIRED \/ authorizedAt)
    BY <1>2, <2>1 DEF decideAuthorization
  <2>2. payment[p] \in PaymentStatus /\ payment[p] # "NONE" /\ (authorizedAt => payment[p] # "PENDING")
    BY <1>1, <1>2 DEF PaymentTypes, Rows, PaymentInv, DataInv, RecordedOnce
  <2>3. payment[p] \in RETIRED => intent[p] = "canceled"
    BY <1>2 DEF PaymentInv, DataInv, RowsAreTrue, Ended
  <2> QED
    BY <2>1, <2>2, <2>3 DEF RECORDED, RETIRED, PaymentStatus
<1>4. GoRead(c, pc, p, seen)
  BY DEF preparePayment
<1>5. pc = "auth.apply" \/ (pc = "auth.void" /\ intent[p] = "canceled")
  BY <1>3
<1> HIDE DEF decision, pc, seen
<1>6. /\ call' \in [Calls -> CallRecord]
      /\ call'[c].pc = pc /\ call'[c].p = p /\ \A x \in Calls \ {c} : call'[x] = call[x]
  BY <1>1, <1>2, <1>4, GoReadEffect
<1>7. p \in Rows' /\ intent' = intent
  BY <1>1, <1>2 DEF Rows, data, stripe
<1>8. CallOK(c)'
  BY <1>2, <1>5, <1>6, <1>7 DEF CallOK, OpenCall, AuthCall, CancelCall, CaptureCall, KeyCall, Where
<1> QED
  BY <1>1, <1>6, <1>8, CallReads

LEMMA ReleaseCompletedKeeps ==
  ASSUME PaymentInv, NEW c \in Calls, releaseCompleted(c)
  PROVE  PaymentInv'
<1> DEFINE p == call[c].p
<1>1. /\ PaymentTypes /\ UNCHANGED data /\ webhook' \subseteq Attempts /\ p \in 0 .. MaxAttempts
      /\ {"cancel.void", "cancel.record", "", "VOIDED", "CAPTURED"} \subseteq Words
      /\ Closed /\ IsLatest(p)
  BY DEF PaymentInv, PaymentTypes, CallRecord, CallOK, CancelCall, Where, releaseCompleted, data, rows,
         Words, PaymentOrderStatus
<1>2. UNCHANGED <<intent, payment, header>> /\ Closed' /\ p \in Rows' /\ \A q \in Rows' : q <= p
  BY <1>1 DEF data, stripe, headerRow, Closed, IsLatest, Rows
<1>3. PICK pc \in {"cancel.void", "cancel.record"}, seen \in {"", "VOIDED", "CAPTURED"} :
        /\ Go(c, pc, p, seen)
        /\ \/ pc = "cancel.void" /\ intent[p] = "requires_capture"
           \/ pc = "cancel.record" /\ seen = "VOIDED" /\ intent[p] = "canceled"
           \/ pc = "cancel.record" /\ seen = "CAPTURED" /\ intent[p] = "succeeded"
  BY DEF releaseCompleted, retrieveAuthorization
<1>4. /\ call' \in [Calls -> CallRecord]
      /\ call'[c].pc = pc /\ call'[c].p = p /\ call'[c].seen = seen /\ \A x \in Calls \ {c} : call'[x] = call[x]
  <2>1. pc \in Words /\ seen \in Words
    BY <1>1
  <2> QED
    BY <1>1, <1>3, <2>1, GoEffect, ZenonT(60)
<1>5. CallOK(c)'
  BY <1>2, <1>3, <1>4 DEF CallOK, OpenCall, AuthCall, CancelCall, CaptureCall, KeyCall, Where, IsLatest
<1> QED
  BY <1>1, <1>4, <1>5, CallReads

LEMMA CaptureReadKeeps ==
  ASSUME PaymentInv, NEW c \in Calls, captureRead(c)
  PROVE  PaymentInv'
<1>1. /\ PaymentTypes /\ UNCHANGED data /\ webhook' \subseteq Attempts /\ "capture.intent" \in Words /\ "" \in Words
  BY DEF PaymentInv, PaymentTypes, captureRead, data, rows, Words
<1>2. CASE End(c)
  BY <1>1, <1>2, CallEnds
<1>3. CASE payment[Latest] = "AUTHORIZED" /\ GoRead(c, "capture.intent", Latest, "")
  <2>1. PICK n \in Attempts : n = Latest /\ n \in Rows
    <3>1. authorizedAt
      BY DEF PaymentInv, CallOK, CaptureCall, captureRead
    <3>2. PICK p \in Attempts : emitted[p] = 1
      BY <3>1 DEF PaymentInv, DataInv, RecordedOnce
    <3>3. p \in Rows
      BY <3>2 DEF PaymentInv, DataInv, RowsAreTrue, Rows
    <3>4. RowsInOrder
      BY DEF PaymentInv, DataInv
    <3>5. Latest \in 0 .. MaxAttempts /\ Rows = 1 .. Latest
      BY <1>1, <3>4, LatestIs
    <3> QED
      BY <3>3, <3>5, AttemptsAssumption DEF Attempts
  <2>2. emitted[n] = 1 /\ intent[n] # "none"
    BY <1>3, <2>1 DEF PaymentInv, DataInv, RowsAreTrue
  <2>3. /\ call' \in [Calls -> CallRecord]
        /\ call'[c].pc = "capture.intent" /\ call'[c].p = n /\ \A x \in Calls \ {c} : call'[x] = call[x]
    BY <1>1, <1>3, <2>1, GoReadEffect
  <2>4. Rows' = Rows /\ UNCHANGED <<intent, emitted>>
    BY <1>1 DEF data, stripe, history, Rows
  <2>5. CallOK(c)'
    BY <2>1, <2>2, <2>3, <2>4 DEF CallOK, OpenCall, AuthCall, CancelCall, CaptureCall, KeyCall, Where
  <2> QED
    BY <1>1, <2>3, <2>5, CallReads
<1> QED
  BY <1>2, <1>3 DEF captureRead

-----------------------------------------------------------------------------
(* Stripe *)

(* A session is completed or expires once; a hold is released, or captured where it was recorded. *)
StripeMoves ==
  /\ session' \in [Attempts -> {"none", "open", "complete", "expired"}]
  /\ intent' \in [Attempts -> {"none", "requires_capture", "succeeded", "canceled"}]
  /\ \A q \in Attempts :
       \/ session'[q] = session[q] /\ intent'[q] = intent[q]
       \/ session[q] = "open" /\ session'[q] = "expired" /\ intent'[q] = intent[q]
       \/ session[q] = "open" /\ session'[q] = "complete" /\ intent'[q] = "requires_capture"
       \/ /\ intent[q] = "requires_capture" /\ session'[q] = session[q]
          /\ intent'[q] = "canceled" \/ (intent'[q] = "succeeded" /\ emitted[q] = 1)

LEMMA StripeMovesKeep ==
  ASSUME PaymentTypes, DataInv, StripeMoves, UNCHANGED <<headerRow, payment, keyGen, emitted, answered>>,
         fault \subseteq fault'
  PROVE  DataInv' /\ Grows
<1>1. UNCHANGED <<header, authorizedAt>> /\ Rows' = Rows /\ Active' = Active
  BY DEF headerRow, Rows, Active
<1>2. RowsInOrder' /\ OneActive' /\ RecordedOnce'
  BY <1>1 DEF DataInv, RowsInOrder, OneActive, RecordedOnce
<1>3. HeaderFits'
  BY <1>1 DEF DataInv, HeaderFits
<1>4. RowsAreTrue'
  BY <1>1 DEF DataInv, RowsAreTrue, Ended, StripeMoves
<1>5. AnswersHold'
  BY <1>1 DEF DataInv, AnswersHold, StripeMoves
<1>6. KeptKeys'
  BY DEF DataInv, KeptKeys
<1>7. Grows
  <2>1. \A q \in Attempts : session[q] = "open" => intent[q] = "none"
    BY DEF DataInv, RowsAreTrue
  <2> QED
    BY <1>1, <2>1 DEF Grows, Closed, StripeMoves
<1> QED
  BY <1>2, <1>3, <1>4, <1>5, <1>6, <1>7 DEF DataInv

(* A request on an intent that exists, for a capture on a recorded hold. *)
LEMMA IntentMoves ==
  ASSUME PaymentTypes, NEW p \in Attempts, NEW op \in {"capture", "void"}, intent[p] # "none",
         op = "capture" => emitted[p] = 1, UNCHANGED session,
         intent' = [intent EXCEPT ![p] = IntentAfter(op, intent[p])]
  PROVE  /\ StripeMoves
         /\ intent'[p] = IntentAfter(op, intent[p]) /\ intent'[p] \in {"canceled", "succeeded"}
<1>1. intent[p] \in {"requires_capture", "succeeded", "canceled"}
  BY DEF PaymentTypes
<1>2. /\ IntentAfter(op, intent[p]) \in {"canceled", "succeeded"}
      /\ \/ IntentAfter(op, intent[p]) = intent[p]
         \/ /\ intent[p] = "requires_capture"
            /\ IntentAfter(op, intent[p]) = "canceled" \/ (IntentAfter(op, intent[p]) = "succeeded" /\ emitted[p] = 1)
  BY <1>1 DEF IntentAfter
<1>3. /\ intent'[p] = IntentAfter(op, intent[p])
      /\ \A q \in Attempts \ {p} : intent'[q] = intent[q]
      /\ intent' \in [Attempts -> {"none", "requires_capture", "succeeded", "canceled"}]
  BY <1>2 DEF PaymentTypes
<1> QED
  BY <1>2, <1>3 DEF StripeMoves, PaymentTypes

(* What a call that asked at pc relies on, from its request to the answer. *)
LEMMA AskedAt ==
  ASSUME PaymentInv, NEW c \in Calls, NEW pc \in IntentPC, Where(c) = pc
  PROVE  /\ call[c].p \in Rows /\ call[c].p \in Attempts /\ intent[call[c].p] # "none"
         /\ OpAt(pc) \in {"capture", "void"} /\ (OpAt(pc) = "capture" <=> pc = "capture.intent")
         /\ pc = "capture.intent" => emitted[call[c].p] = 1
         /\ pc = "cancel.void" => Closed /\ IsLatest(call[c].p)
         /\ pc = "auth.void" => intent[call[c].p] = "canceled"
  BY DEF PaymentInv, CallOK, AuthCall, CancelCall, CaptureCall, IntentPC, OpAt, IsLatest, Rows

LEMMA IntentAnsweredOK ==
  ASSUME PaymentInv, NEW c \in Calls, NEW pc \in IntentPC, Where(c) = pc, Grows,
         intent'[call[c].p] \in {"canceled", "succeeded"},
         intentAnswered(c, pc, intent'[call[c].p])
  PROVE  /\ call' \in [Calls -> CallRecord]
         /\ CallOK(c)' /\ \A x \in Calls \ {c} : call'[x] = call[x]
<1> DEFINE p == call[c].p
           status == intent'[p]
           next == CASE pc = "capture.intent" -> "capture.settle"
                     [] pc = "cancel.void"    -> "cancel.record"
                     [] pc = "auth.void"      -> "auth.apply"
           seen == CASE pc = "capture.intent" -> IF status = "canceled" THEN "not_capturable" ELSE "captured"
                     [] pc = "cancel.void"    -> IF status = "succeeded" THEN "CAPTURED" ELSE "VOIDED"
                     [] pc = "auth.void"      -> "strayVoided"
           r == [call[c] EXCEPT !.pc = next, !.seen = seen, !.gen = 0]
<1>1. PaymentTypes /\ call[c] \in CallRecord /\ 0 \in Nat
  BY DEF PaymentInv, PaymentTypes
<1>2. next \in Words /\ seen \in Words
  BY DEF IntentPC, Words, PaymentOrderStatus
<1>3. call' = [call EXCEPT ![c] = r]
  BY <1>1 DEF intentAnswered, IntentPC, PaymentTypes
<1>4. /\ pc = "capture.intent" => /\ next = "capture.settle"
                                  /\ \/ seen = "captured" /\ status = "succeeded"
                                     \/ seen = "not_capturable" /\ status = "canceled"
      /\ pc = "cancel.void" => /\ next = "cancel.record"
                               /\ \/ seen = "CAPTURED" /\ status = "succeeded"
                                  \/ seen = "VOIDED" /\ status = "canceled"
      /\ pc = "auth.void" => next = "auth.apply"
  OBVIOUS
<1> HIDE DEF next, seen
<1>5. r \in CallRecord /\ r.pc = next /\ r.seen = seen /\ r.p = p
  BY <1>1, <1>2, Zenon DEF CallRecord
<1> HIDE DEF r
<1>6. /\ call' \in [Calls -> CallRecord] /\ \A x \in Calls \ {c} : call'[x] = call[x]
      /\ call'[c].pc = next /\ call'[c].seen = seen /\ call'[c].p = p
  BY <1>1, <1>3, <1>5 DEF PaymentTypes
<1>7. /\ p \in Rows' /\ status # "none"
      /\ pc = "capture.intent" => emitted'[p] = 1
      /\ pc = "cancel.void" => Closed' /\ \A q \in Rows' : q <= p
  BY AskedAt DEF Grows, IsLatest
<1>8. CASE pc = "capture.intent"
  BY <1>4, <1>6, <1>7, <1>8 DEF CallOK, OpenCall, AuthCall, CancelCall, CaptureCall, KeyCall, Where
<1>9. CASE pc = "cancel.void"
  BY <1>4, <1>6, <1>7, <1>9 DEF CallOK, OpenCall, AuthCall, CancelCall, CaptureCall, KeyCall, Where, IsLatest
<1>10. CASE pc = "auth.void"
  BY <1>4, <1>6, <1>7, <1>10 DEF CallOK, OpenCall, AuthCall, CancelCall, CaptureCall, KeyCall, Where
<1> QED
  BY <1>6, <1>8, <1>9, <1>10 DEF IntentPC

LEMMA RequestKeeps ==
  ASSUME PaymentInv, NEW c \in Calls, NEW pc \in IntentPC, requestIntent(c, pc)
  PROVE  PaymentInv'
<1> DEFINE p == call[c].p
<1>1. /\ PaymentTypes /\ DataInv
      /\ call[c].pc = pc /\ Where(c) = pc
      /\ UNCHANGED <<header, authorizedAt, payment, keyGen, webhook, session, fault, emitted, answered>>
  BY DEF PaymentInv, requestIntent, rows, headerRow, history, Where, IntentPC
<1>2. /\ p \in Attempts /\ intent[p] # "none" /\ OpAt(pc) \in {"capture", "void"}
      /\ OpAt(pc) = "capture" => emitted[p] = 1
  BY <1>1, AskedAt
<1>3. intent' = [intent EXCEPT ![p] = IntentAfter(OpAt(pc), intent[p])]
  BY DEF requestIntent
<1>4. /\ StripeMoves
      /\ intent'[p] = IntentAfter(OpAt(pc), intent[p]) /\ intent'[p] \in {"canceled", "succeeded"}
  BY <1>1, <1>2, <1>3, IntentMoves
<1>5. DataInv' /\ Grows
  BY <1>1, <1>4, StripeMovesKeep DEF headerRow
<1>6. intentAnswered(c, pc, intent'[p])
  BY <1>4 DEF requestIntent
<1>7. /\ call' \in [Calls -> CallRecord]
      /\ CallOK(c)' /\ \A x \in Calls \ {c} : call'[x] = call[x]
  BY <1>1, <1>4, <1>5, <1>6, IntentAnsweredOK
<1>8. PaymentTypes'
  BY <1>1, <1>4, <1>7 DEF PaymentTypes, StripeMoves
<1> QED
  BY <1>5, <1>7, <1>8, OneCallSteps

LEMMA ReadIntentAfterKeeps ==
  ASSUME PaymentInv, NEW c \in Calls, readIntentAfter(c)
  PROVE  PaymentInv'
<1> DEFINE p == call[c].p
<1>1. /\ PaymentTypes /\ DataInv /\ UNCHANGED data /\ webhook' \subseteq Attempts
      /\ p \in 0 .. MaxAttempts /\ "intent.key" \in Words /\ "" \in Words /\ call[c].pc = "intent.read"
  BY DEF PaymentInv, PaymentTypes, CallRecord, readIntentAfter, data, rows, Words
<1>2. /\ call[c].seen \in IntentPC /\ Where(c) = call[c].seen
      /\ <<OpAt(call[c].seen), p, call[c].gen>> \in fault
  BY <1>1 DEF PaymentInv, CallOK, KeyCall, Where
<1>3. CASE Go(c, "intent.key", p, "")
  <2>1. /\ call' \in [Calls -> CallRecord]
        /\ call'[c].pc = "intent.key" /\ call'[c].p = p /\ call'[c].gen = call[c].gen
        /\ \A x \in Calls \ {c} : call'[x] = call[x]
    BY <1>1, <1>3, GoEffect
  <2>2. fault' = fault /\ OpAt(call[c].seen) \in {"capture", "void"}
    BY <1>1, <1>2, AskedAt DEF data, stripe
  <2>3. CallOK(c)'
    BY <1>2, <2>1, <2>2 DEF CallOK, OpenCall, AuthCall, CancelCall, CaptureCall, KeyCall, Where
  <2> QED
    BY <1>1, <2>1, <2>3, CallReads
<1>4. CASE intent[p] # "requires_capture" /\ intentAnswered(c, call[c].seen, intent[p])
  <2>1. intent' = intent /\ intent[p] \in {"canceled", "succeeded"} /\ Grows
    BY <1>1, <1>2, <1>4, AskedAt, DataKept DEF data, stripe, PaymentTypes
  <2>2. /\ call' \in [Calls -> CallRecord]
        /\ CallOK(c)' /\ \A x \in Calls \ {c} : call'[x] = call[x]
    BY <1>2, <1>4, <2>1, IntentAnsweredOK
  <2> QED
    BY <1>1, <2>2, CallReads
<1> QED
  BY <1>3, <1>4 DEF readIntentAfter

LEMMA ServerErrorKeeps ==
  ASSUME PaymentInv, NEW c \in Calls, serverError(c)
  PROVE  PaymentInv'
<1> DEFINE p == call[c].p
           pc == call[c].pc
           k == <<OpAt(pc), p, call[c].gen>>
<1>1. /\ PaymentTypes /\ DataInv /\ call[c] \in CallRecord
      /\ pc \in IntentPC /\ Where(c) = pc /\ k = Key(c)
      /\ UNCHANGED <<header, authorizedAt, payment, keyGen, webhook, session, emitted, answered>>
  BY DEF PaymentInv, PaymentTypes, serverError, rows, headerRow, history, Where, IntentPC, Key
<1>2. /\ p \in Rows /\ p \in Attempts /\ intent[p] # "none" /\ OpAt(pc) \in {"capture", "void"}
      /\ OpAt(pc) = "capture" => emitted[p] = 1
      /\ pc = "capture.intent" => emitted[p] = 1
      /\ pc = "cancel.void" => Closed /\ IsLatest(p)
      /\ pc = "auth.void" => intent[p] = "canceled"
  BY <1>1, AskedAt
<1>3. StripeMoves
  <2>1. CASE intent' = intent
    BY <1>1, <2>1 DEF StripeMoves, PaymentTypes
  <2>2. CASE intent' = [intent EXCEPT ![p] = IntentAfter(OpAt(pc), @)]
    <3>1. intent' = [intent EXCEPT ![p] = IntentAfter(OpAt(pc), intent[p])]
      BY <2>2
    <3> QED
      BY <1>1, <1>2, <3>1, IntentMoves
  <2> QED
    BY <2>1, <2>2 DEF serverError
<1>4. fault \subseteq fault' /\ k \in fault' /\ fault' \subseteq {"capture", "void"} \X Attempts \X Nat
  <2>1. call[c].gen \in Nat
    BY <1>1 DEF CallRecord
  <2>2. k \in {"capture", "void"} \X Attempts \X Nat
    BY <1>2, <2>1
  <2> QED
    BY <1>1, <2>2 DEF serverError, PaymentTypes
<1>5. DataInv' /\ Grows
  BY <1>1, <1>3, <1>4, StripeMovesKeep DEF headerRow
<1>6. /\ call' \in [Calls -> CallRecord]
      /\ call'[c].pc = "intent.read" /\ call'[c].p = p /\ call'[c].seen = pc /\ call'[c].gen = call[c].gen
      /\ \A x \in Calls \ {c} : call'[x] = call[x]
  <2>1. "intent.read" \in Words /\ pc \in Words /\ p \in 0 .. MaxAttempts
    BY <1>1 DEF Words, CallRecord
  <2> QED
    BY <1>1, <2>1, GoEffect DEF serverError
<1>7. CallOK(c)'
  <2>1. /\ p \in Rows' /\ intent'[p] # "none"
        /\ pc = "capture.intent" => emitted'[p] = 1
        /\ pc = "cancel.void" => Closed' /\ \A q \in Rows' : q <= p
        /\ pc = "auth.void" => intent'[p] = "canceled"
    BY <1>2, <1>5 DEF Grows, IsLatest
  <2>2. KeyCall(c)'
    BY <1>1, <1>4, <1>6 DEF KeyCall
  <2> QED
    BY <1>1, <1>6, <2>1, <2>2 DEF CallOK, OpenCall, AuthCall, CancelCall, CaptureCall, Where, IsLatest, IntentPC
<1>8. PaymentTypes'
  BY <1>1, <1>3, <1>4, <1>6 DEF PaymentTypes, StripeMoves
<1> QED
  BY <1>5, <1>6, <1>7, <1>8, OneCallSteps

(* The generation moves past the one a 5xx is stored under. *)
LEMMA IncrementKeyGenKeeps ==
  ASSUME PaymentInv, NEW c \in Calls, incrementKeyGen(c)
  PROVE  PaymentInv'
<1> DEFINE p == call[c].p
           g == call[c].gen
<1>1. /\ PaymentTypes /\ DataInv /\ g \in Nat /\ End(c)
      /\ UNCHANGED <<header, authorizedAt, payment, webhook, session, intent, fault, emitted, answered>>
      /\ keyGen' = [keyGen EXCEPT ![p] = IF @ = g THEN @ + 1 ELSE @]
  BY DEF PaymentInv, PaymentTypes, CallRecord, incrementKeyGen, headerRow, stripe, history
<1>2. PICK op \in {"capture", "void"} : <<op, p, g>> \in fault
  BY DEF PaymentInv, CallOK, KeyCall, incrementKeyGen
<1>3. /\ keyGen' \in [Attempts -> Nat]
      /\ \A q \in Attempts : keyGen'[q] = IF q = p /\ keyGen[q] = g THEN g + 1 ELSE keyGen[q]
  <2>1. p \in Attempts /\ keyGen \in [Attempts -> Nat]
    BY <1>1, <1>2 DEF PaymentTypes
  <2>2. PICK n \in Nat : n = IF keyGen[p] = g THEN keyGen[p] + 1 ELSE keyGen[p]
    BY <1>1, <2>1
  <2>3. keyGen' = [keyGen EXCEPT ![p] = n]
    BY <1>1, <2>2
  <2> QED
    BY <2>1, <2>2, <2>3
<1>4. KeptKeys'
  <2>1. SUFFICES ASSUME NEW q \in Attempts, NEW n \in 0 .. keyGen'[q] - 1
                 PROVE  \E o \in {"capture", "void"} : <<o, q, n>> \in fault
    BY <1>1 DEF KeptKeys
  <2>2. CASE n \in 0 .. keyGen[q] - 1
    BY <2>2 DEF DataInv, KeptKeys, PaymentInv
  <2>3. CASE n \notin 0 .. keyGen[q] - 1
    <3>1. keyGen[q] \in Nat
      BY <1>1 DEF PaymentTypes
    <3>2. q = p /\ n = g
      BY <1>1, <1>3, <2>3, <3>1
    <3> QED
      BY <1>2, <3>2
  <2> QED
    BY <2>2, <2>3
<1>5. Rows' = Rows /\ Active' = Active
  BY <1>1 DEF Rows, Active
<1>6. RowsInOrder' /\ OneActive' /\ RowsAreTrue' /\ HeaderFits' /\ RecordedOnce' /\ AnswersHold'
  BY <1>1, <1>5 DEF DataInv, RowsInOrder, OneActive, RowsAreTrue, Ended, HeaderFits, RecordedOnce, AnswersHold
<1>7. Grows
  BY <1>1, <1>5 DEF Grows, Closed
<1>8. PaymentTypes' /\ CallOK(c)' /\ \A x \in Calls \ {c} : call'[x] = call[x]
  BY <1>1, <1>3, EndEffect DEF PaymentTypes
<1> QED
  BY <1>4, <1>6, <1>7, <1>8, OneCallSteps DEF DataInv

LEMMA ReleaseSessionKeeps ==
  ASSUME PaymentInv, NEW c \in Calls, releaseSession(c)
  PROVE  PaymentInv'
<1> DEFINE p == call[c].p
<1>1. /\ PaymentTypes /\ DataInv /\ call[c] \in CallRecord
      /\ UNCHANGED <<header, authorizedAt, payment, keyGen, webhook, intent, fault, emitted, answered>>
      /\ session' = [session EXCEPT ![p] = IF @ = "open" THEN "expired" ELSE @]
  BY DEF PaymentInv, PaymentTypes, releaseSession, expireSession, rows, headerRow, history
<1>2. Closed /\ IsLatest(p) /\ p \in Rows /\ p \in Attempts
  BY DEF PaymentInv, CallOK, CancelCall, releaseSession, Where, IsLatest, Rows
<1>3. session[p] # "none" /\ (session[p] = "complete" => intent[p] # "none")
  BY <1>2 DEF PaymentInv, DataInv, RowsAreTrue, Rows
<1>4. StripeMoves /\ (session[p] = "complete" \/ session'[p] = "expired")
  BY <1>1, <1>2, <1>3 DEF StripeMoves, PaymentTypes
<1>5. DataInv' /\ Grows
  BY <1>1, <1>4, StripeMovesKeep DEF headerRow
<1>6. PICK pc \in {"cancel.read", "cancel.record"}, seen \in {"", "EXPIRED"} :
        /\ Go(c, pc, p, seen)
        /\ \/ pc = "cancel.read" /\ intent[p] # "none"
           \/ pc = "cancel.record" /\ seen = "EXPIRED" /\ session'[p] = "expired"
  BY <1>3, <1>4 DEF releaseSession
<1>7. /\ call' \in [Calls -> CallRecord]
      /\ call'[c].pc = pc /\ call'[c].p = p /\ call'[c].seen = seen /\ \A x \in Calls \ {c} : call'[x] = call[x]
  <2>1. pc \in Words /\ seen \in Words /\ p \in 0 .. MaxAttempts
    BY <1>1 DEF Words, CallRecord
  <2> QED
    BY <1>1, <1>6, <2>1, GoEffect, ZenonT(60)
<1>8. CallOK(c)'
  <2>1. p \in Rows' /\ Closed' /\ \A q \in Rows' : q <= p
    BY <1>2, <1>5 DEF Grows, IsLatest
  <2> QED
    BY <1>1, <1>6, <1>7, <2>1 DEF CallOK, OpenCall, AuthCall, CancelCall, CaptureCall, KeyCall, Where, IsLatest
<1>9. PaymentTypes'
  BY <1>1, <1>4, <1>7 DEF PaymentTypes, StripeMoves
<1> QED
  BY <1>5, <1>7, <1>8, <1>9, OneCallSteps

LEMMA OutsideKeeps ==
  ASSUME PaymentInv, NEW p \in Attempts, Outside(p)
  PROVE  PaymentInv'
<1>1. /\ PaymentTypes /\ DataInv
      /\ UNCHANGED <<header, authorizedAt, payment, keyGen, webhook, fault, call, emitted, answered>>
  BY DEF PaymentInv, Outside, BuyerCompletes, SessionLapses, HoldLapses, rows, headerRow, history
<1>2. StripeMoves
  BY <1>1 DEF StripeMoves, PaymentTypes, Outside, BuyerCompletes, SessionLapses, HoldLapses
<1>3. DataInv' /\ Grows
  BY <1>1, <1>2, StripeMovesKeep DEF headerRow
<1>4. PaymentTypes'
  BY <1>1, <1>2 DEF PaymentTypes, StripeMoves
<1> QED
  BY <1>1, <1>3, <1>4, NoCallSteps

-----------------------------------------------------------------------------
(* The header *)

NothingLeft == \A p \in Attempts : session[p] # "open" /\ intent[p] \notin {"requires_capture", "succeeded"}

(* What may be answered. *)
AnswersAreTrue ==
  /\ "CAPTURED" \in answered' => "CAPTURED" \in answered \/ header' = "CAPTURED"
  /\ "CANCELLED" \in answered' => "CANCELLED" \in answered \/ (header' \notin {"NONE", "OPEN"} /\ NothingLeft)

(* A payment whose row is retired or voided has nothing at Stripe. *)
LEMMA NothingAt ==
  ASSUME PaymentTypes, DataInv, NEW p \in Attempts,
         payment[p] \notin {"PENDING", "AUTHORIZED", "SUCCEEDED"} \/ Ended(p)
  PROVE  session[p] # "open" /\ intent[p] \notin {"requires_capture", "succeeded"}
  BY DEF PaymentTypes, PaymentStatus, DataInv, RowsAreTrue, RETIRED, Ended

LEMMA HeaderMoves ==
  ASSUME PaymentTypes, DataInv, UNCHANGED <<authorizedAt, payment, keyGen, session, intent, fault, emitted>>,
         \/ header' = header
         \/ header = "NONE" /\ header' \in {"OPEN", "FENCED"}
         \/ header \in {"OPEN", "AUTHORIZED"} /\ header' = "CANCELLED",
         AnswersAreTrue
  PROVE  DataInv' /\ Grows
<1>1. Rows' = Rows /\ Active' = Active
  BY DEF Rows, Active
<1>2. RowsInOrder' /\ OneActive' /\ RecordedOnce' /\ KeptKeys'
  BY <1>1 DEF DataInv, RowsInOrder, OneActive, RecordedOnce, KeptKeys
<1>3. RowsAreTrue'
  BY DEF DataInv, RowsAreTrue, Ended
<1>4. HeaderFits'
  BY <1>1 DEF DataInv, HeaderFits
<1>5. AnswersHold'
  BY DEF DataInv, AnswersHold, AnswersAreTrue, NothingLeft
<1>6. Grows
  BY <1>1 DEF Grows, Closed
<1> QED
  BY <1>2, <1>3, <1>4, <1>5, <1>6 DEF DataInv

LEMMA OpenSessionKeeps ==
  ASSUME PaymentInv, NEW c \in Calls, openSession(c)
  PROVE  PaymentInv'
<1>1. /\ PaymentTypes /\ DataInv
      /\ UNCHANGED <<authorizedAt, payment, keyGen, webhook, session, intent, fault, emitted, answered>>
      /\ header' = header \/ (header = "NONE" /\ header' = "OPEN")
  BY DEF PaymentInv, openSession, insertHeader, stripe, history
<1>2. DataInv' /\ Grows
  BY <1>1, HeaderMoves DEF AnswersAreTrue
<1>3. /\ call' \in [Calls -> CallRecord]
      /\ CallOK(c)' /\ \A x \in Calls \ {c} : call'[x] = call[x]
  <2>1. CASE End(c)
    BY <1>1, <2>1, EndEffect
  <2>2. CASE Go(c, "open.insert", 0, "")
    <3>1. "open.insert" \in Words /\ "" \in Words /\ 0 \in 0 .. MaxAttempts
      BY AttemptsAssumption DEF Words
    <3>2. /\ call' \in [Calls -> CallRecord]
          /\ call'[c].pc = "open.insert" /\ call'[c].p = 0 /\ \A x \in Calls \ {c} : call'[x] = call[x]
      BY <1>1, <2>2, <3>1, GoEffect, ZenonT(60)
    <3> QED
      BY <3>2 DEF CallOK, OpenCall, AuthCall, CancelCall, CaptureCall, KeyCall, Where
  <2>3. ASSUME NEW p \in Active, Go(c, "open.probe", p, "")
        PROVE  /\ call' \in [Calls -> CallRecord]
               /\ CallOK(c)' /\ \A x \in Calls \ {c} : call'[x] = call[x]
    <3>1. "open.probe" \in Words /\ "" \in Words /\ p \in 0 .. MaxAttempts /\ p \in Rows'
      BY <1>1, AttemptsAssumption DEF Words, Active, Attempts, Rows
    <3>2. /\ call' \in [Calls -> CallRecord]
          /\ call'[c].pc = "open.probe" /\ call'[c].p = p /\ \A x \in Calls \ {c} : call'[x] = call[x]
      BY <1>1, <2>3, <3>1, GoEffect, ZenonT(60)
    <3> QED
      BY <3>1, <3>2 DEF CallOK, OpenCall, AuthCall, CancelCall, CaptureCall, KeyCall, Where
  <2> QED
    BY <2>1, <2>2, <2>3 DEF openSession
<1>4. PaymentTypes'
  BY <1>1, <1>3 DEF PaymentTypes, PaymentOrderStatus
<1> QED
  BY <1>2, <1>3, <1>4, OneCallSteps

LEMMA CaptureKeeps ==
  ASSUME PaymentInv, NEW c \in Calls, capture(c)
  PROVE  PaymentInv'
<1>1. /\ PaymentTypes /\ DataInv /\ header \in PaymentOrderStatus
      /\ UNCHANGED <<header, authorizedAt, payment, keyGen, webhook, session, intent, fault, emitted>>
  BY DEF PaymentInv, PaymentTypes, capture, rows, headerRow, stripe
<1>2. CASE CaptureDecision(header) = "capture" /\ Go(c, "capture.read", 0, "") /\ UNCHANGED answered
  <2>1. authorizedAt
    BY <1>1, <1>2 DEF CaptureDecision, PaymentOrderStatus, DataInv, HeaderFits
  <2>2. "capture.read" \in Words /\ "" \in Words /\ 0 \in 0 .. MaxAttempts
    BY AttemptsAssumption DEF Words
  <2>3. /\ call' \in [Calls -> CallRecord]
        /\ call'[c].pc = "capture.read" /\ call'[c].p = 0 /\ \A x \in Calls \ {c} : call'[x] = call[x]
    <3>1. PICK pc \in Words, p \in 0 .. MaxAttempts, seen \in Words :
            pc = "capture.read" /\ p = 0 /\ Go(c, pc, p, seen)
      BY <1>2, <2>2
    <3> QED
      BY <1>1, <3>1, GoEffect
  <2>4. CallOK(c)'
    BY <1>1, <2>1, <2>3 DEF CallOK, OpenCall, AuthCall, CancelCall, CaptureCall, KeyCall, Where
  <2>5. DataInv' /\ Grows
    BY <1>1, <1>2, HeaderMoves DEF AnswersAreTrue
  <2>6. PaymentTypes'
    BY <1>1, <2>3 DEF PaymentTypes
  <2> QED
    BY <2>3, <2>4, <2>5, <2>6, OneCallSteps
<1>3. ASSUME NEW outcome \in {"CAPTURED", "NOT_CAPTURABLE", "CONFLICT"}, Answer(c, outcome),
             outcome = "CAPTURED" => CaptureDecision(header) = "idempotent"
      PROVE  PaymentInv'
  <2>1. outcome = "CAPTURED" => header = "CAPTURED"
    BY <1>1, <1>3 DEF CaptureDecision, PaymentOrderStatus
  <2>2. outcome \in Words
    BY DEF Words, PaymentOrderStatus
  <2>3. /\ call' \in [Calls -> CallRecord] /\ answered' = answered \union {outcome}
        /\ CallOK(c)' /\ \A x \in Calls \ {c} : call'[x] = call[x]
    BY <1>1, <1>3, <2>2, AnswerEffect
  <2>4. AnswersAreTrue
    BY <1>1, <2>1, <2>3 DEF AnswersAreTrue
  <2>5. DataInv' /\ Grows
    BY <1>1, <2>4, HeaderMoves
  <2>6. PaymentTypes'
    BY <1>1, <2>3 DEF PaymentTypes
  <2> QED
    BY <2>3, <2>5, <2>6, OneCallSteps
<1> QED
  BY <1>2, <1>3 DEF capture

LEMMA FlipKeeps ==
  ASSUME PaymentInv, NEW c \in Calls, flip(c)
  PROVE  PaymentInv'
<1> DEFINE decision == CancelDecision(header)
<1>1. /\ PaymentTypes /\ DataInv /\ header \in PaymentOrderStatus
      /\ UNCHANGED <<authorizedAt, payment, keyGen, webhook, session, intent, fault, emitted>>
  BY DEF PaymentInv, PaymentTypes, flip, stripe
<1>2. /\ decision = "captured_conflict" <=> header = "CAPTURED"
      /\ decision = "cancel" <=> header \in {"OPEN", "AUTHORIZED"}
  BY <1>1 DEF CancelDecision, PaymentOrderStatus
<1>3. header' = IF decision = "cancel" THEN "CANCELLED" ELSE IF header = "NONE" THEN "FENCED" ELSE header
  BY DEF flip, insertHeader
<1>4. /\ \/ header' = header
         \/ header = "NONE" /\ header' = "FENCED"
         \/ header \in {"OPEN", "AUTHORIZED"} /\ header' = "CANCELLED"
      /\ header' \in {"FENCED", "CANCELLED", "CAPTURED"}
  BY <1>1, <1>2, <1>3 DEF PaymentOrderStatus
<1> HIDE DEF decision
<1>5. ASSUME NEW outcome \in {"CAPTURED_CONFLICT", "CANCELLED"}, Answer(c, outcome),
             outcome = "CANCELLED" => NothingLeft
      PROVE  PaymentInv'
  <2>1. outcome \in Words
    BY DEF Words, PaymentOrderStatus
  <2>2. /\ call' \in [Calls -> CallRecord] /\ answered' = answered \union {outcome}
        /\ CallOK(c)' /\ \A x \in Calls \ {c} : call'[x] = call[x]
    BY <1>1, <1>5, <2>1, AnswerEffect
  <2>3. AnswersAreTrue
    BY <1>4, <1>5, <2>2 DEF AnswersAreTrue
  <2>4. DataInv' /\ Grows
    BY <1>1, <1>4, <2>3, HeaderMoves
  <2>5. PaymentTypes'
    BY <1>1, <1>4, <2>2 DEF PaymentTypes, PaymentOrderStatus
  <2> QED
    BY <2>2, <2>4, <2>5, OneCallSteps
<1>6. CASE /\ decision # "captured_conflict"
           /\ \A p \in Active : payment[p] \notin {"PENDING", "AUTHORIZED"}
  <2>1. \A p \in Attempts : payment[p] \notin {"PENDING", "AUTHORIZED", "SUCCEEDED"}
    BY <1>2, <1>6 DEF Active, DataInv, RowsAreTrue, PaymentInv
  <2>2. NothingLeft
    BY <1>1, <2>1, NothingAt DEF NothingLeft
  <2>3. CASE Answer(c, "CANCELLED")
    BY <1>5, <2>2, <2>3
  <2> QED
    BY <1>6, <2>3 DEF flip, decision
<1>7. CASE decision = "captured_conflict"
  BY <1>5, <1>7 DEF flip, decision
<1>8. ASSUME decision # "captured_conflict", UNCHANGED answered, NEW p \in Active,
             \/ payment[p] = "AUTHORIZED" /\ GoRead(c, "cancel.void", p, "")
             \/ payment[p] = "PENDING" /\ GoRead(c, "cancel.expire", p, "")
      PROVE  PaymentInv'
  <2>1. /\ p \in Attempts /\ p \in Rows /\ \A q \in Rows : q <= p
        /\ payment[p] = "AUTHORIZED" => intent[p] # "none"
    BY <1>1 DEF Active, Rows, DataInv, OneActive, RowsAreTrue
  <2>2. header' \in {"CANCELLED", "CAPTURED"}
    BY <1>1, <1>4, <2>1 DEF DataInv, HeaderFits
  <2>3. PICK pc \in {"cancel.void", "cancel.expire"} :
          GoRead(c, pc, p, "") /\ (pc = "cancel.void" => payment[p] = "AUTHORIZED")
    BY <1>8
  <2>4. pc \in Words /\ "" \in Words
    BY DEF Words
  <2>5. /\ call' \in [Calls -> CallRecord]
        /\ call'[c].pc = pc /\ call'[c].p = p /\ \A x \in Calls \ {c} : call'[x] = call[x]
    BY <1>1, <2>1, <2>3, <2>4, GoReadEffect, ZenonT(60)
  <2>6. Rows' = Rows /\ Closed'
    BY <1>1, <2>2 DEF Rows, Closed
  <2>7. CallOK(c)'
    BY <1>1, <2>1, <2>3, <2>5, <2>6 DEF CallOK, OpenCall, AuthCall, CancelCall, CaptureCall, KeyCall, Where, IsLatest
  <2>8. DataInv' /\ Grows
    BY <1>1, <1>4, <1>8, HeaderMoves DEF AnswersAreTrue
  <2>9. PaymentTypes'
    BY <1>1, <1>4, <2>5 DEF PaymentTypes, PaymentOrderStatus
  <2> QED
    BY <2>5, <2>7, <2>8, <2>9, OneCallSteps
<1> QED
  BY <1>6, <1>7, <1>8 DEF flip, decision

-----------------------------------------------------------------------------
(* The rows *)

(* A payment that waits for money or holds it moves on; it is the last one, so no other is active. *)
LEMMA RowMoves ==
  ASSUME PaymentTypes, DataInv, NEW p \in Attempts, payment[p] \in {"PENDING", "AUTHORIZED"},
         NEW s \in PaymentStatus \ {"NONE", "PENDING"}, payment' = [payment EXCEPT ![p] = s]
  PROVE  /\ payment' \in [Attempts -> PaymentStatus] /\ payment'[p] = s
         /\ \A q \in Attempts \ {p} : /\ payment'[q] = payment[q]
                                      /\ payment[q] \in {"NONE", "FAILED", "EXPIRED"}
         /\ Rows' = Rows /\ RowsInOrder' /\ OneActive'
<1>1. /\ payment' \in [Attempts -> PaymentStatus] /\ payment'[p] = s
      /\ \A q \in Attempts \ {p} : payment'[q] = payment[q]
  BY DEF PaymentTypes
<1>2. Rows' = Rows /\ Active' \subseteq Active /\ p \in Active /\ p \in Rows /\ Attempts \subseteq Int
  BY <1>1 DEF Rows, Active, Attempts
<1>3. RowsInOrder' /\ OneActive'
  BY <1>2 DEF DataInv, RowsInOrder, OneActive
<1>4. \A q \in Active : q = p
  BY <1>2 DEF DataInv, OneActive, Active, Rows
<1>5. \A q \in Attempts \ {p} : payment[q] \in {"NONE", "FAILED", "EXPIRED"}
  BY <1>4 DEF Active
<1> QED
  BY <1>1, <1>2, <1>3, <1>5

(* What a step may make of a row, in one transaction with the header. *)
LEMMA RowMovesKeep ==
  ASSUME PaymentTypes, DataInv, NEW p \in Attempts, payment[p] \in {"PENDING", "AUTHORIZED"},
         NEW s \in {"EXPIRED", "FAILED", "VOIDED", "SUCCEEDED"}, payment' = [payment EXCEPT ![p] = s],
         UNCHANGED <<authorizedAt, keyGen, session, intent, fault, emitted>>,
         s \in {"EXPIRED", "FAILED"} => Ended(p),
         s = "VOIDED" => intent[p] = "canceled",
         s = "SUCCEEDED" => intent[p] = "succeeded" /\ header' = "CAPTURED",
         s = "FAILED" => header' = "CANCELLED",
         s \in {"EXPIRED", "VOIDED"} => header' = header,
         payment[p] = "AUTHORIZED" /\ s \in {"EXPIRED", "VOIDED"} => header # "AUTHORIZED",
         AnswersAreTrue
  PROVE  DataInv' /\ Grows
<1>1. s \in PaymentStatus \ {"NONE", "PENDING"}
  BY DEF PaymentStatus
<1>2. /\ payment' \in [Attempts -> PaymentStatus] /\ payment'[p] = s
      /\ \A q \in Attempts \ {p} : /\ payment'[q] = payment[q]
                                   /\ payment[q] \in {"NONE", "FAILED", "EXPIRED"}
      /\ Rows' = Rows /\ RowsInOrder' /\ OneActive'
  BY <1>1, RowMoves
<1>3. /\ header # "CAPTURED" /\ p \in Rows
      /\ intent[p] = "succeeded" => emitted[p] = 1 /\ authorizedAt
      /\ authorizedAt => header \in {"AUTHORIZED", "CAPTURED", "CANCELLED"}
  BY <1>2 DEF DataInv, HeaderFits, RowsAreTrue, RecordedOnce, Rows
<1>4. RowsAreTrue'
  BY <1>2, <1>3 DEF DataInv, RowsAreTrue, Ended, RETIRED
<1>5. HeaderFits'
  <2>1. header \in {"NONE", "FENCED"} => Rows = {}
    BY DEF DataInv, HeaderFits
  <2>2. header' = "CAPTURED" => s = "SUCCEEDED"
    BY <1>3
  <2>3. header' = "AUTHORIZED" => payment[p] = "PENDING" /\ header = "AUTHORIZED"
    BY DEF DataInv, HeaderFits
  <2>4. header # "AUTHORIZED" \/ payment[p] # "PENDING"
    BY DEF DataInv, HeaderFits, RecordedOnce
  <2> QED
    BY <1>2, <1>3, <2>1, <2>2, <2>3, <2>4 DEF HeaderFits
<1>6. RecordedOnce' /\ KeptKeys'
  BY <1>2 DEF DataInv, RecordedOnce, KeptKeys
<1>7. AnswersHold'
  BY <1>3 DEF DataInv, AnswersHold, AnswersAreTrue, NothingLeft
<1>8. Grows
  BY <1>2, <1>3 DEF Grows, Closed
<1> QED
  BY <1>2, <1>4, <1>5, <1>6, <1>7, <1>8 DEF DataInv

LEMMA MarkKeeps ==
  ASSUME PaymentInv, NEW p \in Attempts, markExpired(p) \/ markVoided(p)
  PROVE  PaymentInv'
<1>1. /\ PaymentTypes /\ DataInv /\ payment[p] = "PENDING"
      /\ UNCHANGED <<header, authorizedAt, keyGen, webhook, session, intent, fault, call, emitted, answered>>
  BY DEF PaymentInv, markExpired, markVoided, headerRow, stripe, history
<1>2. PICK s \in {"EXPIRED", "VOIDED"} :
        /\ payment' = [payment EXCEPT ![p] = s]
        /\ s = "EXPIRED" => Ended(p)
        /\ s = "VOIDED" => intent[p] = "canceled"
  BY <1>1 DEF markExpired, markVoided, updateStatus, retrieveAuthorization, Ended
<1>3. DataInv' /\ Grows
  BY <1>1, <1>2, RowMovesKeep DEF AnswersAreTrue
<1>4. PaymentTypes'
  BY <1>1, <1>2, RowMoves DEF PaymentTypes, PaymentStatus
<1> QED
  BY <1>1, <1>3, <1>4, NoCallSteps

(* updateStatus with an expectedStatus does nothing to a row that moved on. *)
LEMMA UpdateStatusEffect ==
  ASSUME PaymentTypes, NEW p \in Attempts, NEW expected, NEW s, updateStatus(p, expected, s)
  PROVE  payment' = IF payment[p] \in expected THEN [payment EXCEPT ![p] = s] ELSE payment
<1>1. payment = [q \in Attempts |-> payment[q]]
  BY DEF PaymentTypes
<1>2. CASE payment[p] \in expected
  BY <1>2 DEF updateStatus, PaymentTypes
<1>3. CASE payment[p] \notin expected
  BY <1>1, <1>3 DEF updateStatus, PaymentTypes
<1> QED
  BY <1>2, <1>3

LEMMA RecordReleaseKeeps ==
  ASSUME PaymentInv, NEW c \in Calls, recordRelease(c)
  PROVE  PaymentInv'
<1> DEFINE p == call[c].p
           released == call[c].seen
           outcome == IF released = "CAPTURED" THEN "CAPTURED_CONFLICT" ELSE "CANCELLED"
<1>1. /\ PaymentTypes /\ DataInv /\ call[c].pc = "cancel.record"
      /\ UNCHANGED <<authorizedAt, keyGen, webhook, session, intent, fault, emitted>>
      /\ outcome \in Words /\ Answer(c, outcome)
  BY DEF PaymentInv, recordRelease, stripe, Words, PaymentOrderStatus
<1>2. /\ Closed /\ IsLatest(p)
      /\ \/ released = "EXPIRED" /\ session[p] = "expired"
         \/ released = "VOIDED" /\ intent[p] = "canceled"
         \/ released = "CAPTURED" /\ intent[p] = "succeeded"
  BY <1>1 DEF PaymentInv, CallOK, CancelCall, Where
<1>3. PICK n \in Attempts : n = p /\ n \in Rows /\ \A q \in Rows : q <= n
  BY <1>2 DEF IsLatest, Rows
<1>4. /\ call' \in [Calls -> CallRecord] /\ answered' = answered \union {outcome}
      /\ CallOK(c)' /\ \A x \in Calls \ {c} : call'[x] = call[x]
  BY <1>1, AnswerEffect
<1>5. CASE released \in {"EXPIRED", "VOIDED"}
  <2>1. UNCHANGED header /\ Ended(n) /\ (released = "VOIDED" => intent[n] = "canceled")
    BY <1>2, <1>3, <1>5 DEF recordRelease, Ended
  <2>2. NothingLeft
    <3>1. ASSUME NEW q \in Attempts, q # n
          PROVE  payment[q] \notin {"PENDING", "AUTHORIZED", "SUCCEEDED"}
      <4>1. q \in Active => q <= n /\ n <= q
        BY <1>1, <1>3 DEF DataInv, OneActive, Active, Rows
      <4> QED
        BY <3>1, <4>1 DEF Active, Attempts
    <3> QED
      BY <1>1, <2>1, <3>1, NothingAt DEF NothingLeft
  <2>3. AnswersAreTrue
    BY <1>2, <1>4, <1>5, <2>1, <2>2 DEF AnswersAreTrue, Closed
  <2>4. CASE payment' = payment
    <3>1. DataInv' /\ Grows
      BY <1>1, <2>1, <2>3, <2>4, HeaderMoves
    <3>2. PaymentTypes'
      BY <1>1, <1>4, <2>1, <2>4 DEF PaymentTypes
    <3> QED
      BY <1>4, <3>1, <3>2, OneCallSteps
  <2>5. CASE payment[n] \in {"PENDING", "AUTHORIZED"} /\ payment' = [payment EXCEPT ![n] = released]
                /\ (released = "EXPIRED" => payment[n] = "PENDING")
    <3>1. PICK s \in {"EXPIRED", "VOIDED"} : s = released
      BY <1>5
    <3>2. DataInv' /\ Grows
      BY <1>1, <1>2, <2>1, <2>3, <2>5, <3>1, RowMovesKeep DEF Closed
    <3>3. PaymentTypes'
      BY <1>1, <1>4, <2>1, <2>5, <3>1, RowMoves DEF PaymentTypes, PaymentStatus
    <3> QED
      BY <1>4, <3>2, <3>3, OneCallSteps
  <2>6. \/ released = "EXPIRED" /\ updateStatus(n, {"PENDING"}, "EXPIRED")
        \/ released = "VOIDED" /\ updateStatus(n, {"PENDING", "AUTHORIZED"}, "VOIDED")
    BY <1>3, <1>5 DEF recordRelease
  <2> QED
    BY <1>1, <2>4, <2>5, <2>6, UpdateStatusEffect
<1>6. CASE released = "CAPTURED"
  <2>1. intent[n] = "succeeded" /\ header' = "CAPTURED" /\ updateStatus(n, {"PENDING", "AUTHORIZED"}, "SUCCEEDED")
    BY <1>2, <1>3, <1>6 DEF recordRelease
  <2>2. AnswersAreTrue
    BY <1>4, <1>6, <2>1 DEF AnswersAreTrue
  <2>3. payment[n] \in {"AUTHORIZED", "SUCCEEDED"}
    BY <1>1, <1>3, <2>1 DEF DataInv, RowsAreTrue, Ended, RETIRED, PaymentTypes, PaymentStatus
  <2>4. CASE payment[n] = "SUCCEEDED"
    <3>1. payment' = payment /\ header' = header
      BY <1>1, <2>1, <2>4, UpdateStatusEffect DEF DataInv, RowsAreTrue
    <3>2. DataInv' /\ Grows
      BY <1>1, <2>2, <3>1, HeaderMoves
    <3>3. PaymentTypes'
      BY <1>1, <1>4, <3>1 DEF PaymentTypes
    <3> QED
      BY <1>4, <3>2, <3>3, OneCallSteps
  <2>5. CASE payment[n] = "AUTHORIZED"
    <3>1. payment' = [payment EXCEPT ![n] = "SUCCEEDED"]
      BY <1>1, <2>1, <2>5, UpdateStatusEffect
    <3>2. DataInv' /\ Grows
      BY <1>1, <2>1, <2>2, <2>5, <3>1, RowMovesKeep
    <3>3. PaymentTypes'
      BY <1>1, <1>4, <2>1, <2>5, <3>1, RowMoves DEF PaymentTypes, PaymentStatus, PaymentOrderStatus
    <3> QED
      BY <1>4, <3>2, <3>3, OneCallSteps
  <2> QED
    BY <2>3, <2>4, <2>5
<1> QED
  BY <1>2, <1>5, <1>6

(* A hold that was refused or taken: the header was told of it before, so it cannot read otherwise. *)
LEMMA SettleKeeps ==
  ASSUME PaymentInv, NEW c \in Calls, settle(c)
  PROVE  PaymentInv'
<1> DEFINE result == call[c].seen
<1>1. /\ PaymentTypes /\ DataInv /\ call[c].pc = "capture.settle"
      /\ UNCHANGED <<authorizedAt, keyGen, webhook, session, intent, fault, emitted>>
      /\ "NOT_CAPTURABLE" \in Words /\ "CAPTURED" \in Words
  BY DEF PaymentInv, settle, stripe, Words, PaymentOrderStatus
<1>2. PICK n \in Attempts :
        /\ n = call[c].p /\ n \in Rows /\ emitted[n] = 1
        /\ \/ result = "captured" /\ intent[n] = "succeeded"
           \/ result = "not_capturable" /\ intent[n] = "canceled"
  BY <1>1 DEF PaymentInv, CallOK, CaptureCall, Where, Rows
<1>3. authorizedAt
  BY <1>2 DEF PaymentInv, DataInv, RecordedOnce
<1>4. CASE result = "not_capturable"
  <2>1. header' = "CANCELLED" /\ Answer(c, "NOT_CAPTURABLE") /\ updateStatus(n, {"AUTHORIZED"}, "FAILED") /\ Ended(n)
    BY <1>2, <1>4 DEF settle, Ended
  <2>2. header \in {"AUTHORIZED", "CANCELLED"} /\ "CAPTURED" \notin answered
    <3>1. header # "CAPTURED"
      <4>1. SUFFICES ASSUME header = "CAPTURED"
                     PROVE  FALSE
        OBVIOUS
      <4>2. PICK q \in Attempts : payment[q] = "SUCCEEDED"
        BY <1>1, <4>1 DEF DataInv, HeaderFits
      <4>3. intent[q] = "succeeded" /\ emitted[q] = 1
        BY <1>1, <4>2 DEF DataInv, RowsAreTrue
      <4> QED
        BY <1>1, <1>2, <1>4, <4>3 DEF DataInv, RecordedOnce
    <3> QED
      BY <1>1, <1>3, <3>1 DEF DataInv, HeaderFits, AnswersHold
  <2>3. /\ call' \in [Calls -> CallRecord] /\ answered' = answered \union {"NOT_CAPTURABLE"}
        /\ CallOK(c)' /\ \A x \in Calls \ {c} : call'[x] = call[x]
    BY <1>1, <2>1, AnswerEffect
  <2>4. AnswersAreTrue
    BY <2>3 DEF AnswersAreTrue
  <2>5. CASE payment[n] = "AUTHORIZED"
    <3>1. payment' = [payment EXCEPT ![n] = "FAILED"]
      BY <1>1, <2>1, <2>5, UpdateStatusEffect
    <3>2. DataInv' /\ Grows
      BY <1>1, <2>1, <2>4, <2>5, <3>1, RowMovesKeep
    <3>3. PaymentTypes'
      BY <1>1, <2>1, <2>3, <2>5, <3>1, RowMoves DEF PaymentTypes, PaymentStatus, PaymentOrderStatus
    <3> QED
      BY <2>3, <3>2, <3>3, OneCallSteps
  <2>6. CASE payment[n] # "AUTHORIZED"
    <3>1. payment' = payment
      BY <1>1, <2>1, <2>6, UpdateStatusEffect
    <3>2. DataInv' /\ Grows
      BY <1>1, <2>1, <2>2, <2>4, <3>1, HeaderMoves
    <3>3. PaymentTypes'
      BY <1>1, <2>1, <2>3, <3>1 DEF PaymentTypes, PaymentOrderStatus
    <3> QED
      BY <2>3, <3>2, <3>3, OneCallSteps
  <2> QED
    BY <2>5, <2>6
<1>5. CASE result = "captured"
  <2>1. intent[n] = "succeeded" /\ Answer(c, "CAPTURED")
    BY <1>2, <1>5 DEF settle
  <2>2. /\ call' \in [Calls -> CallRecord] /\ answered' = answered \union {"CAPTURED"}
        /\ CallOK(c)' /\ \A x \in Calls \ {c} : call'[x] = call[x]
    BY <1>1, <2>1, AnswerEffect
  <2>3. CASE payment[n] = "AUTHORIZED" /\ header' = "CAPTURED" /\ updateStatus(n, {"AUTHORIZED"}, "SUCCEEDED")
    <3>1. payment' = [payment EXCEPT ![n] = "SUCCEEDED"]
      BY <1>1, <2>3, UpdateStatusEffect
    <3>2. AnswersAreTrue
      BY <2>2, <2>3 DEF AnswersAreTrue
    <3>3. DataInv' /\ Grows
      BY <1>1, <2>1, <2>3, <3>1, <3>2, RowMovesKeep
    <3>4. PaymentTypes'
      BY <1>1, <2>2, <2>3, <3>1, RowMoves DEF PaymentTypes, PaymentStatus, PaymentOrderStatus
    <3> QED
      BY <2>2, <3>3, <3>4, OneCallSteps
  <2>4. CASE payment[n] = "SUCCEEDED" /\ UNCHANGED <<header, payment>>
    <3>1. AnswersAreTrue
      BY <1>1, <2>2, <2>4 DEF AnswersAreTrue, DataInv, RowsAreTrue
    <3>2. DataInv' /\ Grows
      BY <1>1, <2>4, <3>1, HeaderMoves
    <3>3. PaymentTypes'
      BY <1>1, <2>2, <2>4 DEF PaymentTypes
    <3> QED
      BY <2>2, <3>2, <3>3, OneCallSteps
  <2> QED
    BY <1>2, <1>5, <2>3, <2>4 DEF settle
<1> QED
  BY <1>2, <1>4, <1>5

(* A new attempt takes the place of one whose session Stripe says has expired. *)
LEMMA InsertKeeps ==
  ASSUME PaymentInv, NEW c \in Calls, insertIfStillOpen(c)
  PROVE  PaymentInv'
<1> DEFINE new == Latest + 1
           replaceable == \A p \in Active : p = call[c].p /\ payment[p] = "PENDING"
<1>1. /\ PaymentTypes /\ DataInv /\ call[c].pc = "open.insert" /\ End(c)
      /\ UNCHANGED <<header, authorizedAt, keyGen, webhook, intent, fault, emitted, answered>>
  BY DEF PaymentInv, insertIfStillOpen, headerRow, history
<1>2. CASE UNCHANGED <<payment, session>>
  <2>1. UNCHANGED data /\ webhook' \subseteq Attempts
    BY <1>1, <1>2 DEF data, headerRow, stripe, history, PaymentTypes
  <2> QED
    BY <1>1, <2>1, CallEnds
<1>3. CASE /\ header = "OPEN" /\ replaceable /\ new <= MaxAttempts /\ createSession(new)
           /\ payment' = [p \in Attempts |-> CASE p = new       -> "PENDING"
                                               [] p \in Active -> "EXPIRED"
                                               [] OTHER        -> payment[p]]
  <2>1. Latest \in 0 .. MaxAttempts /\ Rows = 1 .. Latest
    BY <1>1, LatestIs DEF DataInv
  <2>2. PICK n \in Attempts : n = new /\ n \notin Rows /\ Rows = 1 .. (n - 1)
    BY <1>3, <2>1, AttemptsAssumption DEF Attempts
  <2>3. payment[n] = "NONE" /\ session[n] = "none" /\ intent[n] = "none" /\ n \notin Active
    BY <1>1, <2>2 DEF Rows, Active, DataInv, RowsAreTrue
  <2>4. \A q \in Active : q \in Attempts /\ session[q] = "expired"
    <3>1. ASSUME NEW q \in Active
          PROVE  q \in Attempts /\ session[q] = "expired"
      <4>1. q = call[c].p /\ q \in Attempts /\ q # 0
        BY <1>3, <3>1, AttemptsAssumption DEF Active, Attempts
      <4> QED
        BY <1>1, <4>1 DEF PaymentInv, CallOK, OpenCall
    <3> QED
      BY <3>1
  <2>5. ~authorizedAt /\ \A q \in Attempts : emitted[q] = 0
    BY <1>1, <1>3 DEF DataInv, HeaderFits, RecordedOnce, PaymentTypes
  <2>6. /\ session' \in [Attempts -> {"none", "open", "complete", "expired"}]
        /\ session'[n] = "open" /\ \A q \in Attempts \ {n} : session'[q] = session[q]
    BY <1>1, <1>3, <2>2 DEF createSession, PaymentTypes
  <2>7. payment'[n] = "PENDING"
    <3>1. payment'[n] = CASE n = new       -> "PENDING"
                          [] n \in Active -> "EXPIRED"
                          [] OTHER        -> payment[n]
      BY <1>3
    <3>2. n = new /\ n \notin Active
      BY <2>2, <2>3
    <3> HIDE DEF new
    <3> QED
      BY <3>1, <3>2
  <2>8. \A q \in Attempts \ {n} : payment'[q] = IF q \in Active THEN "EXPIRED" ELSE payment[q]
    <3>1. SUFFICES ASSUME NEW q \in Attempts \ {n}
                   PROVE  payment'[q] = IF q \in Active THEN "EXPIRED" ELSE payment[q]
      OBVIOUS
    <3>2. payment'[q] = CASE q = new       -> "PENDING"
                          [] q \in Active -> "EXPIRED"
                          [] OTHER        -> payment[q]
      BY <1>3
    <3>3. q # new
      BY <2>2
    <3> HIDE DEF new
    <3> QED
      BY <3>2, <3>3
  <2>9. payment' \in [Attempts -> PaymentStatus]
    <3>1. \A q \in Attempts : payment'[q] \in PaymentStatus
      BY <1>1, <2>7, <2>8 DEF PaymentTypes, PaymentStatus
    <3>2. payment' = [q \in Attempts |-> payment'[q]]
      BY <1>3
    <3> QED
      BY <3>1, <3>2
  <2>10. Rows' = 1 .. n /\ Active' \subseteq {n}
    <3>1. \A q \in Attempts : q \in Rows' <=> q = n \/ q \in Rows
      BY <2>7, <2>8 DEF Rows, Active
    <3>2. \A q \in Attempts : q \in Active' => q = n
      BY <2>8 DEF Active
    <3> QED
      BY <2>2, <3>1, <3>2 DEF Rows, Active, Attempts
  <2>11. RowsInOrder' /\ OneActive'
    <3>1. n \in 0 .. MaxAttempts
      BY AttemptsAssumption DEF Attempts
    <3> QED
      BY <2>10, <3>1 DEF RowsInOrder, OneActive
  <2>12. RowsAreTrue'
    <3>1. ASSUME NEW q \in Attempts, q # n, q \in Active
          PROVE  payment'[q] = "EXPIRED" /\ session'[q] = "expired" /\ intent[q] # "succeeded"
      BY <1>1, <2>4, <2>6, <2>8, <3>1 DEF DataInv, RowsAreTrue
    <3>2. ASSUME NEW q \in Attempts, q # n, q \notin Active
          PROVE  payment'[q] = payment[q] /\ session'[q] = session[q]
      BY <2>6, <2>8, <3>2
    <3> QED
      BY <1>1, <2>3, <2>4, <2>5, <2>6, <2>7, <3>1, <3>2 DEF DataInv, RowsAreTrue, Ended, RETIRED
  <2>13. HeaderFits' /\ RecordedOnce' /\ KeptKeys'
    BY <1>1, <1>3, <2>5 DEF DataInv, HeaderFits, RecordedOnce, KeptKeys
  <2>14. AnswersHold'
    BY <1>1, <1>3 DEF DataInv, AnswersHold
  <2>15. Grows
    <3>1. Rows \subseteq Rows'
      BY <2>2, <2>10
    <3> QED
      BY <1>1, <1>3, <2>3, <2>6, <3>1 DEF Grows, Closed
  <2>16. PaymentTypes' /\ CallOK(c)' /\ \A x \in Calls \ {c} : call'[x] = call[x]
    BY <1>1, <2>6, <2>9, EndEffect DEF PaymentTypes
  <2> QED
    BY <2>11, <2>12, <2>13, <2>14, <2>15, <2>16, OneCallSteps DEF DataInv
<1> QED
  BY <1>2, <1>3 DEF insertIfStillOpen

(* A hold is recorded on the last payment, with its event, and once. *)
LEMMA ApplyKeeps ==
  ASSUME PaymentInv, NEW c \in Calls, applyAuthorization(c)
  PROVE  PaymentInv'
<1> DEFINE p == call[c].p
           decision == decideAuthorization(payment[p], header, authorizedAt, p \notin Mismatched)
<1>1. /\ PaymentTypes /\ DataInv /\ call[c].pc = "auth.apply" /\ End(c)
      /\ UNCHANGED <<keyGen, session, intent, fault, answered>>
  BY DEF PaymentInv, applyAuthorization, stripe
<1>2. PICK n \in Attempts : n = p /\ n \in Rows /\ intent[n] # "none"
  BY <1>1 DEF PaymentInv, CallOK, AuthCall, Where, Rows
<1>3. webhook' \subseteq Attempts
  BY <1>1, <1>2 DEF applyAuthorization, logged, PaymentTypes
<1>4. CASE UNCHANGED <<headerRow, payment, emitted>>
  <2>1. UNCHANGED data
    BY <1>1, <1>4 DEF data, stripe, history
  <2> QED
    BY <1>1, <1>3, <2>1, CallEnds
<1>5. CASE /\ decision \in {"RECORD", "RECORD_LATE"}
           /\ payment' = [payment EXCEPT ![n] = "AUTHORIZED"]
           /\ header' = IF decision = "RECORD" THEN "AUTHORIZED" ELSE header
           /\ authorizedAt' = TRUE
           /\ appendAuthorized(n)
  <2>1. /\ payment[n] \notin RECORDED /\ payment[n] \notin RETIRED /\ ~authorizedAt
        /\ header \notin {"AUTHORIZED", "CAPTURED"}
        /\ decision = "RECORD" <=> header # "CANCELLED"
    BY <1>2, <1>5 DEF decideAuthorization
  <2>2. payment[n] = "PENDING" /\ session[n] = "complete" /\ \A q \in Attempts : emitted[q] = 0
    <3>1. payment[n] = "PENDING"
      BY <1>1, <1>2, <2>1 DEF PaymentTypes, PaymentStatus, RECORDED, RETIRED, Rows
    <3>2. session[n] = "complete"
      BY <1>1, <1>2 DEF DataInv, RowsAreTrue
    <3>3. \A q \in Attempts : emitted[q] = 0
      BY <1>1, <2>1 DEF DataInv, RecordedOnce, PaymentTypes
    <3> QED
      BY <3>1, <3>2, <3>3
  <2>3. /\ header \in {"OPEN", "CANCELLED"} /\ authorizedAt' = TRUE
        /\ header' = IF header = "OPEN" THEN "AUTHORIZED" ELSE "CANCELLED"
    <3>1. header \notin {"NONE", "FENCED"}
      BY <1>1, <1>2 DEF DataInv, HeaderFits
    <3> QED
      BY <1>1, <1>5, <2>1, <3>1 DEF PaymentTypes, PaymentOrderStatus
  <2> HIDE DEF decision
  <2>4. "AUTHORIZED" \in PaymentStatus \ {"NONE", "PENDING"}
    BY DEF PaymentStatus
  <2>5. /\ payment' \in [Attempts -> PaymentStatus] /\ payment'[n] = "AUTHORIZED"
        /\ \A q \in Attempts \ {n} : /\ payment'[q] = payment[q]
                                     /\ payment[q] \in {"NONE", "FAILED", "EXPIRED"}
        /\ Rows' = Rows /\ RowsInOrder' /\ OneActive'
    BY <1>1, <1>5, <2>2, <2>4, RowMoves
  <2>6. /\ emitted' \in [Attempts -> {0, 1}] /\ emitted'[n] = 1
        /\ \A q \in Attempts \ {n} : emitted'[q] = 0
    <3>1. emitted' = [emitted EXCEPT ![n] = 1]
      <4>1. emitted' = [emitted EXCEPT ![n] = emitted[n] + 1]
        BY <1>5 DEF appendAuthorized
      <4>2. emitted[n] + 1 = 1
        BY <2>2
      <4> QED
        BY <4>1, <4>2
    <3> QED
      BY <1>1, <2>2, <3>1 DEF PaymentTypes
  <2>7. RowsAreTrue'
    <3>1. \A q \in Attempts : intent[q] # "succeeded"
      BY <1>1, <2>2 DEF DataInv, RowsAreTrue
    <3> QED
      BY <1>1, <2>2, <2>5, <2>6, <3>1 DEF DataInv, RowsAreTrue, Ended, RETIRED
  <2>8. HeaderFits'
    BY <2>3, <2>5 DEF HeaderFits
  <2>9. RecordedOnce'
    <3>1. \A q \in Attempts : payment'[q] # "PENDING"
      BY <2>5
    <3>2. \A q \in Attempts : emitted'[q] = 1 => q = n
      BY <2>6
    <3> QED
      BY <2>3, <2>6, <3>1, <3>2 DEF RecordedOnce
  <2>10. AnswersHold'
    BY <1>1, <2>3 DEF DataInv, AnswersHold
  <2>11. KeptKeys'
    BY <1>1 DEF DataInv, KeptKeys
  <2>12. Grows
    BY <1>1, <2>2, <2>3, <2>5 DEF Grows, Closed
  <2>13. PaymentTypes'
    BY <1>1, <1>3, <2>3, <2>5, <2>6, EndEffect DEF PaymentTypes, PaymentOrderStatus
  <2>14. CallOK(c)' /\ \A x \in Calls \ {c} : call'[x] = call[x]
    BY <1>1, EndEffect
  <2> QED
    BY <2>5, <2>7, <2>8, <2>9, <2>10, <2>11, <2>12, <2>13, <2>14, OneCallSteps DEF DataInv
<1> QED
  BY <1>2, <1>4, <1>5 DEF applyAuthorization

LEMMA PaymentInvInit == Init => PaymentInv
<1>1. SUFFICES ASSUME Init
               PROVE  PaymentInv
  OBVIOUS
<1>2. PaymentTypes
  BY <1>1, IdleTyped DEF Init, PaymentTypes, PaymentOrderStatus, PaymentStatus
<1>3. Rows = {} /\ Active = {}
  BY <1>1 DEF Init, Rows, Active
<1>4. RowsInOrder /\ OneActive
  <2>1. 0 \in 0 .. MaxAttempts /\ 1 .. 0 = {}
    BY AttemptsAssumption
  <2> QED
    BY <1>3, <2>1 DEF RowsInOrder, OneActive
<1>5. RowsAreTrue /\ HeaderFits /\ RecordedOnce /\ AnswersHold
  BY <1>1, <1>3 DEF Init, RowsAreTrue, HeaderFits, RecordedOnce, AnswersHold, Ended, RETIRED
<1>6. KeptKeys
  BY <1>1 DEF Init, KeptKeys
<1>7. \A c \in Calls : CallOK(c)
  BY <1>1, IdleTyped DEF Init, CallOK, OpenCall, AuthCall, CancelCall, CaptureCall, KeyCall, Where
<1> QED
  BY <1>2, <1>4, <1>5, <1>6, <1>7 DEF PaymentInv, DataInv

LEMMA PaymentInvStep == PaymentInv /\ [Next]_vars => PaymentInv'
<1>1. SUFFICES ASSUME PaymentInv, [Next]_vars
               PROVE  PaymentInv'
  OBVIOUS
<1>2. ASSUME UNCHANGED <<data, webhook, call>>
      PROVE  PaymentInv'
  <2>1. PaymentTypes' /\ UNCHANGED call
    BY <1>1, <1>2 DEF PaymentInv, PaymentTypes, data, headerRow, stripe, history
  <2>2. DataInv' /\ Grows
    BY <1>1, <1>2, DataKept DEF PaymentInv
  <2> QED
    BY <1>1, <2>1, <2>2, NoCallSteps
<1>3. CASE UNCHANGED vars
  BY <1>2, <1>3 DEF vars, rows, data
<1>4. ASSUME NEW p \in Attempts, sweepWebhookEvents(p)
      PROVE  PaymentInv'
  <2>1. /\ UNCHANGED data /\ UNCHANGED call
        /\ webhook' \subseteq Attempts
    BY <1>1, <1>4 DEF sweepWebhookEvents, deleteReceivedBefore, data, PaymentInv, PaymentTypes
  <2>2. PaymentTypes'
    BY <1>1, <2>1 DEF PaymentInv, PaymentTypes, data, headerRow, stripe, history
  <2>3. DataInv' /\ Grows
    BY <1>1, <2>1, DataKept DEF PaymentInv
  <2> QED
    BY <1>1, <2>1, <2>2, <2>3, NoCallSteps
<1>5. ASSUME NEW c \in Calls, CallStops(c)
      PROVE  PaymentInv'
  <2>1. UNCHANGED data /\ webhook' \subseteq Attempts /\ End(c)
    BY <1>1, <1>5 DEF CallStops, gatewayFails, callLost, data, rows, PaymentInv, PaymentTypes
  <2> QED
    BY <1>1, <2>1, CallEnds
<1>6. ASSUME NEW c \in Calls, Proceed(c)
      PROVE  PaymentInv'
  <2>1. ASSUME voidStray(c) \/ voidHold(c) \/ captureIntent(c)
        PROVE  PaymentInv'
    <3>1. PICK pc \in IntentPC : requestIntent(c, pc)
      BY <2>1 DEF voidStray, voidHold, captureIntent, IntentPC
    <3> QED
      BY <1>1, <3>1, RequestKeeps
  <2> QED
    BY <1>1, <1>6, <2>1, ProbeKeeps, InsertKeeps, PrepareHeaderKeeps, PreparePaymentKeeps, ApplyKeeps,
       ReleaseSessionKeeps, ReleaseCompletedKeeps, RecordReleaseKeeps, CaptureReadKeeps, SettleKeeps,
       ServerErrorKeeps, ReadIntentAfterKeeps, IncrementKeyGenKeeps
       DEF Proceed
<1>7. ASSUME NEW c \in Calls, Commands(c)
      PROVE  PaymentInv'
  BY <1>1, <1>7, OpenSessionKeeps, FlipKeeps, CaptureKeeps DEF Commands
<1>8. ASSUME NEW c \in Calls, NEW p \in Attempts, Reconcile(c, p) \/ Webhook(c, p)
      PROVE  PaymentInv'
  BY <1>1, <1>8, HoldReadKeeps, MarkKeeps DEF Reconcile, Webhook
<1>9. ASSUME NEW p \in Attempts, Outside(p)
      PROVE  PaymentInv'
  BY <1>1, <1>9, OutsideKeeps
<1> QED
  BY <1>1, <1>3, <1>4, <1>5, <1>6, <1>7, <1>8, <1>9 DEF Next

-----------------------------------------------------------------------------
(* The service's rows, its outbox and its answers always agree with the money at Stripe, and every    *)
(* use case under way acts on what is still so: PaymentInv is inductive.                              *)
THEOREM PaymentIsConsistent == Spec => []PaymentInv
<1>1. Init => PaymentInv
  BY PaymentInvInit
<1>2. PaymentInv /\ [Next]_vars => PaymentInv'
  BY PaymentInvStep
<1> QED
  BY <1>1, <1>2, PTL DEF Spec

(* withIntentKey leaves a key behind only when Stripe answered a request under it with a 5xx. *)
THEOREM KeysAreKept == Spec => []KeptKeys
<1>1. PaymentInv => KeptKeys
  BY DEF PaymentInv, DataInv
<1> QED
  BY <1>1, PaymentIsConsistent, PTL

LEMMA AtMostOne ==
  ASSUME NEW S, \A x, y \in S : x = y
  PROVE  Cardinality(S) \in Nat /\ Cardinality(S) <= 1
<1>1. CASE S = {}
  BY <1>1, FS_EmptySet
<1>2. CASE S # {}
  <2>1. PICK x \in S : S = {x}
    BY <1>2
  <2> QED
    BY <2>1, FS_Singleton
<1> QED
  BY <1>1, <1>2

(* What is live at Stripe belongs to the one active row. *)
LEMMA LiveIsActive ==
  ASSUME PaymentTypes, DataInv, NEW p \in Attempts,
         session[p] = "open" \/ intent[p] \in {"requires_capture", "succeeded"}
  PROVE  p \in Active /\ p \in Rows
  BY DEF PaymentTypes, DataInv, RowsAreTrue, Ended, RETIRED, Active, Rows

(* The partial unique index and the order of cancel, expire and insert leave the buyer one thing to pay. *)
THEOREM OneAttemptIsLive == Spec => []OneLiveAttempt
<1>1. PaymentInv => OneLiveAttempt
  <2>1. SUFFICES ASSUME PaymentInv
                 PROVE  OneLiveAttempt
    OBVIOUS
  <2> DEFINE live == {p \in Attempts : session[p] = "open" \/ intent[p] \in {"requires_capture", "succeeded"}}
  <2>2. \A p, q \in live : p = q
    <3>1. SUFFICES ASSUME NEW p \in live, NEW q \in live
                   PROVE  p = q
      OBVIOUS
    <3>2. p \in Active /\ q \in Active /\ p \in Rows /\ q \in Rows
      BY <2>1, LiveIsActive DEF PaymentInv
    <3> QED
      BY <2>1, <3>2 DEF PaymentInv, DataInv, OneActive, Attempts
  <2> HIDE DEF live
  <2>3. Cardinality(live) <= 1
    BY <2>2, AtMostOne
  <2> QED
    BY <2>3 DEF OneLiveAttempt, live
<1> QED
  BY <1>1, PaymentIsConsistent, PTL

(* payment.authorized, the header, a capture answered as done and a cancel answered as done all stand *)
(* for what Stripe holds, took or let go, whatever opens, webhooks and captures interleave.           *)
THEOREM HeaderAlwaysTrue == Spec => []HeaderIsTrue
<1>1. PaymentInv => HeaderIsTrue
  <2>1. SUFFICES ASSUME PaymentInv
                 PROVE  HeaderIsTrue
    OBVIOUS
  <2>2. PaymentTypes /\ DataInv
    BY <2>1 DEF PaymentInv
  <2>3. \A p \in Attempts : emitted[p] <= 1
    BY <2>2 DEF PaymentTypes
  <2>4. Cardinality({p \in Attempts : emitted[p] > 0}) <= 1
    <3>1. \A p, q \in {x \in Attempts : emitted[x] > 0} : p = q
      BY <2>2 DEF DataInv, RecordedOnce, PaymentTypes
    <3> QED
      BY <3>1, AtMostOne
  <2>5. header = "AUTHORIZED" => payment[Latest] = "AUTHORIZED" /\ emitted[Latest] = 1
    <3>1. SUFFICES ASSUME header = "AUTHORIZED"
                   PROVE  payment[Latest] = "AUTHORIZED" /\ emitted[Latest] = 1
      OBVIOUS
    <3>2. PICK p \in Attempts : payment[p] = "AUTHORIZED"
      BY <2>2, <3>1 DEF DataInv, HeaderFits
    <3>3. p \in Active /\ p \in Rows /\ \A q \in Rows : q <= p
      BY <2>2, <3>2 DEF DataInv, OneActive, Active, Rows
    <3>4. Latest \in 0 .. MaxAttempts /\ Rows = 1 .. Latest
      BY <2>2, LatestIs DEF DataInv
    <3>5. p = Latest
      <4>1. p \in 1 .. Latest /\ Latest \in 1 .. Latest
        BY <3>3, <3>4, AttemptsAssumption
      <4> QED
        BY <3>3, <3>4, <4>1
    <3> QED
      BY <2>2, <3>2, <3>5 DEF DataInv, RowsAreTrue
  <2>6. header = "CAPTURED" => \E p \in Attempts : payment[p] = "SUCCEEDED" /\ intent[p] = "succeeded"
    BY <2>2 DEF DataInv, HeaderFits, RowsAreTrue
  <2> QED
    BY <2>2, <2>3, <2>4, <2>5, <2>6 DEF HeaderIsTrue, DataInv, AnswersHold
<1> QED
  BY <1>1, PaymentIsConsistent, PTL

-----------------------------------------------------------------------------
(* Steps *)

(* The transitions the rows make, most of them written past TRANSITIONS. *)
LEMMA PaymentMoves ==
  ASSUME PaymentInv, [Next]_vars, NEW p \in Attempts, payment'[p] # payment[p]
  PROVE  canTransition(payment[p], payment'[p])
<1>1. PaymentTypes /\ DataInv /\ payment \in [Attempts -> PaymentStatus]
  BY DEF PaymentInv, PaymentTypes
<1>2. ASSUME NEW c \in Calls, insertIfStillOpen(c)
      PROVE  canTransition(payment[p], payment'[p])
  <2> DEFINE new == Latest + 1
  <2>1. /\ \A q \in Active : payment[q] = "PENDING"
        /\ payment'[p] = CASE p = new       -> "PENDING"
                           [] p \in Active -> "EXPIRED"
                           [] OTHER        -> payment[p]
    BY <1>2 DEF insertIfStillOpen
  <2>2. Latest \in Nat /\ Rows = 1 .. Latest
    BY <1>1, LatestIs, AttemptsAssumption DEF DataInv
  <2>3. p = new => payment[p] = "NONE" /\ p \notin Active
    BY <2>2 DEF Rows, Active
  <2> HIDE DEF new
  <2>4. \/ payment[p] = "NONE" /\ payment'[p] = "PENDING"
        \/ payment[p] = "PENDING" /\ payment'[p] = "EXPIRED"
    BY <2>1, <2>3
  <2> QED
    BY <2>4 DEF canTransition, TRANSITIONS
<1>3. ASSUME NEW n, NEW expected \in {{"PENDING"}, {"AUTHORIZED"}, {"PENDING", "AUTHORIZED"}},
             NEW s \in {"EXPIRED", "VOIDED", "SUCCEEDED", "FAILED"}, updateStatus(n, expected, s),
             s = "EXPIRED" => expected = {"PENDING"}
      PROVE  canTransition(payment[p], payment'[p])
  <2>1. p = n /\ payment[p] \in expected /\ payment'[p] = s
    BY <1>1, <1>3 DEF updateStatus
  <2> QED
    BY <1>3, <2>1 DEF canTransition, TRANSITIONS
<1>4. ASSUME NEW c \in Calls, applyAuthorization(c)
      PROVE  canTransition(payment[p], payment'[p])
  <2>1. /\ p = call[c].p /\ payment'[p] = "AUTHORIZED"
        /\ decideAuthorization(payment[p], header, authorizedAt, p \notin Mismatched) \in {"RECORD", "RECORD_LATE"}
    BY <1>1, <1>4 DEF applyAuthorization
  <2>2. p \in Rows
    BY <1>4, <2>1 DEF applyAuthorization, PaymentInv, CallOK, AuthCall, Where
  <2>3. payment[p] = "PENDING"
    BY <1>1, <2>1, <2>2 DEF decideAuthorization, RECORDED, RETIRED, PaymentStatus, Rows
  <2> QED
    BY <2>1, <2>3 DEF canTransition, TRANSITIONS
<1>5. ASSUME NEW c \in Calls, recordRelease(c) \/ settle(c)
      PROVE  canTransition(payment[p], payment'[p])
  BY <1>3, <1>5 DEF recordRelease, settle
<1>6. ASSUME NEW q \in Attempts, markExpired(q) \/ markVoided(q)
      PROVE  canTransition(payment[p], payment'[p])
  BY <1>3, <1>6 DEF markExpired, markVoided
<1>7. \/ \E c \in Calls : insertIfStillOpen(c) \/ applyAuthorization(c) \/ recordRelease(c) \/ settle(c)
      \/ \E q \in Attempts : markExpired(q) \/ markVoided(q)
  <2>1. ASSUME NEW c \in Calls, Commands(c) \/ CallStops(c)
        PROVE  FALSE
    BY <2>1 DEF Commands, CallStops, openSession, flip, capture, gatewayFails, callLost, rows
  <2>2. ASSUME NEW c \in Calls, Proceed(c)
        PROVE  insertIfStillOpen(c) \/ applyAuthorization(c) \/ recordRelease(c) \/ settle(c)
    BY <2>2 DEF Proceed, probe, prepareHeader, preparePayment, voidStray, voidHold, captureIntent, requestIntent,
                releaseSession, releaseCompleted, captureRead, serverError, readIntentAfter, incrementKeyGen, rows
  <2>3. ASSUME NEW c \in Calls, NEW q \in Attempts, Reconcile(c, q) \/ Webhook(c, q)
        PROVE  markExpired(q) \/ markVoided(q)
    BY <2>3 DEF Reconcile, Webhook, holdReported, completed, rows
  <2>4. ASSUME NEW q \in Attempts, sweepWebhookEvents(q) \/ Outside(q)
        PROVE  FALSE
    BY <2>4 DEF sweepWebhookEvents, Outside, BuyerCompletes, SessionLapses, HoldLapses, rows
  <2> QED
    BY <2>1, <2>2, <2>3, <2>4 DEF Next, vars, rows
<1> QED
  BY <1>2, <1>4, <1>5, <1>6, <1>7

(* A hold is let go by its own lapse, or by a cancel that closed the order before it asked. *)
LEMMA HoldIsLetGo ==
  ASSUME PaymentInv, [Next]_vars, NEW p \in Attempts,
         intent[p] = "requires_capture", intent'[p] = "canceled", ~HoldLapses(p)
  PROVE  header \notin {"OPEN", "AUTHORIZED"}
<1>1. PaymentTypes /\ DataInv /\ intent'[p] # intent[p]
  BY DEF PaymentInv
<1>2. ASSUME NEW c \in Calls, NEW pc \in IntentPC, call[c].pc = pc,
             intent' = [intent EXCEPT ![call[c].p] = IntentAfter(OpAt(pc), @)]
      PROVE  header \notin {"OPEN", "AUTHORIZED"}
  <2>1. Where(c) = pc
    BY <1>2 DEF Where, IntentPC
  <2>2. p = call[c].p /\ OpAt(pc) # "capture"
    BY <1>1, <1>2 DEF IntentAfter, PaymentTypes
  <2>3. pc = "cancel.void"
    BY <1>2, <2>1, <2>2, AskedAt DEF IntentPC
  <2> QED
    BY <2>1, <2>3, AskedAt DEF Closed
<1>3. \E c \in Calls : (\E pc \in IntentPC : requestIntent(c, pc)) \/ serverError(c)
  <2>1. ASSUME NEW c \in Calls, Commands(c) \/ CallStops(c)
        PROVE  FALSE
    BY <1>1, <2>1 DEF Commands, CallStops, openSession, flip, capture, gatewayFails, callLost, stripe
  <2>2. ASSUME NEW c \in Calls, Proceed(c)
        PROVE  (\E pc \in IntentPC : requestIntent(c, pc)) \/ serverError(c)
    <3>1. CASE voidStray(c) \/ voidHold(c) \/ captureIntent(c)
      BY <3>1 DEF voidStray, voidHold, captureIntent, IntentPC
    <3>2. CASE ~(voidStray(c) \/ voidHold(c) \/ captureIntent(c))
      BY <1>1, <2>2, <3>2
         DEF Proceed, probe, insertIfStillOpen, prepareHeader, preparePayment, applyAuthorization, releaseSession,
             releaseCompleted, recordRelease, captureRead, settle, readIntentAfter, incrementKeyGen, stripe
    <3> QED
      BY <3>1, <3>2
  <2>3. ASSUME NEW c \in Calls, NEW q \in Attempts, Reconcile(c, q) \/ Webhook(c, q)
        PROVE  FALSE
    BY <1>1, <2>3 DEF Reconcile, Webhook, holdReported, completed, markExpired, markVoided, stripe
  <2>4. ASSUME NEW q \in Attempts, sweepWebhookEvents(q) \/ Outside(q)
        PROVE  FALSE
    <3>1. CASE HoldLapses(q)
      <4>1. q = p
        BY <1>1, <3>1 DEF HoldLapses, PaymentTypes
      <4> QED
        BY <3>1, <4>1
    <3>2. CASE BuyerCompletes(q)
      BY <1>1, <3>2 DEF BuyerCompletes, PaymentTypes
    <3> QED
      BY <1>1, <2>4, <3>1, <3>2 DEF sweepWebhookEvents, Outside, SessionLapses, stripe
  <2> QED
    BY <1>1, <2>1, <2>2, <2>3, <2>4 DEF Next, vars, stripe
<1>4. ASSUME NEW c \in Calls, NEW pc \in IntentPC, requestIntent(c, pc)
      PROVE  header \notin {"OPEN", "AUTHORIZED"}
  BY <1>2, <1>4 DEF requestIntent
<1>5. ASSUME NEW c \in Calls, serverError(c)
      PROVE  header \notin {"OPEN", "AUTHORIZED"}
  BY <1>1, <1>2, <1>5 DEF serverError
<1> QED
  BY <1>3, <1>4, <1>5

(* The hold the header counts on is never voided, and no writer takes a row past the state machine. *)
THEOREM GoodHoldsAreKept == Spec => GoodHoldKept
<1> DEFINE Kept ==
      \A p \in Attempts :
        /\ intent[p] = "requires_capture" /\ intent'[p] = "canceled" /\ ~HoldLapses(p) =>
             header \notin {"OPEN", "AUTHORIZED"}
        /\ payment'[p] # payment[p] => canTransition(payment[p], payment'[p])
<1>1. PaymentInv /\ [Next]_vars => [Kept]_vars
  BY HoldIsLetGo, PaymentMoves
<1> QED
  BY <1>1, PaymentIsConsistent, PTL DEF Spec, GoodHoldKept

-------------------------------------------------------------------------------
(***************************************************************************)
(* What the saga may rely on: who moves what of the payment, with calls    *)
(* told apart by the command they were made for.                           *)
(***************************************************************************)

CapturePC == {"capture.read", "capture.intent", "capture.settle"}
CancelPC == {"cancel.expire", "cancel.read", "cancel.void", "cancel.record"}
OtherPC == {"open.probe", "open.insert", "auth.read", "auth.decide", "auth.void", "auth.apply"}

(* The steps other than the participant's commands, and other than those of the saga. *)
Onward ==
  \/ \E c \in Calls : Proceed(c) \/ CallStops(c)
  \/ \E c \in Calls, p \in Attempts : Reconcile(c, p) \/ Webhook(c, p)
  \/ \E p \in Attempts : sweepWebhookEvents(p) \/ Outside(p)
Elsewhere == Onward \/ \E c \in Calls : openSession(c)

(* How a call goes on, by the family of the place it is at. *)
CallMoves(c) ==
  \/ call'[c] = call[c] \/ call'[c] = Idle
  \/ Where(c) \in CapturePC /\ (Where(c)' \in CapturePC \/ call'[c].pc = "intent.key")
  \/ Where(c) \in CancelPC /\ (Where(c)' \in CancelPC \/ call'[c].pc = "intent.key")
  \/ Where(c) \in OtherPC \union {"idle"} /\ (Where(c)' \in OtherPC \/ call'[c].pc = "intent.key")
  \/ /\ Where(c) = "capture.settle" /\ call'[c].pc = "done"
     /\ call'[c].seen \in {"CAPTURED", "NOT_CAPTURABLE"} /\ call'[c].seen \in answered'
  \/ /\ Where(c) = "cancel.record" /\ call'[c].pc = "done"
     /\ call'[c].seen \in {"CANCELLED", "CAPTURED_CONFLICT"} /\ call'[c].seen \in answered'

OnlyCall(c) == CallMoves(c) /\ \A x \in Calls \ {c} : call'[x] = call[x]

LEMMA GoesTo ==
  ASSUME PaymentTypes, NEW c \in Calls, NEW pc, NEW p, NEW seen,
         Go(c, pc, p, seen) \/ GoRead(c, pc, p, seen)
  PROVE  call'[c].pc = pc /\ call'[c].seen = seen /\ \A x \in Calls \ {c} : call'[x] = call[x]
<1> DEFINE r == [call[c] EXCEPT !.pc = pc, !.p = p, !.seen = seen]
           s == [call[c] EXCEPT !.pc = pc, !.p = p, !.seen = seen, !.gen = keyGen[p], !.flag = FALSE]
<1>1. call[c] \in CallRecord
  BY DEF PaymentTypes
<1>2. r.pc = pc /\ r.seen = seen /\ s.pc = pc /\ s.seen = seen
  BY <1>1 DEF CallRecord
<1>3. call' = [call EXCEPT ![c] = r] \/ call' = [call EXCEPT ![c] = s]
  BY DEF Go, GoRead, PaymentTypes
<1> HIDE DEF r, s
<1> QED
  BY <1>2, <1>3 DEF PaymentTypes

LEMMA EndsAt ==
  ASSUME PaymentTypes, NEW c \in Calls, End(c)
  PROVE  OnlyCall(c)
  BY DEF End, PaymentTypes, OnlyCall, CallMoves

LEMMA AnswersAt ==
  ASSUME PaymentTypes, NEW c \in Calls, NEW outcome, Answer(c, outcome)
  PROVE  /\ call'[c].pc = "done" /\ call'[c].seen = outcome /\ answered' = answered \union {outcome}
         /\ \A x \in Calls \ {c} : call'[x] = call[x]
  BY DEF Answer, Idle, PaymentTypes

LEMMA IntentAnsweredAt ==
  ASSUME PaymentTypes, NEW c \in Calls, NEW pc \in IntentPC, NEW status, intentAnswered(c, pc, status)
  PROVE  /\ call'[c].pc = CASE pc = "capture.intent" -> "capture.settle"
                            [] pc = "cancel.void"    -> "cancel.record"
                            [] pc = "auth.void"      -> "auth.apply"
         /\ \A x \in Calls \ {c} : call'[x] = call[x]
<1>1. ASSUME NEW next, NEW seen, call' = [call EXCEPT ![c].pc = next, ![c].seen = seen, ![c].gen = 0]
      PROVE  call'[c].pc = next /\ \A x \in Calls \ {c} : call'[x] = call[x]
  <2> DEFINE r == [call[c] EXCEPT !.pc = next, !.seen = seen, !.gen = 0]
  <2>1. call[c] \in CallRecord
    BY DEF PaymentTypes
  <2>2. r.pc = next
    BY <2>1 DEF CallRecord
  <2>3. call' = [call EXCEPT ![c] = r]
    BY <1>1 DEF PaymentTypes
  <2> HIDE DEF r
  <2> QED
    BY <2>2, <2>3 DEF PaymentTypes
<1>2. CASE pc = "capture.intent"
  BY <1>1, <1>2 DEF intentAnswered
<1>3. CASE pc = "cancel.void"
  BY <1>1, <1>3 DEF intentAnswered
<1>4. CASE pc = "auth.void"
  BY <1>1, <1>4 DEF intentAnswered
<1> QED
  BY <1>2, <1>3, <1>4 DEF IntentPC

LEMMA OnlyGoes ==
  ASSUME PaymentTypes, NEW c \in Calls, NEW pc, NEW p, NEW seen,
         Go(c, pc, p, seen) \/ GoRead(c, pc, p, seen),
         \/ Where(c) \in CapturePC /\ pc \in CapturePC
         \/ Where(c) \in CancelPC /\ pc \in CancelPC
         \/ Where(c) \in OtherPC \union {"idle"} /\ pc \in OtherPC
         \/ Where(c) \in CapturePC \union CancelPC \union OtherPC /\ pc = "intent.key"
  PROVE  OnlyCall(c)
  BY GoesTo DEF OnlyCall, CallMoves, Where, CapturePC, CancelPC, OtherPC

LEMMA OnlyAnswered ==
  ASSUME PaymentTypes, NEW c \in Calls, NEW pc \in IntentPC, NEW status, Where(c) = pc, intentAnswered(c, pc, status)
  PROVE  OnlyCall(c)
<1>1. CASE pc = "capture.intent"
  BY <1>1, IntentAnsweredAt DEF OnlyCall, CallMoves, Where, CapturePC
<1>2. CASE pc = "cancel.void"
  BY <1>2, IntentAnsweredAt DEF OnlyCall, CallMoves, Where, CancelPC
<1>3. CASE pc = "auth.void"
  BY <1>3, IntentAnsweredAt DEF OnlyCall, CallMoves, Where, OtherPC
<1> QED
  BY <1>1, <1>2, <1>3 DEF IntentPC

LEMMA IntentPlaces ==
  ASSUME NEW pc \in IntentPC
  PROVE  pc \in CapturePC \union CancelPC \union OtherPC
  BY DEF IntentPC, CapturePC, CancelPC, OtherPC

LEMMA ProceedMoves ==
  ASSUME PaymentInv, NEW c \in Calls, Proceed(c)
  PROVE  OnlyCall(c)
<1> DEFINE p == call[c].p
<1>0. PaymentTypes
  BY DEF PaymentInv
<1>1. ASSUME probe(c) \/ insertIfStillOpen(c) \/ applyAuthorization(c) \/ incrementKeyGen(c)
      PROVE  OnlyCall(c)
  <2>1. CASE End(c)
    BY <1>0, <2>1, EndsAt
  <2>2. ASSUME call[c].pc = "open.probe", NEW pc \in {"open.insert", "auth.read"}, Go(c, pc, p, "")
        PROVE  OnlyCall(c)
    BY <1>0, <2>2, OnlyGoes DEF Where, OtherPC
  <2> QED
    BY <1>1, <2>1, <2>2 DEF probe, insertIfStillOpen, applyAuthorization, incrementKeyGen
<1>2. ASSUME prepareHeader(c)
      PROVE  OnlyCall(c)
  <2> DEFINE r == [call[c] EXCEPT !.pc = "auth.decide", !.seen = header, !.flag = authorizedAt]
  <2>1. call[c] \in CallRecord /\ Where(c) = "auth.read"
    BY <1>0, <1>2 DEF PaymentTypes, prepareHeader, Where
  <2>2. r.pc = "auth.decide"
    BY <2>1 DEF CallRecord
  <2>3. call' = [call EXCEPT ![c] = r]
    BY <1>0, <1>2 DEF prepareHeader, PaymentTypes
  <2> HIDE DEF r
  <2>4. call'[c].pc = "auth.decide" /\ \A x \in Calls \ {c} : call'[x] = call[x]
    BY <1>0, <2>2, <2>3 DEF PaymentTypes
  <2> QED
    BY <2>1, <2>4 DEF OnlyCall, CallMoves, Where, OtherPC
<1>3. ASSUME preparePayment(c)
      PROVE  OnlyCall(c)
  <2>1. PICK pc \in {"auth.void", "auth.apply"}, seen \in {"minted", ""} : GoRead(c, pc, p, seen)
    BY <1>3 DEF preparePayment
  <2> QED
    BY <1>0, <1>3, <2>1, OnlyGoes DEF preparePayment, Where, OtherPC
<1>4. ASSUME NEW pc \in IntentPC, requestIntent(c, pc)
      PROVE  OnlyCall(c)
  <2>1. Where(c) = pc
    BY <1>4 DEF requestIntent, Where, IntentPC
  <2> QED
    BY <1>0, <1>4, <2>1, OnlyAnswered DEF requestIntent
<1>5. ASSUME serverError(c)
      PROVE  OnlyCall(c)
  <2>1. PICK pc \in IntentPC : pc = call[c].pc /\ Go(c, "intent.read", p, pc)
    BY <1>5 DEF serverError
  <2>2. /\ Where(c) = pc /\ Where(c)' = pc
        /\ \A x \in Calls \ {c} : call'[x] = call[x]
    BY <1>0, <2>1, GoesTo DEF Where, IntentPC
  <2> QED
    BY <2>2, IntentPlaces DEF OnlyCall, CallMoves
<1>6. ASSUME readIntentAfter(c)
      PROVE  OnlyCall(c)
  <2>1. PICK pc \in IntentPC : pc = call[c].seen /\ Where(c) = pc
    BY <1>6 DEF readIntentAfter, PaymentInv, CallOK, KeyCall, Where
  <2>2. CASE Go(c, "intent.key", p, "")
    BY <1>0, <2>1, <2>2, IntentPlaces, OnlyGoes
  <2>3. CASE intentAnswered(c, pc, intent[p])
    BY <1>0, <2>1, <2>3, OnlyAnswered
  <2> QED
    BY <1>6, <2>1, <2>2, <2>3 DEF readIntentAfter
<1>7. ASSUME releaseSession(c) \/ releaseCompleted(c)
      PROVE  OnlyCall(c)
  <2>1. PICK pc \in CancelPC, seen \in {"", "EXPIRED", "VOIDED", "CAPTURED"} : Go(c, pc, p, seen)
    BY <1>7 DEF releaseSession, releaseCompleted, CancelPC
  <2>2. Where(c) \in CancelPC
    BY <1>7 DEF releaseSession, releaseCompleted, CancelPC, Where
  <2> QED
    BY <1>0, <2>1, <2>2, OnlyGoes
<1>8. ASSUME captureRead(c)
      PROVE  OnlyCall(c)
  <2>1. CASE End(c)
    BY <1>0, <2>1, EndsAt
  <2>2. CASE GoRead(c, "capture.intent", Latest, "")
    BY <1>0, <1>8, <2>2, OnlyGoes DEF captureRead, Where, CapturePC
  <2> QED
    BY <1>8, <2>1, <2>2 DEF captureRead
<1>9. ASSUME recordRelease(c)
      PROVE  OnlyCall(c)
  <2>1. PICK outcome \in {"CAPTURED_CONFLICT", "CANCELLED"} : Answer(c, outcome)
    BY <1>9 DEF recordRelease
  <2> QED
    BY <1>0, <1>9, <2>1, AnswersAt DEF recordRelease, OnlyCall, CallMoves, Where
<1>10. ASSUME settle(c)
       PROVE  OnlyCall(c)
  <2>1. PICK outcome \in {"CAPTURED", "NOT_CAPTURABLE"} : Answer(c, outcome)
    BY <1>10 DEF settle
  <2> QED
    BY <1>0, <1>10, <2>1, AnswersAt DEF settle, OnlyCall, CallMoves, Where
<1> QED
  BY <1>1, <1>2, <1>3, <1>4, <1>5, <1>6, <1>7, <1>8, <1>9, <1>10
     DEF Proceed, voidStray, voidHold, captureIntent, IntentPC

LEMMA ElsewhereMoves ==
  ASSUME PaymentInv, Elsewhere, NEW c \in Calls
  PROVE  CallMoves(c)
<1>0. PaymentTypes
  BY DEF PaymentInv
<1>1. ASSUME NEW d \in Calls, OnlyCall(d)
      PROVE  CallMoves(c)
  BY <1>1 DEF OnlyCall, CallMoves
<1>2. ASSUME NEW d \in Calls, openSession(d)
      PROVE  OnlyCall(d)
  <2>1. CASE End(d)
    BY <1>0, <2>1, EndsAt
  <2>2. ASSUME NEW pc \in {"open.insert", "open.probe"}, NEW p, Go(d, pc, p, "")
        PROVE  OnlyCall(d)
    <3>1. Where(d) = "idle"
      <4>1. call[d] = Idle
        BY <1>2 DEF openSession
      <4> QED
        BY <4>1, IdleTyped DEF Where
    <3> QED
      BY <1>0, <2>2, <3>1, OnlyGoes DEF OtherPC
  <2> QED
    BY <1>2, <2>1, <2>2 DEF openSession
<1>3. ASSUME NEW d \in Calls, CallStops(d)
      PROVE  OnlyCall(d)
  BY <1>0, <1>3, EndsAt DEF CallStops, gatewayFails, callLost
<1>4. ASSUME NEW d \in Calls, NEW p \in Attempts, holdReported(d, p) \/ completed(d, p)
      PROVE  OnlyCall(d) \/ UNCHANGED call
  <2>1. Where(d) = "idle"
    <3>1. call[d] = Idle
      BY <1>4 DEF holdReported, completed
    <3> QED
      BY <3>1, IdleTyped DEF Where
  <2>2. CASE Go(d, "auth.read", p, "")
    BY <1>0, <2>1, <2>2, OnlyGoes DEF OtherPC
  <2>3. CASE call' = [call EXCEPT ![d] = [Idle EXCEPT !.pc = "auth.read", !.p = p, !.event = TRUE]]
    <3>1. call'[d].pc = "auth.read" /\ \A x \in Calls \ {d} : call'[x] = call[x]
      BY <1>0, <2>3 DEF Idle, PaymentTypes
    <3> QED
      BY <2>1, <3>1 DEF OnlyCall, CallMoves, Where, OtherPC
  <2> QED
    BY <1>4, <2>2, <2>3 DEF holdReported, completed
<1>5. CASE UNCHANGED call
  BY <1>5 DEF CallMoves
<1>6. ASSUME NEW p \in Attempts, sweepWebhookEvents(p) \/ Outside(p) \/ markExpired(p) \/ markVoided(p)
      PROVE  UNCHANGED call
  BY <1>6 DEF sweepWebhookEvents, Outside, BuyerCompletes, SessionLapses, HoldLapses, markExpired, markVoided
<1> QED
  BY <1>1, <1>2, <1>3, <1>4, <1>5, <1>6, ProceedMoves DEF Elsewhere, Onward, Reconcile, Webhook

(* Nothing of the order can take money, now or later. *)
NothingLive ==
  \A p \in Attempts :
    session[p] # "open" /\ intent[p] \notin {"requires_capture", "succeeded"} /\ payment[p] \notin {"PENDING", "AUTHORIZED"}

NoCharge ==
  /\ \A c \in Calls : Where(c) \notin CapturePC
  /\ \A p \in Attempts : intent[p] # "succeeded"
  /\ "CAPTURED" \notin answered /\ "NOT_CAPTURABLE" \notin answered

NoCancel ==
  /\ header # "FENCED"
  /\ \A c \in Calls : Where(c) \notin CancelPC
  /\ header = "CANCELLED" => NothingLive
  /\ "NOT_CAPTURABLE" \in answered => header = "CANCELLED"

AnswersKept ==
  /\ \A c \in Calls : call[c].pc = "done" => call[c].seen \in answered
  /\ "CANCELLED" \in answered => NothingLive

Capturing(c) ==
  \/ Where(c) \in CapturePC \/ call[c].pc = "intent.key"
  \/ call[c].pc = "done" /\ call[c].seen \in {"CAPTURED", "NOT_CAPTURABLE", "CONFLICT"}
Cancelling(c) ==
  \/ Where(c) \in CancelPC \/ call[c].pc = "intent.key"
  \/ call[c].pc = "done" /\ call[c].seen \in {"CANCELLED", "CAPTURED_CONFLICT"}

LEMMA UpdatesTo ==
  ASSUME PaymentTypes, NEW n, NEW expected, NEW s, updateStatus(n, expected, s), NEW p \in Attempts
  PROVE  payment'[p] = payment[p] \/ payment'[p] = s
  BY DEF updateStatus, PaymentTypes

LEMMA IntentOf ==
  ASSUME PaymentTypes, NEW n, NEW op, intent' = [intent EXCEPT ![n] = IntentAfter(op, intent[n])], NEW p \in Attempts
  PROVE  \/ intent'[p] = intent[p]
         \/ intent[p] = "requires_capture" /\ intent'[p] = IF op = "capture" THEN "succeeded" ELSE "canceled"
  BY DEF IntentAfter, PaymentTypes

(* How Stripe and a row go on, whoever moves them. *)
LEMMA PaymentStepsAt ==
  ASSUME PaymentInv, [Next]_vars, NEW p \in Attempts
  PROVE  /\ session'[p] = "open" => session[p] = "open" \/ header = "OPEN"
         /\ intent'[p] = "requires_capture" => intent[p] = "requires_capture" \/ session[p] = "open"
         /\ intent'[p] = "succeeded" =>
              \/ intent[p] = "succeeded"
              \/ intent[p] = "requires_capture" /\ \E c \in Calls : Where(c) = "capture.intent"
         /\ payment'[p] = "PENDING" => payment[p] = "PENDING" \/ header = "OPEN"
         /\ payment'[p] = "AUTHORIZED" => payment[p] \in {"PENDING", "AUTHORIZED"}
<1> DEFINE Fits ==
      /\ session'[p] = "open" => session[p] = "open" \/ header = "OPEN"
      /\ intent'[p] = "requires_capture" => intent[p] = "requires_capture" \/ session[p] = "open"
      /\ intent'[p] = "succeeded" =>
           \/ intent[p] = "succeeded"
           \/ intent[p] = "requires_capture" /\ \E c \in Calls : Where(c) = "capture.intent"
      /\ payment'[p] = "PENDING" => payment[p] = "PENDING" \/ header = "OPEN"
      /\ payment'[p] = "AUTHORIZED" => payment[p] \in {"PENDING", "AUTHORIZED"}
<1>0. PaymentTypes
  BY DEF PaymentInv
<1>1. ASSUME UNCHANGED <<session, intent, payment>>
      PROVE  Fits
  BY <1>1
<1>2. ASSUME NEW c \in Calls, insertIfStillOpen(c), ~UNCHANGED <<session, payment>>
      PROVE  Fits
  <2>1. header = "OPEN" /\ intent' = intent
    BY <1>2 DEF insertIfStillOpen
  <2>2. payment'[p] # "AUTHORIZED" \/ payment'[p] = payment[p]
    BY <1>2, PaymentMoves DEF canTransition, TRANSITIONS, insertIfStillOpen
  <2> QED
    BY <2>1, <2>2
<1>3. ASSUME NEW c \in Calls, releaseSession(c)
      PROVE  Fits
  BY <1>0, <1>3 DEF releaseSession, expireSession, rows, PaymentTypes
<1>4. ASSUME NEW c \in Calls, NEW pc \in IntentPC, call[c].pc = pc, UNCHANGED <<session, payment>>,
             intent' = [intent EXCEPT ![call[c].p] = IntentAfter(OpAt(pc), intent[call[c].p])]
      PROVE  Fits
  <2>1. Where(c) = pc
    BY <1>4 DEF Where, IntentPC
  <2> QED
    <3>1. \/ intent'[p] = intent[p]
          \/ intent[p] = "requires_capture" /\ intent'[p] = IF OpAt(pc) = "capture" THEN "succeeded" ELSE "canceled"
      <4>1. PICK n, op : n = call[c].p /\ op = OpAt(pc)
        OBVIOUS
      <4>2. intent' = [intent EXCEPT ![n] = IntentAfter(op, intent[n])]
        BY <1>4, <4>1
      <4>3. \/ intent'[p] = intent[p]
            \/ intent[p] = "requires_capture" /\ intent'[p] = IF op = "capture" THEN "succeeded" ELSE "canceled"
        BY <1>0, <4>2, IntentOf
      <4> QED
        BY <4>1, <4>3
    <3>2. OpAt(pc) = "capture" => Where(c) = "capture.intent"
      BY <2>1 DEF OpAt
    <3> QED
      BY <1>4, <3>1, <3>2
<1>5. ASSUME NEW c \in Calls, applyAuthorization(c)
      PROVE  Fits
  <2>1. UNCHANGED <<session, intent>>
    BY <1>5 DEF applyAuthorization, stripe
  <2>2. payment'[p] = payment[p] \/ payment'[p] = "AUTHORIZED"
    BY <1>0, <1>5 DEF applyAuthorization, PaymentTypes
  <2>3. payment'[p] # payment[p] => canTransition(payment[p], payment'[p])
    BY PaymentMoves
  <2>4. payment'[p] = "AUTHORIZED" => payment[p] \in {"PENDING", "AUTHORIZED"}
    BY <2>3 DEF canTransition, TRANSITIONS
  <2> QED
    BY <2>1, <2>2, <2>4
<1>6. ASSUME UNCHANGED <<session, intent>>, NEW n, NEW expected, NEW s \in {"EXPIRED", "VOIDED", "SUCCEEDED", "FAILED"},
             updateStatus(n, expected, s)
      PROVE  Fits
  BY <1>0, <1>6, UpdatesTo
<1>7. ASSUME NEW c \in Calls, recordRelease(c) \/ settle(c)
      PROVE  Fits
  <2>1. UNCHANGED <<session, intent>>
    BY <1>7 DEF recordRelease, settle, stripe
  <2> QED
    BY <1>1, <1>6, <1>7, <2>1 DEF recordRelease, settle
<1>8. ASSUME NEW n \in Attempts, markExpired(n) \/ markVoided(n)
      PROVE  Fits
  <2>1. UNCHANGED <<session, intent>>
    BY <1>8 DEF markExpired, markVoided, stripe
  <2> QED
    BY <1>6, <1>8, <2>1 DEF markExpired, markVoided
<1>9. ASSUME NEW n \in Attempts, Outside(n)
      PROVE  Fits
  BY <1>0, <1>9 DEF Outside, BuyerCompletes, SessionLapses, HoldLapses, rows, PaymentTypes
<1>10. ASSUME NEW c \in Calls, Proceed(c)
       PROVE  Fits
  <2>1. ASSUME NEW pc \in IntentPC, requestIntent(c, pc)
        PROVE  Fits
    BY <1>4, <2>1 DEF requestIntent, rows
  <2>2. CASE serverError(c)
    <3>1. UNCHANGED <<session, payment>>
      BY <2>2 DEF serverError, rows
    <3>2. \/ UNCHANGED intent
          \/ intent' = [intent EXCEPT ![call[c].p] = IntentAfter(OpAt(call[c].pc), intent[call[c].p])]
      BY <2>2 DEF serverError
    <3> QED
      BY <1>1, <1>4, <2>2, <3>1, <3>2 DEF serverError
  <2>3. CASE \/ probe(c) \/ prepareHeader(c) \/ preparePayment(c) \/ releaseCompleted(c) \/ captureRead(c)
             \/ readIntentAfter(c) \/ incrementKeyGen(c)
    BY <1>1, <2>3 DEF probe, prepareHeader, preparePayment, releaseCompleted, captureRead, readIntentAfter,
                      incrementKeyGen, rows, stripe
  <2>4. CASE insertIfStillOpen(c)
    <3>1. UNCHANGED intent
      BY <2>4 DEF insertIfStillOpen
    <3> QED
      BY <1>1, <1>2, <2>4, <3>1
  <2> QED
    BY <1>3, <1>5, <1>7, <1>10, <2>1, <2>2, <2>3, <2>4
       DEF Proceed, voidStray, voidHold, captureIntent, IntentPC
<1>11. ASSUME NEW c \in Calls, Commands(c) \/ CallStops(c)
       PROVE  Fits
  BY <1>1, <1>11 DEF Commands, CallStops, openSession, flip, capture, gatewayFails, callLost, rows, stripe
<1>12. ASSUME NEW c \in Calls, NEW n \in Attempts, Reconcile(c, n) \/ Webhook(c, n)
       PROVE  Fits
  BY <1>1, <1>8, <1>12 DEF Reconcile, Webhook, holdReported, completed, rows, stripe
<1>13. ASSUME NEW n \in Attempts, sweepWebhookEvents(n)
       PROVE  Fits
  BY <1>1, <1>13 DEF sweepWebhookEvents, stripe
<1>14. ASSUME UNCHANGED vars
       PROVE  Fits
  BY <1>1, <1>14 DEF vars, rows, stripe
<1> HIDE DEF Fits
<1>15. Fits
  BY <1>9, <1>10, <1>11, <1>12, <1>13, <1>14 DEF Next
<1> QED
  BY <1>15 DEF Fits

LEMMA NothingLiveKept ==
  ASSUME PaymentInv, [Next]_vars, NothingLive, header # "OPEN"
  PROVE  NothingLive'
<1>1. ASSUME NEW p \in Attempts
      PROVE  /\ session'[p] # "open" /\ intent'[p] \notin {"requires_capture", "succeeded"}
             /\ payment'[p] \notin {"PENDING", "AUTHORIZED"}
  BY PaymentStepsAt DEF NothingLive
<1> QED
  BY <1>1 DEF NothingLive

LEMMA ElsewhereAnswers ==
  ASSUME Elsewhere
  PROVE  UNCHANGED answered \/ \E c \in Calls : settle(c) \/ recordRelease(c)
<1>1. ASSUME NEW c \in Calls, Proceed(c), ~recordRelease(c), ~settle(c)
      PROVE  UNCHANGED answered
  <2>1. CASE voidStray(c) \/ voidHold(c) \/ captureIntent(c) \/ serverError(c)
    BY <2>1 DEF voidStray, voidHold, captureIntent, requestIntent, serverError, history
  <2> QED
    BY <1>1, <2>1 DEF Proceed, probe, insertIfStillOpen, prepareHeader, preparePayment, applyAuthorization,
       releaseSession, releaseCompleted, captureRead, readIntentAfter, incrementKeyGen, history
<1>2. ASSUME NEW c \in Calls, openSession(c) \/ CallStops(c)
      PROVE  UNCHANGED answered
  BY <1>2 DEF openSession, CallStops, gatewayFails, callLost, history
<1>3. ASSUME NEW c \in Calls, NEW p \in Attempts, Reconcile(c, p) \/ Webhook(c, p)
      PROVE  UNCHANGED answered
  BY <1>3 DEF Reconcile, Webhook, holdReported, completed, markExpired, markVoided, history
<1>4. ASSUME NEW p \in Attempts, sweepWebhookEvents(p) \/ Outside(p)
      PROVE  UNCHANGED answered
  BY <1>4 DEF sweepWebhookEvents, Outside, BuyerCompletes, SessionLapses, HoldLapses, history
<1> QED
  BY <1>1, <1>2, <1>3, <1>4 DEF Elsewhere, Onward

LEMMA AnswersGrow ==
  ASSUME Elsewhere \/ \E c \in Calls : capture(c) \/ flip(c)
  PROVE  answered \subseteq answered'
<1>1. ASSUME NEW c \in Calls, settle(c) \/ recordRelease(c) \/ capture(c) \/ flip(c)
      PROVE  answered \subseteq answered'
  BY <1>1 DEF settle, recordRelease, capture, flip, Answer
<1> QED
  BY <1>1, ElsewhereAnswers

LEMMA ElsewhereIsNext ==
  ASSUME Elsewhere \/ \E c \in Calls : capture(c) \/ flip(c)
  PROVE  Next
  BY DEF Elsewhere, Onward, Next, Commands

(* A command of the saga begins a call of its own family. *)
LEMMA CaptureBegins ==
  ASSUME PaymentTypes, NEW c \in Calls, capture(c)
  PROVE  /\ Capturing(c)' /\ call[c] = Idle /\ \A x \in Calls \ {c} : call'[x] = call[x]
         /\ Where(c)' \notin CancelPC
         /\ call'[c].pc = "done" => call'[c].seen \in answered'
<1>1. call[c] = Idle
  BY DEF capture
<1>2. CASE Go(c, "capture.read", 0, "")
  <2>1. PICK pc, p, seen : pc = "capture.read" /\ Go(c, pc, p, seen)
    BY <1>2
  <2>2. call'[c].pc = pc /\ \A x \in Calls \ {c} : call'[x] = call[x]
    BY <2>1, GoesTo
  <2> QED
    BY <1>1, <2>1, <2>2 DEF Capturing, Where, CapturePC, CancelPC
<1>3. ASSUME NEW outcome \in {"CAPTURED", "NOT_CAPTURABLE", "CONFLICT"}, Answer(c, outcome)
      PROVE  /\ Capturing(c)' /\ \A x \in Calls \ {c} : call'[x] = call[x]
             /\ Where(c)' \notin CancelPC
             /\ call'[c].pc = "done" => call'[c].seen \in answered'
  BY <1>3, AnswersAt DEF Capturing, Where, CancelPC
<1> QED
  BY <1>1, <1>2, <1>3 DEF capture

LEMMA CancelBegins ==
  ASSUME PaymentTypes, NEW c \in Calls, flip(c)
  PROVE  /\ Cancelling(c)' /\ call[c] = Idle /\ \A x \in Calls \ {c} : call'[x] = call[x]
         /\ Where(c)' \notin CapturePC
         /\ call'[c].pc = "done" => call'[c].seen \in answered'
<1>1. call[c] = Idle
  BY DEF flip
<1>2. ASSUME NEW p, NEW pc \in {"cancel.void", "cancel.expire"}, GoRead(c, pc, p, "")
      PROVE  /\ Cancelling(c)' /\ \A x \in Calls \ {c} : call'[x] = call[x]
             /\ Where(c)' \notin CapturePC /\ call'[c].pc # "done"
  <2>1. PICK seen : GoRead(c, pc, p, seen)
    BY <1>2
  <2>2. call'[c].pc = pc /\ \A x \in Calls \ {c} : call'[x] = call[x]
    BY <2>1, GoesTo
  <2> QED
    BY <1>2, <2>2 DEF Cancelling, Where, CapturePC, CancelPC
<1>3. ASSUME NEW outcome \in {"CANCELLED", "CAPTURED_CONFLICT"}, Answer(c, outcome)
      PROVE  /\ Cancelling(c)' /\ \A x \in Calls \ {c} : call'[x] = call[x]
             /\ Where(c)' \notin CapturePC
             /\ call'[c].pc = "done" => call'[c].seen \in answered'
  BY <1>3, AnswersAt DEF Cancelling, Where, CapturePC
<1> QED
  BY <1>1, <1>2, <1>3 DEF flip

LEMMA FamilyKept ==
  ASSUME PaymentInv, Elsewhere \/ (\E d \in Calls : capture(d) \/ flip(d)), NEW c \in Calls
  PROVE  /\ Capturing(c) => Capturing(c)' \/ call'[c] = Idle
         /\ Cancelling(c) => Cancelling(c)' \/ call'[c] = Idle
<1>1. CASE Elsewhere
  <2>1. CallMoves(c)
    BY <1>1, ElsewhereMoves
  <2>2. Where(c) = "idle" => ~Capturing(c) /\ ~Cancelling(c)
    BY DEF Where, Capturing, Cancelling, CapturePC, CancelPC, PaymentInv, CallOK, KeyCall, IntentPC
  <2> QED
    BY <2>1, <2>2 DEF CallMoves, Capturing, Cancelling, Where, CapturePC, CancelPC, OtherPC
<1>2. ASSUME NEW d \in Calls, capture(d) \/ flip(d)
      PROVE  /\ Capturing(c) => Capturing(c)' \/ call'[c] = Idle
             /\ Cancelling(c) => Cancelling(c)' \/ call'[c] = Idle
  <2>1. call[d] = Idle /\ \A x \in Calls \ {d} : call'[x] = call[x]
    BY <1>2, CaptureBegins, CancelBegins DEF PaymentInv
  <2>2. CASE c = d
    <3>1. ~Capturing(c) /\ ~Cancelling(c)
      BY <2>1, <2>2, IdleTyped DEF Capturing, Cancelling, Where, CapturePC, CancelPC
    <3> QED
      BY <3>1
  <2>3. CASE c # d
    BY <2>1, <2>3 DEF Capturing, Cancelling, Where
  <2> QED
    BY <2>2, <2>3
<1> QED
  BY <1>1, <1>2

LEMMA SettleEnds ==
  ASSUME PaymentInv, NEW c \in Calls, settle(c)
  PROVE  /\ Where(c) = "capture.settle" /\ authorizedAt
         /\ \/ /\ call[c].seen = "captured" /\ header' \in {header, "CAPTURED"}
               /\ header' # header => \E p \in Attempts : payment[p] = "AUTHORIZED"
               /\ answered' = answered \union {"CAPTURED"}
            \/ /\ call[c].seen = "not_capturable" /\ header' = "CANCELLED"
               /\ \A p \in Attempts : payment'[p] \notin {"PENDING", "AUTHORIZED"}
               /\ answered' = answered \union {"NOT_CAPTURABLE"}
<1>1. PaymentTypes /\ DataInv /\ call[c].pc = "capture.settle" /\ Where(c) = "capture.settle"
  BY DEF PaymentInv, settle, Where
<1>2. PICK n \in Attempts :
        /\ n = call[c].p /\ emitted[n] = 1
        /\ \/ call[c].seen = "captured" /\ intent[n] = "succeeded"
           \/ call[c].seen = "not_capturable" /\ intent[n] = "canceled"
  BY <1>1 DEF PaymentInv, CallOK, CaptureCall, Rows
<1>3. authorizedAt
  BY <1>2 DEF PaymentInv, DataInv, RecordedOnce
<1>4. CASE call[c].seen = "captured"
  BY <1>1, <1>2, <1>3, <1>4 DEF settle, Answer
<1>5. CASE call[c].seen = "not_capturable"
  <2>1. header' = "CANCELLED" /\ answered' = answered \union {"NOT_CAPTURABLE"} /\ updateStatus(n, {"AUTHORIZED"}, "FAILED")
    BY <1>2, <1>5 DEF settle, Answer
  <2>2. payment' = IF payment[n] \in {"AUTHORIZED"} THEN [payment EXCEPT ![n] = "FAILED"] ELSE payment
    BY <1>1, <2>1, UpdateStatusEffect
  <2>3. \A p \in Attempts : payment[p] # "PENDING" /\ (payment[p] = "AUTHORIZED" => p = n)
    BY <1>1, <1>2, <1>3 DEF DataInv, RecordedOnce, RowsAreTrue
  <2>4. \A p \in Attempts : payment'[p] \notin {"PENDING", "AUTHORIZED"}
    BY <1>1, <2>2, <2>3 DEF PaymentTypes
  <2> QED
    BY <1>1, <1>3, <1>5, <2>1, <2>4
<1> QED
  BY <1>2, <1>4, <1>5

LEMMA NothingLiveAfter ==
  ASSUME PaymentInv', \A p \in Attempts : payment'[p] \notin {"PENDING", "AUTHORIZED", "SUCCEEDED"}
  PROVE  NothingLive'
  BY DEF NothingLive, PaymentInv, PaymentTypes, PaymentStatus, DataInv, RowsAreTrue, RETIRED, Ended

LEMMA NoChargeKept ==
  ASSUME PaymentInv, NoCharge, Elsewhere \/ \E d \in Calls : flip(d)
  PROVE  NoCharge'
<1>0. PaymentTypes /\ [Next]_vars
  BY ElsewhereIsNext DEF PaymentInv
<1>1. ASSUME NEW c \in Calls
      PROVE  Where(c)' \notin CapturePC
  <2>1. CASE Elsewhere
    <3>1. CallMoves(c)
      BY <2>1, ElsewhereMoves
    <3>2. Idle.pc = "idle"
      BY IdleTyped
    <3> QED
      BY <3>1, <3>2 DEF CallMoves, NoCharge, Where, CapturePC, CancelPC, OtherPC
  <2>2. ASSUME NEW d \in Calls, flip(d)
        PROVE  Where(c)' \notin CapturePC
    <3>1. Where(d)' \notin CapturePC /\ \A x \in Calls \ {d} : call'[x] = call[x]
      BY <1>0, <2>2, CancelBegins
    <3>2. CASE c = d
      BY <3>1, <3>2
    <3>3. CASE c # d
      BY <3>1, <3>3 DEF NoCharge, Where
    <3> QED
      BY <3>2, <3>3
  <2> QED
    BY <2>1, <2>2
<1>2. ASSUME NEW p \in Attempts
      PROVE  intent'[p] # "succeeded"
  BY <1>0, PaymentStepsAt DEF NoCharge, CapturePC
<1>3. "CAPTURED" \notin answered' /\ "NOT_CAPTURABLE" \notin answered'
  <2>1. ASSUME NEW c \in Calls
        PROVE  ~settle(c)
    BY SettleEnds DEF NoCharge, CapturePC
  <2>2. CASE \E d \in Calls : flip(d)
    BY <2>2 DEF NoCharge, flip, Answer
  <2>3. CASE Elsewhere
    <3>1. UNCHANGED answered \/ \E c \in Calls : recordRelease(c)
      BY <2>1, <2>3, ElsewhereAnswers
    <3> QED
      BY <3>1 DEF recordRelease, Answer, NoCharge
  <2> QED
    BY <2>2, <2>3
<1> QED
  BY <1>1, <1>2, <1>3 DEF NoCharge

LEMMA OnwardHeader ==
  ASSUME PaymentInv, Onward
  PROVE  \/ header' = header
         \/ header = "OPEN" /\ header' = "AUTHORIZED"
         \/ \E c \in Calls : settle(c) \/ recordRelease(c)
<1>1. ASSUME NEW c \in Calls, applyAuthorization(c)
      PROVE  header' = header \/ (header = "OPEN" /\ header' = "AUTHORIZED")
  <2> DEFINE p == call[c].p
             decision == decideAuthorization(payment[p], header, authorizedAt, p \notin Mismatched)
  <2>1. p \in Rows
    BY <1>1 DEF applyAuthorization, PaymentInv, CallOK, AuthCall, Where
  <2>2. header' = header \/ (decision = "RECORD" /\ header' = "AUTHORIZED")
    BY <1>1 DEF applyAuthorization, headerRow
  <2>3. decision = "RECORD" => header \notin {"AUTHORIZED", "CAPTURED", "CANCELLED"} \/ payment[p] \in RECORDED
    BY DEF decideAuthorization
  <2>4. decision = "RECORD" => payment[p] \notin RECORDED
    BY DEF decideAuthorization
  <2>5. header \in PaymentOrderStatus /\ header \notin {"NONE", "FENCED"}
    BY <2>1 DEF PaymentInv, PaymentTypes, DataInv, HeaderFits
  <2> QED
    BY <2>2, <2>3, <2>4, <2>5 DEF PaymentOrderStatus
<1>2. ASSUME NEW c \in Calls, Proceed(c), ~recordRelease(c), ~settle(c), ~applyAuthorization(c)
      PROVE  UNCHANGED header
  <2>1. CASE voidStray(c) \/ voidHold(c) \/ captureIntent(c) \/ serverError(c)
    BY <2>1 DEF voidStray, voidHold, captureIntent, requestIntent, serverError, rows, headerRow
  <2> QED
    BY <1>2, <2>1 DEF Proceed, probe, insertIfStillOpen, prepareHeader, preparePayment,
       releaseSession, releaseCompleted, captureRead, readIntentAfter, incrementKeyGen, rows, headerRow
<1>3. ASSUME NEW c \in Calls, CallStops(c)
      PROVE  UNCHANGED header
  BY <1>3 DEF CallStops, gatewayFails, callLost, rows, headerRow
<1>4. ASSUME NEW c \in Calls, NEW p \in Attempts, Reconcile(c, p) \/ Webhook(c, p)
      PROVE  UNCHANGED header
  BY <1>4 DEF Reconcile, Webhook, holdReported, completed, markExpired, markVoided, rows, headerRow
<1>5. ASSUME NEW p \in Attempts, sweepWebhookEvents(p) \/ Outside(p)
      PROVE  UNCHANGED header
  BY <1>5 DEF sweepWebhookEvents, Outside, BuyerCompletes, SessionLapses, HoldLapses, rows, headerRow
<1> QED
  BY <1>1, <1>2, <1>3, <1>4, <1>5 DEF Onward

LEMMA OpensFrom ==
  ASSUME NEW c \in Calls, openSession(c)
  PROVE  header \in {"NONE", "OPEN"} /\ header' = "OPEN"
<1>1. header' = (IF header = "NONE" THEN "OPEN" ELSE header) /\ header' \in {"NONE", "OPEN"}
  BY DEF openSession, insertHeader, OpenSessionDecision
<1> QED
  BY <1>1

(* With nobody's capture or cancel under way, an order that never had a session gets no header. *)
LEMMA NoHeaderKept ==
  ASSUME PaymentInv, NoCharge, NoCancel, Onward, header = "NONE"
  PROVE  header' = "NONE"
<1>1. ASSUME NEW c \in Calls
      PROVE  ~settle(c) /\ ~recordRelease(c)
  BY DEF settle, recordRelease, NoCharge, NoCancel, Where, CapturePC, CancelPC
<1> QED
  BY <1>1, OnwardHeader

LEMMA NothingToReconcile ==
  ASSUME NoCancel, NEW c \in Calls
  PROVE  ~reconcileHeld(c)
  BY DEF NoCancel, NothingLive, reconcileHeld, StaleTcc, Rows

LEMMA NoCancelKept ==
  ASSUME PaymentInv, NoCancel, Elsewhere \/ \E d \in Calls : capture(d)
  PROVE  NoCancel'
<1>0. PaymentTypes /\ [Next]_vars /\ PaymentInv'
  BY ElsewhereIsNext, PaymentInvStep DEF PaymentInv
<1>1. ASSUME NEW c \in Calls
      PROVE  Where(c)' \notin CancelPC
  <2>1. CASE Elsewhere
    <3>1. CallMoves(c)
      BY <2>1, ElsewhereMoves
    <3>2. Idle.pc = "idle"
      BY IdleTyped
    <3> QED
      BY <3>1, <3>2 DEF CallMoves, NoCancel, Where, CapturePC, CancelPC, OtherPC
  <2>2. ASSUME NEW d \in Calls, capture(d)
        PROVE  Where(c)' \notin CancelPC
    <3>1. Where(d)' \notin CancelPC /\ \A x \in Calls \ {d} : call'[x] = call[x]
      BY <1>0, <2>2, CaptureBegins
    <3>2. CASE c = d
      BY <3>1, <3>2
    <3>3. CASE c # d
      BY <3>1, <3>3 DEF NoCancel, Where
    <3> QED
      BY <3>2, <3>3
  <2> QED
    BY <2>1, <2>2
<1>2. header = "CANCELLED" => NothingLive'
  BY <1>0, NothingLiveKept DEF NoCancel
<1>3. ASSUME NEW c \in Calls
      PROVE  ~recordRelease(c)
  BY DEF recordRelease, NoCancel, Where, CancelPC
<1>4. CASE \E d \in Calls : capture(d)
  <2>1. UNCHANGED header /\ ("NOT_CAPTURABLE" \in answered' /\ "NOT_CAPTURABLE" \notin answered => header = "CANCELLED")
    <3>1. PICK d \in Calls : capture(d)
      BY <1>4
    <3>2. CaptureDecision(header) = "not_capturable" => header \in {"CANCELLED", "FENCED"}
      BY DEF CaptureDecision, PaymentInv, PaymentTypes, PaymentOrderStatus
    <3> QED
      BY <3>1, <3>2 DEF capture, Answer, rows, headerRow, NoCancel
  <2> QED
    BY <1>1, <1>2, <2>1 DEF NoCancel
<1>5. ASSUME NEW c \in Calls, settle(c)
      PROVE  NoCancel'
  <2>1. CASE call[c].seen = "captured"
    <3>1. header = "CANCELLED" => header' = header
      BY <1>5, <2>1, SettleEnds DEF NoCancel, NothingLive
    <3>2. header' \in {header, "CAPTURED"} /\ answered' = answered \union {"CAPTURED"}
      BY <1>5, <2>1, SettleEnds
    <3> QED
      BY <1>1, <1>2, <3>1, <3>2 DEF NoCancel
  <2>2. CASE call[c].seen # "captured"
    <3>1. /\ header' = "CANCELLED" /\ \A p \in Attempts : payment'[p] \notin {"PENDING", "AUTHORIZED"}
          /\ answered' = answered \union {"NOT_CAPTURABLE"}
      BY <1>5, <2>2, SettleEnds
    <3>2. \A p \in Attempts : payment'[p] # "SUCCEEDED"
      BY <1>0, <3>1 DEF PaymentInv, DataInv, RowsAreTrue
    <3>3. NothingLive'
      BY <1>0, <3>1, <3>2, NothingLiveAfter
    <3> QED
      BY <1>1, <3>1, <3>3 DEF NoCancel
  <2> QED
    BY <2>1, <2>2
<1>6. CASE Elsewhere /\ ~\E c \in Calls : settle(c)
  <2>1. UNCHANGED answered
    BY <1>3, <1>6, ElsewhereAnswers
  <2>2. header' = header \/ (header' \in {"OPEN", "AUTHORIZED"} /\ header \in {"NONE", "OPEN"})
    <3>1. CASE Onward
      BY <1>3, <1>6, <3>1, OnwardHeader
    <3>2. CASE \E c \in Calls : openSession(c)
      BY <3>2, OpensFrom
    <3> QED
      BY <1>6, <3>1, <3>2 DEF Elsewhere
  <2> QED
    BY <1>1, <1>2, <2>1, <2>2 DEF NoCancel
<1> QED
  BY <1>4, <1>5, <1>6

LEMMA AnswersKeptStep ==
  ASSUME PaymentInv, AnswersKept, Elsewhere \/ \E d \in Calls : capture(d) \/ flip(d)
  PROVE  AnswersKept'
<1>0. PaymentTypes /\ DataInv /\ [Next]_vars /\ PaymentInv'
  BY ElsewhereIsNext, PaymentInvStep DEF PaymentInv
<1>1. ASSUME NEW c \in Calls, call'[c].pc = "done"
      PROVE  call'[c].seen \in answered'
  <2>1. answered \subseteq answered'
    BY AnswersGrow
  <2>2. CASE Elsewhere
    <3>1. CallMoves(c)
      BY <2>2, ElsewhereMoves
    <3>2. Idle.pc = "idle"
      BY IdleTyped
    <3> QED
      BY <1>1, <2>1, <3>1, <3>2 DEF CallMoves, AnswersKept, Where, CapturePC, CancelPC, OtherPC
  <2>3. ASSUME NEW d \in Calls, capture(d) \/ flip(d)
        PROVE  call'[c].seen \in answered'
    <3>1. /\ call'[d].pc = "done" => call'[d].seen \in answered'
          /\ \A x \in Calls \ {d} : call'[x] = call[x]
      BY <1>0, <2>3, CaptureBegins, CancelBegins
    <3> QED
      BY <1>1, <2>1, <3>1 DEF AnswersKept
  <2> QED
    BY <2>2, <2>3
<1>2. CASE "CANCELLED" \in answered
  <2>1. header # "OPEN" /\ NothingLive
    BY <1>0, <1>2 DEF DataInv, AnswersHold, AnswersKept
  <2> QED
    BY <1>0, <1>1, <2>1, NothingLiveKept DEF AnswersKept
<1>3. ASSUME "CANCELLED" \notin answered, "CANCELLED" \in answered', NEW p \in Attempts
      PROVE  payment'[p] \notin {"PENDING", "AUTHORIZED"}
  <2>1. ASSUME NEW c \in Calls, flip(c)
        PROVE  payment'[p] \notin {"PENDING", "AUTHORIZED"}
    <3>1. UNCHANGED payment /\ \A q \in Active : payment[q] \notin {"PENDING", "AUTHORIZED"}
      <4>1. /\ UNCHANGED payment
            /\ \/ Answer(c, "CAPTURED_CONFLICT") \/ UNCHANGED answered
               \/ \A q \in Active : payment[q] \notin {"PENDING", "AUTHORIZED"}
        BY <2>1 DEF flip
      <4> QED
        BY <1>3, <4>1 DEF Answer
    <3> QED
      BY <3>1 DEF Active
  <2>2. ASSUME NEW c \in Calls, recordRelease(c)
        PROVE  payment'[p] \notin {"PENDING", "AUTHORIZED"}
    <3> DEFINE released == call[c].seen
    <3>1. call[c].pc = "cancel.record" /\ Where(c) = "cancel.record" /\ released # "CAPTURED"
      BY <1>3, <2>2 DEF recordRelease, Answer, Where
    <3>2. /\ IsLatest(call[c].p)
          /\ released = "EXPIRED" => session[call[c].p] = "expired"
      BY <3>1 DEF PaymentInv, CallOK, CancelCall
    <3>3. PICK n \in Attempts : n = call[c].p /\ \A q \in Rows : q <= n
      BY <3>2 DEF IsLatest, Rows
    <3>4. \/ released = "EXPIRED" /\ updateStatus(n, {"PENDING"}, "EXPIRED") /\ payment[n] # "AUTHORIZED"
          \/ updateStatus(n, {"PENDING", "AUTHORIZED"}, "VOIDED")
      BY <1>0, <2>2, <3>1, <3>2, <3>3 DEF recordRelease, DataInv, RowsAreTrue
    <3>5. payment'[n] \notin {"PENDING", "AUTHORIZED"} /\ (p # n => payment'[p] = payment[p])
      BY <1>0, <3>4 DEF updateStatus, PaymentTypes
    <3>6. p # n => p \notin Active
      <4>1. n \in Rows
        BY <3>2, <3>3 DEF IsLatest
      <4>2. p \in Active => n <= p /\ p <= n
        BY <1>0, <3>3, <4>1 DEF DataInv, OneActive, Active, Rows
      <4> QED
        BY <4>2 DEF Attempts
    <3> QED
      BY <3>5, <3>6 DEF Active
  <2>3. \E c \in Calls : flip(c) \/ recordRelease(c)
    <3>1. ASSUME NEW c \in Calls, settle(c)
          PROVE  FALSE
      BY <1>3, <3>1 DEF settle, Answer
    <3>2. ASSUME NEW c \in Calls, capture(c)
          PROVE  FALSE
      <4>1. UNCHANGED answered \/ \E outcome \in {"CAPTURED", "NOT_CAPTURABLE", "CONFLICT"} : Answer(c, outcome)
        BY <3>2 DEF capture
      <4> QED
        BY <1>3, <4>1 DEF Answer
    <3> QED
      BY <1>3, <3>1, <3>2, ElsewhereAnswers
  <2> QED
    BY <2>1, <2>2, <2>3
<1>4. CASE "CANCELLED" \notin answered /\ "CANCELLED" \in answered'
  BY <1>0, <1>1, <1>3, <1>4 DEF AnswersKept, NothingLive, PaymentInv, DataInv, AnswersHold
<1> QED
  BY <1>1, <1>2, <1>4 DEF AnswersKept

LEMMA AuthorizedStays ==
  ASSUME Elsewhere \/ \E c \in Calls : capture(c) \/ flip(c), authorizedAt
  PROVE  authorizedAt'
<1>1. ASSUME NEW c \in Calls, Proceed(c)
      PROVE  authorizedAt'
  <2>1. CASE voidStray(c) \/ voidHold(c) \/ captureIntent(c) \/ serverError(c)
    BY <2>1 DEF voidStray, voidHold, captureIntent, requestIntent, serverError, rows, headerRow
  <2>2. CASE applyAuthorization(c)
    BY <2>2 DEF applyAuthorization, headerRow
  <2> QED
    BY <1>1, <2>1, <2>2 DEF Proceed, probe, insertIfStillOpen, prepareHeader, preparePayment, releaseSession,
       releaseCompleted, recordRelease, captureRead, settle, readIntentAfter, incrementKeyGen, rows, headerRow
<1>2. ASSUME NEW c \in Calls, openSession(c) \/ CallStops(c) \/ capture(c) \/ flip(c)
      PROVE  authorizedAt'
  BY <1>2 DEF openSession, CallStops, gatewayFails, callLost, capture, flip, rows, headerRow
<1>3. ASSUME NEW c \in Calls, NEW p \in Attempts, Reconcile(c, p) \/ Webhook(c, p)
      PROVE  authorizedAt'
  BY <1>3 DEF Reconcile, Webhook, holdReported, completed, markExpired, markVoided, rows, headerRow
<1>4. ASSUME NEW p \in Attempts, sweepWebhookEvents(p) \/ Outside(p)
      PROVE  authorizedAt'
  BY <1>4 DEF sweepWebhookEvents, Outside, BuyerCompletes, SessionLapses, HoldLapses, rows, headerRow
<1> QED
  BY <1>1, <1>2, <1>3, <1>4 DEF Elsewhere, Onward

(* What anyone who waits for the participant may rely on, whoever moves it. *)
LEMMA StepsKeep ==
  ASSUME PaymentInv, AnswersKept, Elsewhere \/ \E c \in Calls : capture(c) \/ flip(c)
  PROVE  /\ PaymentInv' /\ AnswersKept'
         /\ answered \subseteq answered'
         /\ authorizedAt => authorizedAt'
         /\ NothingLive /\ authorizedAt => NothingLive'
<1>1. PaymentInv' /\ AnswersKept'
  BY PaymentInvStep, AnswersKeptStep, ElsewhereIsNext
<1>2. NothingLive /\ authorizedAt => NothingLive'
  <2>1. authorizedAt => header # "OPEN"
    BY DEF PaymentInv, DataInv, HeaderFits
  <2> QED
    BY <2>1, NothingLiveKept, ElsewhereIsNext
<1> QED
  BY <1>1, <1>2, AnswersGrow, AuthorizedStays
===============================================================================
