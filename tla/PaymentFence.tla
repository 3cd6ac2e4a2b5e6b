----------------------------- MODULE PaymentFence -----------------------------
(***************************************************************************)
(* The decisions payment-service takes from an order's payment_orders      *)
(* header: which participant commands may proceed, and what to do with a   *)
(* hold Stripe reports on one of the order's payments.                     *)
(***************************************************************************)

(* NONE stands for "no row". *)
PaymentOrderStatus == {"NONE", "OPEN", "AUTHORIZED", "CAPTURED", "CANCELLED", "FENCED"}
PaymentStatus == {"NONE", "PENDING", "AUTHORIZED", "SUCCEEDED", "VOIDED", "EXPIRED", "FAILED"}

(* The wired rows of TRANSITIONS, and the insert of a row. *)
TRANSITIONS ==
  {<<"NONE", "PENDING">>}
  \cup {"PENDING"} \X {"SUCCEEDED", "FAILED", "EXPIRED", "AUTHORIZED", "VOIDED"}
  \cup {"AUTHORIZED"} \X {"SUCCEEDED", "VOIDED", "FAILED"}

canTransition(from, to) == <<from, to>> \in TRANSITIONS

(* The rows of the FENCE table. *)
OpenSessionDecision(current) == IF current \in {"NONE", "OPEN"} THEN "open" ELSE "closed"

CaptureDecision(current) ==
  CASE current \in {"NONE", "OPEN"}         -> "conflict"
    [] current = "AUTHORIZED"               -> "capture"
    [] current = "CAPTURED"                 -> "idempotent"
    [] current \in {"CANCELLED", "FENCED"}  -> "not_capturable"

CancelDecision(current) ==
  CASE current = "NONE"                     -> "fence"
    [] current \in {"OPEN", "AUTHORIZED"}   -> "cancel"
    [] current = "CAPTURED"                 -> "captured_conflict"
    [] current \in {"CANCELLED", "FENCED"}  -> "rescan"

RECORDED == {"AUTHORIZED", "SUCCEEDED", "VOIDED"}
RETIRED == {"EXPIRED", "FAILED"}

(* Defect: stray is decided before already recorded. *)
decideStrayFirst(paymentStatus, headerStatus, authorizedAt, chargeMatches) ==
  IF paymentStatus \in RETIRED \/ authorizedAt \/ headerStatus \in {"AUTHORIZED", "CAPTURED"} THEN "STRAY"
  ELSE IF paymentStatus \in RECORDED THEN "ALREADY_RECORDED"
  ELSE IF ~chargeMatches THEN "AMOUNT_MISMATCH"
  ELSE IF headerStatus = "CANCELLED" THEN "RECORD_LATE" ELSE "RECORD"

decideAuthorization(paymentStatus, headerStatus, authorizedAt, chargeMatches) ==
  CASE paymentStatus \in RECORDED -> "ALREADY_RECORDED"
    [] paymentStatus \notin RECORDED
         /\ (paymentStatus \in RETIRED \/ authorizedAt \/ headerStatus \in {"AUTHORIZED", "CAPTURED"})
       -> "STRAY"
    [] OTHER -> IF ~chargeMatches THEN "AMOUNT_MISMATCH"
                ELSE IF headerStatus = "CANCELLED" THEN "RECORD_LATE" ELSE "RECORD"
===============================================================================
