--------------------------- MODULE ReservationFence ---------------------------
(***************************************************************************)
(* The TCC fence of inventory-service: what a command may do, given the    *)
(* status of the order's row in `reservation_orders`.  It is a pure        *)
(* decision shared by the participant (Inventory), its transactions        *)
(* (StockTransactions) and the checkout saga (CheckoutSaga).               *)
(***************************************************************************)

(* "NONE" is the source's `null`: the order has no header row. *)
ReservationOrderStatus ==
  {"NONE", "HELD", "COMMITTED", "RELEASED", "RESTOCKED", "FENCED"}

CommandOp == {"commit", "release", "restock"}

ReservationFenceOp == CommandOp \cup {"try"}

(* The status a command moves the header to; "NONE" when it moves nothing. *)
FenceNext(op, current) ==
  CASE op = "try"     /\ current = "NONE"      -> "HELD"
    [] op = "commit"  /\ current = "HELD"      -> "COMMITTED"
    [] op = "release" /\ current = "NONE"      -> "FENCED"
    [] op = "release" /\ current = "HELD"      -> "RELEASED"
    [] op = "restock" /\ current = "COMMITTED" -> "RESTOCKED"
    [] OTHER                                   -> "NONE"

(* Defect: a fenced order answers a late Try as reserved. *)
FenceDoneForFencedTry(op) ==
  CASE op = "try"     -> {"HELD", "FENCED"}
    [] op = "commit"  -> {"COMMITTED"}
    [] op = "release" -> {"RELEASED", "FENCED"}
    [] op = "restock" -> {"RESTOCKED"}

(* The statuses in which a repeat of the command finds its work done. *)
FenceDone(op) ==
  CASE op = "try"     -> {"HELD"}
    [] op = "commit"  -> {"COMMITTED"}
    [] op = "release" -> {"RELEASED", "FENCED"}
    [] op = "restock" -> {"RESTOCKED"}

decideReservationFence(op, current) ==
  IF FenceNext(op, current) # "NONE" THEN "apply"
  ELSE IF current \in FenceDone(op) THEN "idempotent"
  ELSE "conflict"
===============================================================================
