----------------------------- MODULE MCStorefront -----------------------------
(***************************************************************************)
(* Three stores of what customers see and do: the session epoch, a cart    *)
(* and the images of products.  They share no state, so they are explored  *)
(* side by side and not interleaved: a behaviour follows one of them, from *)
(* the start to the end.                                                   *)
(***************************************************************************)
EXTENDS SessionEpoch, MCMedia, FiniteSets

CONSTANTS
  Skus, Requests, MaxLines, MaxQuantity, MaxEdits

VARIABLES
  part,
  onSale, cart, items, added, request, edits

cartVars == <<onSale, cart, items, added, request, edits>>

Carts == INSTANCE Cart
           WITH Skus <- Skus, Requests <- Requests, MaxLines <- MaxLines,
                MaxQuantity <- MaxQuantity, MaxEdits <- MaxEdits,
                onSale <- onSale, cart <- cart, items <- items, added <- added,
                request <- request, edits <- edits

ASSUME CartAssumption == MaxLines \in Nat \ {0} /\ MaxQuantity \in Nat \ {0} /\ IsFiniteSet(Requests)

(* A user nothing changed for gives the reconciler nothing to do. *)
Untouched ==
  /\ epoch = 0 /\ published = 0 /\ answered = 0 /\ faults = 0
  /\ writer = [w \in Writers |-> None] /\ look = [v \in Verifiers |-> NotLooking]
  /\ recent = FALSE /\ pass = NoPass

MCInit ==
  /\ Carts!Init /\ Images!Init
  /\ \/ part = "epoch" /\ Init
     \/ part \in {"cart", "images"} /\ Untouched

MCNext ==
  /\ UNCHANGED part
  /\ \/ part = "epoch" /\ Next /\ UNCHANGED <<cartVars, mediaVars>>
     \/ part = "cart" /\ Carts!Next /\ UNCHANGED <<vars, mediaVars>>
     \/ part = "images" /\ Images!Next /\ UNCHANGED <<vars, cartVars>>

(* What an idle store is fair about is disabled in it. *)
MCSpec ==
  /\ MCInit /\ [][MCNext]_<<part, vars, cartVars, mediaVars>>
  /\ Fairness /\ Images!Fairness

(* CartHolds of Cart: concurrent adds lose nothing and overshoot the cap by at most one line each.     *)
CartHolds == Carts!CartHolds
===============================================================================
