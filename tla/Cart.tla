--------------------------------- MODULE Cart ---------------------------------
(***************************************************************************)
(* The cart of one user, written by concurrent requests.  Adding is several*)
(* statements (the SKU, the cart row, its lines, the upsert), each of them *)
(* seeing what the others have committed; the other writes are one         *)
(* statement each.  What a line costs is never stored here.                *)
(***************************************************************************)
EXTENDS Integers, FiniteSets

CONSTANTS
  Skus, Requests,
  MaxLines,       \* MAX_CART_LINES
  MaxQuantity,    \* MAX_LINE_QUANTITY, also the ceiling of one request
  MaxEdits        \* bound: changes of the catalog

VARIABLES
  onSale,    \* the SKUs whose view is active
  cart,      \* whether the user has a cart row
  items,     \* cart_items: per SKU its quantity, 0 for no row
  added,     \* history: per SKU what was added since the line was last set or removed
  request,   \* per request: where its addItem is
  edits

vars == <<onSale, cart, items, added, request, edits>>

Idle == [pc |-> "idle", sku |-> 0, quantity |-> 0, saw |-> 0]
Lines == {s \in Skus : items[s] > 0}
Least(a, b) == IF a <= b THEN a ELSE b

At(r, pc) == request[r].pc = pc
Goes(r, pc) == request' = [request EXCEPT ![r].pc = pc]
Ends(r) == request' = [request EXCEPT ![r] = Idle]

-----------------------------------------------------------------------------
(* addItem *)

(* A SKU that is not on sale is unknown here. *)
addItem(r, s, q) ==
  /\ At(r, "idle") /\ s \in onSale
  /\ request' = [request EXCEPT ![r] = [pc |-> "ensure", sku |-> s, quantity |-> q, saw |-> 0]]
  /\ UNCHANGED <<onSale, cart, items, added, edits>>

(* Read first; only a user without a cart comes to the INSERT. *)
ensureCartId(r) ==
  /\ At(r, "ensure")
  /\ Goes(r, IF cart THEN "find" ELSE "insert")
  /\ UNCHANGED <<onSale, cart, items, added, edits>>

(* INSERT ... ON CONFLICT DO NOTHING on the user; the loser reads the winner's row. *)
insertCart(r) ==
  /\ At(r, "insert")
  /\ cart' = TRUE /\ Goes(r, "find")
  /\ UNCHANGED <<onSale, items, added, edits>>

HasRoom(s) == Cardinality(Lines) < MaxLines \/ s \in Lines

findItems(r) ==
  LET s == request[r].sku IN
  /\ At(r, "find")
  /\ IF HasRoom(s)
     THEN request' = [request EXCEPT ![r].pc = "upsert", ![r].saw = items[s]]
     ELSE Ends(r)
  /\ UNCHANGED <<onSale, cart, items, added, edits>>

\* Defect: the new quantity is computed from the lines that were read.
AccumulatedFromRead(r) == Least(request[r].saw + request[r].quantity, MaxQuantity)

(* The upsert adds to the row as it is now, under the ceiling. *)
Accumulated(r) == Least(items[request[r].sku] + request[r].quantity, MaxQuantity)

upsert(r) ==
  LET s == request[r].sku IN
  /\ At(r, "upsert")
  /\ items' = [items EXCEPT ![s] = Accumulated(r)]
  /\ added' = [added EXCEPT ![s] = Least(@ + request[r].quantity, MaxQuantity)]
  /\ Ends(r)
  /\ UNCHANGED <<onSale, cart, edits>>

-----------------------------------------------------------------------------
(* The other writes never create a cart *)

setItemQuantity(s, q) ==
  /\ cart /\ s \in Lines
  /\ items' = [items EXCEPT ![s] = q] /\ added' = [added EXCEPT ![s] = q]
  /\ UNCHANGED <<onSale, cart, request, edits>>

removeItem(s) ==
  /\ cart /\ s \in Lines
  /\ items' = [items EXCEPT ![s] = 0] /\ added' = [added EXCEPT ![s] = 0]
  /\ UNCHANGED <<onSale, cart, request, edits>>

clear ==
  /\ cart /\ Lines # {}
  /\ items' = [s \in Skus |-> 0] /\ added' = [s \in Skus |-> 0]
  /\ UNCHANGED <<onSale, cart, request, edits>>

(* A product or a variant is archived or published; the cart keeps its lines. *)
catalogEdit(s) ==
  /\ edits < MaxEdits /\ edits' = edits + 1
  /\ onSale' = IF s \in onSale THEN onSale \ {s} ELSE onSale \cup {s}
  /\ UNCHANGED <<cart, items, added, request>>

-----------------------------------------------------------------------------

Init ==
  /\ onSale = Skus /\ cart = FALSE
  /\ items = [s \in Skus |-> 0] /\ added = [s \in Skus |-> 0]
  /\ request = [r \in Requests |-> Idle]
  /\ edits = 0

Next ==
  \/ \E r \in Requests :
       \/ \E s \in Skus, q \in 1 .. MaxQuantity : addItem(r, s, q)
       \/ ensureCartId(r) \/ insertCart(r) \/ findItems(r) \/ upsert(r)
  \/ \E s \in Skus : removeItem(s) \/ catalogEdit(s) \/ \E q \in 1 .. MaxQuantity : setItemQuantity(s, q)
  \/ clear

Spec == Init /\ [][Next]_vars

-----------------------------------------------------------------------------

(* Concurrent adds to one line lose nothing and never pass the ceiling of a line, whatever is set,    *)
(* removed or cleared between their reads and their writes.  The cap on different items is checked    *)
(* before the upsert and outside its statement: requests side by side overshoot it by no more than    *)
(* one line each but the first.                                                                       *)
CartHolds ==
  /\ \A s \in Skus : items[s] = added[s] /\ items[s] <= MaxQuantity
  /\ Cardinality(Lines) <= MaxLines + Cardinality(Requests) - 1
===============================================================================
