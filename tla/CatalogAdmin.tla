----------------------------- MODULE CatalogAdmin -----------------------------
(***************************************************************************)
(* The admin's writes of the catalog.  A request checks what it refers to, *)
(* then runs one transaction, here in two steps: the one in which it takes *)
(* its row locks and reads, and its commit, before which nothing it wrote  *)
(* is seen.  What others commit in between is seen by its later reads only.*)
(* A product is read for search as one snapshot of its version and of what *)
(* customers see of it; texts and amounts are 0 or 1.                      *)
(***************************************************************************)
EXTENDS Integers, FiniteSets

CONSTANTS
  Categories, Products, Skus,
  Requests,
  MaxWrites    \* bound: transactions

VARIABLES
  category,   \* categories: none, live or archived, and the name
  product,    \* products: status (NONE without a row), category and search version
  sku,        \* product_variants and their price: product (NoProduct without a row), archived, name, price
  events,     \* outbox records appended: products changed, categories renamed
  request,    \* per request: its operation, its step and the rows it has locked
  writes,     \* transactions so far
  versions,   \* history: what customers saw of a product at each of its versions
  reopened,   \* history: products activated by a PATCH that named no category
  stranded    \* history: versions of reopened products that were public when their category was archived

adminVars == <<category, product, sku, events, request, writes, versions, reopened, stranded>>

NoProduct == "no product"
NoCategory == "no category"
NoRow == [status |-> "NONE", cat |-> NoCategory, ver |-> 0]
NoSku == [of |-> NoProduct, archived |-> FALSE, name |-> 0, price |-> 0]
productStatus == {"DRAFT", "ACTIVE", "ARCHIVED"}

IdleRequest == [op |-> "none", pc |-> "idle", cat |-> NoCategory, p |-> NoProduct, s |-> "none", to |-> "none"]

-----------------------------------------------------------------------------
(* The public filter: archiving a category hides what is in it.                                       *)
Public(rows, cats, p) == rows[p].status = "ACTIVE" /\ cats[rows[p].cat].state # "archived"

(* What customers see of a product.  Its category's name is left out: a renaming bumps the products   *)
(* from its own event (CatalogSearch).                                                                *)
Projection(rows, skus, cats, p) ==
  IF ~Public(rows, cats, p) THEN {}
  ELSE {rows[p].cat} \cup {<<s, skus[s].name, skus[s].price>> : s \in {s \in Skus : skus[s].of = p /\ ~skus[s].archived}}

Seen(rows, skus, cats) ==
  {<<p, rows[p].ver, Projection(rows, skus, cats, p)>> : p \in {p \in Products : rows[p].status # "NONE"}}

-----------------------------------------------------------------------------
(* Row locks *)

In(r) == request[r].pc = "locked"

(* FOR UPDATE or UPDATE of a category, and the FOR SHARE of the writes that name one. *)
ExclusiveOps == {"updateCategory", "archiveCategory"}
HoldsExclusive(r, c) == In(r) /\ request[r].op \in ExclusiveOps /\ request[r].cat = c
HoldsShare(r, c) == In(r) /\ request[r].p # NoProduct /\ request[r].cat = c
HoldsProduct(r, p) == In(r) /\ request[r].p = p

ExclusiveFree(c) == \A r \in Requests : ~HoldsExclusive(r, c)

\* Defect: the category is read without its lock.
CategoryRead(c) == category[c].state = "live"

(* Waits for an archive that holds the category, and then sees what it did. *)
lockLiveCategory(c) == ExclusiveFree(c) /\ category[c].state = "live"

-----------------------------------------------------------------------------
(* The checks of the service, before any transaction *)

Begin(r, op, fields) ==
  /\ request[r] = IdleRequest /\ writes < MaxWrites
  /\ request' = [request EXCEPT ![r] = [fields EXCEPT !.op = op, !.pc = "checked"]]
  /\ writes' = writes + 1
  /\ UNCHANGED <<category, product, sku, events, versions, reopened, stranded>>

assertCategoryUsable(c) == category[c].state = "live"
assertProductExists(p) == product[p].status # "NONE"
findSkuById(s) == sku[s].of # NoProduct

StartCategory(r) ==
  \E c \in Categories, op \in {"createCategory", "updateCategory", "archiveCategory"} :
    /\ (op = "createCategory") <=> (category[c].state = "none")
    /\ Begin(r, op, [IdleRequest EXCEPT !.cat = c])

StartProduct(r) ==
  \/ \E c \in Categories, p \in Products, status \in productStatus :
       /\ assertCategoryUsable(c) /\ product[p].status = "NONE"
       /\ Begin(r, "createProduct", [IdleRequest EXCEPT !.cat = c, !.p = p, !.to = status])
  \/ \E c \in Categories \cup {NoCategory}, p \in Products, status \in productStatus \cup {"keep"} :
       /\ c # NoCategory => assertCategoryUsable(c)
       /\ assertProductExists(p)
       /\ Begin(r, "updateProduct", [IdleRequest EXCEPT !.cat = c, !.p = p, !.to = status])
  \/ \E p \in Products :
       assertProductExists(p) /\ Begin(r, "archiveProduct", [IdleRequest EXCEPT !.p = p])

StartSku(r) ==
  \/ \E p \in Products, s \in Skus :
       /\ assertProductExists(p) /\ sku[s].of = NoProduct
       /\ Begin(r, "createSku", [IdleRequest EXCEPT !.p = p, !.s = s])
  \/ \E s \in Skus, op \in {"updateSku", "archiveSku", "setPrice"} :
       findSkuById(s) /\ Begin(r, op, [IdleRequest EXCEPT !.p = sku[s].of, !.s = s])

-----------------------------------------------------------------------------
(* The transactions: locks *)

Locks(r) ==
  /\ request' = [request EXCEPT ![r].pc = "locked"]
  /\ UNCHANGED <<category, product, sku, events, writes, versions, reopened, stranded>>

Gone(r) ==
  /\ request' = [request EXCEPT ![r] = IdleRequest]
  /\ UNCHANGED <<category, product, sku, events, writes, versions, reopened, stranded>>

LockCategory(r) ==
  LET c == request[r].cat
      free == \A q \in Requests : ~HoldsExclusive(q, c) /\ ~HoldsShare(q, c)
      empty == \A p \in Products : product[p].cat = c => product[p].status \in {"NONE", "ARCHIVED"}
  IN
  /\ request[r].pc = "checked"
  /\ \/ request[r].op = "createCategory" /\ Locks(r)
     \/ request[r].op = "updateCategory" /\ free /\ Locks(r)
     \/ request[r].op = "archiveCategory" /\ free /\ IF empty THEN Locks(r) ELSE Gone(r)

(* A write of a product locks its row, which a SKU's or a price's does before it touches its own: at  *)
(* most one product, so no two writes wait for each other.                                            *)
LockProduct(r) ==
  LET q == request[r] IN
  /\ q.pc = "checked" /\ q.p # NoProduct
  /\ \A other \in Requests : ~HoldsProduct(other, q.p)
  /\ \/ (q.cat # NoCategory => lockLiveCategory(q.cat)) /\ Locks(r)
     \/ q.cat # NoCategory /\ ExclusiveFree(q.cat) /\ category[q.cat].state # "live" /\ Gone(r)

-----------------------------------------------------------------------------
(* The transactions: commits *)

Commit(r, cats, rows, skus) ==
  /\ category' = cats /\ product' = rows /\ sku' = skus
  /\ versions' = versions \cup Seen(rows, skus, cats)
  /\ request' = [request EXCEPT ![r] = IdleRequest]
  /\ UNCHANGED writes

Committing(r, op) == In(r) /\ request[r].op = op

(* A slug or a code is unique: the second of two creates is refused. *)
guardUnique(r, free, committed) == IF free THEN committed ELSE Gone(r)

createCategory(r) ==
  LET c == request[r].cat IN
  /\ Committing(r, "createCategory")
  /\ guardUnique(r, category[c].state = "none",
       /\ Commit(r, [category EXCEPT ![c].state = "live"], product, sku)
       /\ UNCHANGED <<events, reopened, stranded>>)

(* A change of the parent alone is no renaming. *)
updateCategory(r) ==
  LET c == request[r].cat IN
  /\ Committing(r, "updateCategory")
  /\ \E name \in {0, 1} :
       /\ Commit(r, [category EXCEPT ![c].name = name], product, sku)
       /\ events' = IF name # category[c].name THEN events \cup {c} ELSE events
  /\ UNCHANGED <<reopened, stranded>>

(* Neither a bump nor an event: the count found nothing in the category that was not archived.        *)
archiveCategoryIfEmpty(r) ==
  LET c == request[r].cat IN
  /\ Committing(r, "archiveCategory")
  /\ Commit(r, [category EXCEPT ![c].state = "archived"], product, sku)
  /\ stranded' = stranded \cup {<<p, product[p].ver>> : p \in {p \in reopened : product[p].cat = c /\ Public(product, category, p)}}
  /\ UNCHANGED <<events, reopened>>

createProduct(r) ==
  LET q == request[r] IN
  /\ Committing(r, "createProduct")
  /\ guardUnique(r, product[q.p].status = "NONE",
       /\ Commit(r, category, [product EXCEPT ![q.p] = [status |-> q.to, cat |-> q.cat, ver |-> 0]], sku)
       /\ events' = events \cup {q.p}
       /\ UNCHANGED <<reopened, stranded>>)

(* The version goes up in the same UPDATE. *)
updateProduct(r) ==
  LET q == request[r]
      patched == [product[q.p] EXCEPT !.status = IF q.to = "keep" THEN @ ELSE q.to,
                                      !.cat = IF q.cat = NoCategory THEN @ ELSE q.cat,
                                      !.ver = @ + 1]
      activated == product[q.p].status = "ARCHIVED" /\ patched.status # "ARCHIVED"
  IN
  /\ Committing(r, "updateProduct")
  /\ Commit(r, category, [product EXCEPT ![q.p] = patched], sku)
  /\ events' = events \cup {q.p}
  /\ reopened' = IF q.cat # NoCategory THEN reopened \ {q.p}
                 ELSE IF activated THEN reopened \cup {q.p} ELSE reopened
  /\ UNCHANGED stranded

archiveProduct(r) ==
  LET p == request[r].p IN
  /\ Committing(r, "archiveProduct")
  /\ Commit(r, category, [product EXCEPT ![p].status = "ARCHIVED", ![p].ver = @ + 1], sku)
  /\ events' = events \cup {p}
  /\ UNCHANGED <<reopened, stranded>>

bumpSearchVersion(p) == [product EXCEPT ![p].ver = @ + 1]

(* The product first, then the SKU or its price, in one transaction. *)
markSkuProductChanged(r, row) ==
  /\ Commit(r, category, bumpSearchVersion(request[r].p), [sku EXCEPT ![request[r].s] = row])
  /\ events' = events \cup {request[r].p}
  /\ UNCHANGED <<reopened, stranded>>

createSku(r) ==
  LET q == request[r] IN
  /\ Committing(r, "createSku")
  /\ guardUnique(r, sku[q.s] = NoSku, markSkuProductChanged(r, [NoSku EXCEPT !.of = q.p]))

updateSku(r) ==
  LET row == sku[request[r].s] IN
  Committing(r, "updateSku") /\ markSkuProductChanged(r, [row EXCEPT !.name = 1 - @])

archiveSku(r) ==
  LET row == sku[request[r].s] IN
  Committing(r, "archiveSku") /\ markSkuProductChanged(r, [row EXCEPT !.archived = TRUE])

setPrice(r) ==
  LET row == sku[request[r].s] IN
  Committing(r, "setPrice") /\ markSkuProductChanged(r, [row EXCEPT !.price = 1 - @])

-----------------------------------------------------------------------------

NoCatalog ==
  /\ category = [c \in Categories |-> [state |-> "none", name |-> 0]]
  /\ product = [p \in Products |-> NoRow]

(* A category with one product in it, archived for now. *)
SomeCatalog ==
  \E c \in Categories, p \in Products :
    /\ category = [d \in Categories |-> [state |-> IF d = c THEN "live" ELSE "none", name |-> 0]]
    /\ product = [q \in Products |-> IF q = p THEN [status |-> "ARCHIVED", cat |-> c, ver |-> 0] ELSE NoRow]

Rest ==
  /\ sku = [s \in Skus |-> NoSku]
  /\ events = {} /\ writes = 0 /\ reopened = {} /\ stranded = {}
  /\ request = [r \in Requests |-> IdleRequest]
  /\ versions = Seen(product, sku, category)

Init == SomeCatalog /\ Rest

Next ==
  \E r \in Requests :
    \/ StartCategory(r) \/ StartProduct(r) \/ StartSku(r)
    \/ LockCategory(r) \/ LockProduct(r)
    \/ createCategory(r) \/ updateCategory(r) \/ archiveCategoryIfEmpty(r)
    \/ createProduct(r) \/ updateProduct(r) \/ archiveProduct(r)
    \/ createSku(r) \/ updateSku(r) \/ archiveSku(r) \/ setPrice(r)

Spec == Init /\ [][Next]_adminVars

-----------------------------------------------------------------------------

OfOneVersion(x, y) == x[1] = y[1] /\ x[2] = y[2]

(* A version of a product stands for one state of what customers see of it, so a reader that keeps    *)
(* the newest version it was given ends up with what is there: whatever transactions race, there is   *)
(* one exception, the version at which a PATCH that named no category activated the product while its *)
(* category was being archived; that one is public and then hidden.  And an archived category holds   *)
(* no product that is not archived itself but those such a PATCH activated: a create or a move that   *)
(* raced the archive was refused, or refused it (lockLiveCategory, archiveCategoryIfEmpty).           *)
CatalogHolds ==
  /\ \A x, y \in versions : OfOneVersion(x, y) =>
       x[3] = y[3] \/ (<<x[1], x[2]>> \in stranded /\ {} \in {x[3], y[3]})
  /\ \A p \in Products :
       product[p].status \notin {"NONE", "ARCHIVED"} /\ category[product[p].cat].state = "archived" => p \in reopened
===============================================================================
