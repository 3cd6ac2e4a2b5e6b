---------------------------- MODULE CatalogSearch ----------------------------
(* The search projection of the catalog: catalog writes that bump a row        *)
(* version and append an event, sync workers that read a product as it is now  *)
(* and write it to the engine under that version, and reindex runs that fill a *)
(* fresh index behind a lock alias and swap search onto it.  The engine is     *)
(* external: a bulk resolves its aliases once and then applies item by item,   *)
(* refusing a version at or below the one it holds; an alias update is atomic. *)
(* One category holds every product and is archived at most once; a document   *)
(* is its version, the category name it shows and whether search serves it.    *)
EXTENDS Integers, FiniteSetsExt

CONSTANTS
  Products,    \* product ids, as naturals: pages are read in id order
  PageSize,    \* rows of one fan-out or fill page
  Bootstrap,   \* the index ensureIndex creates
  Fresh,       \* the names rebuilds take, one each: a name is a timestamp
  Runners,     \* reindex runs, one each
  Workers,     \* consumers of catalog events
  MaxChanges,  \* bound: product writes after the first rows, and category renames
  MaxFails,    \* bound: failed deliveries, timed out swaps and failed runs
  MaxLate      \* bound: abandoned bulk items the engine may still apply

(* Assumed where the module is instantiated. *)
CatalogAssumption ==
  /\ Products \subseteq Nat \ {0} /\ PageSize \in Nat \ {0}
  /\ Bootstrap \notin Fresh
  /\ {MaxChanges, MaxFails, MaxLate} \subseteq Nat

VARIABLES
  row,       \* products: version (0 = no row yet) and status
  category,  \* its name, as a generation, how far archiving it got, and as history the
             \* versions of the products that were public when it was archived
  events,    \* outbox events not yet handled, "category" or a product id
  job,       \* per worker: the delivery it is handling
  late,      \* items of abandoned bulk requests, still with the engine
  index,     \* per physical index: unused, there or deleted, its aliases, its documents
  swap,      \* abandoned alias swaps, still with the engine
  run,       \* per reindex run: its step
  spent      \* bounds: edits and fails so far

vars == <<row, category, events, job, late, index, swap, run, spent>>

Indices == Fresh \union {Bootstrap}
Statuses == {"ACTIVE", "ARCHIVED"}
Absent == [ver |-> 0, name |-> 0, shown |-> FALSE]
Blank == [p \in Products |-> Absent]
IdleJob == [pc |-> "idle", event |-> 0, cursor |-> 0, page |-> {}, items |-> {}]
IdleRun == [pc |-> "idle", own |-> Bootstrap, cursor |-> 0, page |-> {},
            serving |-> {}, doomed |-> {}, stale |-> FALSE]

Init ==
  /\ row = [p \in Products |-> [ver |-> 0, status |-> "ARCHIVED"]]
  /\ category = [name |-> 0, state |-> "live", stranded |-> {}]
  /\ events = {} /\ late = {} /\ swap = {}
  /\ job = [w \in Workers |-> IdleJob]
  /\ index = [i \in Indices |->
       [state |-> IF i = Bootstrap THEN "there" ELSE "unused",
        aliases |-> IF i = Bootstrap THEN {"products"} ELSE {}, doc |-> Blank]]
  /\ run = [r \in Runners |-> IdleRun]
  /\ spent = [edits |-> 0, fails |-> 0]

-----------------------------------------------------------------------------
(* The catalog's own transactions.                                           *)

Exists(p) == row[p].ver > 0
Spend(what) == spent' = [spent EXCEPT ![what] = @ + 1]

(* Every product, SKU and price write bumps the row's search version. *)
Written(p, status) == [row EXCEPT ![p] = [ver |-> @.ver + 1, status |-> status]]

(* lockLiveCategory waits for an archive and then refuses.                     *)
CreateProduct(p) ==
  /\ ~Exists(p) /\ category.state = "live"
  /\ \E status \in Statuses : row' = Written(p, status)
  /\ events' = events \union {p}
  /\ UNCHANGED <<category, job, late, index, swap, run, spent>>

(* updateProduct of the status, archiveProduct and the SKU and price writes:   *)
(* none of them locks the category.                                           *)
EditProduct(p) ==
  /\ Exists(p) /\ spent.edits + category.name < MaxChanges
  /\ Spend("edits")
  /\ \E status \in Statuses : row' = Written(p, status)
  /\ events' = events \union {p}
  /\ UNCHANGED <<category, job, late, index, swap, run>>

RenameCategory ==
  /\ category.state # "counted" /\ spent.edits + category.name < MaxChanges
  /\ category' = [category EXCEPT !.name = @ + 1]
  /\ events' = events \union {0}
  /\ UNCHANGED <<row, job, late, index, swap, run, spent>>

(* archiveCategoryIfEmpty locks the category and counts its products...        *)
CountProducts ==
  /\ category.state = "live"
  /\ \A p \in Products : row[p].status = "ARCHIVED"
  /\ category' = [category EXCEPT !.state = "counted"]
  /\ UNCHANGED <<row, events, job, late, index, swap, run, spent>>

(* ...and commits the archive, with no bump and no event: of what was          *)
(* activated since it knows nothing.                                          *)
ArchiveCategory ==
  /\ category.state = "counted"
  /\ category' = [category EXCEPT !.state = "archived",
                     !.stranded = @ \union {<<p, row[p].ver>> : p \in {p \in Products : row[p].status = "ACTIVE"}}]
  /\ UNCHANGED <<row, events, job, late, index, swap, run, spent>>

(* One repeatable-read snapshot: a row's version beside its public projection, *)
(* a tombstone when the public filter leaves the row out.                      *)
Public(rows, p) == rows[p].status = "ACTIVE" /\ category.state # "archived"

StateIn(rows, p) ==
  [id |-> p, ver |-> rows[p].ver, name |-> category.name, shown |-> Public(rows, p)]
SearchState(p) == StateIn(row, p)

(* The first PageSize rows after the cursor, in id order. *)
PageAfter(cursor) ==
  LET after == {p \in Products : Exists(p) /\ p > cursor}
  IN {p \in after : Cardinality({q \in after : q < p}) < PageSize}

-----------------------------------------------------------------------------
(* The engine.                                                               *)

There(i) == index[i].state = "there"
Holding(alias) == {i \in Indices : There(i) /\ alias \in index[i].aliases}

Newer(doc, item) == item.ver > doc.ver

Applied(item) ==
  IF There(item.index) /\ Newer(index[item.index].doc[item.id], item)
  THEN [index EXCEPT ![item.index].doc[item.id] =
          [ver |-> item.ver, name |-> item.name, shown |-> item.shown]]
  ELSE index

(* The aliases of one bulk, resolved together when the engine receives it. *)
Items(page, aliases) ==
  {[id |-> s.id, ver |-> s.ver, name |-> s.name, shown |-> s.shown, index |-> i] :
     s \in page, i \in UNION {Holding(a) : a \in aliases}}

(* Defect: a live write that leaves the index being rebuilt to its fill. *)
LiveServingOnly == {"products"}
LiveTargets == {"products", "rebuilding"}

(* An alias update with must_exist on every remove, applied whole or refused. *)
SwapApplies(s) ==
  /\ \A i \in s.serving : There(i) /\ "products" \in index[i].aliases
  /\ There(s.own) /\ "rebuilding" \in index[s.own].aliases

Swapped(s) ==
  [i \in Indices |->
     [index[i] EXCEPT !.aliases =
        IF i = s.own THEN (@ \ {"rebuilding"}) \union {"products"}
        ELSE IF i \in s.serving THEN @ \ {"products"} ELSE @]]

Deleted(names) ==
  [i \in Indices |->
     IF i \in names THEN [state |-> "deleted", aliases |-> {}, doc |-> Blank] ELSE index[i]]

LateApplies ==
  \E item \in late :
    /\ index' = Applied(item)
    /\ late' = late \ {item}
    /\ UNCHANGED <<row, category, events, job, swap, run, spent>>

LateSwap ==
  \E s \in swap :
    /\ index' = IF SwapApplies(s) THEN Swapped(s) ELSE index
    /\ swap' = swap \ {s}
    /\ UNCHANGED <<row, category, events, job, late, run, spent>>

-----------------------------------------------------------------------------
(* Sync workers: product.changed and category.renamed deliveries.            *)

Step(w, fields) == job' = [job EXCEPT ![w] = fields]

(* syncProduct reads the product when the delivery is taken up, or later: the *)
(* event waits in the set until then.                                         *)
TakeEvent(w) ==
  /\ job[w].pc = "idle"
  /\ \E e \in events :
       /\ events' = events \ {e}
       /\ Step(w, [IdleJob EXCEPT !.pc = IF e = 0 THEN "bump" ELSE "write", !.event = e,
                                  !.page = IF e = 0 THEN {} ELSE {SearchState(e)}])
  /\ UNCHANGED <<row, category, late, index, swap, run, spent>>

PageBumped(ids) ==
  [p \in Products |-> IF p \in ids THEN [row[p] EXCEPT !.ver = @ + 1] ELSE row[p]]

(* bumpCategoryProducts commits the page, then findByIds reads it: the rows   *)
(* as bumped, or as an edit in between left them, which its own event covers; *)
(* an archive in between might as well have come before the bump.             *)
(* An empty page ends the fan-out.                                            *)
BumpPage(w) ==
  LET ids == PageAfter(job[w].cursor) IN
  /\ job[w].pc = "bump"
  /\ IF ids = {} THEN Step(w, IdleJob) /\ UNCHANGED row
     ELSE /\ row' = PageBumped(ids)
          /\ Step(w, [job[w] EXCEPT !.pc = "write", !.cursor = Max(ids),
                                    !.page = {StateIn(PageBumped(ids), p) : p \in ids}])
  /\ UNCHANGED <<category, events, late, index, swap, run, spent>>

(* The bulk reaches the engine. *)
SendWrite(w) ==
  /\ job[w].pc = "write"
  /\ Step(w, [job[w] EXCEPT !.pc = "apply", !.page = {}, !.items = Items(job[w].page, LiveTargets)])
  /\ UNCHANGED <<row, category, events, late, index, swap, run, spent>>

(* A copy for an index deleted since counts as missing, which fails the whole *)
(* bulk unless it is the rebuild's; either way the retry only writes again.   *)
(* The last item ends a product's delivery, or the fan-out's page.            *)
ApplyItem(w) ==
  /\ job[w].pc = "apply"
  /\ \E item \in job[w].items :
       /\ index' = Applied(item)
       /\ Step(w, IF job[w].items # {item} THEN [job[w] EXCEPT !.items = @ \ {item}]
                  ELSE IF job[w].event = 0
                  THEN [job[w] EXCEPT !.pc = "bump", !.items = {}] ELSE IdleJob)
  /\ UNCHANGED <<row, category, events, late, swap, run, spent>>

(* A refused, shed or timed out delivery goes back on its retry ladder, which *)
(* starts over; the engine may still apply items it had received.             *)
DeliveryFails(w) ==
  /\ job[w].pc # "idle" /\ spent.fails < MaxFails
  /\ Spend("fails")
  /\ events' = events \union {job[w].event}
  /\ \E kept \in SUBSET job[w].items :
       /\ Cardinality(late \union kept) <= MaxLate
       /\ late' = late \union kept
  /\ Step(w, IdleJob)
  /\ UNCHANGED <<row, category, index, swap, run>>

-----------------------------------------------------------------------------
(* Reindex runs.  A process that dies is a run that takes no further step and *)
(* leaves its lock behind.                                                   *)

Go(r, fields) == run' = [run EXCEPT ![r] = fields]

Ended == [IdleRun EXCEPT !.pc = "ended"]
Aborting(r) == [IdleRun EXCEPT !.pc = "abort", !.own = run[r].own]
(* What follows an abort: the end, or the run a --clear-stale abort precedes. *)
Aborted(r) == IF run[r].stale THEN [IdleRun EXCEPT !.pc = "begin"] ELSE Ended

(* beginRebuild: the rebuild alias is the lock; a name no earlier index used. *)
BeginRebuild(r) ==
  /\ run[r].pc \in {"idle", "begin"}
  /\ \/ /\ Holding("rebuilding") # {}
        /\ Go(r, Ended)
        /\ UNCHANGED index
     \/ /\ Holding("rebuilding") = {}
        /\ \E i \in Fresh :
             /\ index[i].state = "unused"
             /\ index' = [index EXCEPT ![i] =
                            [state |-> "there", aliases |-> {"rebuilding"}, doc |-> Blank]]
             /\ Go(r, [IdleRun EXCEPT !.pc = "page", !.own = i])
  /\ UNCHANGED <<row, category, events, job, late, swap, spent>>

(* fill: one page read with findAfter. *)
ReadPage(r) ==
  LET ids == PageAfter(run[r].cursor) IN
  /\ run[r].pc = "page"
  /\ Go(r, IF ids = {} THEN [run[r] EXCEPT !.pc = "promote", !.cursor = 0]
           ELSE [run[r] EXCEPT !.pc = "fill", !.page = {SearchState(p) : p \in ids},
                               !.cursor = Max(ids)])
  /\ UNCHANGED <<row, category, events, job, late, index, swap, spent>>

(* writeRebuild goes through the alias, to whichever index holds the lock now; *)
(* with no alias the run fails.                                                *)
FillPage(r) ==
  /\ run[r].pc = "fill"
  /\ IF Holding("rebuilding") = {}
     THEN Go(r, Aborting(r)) /\ UNCHANGED index
     ELSE /\ index' = [i \in Indices |->
               IF i \notin Holding("rebuilding") THEN index[i]
               ELSE [index[i] EXCEPT !.doc = [p \in Products |->
                      LET newer == {s \in run[r].page : s.id = p /\ Newer(@[p], s)}
                      IN IF newer = {} THEN @[p]
                         ELSE LET s == CHOOSE s \in newer : TRUE
                              IN [ver |-> s.ver, name |-> s.name, shown |-> s.shown]]]]
          /\ Go(r, IF Cardinality(run[r].page) < PageSize
                   THEN [run[r] EXCEPT !.pc = "promote", !.page = {}, !.cursor = 0]
                   ELSE [run[r] EXCEPT !.pc = "page", !.page = {}])
  /\ UNCHANGED <<row, category, events, job, late, swap, spent>>

(* promoteRebuild reads the indices: still the lock holder, and what serves. *)
ReadServing(r) ==
  /\ run[r].pc = "promote"
  /\ Go(r, IF run[r].own \notin Holding("rebuilding") THEN Aborting(r)
           ELSE [run[r] EXCEPT !.pc = "swap", !.serving = Holding("products"),
                   !.doomed = {i \in Indices : There(i)} \ {run[r].own}])
  /\ UNCHANGED <<row, category, events, job, late, index, swap, spent>>

(* The swap: applied, refused, or given up on while the engine still has it. *)
Promote(r) ==
  LET s == [own |-> run[r].own, serving |-> run[r].serving] IN
  /\ run[r].pc = "swap"
  /\ \/ /\ SwapApplies(s)
        /\ index' = Swapped(s)
        /\ Go(r, [IdleRun EXCEPT !.pc = "retire", !.doomed = run[r].doomed])
        /\ UNCHANGED <<swap, spent>>
     \/ /\ ~SwapApplies(s)
        /\ Go(r, Aborting(r))
        /\ UNCHANGED <<index, swap, spent>>
     \/ /\ spent.fails < MaxFails
        /\ Spend("fails")
        /\ swap' = swap \union {s}
        /\ Go(r, Aborting(r))
        /\ UNCHANGED index
  /\ UNCHANGED <<row, category, events, job, late>>

(* An interrupt, or an engine or database error, before the swap. *)
RunFails(r) ==
  /\ run[r].pc \in {"page", "fill", "promote"} /\ spent.fails < MaxFails
  /\ Spend("fails")
  /\ Go(r, Aborting(r))
  /\ UNCHANGED <<row, category, events, job, late, index, swap>>

(* abortRebuild of its own index, or of any when a run is started with       *)
(* --clear-stale: the candidates.                                            *)
ReadLocked(r) ==
  /\ run[r].pc \in {"idle", "abort"}
  /\ LET stale == run[r].pc = "idle"
         locked == {i \in Holding("rebuilding") \ Holding("products") :
                      stale \/ i = run[r].own}
     IN /\ stale => locked # {}
        /\ Go(r, IF locked = {} THEN Ended
                 ELSE [IdleRun EXCEPT !.pc = "release", !.doomed = locked, !.stale = stale])
  /\ UNCHANGED <<row, category, events, job, late, index, swap, spent>>

(* The release, with must_exist: applied, or an answer that it is gone. *)
Released(i) == There(i) /\ "rebuilding" \in index[i].aliases

(* At most one index holds the alias, so one release. *)
ReleaseLock(r) ==
  LET i == CHOOSE i \in run[r].doomed : TRUE IN
  /\ run[r].pc = "release"
  /\ IF Released(i)
     THEN /\ index' = [index EXCEPT ![i].aliases = @ \ {"rebuilding"}]
          /\ Go(r, [run[r] EXCEPT !.pc = "delete"])
     ELSE /\ Go(r, Aborted(r))
          /\ UNCHANGED index
  /\ UNCHANGED <<row, category, events, job, late, swap, spent>>

(* dropRetired, after the grace, re-reads which of the retired hold no alias. *)
ReadIdle(r) ==
  /\ run[r].pc = "retire"
  /\ Go(r, [run[r] EXCEPT !.pc = "delete",
              !.doomed = {i \in @ : There(i) /\ index[i].aliases = {}}])
  /\ UNCHANGED <<row, category, events, job, late, index, swap, spent>>

DeleteIndices(r) ==
  /\ run[r].pc = "delete"
  /\ index' = Deleted(run[r].doomed)
  /\ Go(r, Aborted(r))
  /\ UNCHANGED <<row, category, events, job, late, swap, spent>>

-----------------------------------------------------------------------------
Next ==
  \/ \E p \in Products : CreateProduct(p) \/ EditProduct(p)
  \/ RenameCategory \/ CountProducts \/ ArchiveCategory
  \/ LateApplies \/ LateSwap
  \/ \E w \in Workers : \/ TakeEvent(w) \/ BumpPage(w) \/ SendWrite(w)
                        \/ ApplyItem(w) \/ DeliveryFails(w)
  \/ \E r \in Runners : \/ BeginRebuild(r) \/ ReadPage(r) \/ FillPage(r)
                        \/ ReadServing(r) \/ Promote(r) \/ RunFails(r)
                        \/ ReadLocked(r) \/ ReleaseLock(r) \/ ReadIdle(r)
                        \/ DeleteIndices(r)

Spec == Init /\ [][Next]_vars

-----------------------------------------------------------------------------
(* Properties.                                                               *)

Quiet == events = {} /\ \A w \in Workers : job[w].pc = "idle"
ServedDoc(p) == index[CHOOSE i \in Holding("products") : TRUE].doc[p]

(* Search always has exactly one index behind its alias: no interleaving of  *)
(* swaps, late swaps, aborts, stale-lock clears and retirements (promote-    *)
(* Rebuild, abortRebuild, dropRetired) leaves it none, two, or a deleted one.*)
(* Once every event is handled, each row is in that index at its own         *)
(* version and under the category's current name, shown if and only if it is *)
(* public, whatever order writes were applied in and however many rebuilds   *)
(* were swapped in on the way (ProductSearchSyncService, bulkWrite, fill);   *)
(* but a version that was public until the category was archived may stay    *)
(* shown: archiveCategoryIfEmpty neither bumps it nor appends an event.      *)
SearchConverges ==
  /\ Cardinality(Holding("products")) = 1
  /\ Quiet => \A p \in Products :
       Exists(p) =>
         /\ ServedDoc(p).ver = row[p].ver
         /\ <<p, row[p].ver>> \notin category.stranded => (ServedDoc(p).shown <=> Public(row, p))
         /\ ServedDoc(p).shown => ServedDoc(p).name = category.name

(* Violated.  "Any delivery (late, repeated or out of order) converges" on   *)
(* the product as it is now (ProductSearchSyncService): search shows what is *)
(* public.  A product activated while its category was being archived stays  *)
(* in the results, which are filtered by the document's status alone.        *)
SearchShowsThePublic ==
  Quiet => \A p \in Products : Exists(p) => (ServedDoc(p).shown <=> Public(row, p))
=============================================================================
