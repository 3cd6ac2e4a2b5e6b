--------------------------- MODULE MCCatalogSearch ---------------------------
(* The search projection, with one product, one worker and two reindex runs;  *)
(* the admin's transactions that feed it; and the cache of the storefront's   *)
(* reads.  The three are explored side by side: a behaviour follows one of    *)
(* them from the start to the end.                                            *)
EXTENDS Integers, FiniteSets, TLC

CONSTANTS
  Listed, PageSize, Bootstrap, Fresh, Runners, Workers, MaxChanges, MaxFails, MaxLate,
  Categories, Goods, Articles, Admins, MaxWrites,
  Readers, ReplicaOf, replica, CacheWriters, MaxCacheFaults

VARIABLES
  row, category, events, job, late, index, swap, run, spent,
  catalogPart, categoryRow, productRow, skuRow, appended, adminRequest, writes, versions, reopened, stranded,
  db, gen, bumped, cacheWriter, entry, lock, reader, shared, outdated, up, cacheFaults

searchState == <<row, category, events, job, late, index, swap, run, spent>>
adminState == <<categoryRow, productRow, skuRow, appended, adminRequest, writes, versions, reopened, stranded>>
cacheVars == <<db, gen, bumped, cacheWriter, entry, lock, reader, shared, outdated, up, cacheFaults>>

Search == INSTANCE CatalogSearch WITH Products <- Listed

Admin == INSTANCE CatalogAdmin
           WITH Products <- Goods, Skus <- Articles, Requests <- Admins, category <- categoryRow,
                product <- productRow, sku <- skuRow, events <- appended, request <- adminRequest

Cache == INSTANCE CatalogCache
           WITH Readers <- Readers, ReplicaOf <- ReplicaOf,
                Writers <- CacheWriters, MaxFaults <- MaxCacheFaults,
                db <- db, gen <- gen, bumped <- bumped, writer <- cacheWriter, entry <- entry,
                lock <- lock, reader <- reader, shared <- shared, outdated <- outdated, up <- up,
                faults <- cacheFaults

ASSUME SearchAssumption == Search!CatalogAssumption /\ IsFiniteSet(Listed)
ASSUME AdminAssumption == Admin!NoProduct \notin Goods /\ Admin!NoCategory \notin Categories
ASSUME CacheAssumption == IsFiniteSet(CacheWriters)

(* All lookups in one process: those of different ones meet in Redis only. *)
OneReplica == [r \in Readers |-> replica]

Symmetry == Permutations(Runners) \union Permutations(Fresh)

CatalogInit ==
  /\ Search!Init /\ Cache!Init
  /\ \/ catalogPart \in {"search", "cache"} /\ Admin!NoCatalog
     \/ catalogPart = "admin" /\ Admin!SomeCatalog
  /\ Admin!Rest

CatalogNext ==
  /\ UNCHANGED catalogPart
  /\ \/ catalogPart = "search" /\ Search!Next /\ UNCHANGED <<adminState, cacheVars>>
     \/ catalogPart = "admin" /\ Admin!Next /\ UNCHANGED <<searchState, cacheVars>>
     \/ catalogPart = "cache" /\ Cache!Next /\ UNCHANGED <<searchState, adminState>>

CatalogSpec == CatalogInit /\ [][CatalogNext]_<<catalogPart, searchState, adminState, cacheVars>>

(* SearchConverges of CatalogSearch: one index behind the alias, and once the events are handled it    *)
(* holds every row at its own version and shows what is public, whatever order writes, swaps and       *)
(* retirements came in, but for versions that were public until the category was archived.            *)
SearchConverges == Search!SearchConverges

(* SearchShowsThePublic of CatalogSearch, violated: once the events are handled search shows exactly   *)
(* what is public (product-search-sync.service.ts, archiveCategoryIfEmpty).                           *)
SearchShowsThePublic == Search!SearchShowsThePublic

(* CatalogHolds of CatalogAdmin: a version stands for one state of a product, but for one a PATCH      *)
(* activated under a category being archived, and archived categories are left empty by every write    *)
(* that names one.                                                                                    *)
CatalogHolds == Admin!CatalogHolds

(* ReadsYourWrites of CatalogCache: a lookup never answers older than a write bumped before it began.  *)
ReadsYourWrites == Cache!ReadsYourWrites
=============================================================================
