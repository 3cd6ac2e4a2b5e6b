---------------------------- MODULE CatalogCache ----------------------------
(* The catalog's read-through cache: writers that commit and then bump the     *)
(* generation every key carries, and lookups that serve fresh, serve stale and *)
(* refresh behind, or rebuild under a leased single-flight lock, with one      *)
(* shared source read per key and process for the paths that cannot use Redis. *)
(* One product stands for the catalog: its state is the number of writes       *)
(* committed to it, and a cached value is the number it was read at.  Redis is *)
(* external and may be unreachable for a while; Postgres answers or fails.     *)
EXTENDS Integers, FiniteSets

CONSTANTS
  Readers,    \* lookups in progress, a background refresh included
  ReplicaOf,  \* the process each reader runs in: the scope of a shared read
  Writers,    \* admin writes, one each
  MaxFaults   \* bound: Redis outages, crashes and failed source reads

VARIABLES
  db,      \* writes committed
  gen,     \* the generation counter in Redis
  bumped,  \* the newest write answered after a bump Redis took
  writer,  \* per writer: the write it committed, and its bump
  entry,   \* per generation: the cached value and how old it is
  lock,    \* per generation: the reader whose token it holds
  reader,  \* per reader: its step
  shared,  \* per replica and key: the source read running there
  outdated, \* some answer was older than a write answered before its lookup began
  up,      \* Redis answers
  faults   \* bound: faults so far

vars == <<db, gen, bumped, writer, entry, lock, reader, shared, outdated, up, faults>>

AllWrites == Cardinality(Writers)
Gens == 0 .. AllWrites
Unversioned == -1
Keys == Gens \union {Unversioned}
None == "none"
NoRead == -2
Running == -1   \* a shared read that has not seen the source yet
Empty == [value |-> 0, age |-> "gone"]
IdleReader == [pc |-> "idle", key |-> 0, floor |-> 0, value |-> 0, behind |-> FALSE]

Init ==
  /\ db = 0 /\ gen = 0 /\ bumped = 0
  /\ writer = [w \in Writers |-> [value |-> 0, bump |-> "due"]]
  /\ entry = [g \in Gens |-> Empty]
  /\ lock = [g \in Gens |-> None]
  /\ reader = [r \in Readers |-> IdleReader]
  /\ shared = [p \in {ReplicaOf[r] : r \in Readers} |-> [k \in Keys |-> NoRead]]
  /\ outdated = FALSE
  /\ up = TRUE
  /\ faults = 0

-----------------------------------------------------------------------------
(* Writers: commit, bump, answer; a bump Redis does not take is swallowed.    *)

Commit(w) ==
  /\ writer[w].value = 0
  /\ db' = db + 1
  /\ writer' = [writer EXCEPT ![w].value = db + 1]
  /\ UNCHANGED <<gen, bumped, entry, lock, reader, shared, outdated, up, faults>>

(* Defect: a bump that does not wait for the commit. *)
BumpsEarly(w) == writer[w].bump = "due"
MayBump(w) == writer[w].bump = "due" /\ writer[w].value > 0

Bump(w) ==
  /\ MayBump(w)
  /\ gen' = IF up THEN gen + 1 ELSE gen
  /\ writer' = [writer EXCEPT ![w].bump = IF up THEN "taken" ELSE "lost"]
  /\ UNCHANGED <<db, bumped, entry, lock, reader, shared, outdated, up, faults>>

(* A write whose bump was lost is answered too, but nothing is promised of it. *)
Answered(w) ==
  /\ writer[w].value > bumped /\ writer[w].bump = "taken"
  /\ bumped' = writer[w].value
  /\ UNCHANGED <<db, gen, writer, entry, lock, reader, shared, outdated, up, faults>>

-----------------------------------------------------------------------------
(* Lookups.                                                                  *)

At(r, pc) == reader[r].pc = pc
To(r, pc) == reader' = [reader EXCEPT ![r].pc = pc]
Answers(r, value) == outdated' = (outdated \/ value < reader[r].floor)
(* The answer is out already when the lookup goes on behind it. *)
Finish(r, value) ==
  /\ reader' = [reader EXCEPT ![r] = IdleReader]
  /\ IF reader[r].behind THEN UNCHANGED outdated ELSE Answers(r, value)

sourceVars == <<db, gen, bumped, writer>>
cacheVars == <<entry, lock>>

KeyOf(g) == g

(* The generation first: with none readable there is no key, only a shared    *)
(* source read, which promises nothing about writes answered before it.       *)
Lookup(r) ==
  /\ At(r, "idle")
  /\ reader' = [reader EXCEPT ![r] =
       IF up THEN [IdleReader EXCEPT !.pc = "get", !.key = KeyOf(gen), !.floor = bumped]
       ELSE [IdleReader EXCEPT !.pc = "join", !.key = Unversioned]]
  /\ UNCHANGED <<sourceVars, cacheVars, shared, outdated, up, faults>>

(* readThroughSwr. *)
Get(r) ==
  LET e == entry[reader[r].key] IN
  /\ At(r, "get")
  /\ \/ ~up /\ To(r, "join") /\ UNCHANGED outdated
     \/ up /\ e.age = "fresh" /\ Finish(r, e.value)
     \/ /\ up /\ e.age = "stale"
        /\ Answers(r, e.value)
        /\ reader' = [reader EXCEPT ![r].pc = "acquire", ![r].behind = TRUE]
     \/ up /\ e.age = "gone" /\ To(r, "acquire") /\ UNCHANGED outdated
  /\ UNCHANGED <<sourceVars, cacheVars, shared, up, faults>>

(* SingleFlightLock.acquire: SET NX with a lease. *)
Acquires(k) == up /\ lock[k] = None

(* A miss that is beaten to the lock waits for its holder; a refresh gives up. *)
Acquire(r) ==
  LET k == reader[r].key
      beaten == [reader EXCEPT ![r] =
                   IF @.behind THEN IdleReader ELSE [@ EXCEPT !.pc = IF up THEN "wait" ELSE "join"]]
  IN /\ At(r, "acquire")
     /\ \/ /\ Acquires(k)
           /\ lock' = [lock EXCEPT ![k] = r]
           /\ To(r, "recheck")
        \/ ~Acquires(k) /\ reader' = beaten /\ UNCHANGED lock
     /\ UNCHANGED <<sourceVars, entry, shared, outdated, up, faults>>

(* readFreshEnvelope. *)
FreshAt(k) == up /\ entry[k].age = "fresh"

(* Re-read under the lock: someone stored it meanwhile, or rebuild: *)
(* a refresh reads the source itself, a miss through the shared read.         *)
Recheck(r) ==
  LET k == reader[r].key IN
  /\ At(r, "recheck")
  /\ reader' = [reader EXCEPT ![r] =
       IF FreshAt(k) THEN [@ EXCEPT !.pc = "release", !.value = entry[k].value]
       ELSE [@ EXCEPT !.pc = IF reader[r].behind THEN "read" ELSE "joinToStore"]]
  /\ UNCHANGED <<sourceVars, cacheVars, shared, outdated, up, faults>>

(* readThroughShared: join the read running for this key here, or start one. *)
Join(r) ==
  LET p == ReplicaOf[r]  k == reader[r].key IN
  /\ reader[r].pc \in {"join", "joinToStore"}
  /\ shared' = [shared EXCEPT ![p][k] = IF @ = NoRead THEN Running ELSE @]
  /\ To(r, IF At(r, "join") THEN "joined" ELSE "joinedToStore")
  /\ UNCHANGED <<sourceVars, cacheVars, outdated, up, faults>>

(* The source statement of a shared read. *)
ReadShared(p, k) ==
  /\ shared[p][k] = Running
  /\ shared' = [shared EXCEPT ![p][k] = db]
  /\ UNCHANGED <<sourceVars, cacheVars, reader, outdated, up, faults>>

(* It settles: every caller that joined has its result, and nothing is kept. *)
Settle(p, k) ==
  LET joined(pc) == {r \in Readers : At(r, pc) /\ ReplicaOf[r] = p /\ reader[r].key = k}
  IN /\ shared[p][k] \notin {NoRead, Running}
     /\ shared' = [shared EXCEPT ![p][k] = NoRead]
     /\ reader' = [r \in Readers |->
          IF r \in joined("joined") THEN IdleReader
          ELSE IF r \in joined("joinedToStore")
          THEN [reader[r] EXCEPT !.pc = "store", !.value = shared[p][k]] ELSE reader[r]]
     /\ outdated' = (outdated \/ \E r \in joined("joined") : shared[p][k] < reader[r].floor)
     /\ UNCHANGED <<sourceVars, cacheVars, up, faults>>

(* A source read fails: its callers get the error, a lock holder releases. *)
SettleFails(p, k) ==
  LET joined(pc) == {r \in Readers : At(r, pc) /\ ReplicaOf[r] = p /\ reader[r].key = k}
  IN /\ shared[p][k] # NoRead /\ faults < MaxFaults
     /\ faults' = faults + 1
     /\ shared' = [shared EXCEPT ![p][k] = NoRead]
     /\ reader' = [r \in Readers |->
          IF r \in joined("joined") THEN IdleReader
          ELSE IF r \in joined("joinedToStore")
          THEN [reader[r] EXCEPT !.pc = "release", !.behind = TRUE] ELSE reader[r]]
     /\ UNCHANGED <<sourceVars, cacheVars, outdated, up>>

ReadSource(r) ==
  /\ At(r, "read")
  /\ reader' = [reader EXCEPT ![r].pc = "store", ![r].value = db]
  /\ UNCHANGED <<sourceVars, cacheVars, shared, outdated, up, faults>>

(* rebuildAndStore: a store Redis refuses costs the entry, not the answer. *)
Store(r) ==
  /\ At(r, "store")
  /\ entry' = IF up THEN [entry EXCEPT ![reader[r].key] = [value |-> reader[r].value, age |-> "fresh"]]
              ELSE entry
  /\ To(r, "release")
  /\ UNCHANGED <<sourceVars, lock, shared, outdated, up, faults>>

(* Compare and delete. *)
Frees(r, k) == lock[k] = r

Release(r) ==
  LET k == reader[r].key IN
  /\ At(r, "release")
  /\ lock' = IF up /\ Frees(r, k) THEN [lock EXCEPT ![k] = None] ELSE lock
  /\ Finish(r, reader[r].value)
  /\ UNCHANGED <<sourceVars, entry, shared, up, faults>>

(* waitForEnvelope: any envelope answers; an error, a lock that is gone or the *)
(* end of the wait reads through.  Between two polls the wait just goes on.    *)
Wait(r) ==
  LET e == entry[reader[r].key] IN
  /\ At(r, "wait")
  /\ \/ up /\ e.age # "gone" /\ Finish(r, e.value)
     \/ (~up \/ e.age = "gone") /\ To(r, "join") /\ UNCHANGED outdated
  /\ UNCHANGED <<sourceVars, cacheVars, shared, up, faults>>

(* The process dies, lookup, shared reads and all: the lock stays for its lease. *)
Crash(p) ==
  /\ faults < MaxFaults
  /\ faults' = faults + 1
  /\ reader' = [r \in Readers |-> IF ReplicaOf[r] = p THEN IdleReader ELSE reader[r]]
  /\ shared' = [shared EXCEPT ![p] = [k \in Keys |-> NoRead]]
  /\ UNCHANGED <<sourceVars, cacheVars, outdated, up>>

-----------------------------------------------------------------------------
(* Time and Redis.                                                           *)

(* Past the soft TTL an entry is served while refreshed, past the hard one gone. *)
Aged(age) == IF age = "fresh" THEN "stale" ELSE "gone"

Age(g) ==
  /\ entry[g].age # "gone"
  /\ entry' = [entry EXCEPT ![g] = IF Aged(@.age) = "gone" THEN Empty
                                   ELSE [value |-> @.value, age |-> Aged(@.age)]]
  /\ UNCHANGED <<sourceVars, lock, reader, shared, outdated, up, faults>>

LeaseEnds(g) ==
  /\ lock[g] # None
  /\ lock' = [lock EXCEPT ![g] = None]
  /\ UNCHANGED <<sourceVars, entry, reader, shared, outdated, up, faults>>

Outage ==
  /\ up /\ faults < MaxFaults
  /\ up' = FALSE
  /\ faults' = faults + 1
  /\ UNCHANGED <<sourceVars, cacheVars, reader, shared, outdated>>

Recovers ==
  /\ ~up /\ up' = TRUE
  /\ UNCHANGED <<sourceVars, cacheVars, reader, shared, outdated, faults>>

-----------------------------------------------------------------------------
Replicas == {ReplicaOf[r] : r \in Readers}

Goes(r) ==
  \/ Get(r) \/ Acquire(r) \/ Recheck(r) \/ Join(r) \/ ReadSource(r) \/ Store(r)
  \/ Release(r) \/ Wait(r)

Next ==
  \/ \E w \in Writers : Commit(w) \/ Bump(w) \/ Answered(w)
  \/ \E r \in Readers : Lookup(r) \/ Goes(r)
  \/ \E p \in Replicas : \/ \E k \in Keys : ReadShared(p, k) \/ Settle(p, k) \/ SettleFails(p, k)
                         \/ Crash(p)
  \/ \E g \in Gens : Age(g) \/ LeaseEnds(g)
  \/ Outage \/ Recovers

Spec == Init /\ [][Next]_vars

-----------------------------------------------------------------------------
(* Properties.                                                               *)

(* A lookup that could read the generation never answers older than a write  *)
(* bumped before it began, however slow a rebuild, whosever lease lapsed    *)
(* and whatever read it shared (invalidatingWrite, readThroughSwr).          *)
ReadsYourWrites == ~outdated

=============================================================================
