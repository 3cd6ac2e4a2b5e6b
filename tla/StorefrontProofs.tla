--------------------------- MODULE StorefrontProofs ----------------------------
(***************************************************************************)
(* What customers see of their sessions, the catalog, its images and a     *)
(* cart, and what administrators write: the session epoch (Spec), the      *)
(* cache of the catalog (Cache), carts (Carts), the transactions of the    *)
(* catalog (Admin), its images (Images) and the search projection          *)
(* (Search), for any numbers of clients, rows and faults.                  *)
(***************************************************************************)
EXTENDS MCStorefront, MCCatalogSearch, MCMedia, FiniteSetTheorems, WellFoundedInduction, TLAPS

-------------------------------------------------------------------------------
(* The session epoch.  AnsweredIsEffective is not inductive: a lost key is filled again by whatever is *)
(* on its way to it, so that all of it must be recent enough.                                          *)

(* What is on its way to a missing key is no older than the last answer. *)
NothingOlderInFlight ==
  published = None =>
    /\ \A w \in Writers : writer[w] # None => writer[w] >= answered
    /\ pass # NoPass => pass.epoch >= answered
    /\ \A v \in Verifiers : look[v].pc = "filling" => look[v].epoch >= answered

(* No answer is ahead of the row, and every epoch on its way was committed. *)
AnswersCommitted ==
  /\ answered <= epoch
  /\ \A w \in Writers : writer[w] <= epoch

(* What a verifier works with is no older than the answers given when it began. *)
LooksRecent ==
  \A v \in Verifiers :
    /\ look[v].floor <= answered
    /\ look[v].pc \in {"filling", "heard"} => look[v].epoch >= look[v].floor

EpochInv ==
  /\ TypeOK /\ NothingOlderInFlight /\ AnswersCommitted /\ LooksRecent
  /\ published # None => published >= answered

(* The row, the key and every request keep their types: registration starts at epoch 0, and bump,     *)
(* publishEpochOrRaise, the reconciler and the read-through only pass on epochs that were committed.  *)
LEMMA TypesKept == TypeOK /\ [Next]_vars => TypeOK'
<1> SUFFICES ASSUME TypeOK, [Next]_vars PROVE TypeOK'
  OBVIOUS
<1> USE BoundAssumption DEF TypeOK, None, NoPass, NotLooking
<1>1. ASSUME NEW w \in Writers, bump(w) PROVE TypeOK'
  <2>1. pass' \in [epoch : None .. MaxEpoch, changed : BOOLEAN]
    <3>1. CASE pass = NoPass
      BY <1>1, <3>1 DEF bump
    <3>2. CASE pass # NoPass
      <4>1. pass' = [pass EXCEPT !.changed = TRUE]
        BY <1>1, <3>2 DEF bump
      <4> QED
        BY <4>1, Zenon
    <3> QED
      BY <3>1, <3>2
  <2>2. recent' \in BOOLEAN
    BY <1>1 DEF bump
  <2>3. epoch' \in 0 .. MaxEpoch /\ writer' \in [Writers -> None .. MaxEpoch]
    BY <1>1 DEF bump
  <2> QED
    BY <1>1, <2>1, <2>2, <2>3 DEF bump
<1>2. ASSUME NEW w \in Writers, publishEpochOrRaise(w) PROVE TypeOK'
  BY <1>2 DEF publishEpochOrRaise, Raise, Later, Fails
<1>3. CASE listChanges
  <2>1. pass' \in [epoch : None .. MaxEpoch, changed : BOOLEAN]
    BY <1>3 DEF listChanges
  <2> QED
    BY <1>3, <2>1 DEF listChanges
<1>4. CASE reconcileOnce
  <2>1. recent' \in BOOLEAN
    BY <1>4, Zenon DEF reconcileOnce, Watermark
  <2>2. pass' \in [epoch : None .. MaxEpoch, changed : BOOLEAN]
    BY <1>4 DEF reconcileOnce
  <2>3. pass.epoch \in None .. MaxEpoch /\ published \in None .. MaxEpoch /\ faults \in 0 .. MaxFaults
    OBVIOUS
  <2>4. \/ published' = Raise(published, pass.epoch) /\ faults' = faults
        \/ faults < MaxFaults /\ faults' = faults + 1 /\ published' = published
    BY <1>4, Zenon DEF reconcileOnce, Fails
  <2>5. published' \in None .. MaxEpoch /\ faults' \in 0 .. MaxFaults
    <3> HIDE DEF TypeOK, NoPass
    <3> QED
      BY <2>3, <2>4 DEF Raise, Later
  <2> QED
    BY <1>4, <2>1, <2>2, <2>5 DEF reconcileOnce
<1>5. ASSUME NEW v \in Verifiers, verify(v) PROVE TypeOK'
  BY <1>5 DEF verify
<1>6. ASSUME NEW v \in Verifiers, fillReads(v) PROVE TypeOK'
  <2>1. look' \in [Verifiers -> [pc : {"idle", "miss", "filling", "heard"}, floor : None .. MaxEpoch, epoch : None .. MaxEpoch]]
    <3> DEFINE Looks == [pc : {"idle", "miss", "filling", "heard"}, floor : None .. MaxEpoch, epoch : None .. MaxEpoch]
    <3>1. look[v] \in Looks /\ epoch \in None .. MaxEpoch
      OBVIOUS
    <3>2. [look[v] EXCEPT !.pc = "filling", !.epoch = epoch] \in Looks
      BY <3>1, Zenon
    <3>3. look' = [look EXCEPT ![v] = [look[v] EXCEPT !.pc = "filling", !.epoch = epoch]]
      BY <1>6, Zenon DEF fillReads
    <3> QED
      BY <3>2, <3>3, Zenon
  <2> QED
    BY <1>6, <2>1, Zenon DEF fillReads
<1>7. ASSUME NEW v \in Verifiers, fillPublishes(v) PROVE TypeOK'
  BY <1>7 DEF fillPublishes, Raise, Later, Fails
<1>8. ASSUME NEW v \in Verifiers, decides(v) PROVE TypeOK'
  BY <1>8 DEF decides
<1>9. CASE Crash
  BY <1>9 DEF Crash, Fails
<1>10. CASE KeyLost
  BY <1>10 DEF KeyLost, Fails
<1>11. CASE UNCHANGED vars
  BY <1>11 DEF vars
<1> QED
  BY <1>1, <1>2, <1>3, <1>4, <1>5, <1>6, <1>7, <1>8, <1>9, <1>10, <1>11 DEF Next

(* A step of the user-service, the reconciler, a verifier or a fault keeps the whole invariant. *)
LEMMA EpochInvKept == EpochInv /\ [Next]_vars => EpochInv'
<1> SUFFICES ASSUME EpochInv, [Next]_vars PROVE EpochInv'
  OBVIOUS
<1>0. TypeOK /\ TypeOK'
  BY TypesKept DEF EpochInv
<1> DEFINE Rest == /\ NothingOlderInFlight /\ AnswersCommitted /\ LooksRecent
                   /\ published # None => published >= answered
<1> USE <1>0, BoundAssumption
        DEF EpochInv, NothingOlderInFlight, AnswersCommitted, LooksRecent, TypeOK, None, NoPass, NotLooking
<1>1. ASSUME NEW w \in Writers, bump(w) PROVE Rest'
  <2>1. pass' # NoPass => pass # NoPass /\ pass'.epoch = pass.epoch
    BY <1>1 DEF bump
  <2>2. /\ epoch' = epoch + 1 /\ published' = published /\ look' = look /\ answered' = answered
        /\ writer' = [writer EXCEPT ![w] = epoch + 1]
    BY <1>1 DEF bump
  <2> HIDE DEF NoPass
  <2> QED
    BY <2>1, <2>2
<1>2. ASSUME NEW w \in Writers, publishEpochOrRaise(w) PROVE Rest'
  BY <1>2 DEF publishEpochOrRaise, Raise, Later, Fails
<1>3. CASE listChanges
  <2> Rest'
    BY <1>3 DEF listChanges
  <2> QED
    OBVIOUS
<1>4. CASE reconcileOnce
  <2>1. pass.epoch \in None .. MaxEpoch /\ pass # NoPass
    BY <1>4 DEF reconcileOnce
  <2>2. /\ published' \in {published, Raise(published, pass.epoch)} /\ pass' = NoPass
        /\ UNCHANGED <<epoch, writer, look, answered>>
    BY <1>4 DEF reconcileOnce
  <2> Rest'
    <3> HIDE DEF NoPass
    <3> QED
      BY <2>1, <2>2 DEF Raise, Later
  <2> QED
    OBVIOUS
<1>5. ASSUME NEW v \in Verifiers, verify(v) PROVE Rest'
  BY <1>5 DEF verify
<1>6. ASSUME NEW v \in Verifiers, fillReads(v) PROVE Rest'
  BY <1>6 DEF fillReads
<1>7. ASSUME NEW v \in Verifiers, fillPublishes(v) PROVE Rest'
  BY <1>7 DEF fillPublishes, Raise, Later, Fails
<1>8. ASSUME NEW v \in Verifiers, decides(v) PROVE Rest'
  BY <1>8 DEF decides
<1>9. CASE Crash
  <2> Rest'
    BY <1>9 DEF Crash, Fails
  <2> QED
    OBVIOUS
<1>10. CASE KeyLost
  <2> Rest'
    BY <1>10 DEF KeyLost, Fails, Publishing
  <2> QED
    OBVIOUS
<1>11. CASE UNCHANGED vars
  <2> Rest'
    BY <1>11 DEF vars
  <2> QED
    OBVIOUS
<1> QED
  BY <1>1, <1>2, <1>3, <1>4, <1>5, <1>6, <1>7, <1>8, <1>9, <1>10, <1>11 DEF Next

(* Whatever races, fails or is lost, EpochInv always holds of the epoch's way to the verifiers. *)
THEOREM EpochsInOrder == Spec => []EpochInv
<1>1. Init => EpochInv
  BY BoundAssumption DEF Init, EpochInv, NothingOlderInFlight, AnswersCommitted, LooksRecent,
                         TypeOK, None, NoPass, NotLooking
<1> QED
  BY <1>1, EpochInvKept, PTL DEF Spec

(* A verification that begins after a revocation was answered hears at least its epoch, however fills *)
(* race bumps, publishes arrive out of order and the key is lost (access-token.verifier, publisher).   *)
THEOREM RevocationEffective == Spec => []AnsweredIsEffective
<1>1. EpochInv => AnsweredIsEffective
  BY DEF EpochInv, AnsweredIsEffective, LooksRecent
<1> QED
  BY <1>1, EpochsInOrder, PTL

(* The epochs of the row, the key and the requests keep their types and bounds. *)
THEOREM EpochsTyped == Spec => []TypeOK
<1>1. EpochInv => TypeOK
  BY DEF EpochInv
<1> QED
  BY <1>1, EpochsInOrder, PTL

-------------------------------------------------------------------------------
(* The cache of the catalog *)

Bumpers == {w \in CacheWriters : cacheWriter[w].bump = "taken"}

(* A value at a key answers for every lookup with that key; at the generation of now it holds every    *)
(* write whose bump was taken.                                                                         *)
Recent(k, v, g, at, wrote) ==
  /\ v \in Nat /\ k <= g
  /\ \A r \in Readers : at[r].key = k => at[r].floor <= v
  /\ k = g => \A w \in CacheWriters : wrote[w].bump = "taken" => wrote[w].value <= v

KeyedSteps ==
  {"get", "acquire", "recheck", "wait", "joinToStore", "joinedToStore", "read", "store", "release"}

ReaderStates ==
  [pc : KeyedSteps \cup {"idle", "join", "joined"}, key : Cache!Keys, floor : Nat, value : Nat, behind : BOOLEAN]

CacheTypes ==
  /\ db \in Nat /\ bumped \in Nat /\ up \in BOOLEAN
  /\ cacheWriter \in [CacheWriters -> [value : Nat, bump : {"due", "taken", "lost"}]]
  /\ entry \in [Cache!Gens -> [value : Nat, age : {"fresh", "stale", "gone"}]]
  /\ reader \in [Readers -> ReaderStates]
  /\ shared \in [{ReplicaOf[r] : r \in Readers} -> [Cache!Keys -> Nat \cup {-1, -2}]]

(* A write is bumped after it is committed, and the generation counts the bumps. *)
BumpsFollow ==
  /\ \A w \in CacheWriters :
       /\ cacheWriter[w].value <= db
       /\ cacheWriter[w].bump = "taken" => cacheWriter[w].value > 0
  /\ bumped > 0 => \E w \in CacheWriters : cacheWriter[w].bump = "taken" /\ bumped <= cacheWriter[w].value
  /\ gen = Cardinality(Bumpers)

KeysTaken ==
  \A r \in Readers :
    /\ reader[r].key <= gen /\ reader[r].floor <= db
    /\ reader[r].pc \in KeyedSteps => reader[r].key \in Cache!Gens
    /\ reader[r].key = -1 => reader[r].floor = 0
    /\ reader[r].pc = "get" => ~reader[r].behind

Stored == \A k \in Cache!Gens : entry[k].age # "gone" => Recent(k, entry[k].value, gen, reader, cacheWriter)

Carried ==
  \A r \in Readers :
    reader[r].pc = "store" \/ (reader[r].pc = "release" /\ ~reader[r].behind)
      => Recent(reader[r].key, reader[r].value, gen, reader, cacheWriter)

SharedReads ==
  \A p \in {ReplicaOf[r] : r \in Readers}, k \in Cache!Keys :
    shared[p][k] # -2 => k <= gen /\ (shared[p][k] # -1 => Recent(k, shared[p][k], gen, reader, cacheWriter))

CacheInv == CacheTypes /\ BumpsFollow /\ KeysTaken /\ Stored /\ Carried /\ SharedReads /\ outdated = FALSE

CacheDone == CacheTypes /\ BumpsFollow /\ KeysTaken

(* The instance counts as this module does. *)
LEMMA CacheSize == \A S : Cache!Cardinality(S) = Cardinality(S)
  BY DEF Cache!Cardinality, Cardinality

LEMMA BumpsCounted ==
  ASSUME BumpsFollow
  PROVE  /\ IsFiniteSet(Bumpers) /\ gen \in Nat
         /\ Cache!AllWrites \in Nat /\ gen <= Cache!AllWrites
         /\ gen \in Cache!Gens /\ gen \in Cache!Keys /\ -1 \in Cache!Keys
<1>1. IsFiniteSet(Bumpers) /\ Cardinality(Bumpers) <= Cardinality(CacheWriters)
  BY CacheAssumption, FS_Subset DEF Bumpers
<1>2. Cardinality(Bumpers) \in Nat /\ Cardinality(CacheWriters) \in Nat
  BY <1>1, CacheAssumption, FS_CardinalityType
<1>3. Cache!AllWrites = Cardinality(CacheWriters)
  BY CacheSize DEF Cache!AllWrites
<1> QED
  BY <1>1, <1>2, <1>3 DEF BumpsFollow, Cache!Gens, Cache!Keys, Cache!Unversioned

LEMMA KeyTypes == Cache!Gens \subseteq Nat /\ Cache!Keys = Cache!Gens \cup {-1}
<1>1. Cache!AllWrites \in Nat
  BY CacheSize, CacheAssumption, FS_CardinalityType DEF Cache!AllWrites
<1> QED
  BY <1>1 DEF Cache!Gens, Cache!Keys, Cache!Unversioned

(* A value stays recent as long as no lookup begins and nothing is bumped. *)
LEMMA RecentKept ==
  ASSUME NEW k, NEW v, NEW g, NEW at, NEW wrote, NEW next,
         \A r \in Readers : next[r].floor = 0 \/ (next[r].key = at[r].key /\ next[r].floor = at[r].floor),
         Recent(k, v, g, at, wrote)
  PROVE  Recent(k, v, g, next, wrote)
  BY DEF Recent

(* What the source shows now is recent at every key handed out. *)
LEMMA SourceRecent ==
  ASSUME CacheDone, NEW k \in Cache!Keys, k <= gen
  PROVE  Recent(k, db, gen, reader, cacheWriter)
  BY DEF Recent, CacheDone, CacheTypes, BumpsFollow, KeysTaken

CacheMoves ==
  /\ CacheTypes' /\ KeysTaken' /\ outdated' = FALSE
  /\ UNCHANGED <<db, gen, bumped, cacheWriter>>
  /\ \A r \in Readers :
       reader'[r].floor = 0 \/ (reader'[r].key = reader[r].key /\ reader'[r].floor = reader[r].floor)
EntriesStay ==
  \A k \in Cache!Gens : entry'[k].age # "gone" => Recent(k, entry'[k].value, gen, reader, cacheWriter)
CarriedStay ==
  \A r \in Readers :
    reader'[r].pc = "store" \/ (reader'[r].pc = "release" /\ ~reader'[r].behind)
      => Recent(reader'[r].key, reader'[r].value, gen, reader, cacheWriter)
SharedStay ==
  \A p \in {ReplicaOf[r] : r \in Readers}, k \in Cache!Keys :
    shared'[p][k] # -2 => k <= gen /\ (shared'[p][k] # -1 => Recent(k, shared'[p][k], gen, reader, cacheWriter))

LEMMA LookupsMove ==
  ASSUME CacheInv, CacheMoves, EntriesStay, CarriedStay, SharedStay
  PROVE  CacheInv'
<1>1. BumpsFollow'
  BY DEF CacheInv, BumpsFollow, Bumpers, CacheMoves
<1>2. \A k, v : Recent(k, v, gen, reader, cacheWriter) => Recent(k, v, gen', reader', cacheWriter')
  <2>1. \A k, v : Recent(k, v, gen, reader, cacheWriter) => Recent(k, v, gen, reader', cacheWriter)
    BY RecentKept DEF CacheMoves
  <2> QED
    BY <2>1 DEF CacheMoves
<1>3. Stored'
  BY <1>2 DEF EntriesStay, Stored
<1>4. Carried'
  BY <1>2 DEF CarriedStay, Carried
<1>5. SharedReads'
  BY <1>2 DEF SharedStay, SharedReads, CacheMoves
<1> QED
  BY <1>1, <1>3, <1>4, <1>5 DEF CacheInv, CacheMoves

LEMMA CacheStarts == Cache!Init => CacheInv
<1> SUFFICES ASSUME Cache!Init PROVE CacheInv
  OBVIOUS
<1> USE DEF Cache!Init, Cache!IdleReader, Cache!Empty
<1>1. IsFiniteSet({}) /\ Cardinality({}) = 0
  BY FS_EmptySet
<1>2. Bumpers = {}
  BY DEF Bumpers
<1>3. 0 \in Cache!Gens
  BY CacheSize, CacheAssumption, FS_CardinalityType DEF Cache!Gens, Cache!AllWrites
<1>4. CacheTypes
  BY <1>3, KeyTypes DEF CacheTypes, ReaderStates, KeyedSteps, Cache!NoRead
<1>5. BumpsFollow
  BY <1>1, <1>2 DEF BumpsFollow
<1>6. KeysTaken
  BY <1>3 DEF KeysTaken, KeyedSteps
<1> QED
  BY <1>4, <1>5, <1>6 DEF CacheInv, Stored, Carried, SharedReads, Cache!NoRead

LEMMA WritesKeepCache ==
  ASSUME CacheInv, NEW w \in CacheWriters, Cache!Commit(w) \/ Cache!Bump(w) \/ Cache!Answered(w)
  PROVE  CacheInv'
<1> USE DEF CacheInv
<1>1. CASE Cache!Commit(w)
  <2> USE <1>1 DEF Cache!Commit
  <2>1. CacheTypes'
    BY DEF CacheTypes
  <2>2. \A x \in CacheWriters :
          /\ cacheWriter'[x].bump = cacheWriter[x].bump
          /\ cacheWriter[x].bump = "taken" => cacheWriter'[x].value = cacheWriter[x].value
    BY DEF CacheTypes, BumpsFollow
  <2>3. Bumpers' = Bumpers
    BY <2>2 DEF Bumpers
  <2>4. BumpsFollow'
    BY <2>2, <2>3 DEF BumpsFollow, CacheTypes
  <2>5. KeysTaken'
    BY DEF KeysTaken, CacheTypes, ReaderStates
  <2>6. \A k, v : Recent(k, v, gen, reader, cacheWriter) => Recent(k, v, gen', reader', cacheWriter')
    BY <2>2 DEF Recent
  <2>7. Stored' /\ Carried' /\ SharedReads'
    BY <2>6 DEF Stored, Carried, SharedReads
  <2> QED
    BY <2>1, <2>4, <2>5, <2>7
<1>2. CASE Cache!Bump(w)
  <2> USE <1>2 DEF Cache!Bump, Cache!MayBump
  <2>1. CacheTypes'
    BY DEF CacheTypes
  <2>2. \A x \in CacheWriters : cacheWriter'[x].value = cacheWriter[x].value
    BY DEF CacheTypes
  <2>3. CASE ~up
    <3>1. Bumpers' = Bumpers
      BY <2>3 DEF Bumpers, CacheTypes
    <3>2. BumpsFollow'
      BY <2>2, <2>3, <3>1 DEF BumpsFollow, CacheTypes, Bumpers
    <3>3. \A k, v : Recent(k, v, gen, reader, cacheWriter) => Recent(k, v, gen', reader', cacheWriter')
      BY <2>3 DEF Recent, CacheTypes
    <3>4. KeysTaken' /\ Stored' /\ Carried' /\ SharedReads'
      BY <2>3, <3>3 DEF KeysTaken, Stored, Carried, SharedReads
    <3> QED
      BY <2>1, <3>2, <3>4
  <2>4. CASE up
    <3>1. Bumpers' = Bumpers \cup {w} /\ w \notin Bumpers
      BY <2>4 DEF Bumpers, CacheTypes
    <3>2. IsFiniteSet(Bumpers) /\ gen \in Nat
      BY BumpsCounted
    <3>3. Cardinality(Bumpers') = Cardinality(Bumpers) + 1
      BY <3>1, <3>2, FS_AddElement
    <3>4. BumpsFollow'
      BY <2>2, <2>4, <3>1, <3>3 DEF BumpsFollow, CacheTypes, Bumpers
    <3>5. \A k \in Cache!Keys : \A v :
            Recent(k, v, gen, reader, cacheWriter) => Recent(k, v, gen', reader', cacheWriter')
      BY <2>4, <3>2, KeyTypes DEF Recent
    <3>6. KeysTaken'
      BY <2>4, <3>2, KeyTypes DEF KeysTaken, CacheTypes, ReaderStates
    <3>7. Stored'
      <4>1. \A k \in Cache!Gens : entry'[k] = entry[k] /\ k \in Cache!Keys
        BY KeyTypes
      <4> QED
        BY <3>5, <4>1 DEF Stored
    <3>8. Carried'
      <4>1. \A x \in Readers : reader'[x] = reader[x] /\ reader[x].key \in Cache!Keys
        BY DEF CacheTypes, ReaderStates
      <4> QED
        BY <3>5, <4>1 DEF Carried
    <3>9. SharedReads'
      <4>1. \A k \in Cache!Keys : k <= gen => k <= gen'
        BY <2>4, <3>2, KeyTypes
      <4> QED
        BY <3>5, <4>1 DEF SharedReads
    <3> QED
      BY <2>1, <3>4, <3>6, <3>7, <3>8, <3>9
  <2> QED
    BY <2>3, <2>4 DEF CacheTypes
<1>3. CASE Cache!Answered(w)
  <2> USE <1>3 DEF Cache!Answered
  <2>1. CacheTypes' /\ BumpsFollow' /\ KeysTaken'
    BY DEF CacheTypes, BumpsFollow, KeysTaken, Bumpers
  <2>2. Stored' /\ Carried' /\ SharedReads'
    BY DEF Stored, Carried, SharedReads
  <2> QED
    BY <2>1, <2>2
<1> QED
  BY <1>1, <1>2, <1>3

LEMMA LookupKeepsCache ==
  ASSUME CacheInv, NEW r \in Readers, Cache!Lookup(r)
  PROVE  CacheInv'
<1> USE DEF CacheInv, Cache!Lookup, Cache!At, Cache!KeyOf, Cache!IdleReader, Cache!Unversioned,
            Cache!sourceVars, Cache!cacheVars
<1>1. gen \in Cache!Gens /\ gen \in Nat /\ gen \in Cache!Keys /\ -1 \in Cache!Keys
  BY BumpsCounted
<1>2. \A x \in Readers : x # r => reader'[x] = reader[x]
  BY DEF CacheTypes
<1>3. /\ reader'[r].pc \notin {"store", "release"}
      /\ (reader'[r].key = gen /\ reader'[r].floor = bumped) \/ reader'[r].floor = 0
  BY DEF CacheTypes
<1>4. CacheTypes'
  BY <1>1, KeyTypes DEF CacheTypes, ReaderStates, KeyedSteps
<1>5. KeysTaken'
  BY <1>1, <1>2, KeyTypes DEF CacheTypes, KeysTaken, KeyedSteps, BumpsFollow
<1>6. \A k, v : Recent(k, v, gen, reader, cacheWriter) => Recent(k, v, gen', reader', cacheWriter')
  <2> SUFFICES ASSUME NEW k, NEW v, Recent(k, v, gen, reader, cacheWriter), NEW x \in Readers,
                      reader'[x].key = k
               PROVE  reader'[x].floor <= v
    BY DEF Recent
  <2> QED
    BY <1>2, <1>3 DEF Recent, CacheTypes, BumpsFollow
<1>7. BumpsFollow'
  BY DEF BumpsFollow, Bumpers
<1>8. Stored' /\ SharedReads'
  BY <1>6 DEF Stored, SharedReads
<1>9. Carried'
  BY <1>2, <1>3, <1>6 DEF Carried
<1> QED
  BY <1>4, <1>5, <1>7, <1>8, <1>9

(* An answer of a recent value is not outdated. *)
LEMMA Served ==
  ASSUME CacheInv, NEW r \in Readers, NEW v, Recent(reader[r].key, v, gen, reader, cacheWriter)
  PROVE  ~(v < reader[r].floor)
  BY DEF Recent, CacheInv, CacheTypes, ReaderStates

LEMMA Goes ==
  ASSUME NEW at \in ReaderStates
  PROVE  /\ \A pc \in KeyedSteps \cup {"idle", "join", "joined"} :
              LET to == [at EXCEPT !.pc = pc]
              IN  to \in ReaderStates /\ to.pc = pc /\ to.key = at.key /\ to.floor = at.floor
                  /\ to.value = at.value /\ to.behind = at.behind
         /\ Cache!IdleReader \in ReaderStates
         /\ at.floor \in Nat /\ at.value \in Nat /\ at.key \in Cache!Keys /\ at.behind \in BOOLEAN
<1>1. 0 \in Cache!Keys
  BY CacheSize, CacheAssumption, FS_CardinalityType DEF Cache!Keys, Cache!Gens, Cache!AllWrites
<1> QED
  BY <1>1 DEF ReaderStates, Cache!IdleReader

(* One lookup goes on: it finishes, or keeps its key and floor; what it carries is recent. *)
Moves(r) ==
  /\ \E next \in ReaderStates :
       /\ reader' = [reader EXCEPT ![r] = next]
       /\ next = Cache!IdleReader \/ (next.key = reader[r].key /\ next.floor = reader[r].floor)
       /\ next.pc # "get"
       /\ next.pc = "store" \/ (next.pc = "release" /\ ~next.behind)
            => Recent(next.key, next.value, gen, reader, cacheWriter)
  /\ UNCHANGED <<db, gen, bumped, cacheWriter, up>> /\ outdated' = FALSE

LEMMA MovesKeepTypes ==
  ASSUME CacheInv, NEW r \in Readers, reader[r].key \in Cache!Gens, Moves(r), UNCHANGED <<entry, shared>>
  PROVE  CacheInv'
<1>1. PICK next \in ReaderStates :
        /\ reader' = [reader EXCEPT ![r] = next]
        /\ next = Cache!IdleReader \/ (next.key = reader[r].key /\ next.floor = reader[r].floor)
        /\ next.pc # "get"
        /\ next.pc = "store" \/ (next.pc = "release" /\ ~next.behind)
             => Recent(next.key, next.value, gen, reader, cacheWriter)
  BY DEF Moves
<1>2. reader \in [Readers -> ReaderStates]
  BY DEF CacheInv, CacheTypes
<1>3. reader'[r] = next /\ \A x \in Readers : x # r => reader'[x] = reader[x]
  BY <1>1, <1>2
<1>4. CacheTypes'
  <2>1. UNCHANGED <<db, bumped, cacheWriter, up, entry, shared>>
    BY DEF Moves, CacheInv, CacheTypes
  <2>2. reader' \in [Readers -> ReaderStates]
    BY <1>1, <1>2
  <2> QED
    BY <2>1, <2>2 DEF CacheInv, CacheTypes
<1>5. gen \in Nat /\ db \in Nat /\ 0 \in Cache!Gens
  BY BumpsCounted DEF CacheInv, CacheTypes, Cache!Gens
<1>6. next = Cache!IdleReader => next.key = 0 /\ next.floor = 0 /\ next.pc = "idle"
  BY DEF Cache!IdleReader
<1>7. KeysTaken'
  BY <1>1, <1>3, <1>5, <1>6 DEF CacheInv, KeysTaken, Moves, KeyedSteps
<1>8. CacheMoves
  BY <1>1, <1>3, <1>4, <1>6, <1>7 DEF CacheMoves, Moves
<1>9. EntriesStay /\ SharedStay
  BY DEF CacheInv, EntriesStay, SharedStay, Stored, SharedReads
<1>10. CarriedStay
  BY <1>1, <1>3 DEF CacheInv, CarriedStay, Carried
<1> QED
  BY <1>8, <1>9, <1>10, LookupsMove

LEMMA LockedKeepsCache ==
  ASSUME CacheInv, NEW r \in Readers,
         \/ Cache!Get(r) \/ Cache!Acquire(r) \/ Cache!Recheck(r) \/ Cache!ReadSource(r)
         \/ Cache!Release(r) \/ Cache!Wait(r)
  PROVE  CacheInv'
<1> DEFINE at == reader[r]
<1>1. at.key \in Cache!Gens
  BY DEF CacheInv, KeysTaken, KeyedSteps, Cache!At, Cache!Get, Cache!Acquire, Cache!Recheck,
         Cache!ReadSource, Cache!Release, Cache!Wait
<1>2. at \in ReaderStates /\ reader \in [Readers -> ReaderStates]
  BY DEF CacheInv, CacheTypes
<1>3. /\ UNCHANGED <<db, gen, bumped, cacheWriter, entry, shared, up>>
  BY DEF Cache!Get, Cache!Acquire, Cache!Recheck, Cache!ReadSource, Cache!Release, Cache!Wait,
         Cache!sourceVars, Cache!cacheVars
<1>4. entry[at.key].age # "gone" =>
        /\ Recent(at.key, entry[at.key].value, gen, reader, cacheWriter)
        /\ ~(entry[at.key].value < at.floor)
  BY <1>1, Served DEF CacheInv, Stored
<1>5. outdated = FALSE
  BY DEF CacheInv
<1>6. /\ \A pc \in KeyedSteps \cup {"idle", "join", "joined"} :
           LET to == [at EXCEPT !.pc = pc]
           IN  to \in ReaderStates /\ to.pc = pc /\ to.key = at.key /\ to.floor = at.floor
               /\ to.value = at.value /\ to.behind = at.behind
      /\ Cache!IdleReader \in ReaderStates
  BY <1>2, Goes
<1>7. Cache!IdleReader.pc = "idle"
  BY DEF Cache!IdleReader
<1> HIDE DEF at
<1>8. ASSUME reader' = [reader EXCEPT ![r] = Cache!IdleReader], outdated' = FALSE
      PROVE  Moves(r)
  BY <1>3, <1>6, <1>7, <1>8 DEF Moves
<1>9. ASSUME NEW pc \in {"join", "acquire", "wait", "recheck", "read", "joinToStore"},
             reader' = [reader EXCEPT ![r] = [at EXCEPT !.pc = pc]], outdated' = FALSE
      PROVE  Moves(r)
  <2>1. pc \in KeyedSteps \cup {"idle", "join", "joined"} /\ pc \notin {"get", "store", "release"}
    BY DEF KeyedSteps
  <2> QED
    BY <1>3, <1>6, <1>9, <2>1 DEF Moves, at
<1>10. ASSUME NEW next \in ReaderStates, reader' = [reader EXCEPT ![r] = next],
              next.key = at.key, next.floor = at.floor, next.pc # "get", outdated' = FALSE,
              Recent(at.key, next.value, gen, reader, cacheWriter)
       PROVE  Moves(r)
  BY <1>3, <1>10 DEF Moves, at
<1>11. CASE Cache!Get(r)
  <2>1. ~at.behind
    BY <1>11 DEF CacheInv, KeysTaken, Cache!Get, Cache!At, at
  <2>2. CASE entry[at.key].age = "fresh" /\ reader' = [reader EXCEPT ![r] = Cache!IdleReader]
             /\ outdated' = (outdated \/ entry[at.key].value < at.floor)
    BY <1>1, <1>3, <1>4, <1>5, <1>8, <2>2, MovesKeepTypes DEF at
  <2>3. CASE reader' = [reader EXCEPT ![r].pc = "join"] /\ UNCHANGED outdated
    BY <1>1, <1>3, <1>5, <1>9, <2>3, MovesKeepTypes DEF at
  <2>4. CASE reader' = [reader EXCEPT ![r].pc = "acquire"] /\ UNCHANGED outdated
    BY <1>1, <1>3, <1>5, <1>9, <2>4, MovesKeepTypes DEF at
  <2>5. CASE /\ entry[at.key].age = "stale" /\ outdated' = (outdated \/ entry[at.key].value < at.floor)
             /\ reader' = [reader EXCEPT ![r].pc = "acquire", ![r].behind = TRUE]
    <3> DEFINE next == [at EXCEPT !.pc = "acquire", !.behind = TRUE]
    <3>1. next \in ReaderStates
      BY <1>2 DEF ReaderStates, KeyedSteps
    <3>2. reader' = [reader EXCEPT ![r] = next]
      BY <1>2, <2>5 DEF at
    <3>3. next.pc = "acquire" /\ next.key = at.key /\ next.floor = at.floor
      BY <1>2 DEF ReaderStates
    <3> HIDE DEF next
    <3>4. outdated' = FALSE
      BY <1>4, <1>5, <2>5
    <3> QED
      <4>1. Moves(r)
        BY <1>3, <3>1, <3>2, <3>3, <3>4 DEF Moves, at
      <4> QED
        BY <1>1, <1>3, <4>1, MovesKeepTypes DEF at
  <2> QED
    BY <1>11, <2>1, <2>2, <2>3, <2>4, <2>5, <1>1, <1>3, MovesKeepTypes
    DEF Cache!Get, Cache!To, Cache!Finish, Cache!Answers, at
<1>12. CASE Cache!Acquire(r)
  <2>1. \/ reader' = [reader EXCEPT ![r].pc = "recheck"]
        \/ reader' = [reader EXCEPT ![r] = IF @.behind THEN Cache!IdleReader
                                           ELSE [@ EXCEPT !.pc = IF up THEN "wait" ELSE "join"]]
    BY <1>12 DEF Cache!Acquire, Cache!To
  <2>2. \/ \E pc \in {"recheck", "wait", "join"} : reader' = [reader EXCEPT ![r] = [at EXCEPT !.pc = pc]]
        \/ reader' = [reader EXCEPT ![r] = Cache!IdleReader]
    BY <1>2, <2>1 DEF at
  <2>3. outdated' = FALSE
    BY <1>5, <1>12 DEF Cache!Acquire
  <2> QED
    BY <1>1, <1>3, <1>8, <1>9, <2>2, <2>3, MovesKeepTypes DEF at
<1>13. CASE Cache!Recheck(r)
  <2>1. outdated' = FALSE
    BY <1>5, <1>13 DEF Cache!Recheck
  <2>2. CASE Cache!FreshAt(at.key)
    <3> DEFINE next == [at EXCEPT !.pc = "release", !.value = entry[at.key].value]
    <3>1. reader' = [reader EXCEPT ![r] = next]
      BY <1>13, <2>2 DEF Cache!Recheck, at
    <3>2. entry[at.key].age = "fresh" /\ entry[at.key].value \in Nat
      BY <1>4, <2>2 DEF Cache!FreshAt, Recent
    <3>3. next \in ReaderStates /\ next.key = at.key /\ next.floor = at.floor
          /\ next.pc = "release" /\ next.value = entry[at.key].value
      BY <1>2, <3>2 DEF ReaderStates, KeyedSteps
    <3> HIDE DEF next
    <3> QED
      BY <1>1, <1>3, <1>4, <1>10, <2>1, <3>1, <3>2, <3>3, MovesKeepTypes DEF at
  <2>3. CASE ~Cache!FreshAt(at.key)
    <3>1. \E pc \in {"read", "joinToStore"} : reader' = [reader EXCEPT ![r] = [at EXCEPT !.pc = pc]]
      BY <1>13, <2>3 DEF Cache!Recheck, at
    <3> QED
      BY <1>1, <1>3, <1>9, <2>1, <3>1, MovesKeepTypes DEF at
  <2> QED
    BY <2>2, <2>3
<1>14. CASE Cache!ReadSource(r)
  <2> DEFINE next == [at EXCEPT !.pc = "store", !.value = db]
  <2>1. reader' = [reader EXCEPT ![r] = next]
    BY <1>2, <1>14 DEF Cache!ReadSource, at
  <2>2. Recent(at.key, db, gen, reader, cacheWriter)
    BY <1>2, SourceRecent DEF CacheInv, CacheDone, ReaderStates, KeysTaken, at
  <2>3. next \in ReaderStates /\ next.key = at.key /\ next.floor = at.floor /\ next.pc = "store" /\ next.value = db
    BY <1>2 DEF ReaderStates, KeyedSteps, CacheInv, CacheTypes
  <2>4. outdated' = FALSE
    BY <1>5, <1>14 DEF Cache!ReadSource
  <2> HIDE DEF next
  <2> QED
    BY <1>1, <1>3, <1>10, <2>1, <2>2, <2>3, <2>4, MovesKeepTypes DEF at
<1>15. CASE Cache!Release(r)
  <2>1. ~at.behind => ~(at.value < at.floor)
    BY <1>15, Served DEF CacheInv, Carried, Cache!Release, Cache!At, at
  <2>2. reader' = [reader EXCEPT ![r] = Cache!IdleReader] /\ outdated' = FALSE
    BY <1>5, <1>15, <2>1 DEF Cache!Release, Cache!Finish, Cache!Answers, at
  <2> QED
    BY <1>1, <1>3, <1>8, <2>2, MovesKeepTypes DEF at
<1>16. CASE Cache!Wait(r)
  <2>1. \/ reader' = [reader EXCEPT ![r] = Cache!IdleReader] /\ outdated' = FALSE
        \/ reader' = [reader EXCEPT ![r] = [at EXCEPT !.pc = "join"]] /\ outdated' = FALSE
    BY <1>2, <1>4, <1>5, <1>16 DEF Cache!Wait, Cache!To, Cache!Finish, Cache!Answers, at
  <2> QED
    BY <1>1, <1>3, <1>8, <1>9, <2>1, MovesKeepTypes DEF at
<1> QED
  BY <1>11, <1>12, <1>13, <1>14, <1>15, <1>16

LEMMA SharedKeepCache ==
  ASSUME CacheInv, NEW r \in Readers, Cache!Join(r)
  PROVE  CacheInv'
<1> DEFINE p == ReplicaOf[r]
           k == reader[r].key
<1> USE DEF Cache!Join, Cache!At, Cache!To, Cache!NoRead, Cache!Running, Cache!sourceVars, Cache!cacheVars
<1>1. reader[r] \in ReaderStates /\ reader \in [Readers -> ReaderStates] /\ k \in Cache!Keys /\ k <= gen
  BY DEF CacheInv, CacheTypes, ReaderStates, KeysTaken
<1>2. PICK pc \in {"joined", "joinedToStore"} :
        /\ reader' = [reader EXCEPT ![r] = [@ EXCEPT !.pc = pc]]
        /\ pc = "joinedToStore" => reader[r].pc = "joinToStore"
  BY <1>1
<1> DEFINE next == [reader[r] EXCEPT !.pc = pc]
<1>3. /\ next \in ReaderStates /\ next.pc = pc
      /\ next.key = k /\ next.floor = reader[r].floor
  <2>1. pc \in KeyedSteps \cup {"idle", "join", "joined"}
    BY DEF KeyedSteps
  <2> QED
    BY <1>1, <2>1, Goes
<1>4. reader'[r] = next /\ \A x \in Readers : x # r => reader'[x] = reader[x]
  BY <1>1, <1>2
<1>5. pc \in KeyedSteps => k \in Cache!Gens
  BY <1>2, <1>4, <1>3 DEF CacheInv, KeysTaken, KeyedSteps
<1> HIDE DEF next
<1>6. p \in {ReplicaOf[x] : x \in Readers}
  OBVIOUS
<1>7. shared' \in [{ReplicaOf[x] : x \in Readers} -> [Cache!Keys -> Nat \cup {-1, -2}]]
  BY <1>1, <1>6 DEF CacheInv, CacheTypes
<1>8. CacheTypes'
  BY <1>1, <1>2, <1>3, <1>7 DEF CacheInv, CacheTypes, next
<1>9. KeysTaken'
  BY <1>2, <1>3, <1>4, <1>5 DEF CacheInv, KeysTaken, KeyedSteps
<1>10. CacheMoves
  BY <1>3, <1>4, <1>8, <1>9 DEF CacheMoves, CacheInv
<1>11. EntriesStay /\ CarriedStay
  BY <1>2, <1>3, <1>4 DEF CacheInv, EntriesStay, Stored, CarriedStay, Carried
<1>12. SharedStay
  <2> SUFFICES ASSUME NEW q \in {ReplicaOf[x] : x \in Readers}, NEW j \in Cache!Keys, shared'[q][j] # -2
               PROVE  j <= gen /\ (shared'[q][j] # -1 => Recent(j, shared'[q][j], gen, reader, cacheWriter))
    BY DEF SharedStay
  <2>1. CASE q = p /\ j = k /\ shared[p][k] = -2
    <3>1. shared'[q][j] = -1
      BY <1>1, <1>6, <2>1 DEF CacheInv, CacheTypes
    <3> QED
      BY <1>1, <2>1, <3>1
  <2>2. CASE ~(q = p /\ j = k /\ shared[p][k] = -2)
    <3>1. shared'[q][j] = shared[q][j]
      BY <1>1, <1>6, <2>2 DEF CacheInv, CacheTypes
    <3> QED
      BY <3>1 DEF CacheInv, SharedReads
  <2> QED
    BY <2>1, <2>2
<1> QED
  BY <1>10, <1>11, <1>12, LookupsMove

LEMMA StoreKeepsCache ==
  ASSUME CacheInv, NEW r \in Readers, Cache!Store(r)
  PROVE  CacheInv'
<1> DEFINE k == reader[r].key
<1> USE DEF Cache!Store, Cache!At, Cache!To, Cache!sourceVars
<1>1. /\ reader[r] \in ReaderStates /\ reader \in [Readers -> ReaderStates] /\ k \in Cache!Gens
      /\ Recent(k, reader[r].value, gen, reader, cacheWriter)
  BY DEF CacheInv, CacheTypes, KeysTaken, Carried, KeyedSteps
<1> DEFINE next == [reader[r] EXCEPT !.pc = "release"]
<1>2. reader' = [reader EXCEPT ![r] = next]
  BY <1>1
<1>3. /\ next \in ReaderStates /\ next.pc = "release" /\ next.value = reader[r].value
      /\ next.key = k /\ next.floor = reader[r].floor
  BY <1>1, Goes DEF KeyedSteps
<1> HIDE DEF next
<1>4. reader'[r] = next /\ \A x \in Readers : x # r => reader'[x] = reader[x]
  BY <1>1, <1>2
<1>5. reader[r].value \in Nat
  BY <1>1 DEF ReaderStates
<1>6. CacheTypes'
  <2>1. entry' \in [Cache!Gens -> [value : Nat, age : {"fresh", "stale", "gone"}]]
    BY <1>1, <1>5 DEF CacheInv, CacheTypes
  <2> QED
    BY <1>1, <1>2, <1>3, <2>1 DEF CacheInv, CacheTypes
<1>7. KeysTaken'
  BY <1>1, <1>3, <1>4 DEF CacheInv, KeysTaken, KeyedSteps
<1>8. CacheMoves
  BY <1>3, <1>4, <1>6, <1>7 DEF CacheMoves, CacheInv
<1>9. CarriedStay /\ SharedStay
  BY <1>1, <1>3, <1>4 DEF CacheInv, CarriedStay, Carried, SharedStay, SharedReads
<1>10. EntriesStay
  <2> SUFFICES ASSUME NEW j \in Cache!Gens, entry'[j].age # "gone"
               PROVE  Recent(j, entry'[j].value, gen, reader, cacheWriter)
    BY DEF EntriesStay
  <2>1. \/ j = k /\ entry'[j].value = reader[r].value
        \/ entry'[j] = entry[j]
    BY <1>1 DEF CacheInv, CacheTypes
  <2> QED
    BY <1>1, <2>1 DEF CacheInv, Stored
<1> QED
  BY <1>8, <1>9, <1>10, LookupsMove

(* Lookups that end together, or take a shared read's result together. *)
Settles ==
  /\ DOMAIN reader' = Readers /\ reader' = [x \in Readers |-> reader'[x]]
  /\ \A x \in Readers :
       \/ reader'[x] = reader[x] \/ reader'[x] = Cache!IdleReader
       \/ \E v \in Nat : /\ reader[x].pc = "joinedToStore"
                         /\ reader'[x] = [reader[x] EXCEPT !.pc = "store", !.value = v]
                         /\ Recent(reader[x].key, v, gen, reader, cacheWriter)
       \/ reader[x].pc = "joinedToStore" /\ reader'[x] = [reader[x] EXCEPT !.pc = "release", !.behind = TRUE]
  /\ UNCHANGED <<db, gen, bumped, cacheWriter, entry, up>> /\ outdated' = FALSE
  /\ shared' \in [{ReplicaOf[x] : x \in Readers} -> [Cache!Keys -> Nat \cup {-1, -2}]]
  /\ \A q \in {ReplicaOf[x] : x \in Readers}, j \in Cache!Keys :
       \/ shared'[q][j] \in {shared[q][j], -2}
       \/ shared[q][j] = -1 /\ shared'[q][j] = db

LEMMA SettlesKeep == ASSUME CacheInv, Settles PROVE CacheInv'
<1>1. reader \in [Readers -> ReaderStates] /\ db \in Nat
  BY DEF CacheInv, CacheTypes
<1>2. ASSUME NEW x \in Readers
      PROVE  /\ reader'[x] \in ReaderStates
             /\ (reader'[x].floor = 0 /\ reader'[x].key = 0 /\ reader'[x].pc = "idle")
                \/ (reader'[x].key = reader[x].key /\ reader'[x].floor = reader[x].floor
                    /\ (reader'[x].pc \in KeyedSteps => reader[x].pc \in KeyedSteps)
                    /\ (reader'[x].pc = "get" => reader'[x].behind = reader[x].behind /\ reader[x].pc = "get"))
             /\ reader'[x].pc = "store" \/ (reader'[x].pc = "release" /\ ~reader'[x].behind)
                  => Recent(reader'[x].key, reader'[x].value, gen, reader, cacheWriter)
  <2>1. reader[x] \in ReaderStates
    BY <1>1
  <2>2. CASE reader'[x] = reader[x]
    BY <2>1, <2>2 DEF CacheInv, Carried
  <2>3. CASE reader'[x] = Cache!IdleReader
    <3>1. Cache!IdleReader \in ReaderStates
      BY <2>1, Goes
    <3> QED
      BY <2>3, <3>1 DEF Cache!IdleReader
  <2>4. ASSUME NEW v \in Nat, reader[x].pc = "joinedToStore",
               reader'[x] = [reader[x] EXCEPT !.pc = "store", !.value = v],
               Recent(reader[x].key, v, gen, reader, cacheWriter)
        PROVE  /\ reader'[x] \in ReaderStates /\ reader'[x].key = reader[x].key
               /\ reader'[x].floor = reader[x].floor /\ reader'[x].pc = "store" /\ reader'[x].value = v
    BY <2>1, <2>4 DEF ReaderStates, KeyedSteps
  <2>5. ASSUME reader[x].pc = "joinedToStore",
               reader'[x] = [reader[x] EXCEPT !.pc = "release", !.behind = TRUE]
        PROVE  /\ reader'[x] \in ReaderStates /\ reader'[x].key = reader[x].key
               /\ reader'[x].floor = reader[x].floor /\ reader'[x].pc = "release" /\ reader'[x].behind = TRUE
    BY <2>1, <2>5 DEF ReaderStates, KeyedSteps
  <2>6. "joinedToStore" \in KeyedSteps
    BY DEF KeyedSteps
  <2> QED
    BY <2>2, <2>3, <2>4, <2>5, <2>6 DEF Settles
<1>3. CacheTypes'
  <2>1. reader' \in [Readers -> ReaderStates]
    BY <1>2 DEF Settles
  <2> QED
    BY <2>1 DEF CacheInv, CacheTypes, Settles
<1>4. KeysTaken'
  <2>1. 0 \in Cache!Gens /\ gen \in Nat
    BY BumpsCounted DEF CacheInv, Cache!Gens
  <2> SUFFICES ASSUME NEW x \in Readers
               PROVE  /\ reader'[x].key <= gen /\ reader'[x].floor <= db
                      /\ reader'[x].pc \in KeyedSteps => reader'[x].key \in Cache!Gens
                      /\ reader'[x].key = -1 => reader'[x].floor = 0
                      /\ reader'[x].pc = "get" => ~reader'[x].behind
    BY DEF KeysTaken, Settles
  <2>2. "idle" \notin KeyedSteps /\ "idle" # "get"
    BY DEF KeyedSteps
  <2>3. CASE reader'[x].floor = 0 /\ reader'[x].key = 0 /\ reader'[x].pc = "idle"
    BY <1>1, <2>1, <2>2, <2>3
  <2> QED
    BY <1>2, <2>3 DEF CacheInv, KeysTaken
<1>5. CacheMoves
  BY <1>2, <1>3, <1>4 DEF CacheMoves, Settles
<1>6. EntriesStay /\ CarriedStay
  BY <1>2 DEF CacheInv, EntriesStay, Stored, CarriedStay, Settles
<1>7. SharedStay
  <2> SUFFICES ASSUME NEW q \in {ReplicaOf[x] : x \in Readers}, NEW j \in Cache!Keys, shared'[q][j] # -2
               PROVE  j <= gen /\ (shared'[q][j] # -1 => Recent(j, shared'[q][j], gen, reader, cacheWriter))
    BY DEF SharedStay
  <2>1. CASE shared'[q][j] = shared[q][j]
    BY <2>1 DEF CacheInv, SharedReads
  <2>2. CASE shared[q][j] = -1 /\ shared'[q][j] = db
    <3>1. j <= gen
      BY <2>2 DEF CacheInv, SharedReads
    <3> QED
      BY <2>2, <3>1, SourceRecent DEF CacheInv, CacheDone
  <2> QED
    BY <2>1, <2>2 DEF Settles
<1> QED
  BY <1>5, <1>6, <1>7, LookupsMove

LEMMA SharedReadsKeepCache ==
  ASSUME CacheInv, NEW p \in Cache!Replicas, NEW k \in Cache!Keys,
         Cache!ReadShared(p, k) \/ Cache!Settle(p, k) \/ Cache!SettleFails(p, k) \/ Cache!Crash(p)
  PROVE  CacheInv'
<1> USE DEF Cache!NoRead, Cache!Running, Cache!sourceVars, Cache!cacheVars, Cache!Replicas
<1>1. /\ reader \in [Readers -> ReaderStates] /\ db \in Nat /\ outdated = FALSE
      /\ shared \in [{ReplicaOf[x] : x \in Readers} -> [Cache!Keys -> Nat \cup {-1, -2}]]
  BY DEF CacheInv, CacheTypes
<1>2. CASE Cache!ReadShared(p, k)
  <2>1. shared' = [shared EXCEPT ![p][k] = db] /\ shared[p][k] = -1
        /\ UNCHANGED <<db, gen, bumped, cacheWriter, entry, lock, reader, outdated, up>>
    BY <1>2 DEF Cache!ReadShared
  <2>2. Settles
    BY <1>1, <2>1 DEF Settles
  <2> QED
    BY <2>2, SettlesKeep
<1>3. CASE Cache!Settle(p, k)
  <2> DEFINE v == shared[p][k]
             joined(pc) == {r \in Readers : reader[r].pc = pc /\ ReplicaOf[r] = p /\ reader[r].key = k}
  <2>1. v \in Nat /\ Recent(k, v, gen, reader, cacheWriter)
    BY <1>1, <1>3 DEF Cache!Settle, CacheInv, SharedReads
  <2>2. /\ shared' = [shared EXCEPT ![p][k] = -2]
        /\ reader' = [r \in Readers |->
             IF r \in joined("joined") THEN Cache!IdleReader
             ELSE IF r \in joined("joinedToStore") THEN [reader[r] EXCEPT !.pc = "store", !.value = v]
             ELSE reader[r]]
        /\ outdated' = (outdated \/ \E r \in joined("joined") : v < reader[r].floor)
        /\ UNCHANGED <<db, gen, bumped, cacheWriter, entry, lock, up>>
    BY <1>3 DEF Cache!Settle, Cache!At
  <2>3. outdated' = FALSE
    <3>1. \A r \in joined("joined") : ~(v < reader[r].floor)
      BY <2>1, Served
    <3> QED
      BY <1>1, <2>2, <3>1
  <2>4. \A x \in Readers :
       \/ reader'[x] = reader[x] \/ reader'[x] = Cache!IdleReader
       \/ /\ reader[x].pc = "joinedToStore"
          /\ reader'[x] = [reader[x] EXCEPT !.pc = "store", !.value = v]
          /\ reader[x].key = k
    BY <2>2
  <2> HIDE DEF v
  <2>5. Settles
    BY <1>1, <2>1, <2>2, <2>3, <2>4 DEF Settles
  <2> QED
    BY <2>5, SettlesKeep
<1>4. CASE Cache!SettleFails(p, k)
  <2> DEFINE joined(pc) == {r \in Readers : reader[r].pc = pc /\ ReplicaOf[r] = p /\ reader[r].key = k}
  <2>1. /\ shared' = [shared EXCEPT ![p][k] = -2]
        /\ reader' = [r \in Readers |->
             IF r \in joined("joined") THEN Cache!IdleReader
             ELSE IF r \in joined("joinedToStore") THEN [reader[r] EXCEPT !.pc = "release", !.behind = TRUE]
             ELSE reader[r]]
        /\ UNCHANGED <<db, gen, bumped, cacheWriter, entry, lock, outdated, up>>
    BY <1>4 DEF Cache!SettleFails, Cache!At
  <2>2. Settles
    BY <1>1, <2>1 DEF Settles
  <2> QED
    BY <2>2, SettlesKeep
<1>5. CASE Cache!Crash(p)
  <2>1. /\ shared' = [shared EXCEPT ![p] = [j \in Cache!Keys |-> -2]]
        /\ reader' = [r \in Readers |-> IF ReplicaOf[r] = p THEN Cache!IdleReader ELSE reader[r]]
        /\ UNCHANGED <<db, gen, bumped, cacheWriter, entry, lock, outdated, up>>
    BY <1>5 DEF Cache!Crash
  <2>2. Settles
    BY <1>1, <2>1 DEF Settles
  <2> QED
    BY <2>2, SettlesKeep
<1> QED
  BY <1>2, <1>3, <1>4, <1>5

LEMMA TimeKeepsCache ==
  ASSUME CacheInv, (\E g \in Cache!Gens : Cache!Age(g) \/ Cache!LeaseEnds(g)) \/ Cache!Outage \/ Cache!Recovers
         \/ UNCHANGED Cache!vars
  PROVE  CacheInv'
<1>1. /\ UNCHANGED <<db, gen, bumped, cacheWriter, reader, shared, outdated>> /\ up' \in BOOLEAN
      /\ \/ UNCHANGED entry
         \/ \E g \in Cache!Gens : entry' = [entry EXCEPT ![g] = Cache!Empty]
         \/ \E g \in Cache!Gens : entry[g].age # "gone" /\ entry' = [entry EXCEPT ![g] = [value |-> @.value, age |-> "stale"]]
  <2>1. ASSUME NEW g \in Cache!Gens, Cache!Age(g)
        PROVE  /\ UNCHANGED <<db, gen, bumped, cacheWriter, reader, shared, outdated, up>> /\ entry[g].age # "gone"
               /\ \/ entry' = [entry EXCEPT ![g] = Cache!Empty]
                  \/ entry' = [entry EXCEPT ![g] = [value |-> @.value, age |-> "stale"]]
    <3>1. CASE entry[g].age = "fresh"
      BY <2>1, <3>1 DEF Cache!Age, Cache!Aged, Cache!sourceVars
    <3>2. CASE entry[g].age # "fresh"
      BY <2>1, <3>2 DEF Cache!Age, Cache!Aged, Cache!sourceVars
    <3> QED
      BY <3>1, <3>2
  <2>2. ASSUME NEW g \in Cache!Gens, Cache!LeaseEnds(g)
        PROVE  UNCHANGED <<db, gen, bumped, cacheWriter, entry, reader, shared, outdated, up>>
    BY <2>2 DEF Cache!LeaseEnds, Cache!sourceVars
  <2>3. CASE Cache!Outage \/ Cache!Recovers \/ UNCHANGED Cache!vars
    BY <2>3 DEF Cache!Outage, Cache!Recovers, Cache!vars, Cache!sourceVars, Cache!cacheVars, CacheInv, CacheTypes
  <2> QED
    BY <2>1, <2>2, <2>3 DEF CacheInv, CacheTypes
<1>2. entry \in [Cache!Gens -> [value : Nat, age : {"fresh", "stale", "gone"}]]
  BY DEF CacheInv, CacheTypes
<1>3. /\ entry' \in [Cache!Gens -> [value : Nat, age : {"fresh", "stale", "gone"}]]
      /\ \A k \in Cache!Gens : entry'[k].age # "gone" => entry[k].age # "gone" /\ entry'[k].value = entry[k].value
  BY <1>1, <1>2 DEF Cache!Empty
<1>4. CacheTypes' /\ KeysTaken'
  BY <1>1, <1>3 DEF CacheInv, CacheTypes, KeysTaken
<1>5. CacheMoves /\ EntriesStay /\ CarriedStay /\ SharedStay
  BY <1>1, <1>3, <1>4 DEF CacheInv, CacheMoves, EntriesStay, CarriedStay, SharedStay, Stored, Carried, SharedReads
<1> QED
  BY <1>5, LookupsMove

LEMMA CacheKept == CacheInv /\ [Cache!Next]_(Cache!vars) => CacheInv'
<1> SUFFICES ASSUME CacheInv, [Cache!Next]_(Cache!vars) PROVE CacheInv'
  OBVIOUS
<1>1. ASSUME NEW w \in CacheWriters, Cache!Commit(w) \/ Cache!Bump(w) \/ Cache!Answered(w)
      PROVE  CacheInv'
  BY <1>1, WritesKeepCache
<1>2. ASSUME NEW r \in Readers, Cache!Lookup(r) \/ Cache!Goes(r)
      PROVE  CacheInv'
  BY <1>2, LookupKeepsCache, LockedKeepsCache, SharedKeepCache, StoreKeepsCache DEF Cache!Goes
<1>3. ASSUME NEW p \in Cache!Replicas,
             Cache!Crash(p) \/ \E k \in Cache!Keys :
               Cache!ReadShared(p, k) \/ Cache!Settle(p, k) \/ Cache!SettleFails(p, k)
      PROVE  CacheInv'
  <2>1. -1 \in Cache!Keys
    BY BumpsCounted DEF CacheInv
  <2> QED
    BY <1>3, <2>1, SharedReadsKeepCache
<1>4. ASSUME (\E g \in Cache!Gens : Cache!Age(g) \/ Cache!LeaseEnds(g)) \/ Cache!Outage \/ Cache!Recovers
             \/ UNCHANGED Cache!vars
      PROVE  CacheInv'
  BY <1>4, TimeKeepsCache
<1> QED
  BY <1>1, <1>2, <1>3, <1>4 DEF Cache!Next

(* A lookup that could read the generation never answers older than a write bumped before it began,    *)
(* however slow a rebuild, whosever lease lapsed and whatever read it shared (readThroughSwr).         *)
THEOREM CacheAlwaysServesWrites == Cache!Spec => []ReadsYourWrites
<1>1. CacheInv => ReadsYourWrites
  BY DEF CacheInv, ReadsYourWrites, Cache!ReadsYourWrites
<1> QED
  BY <1>1, CacheStarts, CacheKept, PTL DEF Cache!Spec

-------------------------------------------------------------------------------
(* The cart *)

(* The SKUs that findItems let through and whose upsert is to come. *)
Coming == {request[r].sku : r \in {q \in Requests : request[q].pc = "upsert"}}

CartTypes ==
  /\ items \in [Skus -> Nat] /\ added \in [Skus -> Nat]
  /\ request \in [Requests -> [pc : {"idle", "ensure", "insert", "find", "upsert"},
                               sku : Skus \cup {0}, quantity : Nat, saw : Nat]]
  /\ \A r \in Requests : request[r].pc # "idle" => request[r].sku \in Skus /\ request[r].quantity \in 1 .. MaxQuantity

LinesAsAdded == \A s \in Skus : items[s] = added[s] /\ items[s] <= MaxQuantity

(* A line that is coming takes its place already: it was let in beside fewer than MaxLines lines, and  *)
(* the others are at most one for each other request.                                                  *)
RoomKept ==
  /\ IsFiniteSet(Carts!Lines \cup Coming)
  /\ Cardinality(Carts!Lines \cup Coming) <= MaxLines + Cardinality(Requests) - 1

CartInv == CartTypes /\ LinesAsAdded /\ RoomKept

LEMMA RequestsCounted == Cardinality(Requests) \in Nat
  BY CartAssumption, FS_CardinalityType

(* The instance counts as this module does. *)
LEMMA CartSize == \A S : Carts!Cardinality(S) = Cardinality(S)
  BY DEF Carts!Cardinality, Cardinality

LEMMA RoomInSubset ==
  ASSUME NEW S, NEW T, T \subseteq S,
         IsFiniteSet(S), Cardinality(S) <= MaxLines + Cardinality(Requests) - 1
  PROVE  IsFiniteSet(T) /\ Cardinality(T) <= MaxLines + Cardinality(Requests) - 1
<1>1. IsFiniteSet(T) /\ Cardinality(T) <= Cardinality(S)
  BY FS_Subset
<1>2. Cardinality(T) \in Nat /\ Cardinality(S) \in Nat
  BY <1>1, FS_CardinalityType
<1> QED
  BY <1>1, <1>2, RequestsCounted, CartAssumption

LEMMA ComingCounted ==
  ASSUME NEW at, NEW coming, coming = {at[r].sku : r \in {q \in Requests : at[q].pc = "upsert"}}
  PROVE  IsFiniteSet(coming) /\ Cardinality(coming) <= Cardinality(Requests)
<1> DEFINE Late == {q \in Requests : at[q].pc = "upsert"}
<1>1. IsFiniteSet(Late) /\ Cardinality(Late) <= Cardinality(Requests)
  BY CartAssumption, FS_Subset
<1>2. coming = {at[r].sku : r \in Late}
  OBVIOUS
<1> HIDE DEF Late
<1> DEFINE skuOf == [r \in Late |-> at[r].sku]
<1>3. skuOf \in Surjection(Late, coming)
  BY <1>2 DEF Surjection
<1>4. IsFiniteSet(coming) /\ Cardinality(coming) <= Cardinality(Late)
  BY <1>1, <1>3, FS_Surjection
<1>5. Cardinality(Late) \in Nat /\ Cardinality(coming) \in Nat
  BY <1>1, <1>4, FS_CardinalityType
<1> QED
  BY <1>1, <1>4, <1>5, RequestsCounted

LEMMA CartStarts == Carts!Init => CartInv
<1> SUFFICES ASSUME Carts!Init PROVE CartInv
  OBVIOUS
<1> USE DEF Carts!Init
<1>1. CartTypes
  BY DEF CartTypes, Carts!Idle
<1>2. LinesAsAdded
  BY CartAssumption DEF LinesAsAdded
<1>3. Carts!Lines \cup Coming = {}
  BY DEF Carts!Lines, Coming, Carts!Idle
<1>4. RoomKept
  <2>1. IsFiniteSet(Carts!Lines \cup Coming) /\ Cardinality(Carts!Lines \cup Coming) = 0
    BY <1>3, FS_EmptySet
  <2>2. 0 <= MaxLines + Cardinality(Requests) - 1
    BY RequestsCounted, CartAssumption
  <2> QED
    BY <2>1, <2>2 DEF RoomKept
<1> QED
  BY <1>1, <1>2, <1>4 DEF CartInv

(* No step but findItems lets a line in that was not there or coming. *)
LEMMA RoomStays ==
  ASSUME RoomKept, Carts!Lines' \cup Coming' \subseteq Carts!Lines \cup Coming
  PROVE  RoomKept'
  BY RoomInSubset DEF RoomKept

LEMMA CartKept == CartInv /\ [Carts!Next]_(Carts!vars) => CartInv'
<1> SUFFICES ASSUME CartInv, [Carts!Next]_(Carts!vars) PROVE CartInv'
  OBVIOUS
<1> USE DEF CartInv
<1>1. ASSUME NEW r \in Requests, NEW s \in Skus, NEW q \in 1 .. MaxQuantity, Carts!addItem(r, s, q)
      PROVE  CartInv'
  <2> USE <1>1 DEF Carts!addItem, Carts!At
  <2>1. CartTypes'
    BY CartAssumption DEF CartTypes
  <2>2. LinesAsAdded'
    BY DEF LinesAsAdded
  <2>3. Carts!Lines' \cup Coming' \subseteq Carts!Lines \cup Coming
    BY DEF Carts!Lines, Coming, CartTypes
  <2> QED
    BY <2>1, <2>2, <2>3, RoomStays
<1>2. ASSUME NEW r \in Requests, Carts!ensureCartId(r) \/ Carts!insertCart(r)
      PROVE  CartInv'
  <2> USE <1>2 DEF Carts!ensureCartId, Carts!insertCart, Carts!At, Carts!Goes
  <2>1. CartTypes'
    BY DEF CartTypes
  <2>2. LinesAsAdded'
    BY DEF LinesAsAdded
  <2>3. Carts!Lines' \cup Coming' \subseteq Carts!Lines \cup Coming
    BY DEF Carts!Lines, Coming, CartTypes
  <2> QED
    BY <2>1, <2>2, <2>3, RoomStays
<1>3. ASSUME NEW r \in Requests, Carts!findItems(r)
      PROVE  CartInv'
  <2> USE <1>3 DEF Carts!findItems, Carts!At, Carts!Ends
  <2>1. CartTypes'
    BY DEF CartTypes, Carts!Idle
  <2>2. LinesAsAdded'
    BY DEF LinesAsAdded
  <2>3. CASE ~Carts!HasRoom(request[r].sku)
    <3>1. Carts!Lines' \cup Coming' \subseteq Carts!Lines \cup Coming
      BY <2>3 DEF Carts!Lines, Coming, CartTypes, Carts!Idle
    <3> QED
      BY <2>1, <2>2, <3>1, RoomStays
  <2>4. CASE request[r].sku \in Carts!Lines
    <3>1. request' = [request EXCEPT ![r].pc = "upsert", ![r].saw = items[request[r].sku]]
      BY <2>4 DEF Carts!HasRoom
    <3>2. Carts!Lines' \cup Coming' \subseteq Carts!Lines \cup Coming
      BY <2>4, <3>1 DEF Carts!Lines, Coming, CartTypes
    <3> QED
      BY <2>1, <2>2, <3>2, RoomStays
  <2>5. CASE Cardinality(Carts!Lines) < MaxLines
    <3>1. Carts!Lines' = Carts!Lines
      BY DEF Carts!Lines
    <3>2. IsFiniteSet(Carts!Lines) /\ Cardinality(Carts!Lines) \in Nat
      BY FS_Subset, FS_CardinalityType DEF RoomKept
    <3>3. IsFiniteSet(Coming') /\ Cardinality(Coming') <= Cardinality(Requests)
      BY ComingCounted DEF Coming
    <3>4. IsFiniteSet(Carts!Lines \cup Coming')
          /\ Cardinality(Carts!Lines \cup Coming') <= Cardinality(Carts!Lines) + Cardinality(Coming')
      <4>1. Cardinality(Carts!Lines \cap Coming') \in Nat
        BY <3>2, FS_Intersection, FS_CardinalityType
      <4>2. IsFiniteSet(Carts!Lines \cup Coming')
            /\ Cardinality(Carts!Lines \cup Coming') =
                 Cardinality(Carts!Lines) + Cardinality(Coming') - Cardinality(Carts!Lines \cap Coming')
        BY <3>2, <3>3, FS_Union
      <4>3. Cardinality(Coming') \in Nat
        BY <3>3, FS_CardinalityType
      <4> QED
        BY <4>1, <4>2, <4>3, <3>2
    <3>5. Cardinality(Coming') \in Nat /\ Cardinality(Carts!Lines \cup Coming') \in Nat
      BY <3>3, <3>4, FS_CardinalityType
    <3>6. RoomKept'
      BY <2>5, <3>1, <3>2, <3>3, <3>4, <3>5, RequestsCounted, CartAssumption DEF RoomKept
    <3> QED
      BY <2>1, <2>2, <3>6
  <2> QED
    BY <2>3, <2>4, <2>5, CartSize DEF Carts!HasRoom
<1>4. ASSUME NEW r \in Requests, Carts!upsert(r)
      PROVE  CartInv'
  <2> DEFINE s == request[r].sku
  <2> USE <1>4 DEF Carts!upsert, Carts!At, Carts!Ends, Carts!Accumulated, Carts!Least
  <2>1. s \in Skus /\ request[r].quantity \in 1 .. MaxQuantity
    BY DEF CartTypes
  <2>2. CartTypes'
    BY <2>1, CartAssumption DEF CartTypes, Carts!Idle
  <2>3. LinesAsAdded'
    BY <2>1, CartAssumption DEF LinesAsAdded, CartTypes
  <2>4. s \in Coming
    BY DEF Coming
  <2>5. Carts!Lines' \subseteq Carts!Lines \cup {s}
    BY <2>1 DEF Carts!Lines, CartTypes
  <2>6. Coming' \subseteq Coming
    BY DEF Coming, CartTypes, Carts!Idle
  <2> QED
    BY <2>2, <2>3, <2>4, <2>5, <2>6, RoomStays
<1>5. ASSUME NEW s \in Skus, Carts!removeItem(s)
      PROVE  CartInv'
  <2> USE <1>5 DEF Carts!removeItem
  <2>1. CartTypes'
    BY DEF CartTypes
  <2>2. LinesAsAdded'
    BY CartAssumption DEF LinesAsAdded, CartTypes
  <2>3. Carts!Lines' \subseteq Carts!Lines /\ Coming' = Coming
    BY DEF Carts!Lines, Coming, CartTypes
  <2> QED
    BY <2>1, <2>2, <2>3, RoomStays
<1>6. ASSUME NEW s \in Skus, NEW q \in 1 .. MaxQuantity, Carts!setItemQuantity(s, q)
      PROVE  CartInv'
  <2> USE <1>6 DEF Carts!setItemQuantity
  <2>1. CartTypes'
    BY CartAssumption DEF CartTypes
  <2>2. LinesAsAdded'
    BY CartAssumption DEF LinesAsAdded, CartTypes
  <2>3. Carts!Lines' \subseteq Carts!Lines /\ Coming' = Coming
    BY DEF Carts!Lines, Coming, CartTypes
  <2> QED
    BY <2>1, <2>2, <2>3, RoomStays
<1>7. CASE Carts!clear
  <2> USE <1>7 DEF Carts!clear
  <2>1. CartTypes'
    BY DEF CartTypes
  <2>2. LinesAsAdded'
    BY CartAssumption DEF LinesAsAdded, CartTypes
  <2>3. Carts!Lines' \subseteq Carts!Lines /\ Coming' = Coming
    BY DEF Carts!Lines, Coming, CartTypes
  <2> QED
    BY <2>1, <2>2, <2>3, RoomStays
<1>8. ASSUME UNCHANGED <<items, added, request>>
      PROVE  CartInv'
  BY <1>8 DEF CartTypes, LinesAsAdded, RoomKept, Carts!Lines, Coming
<1>9. ASSUME NEW s \in Skus, Carts!catalogEdit(s)
      PROVE  CartInv'
  BY <1>8, <1>9 DEF Carts!catalogEdit
<1>10. CASE UNCHANGED Carts!vars
  BY <1>8, <1>10 DEF Carts!vars
<1> QED
  BY <1>1, <1>2, <1>3, <1>4, <1>5, <1>6, <1>7, <1>9, <1>10 DEF Carts!Next

(* The lines of a cart are what was added to them, within the ceiling of a line, and requests side by  *)
(* side overshoot the cap by one line each but the first (cart.repository addItem, findItems).         *)
THEOREM CartAlwaysHolds == Carts!Spec => []CartHolds
<1>1. CartInv => CartHolds
  <2> SUFFICES ASSUME CartInv PROVE Carts!CartHolds
    BY DEF CartHolds
  <2>1. Cardinality(Carts!Lines) <= MaxLines + Cardinality(Requests) - 1
    BY RoomInSubset DEF CartInv, RoomKept
  <2> QED
    BY <2>1, CartSize DEF CartInv, LinesAsAdded, Carts!CartHolds
<1> QED
  BY <1>1, CartStarts, CartKept, PTL DEF Carts!Spec

-------------------------------------------------------------------------------
(* The transactions of the catalog *)

AdminRequests ==
  [op : {"none", "createCategory", "updateCategory", "archiveCategory", "createProduct", "updateProduct",
         "archiveProduct", "createSku", "updateSku", "archiveSku", "setPrice"},
   pc : {"idle", "checked", "locked"}, cat : Categories \cup {Admin!NoCategory}, p : Goods \cup {Admin!NoProduct},
   s : Articles \cup {"none"}, to : Admin!productStatus \cup {"keep", "none"}]

AdminTypes ==
  /\ categoryRow \in [Categories -> [state : {"none", "live", "archived"}, name : {0, 1}]]
  /\ productRow \in [Goods -> [status : Admin!productStatus \cup {"NONE"},
                               cat : Categories \cup {Admin!NoCategory}, ver : Nat]]
  /\ \A p \in Goods : productRow[p].status # "NONE" => productRow[p].cat \in Categories
  /\ skuRow \in [Articles -> [of : Goods \cup {Admin!NoProduct}, archived : BOOLEAN, name : Int, price : Int]]
  /\ adminRequest \in [Admins -> AdminRequests]

CategoryOps == {"createCategory", "updateCategory", "archiveCategory"}
SkuOps == {"createSku", "updateSku", "archiveSku", "setPrice"}
ProductOps == {"createProduct", "updateProduct", "archiveProduct"} \cup SkuOps

(* What the checks before a transaction leave true of its rows until it commits. *)
Fits(q, products, skus) ==
  /\ q.op \in CategoryOps => q.cat \in Categories /\ q.p = Admin!NoProduct
  /\ q.op \in ProductOps => q.p \in Goods
  /\ q.op = "createProduct" => q.cat \in Categories /\ q.to \in Admin!productStatus
  /\ q.op = "updateProduct" => q.to \in Admin!productStatus \cup {"keep"}
  /\ q.op \in ProductOps \ {"createProduct"} => products[q.p].status # "NONE"
  /\ q.op \in SkuOps \cup {"archiveProduct"} => q.cat = Admin!NoCategory
  /\ q.op \in SkuOps => q.s \in Articles
  /\ q.op \in SkuOps \ {"createSku"} => skus[q.s].of = q.p
  /\ q.pc # "idle" => q.op # "none"

RequestsFit == \A r \in Admins : Fits(adminRequest[r], productRow, skuRow)

(* A writer that names a category holds it live, and keeps an archive or a renaming out. *)
SharesLive ==
  \A r \in Admins, c \in Categories :
    Admin!HoldsShare(r, c) =>
      /\ categoryRow[c].state = "live"
      /\ \A q \in Admins : ~Admin!HoldsExclusive(q, c)

OpenIn(c, rows) == {p \in Goods : rows[p].cat = c /\ rows[p].status \notin {"NONE", "ARCHIVED"}}

(* An archive that has locked a category found it empty, and it stays so until the commit. *)
ArchivesEmpty ==
  \A r \in Admins :
    adminRequest[r].pc = "locked" /\ adminRequest[r].op = "archiveCategory"
      => OpenIn(adminRequest[r].cat, productRow) \subseteq reopened

ArchivedEmpty == \A c \in Categories : categoryRow[c].state = "archived" => OpenIn(c, productRow) \subseteq reopened

OwnersExist == \A s \in Articles : skuRow[s].of # Admin!NoProduct => productRow[skuRow[s].of].status # "NONE"

(* What a customer saw at the latest version is there still, or was hidden by an archive since. *)
VersionsFollow ==
  \A x \in versions :
    /\ x[1] \in Goods /\ x[2] \in Nat
    /\ productRow[x[1]].status # "NONE" /\ x[2] <= productRow[x[1]].ver
    /\ x[2] = productRow[x[1]].ver =>
         \/ x[3] = Admin!Projection(productRow, skuRow, categoryRow, x[1])
         \/ <<x[1], x[2]>> \in stranded /\ Admin!Projection(productRow, skuRow, categoryRow, x[1]) = {}

OneState ==
  \A x, y \in versions : Admin!OfOneVersion(x, y) =>
    x[3] = y[3] \/ (<<x[1], x[2]>> \in stranded /\ {} \in {x[3], y[3]})

AdminInv ==
  /\ AdminTypes /\ RequestsFit /\ SharesLive /\ ArchivesEmpty /\ ArchivedEmpty
  /\ OwnersExist /\ VersionsFollow /\ OneState

LEMMA AdminIdle ==
  /\ Admin!IdleRequest \in AdminRequests /\ Admin!IdleRequest.pc = "idle"
  /\ \A products, skus : Fits(Admin!IdleRequest, products, skus)
  BY DEF Admin!IdleRequest, AdminRequests, Fits, CategoryOps, ProductOps, SkuOps

LEMMA AdminStarts == Admin!Init => AdminInv
<1> SUFFICES ASSUME Admin!Init PROVE AdminInv
  OBVIOUS
<1>1. PICK c \in Categories, p \in Goods :
        /\ categoryRow = [d \in Categories |-> [state |-> IF d = c THEN "live" ELSE "none", name |-> 0]]
        /\ productRow = [q \in Goods |-> IF q = p THEN [status |-> "ARCHIVED", cat |-> c, ver |-> 0] ELSE Admin!NoRow]
  BY DEF Admin!Init, Admin!SomeCatalog
<1>2. /\ skuRow = [s \in Articles |-> Admin!NoSku] /\ adminRequest = [r \in Admins |-> Admin!IdleRequest]
      /\ versions = Admin!Seen(productRow, skuRow, categoryRow) /\ reopened = {} /\ stranded = {}
  BY DEF Admin!Init, Admin!Rest
<1>3. AdminTypes
  BY <1>1, <1>2, AdminIdle DEF AdminTypes, Admin!NoRow, Admin!NoSku, Admin!productStatus
<1>4. RequestsFit
  BY <1>2, AdminIdle DEF RequestsFit
<1>5. SharesLive /\ ArchivesEmpty
  BY <1>2, AdminIdle DEF SharesLive, ArchivesEmpty, Admin!HoldsShare, Admin!In
<1>6. ArchivedEmpty
  BY <1>1 DEF ArchivedEmpty
<1>7. OwnersExist
  BY <1>2 DEF OwnersExist, Admin!NoSku
<1>8. \A x \in versions :
        /\ x[1] \in Goods /\ productRow[x[1]].status # "NONE" /\ x[2] = productRow[x[1]].ver
        /\ x[3] = Admin!Projection(productRow, skuRow, categoryRow, x[1])
  BY <1>2 DEF Admin!Seen
<1>9. VersionsFollow /\ OneState
  BY <1>3, <1>8 DEF VersionsFollow, OneState, Admin!OfOneVersion, AdminTypes
<1> QED
  BY <1>3, <1>4, <1>5, <1>6, <1>7, <1>9 DEF AdminInv

(* A request that takes no lock changes nothing but itself. *)
LEMMA UnlockedKeeps ==
  ASSUME AdminInv, NEW r \in Admins, NEW q \in AdminRequests, q.pc # "locked", Fits(q, productRow, skuRow),
         adminRequest' = [adminRequest EXCEPT ![r] = q],
         UNCHANGED <<categoryRow, productRow, skuRow, versions, reopened, stranded>>
  PROVE  AdminInv'
<1>1. adminRequest'[r] = q /\ \A o \in Admins : o # r => adminRequest'[o] = adminRequest[o]
  BY DEF AdminInv, AdminTypes
<1>2. AdminTypes'
  BY DEF AdminInv, AdminTypes
<1>3. RequestsFit'
  BY <1>1 DEF AdminInv, RequestsFit
<1>4. SharesLive'
  BY <1>1 DEF AdminInv, SharesLive, Admin!HoldsShare, Admin!HoldsExclusive, Admin!In
<1>5. ArchivesEmpty' /\ ArchivedEmpty'
  BY <1>1 DEF AdminInv, ArchivesEmpty, ArchivedEmpty, OpenIn
<1>6. OwnersExist' /\ VersionsFollow' /\ OneState'
  BY DEF AdminInv, OwnersExist, VersionsFollow, OneState
<1> QED
  BY <1>2, <1>3, <1>4, <1>5, <1>6 DEF AdminInv

(* A snapshot of the products after a commit: each is as it was at its version, or hidden by an archive, *)
(* or newer.                                                                                            *)
LEMMA VersionsKept ==
  ASSUME AdminInv, AdminTypes', versions' = versions \cup Admin!Seen(productRow', skuRow', categoryRow'),
         stranded \subseteq stranded',
         \A p \in Goods :
           \/ /\ productRow'[p].ver = productRow[p].ver /\ productRow'[p].status = productRow[p].status
              /\ \/ Admin!Projection(productRow', skuRow', categoryRow', p) = Admin!Projection(productRow, skuRow, categoryRow, p)
                 \/ /\ Admin!Projection(productRow', skuRow', categoryRow', p) = {}
                    /\ <<p, productRow[p].ver>> \in stranded'
           \/ productRow'[p].status # "NONE"
              /\ (productRow[p].status = "NONE" \/ productRow'[p].ver > productRow[p].ver)
  PROVE  VersionsFollow' /\ OneState'
<1> DEFINE Was(p) == Admin!Projection(productRow, skuRow, categoryRow, p)
           Is(p) == Admin!Projection(productRow', skuRow', categoryRow', p)
<1>1. \A x \in Admin!Seen(productRow', skuRow', categoryRow') :
        /\ x[1] \in Goods /\ productRow'[x[1]].status # "NONE" /\ x[2] = productRow'[x[1]].ver
        /\ x[3] = Is(x[1])
  BY DEF Admin!Seen
<1>2. \A x \in versions :
        /\ x[1] \in Goods /\ x[2] \in Nat /\ productRow'[x[1]].status # "NONE" /\ x[2] <= productRow'[x[1]].ver
        /\ x[2] = productRow'[x[1]].ver => x[3] = Is(x[1]) \/ (<<x[1], x[2]>> \in stranded' /\ Is(x[1]) = {})
  <2> SUFFICES ASSUME NEW x \in versions
               PROVE  /\ x[1] \in Goods /\ x[2] \in Nat /\ productRow'[x[1]].status # "NONE"
                      /\ x[2] <= productRow'[x[1]].ver
                      /\ x[2] = productRow'[x[1]].ver =>
                           x[3] = Is(x[1]) \/ (<<x[1], x[2]>> \in stranded' /\ Is(x[1]) = {})
    OBVIOUS
  <2>1. /\ x[1] \in Goods /\ x[2] \in Nat /\ productRow[x[1]].status # "NONE" /\ x[2] <= productRow[x[1]].ver
        /\ x[2] = productRow[x[1]].ver => x[3] = Was(x[1]) \/ (<<x[1], x[2]>> \in stranded /\ Was(x[1]) = {})
    BY DEF AdminInv, VersionsFollow
  <2>2. productRow[x[1]].ver \in Nat /\ productRow'[x[1]].ver \in Nat
    BY <2>1 DEF AdminInv, AdminTypes
  <2>3. CASE productRow'[x[1]].ver > productRow[x[1]].ver
    <3>1. productRow'[x[1]].status # "NONE"
      BY <2>1, <2>2, <2>3
    <3> HIDE DEF Was, Is
    <3> QED
      BY <2>1, <2>2, <2>3, <3>1
  <2>4. CASE ~(productRow'[x[1]].ver > productRow[x[1]].ver)
    <3>1. /\ productRow'[x[1]].ver = productRow[x[1]].ver /\ productRow'[x[1]].status = productRow[x[1]].status
          /\ Is(x[1]) = Was(x[1]) \/ (Is(x[1]) = {} /\ <<x[1], productRow[x[1]].ver>> \in stranded')
      BY <2>1, <2>4
    <3> HIDE DEF Was, Is
    <3> QED
      BY <2>1, <3>1
  <2> QED
    BY <2>3, <2>4
<1> HIDE DEF Is
<1>3. VersionsFollow'
  <2> SUFFICES ASSUME NEW x \in versions'
               PROVE  /\ x[1] \in Goods /\ x[2] \in Nat
                      /\ productRow'[x[1]].status # "NONE" /\ x[2] <= productRow'[x[1]].ver
                      /\ x[2] = productRow'[x[1]].ver =>
                           x[3] = Is(x[1]) \/ (<<x[1], x[2]>> \in stranded' /\ Is(x[1]) = {})
    BY DEF VersionsFollow, Is
  <2>1. CASE x \in versions
    BY <1>2, <2>1
  <2>2. CASE x \notin versions
    <3>1. x \in Admin!Seen(productRow', skuRow', categoryRow')
      BY <2>2
    <3>2. \A p \in Goods : productRow'[p].ver \in Nat
      BY DEF AdminTypes
    <3> QED
      BY <1>1, <3>1, <3>2
  <2> QED
    BY <2>1, <2>2
<1>4. OneState'
  <2> SUFFICES ASSUME NEW x \in versions', NEW y \in versions', x[1] = y[1], x[2] = y[2]
               PROVE  x[3] = y[3] \/ (<<x[1], x[2]>> \in stranded' /\ {} \in {x[3], y[3]})
    BY DEF OneState, Admin!OfOneVersion
  <2>1. CASE x \in versions /\ y \in versions
    BY <2>1 DEF AdminInv, OneState, Admin!OfOneVersion
  <2>2. CASE x \notin versions
    BY <1>1, <1>2, <2>2
  <2>3. CASE y \notin versions
    BY <1>1, <1>2, <2>3
  <2> QED
    BY <2>1, <2>2, <2>3
<1> QED
  BY <1>3, <1>4

(* The transaction of a product or of one of its SKUs commits. *)
LEMMA CommitKeeps ==
  ASSUME AdminInv, NEW r \in Admins,
         adminRequest' = [adminRequest EXCEPT ![r] = Admin!IdleRequest], UNCHANGED <<categoryRow, stranded>>,
         AdminTypes', OwnersExist', versions' = versions \cup Admin!Seen(productRow', skuRow', categoryRow'),
         \A p \in Goods : productRow[p].status # "NONE" => productRow'[p].status # "NONE",
         \A s \in Articles : skuRow[s].of # Admin!NoProduct => skuRow'[s].of = skuRow[s].of,
         \A p \in Goods :
           \/ /\ productRow'[p].ver = productRow[p].ver /\ productRow'[p].status = productRow[p].status
              /\ Admin!Projection(productRow', skuRow', categoryRow', p) = Admin!Projection(productRow, skuRow, categoryRow, p)
           \/ productRow'[p].status # "NONE"
              /\ (productRow[p].status = "NONE" \/ productRow'[p].ver > productRow[p].ver),
         \A c \in Categories : OpenIn(c, productRow') \ reopened' \subseteq OpenIn(c, productRow) \ reopened \/ Admin!HoldsShare(r, c)
  PROVE  AdminInv'
<1>1. adminRequest'[r] = Admin!IdleRequest /\ \A o \in Admins : o # r => adminRequest'[o] = adminRequest[o]
  BY DEF AdminInv, AdminTypes
<1>2. RequestsFit'
  <2>1. \A o \in Admins : o # r => Fits(adminRequest[o], productRow', skuRow')
    BY AdminAssumption DEF AdminInv, RequestsFit, Fits, ProductOps, SkuOps
  <2> QED
    BY <1>1, <2>1, AdminIdle DEF RequestsFit
<1>3. SharesLive'
  BY <1>1, AdminIdle DEF AdminInv, SharesLive, Admin!HoldsShare, Admin!HoldsExclusive, Admin!In
<1>4. ArchivesEmpty'
  <2> SUFFICES ASSUME NEW o \in Admins, adminRequest'[o].pc = "locked", adminRequest'[o].op = "archiveCategory"
               PROVE  OpenIn(adminRequest'[o].cat, productRow') \subseteq reopened'
    BY DEF ArchivesEmpty
  <2>1. o # r /\ adminRequest'[o] = adminRequest[o]
    BY <1>1, AdminIdle
  <2> DEFINE c == adminRequest[o].cat
  <2>2. c \in Categories
    BY <2>1 DEF AdminInv, RequestsFit, Fits, CategoryOps
  <2>3. Admin!HoldsExclusive(o, c)
    BY <2>1 DEF Admin!HoldsExclusive, Admin!In, Admin!ExclusiveOps
  <2>4. ~Admin!HoldsShare(r, c)
    BY <2>2, <2>3 DEF AdminInv, SharesLive
  <2>5. OpenIn(c, productRow) \subseteq reopened
    BY <2>1 DEF AdminInv, ArchivesEmpty
  <2> QED
    BY <2>1, <2>2, <2>4, <2>5
<1>5. ArchivedEmpty'
  <2> SUFFICES ASSUME NEW c \in Categories, categoryRow[c].state = "archived"
               PROVE  OpenIn(c, productRow') \subseteq reopened'
    BY DEF ArchivedEmpty
  <2>1. ~Admin!HoldsShare(r, c) /\ OpenIn(c, productRow) \subseteq reopened
    BY DEF AdminInv, SharesLive, ArchivedEmpty
  <2> QED
    BY <2>1
<1>6. VersionsFollow' /\ OneState'
  BY VersionsKept DEF AdminInv
<1> QED
  BY <1>2, <1>3, <1>4, <1>5, <1>6 DEF AdminInv

(* A product is seen as before when its next and its SKUs are. *)
LEMMA ProjectionSame ==
  ASSUME NEW rows, NEW skus, NEW cats, NEW rows2, NEW skus2, NEW cats2, NEW p, rows2[p] = rows[p],
         Admin!Public(rows2, cats2, p) <=> Admin!Public(rows, cats, p),
         \A s \in Articles : skus2[s] = skus[s] \/ (skus2[s].of # p /\ skus[s].of # p)
  PROVE  Admin!Projection(rows2, skus2, cats2, p) = Admin!Projection(rows, skus, cats, p)
<1> DEFINE Open == {s \in Articles : skus[s].of = p /\ ~skus[s].archived}
           Open2 == {s \in Articles : skus2[s].of = p /\ ~skus2[s].archived}
<1>1. Open2 = Open /\ \A s \in Open : skus2[s] = skus[s]
  OBVIOUS
<1>2. {<<s, skus2[s].name, skus2[s].price>> : s \in Open2} = {<<s, skus[s].name, skus[s].price>> : s \in Open}
  BY <1>1
<1> QED
  BY <1>2 DEF Admin!Projection

LEMMA ChecksKeep ==
  ASSUME AdminInv, NEW r \in Admins, Admin!StartCategory(r) \/ Admin!StartProduct(r) \/ Admin!StartSku(r)
  PROVE  AdminInv'
<1> USE DEF Admin!IdleRequest
<1>1. \A fields, op : Admin!Begin(r, op, fields) =>
        /\ adminRequest' = [adminRequest EXCEPT ![r] = [fields EXCEPT !.op = op, !.pc = "checked"]]
        /\ UNCHANGED <<categoryRow, productRow, skuRow, versions, reopened, stranded>>
  BY DEF Admin!Begin
<1>2. CASE Admin!StartCategory(r)
  <2>1. PICK c \in Categories, op \in CategoryOps : Admin!Begin(r, op, [Admin!IdleRequest EXCEPT !.cat = c])
    BY <1>2 DEF Admin!StartCategory, CategoryOps
  <2> DEFINE q == [[Admin!IdleRequest EXCEPT !.cat = c] EXCEPT !.op = op, !.pc = "checked"]
  <2>2. q \in AdminRequests /\ q.pc = "checked" /\ Fits(q, productRow, skuRow)
    BY DEF AdminRequests, Fits, CategoryOps, ProductOps, SkuOps
  <2> QED
    BY <1>1, <2>1, <2>2, UnlockedKeeps
<1>4. CASE Admin!StartProduct(r)
  <2>1. CASE \E c \in Categories, p \in Goods, status \in Admin!productStatus :
               Admin!Begin(r, "createProduct", [Admin!IdleRequest EXCEPT !.cat = c, !.p = p, !.to = status])
    <3>1. PICK c \in Categories, p \in Goods, status \in Admin!productStatus :
                 Admin!Begin(r, "createProduct", [Admin!IdleRequest EXCEPT !.cat = c, !.p = p, !.to = status])
      BY <2>1
    <3> DEFINE q == [[Admin!IdleRequest EXCEPT !.cat = c, !.p = p, !.to = status] EXCEPT !.op = "createProduct", !.pc = "checked"]
    <3>2. q \in AdminRequests /\ q.pc = "checked" /\ Fits(q, productRow, skuRow)
      BY <3>1 DEF AdminRequests, Fits, CategoryOps, ProductOps, SkuOps, Admin!productStatus
    <3> QED
      BY <1>1, <3>1, <3>2, UnlockedKeeps
  <2>2. CASE \E c \in Categories \cup {Admin!NoCategory}, p \in Goods, status \in Admin!productStatus \cup {"keep"} :
               /\ productRow[p].status # "NONE"
               /\ Admin!Begin(r, "updateProduct", [Admin!IdleRequest EXCEPT !.cat = c, !.p = p, !.to = status])
    <3>1. "none" \notin Admin!productStatus \cup {"keep"}
      BY DEF Admin!productStatus
    <3>2. PICK c \in Categories \cup {Admin!NoCategory}, p \in Goods, status \in Admin!productStatus \cup {"keep"} :
                 /\ productRow[p].status # "NONE"
                 /\ Admin!Begin(r, "updateProduct", [Admin!IdleRequest EXCEPT !.cat = c, !.p = p, !.to = status])
      BY <2>2
    <3> DEFINE q == [[Admin!IdleRequest EXCEPT !.cat = c, !.p = p, !.to = status] EXCEPT !.op = "updateProduct", !.pc = "checked"]
    <3>3. q \in AdminRequests /\ q.pc = "checked" /\ Fits(q, productRow, skuRow)
      BY <3>1, <3>2 DEF AdminRequests, Fits, CategoryOps, ProductOps, SkuOps, Admin!productStatus
    <3> QED
      BY <1>1, <3>2, <3>3, UnlockedKeeps
  <2>3. CASE \E p \in Goods :
               /\ productRow[p].status # "NONE"
               /\ Admin!Begin(r, "archiveProduct", [Admin!IdleRequest EXCEPT !.p = p])
    <3>1. PICK p \in Goods :
                 /\ productRow[p].status # "NONE"
                 /\ Admin!Begin(r, "archiveProduct", [Admin!IdleRequest EXCEPT !.p = p])
      BY <2>3
    <3> DEFINE q == [[Admin!IdleRequest EXCEPT !.p = p] EXCEPT !.op = "archiveProduct", !.pc = "checked"]
    <3>2. q \in AdminRequests /\ q.pc = "checked" /\ Fits(q, productRow, skuRow)
      BY <3>1 DEF AdminRequests, Fits, CategoryOps, ProductOps, SkuOps, Admin!productStatus
    <3> QED
      BY <1>1, <3>1, <3>2, UnlockedKeeps
  <2> QED
    BY <1>4, <2>1, <2>2, <2>3 DEF Admin!StartProduct, Admin!assertProductExists
<1>6. CASE Admin!StartSku(r)
  <2>1. CASE \E p \in Goods, s \in Articles :
               /\ productRow[p].status # "NONE"
               /\ Admin!Begin(r, "createSku", [Admin!IdleRequest EXCEPT !.p = p, !.s = s])
    <3>1. PICK p \in Goods, s \in Articles :
                 /\ productRow[p].status # "NONE"
                 /\ Admin!Begin(r, "createSku", [Admin!IdleRequest EXCEPT !.p = p, !.s = s])
      BY <2>1
    <3> DEFINE q == [[Admin!IdleRequest EXCEPT !.p = p, !.s = s] EXCEPT !.op = "createSku", !.pc = "checked"]
    <3>2. q \in AdminRequests /\ q.pc = "checked" /\ Fits(q, productRow, skuRow)
      BY <3>1 DEF AdminRequests, Fits, CategoryOps, ProductOps, SkuOps, Admin!productStatus
    <3> QED
      BY <1>1, <3>1, <3>2, UnlockedKeeps
  <2>2. CASE \E s \in Articles, op \in {"updateSku", "archiveSku", "setPrice"} :
               /\ skuRow[s].of # Admin!NoProduct
               /\ Admin!Begin(r, op, [Admin!IdleRequest EXCEPT !.p = skuRow[s].of, !.s = s])
    <3>1. \A s \in Articles : skuRow[s].of # Admin!NoProduct =>
            skuRow[s].of \in Goods /\ productRow[skuRow[s].of].status # "NONE"
      BY DEF AdminInv, AdminTypes, OwnersExist
    <3>2. PICK s \in Articles, op \in {"updateSku", "archiveSku", "setPrice"} :
                 /\ skuRow[s].of # Admin!NoProduct
                 /\ Admin!Begin(r, op, [Admin!IdleRequest EXCEPT !.p = skuRow[s].of, !.s = s])
      BY <2>2
    <3> DEFINE q == [[Admin!IdleRequest EXCEPT !.p = skuRow[s].of, !.s = s] EXCEPT !.op = op, !.pc = "checked"]
    <3>3. q \in AdminRequests /\ q.pc = "checked" /\ Fits(q, productRow, skuRow)
      BY <3>1, <3>2 DEF AdminRequests, Fits, CategoryOps, ProductOps, SkuOps, Admin!productStatus
    <3> QED
      BY <1>1, <3>2, <3>3, UnlockedKeeps
  <2> QED
    BY <1>6, <2>1, <2>2 DEF Admin!StartSku, Admin!assertProductExists, Admin!findSkuById
<1> QED
  BY <1>2, <1>4, <1>6

LEMMA LocksKeep ==
  ASSUME AdminInv, NEW r \in Admins, Admin!LockCategory(r) \/ Admin!LockProduct(r)
  PROVE  AdminInv'
<1>0. adminRequest[r].pc = "checked"
  BY DEF Admin!LockCategory, Admin!LockProduct
<1>1. CASE Admin!Gone(r)
  BY <1>1, UnlockedKeeps, AdminIdle DEF Admin!Gone
<1>2. ASSUME Admin!Locks(r),
             adminRequest[r].op = "archiveCategory" => OpenIn(adminRequest[r].cat, productRow) = {},
             adminRequest[r].p # Admin!NoProduct =>
               \A c \in Categories : adminRequest[r].cat = c =>
                 /\ categoryRow[c].state = "live"
                 /\ \A q \in Admins : ~Admin!HoldsExclusive(q, c),
             adminRequest[r].op \in Admin!ExclusiveOps =>
               \A q \in Admins : ~Admin!HoldsShare(q, adminRequest[r].cat)
      PROVE  AdminInv'
  <2>1. /\ adminRequest' = [adminRequest EXCEPT ![r].pc = "locked"]
        /\ UNCHANGED <<categoryRow, productRow, skuRow, versions, reopened, stranded>>
    BY <1>2 DEF Admin!Locks
  <2>2. adminRequest[r] \in AdminRequests
    BY DEF AdminInv, AdminTypes
  <2> DEFINE q == [adminRequest[r] EXCEPT !.pc = "locked"]
  <2>3. /\ q \in AdminRequests /\ q.pc = "locked" /\ q.op = adminRequest[r].op /\ q.p = adminRequest[r].p
        /\ q.cat = adminRequest[r].cat /\ q.s = adminRequest[r].s /\ q.to = adminRequest[r].to
    BY <2>2 DEF AdminRequests
  <2> HIDE DEF q
  <2>4. adminRequest'[r] = q /\ \A o \in Admins : o # r => adminRequest'[o] = adminRequest[o]
    BY <2>1, <2>2 DEF AdminInv, AdminTypes, q
  <2>5. AdminTypes'
    BY <2>1, <2>3 DEF AdminInv, AdminTypes, q
  <2>6. RequestsFit'
    <3>1. Fits(adminRequest[r], productRow, skuRow)
      BY DEF AdminInv, RequestsFit
    <3>2. adminRequest[r].op # "none"
      BY <1>0, <3>1 DEF Fits
    <3>3. Fits(q, productRow, skuRow)
      BY <2>3, <3>1, <3>2 DEF Fits
    <3> QED
      BY <2>1, <2>4, <3>3 DEF AdminInv, RequestsFit
  <2>7. SharesLive'
    <3> SUFFICES ASSUME NEW o \in Admins, NEW c \in Categories, Admin!HoldsShare(o, c)'
                 PROVE  categoryRow[c].state = "live" /\ \A w \in Admins : ~Admin!HoldsExclusive(w, c)'
      BY <2>1 DEF SharesLive
    <3>1. CASE o = r
      <4>1. /\ adminRequest[r].p # Admin!NoProduct /\ adminRequest[r].cat = c
            /\ adminRequest[r].op \notin Admin!ExclusiveOps
        BY <2>3, <2>4, <3>1 DEF Admin!HoldsShare, AdminInv, RequestsFit, Fits, CategoryOps, Admin!ExclusiveOps
      <4> QED
        BY <1>2, <2>3, <2>4, <4>1 DEF Admin!HoldsExclusive, Admin!In
    <3>2. CASE o # r
      <4>1. Admin!HoldsShare(o, c)
        BY <2>4, <3>2 DEF Admin!HoldsShare, Admin!In
      <4> QED
        BY <1>2, <2>3, <2>4, <4>1 DEF AdminInv, SharesLive, Admin!HoldsExclusive, Admin!In
    <3> QED
      BY <3>1, <3>2
  <2>8. ArchivesEmpty' /\ ArchivedEmpty'
    BY <1>2, <2>1, <2>3, <2>4 DEF AdminInv, ArchivesEmpty, ArchivedEmpty
  <2>9. OwnersExist' /\ VersionsFollow' /\ OneState'
    BY <2>1 DEF AdminInv, OwnersExist, VersionsFollow, OneState
  <2> QED
    BY <2>5, <2>6, <2>7, <2>8, <2>9 DEF AdminInv
<1>3. CASE Admin!LockCategory(r)
  <2>1. Fits(adminRequest[r], productRow, skuRow)
    BY DEF AdminInv, RequestsFit
  <2>2. CASE adminRequest[r].op = "createCategory" /\ Admin!Locks(r)
    BY <1>0, <1>2, <2>1, <2>2 DEF Fits, CategoryOps, Admin!ExclusiveOps
  <2>3. CASE /\ adminRequest[r].op \in Admin!ExclusiveOps /\ Admin!Locks(r)
             /\ \A q \in Admins : ~Admin!HoldsShare(q, adminRequest[r].cat)
             /\ adminRequest[r].op = "archiveCategory" =>
                  \A p \in Goods : productRow[p].cat = adminRequest[r].cat => productRow[p].status \in {"NONE", "ARCHIVED"}
    BY <1>0, <1>2, <2>1, <2>3 DEF Fits, CategoryOps, Admin!ExclusiveOps, OpenIn
  <2> QED
    BY <1>1, <1>3, <2>2, <2>3 DEF Admin!LockCategory, Admin!ExclusiveOps
<1>4. CASE Admin!LockProduct(r)
  <2>1. Fits(adminRequest[r], productRow, skuRow)
    BY DEF AdminInv, RequestsFit
  <2>2. CASE /\ adminRequest[r].p # Admin!NoProduct /\ Admin!Locks(r)
             /\ adminRequest[r].cat # Admin!NoCategory => Admin!lockLiveCategory(adminRequest[r].cat)
    <3>1. adminRequest[r].op \notin CategoryOps
      BY <2>1, <2>2 DEF Fits
    <3> QED
      BY <1>0, <1>2, <2>2, <3>1, AdminAssumption
      DEF CategoryOps, Admin!ExclusiveOps, Admin!lockLiveCategory, Admin!ExclusiveFree
  <2> QED
    BY <1>1, <1>4, <2>2 DEF Admin!LockProduct
<1> QED
  BY <1>3, <1>4

LEMMA CategoriesKeep ==
  ASSUME AdminInv, NEW r \in Admins,
         Admin!createCategory(r) \/ Admin!updateCategory(r) \/ Admin!archiveCategoryIfEmpty(r)
  PROVE  AdminInv'
<1> DEFINE c == adminRequest[r].cat
<1>1. CASE Admin!Gone(r)
  BY <1>1, UnlockedKeeps, AdminIdle DEF Admin!Gone
<1>2. c \in Categories /\ adminRequest[r].pc = "locked"
  BY DEF Admin!createCategory, Admin!updateCategory, Admin!archiveCategoryIfEmpty, Admin!Committing, Admin!In,
         AdminInv, RequestsFit, Fits, CategoryOps
<1>3. ASSUME NEW next \in [state : {"none", "live", "archived"}, name : {0, 1}],
             Admin!Commit(r, [categoryRow EXCEPT ![c] = next], productRow, skuRow),
             UNCHANGED reopened,
             \/ next.state = categoryRow[c].state /\ UNCHANGED stranded
             \/ next.state = "live" /\ categoryRow[c].state = "none" /\ UNCHANGED stranded
             \/ /\ next.state = "archived" /\ adminRequest[r].op = "archiveCategory"
                /\ stranded' = stranded \cup
                     {<<p, productRow[p].ver>> : p \in {p \in reopened : productRow[p].cat = c /\ Admin!Public(productRow, categoryRow, p)}}
      PROVE  AdminInv'
  <2>1. /\ UNCHANGED <<productRow, skuRow>> /\ versions' = versions \cup Admin!Seen(productRow', skuRow', categoryRow')
        /\ adminRequest' = [adminRequest EXCEPT ![r] = Admin!IdleRequest]
        /\ categoryRow' = [categoryRow EXCEPT ![c] = next]
    BY <1>3 DEF Admin!Commit
  <2>2. adminRequest'[r] = Admin!IdleRequest /\ \A o \in Admins : o # r => adminRequest'[o] = adminRequest[o]
    BY <2>1 DEF AdminInv, AdminTypes
  <2>3. categoryRow'[c] = next /\ \A d \in Categories : d # c => categoryRow'[d] = categoryRow[d]
    BY <1>2, <2>1 DEF AdminInv, AdminTypes
  <2>4. AdminTypes'
    BY <1>3, <2>1, AdminIdle DEF AdminInv, AdminTypes
  <2>5. RequestsFit'
    BY <2>1, <2>2, AdminIdle DEF AdminInv, RequestsFit
  <2>6. SharesLive'
    <3> SUFFICES ASSUME NEW o \in Admins, NEW d \in Categories, Admin!HoldsShare(o, d)'
                 PROVE  categoryRow'[d].state = "live" /\ \A q \in Admins : ~Admin!HoldsExclusive(q, d)'
      BY DEF SharesLive
    <3>1. o # r /\ Admin!HoldsShare(o, d)
      BY <2>2, AdminIdle DEF Admin!HoldsShare, Admin!In
    <3>2. categoryRow[d].state = "live" /\ \A q \in Admins : ~Admin!HoldsExclusive(q, d)
      BY <3>1 DEF AdminInv, SharesLive
    <3>3. \A q \in Admins : ~Admin!HoldsExclusive(q, d)'
      BY <2>2, <3>2, AdminIdle DEF Admin!HoldsExclusive, Admin!In
    <3>4. ~(d = c /\ next.state = "archived" /\ adminRequest[r].op = "archiveCategory")
      BY <1>2, <3>2 DEF Admin!HoldsExclusive, Admin!In, Admin!ExclusiveOps
    <3> QED
      BY <1>3, <2>3, <3>2, <3>3, <3>4
  <2>7. ArchivesEmpty'
    BY <1>3, <2>1, <2>2, AdminIdle DEF AdminInv, ArchivesEmpty
  <2>8. ArchivedEmpty'
    BY <1>2, <1>3, <2>1, <2>3 DEF AdminInv, ArchivedEmpty, ArchivesEmpty
  <2>9. ASSUME NEW p \in Goods
        PROVE  \/ Admin!Projection(productRow', skuRow', categoryRow', p) = Admin!Projection(productRow, skuRow, categoryRow, p)
               \/ /\ Admin!Projection(productRow', skuRow', categoryRow', p) = {}
                  /\ <<p, productRow[p].ver>> \in stranded'
    <3>1. CASE Admin!Public(productRow', categoryRow', p) <=> Admin!Public(productRow, categoryRow, p)
      BY <2>1, <3>1, ProjectionSame
    <3>2. CASE ~(Admin!Public(productRow', categoryRow', p) <=> Admin!Public(productRow, categoryRow, p))
      <4>1. productRow[p].status = "ACTIVE" /\ productRow[p].cat \in Categories
        BY <2>1, <3>2 DEF Admin!Public, AdminInv, AdminTypes
      <4>2. productRow[p].cat = c /\ next.state = "archived" /\ categoryRow[c].state # "archived"
        BY <1>3, <2>1, <2>3, <3>2, <4>1 DEF Admin!Public
      <4>3. p \in reopened
        BY <1>2, <1>3, <4>1, <4>2 DEF AdminInv, ArchivesEmpty, OpenIn
      <4>4. Admin!Public(productRow, categoryRow, p)
        BY <4>1, <4>2 DEF Admin!Public
      <4>5. <<p, productRow[p].ver>> \in stranded'
        BY <1>3, <4>2, <4>3, <4>4
      <4>6. ~Admin!Public(productRow', categoryRow', p)
        BY <2>1, <2>3, <4>2 DEF Admin!Public
      <4> QED
        BY <4>5, <4>6 DEF Admin!Projection
    <3> QED
      BY <3>1, <3>2
  <2>10. VersionsFollow' /\ OneState'
    <3>1. stranded \subseteq stranded'
      BY <1>3
    <3> QED
      BY <2>1, <2>4, <2>9, <3>1, VersionsKept
  <2>11. OwnersExist'
    BY <2>1 DEF AdminInv, OwnersExist
  <2> QED
    BY <2>4, <2>5, <2>6, <2>7, <2>8, <2>10, <2>11 DEF AdminInv
<1>4. categoryRow[c] \in [state : {"none", "live", "archived"}, name : {0, 1}]
  BY <1>2 DEF AdminInv, AdminTypes
<1>5. CASE Admin!createCategory(r)
  <2> DEFINE next == [categoryRow[c] EXCEPT !.state = "live"]
  <2>1. next \in [state : {"none", "live", "archived"}, name : {0, 1}] /\ next.state = "live"
    BY <1>4
  <2>2. CASE /\ categoryRow[c].state = "none" /\ UNCHANGED <<reopened, stranded>>
             /\ Admin!Commit(r, [categoryRow EXCEPT ![c] = next], productRow, skuRow)
    BY <1>3, <2>1, <2>2
  <2> QED
    <3>1. [categoryRow EXCEPT ![c].state = "live"] = [categoryRow EXCEPT ![c] = next]
      BY <1>2, <1>4 DEF AdminInv, AdminTypes
    <3> QED
      BY <1>1, <1>5, <2>2, <3>1 DEF Admin!createCategory, Admin!guardUnique
<1>6. CASE Admin!updateCategory(r)
  <2>1. PICK name \in {0, 1} : Admin!Commit(r, [categoryRow EXCEPT ![c].name = name], productRow, skuRow)
    BY <1>6 DEF Admin!updateCategory
  <2> DEFINE next == [categoryRow[c] EXCEPT !.name = name]
  <2>2. next \in [state : {"none", "live", "archived"}, name : {0, 1}] /\ next.state = categoryRow[c].state
    BY <1>4
  <2>3. [categoryRow EXCEPT ![c].name = name] = [categoryRow EXCEPT ![c] = next]
    BY <1>2, <1>4 DEF AdminInv, AdminTypes
  <2>4. UNCHANGED <<reopened, stranded>>
    BY <1>6 DEF Admin!updateCategory
  <2> QED
    BY <1>3, <2>1, <2>2, <2>3, <2>4
<1>7. CASE Admin!archiveCategoryIfEmpty(r)
  <2> DEFINE next == [categoryRow[c] EXCEPT !.state = "archived"]
  <2>1. next \in [state : {"none", "live", "archived"}, name : {0, 1}] /\ next.state = "archived"
    BY <1>4
  <2>2. [categoryRow EXCEPT ![c].state = "archived"] = [categoryRow EXCEPT ![c] = next]
    BY <1>2, <1>4 DEF AdminInv, AdminTypes
  <2> HIDE DEF next
  <2>3. /\ Admin!Commit(r, [categoryRow EXCEPT ![c] = next], productRow, skuRow)
        /\ UNCHANGED reopened /\ adminRequest[r].op = "archiveCategory"
        /\ stranded' = stranded \cup
             {<<p, productRow[p].ver>> : p \in {p \in reopened : productRow[p].cat = c /\ Admin!Public(productRow, categoryRow, p)}}
    BY <1>7, <2>2 DEF Admin!archiveCategoryIfEmpty, Admin!Committing
  <2> QED
    BY <1>3, <2>1, <2>3
<1> QED
  BY <1>5, <1>6, <1>7

(* A commit that changes one product, its version with it. *)
LEMMA ProductCommits ==
  ASSUME AdminInv, NEW r \in Admins, NEW p \in Goods,
         NEW next \in [status : Admin!productStatus, cat : Categories, ver : Nat],
         Admin!Commit(r, categoryRow, [productRow EXCEPT ![p] = next], skuRow), UNCHANGED stranded,
         productRow[p].status = "NONE" \/ next.ver > productRow[p].ver,
         reopened \ {p} \subseteq reopened',
         \/ next.status = "ARCHIVED" \/ p \in reopened'
         \/ productRow[p].status \notin {"NONE", "ARCHIVED"} /\ next.cat = productRow[p].cat /\ reopened \subseteq reopened'
         \/ Admin!HoldsShare(r, next.cat)
  PROVE  AdminInv'
<1>1. /\ productRow' = [productRow EXCEPT ![p] = next] /\ UNCHANGED <<categoryRow, skuRow>>
      /\ versions' = versions \cup Admin!Seen(productRow', skuRow', categoryRow')
      /\ adminRequest' = [adminRequest EXCEPT ![r] = Admin!IdleRequest]
  BY DEF Admin!Commit
<1>2. productRow'[p] = next /\ \A q \in Goods : q # p => productRow'[q] = productRow[q]
  BY <1>1 DEF AdminInv, AdminTypes
<1>3. next.status # "NONE" /\ next.cat \in Categories
  BY DEF Admin!productStatus
<1>4. AdminTypes'
  BY <1>1, <1>2, <1>3, AdminIdle DEF AdminInv, AdminTypes
<1>5. OwnersExist'
  BY <1>1, <1>2, <1>3 DEF AdminInv, AdminTypes, OwnersExist
<1>6. \A q \in Goods : q # p => Admin!Projection(productRow', skuRow', categoryRow', q) = Admin!Projection(productRow, skuRow, categoryRow, q)
  <2> SUFFICES ASSUME NEW q \in Goods, q # p
               PROVE  Admin!Projection(productRow', skuRow', categoryRow', q) = Admin!Projection(productRow, skuRow, categoryRow, q)
    OBVIOUS
  <2>1. productRow'[q] = productRow[q] /\ \A s \in Articles : skuRow'[s] = skuRow[s]
    BY <1>1, <1>2
  <2>2. Admin!Public(productRow', categoryRow', q) <=> Admin!Public(productRow, categoryRow, q)
    BY <1>1, <2>1 DEF Admin!Public
  <2> QED
    BY <2>1, <2>2, ProjectionSame
<1>7. \A c \in Categories : OpenIn(c, productRow') \ reopened' \subseteq OpenIn(c, productRow) \ reopened \/ Admin!HoldsShare(r, c)
  BY <1>2, <1>3 DEF OpenIn
<1> QED
  BY <1>1, <1>2, <1>3, <1>4, <1>5, <1>6, <1>7, CommitKeeps

LEMMA ProductPatched ==
  ASSUME NEW S, NEW C, NEW D, NEW T, NEW at \in [status : S, cat : C, ver : Nat], NEW st \in T, NEW v \in Nat
  PROVE  /\ \A ct \in D : [at EXCEPT !.status = st, !.cat = ct, !.ver = v] \in [status : T, cat : D, ver : Nat]
         /\ at.cat \in D => [at EXCEPT !.status = st, !.ver = v] \in [status : T, cat : D, ver : Nat]
<1>1. ASSUME NEW ct \in D
      PROVE  [at EXCEPT !.status = st, !.cat = ct, !.ver = v] \in [status : T, cat : D, ver : Nat]
  OBVIOUS
<1>2. ASSUME at.cat \in D
      PROVE  [at EXCEPT !.status = st, !.ver = v] \in [status : T, cat : D, ver : Nat]
  BY <1>2
<1> QED
  BY <1>1, <1>2

LEMMA SkuPatched ==
  ASSUME NEW O, NEW at \in [of : O, archived : BOOLEAN, name : Int, price : Int], NEW n \in Int
  PROVE  /\ [at EXCEPT !.name = n] \in [of : O, archived : BOOLEAN, name : Int, price : Int]
         /\ [at EXCEPT !.archived = TRUE] \in [of : O, archived : BOOLEAN, name : Int, price : Int]
         /\ [at EXCEPT !.price = n] \in [of : O, archived : BOOLEAN, name : Int, price : Int]
         /\ [at EXCEPT !.name = n].of = at.of /\ [at EXCEPT !.archived = TRUE].of = at.of
         /\ [at EXCEPT !.price = n].of = at.of
<1>1. [at EXCEPT !.name = n] \in [of : O, archived : BOOLEAN, name : Int, price : Int]
  OBVIOUS
<1>2. [at EXCEPT !.archived = TRUE] \in [of : O, archived : BOOLEAN, name : Int, price : Int]
  OBVIOUS
<1>3. [at EXCEPT !.price = n] \in [of : O, archived : BOOLEAN, name : Int, price : Int]
  OBVIOUS
<1> QED
  BY <1>1, <1>2, <1>3

LEMMA ProductsKeep ==
  ASSUME AdminInv, NEW r \in Admins,
         Admin!createProduct(r) \/ Admin!updateProduct(r) \/ Admin!archiveProduct(r)
  PROVE  AdminInv'
<1> DEFINE q == adminRequest[r]
           p == q.p
<1>1. CASE Admin!Gone(r)
  BY <1>1, UnlockedKeeps, AdminIdle DEF Admin!Gone
<1>2. q.pc = "locked" /\ Fits(q, productRow, skuRow) /\ p \in Goods
  BY DEF Admin!createProduct, Admin!updateProduct, Admin!archiveProduct, Admin!Committing, Admin!In,
         AdminInv, RequestsFit, Fits, ProductOps
<1>3. p # Admin!NoProduct
  BY <1>2, AdminAssumption
<1>4. productRow[p] \in [status : Admin!productStatus \cup {"NONE"}, cat : Categories \cup {Admin!NoCategory}, ver : Nat]
      /\ (productRow[p].status # "NONE" => productRow[p].cat \in Categories /\ productRow[p].status \in Admin!productStatus)
  BY <1>2 DEF AdminInv, AdminTypes
<1>5. q \in AdminRequests
  BY DEF AdminInv, AdminTypes
<1>6. CASE Admin!createProduct(r)
  <2> DEFINE next == [status |-> q.to, cat |-> q.cat, ver |-> 0]
  <2>1. q.cat \in Categories /\ q.to \in Admin!productStatus
    BY <1>2, <1>6 DEF Fits, Admin!createProduct, Admin!Committing
  <2>2. next \in [status : Admin!productStatus, cat : Categories, ver : Nat]
    BY <2>1
  <2>3. Admin!HoldsShare(r, next.cat)
    BY <1>2, <1>3 DEF Admin!HoldsShare, Admin!In
  <2>4. CASE /\ productRow[p].status = "NONE" /\ Admin!Commit(r, categoryRow, [productRow EXCEPT ![p] = next], skuRow)
             /\ UNCHANGED <<reopened, stranded>>
    BY <1>2, <2>2, <2>3, <2>4, ProductCommits
  <2> QED
    BY <1>1, <1>6, <2>4 DEF Admin!createProduct, Admin!guardUnique
<1>7. CASE Admin!updateProduct(r)
  <2> DEFINE next == [productRow[p] EXCEPT !.status = IF q.to = "keep" THEN @ ELSE q.to,
                                          !.cat = IF q.cat = Admin!NoCategory THEN @ ELSE q.cat,
                                          !.ver = @ + 1]
             activated == productRow[p].status = "ARCHIVED" /\ next.status # "ARCHIVED"
  <2>1. /\ q.op = "updateProduct" /\ Admin!Commit(r, categoryRow, [productRow EXCEPT ![p] = next], skuRow)
        /\ reopened' = IF q.cat # Admin!NoCategory THEN reopened \ {p}
                       ELSE IF activated THEN reopened \cup {p} ELSE reopened
        /\ UNCHANGED stranded
    BY <1>7 DEF Admin!updateProduct, Admin!Committing
  <2>2. productRow[p].status # "NONE" /\ q.to \in Admin!productStatus \cup {"keep"}
    BY <1>2, <2>1 DEF Fits, ProductOps
  <2>3. /\ next.status = IF q.to = "keep" THEN productRow[p].status ELSE q.to
        /\ next.cat = IF q.cat = Admin!NoCategory THEN productRow[p].cat ELSE q.cat
        /\ next.ver = productRow[p].ver + 1
        /\ next \in [status : Admin!productStatus, cat : Categories, ver : Nat]
    <3>1. q.cat \in Categories \cup {Admin!NoCategory}
      BY <1>5 DEF AdminRequests
    <3>2. /\ next.status = IF q.to = "keep" THEN productRow[p].status ELSE q.to
          /\ next.cat = IF q.cat = Admin!NoCategory THEN productRow[p].cat ELSE q.cat
          /\ next.ver = productRow[p].ver + 1
      BY <1>4
    <3>3. next \in [status : Admin!productStatus, cat : Categories, ver : Nat]
      <4>1. /\ (IF q.to = "keep" THEN productRow[p].status ELSE q.to) \in Admin!productStatus
            /\ (IF q.cat = Admin!NoCategory THEN productRow[p].cat ELSE q.cat) \in Categories
        BY <1>4, <2>2, <3>1
      <4>2. productRow[p].ver + 1 \in Nat
        BY <1>4
      <4> HIDE DEF p, q
      <4> QED
        BY <1>4, <4>1, <4>2, ProductPatched
    <3> QED
      BY <3>2, <3>3
  <2>4. q.cat # Admin!NoCategory => Admin!HoldsShare(r, next.cat)
    BY <1>2, <1>3, <2>3 DEF Admin!HoldsShare, Admin!In
  <2> HIDE DEF next
  <2>5. next.ver > productRow[p].ver
    BY <1>4, <2>3
  <2> QED
    BY <1>2, <2>1, <2>2, <2>3, <2>4, <2>5, ProductCommits
<1>8. CASE Admin!archiveProduct(r)
  <2> DEFINE next == [productRow[p] EXCEPT !.status = "ARCHIVED", !.ver = @ + 1]
  <2>1. /\ q.op = "archiveProduct" /\ UNCHANGED <<reopened, stranded>>
        /\ Admin!Commit(r, categoryRow, [productRow EXCEPT ![p].status = "ARCHIVED", ![p].ver = @ + 1], skuRow)
    BY <1>8 DEF Admin!archiveProduct, Admin!Committing
  <2>2. [productRow EXCEPT ![p].status = "ARCHIVED", ![p].ver = @ + 1] = [productRow EXCEPT ![p] = next]
    BY <1>2, <1>4 DEF AdminInv, AdminTypes
  <2>3. productRow[p].status # "NONE"
    BY <1>2, <2>1 DEF Fits, ProductOps, SkuOps
  <2>4. next \in [status : Admin!productStatus, cat : Categories, ver : Nat] /\ next.ver > productRow[p].ver
        /\ next.status = "ARCHIVED"
    <3>1. productRow[p].cat \in Categories /\ "ARCHIVED" \in Admin!productStatus /\ productRow[p].ver + 1 \in Nat
      BY <1>4, <2>3 DEF Admin!productStatus
    <3> HIDE DEF p
    <3>2. next \in [status : Admin!productStatus, cat : Categories, ver : Nat]
      BY <1>4, <3>1, ProductPatched
    <3> QED
      BY <1>4, <3>2
  <2> HIDE DEF next
  <2>5. Admin!Commit(r, categoryRow, [productRow EXCEPT ![p] = next], skuRow)
    BY <2>1, <2>2
  <2> QED
    BY <1>2, <2>1, <2>4, <2>5, ProductCommits
<1> QED
  BY <1>6, <1>7, <1>8

LEMMA SkusKeep ==
  ASSUME AdminInv, NEW r \in Admins,
         Admin!createSku(r) \/ Admin!updateSku(r) \/ Admin!archiveSku(r) \/ Admin!setPrice(r)
  PROVE  AdminInv'
<1> DEFINE q == adminRequest[r]
           p == q.p
           s == q.s
<1>1. CASE Admin!Gone(r)
  BY <1>1, UnlockedKeeps, AdminIdle DEF Admin!Gone
<1>2. /\ q.op \in SkuOps /\ p \in Goods /\ s \in Articles /\ productRow[p].status # "NONE"
      /\ q.op # "createSku" => skuRow[s].of = p
  BY DEF Admin!createSku, Admin!updateSku, Admin!archiveSku, Admin!setPrice, Admin!Committing, Admin!In,
         AdminInv, RequestsFit, Fits, ProductOps, SkuOps
<1>3. productRow[p] \in [status : Admin!productStatus \cup {"NONE"}, cat : Categories \cup {Admin!NoCategory}, ver : Nat]
      /\ skuRow[s] \in [of : Goods \cup {Admin!NoProduct}, archived : BOOLEAN, name : Int, price : Int]
  BY <1>2 DEF AdminInv, AdminTypes
<1>4. ASSUME NEW next \in [of : Goods \cup {Admin!NoProduct}, archived : BOOLEAN, name : Int, price : Int],
             next.of = p, skuRow[s].of \in {p, Admin!NoProduct}, Admin!markSkuProductChanged(r, next)
      PROVE  AdminInv'
  <2> DEFINE raised == [productRow[p] EXCEPT !.ver = @ + 1]
  <2>1. /\ raised \in [status : Admin!productStatus \cup {"NONE"}, cat : Categories \cup {Admin!NoCategory}, ver : Nat]
        /\ raised.status = productRow[p].status /\ raised.cat = productRow[p].cat /\ raised.ver > productRow[p].ver
    BY <1>3
  <2>2. [productRow EXCEPT ![p].ver = @ + 1] = [productRow EXCEPT ![p] = raised]
    BY <1>2, <1>3 DEF AdminInv, AdminTypes
  <2> HIDE DEF raised
  <2>3. /\ productRow' = [productRow EXCEPT ![p] = raised] /\ skuRow' = [skuRow EXCEPT ![s] = next]
        /\ versions' = versions \cup Admin!Seen(productRow', skuRow', categoryRow')
        /\ adminRequest' = [adminRequest EXCEPT ![r] = Admin!IdleRequest]
        /\ UNCHANGED <<categoryRow, reopened, stranded>>
    BY <1>4, <2>2 DEF Admin!markSkuProductChanged, Admin!Commit, Admin!bumpSearchVersion
  <2>4. productRow'[p] = raised /\ \A o \in Goods : o # p => productRow'[o] = productRow[o]
    BY <1>2, <2>3 DEF AdminInv, AdminTypes
  <2>5. skuRow'[s] = next /\ \A o \in Articles : o # s => skuRow'[o] = skuRow[o]
    BY <1>2, <2>3 DEF AdminInv, AdminTypes
  <2>6. AdminTypes'
    <3>1. productRow' \in [Goods -> [status : Admin!productStatus \cup {"NONE"},
                                     cat : Categories \cup {Admin!NoCategory}, ver : Nat]]
      BY <2>1, <2>3 DEF AdminInv, AdminTypes
    <3>2. \A o \in Goods : productRow'[o].status # "NONE" => productRow'[o].cat \in Categories
      BY <2>1, <2>4 DEF AdminInv, AdminTypes
    <3>3. skuRow' \in [Articles -> [of : Goods \cup {Admin!NoProduct}, archived : BOOLEAN, name : Int, price : Int]]
      BY <1>4, <2>3 DEF AdminInv, AdminTypes
    <3> QED
      BY <2>3, <3>1, <3>2, <3>3, AdminIdle DEF AdminInv, AdminTypes
  <2>7. OwnersExist'
    BY <1>2, <1>4, <2>1, <2>4, <2>5 DEF AdminInv, AdminTypes, OwnersExist
  <2>8. \A o \in Goods : o # p => Admin!Projection(productRow', skuRow', categoryRow', o) = Admin!Projection(productRow, skuRow, categoryRow, o)
    <3> SUFFICES ASSUME NEW o \in Goods, o # p
                 PROVE  Admin!Projection(productRow', skuRow', categoryRow', o) = Admin!Projection(productRow, skuRow, categoryRow, o)
      OBVIOUS
    <3>1. \A t \in Articles : skuRow'[t] = skuRow[t] \/ (skuRow'[t].of # o /\ skuRow[t].of # o)
      BY <1>4, <2>5, AdminAssumption
    <3>2. productRow'[o] = productRow[o]
      BY <2>4
    <3>3. Admin!Public(productRow', categoryRow', o) <=> Admin!Public(productRow, categoryRow, o)
      BY <2>3, <3>2 DEF Admin!Public
    <3> QED
      BY <3>1, <3>2, <3>3, ProjectionSame
  <2>9. \A c \in Categories : OpenIn(c, productRow') = OpenIn(c, productRow)
    BY <2>1, <2>4 DEF OpenIn
  <2>10. /\ \A o \in Goods : productRow[o].status # "NONE" => productRow'[o].status # "NONE"
         /\ \A t \in Articles : skuRow[t].of # Admin!NoProduct => skuRow'[t].of = skuRow[t].of
    BY <1>4, <2>1, <2>4, <2>5
  <2>11. \A o \in Goods :
           \/ /\ productRow'[o].ver = productRow[o].ver /\ productRow'[o].status = productRow[o].status
              /\ Admin!Projection(productRow', skuRow', categoryRow', o) = Admin!Projection(productRow, skuRow, categoryRow, o)
           \/ productRow'[o].status # "NONE"
              /\ (productRow[o].status = "NONE" \/ productRow'[o].ver > productRow[o].ver)
    BY <1>2, <2>1, <2>4, <2>8
  <2> QED
    BY <2>3, <2>6, <2>7, <2>9, <2>10, <2>11, CommitKeeps
<1>5. CASE Admin!createSku(r)
  <2> DEFINE next == [Admin!NoSku EXCEPT !.of = p]
  <2>1. next \in [of : Goods \cup {Admin!NoProduct}, archived : BOOLEAN, name : Int, price : Int] /\ next.of = p
    <3>1. Admin!NoSku \in [of : {Admin!NoProduct}, archived : BOOLEAN, name : Int, price : Int]
      BY DEF Admin!NoSku
    <3> HIDE DEF p
    <3> QED
      BY <1>2, <3>1
  <2>2. CASE skuRow[s] = Admin!NoSku /\ Admin!markSkuProductChanged(r, next)
    BY <1>4, <2>1, <2>2 DEF Admin!NoSku
  <2> QED
    BY <1>1, <1>5, <2>2 DEF Admin!createSku, Admin!guardUnique
<1>6. ASSUME NEW next, next \in {[skuRow[s] EXCEPT !.name = 1 - @], [skuRow[s] EXCEPT !.archived = TRUE],
                               [skuRow[s] EXCEPT !.price = 1 - @]},
             q.op # "createSku", Admin!markSkuProductChanged(r, next)
      PROVE  AdminInv'
  <2>1. next \in [of : Goods \cup {Admin!NoProduct}, archived : BOOLEAN, name : Int, price : Int] /\ next.of = p
    <3>1. skuRow[s].of = p
      BY <1>2, <1>6
    <3>2. 1 - skuRow[s].name \in Int /\ 1 - skuRow[s].price \in Int
      BY <1>3
    <3> HIDE DEF s, p
    <3> QED
      <4>1. CASE next = [skuRow[s] EXCEPT !.name = 1 - @]
        BY <1>3, <3>1, <3>2, <4>1, SkuPatched
      <4>2. CASE next = [skuRow[s] EXCEPT !.archived = TRUE]
        BY <1>3, <3>1, <3>2, <4>2, SkuPatched
      <4>3. CASE next = [skuRow[s] EXCEPT !.price = 1 - @]
        BY <1>3, <3>1, <3>2, <4>3, SkuPatched
      <4> QED
        BY <1>6, <4>1, <4>2, <4>3
  <2> QED
    BY <1>2, <1>4, <1>6, <2>1
<1>7. CASE Admin!updateSku(r) \/ Admin!archiveSku(r) \/ Admin!setPrice(r)
  BY <1>6, <1>7 DEF Admin!updateSku, Admin!archiveSku, Admin!setPrice, Admin!Committing
<1> QED
  BY <1>5, <1>7

LEMMA AdminKept == AdminInv /\ [Admin!Next]_(Admin!adminVars) => AdminInv'
<1> SUFFICES ASSUME AdminInv, [Admin!Next]_(Admin!adminVars) PROVE AdminInv'
  OBVIOUS
<1>1. CASE Admin!Next
  BY <1>1, ChecksKeep, LocksKeep, CategoriesKeep, ProductsKeep, SkusKeep DEF Admin!Next
<1>2. CASE UNCHANGED Admin!adminVars
  <2> USE <1>2 DEF Admin!adminVars, AdminInv
  <2>1. AdminTypes' /\ RequestsFit' /\ ArchivesEmpty' /\ ArchivedEmpty'
    BY DEF AdminTypes, RequestsFit, ArchivesEmpty, ArchivedEmpty
  <2>2. SharesLive'
    BY DEF SharesLive, Admin!HoldsShare, Admin!HoldsExclusive, Admin!In
  <2>3. OwnersExist' /\ VersionsFollow' /\ OneState'
    BY DEF OwnersExist, VersionsFollow, OneState
  <2> QED
    BY <2>1, <2>2, <2>3
<1> QED
  BY <1>1, <1>2

(* A version stands for one state of what customers see of a product, but for one at which a PATCH     *)
(* activated it while its category was being archived (archiveCategoryIfEmpty); and an archived        *)
(* category holds nothing open but what such a PATCH activated (lockLiveCategory).                     *)
THEOREM CatalogAlwaysHolds == Admin!Spec => []CatalogHolds
<1>1. AdminInv => CatalogHolds
  <2> SUFFICES ASSUME AdminInv PROVE Admin!CatalogHolds
    BY DEF CatalogHolds
  <2>1. \A p \in Goods :
          productRow[p].status \notin {"NONE", "ARCHIVED"} => p \in OpenIn(productRow[p].cat, productRow)
            /\ productRow[p].cat \in Categories
    BY DEF AdminInv, AdminTypes, OpenIn
  <2> QED
    BY <2>1 DEF AdminInv, ArchivedEmpty, OneState, Admin!CatalogHolds
<1> QED
  BY <1>1, AdminStarts, AdminKept, PTL DEF Admin!Spec

-------------------------------------------------------------------------------
(* The images *)

MediaTypes ==
  /\ asset \in [Assets -> [status : {"NONE", "PENDING", "READY", "ATTACHED", "DETACHED", "SWEEPING"},
                           expired : BOOLEAN]]
  /\ object \in [Assets -> BOOLEAN] /\ checked \in [Assets -> BOOLEAN]
  /\ url \in [Assets -> {"unsigned", "signed", "putting", "expired", "expiredPutting"}]
  /\ links \subseteq Displays \X Assets
  /\ sweeper \in [Sweepers -> [pc : {"idle", "claim", "drop"}, ids : SUBSET Assets, half : SUBSET Assets]]

(* An asset is uploaded once: a row that is deleted never comes back. *)
OneUpload == \A a \in Assets : url[a] = "unsigned" => asset[a].status = "NONE" /\ ~object[a] /\ ~checked[a]

(* What a confirmation has seen, and every status after it, have the bytes. *)
Uploaded ==
  \A a \in Assets :
    asset[a].status \in {"READY", "ATTACHED", "DETACHED"} \/ (checked[a] /\ asset[a].status = "PENDING")
      => object[a]

(* A deleted row leaves its bytes only to an upload that came after the claim. *)
NoOrphan == \A a \in Assets : asset[a].status = "NONE" /\ object[a] => a \in lateUploads

(* One link for each attached asset. *)
Linked ==
  /\ \A l \in links : asset[l[2]].status = "ATTACHED"
  /\ \A l, m \in links : l[2] = m[2] => l = m

(* A sweep holds rows that nothing but their deletion takes from SWEEPING; between its two steps the   *)
(* bytes are gone, or an upload landed since.                                                          *)
ClaimHeld ==
  \A s \in Sweepers : \A a \in sweeper[s].ids :
    sweeper[s].pc = "drop" =>
      /\ asset[a].status \in {"SWEEPING", "NONE"} /\ url[a] # "unsigned"
      /\ sweeper[s].half = {a} => ~object[a] \/ a \in lateUploads

MediaInv == MediaTypes /\ OneUpload /\ Uploaded /\ NoOrphan /\ Linked /\ ClaimHeld

LEMMA MediaStarts == Images!Init => MediaInv
  BY DEF Images!Init, MediaInv, MediaTypes, OneUpload, Uploaded, NoOrphan, Linked, ClaimHeld,
         Images!NoRow, Images!IdleSweep

LEMMA UploadsKeep ==
  ASSUME MediaInv, NEW a \in Assets,
         \/ Images!Initiate(a) \/ Images!StartPut(a) \/ Images!LandPut(a) \/ Images!UrlExpires(a)
         \/ Images!CheckUpload(a) \/ Images!MarkReady(a) \/ Images!Expires(a)
  PROVE  MediaInv'
<1> USE DEF MediaInv
<1>1. CASE Images!Initiate(a)
  <2> USE <1>1 DEF Images!Initiate, Images!Row
  <2>1. MediaTypes' /\ OneUpload' /\ Uploaded' /\ NoOrphan'
    BY DEF MediaTypes, OneUpload, Uploaded, NoOrphan
  <2>2. Linked'
    BY DEF MediaTypes, Linked
  <2>3. a \notin lateUploads => ~object[a]
    BY DEF MediaTypes, NoOrphan
  <2>4. ClaimHeld'
    <3> SUFFICES ASSUME NEW t \in Sweepers, NEW b \in sweeper[t].ids, sweeper[t].pc = "drop"
                 PROVE  /\ asset'[b].status \in {"SWEEPING", "NONE"} /\ url'[b] # "unsigned"
                        /\ sweeper[t].half = {b} => ~object[b] \/ b \in lateUploads
      BY DEF ClaimHeld
    <3> QED
      BY DEF MediaTypes, ClaimHeld
  <2> QED
    BY <2>1, <2>2, <2>4
<1>2. CASE Images!StartPut(a)
  BY <1>2 DEF Images!StartPut, MediaTypes, OneUpload, Uploaded, NoOrphan, Linked, ClaimHeld
<1>3. CASE Images!LandPut(a)
  <2> USE <1>3 DEF Images!LandPut
  <2>1. MediaTypes' /\ OneUpload' /\ Uploaded' /\ Linked'
    BY DEF MediaTypes, OneUpload, Uploaded, Linked
  <2>2. NoOrphan'
    BY DEF MediaTypes, NoOrphan
  <2>3. ClaimHeld'
    <3>1. \A s \in Sweepers : sweeper[s].ids \subseteq Assets
      BY DEF MediaTypes
    <3> QED
      BY <3>1 DEF MediaTypes, ClaimHeld
  <2> QED
    BY <2>1, <2>2, <2>3
<1>4. CASE Images!UrlExpires(a)
  BY <1>4 DEF Images!UrlExpires, MediaTypes, OneUpload, Uploaded, NoOrphan, Linked, ClaimHeld
<1>5. CASE Images!CheckUpload(a)
  BY <1>5 DEF Images!CheckUpload, Images!Transitions, MediaTypes, OneUpload, Uploaded, NoOrphan, Linked, ClaimHeld
<1>6. CASE Images!MarkReady(a)
  BY <1>6 DEF Images!MarkReady, Images!MarksReady, Images!Row, MediaTypes, OneUpload, Uploaded, NoOrphan, Linked, ClaimHeld
<1>7. CASE Images!Expires(a)
  <2> USE <1>7 DEF Images!Expires
  <2>1. MediaTypes'
    <3>1. asset[a] \in [status : {"NONE", "PENDING", "READY", "ATTACHED", "DETACHED", "SWEEPING"}, expired : BOOLEAN]
      BY DEF MediaTypes
    <3>2. [asset[a] EXCEPT !.expired = TRUE]
            \in [status : {"NONE", "PENDING", "READY", "ATTACHED", "DETACHED", "SWEEPING"}, expired : BOOLEAN]
      BY <3>1
    <3>3. asset' = [asset EXCEPT ![a] = [asset[a] EXCEPT !.expired = TRUE]]
      BY DEF MediaTypes
    <3> QED
      BY <3>2, <3>3 DEF MediaTypes
  <2>2. \A b \in Assets : asset'[b].status = asset[b].status
    BY DEF MediaTypes
  <2>3. OneUpload' /\ Uploaded' /\ NoOrphan'
    BY <2>2 DEF OneUpload, Uploaded, NoOrphan
  <2>4. Linked' /\ ClaimHeld'
    BY <2>2 DEF MediaTypes, Linked, ClaimHeld
  <2> QED
    BY <2>1, <2>3, <2>4
<1> QED
  BY <1>1, <1>2, <1>3, <1>4, <1>5, <1>6, <1>7

LEMMA LinksKeep ==
  ASSUME MediaInv, NEW a \in Assets, NEW p \in Displays, Images!Attach(p, a) \/ Images!Detach(p, a)
  PROVE  MediaInv'
<1> USE DEF MediaInv, Images!Row, Images!Transitions, Images!NoRow
<1>1. CASE Images!Attach(p, a)
  <2> USE <1>1 DEF Images!Attach
  <2>1. MediaTypes' /\ OneUpload' /\ Uploaded' /\ NoOrphan' /\ ClaimHeld'
    BY DEF MediaTypes, OneUpload, Uploaded, NoOrphan, ClaimHeld
  <2>2. Linked'
    BY DEF MediaTypes, Linked
  <2> QED
    BY <2>1, <2>2
<1>2. CASE Images!Detach(p, a)
  <2> USE <1>2 DEF Images!Detach
  <2>1. asset[a].status = "ATTACHED"
    BY DEF Linked
  <2>2. MediaTypes' /\ OneUpload' /\ Uploaded' /\ NoOrphan' /\ ClaimHeld'
    BY <2>1 DEF MediaTypes, OneUpload, Uploaded, NoOrphan, ClaimHeld
  <2>3. Linked'
    <3>1. \A l \in links' : l[2] \in Assets /\ l[2] # a
      BY DEF MediaTypes, Linked
    <3> QED
      BY <3>1 DEF Linked, MediaTypes
  <2> QED
    BY <2>2, <2>3
<1> QED
  BY <1>1, <1>2

LEMMA SweepsKeep ==
  ASSUME MediaInv, NEW s \in Sweepers,
         Images!SelectBatch(s) \/ Images!Claim(s) \/ Images!SweepStep(s) \/ Images!SweepDies(s)
  PROVE  MediaInv'
<1> USE DEF MediaInv, Images!Row, Images!IdleSweep, Images!NoRow
<1>1. CASE Images!SelectBatch(s)
  BY <1>1 DEF Images!SelectBatch, MediaTypes, OneUpload, Uploaded, NoOrphan, Linked, ClaimHeld
<1>2. CASE Images!Claim(s)
  <2> USE <1>2 DEF Images!Claim, Images!Claims, Images!Eligible, Images!Reclaimable
  <2>1. MediaTypes'
    BY DEF MediaTypes
  <2>2. OneUpload' /\ Uploaded' /\ NoOrphan'
    BY DEF MediaTypes, OneUpload, Uploaded, NoOrphan
  <2>3. Linked'
    BY DEF MediaTypes, Linked
  <2>4. ClaimHeld'
    <3> SUFFICES ASSUME NEW t \in Sweepers, NEW b \in sweeper'[t].ids, sweeper'[t].pc = "drop"
                 PROVE  /\ asset'[b].status \in {"SWEEPING", "NONE"} /\ url[b] # "unsigned"
                        /\ sweeper'[t].half = {b} => ~object[b] \/ b \in lateUploads
      BY DEF ClaimHeld
    <3>1. \A c \in Assets : asset'[c] = asset[c] \/ asset'[c].status = "SWEEPING"
      OBVIOUS
    <3>2. CASE t = s
      <4>1. b \in Assets /\ Images!Claims(b) /\ asset'[b].status = "SWEEPING" /\ sweeper'[t].half = {}
        BY <3>2 DEF MediaTypes
      <4> QED
        BY <4>1 DEF OneUpload
    <3>3. CASE t # s
      <4>1. sweeper'[t] = sweeper[t] /\ b \in Assets
        BY <3>3 DEF MediaTypes
      <4> QED
        BY <3>1, <4>1 DEF ClaimHeld
    <3> QED
      BY <3>2, <3>3
  <2> QED
    BY <2>1, <2>2, <2>3, <2>4
<1>3. CASE Images!SweepStep(s)
  <2>1. PICK a \in sweeper[s].ids :
          /\ sweeper[s].pc = "drop"
          /\ \/ /\ sweeper[s].half = {}
                /\ Images!ObjectFirst("first", a)
                /\ sweeper' = [sweeper EXCEPT ![s].half = {a}]
             \/ /\ sweeper[s].half = {a}
                /\ Images!ObjectFirst("second", a)
                /\ sweeper' = [sweeper EXCEPT ![s] =
                     IF @.ids = {a} THEN Images!IdleSweep
                     ELSE [pc |-> "drop", ids |-> @.ids \ {a}, half |-> {}]]
          /\ UNCHANGED <<url, links, checked, lateUploads, crashes>>
    BY <1>3 DEF Images!SweepStep
  <2>2. a \in Assets /\ asset[a].status \in {"SWEEPING", "NONE"}
    BY <2>1 DEF MediaTypes, ClaimHeld
  <2>3. CASE sweeper[s].half = {}
    <3>1. /\ object' = [object EXCEPT ![a] = FALSE] /\ UNCHANGED asset
          /\ sweeper' = [sweeper EXCEPT ![s].half = {a}]
      BY <2>1, <2>3 DEF Images!ObjectFirst, Images!DropObject
    <3>2. MediaTypes' /\ OneUpload' /\ Uploaded' /\ NoOrphan' /\ Linked'
      BY <2>1, <2>2, <3>1 DEF MediaTypes, OneUpload, Uploaded, NoOrphan, Linked
    <3>3. ClaimHeld'
      <4> SUFFICES ASSUME NEW t \in Sweepers, NEW b \in sweeper'[t].ids, sweeper'[t].pc = "drop"
                   PROVE  /\ asset[b].status \in {"SWEEPING", "NONE"} /\ url[b] # "unsigned"
                          /\ sweeper'[t].half = {b} => ~object'[b] \/ b \in lateUploads
        BY <2>1, <3>1 DEF ClaimHeld
      <4>1. b \in Assets /\ object' = [object EXCEPT ![a] = FALSE] /\ (object'[b] => object[b])
        BY <2>2, <3>1 DEF MediaTypes
      <4>2. asset[b].status \in {"SWEEPING", "NONE"} /\ url[b] # "unsigned"
        BY <2>1, <3>1 DEF MediaTypes, ClaimHeld
      <4>3. CASE t = s
        <5>1. sweeper'[t].half = {b} => a = b
          BY <3>1, <4>3 DEF MediaTypes
        <5> QED
          BY <2>2, <4>1, <4>2, <5>1 DEF MediaTypes
      <4>4. CASE t # s
        <5>1. sweeper'[t] = sweeper[t]
          BY <3>1, <4>4 DEF MediaTypes
        <5> QED
          BY <4>1, <4>2, <5>1 DEF ClaimHeld
      <4> QED
        BY <4>3, <4>4
    <3> QED
      BY <3>2, <3>3
  <2>4. CASE sweeper[s].half = {a}
    <3>1. /\ asset' = IF asset[a].status = "SWEEPING" THEN [asset EXCEPT ![a] = Images!NoRow] ELSE asset
          /\ UNCHANGED object
          /\ sweeper' = [sweeper EXCEPT ![s] =
               IF @.ids = {a} THEN Images!IdleSweep ELSE [pc |-> "drop", ids |-> @.ids \ {a}, half |-> {}]]
      BY <2>1, <2>4 DEF Images!ObjectFirst, Images!DropRow
    <3>2. MediaTypes'
      BY <2>1, <2>2, <3>1 DEF MediaTypes
    <3>3. OneUpload' /\ Uploaded' /\ NoOrphan' /\ Linked'
      BY <2>1, <2>2, <2>4, <3>1 DEF MediaTypes, OneUpload, Uploaded, NoOrphan, Linked, ClaimHeld
    <3>4. ClaimHeld'
      <4> SUFFICES ASSUME NEW t \in Sweepers, NEW b \in sweeper'[t].ids, sweeper'[t].pc = "drop"
                   PROVE  /\ asset'[b].status \in {"SWEEPING", "NONE"} /\ url[b] # "unsigned"
                          /\ sweeper'[t].half = {b} => ~object[b] \/ b \in lateUploads
        BY <2>1, <3>1 DEF ClaimHeld
      <4>1. \A c \in Assets : asset'[c] = asset[c] \/ asset'[c].status = "NONE"
        BY <2>2, <3>1 DEF MediaTypes, Images!NoRow
      <4>2. sweeper[t].pc = "drop" /\ b \in sweeper[t].ids /\ b \in Assets
        BY <2>1, <3>1 DEF MediaTypes
      <4>3. sweeper'[t].half = {b} => sweeper[t].half = {b}
        BY <3>1 DEF MediaTypes
      <4> QED
        BY <4>1, <4>2, <4>3 DEF ClaimHeld
    <3> QED
      BY <3>2, <3>3, <3>4
  <2> QED
    BY <2>1, <2>3, <2>4
<1>4. CASE Images!SweepDies(s)
  BY <1>4 DEF Images!SweepDies, MediaTypes, OneUpload, Uploaded, NoOrphan, Linked, ClaimHeld
<1> QED
  BY <1>1, <1>2, <1>3, <1>4

LEMMA MediaKept == MediaInv /\ [Images!Next]_(Images!vars) => MediaInv'
<1> SUFFICES ASSUME MediaInv, [Images!Next]_(Images!vars) PROVE MediaInv'
  OBVIOUS
<1>1. CASE Images!Next
  BY <1>1, UploadsKeep, LinksKeep, SweepsKeep DEF Images!Next
<1>2. CASE UNCHANGED Images!vars
  BY <1>2 DEF Images!vars, MediaInv, MediaTypes, OneUpload, Uploaded, NoOrphan, Linked, ClaimHeld
<1> QED
  BY <1>1, <1>2

(* An attached asset has its bytes, a link its attached asset, and bytes without a row come only from  *)
(* an upload that landed on a claimed or deleted row (drizzle-media-asset claimForSweep, lockStatus).  *)
THEOREM ImagesAlwaysHaveObjects == MediaSpec => []ImagesHaveObjects
<1>1. MediaInv => ImagesHaveObjects
  <2> SUFFICES ASSUME MediaInv PROVE Images!ImagesHaveObjects
    BY DEF ImagesHaveObjects
  <2> QED
    BY DEF MediaInv, MediaTypes, Uploaded, NoOrphan, Linked, Images!ImagesHaveObjects,
           Images!MissingObjects, Images!DanglingLinks, Images!OrphanObjects
<1> QED
  BY <1>1, MediaStarts, MediaKept, PTL DEF MediaSpec, Images!FairSpec

-------------------------------------------------------------------------------
(* The search projection *)

Docs == [ver : Nat, name : Nat, shown : BOOLEAN]
Snapshots == [id : Listed, ver : Nat, name : Nat, shown : BOOLEAN]
Copies == [id : Listed, ver : Nat, name : Nat, shown : BOOLEAN, index : Search!Indices]
Deliveries ==
  [pc : {"idle", "bump", "write", "apply"}, event : Listed \cup {0}, cursor : Nat,
   page : SUBSET Snapshots, items : SUBSET Copies]
Building == {"page", "fill", "promote", "swap"}
Reindexes ==
  [pc : Building \cup {"idle", "begin", "abort", "release", "delete", "retire", "ended"}, own : Search!Indices,
   cursor : Nat, page : SUBSET Snapshots, serving : SUBSET Search!Indices, doomed : SUBSET Search!Indices,
   stale : BOOLEAN]
Archiving == [name : Nat, state : {"live", "counted", "archived"}, stranded : SUBSET (Listed \X Nat)]
IndexStates == [state : {"unused", "there", "deleted"}, aliases : SUBSET {"products", "rebuilding"}, doc : [Listed -> Docs]]

SearchTypes ==
  /\ row \in [Listed -> [ver : Nat, status : Search!Statuses]] /\ category \in Archiving
  /\ events \subseteq Listed \cup {0}
  /\ job \in [Workers -> Deliveries] /\ late \subseteq Copies
  /\ index \in [Search!Indices -> IndexStates]
  /\ swap \subseteq [own : Search!Indices, serving : SUBSET Search!Indices]
  /\ run \in [Runners -> Reindexes]

(* One index serves and at most one is locked for a rebuild, never the same; one that lost its alias   *)
(* never has one again.                                                                                *)
OneAlias ==
  /\ \E c \in Search!Indices : Search!Holding("products") = {c}
  /\ \A i, j \in Search!Holding("rebuilding") : i = j
  /\ \A i \in Search!Indices :
       /\ index[i].aliases \in {{}, {"products"}, {"rebuilding"}}
       /\ index[i].state # "there" => index[i].aliases = {}

(* What a run is about to swap was created, and what it is about to delete serves nothing. *)
Knows(x) ==
  /\ x.pc \in Building => index[x.own].state # "unused"
  /\ x.pc = "swap" => x.serving # {}
  /\ x.pc = "release" => \E i \in Search!Indices : x.doomed = {i}
  /\ x.pc = "delete" => \A i \in x.doomed : index[i].state # "unused" /\ index[i].aliases = {}

RunsKnow ==
  /\ \A r \in Runners : Knows(run[r])
  /\ \A s \in swap : index[s.own].state # "unused" /\ s.serving # {}

(* A rename whose fan-out has not come to the product. *)
Renaming(p) ==
  0 \in events \/ \E w \in Workers : job[w].pc # "idle" /\ job[w].event = 0 /\ job[w].cursor < p

(* A version stands for one state of the product, but for the name while a rename is under way, and    *)
(* for what is public at the version at which an archive stranded it.                                  *)
Shows(p, x) ==
  /\ x.ver <= row[p].ver
  /\ row[p].ver > 0 /\ x.ver = row[p].ver =>
       /\ (x.shown <=> Search!Public(row, p)) \/ <<p, x.ver>> \in category.stranded
       /\ Renaming(p) \/ x.name = category.name

AllShow ==
  /\ \A i \in Search!Indices, p \in Listed : Shows(p, index[i].doc[p])
  /\ \A w \in Workers : (\A s \in job[w].page : Shows(s.id, s)) /\ (\A c \in job[w].items : Shows(c.id, c))
  /\ \A c \in late : Shows(c.id, c)
  /\ \A r \in Runners : \A s \in run[r].page : Shows(s.id, s)

(* A delivery of a product's event writes that product; a page of a fill has each row once. *)
Fitting(d) ==
  d.pc # "idle" /\ d.event # 0 =>
    /\ d.pc \in {"write", "apply"}
    /\ \A s \in d.page : s.id = d.event
    /\ \A c \in d.items : c.id = d.event
Once(page) == \A s, t \in page : s.id = t.id => s = t
PagesFit == (\A w \in Workers : Fitting(job[w])) /\ \A r \in Runners : Once(run[r].page)

(* A delivery is about to write the row as it is into the index. *)
Sends(w, p, i) ==
  \/ job[w].pc = "write" /\ \E s \in job[w].page : s.id = p /\ s.ver = row[p].ver
  \/ job[w].pc = "apply" /\ \E c \in job[w].items : c.id = p /\ c.ver = row[p].ver /\ c.index = i

(* The index has the row as it is, or will have it before all is quiet. *)
Current(p, i) ==
  \/ index[i].doc[p].ver = row[p].ver
  \/ p \in events \/ Renaming(p) \/ \E w \in Workers : Sends(w, p, i)

Serving == \A i \in Search!Holding("products"), p \in Listed : Current(p, i)

(* As long as a run holds the lock, its index has every row that it has read, or that was written since. *)
Filled(x) ==
  x.own \in Search!Holding("rebuilding") =>
    \A p \in Listed :
      /\ x.pc = "page" => p > x.cursor \/ Current(p, x.own)
      /\ x.pc = "fill" =>
           \/ Current(p, x.own)
           \/ ~(Search!Cardinality(x.page) < PageSize) /\ p > x.cursor
           \/ \E s \in x.page : s.id = p /\ s.ver = row[p].ver
      /\ x.pc \in {"promote", "swap"} => Current(p, x.own)

Rebuilt ==
  /\ \A r \in Runners : Filled(run[r])
  /\ \A s \in swap : s.own \in Search!Holding("rebuilding") => \A p \in Listed : Current(p, s.own)

SearchInv == SearchTypes /\ OneAlias /\ RunsKnow /\ PagesFit /\ AllShow /\ Serving /\ Rebuilt

LEMMA SearchFields ==
  ASSUME SearchTypes
  PROVE  /\ \A p \in Listed : row[p].ver \in Nat /\ row[p].status \in Search!Statuses
         /\ \A i \in Search!Indices, p \in Listed :
              /\ index[i] \in IndexStates /\ index[i].doc[p] \in Docs
              /\ index[i].doc[p].ver \in Nat /\ index[i].doc[p].name \in Nat /\ index[i].doc[p].shown \in BOOLEAN
         /\ \A w \in Workers : /\ job[w] \in Deliveries /\ job[w].cursor \in Nat /\ job[w].event \in Listed \cup {0}
                               /\ job[w].page \subseteq Snapshots /\ job[w].items \subseteq Copies
         /\ \A r \in Runners : /\ run[r] \in Reindexes /\ run[r].cursor \in Nat /\ run[r].own \in Search!Indices
                               /\ run[r].page \subseteq Snapshots /\ run[r].serving \subseteq Search!Indices
                               /\ run[r].doomed \subseteq Search!Indices
<1>1. \A p \in Listed : row[p] \in [ver : Nat, status : Search!Statuses]
  BY DEF SearchTypes
<1>2. \A i \in Search!Indices, p \in Listed : index[i] \in IndexStates /\ index[i].doc[p] \in Docs
  BY DEF SearchTypes, IndexStates
<1>3. \A w \in Workers : job[w] \in Deliveries
  BY DEF SearchTypes
<1>4. \A r \in Runners : run[r] \in Reindexes
  BY DEF SearchTypes
<1>5. \A i \in Search!Indices, p \in Listed :
        index[i].doc[p].ver \in Nat /\ index[i].doc[p].name \in Nat /\ index[i].doc[p].shown \in BOOLEAN
  BY <1>2 DEF Docs
<1>6. \A w \in Workers : /\ job[w].cursor \in Nat /\ job[w].event \in Listed \cup {0}
                         /\ job[w].page \subseteq Snapshots /\ job[w].items \subseteq Copies
  BY <1>3 DEF Deliveries
<1>7. \A r \in Runners : /\ run[r].cursor \in Nat /\ run[r].own \in Search!Indices /\ run[r].page \subseteq Snapshots
                         /\ run[r].serving \subseteq Search!Indices /\ run[r].doomed \subseteq Search!Indices
  BY <1>4 DEF Reindexes
<1> QED
  BY <1>1, <1>2, <1>3, <1>4, <1>5, <1>6, <1>7

(* A row only gets newer, a rename that is over for a product has raised its version, and an archive   *)
(* strands what was public of the category.                                                            *)
RowsMove ==
  /\ \A p \in Listed : row'[p].ver \in Nat /\ (row'[p] = row[p] \/ row'[p].ver > row[p].ver)
  /\ \A p \in Listed : Renaming(p) => Renaming(p)' \/ row'[p].ver > row[p].ver \/ row'[p].ver = 0
  /\ \/ category' = category
     \/ /\ category'.name = category.name \/ \A p \in Listed : Renaming(p)'
        /\ category.stranded \subseteq category'.stranded
        /\ \A p \in Listed :
             row'[p] = row[p] =>
               (Search!Public(row, p)' <=> Search!Public(row, p)) \/ <<p, row[p].ver>> \in category'.stranded

LEMMA ShowsKept ==
  ASSUME SearchTypes, RowsMove, NEW p \in Listed, NEW x, x.ver \in Nat, Shows(p, x)
  PROVE  Shows(p, x)'
<1>1. row[p].ver \in Nat
  BY SearchFields
<1>2. CASE row'[p] = row[p]
  <2>1. x.ver <= row'[p].ver
    BY <1>2 DEF Shows
  <2>2. ASSUME row'[p].ver > 0, x.ver = row'[p].ver
        PROVE  /\ (x.shown <=> Search!Public(row, p)') \/ <<p, x.ver>> \in category'.stranded
               /\ Renaming(p)' \/ x.name = category'.name
    <3>1. /\ (x.shown <=> Search!Public(row, p)) \/ <<p, x.ver>> \in category.stranded
          /\ Renaming(p) \/ x.name = category.name
      BY <1>2, <2>2 DEF Shows
    <3>2. Renaming(p) => Renaming(p)'
      BY <1>1, <1>2, <2>2 DEF RowsMove
    <3>3. CASE category' = category
      <4>1. Search!Public(row, p)' <=> Search!Public(row, p)
        BY <1>2, <3>3 DEF Search!Public
      <4> QED
        BY <3>1, <3>2, <3>3, <4>1
    <3>4. CASE category' # category
      <4>1. (Search!Public(row, p)' <=> Search!Public(row, p)) \/ <<p, x.ver>> \in category'.stranded
        BY <1>2, <2>2, <3>4 DEF RowsMove
      <4>2. /\ category.stranded \subseteq category'.stranded
            /\ category'.name = category.name \/ Renaming(p)'
        BY <3>4 DEF RowsMove
      <4> QED
        BY <3>1, <3>2, <4>1, <4>2
    <3> QED
      BY <3>3, <3>4
  <2> QED
    BY <2>1, <2>2 DEF Shows
<1>3. CASE row'[p].ver > row[p].ver
  BY <1>1, <1>3 DEF Shows, RowsMove
<1> QED
  BY <1>2, <1>3 DEF RowsMove

(* Where the rows, the pending names and the deliveries are left alone. *)
LEMMA RowsStay ==
  ASSUME SearchTypes, UNCHANGED <<row, category, events, job>>
  PROVE  RowsMove /\ \A p \in Listed : (Renaming(p)' <=> Renaming(p)) /\ \A w \in Workers : \A i : Sends(w, p, i)' <=> Sends(w, p, i)
<1>1. \A p \in Listed : (Renaming(p)' <=> Renaming(p)) /\ \A w \in Workers : \A i : Sends(w, p, i)' <=> Sends(w, p, i)
  BY DEF Renaming, Sends
<1>2. \A p \in Listed : row[p].ver \in Nat
  BY SearchFields
<1> QED
  BY <1>1, <1>2 DEF RowsMove

AliasesStay ==
  \A i \in Search!Indices : index'[i].state = index[i].state /\ index'[i].aliases = index[i].aliases

LEMMA HoldingStays ==
  ASSUME AliasesStay
  PROVE  /\ Search!Holding("products")' = Search!Holding("products")
         /\ Search!Holding("rebuilding")' = Search!Holding("rebuilding")
  BY DEF AliasesStay, Search!Holding, Search!There, Search!Indices

LEMMA OneAliasStays ==
  ASSUME OneAlias, AliasesStay
  PROVE  OneAlias'
<1>1. \A i \in Search!Indices : /\ index'[i].aliases \in {{}, {"products"}, {"rebuilding"}}
                                /\ index'[i].state # "there" => index'[i].aliases = {}
  BY DEF OneAlias, AliasesStay
<1> QED
  BY <1>1, HoldingStays DEF OneAlias

(* The indices that writes are sent to. *)
Live == Search!Holding("products") \cup Search!Holding("rebuilding")

(* No index is ahead of a row. *)
LEMMA NeverAhead ==
  ASSUME SearchInv
  PROVE  \A i \in Search!Indices, p \in Listed : index[i].doc[p].ver <= row[p].ver
BY Zenon DEF SearchInv, AllShow, Shows

(* Where runs and aliases are left alone, what is current stays so, and a row that was raised is.      *)
LEMMA LiveStays ==
  ASSUME SearchInv, AliasesStay, UNCHANGED <<run, swap>>,
         \A p \in Listed, i \in Live : Current(p, i) => Current(p, i)',
         \A p \in Listed : row'[p].ver = row[p].ver \/ \A i \in Live : Current(p, i)'
  PROVE  OneAlias' /\ RunsKnow' /\ Serving' /\ Rebuilt'
<1>1. OneAlias'
  BY OneAliasStays DEF SearchInv
<1>2. RunsKnow'
  <2>1. \A r \in Runners : run[r].own \in Search!Indices /\ run[r].doomed \subseteq Search!Indices
    BY SearchFields DEF SearchInv
  <2>2. \A s \in swap : s.own \in Search!Indices
    BY DEF SearchInv, SearchTypes
  <2>3. ASSUME NEW r \in Runners PROVE Knows(run[r])'
    <3>1. Knows(run[r])
      BY DEF SearchInv, RunsKnow
    <3>2. /\ run[r].pc \in Building => index'[run[r].own].state # "unused"
          /\ run[r].pc = "delete" => \A i \in run[r].doomed : index'[i].state # "unused" /\ index'[i].aliases = {}
      BY <2>1, <3>1 DEF Knows, AliasesStay
    <3> QED
      BY <3>1, <3>2 DEF Knows
  <2>4. \A s \in swap : index'[s.own].state # "unused" /\ s.serving # {}
    BY <2>2 DEF SearchInv, RunsKnow, AliasesStay
  <2> QED
    BY <2>3, <2>4 DEF RunsKnow
<1>3. Serving'
  BY HoldingStays DEF SearchInv, Serving, Live
<1>4. ASSUME NEW r \in Runners PROVE Filled(run[r])'
  <2>1. PICK x : x = run[r]
    OBVIOUS
  <2>2. Filled(x)
    BY <2>1 DEF SearchInv, Rebuilt
  <2>3. SUFFICES Filled(x)'
    BY <2>1
  <2> SUFFICES ASSUME x.own \in Search!Holding("rebuilding"), NEW p \in Listed
               PROVE  /\ x.pc = "page" => p > x.cursor \/ Current(p, x.own)'
                      /\ x.pc = "fill" =>
                           \/ Current(p, x.own)'
                           \/ ~(Search!Cardinality(x.page) < PageSize) /\ p > x.cursor
                           \/ \E s \in x.page : s.id = p /\ s.ver = row'[p].ver
                      /\ x.pc \in {"promote", "swap"} => Current(p, x.own)'
    BY HoldingStays DEF Filled
  <2>4. Current(p, x.own) => Current(p, x.own)'
    BY DEF Live
  <2>5. row'[p].ver = row[p].ver \/ Current(p, x.own)'
    BY DEF Live
  <2> QED
    BY <2>2, <2>4, <2>5 DEF Filled
<1>5. \A s \in swap' : s.own \in Search!Holding("rebuilding")' => \A p \in Listed : Current(p, s.own)'
  BY HoldingStays DEF SearchInv, Rebuilt, Live
<1> QED
  BY <1>1, <1>2, <1>3, <1>4, <1>5 DEF Rebuilt

(* Deliveries and runs whose pages are left alone keep them. *)
PagesStay ==
  /\ \A w \in Workers : job'[w].page \subseteq job[w].page /\ job'[w].items \subseteq job[w].items
  /\ late' \subseteq late
  /\ \A r \in Runners : run'[r].page \subseteq run[r].page

LEMMA PagesKeepShowing ==
  ASSUME SearchInv, RowsMove, PagesStay
  PROVE  /\ \A w \in Workers : (\A s \in job'[w].page : Shows(s.id, s)') /\ (\A c \in job'[w].items : Shows(c.id, c)')
         /\ \A c \in late' : Shows(c.id, c)'
         /\ \A r \in Runners : \A s \in run'[r].page : Shows(s.id, s)'
<1>1. \A s \in Snapshots : s.id \in Listed /\ s.ver \in Nat
  BY DEF Snapshots
<1>2. \A c \in Copies : c.id \in Listed /\ c.ver \in Nat
  BY DEF Copies
<1>3. SearchTypes /\ AllShow
  BY DEF SearchInv
<1>4. /\ \A w \in Workers : job[w].page \subseteq Snapshots /\ job[w].items \subseteq Copies
      /\ late \subseteq Copies /\ \A r \in Runners : run[r].page \subseteq Snapshots
  BY <1>3, SearchFields DEF SearchTypes
<1>5. ASSUME NEW w \in Workers
      PROVE  (\A s \in job'[w].page : Shows(s.id, s)') /\ (\A c \in job'[w].items : Shows(c.id, c)')
  <2>1. ASSUME NEW s \in job'[w].page PROVE Shows(s.id, s)'
    <3>1. s \in job[w].page /\ s.id \in Listed /\ s.ver \in Nat
      BY <1>1, <1>4 DEF PagesStay
    <3>2. Shows(s.id, s)
      BY <1>3, <3>1 DEF AllShow
    <3> QED
      BY <1>3, <3>1, <3>2, ShowsKept
  <2>2. ASSUME NEW c \in job'[w].items PROVE Shows(c.id, c)'
    <3>1. c \in job[w].items /\ c.id \in Listed /\ c.ver \in Nat
      BY <1>2, <1>4 DEF PagesStay
    <3>2. Shows(c.id, c)
      BY <1>3, <3>1 DEF AllShow
    <3> QED
      BY <1>3, <3>1, <3>2, ShowsKept
  <2> QED
    BY <2>1, <2>2
<1>6. ASSUME NEW c \in late' PROVE Shows(c.id, c)'
  <2>1. c \in late /\ c.id \in Listed /\ c.ver \in Nat
    BY <1>2, <1>4 DEF PagesStay
  <2>2. Shows(c.id, c)
    BY <1>3, <2>1 DEF AllShow
  <2> QED
    BY <1>3, <2>1, <2>2, ShowsKept
<1>7. ASSUME NEW r \in Runners, NEW s \in run'[r].page PROVE Shows(s.id, s)'
  <2>1. s \in run[r].page /\ s.id \in Listed /\ s.ver \in Nat
    BY <1>1, <1>4 DEF PagesStay
  <2>2. Shows(s.id, s)
    BY <1>3, <2>1 DEF AllShow
  <2> QED
    BY <1>3, <2>1, <2>2, ShowsKept
<1> QED
  BY <1>5, <1>6, <1>7

LEMMA DocsKeepShowing ==
  ASSUME SearchInv, RowsMove, NEW i \in Search!Indices, NEW p \in Listed, index'[i].doc[p] = index[i].doc[p]
  PROVE  Shows(p, index[i].doc[p])'
<1>0. PICK d : d = index[i].doc[p]
  OBVIOUS
<1>1. d.ver \in Nat /\ Shows(p, d)
  BY <1>0, SearchFields DEF SearchInv, AllShow
<1>2. Shows(p, d)'
  BY <1>1, ShowsKept DEF SearchInv
<1>3. index'[i].doc[p] = d
  BY <1>0
<1> QED
  BY <1>2, <1>3 DEF Shows

(* A step of one delivery, or of a late item: what the deliveries become, the rows they raise and the  *)
(* documents they write.                                                                               *)
LEMMA DeliveriesMove ==
  ASSUME SearchInv, SearchTypes', RowsMove, AliasesStay, UNCHANGED <<run, swap>>,
         \A x \in Workers : \/ job'[x] = job[x]
                            \/ /\ Fitting(job'[x])
                               /\ (\A s \in job'[x].page : Shows(s.id, s)') /\ (\A c \in job'[x].items : Shows(c.id, c)'),
         \A c \in late' : c \in late \/ \E x \in Workers : c \in job[x].items,
         \A i \in Search!Indices, p \in Listed :
           index'[i].doc[p] = index[i].doc[p] \/ Shows(p, index[i].doc[p])',
         \A p \in Listed, i \in Live : Current(p, i) => Current(p, i)',
         \A p \in Listed : row'[p].ver = row[p].ver \/ \A i \in Live : Current(p, i)'
  PROVE  SearchInv'
<1>1. OneAlias' /\ RunsKnow' /\ Serving' /\ Rebuilt'
  BY LiveStays
<1>2. PagesFit'
  <2>1. \A x \in Workers : Fitting(job'[x])
    BY DEF SearchInv, PagesFit
  <2>2. \A x \in Workers : Fitting(job[x])'
    BY <2>1 DEF Fitting
  <2>3. \A r \in Runners : Once(run[r].page)'
    BY DEF SearchInv, PagesFit, Once
  <2> QED
    BY <2>2, <2>3 DEF PagesFit
<1>3. /\ SearchTypes /\ AllShow
      /\ \A w \in Workers : job[w].page \subseteq Snapshots /\ job[w].items \subseteq Copies
      /\ late \subseteq Copies /\ \A r \in Runners : run[r].page \subseteq Snapshots
  BY SearchFields DEF SearchInv, SearchTypes
<1>4. ASSUME NEW s \in Snapshots, Shows(s.id, s) PROVE Shows(s.id, s)'
  BY <1>3, <1>4, ShowsKept DEF Snapshots
<1>5. ASSUME NEW c \in Copies, Shows(c.id, c) PROVE Shows(c.id, c)'
  BY <1>3, <1>5, ShowsKept DEF Copies
<1>6. \A i \in Search!Indices, p \in Listed : Shows(p, index[i].doc[p])'
  BY DocsKeepShowing
<1>7. ASSUME NEW x \in Workers
      PROVE  (\A s \in job'[x].page : Shows(s.id, s)') /\ (\A c \in job'[x].items : Shows(c.id, c)')
  <2>1. CASE job'[x] = job[x]
    BY <1>3, <1>4, <1>5, <2>1 DEF AllShow
  <2> QED
    BY <2>1
<1>8. \A c \in late' : Shows(c.id, c)'
  BY <1>3, <1>5 DEF AllShow
<1>9. \A r \in Runners : \A s \in run'[r].page : Shows(s.id, s)'
  BY <1>3, <1>4 DEF AllShow
<1>10. AllShow'
  BY <1>6, <1>7, <1>8, <1>9 DEF AllShow
<1> QED
  BY <1>1, <1>2, <1>10 DEF SearchInv

-----------------------------------------------------------------------------
(* The writes of the catalog. *)

(* An archive strands the products it does not know to be active. *)
LEMMA ArchivesStrand ==
  ASSUME SearchTypes, Search!CountProducts \/ Search!ArchiveCategory
  PROVE  /\ category' \in Archiving /\ category'.name = category.name /\ category.stranded \subseteq category'.stranded
         /\ \A p \in Listed : (Search!Public(row, p)' <=> Search!Public(row, p)) \/ <<p, row[p].ver>> \in category'.stranded
<1> USE DEF Archiving
<1>1. category \in Archiving /\ UNCHANGED row /\ \A p \in Listed : row[p].ver \in Nat
  BY SearchFields DEF SearchTypes, Search!CountProducts, Search!ArchiveCategory
<1>2. CASE Search!CountProducts
  <2>1. category.state = "live" /\ category' = [category EXCEPT !.state = "counted"]
    BY <1>2 DEF Search!CountProducts
  <2>2. /\ category' \in Archiving /\ category'.name = category.name /\ category'.stranded = category.stranded
        /\ category'.state = "counted"
    BY <1>1, <2>1
  <2> QED
    BY <1>1, <2>1, <2>2 DEF Search!Public
<1>3. CASE Search!ArchiveCategory
  <2> DEFINE active == {<<p, row[p].ver>> : p \in {p \in Listed : row[p].status = "ACTIVE"}}
  <2>1. category' = [category EXCEPT !.state = "archived", !.stranded = @ \cup active]
    BY <1>3 DEF Search!ArchiveCategory
  <2>2. active \in SUBSET (Listed \X Nat)
    BY <1>1
  <2>3. \A p \in Listed : row[p].status = "ACTIVE" => <<p, row[p].ver>> \in active
    OBVIOUS
  <2> HIDE DEF active
  <2>4. /\ category' \in Archiving /\ category'.name = category.name /\ category'.stranded = category.stranded \cup active
        /\ category'.state = "archived"
    BY <1>1, <2>1, <2>2
  <2> QED
    BY <1>1, <2>3, <2>4 DEF Search!Public
<1> QED
  BY <1>2, <1>3

(* One product is written, or the category is renamed, and its event appended; or it is archived. *)
LEMMA WritesKeepSearch ==
  ASSUME SearchInv,
         \/ \E p \in Listed : Search!CreateProduct(p) \/ Search!EditProduct(p)
         \/ Search!RenameCategory \/ Search!CountProducts \/ Search!ArchiveCategory
  PROVE  SearchInv'
<1>1. /\ UNCHANGED <<job, late, index, swap, run>>
      /\ events \subseteq events'
      /\ \/ \E p \in Listed : \E status \in Search!Statuses :
              /\ row' = [row EXCEPT ![p] = [ver |-> @.ver + 1, status |-> status]]
              /\ category' = category /\ p \in events' /\ events' = events \cup {p}
         \/ /\ row' = row /\ category' = [category EXCEPT !.name = @ + 1]
            /\ 0 \in events' /\ events' = events \cup {0}
         \/ row' = row /\ events' = events /\ (Search!CountProducts \/ Search!ArchiveCategory)
  BY DEF Search!CreateProduct, Search!EditProduct, Search!RenameCategory, Search!CountProducts, Search!ArchiveCategory,
         Search!Written, Search!Spend
<1>2. SearchTypes /\ \A p \in Listed : row[p] \in [ver : Nat, status : Search!Statuses]
  BY DEF SearchInv, SearchTypes
<1>3. \A p \in Listed : /\ row'[p] \in [ver : Nat, status : Search!Statuses]
                        /\ row'[p] = row[p] \/ (row'[p].ver > row[p].ver /\ p \in events')
  BY <1>1, <1>2 DEF SearchTypes
<1>4. SearchTypes'
  <2>1. row' \in [Listed -> [ver : Nat, status : Search!Statuses]]
    BY <1>1, <1>2, <1>3 DEF SearchTypes
  <2>2. category' \in Archiving
    <3>1. category \in Archiving
      BY <1>2 DEF SearchTypes
    <3>2. category' = category \/ category' = [category EXCEPT !.name = @ + 1] \/ category' \in Archiving
      BY <1>1, <1>2, ArchivesStrand
    <3> QED
      BY <3>1, <3>2 DEF Archiving
  <2>3. events' \subseteq Listed \cup {0}
    BY <1>1, <1>2 DEF SearchTypes
  <2> QED
    BY <1>1, <1>2, <2>1, <2>2, <2>3 DEF SearchTypes
<1>5. \A p : Renaming(p) => Renaming(p)'
  BY <1>1 DEF Renaming
<1>6. \/ category' = category
      \/ /\ category'.name = category.name \/ \A p : Renaming(p)'
         /\ category.stranded \subseteq category'.stranded
         /\ \A p \in Listed :
              row'[p] = row[p] =>
                (Search!Public(row, p)' <=> Search!Public(row, p)) \/ <<p, row[p].ver>> \in category'.stranded
  <2>1. CASE category' = [category EXCEPT !.name = @ + 1] /\ 0 \in events' /\ row' = row
    <3>1. category'.state = category.state /\ category'.stranded = category.stranded
      BY <1>2, <2>1 DEF SearchTypes, Archiving
    <3>2. \A p : Renaming(p)'
      BY <2>1 DEF Renaming
    <3>3. \A p \in Listed : Search!Public(row, p)' <=> Search!Public(row, p)
      BY <2>1, <3>1 DEF Search!Public
    <3> QED
      BY <3>1, <3>2, <3>3
  <2>2. CASE Search!CountProducts \/ Search!ArchiveCategory
    BY <1>2, <2>2, ArchivesStrand
  <2> QED
    BY <1>1, <2>1, <2>2
<1>7. RowsMove
  <2>1. \A p \in Listed : row'[p].ver \in Nat /\ (row'[p] = row[p] \/ row'[p].ver > row[p].ver)
    BY <1>3
  <2> QED
    BY <1>5, <1>6, <2>1 DEF RowsMove
<1>8. \A p \in Listed : \A i : Current(p, i) => Current(p, i)'
  <2> SUFFICES ASSUME NEW p \in Listed, NEW i, Current(p, i) PROVE Current(p, i)'
    OBVIOUS
  <2>1. CASE p \in events'
    BY <2>1 DEF Current
  <2>2. CASE row'[p] = row[p]
    <3>1. \A w \in Workers : Sends(w, p, i) => Sends(w, p, i)'
      BY <1>1, <2>2 DEF Sends
    <3> QED
      BY <1>1, <1>5, <2>2, <3>1 DEF Current
  <2> QED
    BY <1>3, <2>1, <2>2
<1>9. \A p \in Listed : row'[p].ver = row[p].ver \/ \A i \in Live : Current(p, i)'
  BY <1>3 DEF Current
<1>10. OneAlias' /\ RunsKnow' /\ Serving' /\ Rebuilt'
  BY <1>1, <1>8, <1>9, LiveStays DEF AliasesStay
<1>11. PagesFit'
  BY <1>1 DEF SearchInv, PagesFit
<1>12. AllShow'
  <2>1. PagesStay
    BY <1>1 DEF PagesStay
  <2>2. \A i \in Search!Indices, p \in Listed : Shows(p, index[i].doc[p])'
    BY <1>1, <1>7, DocsKeepShowing
  <2> QED
    BY <1>7, <2>1, <2>2, PagesKeepShowing DEF AllShow
<1> QED
  BY <1>4, <1>10, <1>11, <1>12 DEF SearchInv

-----------------------------------------------------------------------------
(* Pages of rows *)

(* The instance counts as this module does. *)
LEMMA PageCounts == \A S : Search!Cardinality(S) = Cardinality(S)
  BY DEF Search!Cardinality, Cardinality

LEMMA ListedIs == Listed \subseteq Nat \ {0} /\ PageSize \in Nat \ {0} /\ IsFiniteSet(Listed) /\ Bootstrap \notin Fresh
  BY SearchAssumption DEF Search!CatalogAssumption

LEMMA LeastOf ==
  ASSUME NEW T \in SUBSET Nat, T # {}
  PROVE  \E v \in T : \A u \in T : v <= u
<1> DEFINE R == OpToRel(<, Nat)
<1>1. \E v \in T : \A u \in T : ~(<<u, v>> \in R)
  <2> HIDE DEF R
  <2>1. IsWellFoundedOn(R, Nat)
    BY NatLessThanWellFounded DEF R
  <2> QED BY <2>1, WFMin
<1>2. PICK v \in T : \A u \in T : ~(<<u, v>> \in R)
  BY <1>1
<1>3. \A u \in T : ~(u < v)
  BY <1>2 DEF OpToRel
<1> QED BY <1>3

LEMMA GreatestListed ==
  ASSUME NEW S \in SUBSET Listed, S # {}
  PROVE  Search!Max(S) \in S /\ \A y \in S : y <= Search!Max(S)
<1> DEFINE Above(x) == {y \in S : y > x}
           Sizes == {Cardinality(Above(x)) : x \in S}
<1>1. S \subseteq Nat /\ IsFiniteSet(S)
  BY ListedIs, FS_Subset
<1>2. \A x \in S : IsFiniteSet(Above(x)) /\ Cardinality(Above(x)) \in Nat
  <2> SUFFICES ASSUME NEW x \in S PROVE IsFiniteSet(Above(x)) /\ Cardinality(Above(x)) \in Nat
    OBVIOUS
  <2>1. Above(x) \in SUBSET S
    OBVIOUS
  <2>2. IsFiniteSet(Above(x))
    BY <1>1, <2>1, FS_Subset
  <2> QED
    BY <2>2, FS_CardinalityType
<1>3. Sizes \in SUBSET Nat /\ Sizes # {}
  BY <1>2
<1>4. PICK n \in Sizes : \A m \in Sizes : n <= m
  BY <1>3, LeastOf
<1>5. PICK x \in S : n = Cardinality(Above(x))
  BY <1>4
<1>6. ASSUME NEW y \in S, y > x PROVE FALSE
  <2>1. Above(y) \in SUBSET Above(x)
    <3>1. \A u \in S : u > y => u > x
      BY <1>1, <1>6
    <3> QED
      BY <3>1
  <2>2. y \in Above(x) /\ y \notin Above(y)
    BY <1>1, <1>6
  <2>3. Cardinality(Above(y)) <= Cardinality(Above(x)) /\ Cardinality(Above(y)) # Cardinality(Above(x))
    <3> HIDE DEF Above
    <3> QED
      BY <1>2, <2>1, <2>2, FS_Subset
  <2>4. Cardinality(Above(y)) \in Sizes
    OBVIOUS
  <2> HIDE DEF Sizes, Above
  <2> QED
    BY <1>2, <1>4, <1>5, <2>3, <2>4
<1>7. \E z \in S : \A y \in S : z >= y
  BY <1>1, <1>5, <1>6
<1>8. PICK z \in S : z = Search!Max(S) /\ \A y \in S : z >= y
  BY <1>7 DEF Search!Max
<1> QED
  BY <1>1, <1>8

(* A page has the existing rows up to its last; rows it leaves out make it a full one. *)
LEMMA PageIs ==
  ASSUME SearchTypes, NEW cursor \in Nat, NEW ids, ids = Search!PageAfter(cursor)
  PROVE  /\ ids \in SUBSET Listed /\ IsFiniteSet(ids)
         /\ \A p \in ids : row[p].ver > 0 /\ p > cursor
         /\ ids # {} => /\ Search!Max(ids) \in ids
                        /\ \A p \in Listed : row[p].ver > 0 /\ p > cursor /\ p <= Search!Max(ids) => p \in ids
         /\ \A p \in Listed : row[p].ver > 0 /\ p > cursor /\ p \notin ids => ids # {} /\ Cardinality(ids) >= PageSize
<1> DEFINE after == {p \in Listed : row[p].ver > 0 /\ p > cursor}
           Before(p) == {q \in after : q < p}
<1>1. ids = {p \in after : Cardinality(Before(p)) < PageSize}
  BY PageCounts DEF Search!PageAfter, Search!Exists
<1>2. after \in SUBSET Listed /\ IsFiniteSet(after) /\ after \subseteq Nat
  BY ListedIs, FS_Subset
<1>3. ids \in SUBSET Listed /\ IsFiniteSet(ids)
  BY <1>1, <1>2, ListedIs, FS_Subset
<1>4. \A p : Before(p) \in SUBSET after /\ IsFiniteSet(Before(p)) /\ Cardinality(Before(p)) \in Nat
  <2> SUFFICES ASSUME NEW p PROVE Before(p) \in SUBSET after /\ IsFiniteSet(Before(p)) /\ Cardinality(Before(p)) \in Nat
    OBVIOUS
  <2>1. Before(p) \in SUBSET after
    OBVIOUS
  <2>2. IsFiniteSet(Before(p))
    BY <1>2, <2>1, FS_Subset
  <2> QED
    BY <2>1, <2>2, FS_CardinalityType
<1>5. ASSUME ids # {}, NEW p \in Listed, row[p].ver > 0, p > cursor, p <= Search!Max(ids)
      PROVE  p \in ids
  <2>1. PICK m \in ids : m = Search!Max(ids)
    BY <1>3, <1>5, GreatestListed
  <2>2. m \in Nat /\ p \in Nat /\ p <= m /\ Cardinality(Before(m)) < PageSize
    BY <1>1, <1>2, <1>5, <2>1, ListedIs
  <2>3. Before(p) \in SUBSET Before(m)
    BY <1>2, <2>2
  <2>4. Cardinality(Before(p)) <= Cardinality(Before(m))
    BY <1>4, <2>3, FS_Subset
  <2>5. p \in after
    BY <1>5
  <2> HIDE DEF after, Before
  <2> QED
    BY <1>1, <1>4, <2>2, <2>4, <2>5, ListedIs
<1>6. ASSUME NEW p \in Listed, row[p].ver > 0, p > cursor, p \notin ids
      PROVE  ids # {} /\ Cardinality(ids) >= PageSize
  <2> DEFINE out == {q \in after : q \notin ids}
  <2>1. out \in SUBSET Nat /\ out # {}
    BY <1>2, <1>6
  <2>2. PICK q \in out : \A u \in out : q <= u
    BY <2>1, LeastOf
  <2>3. Before(q) \in SUBSET ids
    <3>1. ASSUME NEW u \in Before(q) PROVE u \in ids
      BY <1>2, <2>2, <3>1
    <3> QED
      BY <3>1
  <2>4. Cardinality(Before(q)) >= PageSize
    <3>1. ~(Cardinality(Before(q)) < PageSize)
      BY <1>1, <2>2
    <3> HIDE DEF Before
    <3> QED
      BY <1>4, <3>1, ListedIs
  <2>5. Cardinality(Before(q)) <= Cardinality(ids) /\ Cardinality(ids) \in Nat
    BY <1>3, <2>3, FS_Subset, FS_CardinalityType
  <2>6. Cardinality(ids) >= PageSize
    <3> HIDE DEF Before
    <3> QED
      BY <1>4, <2>4, <2>5, ListedIs
  <2> QED
    BY <2>6, FS_EmptySet, ListedIs
<1>7. \A p \in ids : row[p].ver > 0 /\ p > cursor
  BY <1>1
<1> QED
  BY <1>3, <1>5, <1>6, <1>7, GreatestListed

(* A page has a snapshot for each of its rows. *)
LEMMA PageSizes ==
  ASSUME NEW ids, IsFiniteSet(ids), NEW f, \A p \in ids : f[p].id = p
  PROVE  Cardinality({f[p] : p \in ids}) = Cardinality(ids)
<1> DEFINE page == {f[p] : p \in ids}
           g == [p \in ids |-> f[p]]
           h == [s \in page |-> s.id]
<1>1. g \in Surjection(ids, page)
  BY DEF Surjection
<1>2. IsFiniteSet(page) /\ Cardinality(page) <= Cardinality(ids)
  BY <1>1, FS_Surjection
<1>3. h \in Surjection(page, ids)
  BY DEF Surjection
<1>4. Cardinality(ids) <= Cardinality(page)
  BY <1>2, <1>3, FS_Surjection
<1>5. Cardinality(ids) \in Nat /\ Cardinality(page) \in Nat
  BY <1>2, FS_CardinalityType
<1> HIDE DEF page
<1>6. Cardinality(page) = Cardinality(ids)
  BY <1>2, <1>4, <1>5
<1> QED
  BY <1>6 DEF page

-----------------------------------------------------------------------------
(* Deliveries *)

LEMMA StateOf ==
  ASSUME SearchTypes, NEW rows, NEW p \in Listed, rows[p].ver \in Nat
  PROVE  /\ Search!StateIn(rows, p) \in Snapshots
         /\ Search!StateIn(rows, p).id = p /\ Search!StateIn(rows, p).ver = rows[p].ver
         /\ Search!StateIn(rows, p).name = category.name
         /\ Search!StateIn(rows, p).shown <=> Search!Public(rows, p)
  BY DEF SearchTypes, Archiving, Search!StateIn, Search!Public, Snapshots

(* Where a step is about one delivery: the others send what they sent. *)
LEMMA OthersSend ==
  ASSUME NEW w \in Workers, NEW next, job' = [job EXCEPT ![w] = next], SearchTypes,
         NEW p \in Listed, row'[p].ver = row[p].ver
  PROVE  /\ \A x \in Workers : \A i : x # w /\ Sends(x, p, i) => Sends(x, p, i)'
         /\ \A x \in Workers : x # w => job'[x] = job[x]
         /\ job'[w] = next
<1>1. job'[w] = next /\ \A x \in Workers : x # w => job'[x] = job[x]
  BY DEF SearchTypes
<1> QED
  BY <1>1 DEF Sends

LEMMA TakesKeepSearch ==
  ASSUME SearchInv, NEW w \in Workers, Search!TakeEvent(w)
  PROVE  SearchInv'
<1>1. PICK e \in events :
        /\ job[w].pc = "idle" /\ events' = events \ {e}
        /\ job' = [job EXCEPT ![w] = [Search!IdleJob EXCEPT !.pc = IF e = 0 THEN "bump" ELSE "write", !.event = e,
                                        !.page = IF e = 0 THEN {} ELSE {Search!SearchState(e)}]]
        /\ UNCHANGED <<row, category, late, index, swap, run>>
  BY DEF Search!TakeEvent, Search!Step
<1>2. PICK next : /\ job' = [job EXCEPT ![w] = next] /\ job'[w] = next
                  /\ next = [Search!IdleJob EXCEPT !.pc = IF e = 0 THEN "bump" ELSE "write", !.event = e,
                                !.page = IF e = 0 THEN {} ELSE {Search!SearchState(e)}]
  BY <1>1 DEF SearchInv, SearchTypes
<1>3. /\ job'[w] = next /\ next.pc = (IF e = 0 THEN "bump" ELSE "write") /\ next.event = e /\ next.cursor = 0 /\ next.items = {}
      /\ next.page = IF e = 0 THEN {} ELSE {Search!SearchState(e)}
  BY <1>2 DEF Search!IdleJob
<1>4. SearchTypes /\ e \in Listed \cup {0}
  BY <1>1 DEF SearchInv, SearchTypes
<1>5. e # 0 => /\ e \in Listed /\ Search!SearchState(e) \in Snapshots /\ Search!SearchState(e).id = e
               /\ Search!SearchState(e).ver = row[e].ver /\ Search!SearchState(e).name = category.name
               /\ Search!SearchState(e).shown <=> Search!Public(row, e)
  BY <1>4, StateOf, SearchFields DEF Search!SearchState
<1>6. next \in Deliveries
  BY <1>2, <1>4, <1>5 DEF Deliveries, Search!IdleJob
<1>7. SearchTypes'
  BY <1>1, <1>2, <1>4, <1>6 DEF SearchTypes
<1>8. \A x \in Workers : x # w => job'[x] = job[x]
  BY <1>1, <1>4 DEF SearchTypes
<1>9. \A p \in Listed : Renaming(p) => Renaming(p)'
  <2> SUFFICES ASSUME NEW p \in Listed, Renaming(p) PROVE Renaming(p)'
    OBVIOUS
  <2>1. CASE 0 \in events
    <3>1. CASE e = 0
      <4>1. job'[w].pc = "bump" /\ job'[w].event = 0 /\ job'[w].cursor = 0 /\ 0 < p
        BY <1>3, <3>1, ListedIs
      <4> QED
        BY <4>1 DEF Renaming
    <3>2. CASE e # 0
      BY <1>1, <2>1, <3>2 DEF Renaming
    <3> QED
      BY <3>1, <3>2
  <2>2. CASE \E x \in Workers : job[x].pc # "idle" /\ job[x].event = 0 /\ job[x].cursor < p
    BY <1>1, <1>8, <2>2 DEF Renaming
  <2> QED
    BY <2>1, <2>2 DEF Renaming
<1>10. RowsMove
  BY <1>1, <1>4, <1>9, SearchFields DEF RowsMove
<1>11. \A p \in Listed : \A i : Current(p, i) => Current(p, i)'
  <2> SUFFICES ASSUME NEW p \in Listed, NEW i, Current(p, i) PROVE Current(p, i)'
    OBVIOUS
  <2>1. CASE p \in events
    <3>1. CASE p = e
      <4>1. Sends(w, p, i)'
        BY <1>1, <1>3, <1>5, <3>1, ListedIs DEF Sends
      <4> QED
        BY <4>1 DEF Current
    <3>2. CASE p # e
      BY <1>1, <2>1, <3>2 DEF Current
    <3> QED
      BY <3>1, <3>2
  <2>2. CASE \E x \in Workers : Sends(x, p, i)
    <3>1. PICK x \in Workers : Sends(x, p, i)
      BY <2>2
    <3>2. x # w
      BY <1>1, <3>1 DEF Sends
    <3>3. Sends(x, p, i)'
      BY <1>1, <1>8, <3>1, <3>2 DEF Sends
    <3> QED
      BY <3>3 DEF Current
  <2> QED
    BY <1>1, <1>9, <2>1, <2>2 DEF Current
<1>12. Fitting(next)
  BY <1>3, <1>5 DEF Fitting
<1>13. (\A s \in next.page : Shows(s.id, s)') /\ (\A c \in next.items : Shows(c.id, c)')
  <2> SUFFICES ASSUME NEW s \in next.page PROVE Shows(s.id, s)'
    BY <1>3
  <2>1. e # 0 /\ s = Search!SearchState(e)
    BY <1>3
  <2> QED
    BY <1>1, <1>4, <1>5, <2>1, SearchFields DEF Shows, Search!Public
<1>14. \A x \in Workers : \/ job'[x] = job[x]
                          \/ /\ Fitting(job'[x])
                             /\ (\A s \in job'[x].page : Shows(s.id, s)') /\ (\A c \in job'[x].items : Shows(c.id, c)')
  BY <1>2, <1>8, <1>12, <1>13
<1> QED
  BY <1>1, <1>7, <1>10, <1>11, <1>14, DeliveriesMove DEF AliasesStay, Live, Search!Holding

LEMMA SendsKeepSearch ==
  ASSUME SearchInv, NEW w \in Workers, Search!SendWrite(w)
  PROVE  SearchInv'
<1>1. PICK next :
        /\ next = [job[w] EXCEPT !.pc = "apply", !.page = {},
                                 !.items = Search!Items(job[w].page, Search!LiveTargets)]
        /\ job' = [job EXCEPT ![w] = next]
        /\ job[w].pc = "write" /\ UNCHANGED <<row, category, events, late, index, swap, run>>
  BY DEF Search!SendWrite, Search!Step
<1>2. /\ SearchTypes /\ job[w] \in Deliveries /\ job[w].page \subseteq Snapshots
      /\ Fitting(job[w]) /\ \A s \in job[w].page : Shows(s.id, s)
  BY SearchFields DEF SearchInv, PagesFit, AllShow
<1>3. /\ job'[w] = next /\ next.pc = "apply" /\ next.page = {} /\ next.event = job[w].event
      /\ next.cursor = job[w].cursor /\ next.items = Search!Items(job[w].page, Search!LiveTargets)
      /\ \A x \in Workers : x # w => job'[x] = job[x]
  BY <1>1, <1>2 DEF SearchTypes, Deliveries
<1>4. next.items =
        {[id |-> s.id, ver |-> s.ver, name |-> s.name, shown |-> s.shown, index |-> i] : s \in job[w].page, i \in Live}
  BY <1>3 DEF Search!Items, Search!LiveTargets, Live
<1>5. \A c \in next.items : /\ c \in Copies
                            /\ \E s \in job[w].page : c.id = s.id /\ c.ver = s.ver /\ c.name = s.name /\ c.shown = s.shown
  BY <1>2, <1>4 DEF Snapshots, Copies, Live, Search!Holding
<1>6. next \in Deliveries
  <2> DEFINE sent == Search!Items(job[w].page, Search!LiveTargets)
  <2>1. sent \in SUBSET Copies /\ next = [job[w] EXCEPT !.pc = "apply", !.page = {}, !.items = sent]
    BY <1>1, <1>3, <1>5
  <2> HIDE DEF sent
  <2> QED
    BY <1>2, <2>1 DEF Deliveries
<1>7. SearchTypes'
  BY <1>1, <1>2, <1>6 DEF SearchTypes
<1>8. \A p : Renaming(p) => Renaming(p)'
  BY <1>1, <1>3 DEF Renaming
<1>9. RowsMove
  BY <1>1, <1>2, <1>8, SearchFields DEF RowsMove
<1>10. \A p \in Listed, i \in Live : Current(p, i) => Current(p, i)'
  <2> SUFFICES ASSUME NEW p \in Listed, NEW i \in Live, Current(p, i) PROVE Current(p, i)'
    OBVIOUS
  <2>1. CASE Sends(w, p, i)
    <3>1. PICK s \in job[w].page : s.id = p /\ s.ver = row[p].ver
      BY <1>1, <2>1 DEF Sends
    <3>2. PICK c \in next.items : c.id = s.id /\ c.ver = s.ver /\ c.index = i
      <4>1. [id |-> s.id, ver |-> s.ver, name |-> s.name, shown |-> s.shown, index |-> i] \in next.items
        BY <1>4
      <4> QED
        BY <4>1
    <3>3. Sends(w, p, i)'
      BY <1>1, <1>3, <3>1, <3>2 DEF Sends
    <3> QED
      BY <3>3 DEF Current
  <2>2. CASE \E x \in Workers : x # w /\ Sends(x, p, i)
    <3>1. \E x \in Workers : Sends(x, p, i)'
      BY <1>1, <1>3, <2>2 DEF Sends
    <3> QED
      BY <3>1 DEF Current
  <2> QED
    BY <1>1, <1>8, <2>1, <2>2 DEF Current
<1>11. Fitting(next)
  BY <1>1, <1>2, <1>3, <1>5 DEF Fitting
<1>12. \A c \in next.items : Shows(c.id, c)'
  <2> SUFFICES ASSUME NEW c \in next.items PROVE Shows(c.id, c)'
    OBVIOUS
  <2>1. PICK s \in job[w].page : c.id = s.id /\ c.ver = s.ver /\ c.name = s.name /\ c.shown = s.shown
    BY <1>5
  <2>2. Shows(s.id, s) /\ s.id \in Listed /\ s.ver \in Nat
    BY <1>2 DEF Snapshots
  <2>3. Shows(c.id, c)
    BY <2>1, <2>2, Zenon DEF Shows
  <2> QED
    BY <1>2, <1>9, <2>1, <2>2, <2>3, ShowsKept
<1>13. \A x \in Workers : \/ job'[x] = job[x]
                          \/ /\ Fitting(job'[x])
                             /\ (\A s \in job'[x].page : Shows(s.id, s)') /\ (\A c \in job'[x].items : Shows(c.id, c)')
  BY <1>3, <1>11, <1>12
<1> QED
  BY <1>1, <1>7, <1>9, <1>10, <1>13, DeliveriesMove DEF AliasesStay

LEMMA FailuresKeepSearch ==
  ASSUME SearchInv, NEW w \in Workers, Search!DeliveryFails(w)
  PROVE  SearchInv'
<1>1. /\ job' = [job EXCEPT ![w] = Search!IdleJob]
      /\ job[w].pc # "idle" /\ events' = events \cup {job[w].event}
      /\ \E kept \in SUBSET job[w].items : late' = late \cup kept
      /\ UNCHANGED <<row, category, index, swap, run>>
  BY DEF Search!DeliveryFails, Search!Step
<1>2. /\ SearchTypes /\ job[w].event \in Listed \cup {0} /\ job[w].items \subseteq Copies
      /\ Fitting(job[w])
  BY SearchFields DEF SearchInv, PagesFit
<1>3. /\ job'[w] = Search!IdleJob /\ Search!IdleJob \in Deliveries
      /\ job'[w].pc = "idle" /\ job'[w].page = {} /\ job'[w].items = {}
      /\ \A x \in Workers : x # w => job'[x] = job[x]
  BY <1>1, <1>2 DEF SearchTypes, Deliveries, Search!IdleJob
<1>4. SearchTypes'
  BY <1>1, <1>2, <1>3 DEF SearchTypes
<1>5. \A p : Renaming(p) => Renaming(p)'
  BY <1>1, <1>3 DEF Renaming
<1>6. RowsMove
  BY <1>1, <1>2, <1>5, SearchFields DEF RowsMove
<1>7. \A p \in Listed, i \in Live : Current(p, i) => Current(p, i)'
  <2> SUFFICES ASSUME NEW p \in Listed, NEW i \in Live, Current(p, i) PROVE Current(p, i)'
    OBVIOUS
  <2>1. CASE Sends(w, p, i)
    <3>1. job[w].event = 0 \/ job[w].event = p
      BY <1>1, <1>2, <2>1 DEF Sends, Fitting
    <3> QED
      BY <1>1, <3>1 DEF Current, Renaming
  <2>2. CASE \E x \in Workers : x # w /\ Sends(x, p, i)
    <3>1. \E x \in Workers : Sends(x, p, i)'
      BY <1>1, <1>3, <2>2 DEF Sends
    <3> QED
      BY <3>1 DEF Current
  <2> QED
    BY <1>1, <1>5, <2>1, <2>2 DEF Current
<1>8. \A x \in Workers : \/ job'[x] = job[x]
                         \/ /\ Fitting(job'[x])
                            /\ (\A s \in job'[x].page : Shows(s.id, s)') /\ (\A c \in job'[x].items : Shows(c.id, c)')
  BY <1>3 DEF Fitting
<1> QED
  BY <1>1, <1>4, <1>6, <1>7, <1>8, DeliveriesMove DEF AliasesStay

(* A page of the fan-out: its rows are raised and will be sent; the cursor passes no other row. *)
LEMMA BumpsKeepSearch ==
  ASSUME SearchInv, NEW w \in Workers, Search!BumpPage(w)
  PROVE  SearchInv'
<1>1. PICK ids : ids = Search!PageAfter(job[w].cursor)
  OBVIOUS
<1>2. /\ job[w].pc = "bump"
      /\ IF ids = {} THEN Search!Step(w, Search!IdleJob) /\ UNCHANGED row
         ELSE /\ row' = Search!PageBumped(ids)
              /\ Search!Step(w, [job[w] EXCEPT !.pc = "write", !.cursor = Search!Max(ids),
                                               !.page = {Search!StateIn(Search!PageBumped(ids), p) : p \in ids}])
      /\ UNCHANGED <<category, events, late, index, swap, run>>
  BY <1>1 DEF Search!BumpPage
<1>3. /\ SearchTypes /\ job[w] \in Deliveries /\ job[w].cursor \in Nat /\ Fitting(job[w])
      /\ \A p \in Listed : row[p] \in [ver : Nat, status : Search!Statuses]
      /\ \A i \in Search!Indices, p \in Listed : Shows(p, index[i].doc[p]) /\ index[i].doc[p].ver \in Nat
  BY SearchFields DEF SearchInv, PagesFit, AllShow, SearchTypes
<1>4. job[w].event = 0
  BY <1>2, <1>3 DEF Fitting
<1>5. /\ ids \in SUBSET Listed
      /\ \A p \in ids : row[p].ver > 0 /\ p > job[w].cursor
      /\ ids # {} => /\ Search!Max(ids) \in ids
                     /\ \A p \in Listed : row[p].ver > 0 /\ p > job[w].cursor /\ p <= Search!Max(ids) => p \in ids
      /\ \A p \in Listed : row[p].ver > 0 /\ p > job[w].cursor /\ p \notin ids => ids # {}
  BY <1>1, <1>3, PageIs
<1>6. /\ row' \in [Listed -> [ver : Nat, status : Search!Statuses]]
      /\ \A p \in Listed : p \notin ids => row'[p] = row[p]
      /\ \A p \in ids : row'[p].ver = row[p].ver + 1 /\ row'[p].ver \in Nat
  <2>1. CASE ids = {}
    BY <1>2, <1>3, <2>1 DEF SearchTypes
  <2>2. CASE ids # {}
    <3>1. row' = [p \in Listed |-> IF p \in ids THEN [row[p] EXCEPT !.ver = @ + 1] ELSE row[p]]
      BY <1>2, <2>2 DEF Search!PageBumped
    <3>2. \A p \in Listed : [row[p] EXCEPT !.ver = @ + 1] \in [ver : Nat, status : Search!Statuses]
      BY <1>3
    <3> QED
      BY <1>3, <1>5, <3>1, <3>2
  <2> QED
    BY <2>1, <2>2
<1>20. PICK page : page = {Search!StateIn(row', p) : p \in ids}
  OBVIOUS
<1>7. PICK next :
        /\ job' = [job EXCEPT ![w] = next] /\ next \in Deliveries
        /\ ids = {} => next.pc = "idle" /\ next.page = {} /\ next.items = {}
        /\ ids # {} => /\ next.pc = "write" /\ next.cursor = Search!Max(ids) /\ next.event = 0
                       /\ next.page = page
                       /\ next.items = job[w].items
  <2>1. CASE ids = {}
    <3>1. job' = [job EXCEPT ![w] = Search!IdleJob]
      BY <1>2, <2>1 DEF Search!Step
    <3> QED
      BY <2>1, <3>1 DEF Search!IdleJob, Deliveries
  <2>2. CASE ids # {}
    <3>2. job' = [job EXCEPT ![w] = [job[w] EXCEPT !.pc = "write", !.cursor = Search!Max(ids), !.page = page]]
      <4>1. PICK rows : rows = Search!PageBumped(ids)
        OBVIOUS
      <4>2. row' = rows /\ job' = [job EXCEPT ![w] = [job[w] EXCEPT !.pc = "write", !.cursor = Search!Max(ids),
                                          !.page = {Search!StateIn(rows, p) : p \in ids}]]
        BY <1>2, <2>2, <4>1 DEF Search!Step
      <4>3. page = {Search!StateIn(rows, p) : p \in ids}
        BY <1>20, <4>2
      <4> QED
        BY <4>2, <4>3
    <3>3. page \in SUBSET Snapshots
      BY <1>3, <1>5, <1>6, <1>20, StateOf
    <3>4. Search!Max(ids) \in Nat
      BY <1>5, <2>2, ListedIs
    <3>5. [job[w] EXCEPT !.pc = "write", !.cursor = Search!Max(ids), !.page = page] \in Deliveries
      BY <1>3, <3>3, <3>4 DEF Deliveries
    <3>6. PICK new : new = [job[w] EXCEPT !.pc = "write", !.cursor = Search!Max(ids), !.page = page]
      OBVIOUS
    <3>7. /\ new.pc = "write" /\ new.cursor = Search!Max(ids) /\ new.event = 0
          /\ new.page = page /\ new.items = job[w].items
      BY <1>3, <1>4, <3>6 DEF Deliveries
    <3>8. job' = [job EXCEPT ![w] = new] /\ new \in Deliveries
      BY <3>2, <3>5, <3>6
    <3> QED
      BY <2>2, <3>7, <3>8, Zenon
  <2> QED
    BY <2>1, <2>2
<1>8. job'[w] = next /\ \A x \in Workers : x # w => job'[x] = job[x]
  BY <1>3, <1>7 DEF SearchTypes
<1>9. SearchTypes'
  BY <1>2, <1>3, <1>6, <1>7 DEF SearchTypes
<1>10. ASSUME NEW p \in Listed, Renaming(p) PROVE Renaming(p)' \/ p \in ids \/ row[p].ver = 0
  <2>1. CASE 0 \in events
    BY <1>2, <2>1 DEF Renaming
  <2>2. CASE \E x \in Workers : x # w /\ job[x].pc # "idle" /\ job[x].event = 0 /\ job[x].cursor < p
    BY <1>8, <2>2 DEF Renaming
  <2>3. CASE job[w].cursor < p /\ row[p].ver > 0 /\ p \notin ids
    <3>1. ids # {} /\ ~(p <= Search!Max(ids))
      BY <1>3, <1>5, <2>3, ListedIs
    <3>2. job'[w].pc # "idle" /\ job'[w].event = 0 /\ job'[w].cursor < p
      <4>1. Search!Max(ids) \in Nat /\ p \in Nat
        BY <1>5, <3>1, ListedIs
      <4>2. next.pc = "write" /\ next.cursor = Search!Max(ids) /\ next.event = 0
        BY <1>7, <3>1
      <4> QED
        BY <1>8, <3>1, <4>1, <4>2
    <3> QED
      BY <3>2 DEF Renaming
  <2>4. row[p].ver \in Nat
    BY <1>3
  <2> QED
    BY <1>10, <2>1, <2>2, <2>3, <2>4 DEF Renaming
<1>11. RowsMove
  <2>1. \A p \in Listed : row'[p].ver \in Nat /\ (row'[p] = row[p] \/ row'[p].ver > row[p].ver)
    BY <1>3, <1>6
  <2>2. \A p \in Listed : Renaming(p) => Renaming(p)' \/ row'[p].ver > row[p].ver \/ row'[p].ver = 0
    BY <1>3, <1>6, <1>10
  <2> QED
    BY <1>2, <2>1, <2>2 DEF RowsMove
<1>12. ASSUME NEW p \in ids, NEW i PROVE Current(p, i)'
  <2>1. Search!StateIn(row', p).id = p /\ Search!StateIn(row', p).ver = row'[p].ver
    BY DEF Search!StateIn
  <2>2. next.pc = "write" /\ Search!StateIn(row', p) \in next.page
    BY <1>7, <1>20
  <2>3. Sends(w, p, i)'
    BY <1>8, <2>1, <2>2 DEF Sends
  <2> QED
    BY <2>3 DEF Current
<1>13. ASSUME NEW p \in Listed, NEW i \in Live, Current(p, i) PROVE Current(p, i)'
  <2>1. CASE p \in ids
    BY <1>12, <2>1
  <2>2. CASE p \notin ids
    <3>1. row'[p] = row[p]
      BY <1>6, <2>2
    <3>2. CASE Renaming(p)
      <4>1. CASE row[p].ver = 0
        <5>1. i \in Search!Indices
          BY DEF Live, Search!Holding
        <5>2. index[i].doc[p].ver \in Nat /\ index[i].doc[p].ver <= row[p].ver
          BY <1>3, <5>1, NeverAhead
        <5>3. index[i].doc[p].ver = row[p].ver
          BY <4>1, <5>2
        <5> QED
          BY <1>2, <3>1, <5>3 DEF Current
      <4> QED
        BY <1>10, <2>2, <3>2, <4>1 DEF Current
    <3>3. CASE \E x \in Workers : Sends(x, p, i)
      <4>1. PICK x \in Workers : Sends(x, p, i)
        BY <3>3
      <4>2. x # w
        BY <1>2, <4>1 DEF Sends
      <4>3. Sends(x, p, i)'
        BY <1>8, <3>1, <4>1, <4>2 DEF Sends
      <4> QED
        BY <4>3 DEF Current
    <3>4. CASE p \in events \/ index[i].doc[p].ver = row[p].ver
      BY <1>2, <3>1, <3>4 DEF Current
    <3> QED
      BY <1>13, <3>2, <3>3, <3>4 DEF Current
  <2> QED
    BY <2>1, <2>2
<1>14. \A p \in Listed : row'[p].ver = row[p].ver \/ \A i \in Live : Current(p, i)'
  BY <1>6, <1>12
<1>15. Fitting(next)
  BY <1>7 DEF Fitting
<1>16. ASSUME NEW s \in next.page PROVE Shows(s.id, s)'
  <2>1. PICK p \in ids : s = Search!StateIn(row', p)
    BY <1>7, <1>20
  <2>2. s.id = p /\ s.ver = row'[p].ver /\ s.name = category.name /\ (s.shown <=> Search!Public(row', p))
    BY <1>3, <1>5, <1>6, <2>1, StateOf
  <2>3. row'[p].ver \in Nat /\ category' = category
    BY <1>2, <1>5, <1>6
  <2> QED
    BY <2>2, <2>3 DEF Shows, Search!Public
<1>17. next.items \subseteq job[w].items
  BY <1>7
<1>18. ASSUME NEW c \in next.items PROVE Shows(c.id, c)'
  <2>1. c.id \in Listed /\ c.ver \in Nat /\ Shows(c.id, c)
    BY <1>17, SearchFields DEF SearchInv, AllShow, Copies
  <2> QED
    BY <1>3, <1>11, <2>1, ShowsKept
<1>19. \A x \in Workers : \/ job'[x] = job[x]
                          \/ /\ Fitting(job'[x])
                             /\ (\A s \in job'[x].page : Shows(s.id, s)') /\ (\A c \in job'[x].items : Shows(c.id, c)')
  BY <1>8, <1>15, <1>16, <1>18
<1> QED
  BY <1>2, <1>9, <1>11, <1>13, <1>14, <1>19, DeliveriesMove DEF AliasesStay

-----------------------------------------------------------------------------
(* Writes of the engine *)

(* An item raises one document, or is refused because the document is as new. *)
LEMMA AppliedRaises ==
  ASSUME SearchInv, NEW item \in Copies, Shows(item.id, item), index' = Search!Applied(item)
  PROVE  /\ AliasesStay /\ index' \in [Search!Indices -> IndexStates]
         /\ \A i \in Search!Indices, p \in Listed :
              \/ index'[i].doc[p] = index[i].doc[p]
              \/ /\ p = item.id /\ index'[i].doc[p].ver = item.ver /\ index'[i].doc[p].name = item.name
                 /\ index'[i].doc[p].shown = item.shown
         /\ \A i \in Search!Indices, p \in Listed :
              index[i].doc[p].ver = row[p].ver => index'[i].doc[p].ver = row[p].ver
         /\ item.index \in Live /\ item.ver = row[item.id].ver =>
              index'[item.index].doc[item.id].ver = row[item.id].ver
<1>1. PICK o, q : o = item.index /\ q = item.id
  OBVIOUS
<1>2. /\ o \in Search!Indices /\ q \in Listed /\ item.ver \in Nat /\ item.name \in Nat /\ item.shown \in BOOLEAN
      /\ SearchTypes /\ \A i \in Search!Indices, p \in Listed : Shows(p, index[i].doc[p])
      /\ \A i \in Search!Indices, p \in Listed : index[i].doc[p].ver \in Nat /\ row[p].ver \in Nat
      /\ \A i \in Search!Indices : index[i] \in IndexStates
  BY <1>1, SearchFields DEF SearchInv, AllShow, Copies
<1>3. PICK new : new = [ver |-> item.ver, name |-> item.name, shown |-> item.shown]
  OBVIOUS
<1>4. new \in Docs /\ new.ver = item.ver /\ new.name = item.name /\ new.shown = item.shown
  BY <1>2, <1>3 DEF Docs
<1>5. index' = IF Search!There(o) /\ item.ver > index[o].doc[q].ver
               THEN [index EXCEPT ![o].doc[q] = new] ELSE index
  BY <1>1, <1>3 DEF Search!Applied, Search!Newer
<1>6. CASE index' = index /\ ~(Search!There(o) /\ item.ver > index[o].doc[q].ver)
  <2>1. item.index \in Live /\ item.ver = row[item.id].ver => index[o].doc[q].ver = row[q].ver
    <3>1. index[o].doc[q].ver \in Nat /\ row[q].ver \in Nat /\ index[o].doc[q].ver <= row[q].ver
      BY <1>2, NeverAhead
    <3>2. o \in Live => Search!There(o)
      BY DEF Live, Search!Holding
    <3> QED
      BY <1>1, <1>2, <1>6, <3>1, <3>2
  <2> QED
    BY <1>1, <1>6, <2>1 DEF SearchInv, SearchTypes, AliasesStay
<1>7. CASE index' = [index EXCEPT ![o].doc[q] = new] /\ item.ver > index[o].doc[q].ver
  <2>1. PICK was : was = index[o] /\ was \in IndexStates
    BY <1>2
  <2>2. PICK is : is = [was EXCEPT !.doc[q] = new]
    OBVIOUS
  <2>3. is \in IndexStates /\ is.state = was.state /\ is.aliases = was.aliases /\ is.doc = [was.doc EXCEPT ![q] = new]
    BY <1>4, <2>1, <2>2 DEF IndexStates
  <2>4. index' = [index EXCEPT ![o] = is]
    BY <1>7, <2>1, <2>2
  <2>5. index'[o] = is /\ \A i \in Search!Indices : i # o => index'[i] = index[i]
    BY <1>2, <2>4 DEF SearchTypes
  <2>6. index' \in [Search!Indices -> IndexStates]
    BY <1>2, <2>3, <2>4 DEF SearchTypes
  <2>7. is.doc[q] = new /\ \A p \in Listed : p # q => is.doc[p] = was.doc[p]
    BY <1>2, <2>1, <2>3 DEF IndexStates
  <2>8. AliasesStay
    BY <2>1, <2>3, <2>5 DEF AliasesStay
  <2>9. \A i \in Search!Indices, p \in Listed : index'[i].doc[p] = index[i].doc[p] \/ (i = o /\ p = q /\ index'[i].doc[p] = new)
    BY <2>1, <2>5, <2>7
  <2>10. index'[o].doc[q] = new
    BY <2>5, <2>7
  <2>11. Shows(q, index[o].doc[q]) /\ item.ver <= row[q].ver
    BY <1>1, <1>2 DEF Shows
  <2>12. index[o].doc[q].ver # row[q].ver
    BY <1>2, <1>7, <2>11
  <2> QED
    BY <1>1, <1>4, <2>6, <2>8, <2>9, <2>10, <2>12
<1> QED
  BY <1>5, <1>6, <1>7

LEMMA ItemsShow ==
  ASSUME SearchInv, RowsMove, NEW item \in Copies, Shows(item.id, item), index' = Search!Applied(item)
  PROVE  \A i \in Search!Indices, p \in Listed :
           index'[i].doc[p] = index[i].doc[p] \/ Shows(p, index[i].doc[p])'
<1>1. Shows(item.id, item)'
  BY ShowsKept DEF SearchInv, Copies
<1> SUFFICES ASSUME NEW i \in Search!Indices, NEW p \in Listed, index'[i].doc[p] # index[i].doc[p]
             PROVE  Shows(p, index[i].doc[p])'
  OBVIOUS
<1>2. /\ p = item.id /\ index'[i].doc[p].ver = item.ver /\ index'[i].doc[p].name = item.name
      /\ index'[i].doc[p].shown = item.shown
  BY AppliedRaises
<1> QED
  BY <1>1, <1>2 DEF Shows

LEMMA LateItemsKeepSearch ==
  ASSUME SearchInv, Search!LateApplies
  PROVE  SearchInv'
<1>1. PICK item \in late :
        /\ index' = Search!Applied(item) /\ late' = late \ {item}
        /\ UNCHANGED <<row, category, events, job, swap, run>>
  BY DEF Search!LateApplies
<1>2. SearchTypes /\ item \in Copies /\ Shows(item.id, item)
  BY DEF SearchInv, SearchTypes, AllShow
<1>3. /\ RowsMove
      /\ \A p \in Listed : (Renaming(p)' <=> Renaming(p)) /\ \A w \in Workers : \A i : Sends(w, p, i)' <=> Sends(w, p, i)
  BY <1>1, <1>2, RowsStay
<1>4. AliasesStay /\ SearchTypes'
  BY <1>1, <1>2, AppliedRaises DEF SearchTypes
<1>5. \A p \in Listed, i \in Live : Current(p, i) => Current(p, i)'
  <2>1. \A i \in Live : i \in Search!Indices
    BY DEF Live, Search!Holding
  <2> QED
    BY <1>1, <1>2, <1>3, <2>1, AppliedRaises DEF Current
<1>6. \A i \in Search!Indices, p \in Listed : index'[i].doc[p] = index[i].doc[p] \/ Shows(p, index[i].doc[p])'
  BY <1>1, <1>2, <1>3, ItemsShow
<1> QED
  BY <1>1, <1>3, <1>4, <1>5, <1>6, DeliveriesMove

LEMMA ItemsKeepSearch ==
  ASSUME SearchInv, NEW w \in Workers, Search!ApplyItem(w)
  PROVE  SearchInv'
<1>1. PICK item \in job[w].items :
        /\ index' = Search!Applied(item)
        /\ Search!Step(w, IF job[w].items # {item} THEN [job[w] EXCEPT !.items = @ \ {item}]
                          ELSE IF job[w].event = 0
                          THEN [job[w] EXCEPT !.pc = "bump", !.items = {}] ELSE Search!IdleJob)
        /\ job[w].pc = "apply" /\ UNCHANGED <<row, category, events, late, swap, run>>
  BY DEF Search!ApplyItem
<1>2. /\ SearchTypes /\ job[w] \in Deliveries /\ Fitting(job[w]) /\ job[w].items \subseteq Copies
      /\ (\A s \in job[w].page : Shows(s.id, s)) /\ (\A c \in job[w].items : Shows(c.id, c))
      /\ job[w].page \subseteq Snapshots
  BY SearchFields DEF SearchInv, PagesFit, AllShow
<1>3. PICK next :
        /\ job' = [job EXCEPT ![w] = next] /\ next \in Deliveries
        /\ next.page \subseteq job[w].page
        /\ \/ next.pc = "apply" /\ next.event = job[w].event /\ next.cursor = job[w].cursor /\ next.items = job[w].items \ {item}
           \/ /\ job[w].event = 0 /\ job[w].items = {item}
              /\ next.pc = "bump" /\ next.event = 0 /\ next.cursor = job[w].cursor /\ next.items = {}
           \/ job[w].event # 0 /\ job[w].items = {item} /\ next.pc = "idle" /\ next.items = {}
  <2>1. CASE job[w].items # {item}
    <3>1. PICK new : new = [job[w] EXCEPT !.items = @ \ {item}]
      OBVIOUS
    <3>2. job' = [job EXCEPT ![w] = new]
      BY <1>1, <2>1, <3>1 DEF Search!Step
    <3>3. /\ new \in Deliveries /\ new.page = job[w].page /\ new.pc = "apply" /\ new.event = job[w].event
          /\ new.cursor = job[w].cursor /\ new.items = job[w].items \ {item}
      BY <1>1, <1>2, <3>1 DEF Deliveries
    <3> QED
      BY <3>2, <3>3
  <2>2. CASE job[w].items = {item} /\ job[w].event = 0
    <3>1. PICK new : new = [job[w] EXCEPT !.pc = "bump", !.items = {}]
      OBVIOUS
    <3>2. job' = [job EXCEPT ![w] = new]
      BY <1>1, <2>2, <3>1 DEF Search!Step
    <3>3. /\ new \in Deliveries /\ new.page = job[w].page /\ new.pc = "bump" /\ new.event = 0
          /\ new.cursor = job[w].cursor /\ new.items = {}
      BY <1>2, <2>2, <3>1 DEF Deliveries
    <3> QED
      BY <2>2, <3>2, <3>3
  <2>3. CASE job[w].items = {item} /\ job[w].event # 0
    <3>1. PICK new : new = Search!IdleJob
      OBVIOUS
    <3>2. job' = [job EXCEPT ![w] = new]
      BY <1>1, <2>3, <3>1 DEF Search!Step
    <3>3. new \in Deliveries /\ new.page = {} /\ new.pc = "idle" /\ new.items = {}
      BY <3>1 DEF Deliveries, Search!IdleJob
    <3> QED
      BY <2>3, <3>2, <3>3
  <2> QED
    BY <2>1, <2>2, <2>3
<1>4. job'[w] = next /\ \A x \in Workers : x # w => job'[x] = job[x]
  BY <1>2, <1>3 DEF SearchTypes
<1>5. item \in Copies /\ Shows(item.id, item) /\ next.items \subseteq job[w].items
  BY <1>1, <1>2, <1>3
<1>6. AliasesStay /\ SearchTypes'
  BY <1>1, <1>2, <1>3, <1>5, AppliedRaises DEF SearchTypes
<1>7. \A p : Renaming(p) => Renaming(p)'
  BY <1>1, <1>3, <1>4 DEF Renaming
<1>8. RowsMove
  BY <1>1, <1>2, <1>7, SearchFields DEF RowsMove
<1>9. ASSUME NEW p \in Listed, NEW i \in Live, Current(p, i) PROVE Current(p, i)'
  <2>1. i \in Search!Indices
    BY DEF Live, Search!Holding
  <2>2. CASE index[i].doc[p].ver = row[p].ver
    BY <1>1, <1>5, <2>1, <2>2, AppliedRaises DEF Current
  <2>3. CASE \E x \in Workers : x # w /\ Sends(x, p, i)
    <3>1. \E x \in Workers : Sends(x, p, i)'
      BY <1>1, <1>4, <2>3 DEF Sends
    <3> QED
      BY <3>1 DEF Current
  <2>4. CASE Sends(w, p, i)
    <3>1. PICK c \in job[w].items : c.id = p /\ c.ver = row[p].ver /\ c.index = i
      BY <1>1, <2>4 DEF Sends
    <3>2. CASE c = item
      BY <1>1, <1>5, <3>1, <3>2, AppliedRaises DEF Current
    <3>3. CASE c # item
      <4>1. next.pc = "apply" /\ c \in next.items
        BY <1>3, <3>1, <3>3
      <4>2. Sends(w, p, i)'
        BY <1>1, <1>4, <3>1, <4>1 DEF Sends
      <4> QED
        BY <4>2 DEF Current
    <3> QED
      BY <3>2, <3>3
  <2> QED
    BY <1>1, <1>7, <1>9, <2>2, <2>3, <2>4 DEF Current
<1>10. \A i \in Search!Indices, p \in Listed : index'[i].doc[p] = index[i].doc[p] \/ Shows(p, index[i].doc[p])'
  BY <1>1, <1>5, <1>8, ItemsShow
<1>11. Fitting(next)
  BY <1>1, <1>2, <1>3, <1>5 DEF Fitting
<1>12. ASSUME NEW s \in next.page PROVE Shows(s.id, s)'
  <2>1. s.id \in Listed /\ s.ver \in Nat /\ Shows(s.id, s)
    BY <1>2, <1>3 DEF Snapshots
  <2> QED
    BY <1>2, <1>8, <2>1, ShowsKept
<1>13. ASSUME NEW c \in next.items PROVE Shows(c.id, c)'
  <2>1. c.id \in Listed /\ c.ver \in Nat /\ Shows(c.id, c)
    BY <1>2, <1>5 DEF Copies
  <2> QED
    BY <1>2, <1>8, <2>1, ShowsKept
<1>14. \A x \in Workers : \/ job'[x] = job[x]
                          \/ /\ Fitting(job'[x])
                             /\ (\A s \in job'[x].page : Shows(s.id, s)') /\ (\A c \in job'[x].items : Shows(c.id, c)')
  BY <1>4, <1>11, <1>12, <1>13
<1> QED
  BY <1>1, <1>6, <1>8, <1>9, <1>10, <1>14, DeliveriesMove

-----------------------------------------------------------------------------
(* Reindex runs *)

(* A step of a run: it leaves the catalog and the deliveries alone. *)
LEMMA RunsMove ==
  ASSUME SearchInv, SearchTypes', UNCHANGED <<row, category, events, job, late>>,
         OneAlias', RunsKnow', Serving', Rebuilt',
         \A i \in Search!Indices, p \in Listed : index'[i].doc[p] = index[i].doc[p] \/ Shows(p, index[i].doc[p])',
         \A r \in Runners : \/ run'[r].page \subseteq run[r].page
                            \/ (\A s \in run'[r].page : Shows(s.id, s)) /\ Once(run'[r].page)
  PROVE  SearchInv'
<1>1. /\ SearchTypes /\ RowsMove
      /\ \A p \in Listed : (Renaming(p)' <=> Renaming(p)) /\ \A w \in Workers : \A i : Sends(w, p, i)' <=> Sends(w, p, i)
  BY RowsStay DEF SearchInv
<1>2. PagesFit'
  <2>1. \A w \in Workers : Fitting(job[w])'
    BY DEF SearchInv, PagesFit, Fitting
  <2>2. \A r \in Runners : Once(run[r].page)'
    BY DEF SearchInv, PagesFit, Once
  <2> QED
    BY <2>1, <2>2 DEF PagesFit
<1>3. \A i \in Search!Indices, p \in Listed : Shows(p, index[i].doc[p])'
  BY <1>1, DocsKeepShowing
<1>4. ASSUME NEW x, Shows(x.id, x), x.id \in Listed, x.ver \in Nat PROVE Shows(x.id, x)'
  BY <1>1, <1>4, ShowsKept
<1>5. /\ \A s \in Snapshots : s.id \in Listed /\ s.ver \in Nat
      /\ \A c \in Copies : c.id \in Listed /\ c.ver \in Nat
  BY DEF Snapshots, Copies
<1>6. /\ \A w \in Workers : job[w].page \subseteq Snapshots /\ job[w].items \subseteq Copies
      /\ late \subseteq Copies /\ \A r \in Runners : run[r].page \subseteq Snapshots
      /\ \A r \in Runners : run'[r].page \subseteq Snapshots
  <2>1. \A r \in Runners : run'[r] \in Reindexes
    BY DEF SearchTypes
  <2>2. \A r \in Runners : run'[r].page \subseteq Snapshots
    BY <2>1 DEF Reindexes
  <2> QED
    BY <1>1, <2>2, SearchFields DEF SearchTypes
<1>7. \A w \in Workers : (\A s \in job[w].page : Shows(s.id, s)') /\ (\A c \in job[w].items : Shows(c.id, c)')
  <2> SUFFICES ASSUME NEW w \in Workers
               PROVE  (\A s \in job[w].page : Shows(s.id, s)') /\ (\A c \in job[w].items : Shows(c.id, c)')
    OBVIOUS
  <2>1. (\A s \in job[w].page : Shows(s.id, s)) /\ (\A c \in job[w].items : Shows(c.id, c))
    BY DEF SearchInv, AllShow
  <2>2. \A s \in job[w].page : Shows(s.id, s)'
    BY <1>4, <1>5, <1>6, <2>1
  <2>3. \A c \in job[w].items : Shows(c.id, c)'
    BY <1>4, <1>5, <1>6, <2>1
  <2> QED
    BY <2>2, <2>3
<1>8. \A c \in late : Shows(c.id, c)'
  BY <1>4, <1>5, <1>6 DEF SearchInv, AllShow
<1>9. ASSUME NEW r \in Runners, NEW s \in run'[r].page PROVE Shows(s.id, s)'
  <2>1. s.id \in Listed /\ s.ver \in Nat
    BY <1>5, <1>6
  <2>2. Shows(s.id, s)
    BY DEF SearchInv, AllShow
  <2> QED
    BY <1>4, <2>1, <2>2
<1>10. AllShow'
  BY <1>3, <1>7, <1>8, <1>9 DEF AllShow
<1> QED
  BY <1>2, <1>10 DEF SearchInv

(* Where the rows, the pending names and the deliveries are left alone, what is current is a matter of *)
(* the documents.                                                                                      *)
LEMMA CurrentStays ==
  ASSUME SearchTypes, UNCHANGED <<row, category, events, job>>, NEW p \in Listed, NEW i,
         index'[i].doc[p] = index[i].doc[p]
  PROVE  Current(p, i)' <=> Current(p, i)
<1>1. (Renaming(p)' <=> Renaming(p)) /\ \A w \in Workers : Sends(w, p, i)' <=> Sends(w, p, i)
  BY RowsStay
<1> QED
  BY <1>1 DEF Current

(* A step of one run that leaves the engine alone, but may leave a swap behind. *)
LEMMA ReadsKeepSearch ==
  ASSUME SearchInv, UNCHANGED <<row, category, events, job, late, index>>,
         NEW r \in Runners, NEW next \in Reindexes, run' = [run EXCEPT ![r] = next],
         next.page \subseteq run[r].page \/ ((\A s \in next.page : Shows(s.id, s)) /\ Once(next.page)),
         Knows(next), Filled(next),
         \A s \in swap' : s \in swap \/
           /\ s \in [own : Search!Indices, serving : SUBSET Search!Indices]
           /\ index[s.own].state # "unused" /\ s.serving # {}
           /\ s.own \in Search!Holding("rebuilding") => \A p \in Listed : Current(p, s.own)
  PROVE  SearchInv'
<1>1. SearchTypes /\ \A x \in Runners : run'[x] = run[x] \/ run'[x] = next
  BY DEF SearchInv, SearchTypes
<1>2. SearchTypes'
  BY <1>1 DEF SearchTypes
<1>3. AliasesStay /\ OneAlias'
  BY OneAliasStays DEF AliasesStay, SearchInv
<1>4. /\ Search!Holding("products")' = Search!Holding("products")
      /\ Search!Holding("rebuilding")' = Search!Holding("rebuilding")
  BY <1>3, HoldingStays
<1>5. \A p \in Listed : \A i : Current(p, i)' <=> Current(p, i)
  BY <1>1, CurrentStays
<1>6. RunsKnow'
  <2>1. ASSUME NEW x \in Runners PROVE Knows(run[x])'
    <3>1. Knows(run'[x])
      BY <1>1 DEF SearchInv, RunsKnow
    <3> QED
      BY <3>1 DEF Knows
  <2> QED
    BY <2>1 DEF SearchInv, RunsKnow
<1>7. Serving'
  BY <1>4, <1>5 DEF SearchInv, Serving, Search!Holding
<1>8. Rebuilt'
  <2>1. ASSUME NEW x \in Runners PROVE Filled(run[x])'
    <3>1. Filled(run'[x])
      BY <1>1 DEF SearchInv, Rebuilt
    <3> QED
      BY <1>4, <1>5, <3>1 DEF Filled
  <2>2. \A s \in swap' : s.own \in Search!Holding("rebuilding") => \A p \in Listed : Current(p, s.own)
    BY DEF SearchInv, Rebuilt
  <2> QED
    BY <1>4, <1>5, <2>1, <2>2 DEF Rebuilt
<1>9. \A x \in Runners : \/ run'[x].page \subseteq run[x].page
                         \/ (\A s \in run'[x].page : Shows(s.id, s)) /\ Once(run'[x].page)
  BY <1>1 DEF SearchTypes
<1> QED
  BY <1>2, <1>3, <1>6, <1>7, <1>8, <1>9, RunsMove

Resting == {x \in Reindexes : x.pc \in {"ended", "abort", "begin"} /\ x.page = {}}

LEMMA RestsAre ==
  ASSUME SearchTypes, NEW r \in Runners
  PROVE  Search!Ended \in Resting /\ Search!Aborting(r) \in Resting /\ Search!Aborted(r) \in Resting
<1>1. run[r].own \in Search!Indices
  BY SearchFields
<1>2. Search!IdleRun \in Reindexes /\ Search!IdleRun.page = {}
  BY DEF Search!IdleRun, Reindexes, Building, Search!Indices
<1>3. \A i \in Search!Indices, pc \in {"ended", "abort", "begin"} :
        /\ [Search!IdleRun EXCEPT !.pc = pc] \in Resting
        /\ [Search!IdleRun EXCEPT !.pc = pc, !.own = i] \in Resting
  BY <1>2 DEF Reindexes, Resting
<1> QED
  BY <1>1, <1>3 DEF Search!Ended, Search!Aborting, Search!Aborted

LEMMA RestKeepsSearch ==
  ASSUME SearchInv, NEW r \in Runners, NEW next \in Resting, Search!Go(r, next),
         UNCHANGED <<row, category, events, job, late, index>>,
         \A s \in swap' : s \in swap \/
           /\ s \in [own : Search!Indices, serving : SUBSET Search!Indices]
           /\ index[s.own].state # "unused" /\ s.serving # {}
           /\ s.own \in Search!Holding("rebuilding") => \A p \in Listed : Current(p, s.own)
  PROVE  SearchInv'
<1>1. next \in Reindexes /\ next.page = {} /\ run' = [run EXCEPT ![r] = next]
  BY DEF Resting, Search!Go
<1>2. Knows(next) /\ Filled(next)
  BY DEF Resting, Knows, Filled, Building
<1> QED
  BY <1>1, <1>2, ReadsKeepSearch

LEMMA ReadPageKeepsSearch ==
  ASSUME SearchInv, NEW r \in Runners, Search!ReadPage(r)
  PROVE  SearchInv'
<1>1. PICK ids : ids = Search!PageAfter(run[r].cursor)
  OBVIOUS
<1>2. PICK page : page = {Search!SearchState(p) : p \in ids}
  OBVIOUS
<1>3. PICK next :
        /\ next = (IF ids = {} THEN [run[r] EXCEPT !.pc = "promote", !.cursor = 0]
                   ELSE [run[r] EXCEPT !.pc = "fill", !.page = page, !.cursor = Search!Max(ids)])
        /\ run' = [run EXCEPT ![r] = next]
        /\ run[r].pc = "page" /\ UNCHANGED <<row, category, events, job, late, index, swap>>
  BY <1>1, <1>2 DEF Search!ReadPage, Search!Go
<1>4. /\ SearchTypes /\ run[r] \in Reindexes /\ run[r].cursor \in Nat /\ Knows(run[r]) /\ Filled(run[r])
      /\ \A p \in Listed : row[p].ver \in Nat
      /\ \A i \in Search!Indices, p \in Listed : Shows(p, index[i].doc[p]) /\ index[i].doc[p].ver \in Nat
  BY SearchFields DEF SearchInv, RunsKnow, Rebuilt, AllShow
<1>5. /\ ids \in SUBSET Listed /\ IsFiniteSet(ids)
      /\ \A p \in ids : row[p].ver > 0 /\ p > run[r].cursor
      /\ ids # {} => /\ Search!Max(ids) \in ids
                     /\ \A p \in Listed : row[p].ver > 0 /\ p > run[r].cursor /\ p <= Search!Max(ids) => p \in ids
      /\ \A p \in Listed : row[p].ver > 0 /\ p > run[r].cursor /\ p \notin ids =>
           ids # {} /\ Cardinality(ids) >= PageSize
  BY <1>1, <1>4, PageIs
<1>6. \A p \in Listed : /\ Search!SearchState(p) \in Snapshots /\ Search!SearchState(p).id = p
                        /\ Search!SearchState(p).ver = row[p].ver /\ Search!SearchState(p).name = category.name
                        /\ Search!SearchState(p).shown <=> Search!Public(row, p)
  BY <1>4, StateOf DEF Search!SearchState
<1>7. /\ page \in SUBSET Snapshots /\ Once(page) /\ \A s \in page : Shows(s.id, s)
      /\ \A p \in ids : \E s \in page : s.id = p /\ s.ver = row[p].ver
  <2>1. \A s \in page : \E p \in ids : s = Search!SearchState(p)
    BY <1>2
  <2>2. \A p \in ids : Search!SearchState(p) \in page
    BY <1>2
  <2>3. ASSUME NEW s \in page PROVE Shows(s.id, s)
    <3>1. PICK p \in ids : s = Search!SearchState(p)
      BY <2>1
    <3> QED
      BY <1>4, <1>5, <1>6, <3>1 DEF Shows
  <2> QED
    BY <1>5, <1>6, <2>1, <2>2, <2>3 DEF Once
<1>8. Search!Cardinality(page) = Cardinality(ids)
  <2>1. \A p \in ids : [q \in ids |-> Search!SearchState(q)][p].id = p
    BY <1>5, <1>6
  <2>2. PICK f : f = [q \in ids |-> Search!SearchState(q)]
    OBVIOUS
  <2>3. Cardinality({f[p] : p \in ids}) = Cardinality(ids)
    BY <1>5, <2>1, <2>2, PageSizes
  <2>4. page = {f[p] : p \in ids}
    BY <1>2, <2>2
  <2> QED
    BY <2>3, <2>4, PageCounts
<1>9. \A p \in Listed : p > run[r].cursor \/ (run[r].own \in Search!Holding("rebuilding") => Current(p, run[r].own))
  BY <1>3, <1>4 DEF Filled
<1>10. \A p \in Listed, i \in Search!Indices : row[p].ver = 0 => Current(p, i)
  <2>1. \A p \in Listed, i \in Search!Indices : row[p].ver = 0 => index[i].doc[p].ver = row[p].ver
    BY <1>4, NeverAhead
  <2> QED
    BY <2>1 DEF Current
<1>11. run[r].own \in Search!Indices /\ index[run[r].own].state # "unused"
  BY <1>3, <1>4 DEF Knows, Building, Reindexes
<1>12. CASE ids = {}
  <2>1. next \in Reindexes /\ next.page = run[r].page /\ next.pc = "promote" /\ next.own = run[r].own
    BY <1>3, <1>4, <1>12 DEF Reindexes, Building
  <2>2. Knows(next)
    BY <1>11, <2>1 DEF Knows
  <2>3. \A p \in Listed : run[r].own \in Search!Holding("rebuilding") => Current(p, run[r].own)
    BY <1>4, <1>5, <1>9, <1>10, <1>11, <1>12
  <2>4. Filled(next)
    BY <2>1, <2>3 DEF Filled
  <2> QED
    BY <1>3, <2>1, <2>2, <2>4, ReadsKeepSearch
<1>13. CASE ids # {}
  <2>0. Search!Max(ids) \in Nat
    BY <1>5, <1>13, ListedIs
  <2>1. /\ next \in Reindexes /\ next.page = page /\ next.pc = "fill" /\ next.own = run[r].own
        /\ next.cursor = Search!Max(ids)
    BY <1>3, <1>4, <1>7, <1>13, <2>0 DEF Reindexes, Building
  <2>2. Knows(next)
    BY <1>11, <2>1 DEF Knows
  <2>3. ASSUME next.own \in Search!Holding("rebuilding"), NEW p \in Listed
        PROVE  \/ Current(p, next.own)
               \/ ~(Search!Cardinality(next.page) < PageSize) /\ p > next.cursor
               \/ \E s \in next.page : s.id = p /\ s.ver = row[p].ver
    <3>1. CASE p \in ids
      BY <1>7, <2>1, <3>1
    <3>2. CASE p \notin ids /\ p > run[r].cursor /\ row[p].ver > 0
      <4>1. Cardinality(ids) >= PageSize /\ ~(p <= Search!Max(ids))
        BY <1>5, <1>13, <3>2
      <4>2. Cardinality(ids) \in Nat /\ PageSize \in Nat /\ p \in Nat
        BY <1>5, FS_CardinalityType, ListedIs
      <4> QED
        BY <1>8, <2>0, <2>1, <4>1, <4>2
    <3>3. CASE ~(p > run[r].cursor) \/ row[p].ver = 0
      BY <1>9, <1>10, <1>11, <2>1, <2>3, <3>3
    <3> QED
      BY <1>4, <3>1, <3>2, <3>3
  <2>4. Filled(next)
    BY <2>1, <2>3 DEF Filled
  <2> QED
    BY <1>3, <1>7, <2>1, <2>2, <2>4, ReadsKeepSearch
<1> QED
  BY <1>12, <1>13

LEMMA ReadServingKeepsSearch ==
  ASSUME SearchInv, NEW r \in Runners, Search!ReadServing(r)
  PROVE  SearchInv'
<1>1. SearchTypes /\ run[r] \in Reindexes /\ Knows(run[r]) /\ Filled(run[r]) /\ Search!Holding("products") # {}
  BY SearchFields DEF SearchInv, RunsKnow, Rebuilt, OneAlias
<1>2. run[r].pc = "promote" /\ UNCHANGED <<row, category, events, job, late, index, swap>>
  BY DEF Search!ReadServing
<1>3. CASE run[r].own \notin Search!Holding("rebuilding")
  BY <1>1, <1>2, <1>3, RestsAre, RestKeepsSearch DEF Search!ReadServing
<1>4. CASE run[r].own \in Search!Holding("rebuilding")
  <2>1. PICK names \in SUBSET Search!Indices : names = {i \in Search!Indices : Search!There(i)} \ {run[r].own}
    OBVIOUS
  <2>2. PICK next : next = [run[r] EXCEPT !.pc = "swap", !.serving = Search!Holding("products"), !.doomed = names]
    OBVIOUS
  <2>3. run' = [run EXCEPT ![r] = next]
    BY <1>4, <2>1, <2>2 DEF Search!ReadServing, Search!Go
  <2>4. Search!Holding("products") \in SUBSET Search!Indices
    BY DEF Search!Holding
  <2>5. /\ next \in Reindexes /\ next.pc = "swap" /\ next.own = run[r].own /\ next.page = run[r].page
        /\ next.serving = Search!Holding("products")
    BY <1>1, <2>2, <2>4 DEF Reindexes, Building
  <2>6. Knows(next)
    BY <1>1, <1>2, <2>5 DEF Knows, Building
  <2>7. Filled(next)
    BY <1>1, <1>2, <2>5 DEF Filled
  <2> QED
    BY <1>2, <2>3, <2>5, <2>6, <2>7, ReadsKeepSearch
<1> QED
  BY <1>3, <1>4

LEMMA RunFailuresKeepSearch ==
  ASSUME SearchInv, NEW r \in Runners, Search!RunFails(r)
  PROVE  SearchInv'
<1>1. SearchTypes
  BY DEF SearchInv
<1> QED
  BY <1>1, RestsAre, RestKeepsSearch DEF Search!RunFails

LEMMA ReadLockedKeepsSearch ==
  ASSUME SearchInv, NEW r \in Runners, Search!ReadLocked(r)
  PROVE  SearchInv'
<1>1. PICK locked, old :
        /\ locked \subseteq Search!Holding("rebuilding") /\ old \in BOOLEAN
        /\ Search!Go(r, IF locked = {} THEN Search!Ended
                        ELSE [Search!IdleRun EXCEPT !.pc = "release", !.doomed = locked, !.stale = old])
        /\ UNCHANGED <<row, category, events, job, late, index, swap>>
  <2>1. PICK old \in BOOLEAN : old = (run[r].pc = "idle")
    OBVIOUS
  <2>2. PICK locked : locked = {i \in Search!Holding("rebuilding") \ Search!Holding("products") : old \/ i = run[r].own}
    OBVIOUS
  <2>3. Search!Go(r, IF locked = {} THEN Search!Ended
                     ELSE [Search!IdleRun EXCEPT !.pc = "release", !.doomed = locked, !.stale = old])
    BY <2>1, <2>2 DEF Search!ReadLocked
  <2>4. locked \subseteq Search!Holding("rebuilding") /\ UNCHANGED <<row, category, events, job, late, index, swap>>
    BY <2>2 DEF Search!ReadLocked
  <2> QED
    BY <2>3, <2>4, Zenon
<1>2. SearchTypes /\ \A i, j \in Search!Holding("rebuilding") : i = j
  BY DEF SearchInv, OneAlias
<1>3. CASE locked = {}
  BY <1>1, <1>2, <1>3, RestsAre, RestKeepsSearch
<1>4. CASE locked # {}
  <2>1. PICK next : next = [Search!IdleRun EXCEPT !.pc = "release", !.doomed = locked, !.stale = old]
    OBVIOUS
  <2>2. run' = [run EXCEPT ![r] = next]
    BY <1>1, <1>4, <2>1 DEF Search!Go
  <2>3. locked \in SUBSET Search!Indices
    BY <1>1 DEF Search!Holding
  <2>4. next \in Reindexes /\ next.pc = "release" /\ next.page = {} /\ next.doomed = locked
    BY <1>1, <2>1, <2>3 DEF Search!IdleRun, Reindexes, Building, Search!Indices
  <2>5. \E i \in Search!Indices : locked = {i}
    BY <1>1, <1>2, <1>4, <2>3
  <2>6. Knows(next) /\ Filled(next)
    BY <2>4, <2>5 DEF Knows, Filled, Building
  <2> QED
    BY <1>1, <2>2, <2>4, <2>6, ReadsKeepSearch
<1> QED
  BY <1>3, <1>4

LEMMA ReadIdleKeepsSearch ==
  ASSUME SearchInv, NEW r \in Runners, Search!ReadIdle(r)
  PROVE  SearchInv'
<1>1. SearchTypes /\ run[r] \in Reindexes /\ run[r].doomed \in SUBSET Search!Indices
  BY SearchFields DEF SearchInv
<1>2. PICK names \in SUBSET Search!Indices : names = {i \in run[r].doomed : Search!There(i) /\ index[i].aliases = {}}
  BY <1>1
<1>3. PICK next : next = [run[r] EXCEPT !.pc = "delete", !.doomed = names]
  OBVIOUS
<1>4. run' = [run EXCEPT ![r] = next] /\ UNCHANGED <<row, category, events, job, late, index, swap>>
  <2>1. run' = [run EXCEPT ![r] = [run[r] EXCEPT !.pc = "delete",
                              !.doomed = {i \in @ : Search!There(i) /\ index[i].aliases = {}}]]
    BY DEF Search!ReadIdle, Search!Go
  <2>2. [run[r] EXCEPT !.pc = "delete", !.doomed = {i \in @ : Search!There(i) /\ index[i].aliases = {}}] = next
    BY <1>2, <1>3
  <2> QED
    BY <2>1, <2>2 DEF Search!ReadIdle
<1>5. next \in Reindexes /\ next.pc = "delete" /\ next.page = run[r].page /\ next.doomed = names
  BY <1>1, <1>2, <1>3 DEF Reindexes, Building
<1>6. Knows(next) /\ Filled(next)
  BY <1>2, <1>5 DEF Knows, Filled, Building, Search!There
<1> QED
  BY <1>4, <1>5, <1>6, ReadsKeepSearch

LEMMA BeginsKeepSearch ==
  ASSUME SearchInv, NEW r \in Runners, Search!BeginRebuild(r)
  PROVE  SearchInv'
<1>1. SearchTypes /\ UNCHANGED <<row, category, events, job, late, swap>>
  BY DEF SearchInv, Search!BeginRebuild
<1>2. CASE UNCHANGED index /\ Search!Go(r, Search!Ended)
  BY <1>1, <1>2, RestsAre, RestKeepsSearch
<1>3. CASE /\ Search!Holding("rebuilding") = {}
           /\ \E i \in Fresh :
                /\ index[i].state = "unused"
                /\ index' = [index EXCEPT ![i] =
                               [state |-> "there", aliases |-> {"rebuilding"}, doc |-> Search!Blank]]
                /\ Search!Go(r, [Search!IdleRun EXCEPT !.pc = "page", !.own = i])
  <2>1. PICK i \in Fresh :
          /\ index[i].state = "unused"
          /\ index' = [index EXCEPT ![i] = [state |-> "there", aliases |-> {"rebuilding"}, doc |-> Search!Blank]]
          /\ Search!Go(r, [Search!IdleRun EXCEPT !.pc = "page", !.own = i])
    BY <1>3
  <2>2. PICK next : next = [Search!IdleRun EXCEPT !.pc = "page", !.own = i]
    OBVIOUS
  <2>3. i \in Search!Indices /\ run' = [run EXCEPT ![r] = next]
    BY <2>1, <2>2 DEF Search!Go, Search!Indices
  <2>4. next \in Reindexes /\ next.pc = "page" /\ next.page = {} /\ next.own = i /\ next.cursor = 0
    BY <2>2, <2>3 DEF Search!IdleRun, Reindexes, Building, Search!Indices
  <2>5. PICK new : new = [state |-> "there", aliases |-> {"rebuilding"}, doc |-> Search!Blank]
    OBVIOUS
  <2>6. /\ new \in IndexStates /\ new.state = "there" /\ new.aliases = {"rebuilding"}
        /\ \A p \in Listed : new.doc[p].ver = 0
    <3>1. Search!Absent \in Docs /\ Search!Absent.ver = 0
      BY DEF Search!Absent, Docs
    <3>2. Search!Blank \in [Listed -> Docs] /\ \A p \in Listed : Search!Blank[p].ver = 0
      BY <3>1 DEF Search!Blank
    <3> QED
      BY <2>5, <3>2 DEF IndexStates
  <2>7. index'[i] = new /\ \A j \in Search!Indices : j # i => index'[j] = index[j]
    BY <1>1, <2>1, <2>3, <2>5 DEF SearchTypes
  <2>8. index' \in [Search!Indices -> IndexStates]
    BY <1>1, <2>1, <2>3, <2>5, <2>6 DEF SearchTypes
  <2>9. SearchTypes'
    BY <1>1, <2>3, <2>4, <2>8 DEF SearchTypes
  <2>10. index[i].aliases = {}
    BY <2>1, <2>3 DEF SearchInv, OneAlias
  <2>11. Search!Holding("rebuilding")' = {i} /\ Search!Holding("products")' = Search!Holding("products")
    BY <1>3, <2>3, <2>6, <2>7, <2>10 DEF Search!Holding, Search!There, Search!Indices
  <2>12. OneAlias'
    <3>1. \A j \in Search!Indices : /\ index'[j].aliases \in {{}, {"products"}, {"rebuilding"}}
                                    /\ index'[j].state # "there" => index'[j].aliases = {}
      BY <2>6, <2>7 DEF SearchInv, OneAlias
    <3> QED
      BY <2>11, <3>1 DEF SearchInv, OneAlias
  <2>13. \A x \in Runners : run'[x] = run[x] \/ run'[x] = next
    BY <1>1, <2>3 DEF SearchTypes
  <2>14. RunsKnow'
    <3>1. ASSUME NEW x \in Runners PROVE Knows(run[x])'
      <4>1. CASE run'[x] = next
        BY <2>4, <2>6, <2>7, <4>1 DEF Knows
      <4>2. CASE run'[x] = run[x]
        <5>1. run[x].own \in Search!Indices /\ run[x].doomed \subseteq Search!Indices /\ Knows(run[x])
          BY <1>1, SearchFields DEF SearchInv, RunsKnow
        <5>2. run[x].pc \in Building => index'[run[x].own].state # "unused"
          BY <2>6, <2>7, <5>1 DEF Knows
        <5>3. run[x].pc = "delete" => \A j \in run[x].doomed : index'[j].state # "unused" /\ index'[j].aliases = {}
          BY <2>1, <2>7, <5>1 DEF Knows
        <5> QED
          BY <4>2, <5>1, <5>2, <5>3 DEF Knows
      <4> QED
        BY <2>13, <4>1, <4>2
    <3>2. \A s \in swap : s.own \in Search!Indices
      BY <1>1 DEF SearchTypes
    <3> QED
      BY <1>1, <2>6, <2>7, <3>1, <3>2 DEF SearchInv, RunsKnow
  <2>15. Serving'
    <3> SUFFICES ASSUME NEW j \in Search!Holding("products"), NEW p \in Listed PROVE Current(p, j)'
      BY <2>11 DEF Serving
    <3>1. j \in Search!Indices /\ j # i /\ Current(p, j)
      BY <2>10 DEF SearchInv, Serving, Search!Holding
    <3> QED
      BY <1>1, <2>7, <3>1, CurrentStays
  <2>16. Rebuilt'
    <3>1. ASSUME NEW x \in Runners PROVE Filled(run[x])'
      <4>1. CASE run'[x] = next
        <5>1. \A p \in Listed : p > 0
          BY ListedIs
        <5> QED
          BY <2>4, <4>1, <5>1 DEF Filled
      <4>2. CASE run'[x] = run[x]
        <5>1. run[x].pc \in Building => run[x].own # i
          BY <2>1 DEF SearchInv, RunsKnow, Knows
        <5> QED
          BY <2>11, <4>2, <5>1 DEF Filled, Building
      <4> QED
        BY <2>13, <4>1, <4>2
    <3>2. \A s \in swap : s.own # i
      BY <2>1 DEF SearchInv, RunsKnow
    <3> QED
      BY <1>1, <2>11, <3>1, <3>2 DEF Rebuilt
  <2>17. ASSUME NEW j \in Search!Indices, NEW p \in Listed
         PROVE  index'[j].doc[p] = index[j].doc[p] \/ Shows(p, index[j].doc[p])'
    <3>1. row'[p].ver \in Nat
      BY <2>9 DEF SearchTypes
    <3>2. CASE j = i
      BY <2>6, <2>7, <3>1, <3>2 DEF Shows
    <3> QED
      BY <2>7, <3>2
  <2>18. \A x \in Runners : run'[x].page \subseteq run[x].page
    BY <1>1, <2>3, <2>4 DEF SearchTypes
  <2> QED
    BY <1>1, <2>9, <2>12, <2>14, <2>15, <2>16, <2>17, <2>18, RunsMove
<1> QED
  BY <1>2, <1>3 DEF Search!BeginRebuild

(* A page written through the rebuild's alias: each of its documents is then as new as its row. *)
LEMMA FillsRaise ==
  ASSUME SearchInv, NEW r \in Runners, Search!FillPage(r), Search!Holding("rebuilding") # {}
  PROVE  /\ AliasesStay /\ index' \in [Search!Indices -> IndexStates]
         /\ \A i \in Search!Indices, p \in Listed :
              \/ index'[i].doc[p] = index[i].doc[p]
              \/ \E s \in run[r].page : /\ s.id = p /\ index'[i].doc[p].ver = s.ver /\ index'[i].doc[p].name = s.name
                                        /\ index'[i].doc[p].shown = s.shown
         /\ \A i \in Search!Indices, p \in Listed :
              index[i].doc[p].ver = row[p].ver => index'[i].doc[p].ver = row[p].ver
         /\ \A i \in Search!Holding("rebuilding"), s \in run[r].page :
              s.ver = row[s.id].ver => index'[i].doc[s.id].ver = row[s.id].ver
<1> DEFINE Newer(i, p) == {s \in run[r].page : s.id = p /\ s.ver > index[i].doc[p].ver}
           Doc(i, p) == IF Newer(i, p) = {} THEN index[i].doc[p]
                        ELSE [ver |-> (CHOOSE s \in Newer(i, p) : TRUE).ver, name |-> (CHOOSE s \in Newer(i, p) : TRUE).name,
                              shown |-> (CHOOSE s \in Newer(i, p) : TRUE).shown]
<1>1. /\ SearchTypes /\ run[r].page \subseteq Snapshots /\ Once(run[r].page) /\ \A s \in run[r].page : Shows(s.id, s)
      /\ \A i \in Search!Indices, p \in Listed :
           index[i].doc[p] \in Docs /\ index[i].doc[p].ver \in Nat /\ row[p].ver \in Nat /\ Shows(p, index[i].doc[p])
      /\ \A i \in Search!Indices : index[i] \in IndexStates
  <2>1. SearchTypes /\ Once(run[r].page) /\ (\A s \in run[r].page : Shows(s.id, s)) /\
        \A i \in Search!Indices, p \in Listed : Shows(p, index[i].doc[p])
    BY DEF SearchInv, PagesFit, AllShow
  <2>2. \A i \in Search!Indices : index[i] \in IndexStates
    BY <2>1 DEF SearchTypes
  <2> QED
    BY <2>1, <2>2, SearchFields
<1>2. \A s \in Snapshots : s.id \in Listed /\ s.ver \in Nat /\ s.name \in Nat /\ s.shown \in BOOLEAN
  BY DEF Snapshots
<1>3. index' = [i \in Search!Indices |-> IF i \notin Search!Holding("rebuilding") THEN index[i]
                                        ELSE [index[i] EXCEPT !.doc = [p \in Listed |-> Doc(i, p)]]]
  BY DEF Search!FillPage, Search!Newer
<1>4. ASSUME NEW i \in Search!Indices, NEW p \in Listed
      PROVE  \/ Newer(i, p) = {} /\ Doc(i, p) = index[i].doc[p]
             \/ \E s \in Newer(i, p) : Doc(i, p) = [ver |-> s.ver, name |-> s.name, shown |-> s.shown]
  <2>1. CASE Newer(i, p) = {}
    BY <2>1
  <2>2. CASE Newer(i, p) # {}
    <3> DEFINE s == CHOOSE s \in Newer(i, p) : TRUE
    <3>1. s \in Newer(i, p)
      BY <2>2
    <3>2. Doc(i, p) = [ver |-> s.ver, name |-> s.name, shown |-> s.shown]
      BY <2>2
    <3> HIDE DEF s, Doc, Newer
    <3> QED
      BY <3>1, <3>2
  <2> QED
    BY <2>1, <2>2
<1>5. ASSUME NEW i \in Search!Indices, NEW p \in Listed
      PROVE  /\ Doc(i, p) \in Docs
             /\ \/ Doc(i, p) = index[i].doc[p] /\ Newer(i, p) = {}
                \/ \E s \in Newer(i, p) : Doc(i, p).ver = s.ver /\ Doc(i, p).name = s.name /\ Doc(i, p).shown = s.shown
  <2>1. Newer(i, p) \subseteq Snapshots
    BY <1>1
  <2> HIDE DEF Doc, Newer
  <2> QED
    BY <1>1, <1>2, <1>4, <2>1 DEF Docs
<1>6. ASSUME NEW i \in Search!Indices
      PROVE  /\ index'[i] \in IndexStates /\ index'[i].state = index[i].state /\ index'[i].aliases = index[i].aliases
             /\ i \notin Search!Holding("rebuilding") => index'[i] = index[i]
             /\ i \in Search!Holding("rebuilding") => \A p \in Listed : index'[i].doc[p] = Doc(i, p)
  <2>1. PICK docs : docs = [p \in Listed |-> Doc(i, p)]
    OBVIOUS
  <2>2. docs \in [Listed -> Docs] /\ \A p \in Listed : docs[p] = Doc(i, p)
    BY <1>5, <2>1
  <2>3. index'[i] = IF i \notin Search!Holding("rebuilding") THEN index[i] ELSE [index[i] EXCEPT !.doc = docs]
    BY <1>3, <2>1
  <2> HIDE DEF Doc
  <2> QED
    BY <1>1, <2>2, <2>3 DEF IndexStates
<1>7. \A i \in Search!Holding("rebuilding") : i \in Search!Indices
  BY DEF Search!Holding
<1>8. AliasesStay
  BY <1>6 DEF AliasesStay
<1>9. index' \in [Search!Indices -> IndexStates]
  <2>1. DOMAIN index' = Search!Indices /\ index' = [i \in Search!Indices |-> index'[i]]
    BY <1>3
  <2> QED
    BY <1>6, <2>1
<1>10. ASSUME NEW i \in Search!Indices, NEW p \in Listed
       PROVE  /\ \/ index'[i].doc[p] = index[i].doc[p]
                 \/ \E s \in run[r].page : /\ s.id = p /\ index'[i].doc[p].ver = s.ver /\ index'[i].doc[p].name = s.name
                                           /\ index'[i].doc[p].shown = s.shown
              /\ index[i].doc[p].ver = row[p].ver => index'[i].doc[p].ver = row[p].ver
  <2>1. index'[i].doc[p] = index[i].doc[p] \/ \E s \in Newer(i, p) :
          index'[i].doc[p].ver = s.ver /\ index'[i].doc[p].name = s.name /\ index'[i].doc[p].shown = s.shown
    <3>1. \/ Doc(i, p) = index[i].doc[p]
          \/ \E s \in Newer(i, p) : Doc(i, p).ver = s.ver /\ Doc(i, p).name = s.name /\ Doc(i, p).shown = s.shown
      BY <1>5
    <3>2. index'[i] = index[i] \/ index'[i].doc[p] = Doc(i, p)
      BY <1>6
    <3> HIDE DEF Doc, Newer
    <3> QED
      BY <3>1, <3>2
  <2>2. CASE index'[i].doc[p] = index[i].doc[p]
    BY <2>2
  <2>3. CASE \E s \in Newer(i, p) :
          index'[i].doc[p].ver = s.ver /\ index'[i].doc[p].name = s.name /\ index'[i].doc[p].shown = s.shown
    <3>1. PICK s \in Newer(i, p) :
            index'[i].doc[p].ver = s.ver /\ index'[i].doc[p].name = s.name /\ index'[i].doc[p].shown = s.shown
      BY <2>3
    <3>2. s \in run[r].page /\ s.id = p /\ s.ver > index[i].doc[p].ver /\ s.ver \in Nat /\ s.ver <= row[p].ver
      BY <1>1, <1>2, <3>1 DEF Shows
    <3> QED
      BY <1>1, <3>1, <3>2
  <2> QED
    BY <2>1, <2>2, <2>3
<1>11. ASSUME NEW i \in Search!Holding("rebuilding"), NEW s \in run[r].page, s.ver = row[s.id].ver
       PROVE  index'[i].doc[s.id].ver = row[s.id].ver
  <2>1. PICK p \in Listed : p = s.id
    BY <1>1, <1>2
  <2>2. i \in Search!Indices /\ index'[i].doc[p] = Doc(i, p)
    BY <1>6, <1>7
  <2>3. CASE Newer(i, p) = {}
    <3>1. ~(s.ver > index[i].doc[p].ver) /\ Doc(i, p) = index[i].doc[p]
      BY <2>1, <2>3
    <3>2. s.ver \in Nat /\ index[i].doc[p].ver \in Nat /\ index[i].doc[p].ver <= row[p].ver
      BY <1>1, <1>2, <2>2 DEF Shows
    <3> HIDE DEF Doc
    <3> QED
      BY <1>11, <2>1, <2>2, <3>1, <3>2
  <2>4. CASE \E t \in Newer(i, p) : Doc(i, p).ver = t.ver
    <3>1. PICK t \in Newer(i, p) : Doc(i, p).ver = t.ver
      BY <2>4
    <3>2. t = s
      BY <1>1, <2>1, <3>1 DEF Once
    <3> HIDE DEF Doc
    <3> QED
      BY <1>11, <2>1, <2>2, <3>1, <3>2
  <2>5. Newer(i, p) = {} \/ \E t \in Newer(i, p) : Doc(i, p).ver = t.ver
    <3> HIDE DEF Doc, Newer
    <3> QED
      BY <1>5, <2>2
  <2> QED
    BY <2>3, <2>4, <2>5
<1> QED
  BY <1>8, <1>9, <1>10, <1>11

LEMMA FillsKeepSearch ==
  ASSUME SearchInv, NEW r \in Runners, Search!FillPage(r)
  PROVE  SearchInv'
<1>1. /\ SearchTypes /\ run[r] \in Reindexes /\ Knows(run[r]) /\ Filled(run[r])
      /\ run[r].pc = "fill" /\ UNCHANGED <<row, category, events, job, late, swap>>
  BY SearchFields DEF SearchInv, RunsKnow, Rebuilt, Search!FillPage
<1>2. CASE Search!Holding("rebuilding") = {}
  BY <1>1, <1>2, RestsAre, RestKeepsSearch DEF Search!FillPage
<1>3. CASE Search!Holding("rebuilding") # {}
  <2>1. /\ AliasesStay /\ index' \in [Search!Indices -> IndexStates]
        /\ \A i \in Search!Indices, p \in Listed :
             \/ index'[i].doc[p] = index[i].doc[p]
             \/ \E s \in run[r].page : /\ s.id = p /\ index'[i].doc[p].ver = s.ver /\ index'[i].doc[p].name = s.name
                                       /\ index'[i].doc[p].shown = s.shown
        /\ \A i \in Search!Indices, p \in Listed :
             index[i].doc[p].ver = row[p].ver => index'[i].doc[p].ver = row[p].ver
        /\ \A i \in Search!Holding("rebuilding"), s \in run[r].page :
             s.ver = row[s.id].ver => index'[i].doc[s.id].ver = row[s.id].ver
    BY <1>3, FillsRaise
  <2>2. PICK next :
          /\ next = (IF Search!Cardinality(run[r].page) < PageSize
                     THEN [run[r] EXCEPT !.pc = "promote", !.page = {}, !.cursor = 0]
                     ELSE [run[r] EXCEPT !.pc = "page", !.page = {}])
          /\ run' = [run EXCEPT ![r] = next]
    BY <1>3 DEF Search!FillPage, Search!Go
  <2>3. /\ next \in Reindexes /\ next.page = {} /\ next.own = run[r].own
        /\ \/ Search!Cardinality(run[r].page) < PageSize /\ next.pc = "promote"
           \/ ~(Search!Cardinality(run[r].page) < PageSize) /\ next.pc = "page" /\ next.cursor = run[r].cursor
    BY <1>1, <2>2 DEF Reindexes, Building
  <2>4. SearchTypes'
    BY <1>1, <2>1, <2>2, <2>3 DEF SearchTypes
  <2>5. /\ Search!Holding("products")' = Search!Holding("products")
        /\ Search!Holding("rebuilding")' = Search!Holding("rebuilding")
        /\ OneAlias'
    BY <2>1, HoldingStays, OneAliasStays DEF SearchInv
  <2>6. /\ RowsMove
        /\ \A p \in Listed : (Renaming(p)' <=> Renaming(p)) /\ \A w \in Workers : \A i : Sends(w, p, i)' <=> Sends(w, p, i)
    BY <1>1, RowsStay
  <2>7. \A p \in Listed, i \in Search!Indices : Current(p, i) => Current(p, i)'
    BY <1>1, <2>1, <2>6 DEF Current
  <2>8. \A x \in Runners : run'[x] = run[x] \/ run'[x] = next
    BY <1>1, <2>2 DEF SearchTypes
  <2>9. RunsKnow'
    <3>1. ASSUME NEW x \in Runners PROVE Knows(run[x])'
      <4>1. run[x].own \in Search!Indices /\ run[x].doomed \subseteq Search!Indices /\ Knows(run[x])
        BY <1>1, SearchFields DEF SearchInv, RunsKnow
      <4>2. CASE run'[x] = next
        <5>1. index'[run[r].own].state # "unused"
          BY <1>1, <2>1, SearchFields DEF Knows, Building, AliasesStay
        <5> QED
          BY <2>3, <4>2, <5>1 DEF Knows
      <4>3. CASE run'[x] = run[x]
        <5>1. run[x].pc \in Building => index'[run[x].own].state # "unused"
          BY <2>1, <4>1 DEF Knows, AliasesStay
        <5>2. run[x].pc = "delete" => \A j \in run[x].doomed : index'[j].state # "unused" /\ index'[j].aliases = {}
          BY <2>1, <4>1 DEF Knows, AliasesStay
        <5> QED
          BY <4>1, <4>3, <5>1, <5>2 DEF Knows
      <4> QED
        BY <2>8, <4>2, <4>3
    <3>2. \A s \in swap : s.own \in Search!Indices
      BY <1>1 DEF SearchTypes
    <3> QED
      BY <1>1, <2>1, <3>1, <3>2 DEF SearchInv, RunsKnow, AliasesStay
  <2>10. Serving'
    BY <2>5, <2>7 DEF SearchInv, Serving, Search!Holding
  <2>11. Rebuilt'
    <3>0. \A i \in Search!Holding("rebuilding") : i \in Search!Indices
      BY DEF Search!Holding
    <3>1. ASSUME NEW x \in Runners PROVE Filled(run[x])'
      <4>1. CASE run'[x] = run[x]
        <5>1. PICK y : y = run[x] /\ run'[x] = y /\ Filled(y)
          BY <4>1 DEF SearchInv, Rebuilt
        <5>2. Filled(y)'
          BY <1>1, <2>5, <2>7, <3>0, <5>1 DEF Filled
        <5> QED
          BY <5>1, <5>2
      <4>2. CASE run'[x] = next
        <5>1. ASSUME next.own \in Search!Holding("rebuilding"), NEW p \in Listed
              PROVE  Current(p, next.own)' \/ (next.pc = "page" /\ p > next.cursor)
          <6>1. next.own \in Search!Indices
            BY <3>0, <5>1
          <6>2. CASE Current(p, run[r].own)
            BY <2>3, <2>7, <6>1, <6>2
          <6>3. CASE ~(Search!Cardinality(run[r].page) < PageSize) /\ p > run[r].cursor
            BY <2>3, <6>3
          <6>4. CASE \E s \in run[r].page : s.id = p /\ s.ver = row[p].ver
            BY <1>1, <2>1, <2>3, <5>1, <6>4 DEF Current
          <6> QED
            BY <1>1, <2>3, <5>1, <6>2, <6>3, <6>4 DEF Filled
        <5>2. Filled(next)'
          BY <2>3, <2>5, <5>1 DEF Filled
        <5> QED
          BY <4>2, <5>2
      <4> QED
        BY <2>8, <4>1, <4>2
    <3> QED
      BY <1>1, <2>5, <2>7, <3>0, <3>1 DEF SearchInv, Rebuilt
  <2>12. ASSUME NEW i \in Search!Indices, NEW p \in Listed, index'[i].doc[p] # index[i].doc[p]
         PROVE  Shows(p, index[i].doc[p])'
    <3>1. PICK s \in run[r].page : /\ s.id = p /\ index'[i].doc[p].ver = s.ver /\ index'[i].doc[p].name = s.name
                                   /\ index'[i].doc[p].shown = s.shown
      BY <2>1, <2>12
    <3>2. Shows(p, s) /\ s.ver \in Nat
      BY <1>1, <3>1, SearchFields DEF SearchInv, AllShow, Snapshots
    <3>3. Shows(p, s)'
      BY <1>1, <2>6, <3>2, ShowsKept
    <3> QED
      BY <3>1, <3>3 DEF Shows
  <2>13. \A x \in Runners : run'[x].page \subseteq run[x].page
    BY <1>1, <2>2, <2>3 DEF SearchTypes
  <2> QED
    BY <1>1, <2>4, <2>5, <2>9, <2>10, <2>11, <2>12, <2>13, RunsMove
<1> QED
  BY <1>2, <1>3

(* A swap that applies takes the alias from the one index that serves to the one that is locked, which *)
(* has every row; what served before, and the lock, hold no alias then.                                *)
LEMMA SwapServes ==
  ASSUME SearchInv, UNCHANGED <<row, category, events, job>>,
         NEW own \in Search!Indices, NEW serving \in SUBSET Search!Indices, serving # {},
         NEW s, s = [own |-> own, serving |-> serving],
         Search!SwapApplies(s), index' = Search!Swapped(s), \A p \in Listed : Current(p, own)
  PROVE  /\ index' \in [Search!Indices -> IndexStates]
         /\ \A i \in Search!Indices : /\ index'[i].state = index[i].state /\ index'[i].doc = index[i].doc
                                      /\ index[i].aliases = {} => index'[i].aliases = {}
         /\ Search!Holding("rebuilding")' = {} /\ OneAlias' /\ Serving'
<1>1. /\ SearchTypes /\ \A i \in Search!Indices : index[i] \in IndexStates
      /\ \A i \in Search!Indices : /\ index[i].aliases \in {{}, {"products"}, {"rebuilding"}}
                                   /\ index[i].state # "there" => index[i].aliases = {}
  BY DEF SearchInv, SearchTypes, OneAlias
<1>2. PICK c \in Search!Indices : Search!Holding("products") = {c}
  BY DEF SearchInv, OneAlias
<1>3. /\ \A i \in serving : Search!There(i) /\ "products" \in index[i].aliases
      /\ Search!There(own) /\ "rebuilding" \in index[own].aliases
  BY DEF Search!SwapApplies
<1>4. serving = {c}
  BY <1>2, <1>3 DEF Search!Holding
<1>5. own \in Search!Holding("rebuilding") /\ Search!Holding("rebuilding") = {own}
  BY <1>3 DEF SearchInv, OneAlias, Search!Holding
<1>6. index[c].aliases = {"products"} /\ index[own].aliases = {"rebuilding"} /\ own # c
  BY <1>1, <1>2, <1>3, <1>4
<1>7. \A i \in Search!Indices : i # c /\ i # own => index[i].aliases = {}
  <2>1. \A i \in Search!Indices : /\ "products" \in index[i].aliases => i = c
                                  /\ "rebuilding" \in index[i].aliases => i = own
    BY <1>1, <1>2, <1>5 DEF Search!Holding, Search!There
  <2> QED
    BY <1>1, <2>1
<1>8. index' = [i \in Search!Indices |->
                 [index[i] EXCEPT !.aliases = IF i = own THEN (@ \ {"rebuilding"}) \cup {"products"}
                                              ELSE IF i \in serving THEN @ \ {"products"} ELSE @]]
  BY DEF Search!Swapped
<1>9. \A i \in Search!Indices :
        /\ index'[i] \in IndexStates /\ index'[i].state = index[i].state /\ index'[i].doc = index[i].doc
        /\ index'[i].aliases = IF i = own THEN {"products"} ELSE {}
  <2> SUFFICES ASSUME NEW i \in Search!Indices
               PROVE  /\ index'[i] \in IndexStates /\ index'[i].state = index[i].state /\ index'[i].doc = index[i].doc
                      /\ index'[i].aliases = IF i = own THEN {"products"} ELSE {}
    OBVIOUS
  <2>1. PICK names : names = IF i = own THEN (index[i].aliases \ {"rebuilding"}) \cup {"products"}
                             ELSE IF i \in serving THEN index[i].aliases \ {"products"} ELSE index[i].aliases
    OBVIOUS
  <2>2. index'[i] = [index[i] EXCEPT !.aliases = names]
    BY <1>8, <2>1
  <2>3. names = IF i = own THEN {"products"} ELSE {}
    BY <1>4, <1>6, <1>7, <2>1
  <2>4. names \in SUBSET {"products", "rebuilding"}
    BY <2>3
  <2> QED
    BY <1>1, <2>2, <2>3, <2>4 DEF IndexStates
<1>10. index' \in [Search!Indices -> IndexStates]
  <2>1. index' = [i \in Search!Indices |-> index'[i]]
    BY <1>8
  <2> QED
    BY <1>9, <2>1
<1>11. Search!Holding("products")' = {own} /\ Search!Holding("rebuilding")' = {}
  BY <1>3, <1>9 DEF Search!Holding, Search!There, Search!Indices
<1>12. OneAlias'
  <2>1. \A i \in Search!Indices : /\ index'[i].aliases \in {{}, {"products"}, {"rebuilding"}}
                                  /\ index'[i].state # "there" => index'[i].aliases = {}
    BY <1>3, <1>9 DEF Search!There
  <2> QED
    BY <1>11, <2>1 DEF OneAlias
<1>13. Serving'
  <2>1. \A p \in Listed : Current(p, own)'
    BY <1>1, <1>9, CurrentStays
  <2> QED
    BY <1>11, <2>1 DEF Serving
<1> QED
  BY <1>6, <1>9, <1>10, <1>11, <1>12, <1>13

(* Once no index is locked: runs and late swaps find nothing to swap, whatever they were about to do.  *)
LEMMA Unlocked ==
  ASSUME SearchInv, UNCHANGED <<row, category, events, job, late>>,
         index' \in [Search!Indices -> IndexStates], run' \in [Runners -> Reindexes], swap' \subseteq swap,
         \A i \in Search!Indices : /\ index'[i].state = index[i].state /\ index'[i].doc = index[i].doc
                                   /\ index[i].aliases = {} => index'[i].aliases = {},
         Search!Holding("rebuilding")' = {}, OneAlias', Serving',
         \A x \in Runners : run'[x] = run[x] \/ (run'[x].page \subseteq run[x].page /\ Knows(run[x])')
  PROVE  SearchInv'
<1>1. SearchTypes /\ SearchTypes'
  BY DEF SearchInv, SearchTypes
<1>2. RunsKnow'
  <2>1. ASSUME NEW x \in Runners PROVE Knows(run[x])'
    <3>1. CASE run'[x] = run[x]
      <4>1. run[x].own \in Search!Indices /\ run[x].doomed \subseteq Search!Indices /\ Knows(run[x])
        BY <1>1, SearchFields DEF SearchInv, RunsKnow
      <4>2. run[x].pc \in Building => index'[run[x].own].state # "unused"
        BY <4>1 DEF Knows
      <4>3. run[x].pc = "delete" => \A j \in run[x].doomed : index'[j].state # "unused" /\ index'[j].aliases = {}
        BY <4>1 DEF Knows
      <4> QED
        BY <3>1, <4>1, <4>2, <4>3 DEF Knows
    <3> QED
      BY <3>1
  <2>2. \A s \in swap : s.own \in Search!Indices
    BY <1>1 DEF SearchTypes
  <2> QED
    BY <2>1, <2>2 DEF SearchInv, RunsKnow
<1>3. Rebuilt'
  BY DEF Rebuilt, Filled
<1> QED
  BY <1>1, <1>2, <1>3, RunsMove

LEMMA LateSwapKeepsSearch ==
  ASSUME SearchInv, Search!LateSwap
  PROVE  SearchInv'
<1>1. PICK s \in swap :
        /\ index' = IF Search!SwapApplies(s) THEN Search!Swapped(s) ELSE index
        /\ swap' = swap \ {s} /\ UNCHANGED <<row, category, events, job, late, run>>
  BY DEF Search!LateSwap
<1>2. /\ SearchTypes /\ s \in [own : Search!Indices, serving : SUBSET Search!Indices]
      /\ s.serving # {}
      /\ s.own \in Search!Holding("rebuilding") => \A p \in Listed : Current(p, s.own)
  BY DEF SearchInv, SearchTypes, RunsKnow, Rebuilt
<1>3. CASE ~Search!SwapApplies(s)
  <2>1. /\ index' = index /\ SearchTypes' /\ AliasesStay
    BY <1>1, <1>2, <1>3 DEF SearchTypes, AliasesStay
  <2>2. /\ RunsKnow' /\ OneAlias'
    BY <1>1, <2>1, OneAliasStays DEF SearchInv, RunsKnow, Knows
  <2>3. \A p \in Listed : \A i : Current(p, i)' <=> Current(p, i)
    BY <1>1, <1>2, <2>1, CurrentStays
  <2>4. /\ Search!Holding("products")' = Search!Holding("products")
        /\ Search!Holding("rebuilding")' = Search!Holding("rebuilding")
    BY <2>1, HoldingStays
  <2>5. Serving'
    BY <2>3, <2>4 DEF SearchInv, Serving
  <2>6. \A x \in Runners : Filled(run[x])'
    BY <1>1, <2>3, <2>4 DEF SearchInv, Rebuilt, Filled
  <2>7. Rebuilt'
    BY <1>1, <2>3, <2>4, <2>6 DEF SearchInv, Rebuilt
  <2> QED
    BY <1>1, <2>1, <2>2, <2>5, <2>7, RunsMove
<1>4. CASE Search!SwapApplies(s)
  <2>1. PICK own \in Search!Indices, serving \in SUBSET Search!Indices :
          s = [own |-> own, serving |-> serving] /\ own = s.own /\ serving = s.serving
    BY <1>2
  <2>2. own \in Search!Holding("rebuilding")
    BY <1>4, <2>1 DEF Search!SwapApplies, Search!Holding
  <2>3. \A p \in Listed : Current(p, own)
    BY <1>2, <2>1, <2>2
  <2>4. /\ index' \in [Search!Indices -> IndexStates]
        /\ \A i \in Search!Indices : /\ index'[i].state = index[i].state /\ index'[i].doc = index[i].doc
                                     /\ index[i].aliases = {} => index'[i].aliases = {}
        /\ Search!Holding("rebuilding")' = {} /\ OneAlias' /\ Serving'
    BY <1>1, <1>2, <1>4, <2>1, <2>3, SwapServes
  <2> QED
    BY <1>1, <1>2, <2>4, Unlocked DEF SearchTypes
<1> QED
  BY <1>3, <1>4

LEMMA PromotesKeepSearch ==
  ASSUME SearchInv, NEW r \in Runners, Search!Promote(r)
  PROVE  SearchInv'
<1>1. PICK own \in Search!Indices, serving \in SUBSET Search!Indices : own = run[r].own /\ serving = run[r].serving
  BY SearchFields DEF SearchInv
<1>2. PICK s : s = [own |-> own, serving |-> serving]
  OBVIOUS
<1>3. /\ run[r].pc = "swap" /\ UNCHANGED <<row, category, events, job, late>>
      /\ \/ /\ Search!SwapApplies(s) /\ index' = Search!Swapped(s) /\ swap' = swap
            /\ Search!Go(r, [Search!IdleRun EXCEPT !.pc = "retire", !.doomed = run[r].doomed])
         \/ /\ swap' \subseteq swap \cup {s}
            /\ Search!Go(r, Search!Aborting(r)) /\ UNCHANGED index
  BY <1>1, <1>2 DEF Search!Promote
<1>4. /\ SearchTypes /\ run[r] \in Reindexes /\ Knows(run[r]) /\ Filled(run[r])
      /\ run[r].doomed \in SUBSET Search!Indices
  BY SearchFields DEF SearchInv, RunsKnow, Rebuilt
<1>5. /\ serving # {} /\ index[own].state # "unused"
      /\ own \in Search!Holding("rebuilding") => \A p \in Listed : Current(p, own)
  BY <1>1, <1>3, <1>4 DEF Knows, Filled, Building
<1>6. s \in [own : Search!Indices, serving : SUBSET Search!Indices] /\ s.own = own /\ s.serving = serving
  BY <1>2
<1>7. CASE swap' \subseteq swap \cup {s} /\ Search!Go(r, Search!Aborting(r)) /\ UNCHANGED index
  BY <1>3, <1>4, <1>5, <1>6, <1>7, RestsAre, RestKeepsSearch
<1>8. CASE /\ Search!SwapApplies(s) /\ index' = Search!Swapped(s) /\ swap' = swap
           /\ Search!Go(r, [Search!IdleRun EXCEPT !.pc = "retire", !.doomed = run[r].doomed])
  <2>1. own \in Search!Holding("rebuilding")
    BY <1>6, <1>8 DEF Search!SwapApplies, Search!Holding
  <2>2. /\ index' \in [Search!Indices -> IndexStates]
        /\ \A i \in Search!Indices : /\ index'[i].state = index[i].state /\ index'[i].doc = index[i].doc
                                     /\ index[i].aliases = {} => index'[i].aliases = {}
        /\ Search!Holding("rebuilding")' = {} /\ OneAlias' /\ Serving'
    BY <1>2, <1>3, <1>5, <1>8, <2>1, SwapServes
  <2>3. PICK next : next = [Search!IdleRun EXCEPT !.pc = "retire", !.doomed = run[r].doomed]
    OBVIOUS
  <2>4. next \in Reindexes /\ next.pc = "retire" /\ next.page = {}
    BY <1>4, <2>3 DEF Search!IdleRun, Reindexes, Building, Search!Indices
  <2>5. run' = [run EXCEPT ![r] = next]
    BY <1>8, <2>3 DEF Search!Go
  <2>6. Knows(next)'
    BY <2>4 DEF Knows, Building
  <2>7. /\ run' \in [Runners -> Reindexes]
        /\ \A x \in Runners : run'[x] = run[x] \/ (run'[x] = next /\ run'[x].page \subseteq run[x].page)
    BY <1>4, <2>4, <2>5 DEF SearchTypes
  <2>8. \A x \in Runners : run'[x] = run[x] \/ (run'[x].page \subseteq run[x].page /\ Knows(run[x])')
    BY <2>6, <2>7 DEF Knows
  <2> QED
    BY <1>3, <1>8, <2>2, <2>7, <2>8, Unlocked
<1> QED
  BY <1>3, <1>7, <1>8

LEMMA ReleasesKeepSearch ==
  ASSUME SearchInv, NEW r \in Runners, Search!ReleaseLock(r)
  PROVE  SearchInv'
<1>1. PICK i : i = CHOOSE j \in run[r].doomed : TRUE
  OBVIOUS
<1>2. /\ run[r].pc = "release" /\ UNCHANGED <<row, category, events, job, late, swap>>
      /\ IF Search!Released(i)
         THEN /\ index' = [index EXCEPT ![i].aliases = @ \ {"rebuilding"}]
              /\ Search!Go(r, [run[r] EXCEPT !.pc = "delete"])
         ELSE Search!Go(r, Search!Aborted(r)) /\ UNCHANGED index
  BY <1>1 DEF Search!ReleaseLock
<1>3. /\ SearchTypes /\ run[r] \in Reindexes /\ Knows(run[r])
      /\ \A j \in Search!Indices : /\ index[j] \in IndexStates /\ index[j].aliases \in {{}, {"products"}, {"rebuilding"}}
                                   /\ index[j].state # "there" => index[j].aliases = {}
  BY SearchFields DEF SearchInv, SearchTypes, RunsKnow, OneAlias
<1>4. i \in Search!Indices /\ run[r].doomed = {i}
  BY <1>1, <1>2, <1>3 DEF Knows
<1>5. CASE ~Search!Released(i)
  BY <1>2, <1>3, <1>5, RestsAre, RestKeepsSearch
<1>6. CASE Search!Released(i)
  <2>1. Search!There(i) /\ index[i].aliases = {"rebuilding"} /\ i \in Search!Holding("rebuilding")
    BY <1>3, <1>4, <1>6 DEF Search!Released, Search!Holding
  <2>2. Search!Holding("rebuilding") = {i}
    BY <2>1 DEF SearchInv, OneAlias
  <2>3. PICK was : was = index[i] /\ was \in IndexStates
    BY <1>3, <1>4
  <2>4. PICK is : is = [was EXCEPT !.aliases = {}]
    OBVIOUS
  <2>5. is \in IndexStates /\ is.state = was.state /\ is.doc = was.doc /\ is.aliases = {}
    BY <2>3, <2>4 DEF IndexStates
  <2>6. index' = [index EXCEPT ![i] = is]
    <3>1. {"rebuilding"} \ {"rebuilding"} = {}
      OBVIOUS
    <3> QED
      BY <1>2, <1>6, <2>1, <2>3, <2>4, <3>1
  <2>7. index' \in [Search!Indices -> IndexStates] /\ index'[i] = is /\ \A j \in Search!Indices : j # i => index'[j] = index[j]
    BY <1>3, <1>4, <2>5, <2>6 DEF SearchTypes
  <2>8. \A j \in Search!Indices : /\ index'[j].state = index[j].state /\ index'[j].doc = index[j].doc
                                  /\ index[j].aliases = {} => index'[j].aliases = {}
    BY <2>3, <2>5, <2>7
  <2>9. Search!Holding("rebuilding")' = {} /\ Search!Holding("products")' = Search!Holding("products")
    BY <2>1, <2>2, <2>3, <2>5, <2>7 DEF Search!Holding, Search!There, Search!Indices
  <2>10. OneAlias'
    <3>1. \A j \in Search!Indices : /\ index'[j].aliases \in {{}, {"products"}, {"rebuilding"}}
                                    /\ index'[j].state # "there" => index'[j].aliases = {}
      BY <1>3, <2>5, <2>7
    <3> QED
      BY <2>9, <3>1 DEF SearchInv, OneAlias
  <2>11. Serving'
    <3> SUFFICES ASSUME NEW j \in Search!Holding("products"), NEW p \in Listed PROVE Current(p, j)'
      BY <2>9 DEF Serving
    <3>1. j \in Search!Indices /\ Current(p, j)
      BY DEF SearchInv, Serving, Search!Holding
    <3> QED
      BY <1>2, <1>3, <2>8, <3>1, CurrentStays
  <2>12. PICK next : next = [run[r] EXCEPT !.pc = "delete"]
    OBVIOUS
  <2>13. next \in Reindexes /\ next.pc = "delete" /\ next.page = run[r].page /\ next.doomed = {i}
    BY <1>3, <1>4, <2>12 DEF Reindexes, Building
  <2>14. run' = [run EXCEPT ![r] = next]
    BY <1>2, <1>6, <2>12 DEF Search!Go
  <2>15. index'[i].state # "unused" /\ index'[i].aliases = {}
    BY <2>1, <2>3, <2>5, <2>7 DEF Search!There
  <2>16. Knows(next)'
    BY <2>13, <2>15 DEF Knows, Building
  <2>17. /\ run' \in [Runners -> Reindexes]
         /\ \A x \in Runners : run'[x] = run[x] \/ (run'[x] = next /\ run'[x].page \subseteq run[x].page)
    BY <1>3, <2>13, <2>14 DEF SearchTypes
  <2>18. \A x \in Runners : run'[x] = run[x] \/ (run'[x].page \subseteq run[x].page /\ Knows(run[x])')
    BY <2>16, <2>17 DEF Knows
  <2> QED
    BY <1>2, <2>7, <2>8, <2>9, <2>10, <2>11, <2>17, <2>18, Unlocked
<1> QED
  BY <1>5, <1>6

(* Deleted indices hold no alias: none serves, none is being rebuilt. *)
LEMMA DeletionsKeepSearch ==
  ASSUME SearchInv, NEW r \in Runners, Search!DeleteIndices(r)
  PROVE  SearchInv'
<1>1. PICK names : names = run[r].doomed
  OBVIOUS
<1>2. /\ index' = [i \in Search!Indices |->
            IF i \in names THEN [state |-> "deleted", aliases |-> {}, doc |-> Search!Blank] ELSE index[i]]
      /\ run[r].pc = "delete" /\ UNCHANGED <<row, category, events, job, late, swap>>
      /\ Search!Go(r, Search!Aborted(r))
  BY <1>1 DEF Search!DeleteIndices, Search!Deleted
<1>3. /\ SearchTypes /\ Knows(run[r]) /\ \A j \in Search!Indices : index[j] \in IndexStates
      /\ \A i \in Search!Indices, p \in Listed : row[p].ver \in Nat
  BY SearchFields DEF SearchInv, SearchTypes, RunsKnow
<1>4. \A i \in names : index[i].state # "unused" /\ index[i].aliases = {}
  BY <1>1, <1>2, <1>3 DEF Knows
<1>5. PICK gone : gone = [state |-> "deleted", aliases |-> {}, doc |-> Search!Blank]
  OBVIOUS
<1>6. /\ gone \in IndexStates /\ gone.state = "deleted" /\ gone.aliases = {}
      /\ \A p \in Listed : gone.doc[p].ver = 0
  <2>1. Search!Absent \in Docs /\ Search!Absent.ver = 0
    BY DEF Search!Absent, Docs
  <2>2. Search!Blank \in [Listed -> Docs] /\ \A p \in Listed : Search!Blank[p].ver = 0
    BY <2>1 DEF Search!Blank
  <2> QED
    BY <1>5, <2>2 DEF IndexStates
<1>7. index' = [i \in Search!Indices |-> IF i \in names THEN gone ELSE index[i]]
  BY <1>2, <1>5
<1>8. /\ index' \in [Search!Indices -> IndexStates]
      /\ \A i \in Search!Indices : /\ i \in names => index'[i] = gone
                                   /\ i \notin names => index'[i] = index[i]
  BY <1>3, <1>6, <1>7
<1>9. /\ Search!Holding("products")' = Search!Holding("products")
      /\ Search!Holding("rebuilding")' = Search!Holding("rebuilding")
      /\ \A i \in Search!Holding("products") \cup Search!Holding("rebuilding") : i \in Search!Indices /\ i \notin names
  <2>1. \A i \in Search!Indices : \A a : (Search!There(i) /\ a \in index[i].aliases) <=>
                                       (index'[i].state = "there" /\ a \in index'[i].aliases)
    BY <1>4, <1>6, <1>8 DEF Search!There
  <2>2. \A i \in Search!Indices : \A a : a \in index[i].aliases => i \notin names
    BY <1>4
  <2> QED
    BY <2>1, <2>2 DEF Search!Holding, Search!There, Search!Indices
<1>10. run' = [run EXCEPT ![r] = Search!Aborted(r)] /\ Search!Aborted(r) \in Resting
  BY <1>2, <1>3, RestsAre DEF Search!Go
<1>11. PICK next : next = Search!Aborted(r) /\ next \in Reindexes /\ next.pc \in {"ended", "abort", "begin"} /\ next.page = {}
  BY <1>10 DEF Resting
<1>12. run' \in [Runners -> Reindexes] /\ \A x \in Runners : run'[x] = run[x] \/ run'[x] = next
  BY <1>3, <1>10, <1>11 DEF SearchTypes
<1>13. SearchTypes'
  BY <1>2, <1>3, <1>8, <1>12 DEF SearchTypes
<1>14. OneAlias'
  <2>1. \A j \in Search!Indices : /\ index'[j].aliases \in {{}, {"products"}, {"rebuilding"}}
                                  /\ index'[j].state # "there" => index'[j].aliases = {}
    BY <1>6, <1>8 DEF SearchInv, OneAlias
  <2> QED
    BY <1>9, <2>1 DEF SearchInv, OneAlias
<1>15. RunsKnow'
  <2>1. ASSUME NEW x \in Runners PROVE Knows(run[x])'
    <3>1. CASE run'[x] = next
      BY <1>11, <3>1 DEF Knows, Building
    <3>2. CASE run'[x] = run[x]
      <4>1. run[x].own \in Search!Indices /\ run[x].doomed \subseteq Search!Indices /\ Knows(run[x])
        BY <1>3, SearchFields DEF SearchInv, RunsKnow
      <4>2. run[x].pc \in Building => index'[run[x].own].state # "unused"
        BY <1>6, <1>8, <4>1 DEF Knows
      <4>3. run[x].pc = "delete" => \A j \in run[x].doomed : index'[j].state # "unused" /\ index'[j].aliases = {}
        BY <1>6, <1>8, <4>1 DEF Knows
      <4> QED
        BY <3>2, <4>1, <4>2, <4>3 DEF Knows
    <3> QED
      BY <1>12, <3>1, <3>2
  <2>2. \A s \in swap : s.own \in Search!Indices
    BY <1>3 DEF SearchTypes
  <2>3. \A s \in swap : index'[s.own].state # "unused" /\ s.serving # {}
    BY <1>6, <1>8, <2>2 DEF SearchInv, RunsKnow
  <2> QED
    BY <1>2, <2>1, <2>3 DEF RunsKnow
<1>16. \A p \in Listed, i \in Search!Holding("products") \cup Search!Holding("rebuilding") : Current(p, i)' <=> Current(p, i)
  BY <1>2, <1>3, <1>8, <1>9, CurrentStays
<1>17. Serving'
  BY <1>9, <1>16 DEF SearchInv, Serving
<1>18. Rebuilt'
  <2>1. ASSUME NEW x \in Runners PROVE Filled(run[x])'
    <3>1. CASE run'[x] = next
      BY <1>11, <3>1 DEF Filled
    <3>2. CASE run'[x] = run[x]
      <4>1. PICK y : y = run[x] /\ run'[x] = y /\ Filled(y)
        BY <3>2 DEF SearchInv, Rebuilt
      <4>2. Filled(y)'
        BY <1>2, <1>9, <1>16, <4>1 DEF Filled
      <4> QED
        BY <4>1, <4>2
    <3> QED
      BY <1>12, <3>1, <3>2
  <2>2. \A s \in swap : s.own \in Search!Holding("rebuilding") => \A p \in Listed : Current(p, s.own)'
    BY <1>16 DEF SearchInv, Rebuilt
  <2> QED
    BY <1>2, <1>9, <2>1, <2>2 DEF Rebuilt
<1>19. ASSUME NEW i \in Search!Indices, NEW p \in Listed
       PROVE  index'[i].doc[p] = index[i].doc[p] \/ Shows(p, index[i].doc[p])'
  <2>1. CASE i \in names
    BY <1>2, <1>3, <1>6, <1>8, <2>1 DEF Shows
  <2> QED
    BY <1>8, <2>1
<1>20. \A x \in Runners : run'[x].page \subseteq run[x].page
  BY <1>11, <1>12
<1> QED
  BY <1>2, <1>13, <1>14, <1>15, <1>17, <1>18, <1>19, <1>20, RunsMove

LEMMA SearchStarts == Search!Init => SearchInv
<1> SUFFICES ASSUME Search!Init PROVE SearchInv
  OBVIOUS
<1>1. /\ Search!Absent \in Docs /\ Search!Absent.ver = 0
      /\ Search!Blank \in [Listed -> Docs] /\ \A p \in Listed : Search!Blank[p].ver = 0
  <2>1. Search!Absent \in Docs /\ Search!Absent.ver = 0
    BY DEF Search!Absent, Docs
  <2> QED
    BY <2>1 DEF Search!Blank
<1>2. /\ Search!IdleJob \in Deliveries /\ Search!IdleJob.pc = "idle" /\ Search!IdleJob.page = {} /\ Search!IdleJob.items = {}
      /\ Search!IdleRun \in Reindexes /\ Search!IdleRun.pc = "idle" /\ Search!IdleRun.page = {}
  BY DEF Search!IdleJob, Search!IdleRun, Deliveries, Reindexes, Building, Search!Indices
<1>3. /\ row \in [Listed -> [ver : Nat, status : Search!Statuses]] /\ \A p \in Listed : row[p].ver = 0
      /\ category = [name |-> 0, state |-> "live", stranded |-> {}] /\ events = {} /\ late = {} /\ swap = {}
      /\ job \in [Workers -> Deliveries] /\ \A w \in Workers : job[w] = Search!IdleJob
      /\ run \in [Runners -> Reindexes] /\ \A r \in Runners : run[r] = Search!IdleRun
  BY <1>2 DEF Search!Init, Search!Statuses
<1>4. /\ index \in [Search!Indices -> IndexStates]
      /\ \A i \in Search!Indices : /\ index[i].doc = Search!Blank
                                   /\ index[i].state = (IF i = Bootstrap THEN "there" ELSE "unused")
                                   /\ index[i].aliases = (IF i = Bootstrap THEN {"products"} ELSE {})
  <2>1. index = [i \in Search!Indices |->
                   [state |-> IF i = Bootstrap THEN "there" ELSE "unused",
                    aliases |-> IF i = Bootstrap THEN {"products"} ELSE {}, doc |-> Search!Blank]]
    BY DEF Search!Init
  <2> QED
    BY <1>1, <2>1 DEF IndexStates
<1>5. SearchTypes
  BY <1>3, <1>4 DEF SearchTypes, Archiving
<1>6. Bootstrap \in Search!Indices /\ Search!Holding("products") = {Bootstrap} /\ Search!Holding("rebuilding") = {}
  BY <1>4 DEF Search!Holding, Search!There, Search!Indices
<1>7. OneAlias
  BY <1>4, <1>6 DEF OneAlias
<1>8. RunsKnow /\ PagesFit
  BY <1>2, <1>3 DEF RunsKnow, Knows, PagesFit, Fitting, Once, Building
<1>9. AllShow
  <2>1. \A i \in Search!Indices, p \in Listed : index[i].doc[p].ver = 0 /\ row[p].ver = 0
    BY <1>1, <1>3, <1>4
  <2>2. \A i \in Search!Indices, p \in Listed : Shows(p, index[i].doc[p])
    BY <2>1 DEF Shows
  <2> QED
    BY <1>2, <1>3, <2>2 DEF AllShow
<1>10. Serving
  BY <1>1, <1>3, <1>4, <1>6 DEF Serving, Current
<1>11. Rebuilt
  BY <1>3, <1>6 DEF Rebuilt, Filled
<1> QED
  BY <1>5, <1>7, <1>8, <1>9, <1>10, <1>11 DEF SearchInv

LEMMA StuttersKeepSearch ==
  ASSUME SearchInv, UNCHANGED Search!vars
  PROVE  SearchInv'
<1>1. UNCHANGED <<row, category, events, job, late, index, swap, run>>
  BY DEF Search!vars
<1>2. SearchTypes' /\ AliasesStay /\ SearchTypes
  BY <1>1 DEF SearchInv, SearchTypes, AliasesStay
<1>3. /\ RowsMove
      /\ \A p \in Listed : (Renaming(p)' <=> Renaming(p)) /\ \A w \in Workers : \A i : Sends(w, p, i)' <=> Sends(w, p, i)
  BY <1>1, <1>2, RowsStay
<1>4. \A p \in Listed : \A i : Current(p, i) => Current(p, i)'
  BY <1>1, <1>2, CurrentStays
<1> QED
  BY <1>1, <1>2, <1>3, <1>4, DeliveriesMove

LEMMA SearchSteps ==
  ASSUME SearchInv, [Search!Next]_Search!vars
  PROVE  SearchInv'
<1>1. CASE \/ \E p \in Listed : Search!CreateProduct(p) \/ Search!EditProduct(p)
           \/ Search!RenameCategory \/ Search!CountProducts \/ Search!ArchiveCategory
  BY <1>1, WritesKeepSearch
<1>2. CASE Search!LateApplies \/ Search!LateSwap
  BY <1>2, LateItemsKeepSearch, LateSwapKeepsSearch
<1>3. ASSUME NEW w \in Workers, \/ Search!TakeEvent(w) \/ Search!BumpPage(w) \/ Search!SendWrite(w)
                                \/ Search!ApplyItem(w) \/ Search!DeliveryFails(w)
      PROVE  SearchInv'
  BY <1>3, TakesKeepSearch, BumpsKeepSearch, SendsKeepSearch, ItemsKeepSearch, FailuresKeepSearch
<1>4. ASSUME NEW r \in Runners,
             \/ Search!BeginRebuild(r) \/ Search!ReadPage(r) \/ Search!FillPage(r) \/ Search!ReadServing(r)
             \/ Search!Promote(r) \/ Search!RunFails(r) \/ Search!ReadLocked(r) \/ Search!ReleaseLock(r)
             \/ Search!ReadIdle(r) \/ Search!DeleteIndices(r)
      PROVE  SearchInv'
  BY <1>4, BeginsKeepSearch, ReadPageKeepsSearch, FillsKeepSearch, ReadServingKeepsSearch, PromotesKeepSearch,
     RunFailuresKeepSearch, ReadLockedKeepsSearch, ReleasesKeepSearch, ReadIdleKeepsSearch, DeletionsKeepSearch
<1>5. CASE UNCHANGED Search!vars
  BY <1>5, StuttersKeepSearch
<1> QED
  BY <1>1, <1>2, <1>3, <1>4, <1>5 DEF Search!Next

LEMMA SearchAgrees == SearchInv => SearchConverges
<1> SUFFICES ASSUME SearchInv PROVE SearchConverges
  OBVIOUS
<1>1. PICK c \in Search!Indices : Search!Holding("products") = {c}
  BY DEF SearchInv, OneAlias
<1>2. Search!Cardinality(Search!Holding("products")) = 1
  BY <1>1, PageCounts, FS_Singleton
<1>3. (CHOOSE i \in Search!Holding("products") : TRUE) = c
  BY <1>1
<1>4. ASSUME Search!Quiet, NEW p \in Listed, row[p].ver > 0
      PROVE  /\ index[c].doc[p].ver = row[p].ver
             /\ <<p, row[p].ver>> \notin category.stranded => (index[c].doc[p].shown <=> Search!Public(row, p))
             /\ index[c].doc[p].shown => index[c].doc[p].name = category.name
  <2>1. p \notin events /\ ~Renaming(p) /\ \A w \in Workers : ~Sends(w, p, c)
    BY <1>4 DEF Search!Quiet, Renaming, Sends
  <2>2. index[c].doc[p].ver = row[p].ver
    BY <1>1, <2>1 DEF SearchInv, Serving, Current
  <2>3. Shows(p, index[c].doc[p])
    BY DEF SearchInv, AllShow
  <2> QED
    BY <1>4, <2>1, <2>2, <2>3 DEF Shows
<1> QED
  BY <1>2, <1>3, <1>4 DEF SearchConverges, Search!SearchConverges, Search!ServedDoc, Search!Exists

(* Search has one index behind its alias at all times and, once every event is handled, each row in it *)
(* at its version, shown if and only if it is public, however writes, swaps, aborts and retirements    *)
(* raced (ProductSearchSyncService, bulkWrite, promoteRebuild, abortRebuild, dropRetired); a version   *)
(* that was public until its category was archived (archiveCategoryIfEmpty) may stay shown.            *)
THEOREM SearchAlwaysConverges == Search!Spec => []SearchConverges
<1>1. Search!Init => SearchInv
  BY SearchStarts
<1>2. SearchInv /\ [Search!Next]_Search!vars => SearchInv'
  BY SearchSteps
<1>3. SearchInv => SearchConverges
  BY SearchAgrees
<1> QED
  BY <1>1, <1>2, <1>3, PTL DEF Search!Spec

================================================================================
