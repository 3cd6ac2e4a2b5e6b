--------------------------- MODULE NodeLeaseProofs ----------------------------
(***************************************************************************)
(* A node of the id service is minted on by one replica at a time, and no  *)
(* id comes twice: for any number of replicas and nodes, whichever host is *)
(* suspended, whichever wall clock is stepped, with the keyspace lost.     *)
(*                                                                         *)
(* The argument is about tenures: a node, the etcd lease that owns it, and *)
(* the time the holder read its clocks at, before it asked etcd for the    *)
(* lease or for its keepalive.  A tenure stands in etcd for at least Ttl   *)
(* from then (TenureInv), so two of one node are never both in time, and a *)
(* holder's own clock stops it before its time is over.  The ids then      *)
(* follow the floors: a holder in its tenure stamps above all there are of *)
(* its node, and its floor is above all it stamped when it leaves (IdInv). *)
(***************************************************************************)
EXTENDS NodeLease, TLAPS

-----------------------------------------------------------------------------
(* The state *)

Floors == [ms : Int, by : Int]
Snapshots == UNION {[S -> Floors] : S \in SUBSET Nodes}
Generators == [nodeId : Nodes, base : Int, lastMs : Nat, sequence : 0 .. SequenceCount - 1]
Holdings == [id : 1 .. MaxLeases, n : Nodes, until : Int, gen : Generators, anchorWall : Int, anchorMono : Int]

ClaimOps == [pc : {"claim", "granted"}, anchorWall : Int, anchorMono : Int, n : Nodes, generation : 1 .. MaxLeases,
             free : Snapshots, floorMs : Int, nowMs : Int, until : Int]
RaiseOps == [pc : {"raise", "renewed", "granted"}, anchorWall : Int, anchorMono : Int, forGrant : BOOLEAN,
             n : Nodes, generation : 1 .. MaxLeases, floorMs : Int, nowMs : Int, until : Int]
ReleaseOps == [pc : {"release"}, n : Nodes, generation : 1 .. MaxLeases, lastMs : Int]

LeaseTypes ==
  /\ now \in Nat /\ skew \in [Replicas -> Int] /\ asleep \in [Replicas -> Nat]
  /\ lease \in [1 .. MaxLeases -> Nat] /\ granted \in 0 .. MaxLeases
  /\ owner \in [Nodes -> {NoOwner} \cup [lease : 1 .. MaxLeases, claimFloor : Int]]
  /\ floor \in [Nodes -> Floors] /\ initialized \in BOOLEAN /\ emptySince \in Int
  /\ late \subseteq [n : Nodes, generation : 1 .. MaxLeases, ms : Int]
  /\ node \in [Replicas -> {NotHeld} \cup Holdings]
  /\ retired \in [Replicas -> Int] /\ pending \in [Replicas -> 0 .. MaxLeases]
  /\ op \in [Replicas -> {NoOp} \cup ClaimOps \cup RaiseOps \cup ReleaseOps]

-----------------------------------------------------------------------------
(* Time *)

Anchored(r) == op[r].pc \in {"claim", "raise", "renewed", "granted"}

(* Without a fault all clocks agree; a suspended host leaves the walls right, and any other fault the  *)
(* monotonic clocks.                                                                                   *)
ClocksAgree ==
  /\ fault \in {"none", "suspend", "clock", "keyspace"}
  /\ fault # "suspend" => \A r \in Replicas : asleep[r] = 0
  /\ fault # "clock" => \A r \in Replicas : skew[r] = 0
  /\ fault \notin {"suspend", "clock"} =>
       \A r \in Replicas : /\ Held(r) => node[r].anchorWall = node[r].anchorMono
                           /\ Anchored(r) => op[r].anchorWall = op[r].anchorMono

(* The true time at which the clocks of a holder or an operation were read. *)
Read(x) == IF fault = "suspend" THEN x.anchorWall ELSE x.anchorMono

-----------------------------------------------------------------------------
(* Whose lease it is *)

Uses(r, l) == l # 0 /\ (node[r].id = l \/ pending[r] = l \/ (op[r] # NoOp /\ op[r].generation = l))

(* An etcd lease is known to the replica it was granted to; what a replica holds, what it asks for and *)
(* what it gives back are never about different tenures.                                               *)
LeasesApart ==
  /\ \A n \in Nodes : owner[n].lease <= granted
  /\ \A r \in Replicas, l \in 1 .. MaxLeases : Uses(r, l) => l <= granted
  /\ \A r, s \in Replicas, l \in 1 .. MaxLeases : Uses(r, l) /\ Uses(s, l) => r = s

ForGrant(r) == op[r].pc = "granted" \/ (op[r].pc = "raise" /\ op[r].forGrant)
ForRenew(r) == op[r].pc = "renewed" \/ (op[r].pc = "raise" /\ ~op[r].forGrant)

OneTenureEach ==
  \A r \in Replicas :
    /\ Held(r) => pending[r] = 0
    /\ op[r].pc \in {"claim", "release"} \/ ForGrant(r) => ~Held(r)
    /\ op[r].pc = "claim" \/ ForGrant(r) => pending[r] = op[r].generation
    /\ ForRenew(r) => Held(r) /\ op[r].n = node[r].n /\ op[r].generation = node[r].id

-----------------------------------------------------------------------------
(* Tenures *)

(* Before the lift no claim succeeds: every floor is one that no snapshot read. *)
LostFloors ==
  /\ ~initialized => fault = "keyspace" /\ \A n \in Nodes : owner[n] = NoOwner /\ floor[n].by = 0
  /\ initialized => \A n \in Nodes : floor[n].by # 0
  /\ emptySince = -1 \/ (0 <= emptySince /\ emptySince <= now)
  /\ \A r \in Replicas : op[r].pc = "claim" =>
       /\ op[r].n \in DOMAIN op[r].free /\ op[r].floorMs = op[r].free[op[r].n].ms
       /\ \A m \in DOMAIN op[r].free : op[r].free[m].by # 0

InTenure(r) == op[r].pc \in {"raise", "renewed", "granted"}

(* What a replica holds, and what it is about to hold or to extend: a node, its etcd lease and the time *)
(* the clocks were read.                                                                               *)
Tenures(r) ==
  (IF Held(r) THEN {[n |-> node[r].n, l |-> node[r].id, read |-> Read(node[r])]} ELSE {})
    \cup (IF InTenure(r) THEN {[n |-> op[r].n, l |-> op[r].generation, read |-> Read(op[r])]} ELSE {})

Over(t) == now >= t.read + Ttl

(* A tenure stands in etcd, or its time is over, or it was lost with the keyspace and its time will be *)
(* over before the lift.                                                                               *)
Kept(t) ==
  \/ isHeldBy(t.n, t.l) /\ lease[t.l] >= t.read + Ttl
  \/ Over(t)
  \/ ~initialized /\ t.read <= (IF emptySince = -1 THEN now ELSE emptySince)

TenuresKept ==
  \A r \in Replicas :
    /\ \A t \in Tenures(r) : t.read <= now /\ Kept(t)
    /\ op[r].pc = "claim" =>
         /\ \A n \in Nodes : owner[n].lease # op[r].generation
         /\ Read(op[r]) <= now
         /\ Alive(op[r].generation) => lease[op[r].generation] >= Read(op[r]) + Ttl

(* Of two tenures of a node one is over. *)
OneAtATime ==
  \A r, s \in Replicas : r # s =>
    \A t \in Tenures(r), u \in Tenures(s) : t.n = u.n => Over(t) \/ Over(u)

TenureInv == LeaseTypes /\ ClocksAgree /\ LeasesApart /\ OneTenureEach /\ LostFloors /\ TenuresKept /\ OneAtATime

-----------------------------------------------------------------------------
(* Ids *)

InTime(r) == \E t \in Tenures(r) : ~Over(t)
Stands(r) == Held(r) /\ isHeldBy(node[r].n, node[r].id)
OpStands(r) == op[r] # NoOp /\ isHeldBy(op[r].n, op[r].generation)

IdsOf(n) == {id \in issued : id[2] = n}
Within(n, ms) == \A id \in IdsOf(n) : id[1] <= ms

(* The next stamp of a generator comes after an id. *)
Below(id, r) ==
  \/ id[1] < node[r].gen.base + Mono(r)
  \/ id[1] < node[r].gen.lastMs
  \/ id[1] = node[r].gen.lastMs /\ id[3] <= node[r].gen.sequence

(* A holder in its tenure mints above every id of its node, and what a grant or a release goes by      *)
(* covers them.                                                                                        *)
MintsAbove(r) ==
  /\ Held(r) => node[r].gen.nodeId = node[r].n
  /\ Held(r) /\ (Stands(r) \/ InTime(r)) => \A id \in IdsOf(node[r].n) : Below(id, r)
  /\ Stands(r) => Within(node[r].n, Larger(owner[node[r].n].claimFloor, node[r].gen.lastMs))
  /\ ForGrant(r) /\ InTime(r) => Within(op[r].n, op[r].floorMs)
  /\ op[r].pc = "release" /\ OpStands(r) => Within(op[r].n, Larger(owner[op[r].n].claimFloor, op[r].lastMs))
  /\ pending[r] # 0 => \A n \in Nodes : owner[n].lease = pending[r] => Within(n, owner[n].claimFloor)

(* For as long as its owner stands a floor only rises. *)
FloorRises(r) ==
  /\ Stands(r) => node[r].until <= floor[node[r].n].ms
  /\ op[r].pc \in {"granted", "renewed"} /\ OpStands(r) => op[r].until <= floor[op[r].n].ms
  /\ op[r].pc = "raise" /\ OpStands(r) => op[r].until >= floor[op[r].n].ms
  /\ ForGrant(r) /\ OpStands(r) => op[r].floorMs = owner[op[r].n].claimFloor
  /\ op[r].pc = "claim" => op[r].until >= op[r].floorMs
  /\ Anchored(r) => \A w \in late : w.generation # op[r].generation

LateRaises ==
  /\ \A w \in late : isHeldBy(w.n, w.generation) => w.ms >= floor[w.n].ms
  /\ \A w \in late : w.generation <= granted
  /\ \A w, v \in late : w = v

(* The ids of a node are under its floor; while the floors are lost, under the floor of the lift. *)
IdsUnderFloor ==
  \A n \in Nodes : Within(n, IF initialized THEN floor[n].ms
                             ELSE Ttl + (IF emptySince = -1 THEN now ELSE emptySince))

Stamped == issued \subseteq Nat \X Nodes \X (0 .. SequenceCount - 1) /\ total \in Nat

IdInv ==
  Stamped /\ IdsUnderFloor /\ LateRaises /\ \A r \in Replicas : MintsAbove(r) /\ FloorRises(r)

(* No id is stamped further ahead of true time than a generator may start. *)
LittleAhead == fault = "keyspace" => \A id \in issued : id[1] <= now + FenceMargin + 1

LEMMA OpKinds ==
  ASSUME LeaseTypes, NEW r \in Replicas
  PROVE  /\ op[r].pc \in {"none", "claim", "raise", "renewed", "granted", "release"}
         /\ op[r] = NoOp <=> op[r].pc = "none"
         /\ op[r] # NoOp => op[r].n \in Nodes /\ op[r].generation \in 1 .. MaxLeases
         /\ Anchored(r) => /\ op[r].anchorWall \in Int /\ op[r].anchorMono \in Int /\ op[r].floorMs \in Int
                           /\ op[r].nowMs \in Int /\ op[r].until \in Int
         /\ op[r].pc = "claim" => op[r] \in ClaimOps
         /\ op[r].pc \in {"raise", "renewed"} => op[r] \in RaiseOps
         /\ op[r].pc = "release" => op[r] \in ReleaseOps
<1>1. op[r] \in {NoOp} \cup ClaimOps \cup RaiseOps \cup ReleaseOps
  BY DEF LeaseTypes
<1>2. CASE op[r] = NoOp
  BY <1>2 DEF NoOp, Anchored
<1>3. CASE op[r] \in ClaimOps
  BY <1>3 DEF NoOp, Anchored, ClaimOps
<1>4. CASE op[r] \in RaiseOps
  BY <1>4 DEF NoOp, Anchored, RaiseOps
<1>5. CASE op[r] \in ReleaseOps
  BY <1>5 DEF NoOp, Anchored, ReleaseOps
<1> QED
  BY <1>1, <1>2, <1>3, <1>4, <1>5

LEMMA HolderTypes ==
  ASSUME LeaseTypes, NEW r \in Replicas
  PROVE  /\ Held(r) => node[r] \in Holdings
         /\ ~Held(r) => node[r].id = 0
         /\ Held(r) => /\ node[r].id \in 1 .. MaxLeases /\ node[r].n \in Nodes /\ node[r].gen \in Generators
                       /\ node[r].until \in Int /\ node[r].anchorWall \in Int /\ node[r].anchorMono \in Int
<1>1. node[r] \in {NotHeld} \cup Holdings
  BY DEF LeaseTypes
<1> QED
  BY <1>1 DEF Held, NotHeld, Holdings

LEMMA OwnerTypes ==
  ASSUME LeaseTypes, NEW n \in Nodes
  PROVE  /\ owner[n].lease \in 0 .. MaxLeases /\ owner[n].claimFloor \in Int
         /\ owner[n] = NoOwner <=> owner[n].lease = 0
         /\ floor[n].ms \in Int /\ floor[n].by \in Int
<1>1. owner[n] \in {NoOwner} \cup [lease : 1 .. MaxLeases, claimFloor : Int]
  BY DEF LeaseTypes
<1>2. floor[n] \in Floors
  BY DEF LeaseTypes
<1> QED
  BY <1>1, <1>2, BoundAssumption DEF NoOwner, Floors

-----------------------------------------------------------------------------
(* Types *)

LEMMA LargerIs ==
  ASSUME NEW a \in Int, NEW b \in Int
  PROVE  Larger(a, b) \in Int /\ Larger(a, b) >= a /\ Larger(a, b) >= b /\ (Larger(a, b) = a \/ Larger(a, b) = b)
  BY DEF Larger

LEMMA ClockTypes ==
  ASSUME LeaseTypes, NEW r \in Replicas
  PROVE  Wall(r) \in Int /\ Mono(r) \in Int
  BY DEF LeaseTypes, Wall, Mono

(* What a stamp makes of a generator: it comes out above what it was, and never behind its clock.      *)
LEMMA StampIs ==
  ASSUME LeaseTypes, NEW r \in Replicas, NEW g \in Generators, ~Stalled(r, g)
  PROVE  /\ Stamp(r, g) \in Generators /\ Stamp(r, g).nodeId = g.nodeId
         /\ Stamp(r, g).base >= g.base
         /\ Stamp(r, g).lastMs >= g.base + Mono(r) /\ Stamp(r, g).lastMs >= g.lastMs
         /\ Stamp(r, g).lastMs = g.lastMs => Stamp(r, g).sequence = g.sequence + 1
<1> DEFINE b == Larger(g.base, Wall(r) - Mono(r))
           c == CaughtUp(r, g)
           last == Larger(b + Mono(r), g.lastMs)
           seq == IF b + Mono(r) <= g.lastMs THEN g.sequence + 1 ELSE 0
<1>1. /\ g.nodeId \in Nodes /\ g.base \in Int /\ g.lastMs \in Nat /\ g.sequence \in 0 .. SequenceCount - 1
      /\ Wall(r) \in Int /\ Mono(r) \in Int /\ SequenceCount \in Nat
  BY ClockTypes, TimingAssumption DEF Generators
<1>2. b \in Int /\ b >= g.base
  BY <1>1 DEF Larger
<1> HIDE DEF b
<1>3. c = [g EXCEPT !.base = b]
  BY DEF CaughtUp, b
<1>4. c \in Generators /\ c.nodeId = g.nodeId /\ c.base = b /\ c.lastMs = g.lastMs /\ c.sequence = g.sequence
  BY <1>2, <1>3 DEF Generators
<1>5. last \in Nat /\ last >= b + Mono(r) /\ last >= g.lastMs /\ (last = g.lastMs => b + Mono(r) <= g.lastMs)
  BY <1>1, <1>2 DEF Larger
<1>6. seq \in 0 .. SequenceCount - 1 /\ (last = g.lastMs => seq = g.sequence + 1)
  BY <1>1, <1>2, <1>4, <1>5 DEF Stalled
<1>7. Stamp(r, g) = [c EXCEPT !.lastMs = last, !.sequence = seq]
  BY <1>4 DEF Stamp
<1> HIDE DEF c, last, seq
<1>8. /\ Stamp(r, g) \in Generators /\ Stamp(r, g).nodeId = c.nodeId /\ Stamp(r, g).base = c.base
      /\ Stamp(r, g).lastMs = last /\ Stamp(r, g).sequence = seq
  BY <1>4, <1>5, <1>6, <1>7 DEF Generators
<1> QED
  BY <1>1, <1>2, <1>4, <1>5, <1>6, <1>8

(* What generate leaves of the holder's lease. *)
Minted(r) == [node[r] EXCEPT !.gen = Stamp(r, node[r].gen)]

LEMMA MintedIs ==
  ASSUME LeaseTypes, NEW r \in Replicas, Held(r), ~Stalled(r, node[r].gen)
  PROVE  /\ Minted(r) \in Holdings /\ Minted(r).gen = Stamp(r, node[r].gen)
         /\ Minted(r).id = node[r].id /\ Minted(r).n = node[r].n /\ Minted(r).until = node[r].until
         /\ Minted(r).anchorWall = node[r].anchorWall /\ Minted(r).anchorMono = node[r].anchorMono
<1>1. Stamp(r, node[r].gen) \in Generators /\ node[r] \in Holdings
  BY StampIs, HolderTypes
<1> QED
  BY <1>1 DEF Minted, Holdings

LEMMA HoldingNotEmpty == \A h \in Holdings : h # NotHeld
  BY DEF Holdings, NotHeld

LEMMA OpTypes ==
  ASSUME LeaseTypes, NEW r \in Replicas, NEW next, Goto(r, next),
         next \in {NoOp} \cup ClaimOps \cup RaiseOps \cup ReleaseOps
  PROVE  op' \in [Replicas -> {NoOp} \cup ClaimOps \cup RaiseOps \cup ReleaseOps] /\ op'[r] = next
         /\ \A s \in Replicas \ {r} : op'[s] = op[s]
  BY DEF Goto, LeaseTypes

LEMMA ClaimTypes ==
  ASSUME LeaseTypes, NEW r \in Replicas, NEW l \in 1 .. MaxLeases, NEW wall \in Int, NEW mono \in Int,
         NEW free \in Snapshots, NEW n \in DOMAIN free, Claim(r, [wall |-> wall, mono |-> mono], l, free, n)
  PROVE  /\ op' \in [Replicas -> {NoOp} \cup ClaimOps \cup RaiseOps \cup ReleaseOps]
         /\ \A s \in Replicas \ {r} : op'[s] = op[s]
         /\ op'[r] \in ClaimOps /\ op'[r].pc = "claim" /\ op'[r].anchorWall = wall /\ op'[r].anchorMono = mono
         /\ op'[r].n = n /\ op'[r].generation = l /\ op'[r].free = free /\ op'[r].floorMs = free[n].ms
         /\ op'[r].until >= op'[r].floorMs /\ n \in Nodes
<1> DEFINE next == [pc |-> "claim", anchorWall |-> wall, anchorMono |-> mono,
             n |-> n, generation |-> l, free |-> free, floorMs |-> free[n].ms, nowMs |-> Wall(r),
             until |-> Larger(Wall(r), free[n].ms) + Ttl]
<1>1. Goto(r, next)
  BY DEF Claim
<1>2. n \in Nodes /\ free[n].ms \in Int
  BY DEF Snapshots, Floors
<1>3. Larger(Wall(r), free[n].ms) + Ttl \in Int /\ Larger(Wall(r), free[n].ms) + Ttl >= free[n].ms /\ Wall(r) \in Int
  BY <1>2, ClockTypes, TimingAssumption DEF Larger
<1>4. next \in ClaimOps
  BY <1>2, <1>3 DEF ClaimOps
<1>5. op'[r] = next
  BY <1>1, <1>4, OpTypes
<1>6. /\ op' \in [Replicas -> {NoOp} \cup ClaimOps \cup RaiseOps \cup ReleaseOps]
      /\ \A s \in Replicas \ {r} : op'[s] = op[s]
  BY <1>1, <1>4, OpTypes
<1> QED
  BY <1>2, <1>3, <1>4, <1>5, <1>6

LEMMA ReadoptTypes ==
  ASSUME LeaseTypes, NEW r \in Replicas, NEW l \in 1 .. MaxLeases, NEW n \in Nodes, Readopt(r, l, n)
  PROVE  /\ op' \in [Replicas -> {NoOp} \cup ClaimOps \cup RaiseOps \cup ReleaseOps]
         /\ \A s \in Replicas \ {r} : op'[s] = op[s]
         /\ op'[r] \in RaiseOps /\ op'[r].pc = "raise" /\ op'[r].forGrant
         /\ op'[r].anchorWall = Wall(r) /\ op'[r].anchorMono = Mono(r)
         /\ op'[r].n = n /\ op'[r].generation = l /\ op'[r].floorMs = owner[n].claimFloor
         /\ op'[r].until >= floor[n].ms
<1> DEFINE top == Larger(floor[n].ms, Wall(r) + Ttl)
           next == [pc |-> "raise", anchorWall |-> Wall(r), anchorMono |-> Mono(r), forGrant |-> TRUE, n |-> n,
                    generation |-> l, floorMs |-> owner[n].claimFloor, nowMs |-> Wall(r), until |-> top]
<1>1. Goto(r, next)
  BY DEF Readopt
<1>2. top \in Int /\ top >= floor[n].ms /\ Wall(r) \in Int /\ Mono(r) \in Int /\ owner[n].claimFloor \in Int
  BY ClockTypes, OwnerTypes, TimingAssumption DEF Larger
<1> HIDE DEF top
<1>3. next \in RaiseOps
  BY <1>2 DEF RaiseOps
<1>4. op'[r] = next
  BY <1>1, <1>3, OpTypes
<1>5. /\ op' \in [Replicas -> {NoOp} \cup ClaimOps \cup RaiseOps \cup ReleaseOps]
      /\ \A s \in Replicas \ {r} : op'[s] = op[s]
  BY <1>1, <1>3, OpTypes
<1> QED
  BY <1>2, <1>3, <1>4, <1>5

(* The raise of a renewal. *)
Raises(r) ==
  Goto(r, [pc |-> "raise", anchorWall |-> Wall(r), anchorMono |-> Mono(r), forGrant |-> FALSE,
           n |-> node[r].n, generation |-> node[r].id, floorMs |-> 0, nowMs |-> 0,
           until |-> Larger(floor[node[r].n].ms, Larger(Wall(r), node[r].gen.lastMs) + Ttl)])

LEMMA RaiseTypes ==
  ASSUME LeaseTypes, NEW r \in Replicas, Held(r), Raises(r)
  PROVE  /\ op' \in [Replicas -> {NoOp} \cup ClaimOps \cup RaiseOps \cup ReleaseOps]
         /\ \A s \in Replicas \ {r} : op'[s] = op[s]
         /\ op'[r] \in RaiseOps /\ op'[r].pc = "raise" /\ ~op'[r].forGrant
         /\ op'[r].anchorWall = Wall(r) /\ op'[r].anchorMono = Mono(r)
         /\ op'[r].n = node[r].n /\ op'[r].generation = node[r].id
         /\ op'[r].until >= floor[node[r].n].ms
<1> DEFINE n == node[r].n
           top == Larger(floor[n].ms, Larger(Wall(r), node[r].gen.lastMs) + Ttl)
           next == [pc |-> "raise", anchorWall |-> Wall(r), anchorMono |-> Mono(r), forGrant |-> FALSE, n |-> n,
                    generation |-> node[r].id, floorMs |-> 0, nowMs |-> 0, until |-> top]
<1>1. Goto(r, next)
  BY DEF Raises
<1>2. node[r].gen.lastMs \in Nat /\ n \in Nodes /\ node[r].id \in 1 .. MaxLeases
  BY HolderTypes DEF Generators
<1>3. top \in Int /\ top >= floor[n].ms /\ Wall(r) \in Int /\ Mono(r) \in Int
  BY <1>2, ClockTypes, OwnerTypes, TimingAssumption DEF Larger
<1> HIDE DEF top
<1>4. next \in RaiseOps
  BY <1>2, <1>3 DEF RaiseOps
<1>5. op'[r] = next
  BY <1>1, <1>4, OpTypes
<1>6. /\ op' \in [Replicas -> {NoOp} \cup ClaimOps \cup RaiseOps \cup ReleaseOps]
      /\ \A s \in Replicas \ {r} : op'[s] = op[s]
  BY <1>1, <1>4, OpTypes
<1> QED
  BY <1>2, <1>3, <1>4, <1>5, <1>6

(* A release of a tenure. *)
LEMMA ReleaseTypes ==
  ASSUME LeaseTypes, NEW r \in Replicas, NEW n \in Nodes, NEW l \in 1 .. MaxLeases, NEW last \in Int,
         Goto(r, [pc |-> "release", n |-> n, generation |-> l, lastMs |-> last])
  PROVE  /\ op' \in [Replicas -> {NoOp} \cup ClaimOps \cup RaiseOps \cup ReleaseOps]
         /\ \A s \in Replicas \ {r} : op'[s] = op[s]
         /\ op'[r].pc = "release" /\ op'[r].n = n /\ op'[r].generation = l /\ op'[r].lastMs = last
<1> DEFINE next == [pc |-> "release", n |-> n, generation |-> l, lastMs |-> last]
<1>1. next \in ReleaseOps
  BY DEF ReleaseOps
<1> QED
  BY <1>1, OpTypes

(* An operation in flight that goes on to its next step. *)
LEMMA OnwardTypes ==
  ASSUME LeaseTypes, NEW r \in Replicas, NEW pc,
         \/ op[r] \in ClaimOps /\ pc = "granted"
         \/ op[r] \in RaiseOps /\ pc \in {"renewed", "granted"},
         Goto(r, [op[r] EXCEPT !.pc = pc])
  PROVE  /\ op' \in [Replicas -> {NoOp} \cup ClaimOps \cup RaiseOps \cup ReleaseOps]
         /\ \A s \in Replicas \ {r} : op'[s] = op[s]
         /\ op'[r].pc = pc /\ op'[r].n = op[r].n /\ op'[r].generation = op[r].generation
         /\ op'[r].anchorWall = op[r].anchorWall /\ op'[r].anchorMono = op[r].anchorMono
         /\ op'[r].floorMs = op[r].floorMs /\ op'[r].until = op[r].until /\ op'[r].nowMs = op[r].nowMs
<1> DEFINE next == [op[r] EXCEPT !.pc = pc]
<1>1. /\ next \in ClaimOps \cup RaiseOps
      /\ next.pc = pc /\ next.n = op[r].n /\ next.generation = op[r].generation
      /\ next.anchorWall = op[r].anchorWall /\ next.anchorMono = op[r].anchorMono
      /\ next.floorMs = op[r].floorMs /\ next.until = op[r].until /\ next.nowMs = op[r].nowMs
  BY DEF ClaimOps, RaiseOps
<1> HIDE DEF next
<1>2. Goto(r, next)
  BY DEF next
<1> QED
  BY <1>1, <1>2, OpTypes

-----------------------------------------------------------------------------
(* A step of one replica *)

(* It leaves the others alone: what it changes in etcd is about leases it uses, or a new one.          *)
StepOf(r) ==
  /\ LeaseTypes'
  /\ UNCHANGED <<now, skew, asleep, fault, initialized, emptySince>>
  /\ \A s \in Replicas \ {r} : node'[s] = node[s] /\ op'[s] = op[s] /\ pending'[s] = pending[s]
  /\ granted <= granted'
  /\ \A l \in 1 .. MaxLeases : Uses(r, l)' => Uses(r, l) \/ (granted < l /\ l <= granted')
  /\ \A l \in 1 .. MaxLeases : l <= granted /\ ~Uses(r, l) =>
       lease'[l] = lease[l] /\ \A n \in Nodes : owner'[n].lease = l <=> owner[n].lease = l
  /\ \A n \in Nodes : owner'[n] = owner[n] \/ owner'[n] = NoOwner \/ Uses(r, owner'[n].lease)
  /\ \/ UNCHANGED <<owner, floor>>
     \/ initialized /\ \A n \in Nodes : floor'[n].by = floor[n].by \/ floor'[n].by \in 1 .. MaxLeases

(* The parts of the invariant that are about one replica. *)
AnchorsAgree(r) ==
  fault \notin {"suspend", "clock"} =>
    /\ Held(r) => node[r].anchorWall = node[r].anchorMono
    /\ Anchored(r) => op[r].anchorWall = op[r].anchorMono

OneTenure(r) ==
  /\ Held(r) => pending[r] = 0
  /\ op[r].pc \in {"claim", "release"} \/ ForGrant(r) => ~Held(r)
  /\ op[r].pc = "claim" \/ ForGrant(r) => pending[r] = op[r].generation
  /\ ForRenew(r) => Held(r) /\ op[r].n = node[r].n /\ op[r].generation = node[r].id

ClaimFits(r) ==
  op[r].pc = "claim" =>
    /\ op[r].n \in DOMAIN op[r].free /\ op[r].floorMs = op[r].free[op[r].n].ms
    /\ \A m \in DOMAIN op[r].free : op[r].free[m].by # 0

TenureKept(r) ==
  /\ \A t \in Tenures(r) : t.read <= now /\ Kept(t)
  /\ op[r].pc = "claim" =>
       /\ \A n \in Nodes : owner[n].lease # op[r].generation
       /\ Read(op[r]) <= now
       /\ Alive(op[r].generation) => lease[op[r].generation] >= Read(op[r]) + Ttl

PartOf(r) == AnchorsAgree(r) /\ OneTenure(r) /\ ClaimFits(r) /\ TenureKept(r)

(* A tenure is one it had, or of a node that nobody else owns. *)
TenuresFrom(r) ==
  \A t \in Tenures(r)' :
    \/ t \in Tenures(r)
    \/ t.n \in Nodes /\ initialized /\ (owner[t.n] = NoOwner \/ Uses(r, owner[t.n].lease))

LEMMA TenureTypes ==
  ASSUME LeaseTypes, NEW r \in Replicas, NEW t \in Tenures(r)
  PROVE  t.n \in Nodes /\ t.l \in 1 .. MaxLeases /\ t.read \in Int /\ Uses(r, t.l)
<1>1. CASE Held(r) /\ t = [n |-> node[r].n, l |-> node[r].id, read |-> Read(node[r])]
  BY <1>1, HolderTypes DEF Read, Uses
<1>2. CASE InTenure(r) /\ t = [n |-> op[r].n, l |-> op[r].generation, read |-> Read(op[r])]
  <2>1. Anchored(r) /\ op[r] # NoOp
    BY <1>2, OpKinds DEF Anchored, InTenure
  <2> QED
    BY <1>2, <2>1, OpKinds DEF Read, Uses
<1> QED
  BY <1>1, <1>2 DEF Tenures

LEMMA OthersFramed ==
  ASSUME TenureInv, NEW r \in Replicas, StepOf(r), NEW s \in Replicas \ {r}
  PROVE  /\ UNCHANGED <<Held(s), InTenure(s), Anchored(s), Tenures(s), ForGrant(s), ForRenew(s)>>
         /\ \A l \in 1 .. MaxLeases : Uses(s, l)' <=> Uses(s, l)
         /\ PartOf(s)'
<1>1. node'[s] = node[s] /\ op'[s] = op[s] /\ pending'[s] = pending[s] /\ UNCHANGED fault
  BY DEF StepOf
<1>2. /\ UNCHANGED <<Held(s), InTenure(s), Anchored(s), Tenures(s), ForGrant(s), ForRenew(s)>>
      /\ \A l \in 1 .. MaxLeases : Uses(s, l)' <=> Uses(s, l)
  BY <1>1 DEF Held, InTenure, Anchored, Tenures, Uses, Read, ForGrant, ForRenew
<1>3. LeaseTypes /\ LeasesApart
  BY DEF TenureInv
<1>4. \A l \in 1 .. MaxLeases : Uses(s, l) =>
        lease'[l] = lease[l] /\ \A n \in Nodes : owner'[n].lease = l <=> owner[n].lease = l
  BY <1>3 DEF StepOf, LeasesApart
<1>5. AnchorsAgree(s)' /\ OneTenure(s)' /\ ClaimFits(s)'
  BY <1>1, <1>2 DEF TenureInv, ClocksAgree, OneTenureEach, LostFloors, AnchorsAgree, OneTenure, ClaimFits
<1>6. ASSUME NEW t \in Tenures(s)'
      PROVE  t.read <= now' /\ Kept(t)'
  <2>1. t \in Tenures(s) /\ t.read <= now /\ Kept(t)
    BY <1>2, <1>6 DEF TenureInv, TenuresKept
  <2>2. t.n \in Nodes /\ t.l \in 1 .. MaxLeases /\ t.read \in Int /\ Uses(s, t.l)
    BY <1>3, <2>1, TenureTypes
  <2>3. lease'[t.l] = lease[t.l] /\ (owner'[t.n].lease = t.l <=> owner[t.n].lease = t.l)
    BY <1>4, <2>2
  <2>4. isHeldBy(t.n, t.l) => isHeldBy(t.n, t.l)'
    BY <1>3, <2>2, <2>3, OwnerTypes DEF isHeldBy, StepOf, NoOwner
  <2> QED
    BY <2>1, <2>3, <2>4 DEF Kept, Over, StepOf
<1>7. ASSUME op[s].pc = "claim"
      PROVE  /\ \A n \in Nodes : owner'[n].lease # op[s].generation
             /\ Read(op[s])' <= now'
             /\ Alive(op[s].generation)' => lease'[op[s].generation] >= Read(op[s])' + Ttl
  <2>1. op[s].generation \in 1 .. MaxLeases /\ Uses(s, op[s].generation)
    BY <1>3, <1>7, OpKinds DEF Uses
  <2> QED
    BY <1>1, <1>4, <1>7, <2>1 DEF TenureInv, TenuresKept, Read, Alive, StepOf
<1>8. TenureKept(s)'
  BY <1>1, <1>6, <1>7 DEF TenureKept, Read
<1> QED
  BY <1>2, <1>5, <1>8 DEF PartOf

LEMMA StepKeeps ==
  ASSUME TenureInv, NEW r \in Replicas, StepOf(r), PartOf(r)', TenuresFrom(r)
  PROVE  TenureInv'
<1>1. LeaseTypes /\ LeaseTypes' /\ LeasesApart /\ UNCHANGED <<now, fault, initialized, emptySince>>
  BY DEF TenureInv, StepOf
<1>2. \A s \in Replicas : PartOf(s)'
  BY OthersFramed
<1>3. ClocksAgree' /\ OneTenureEach' /\ TenuresKept'
  BY <1>2 DEF TenureInv, StepOf, PartOf, ClocksAgree, AnchorsAgree, OneTenureEach, OneTenure, TenuresKept, TenureKept
<1>4. LostFloors'
  <2>1. ~initialized => UNCHANGED <<owner, floor>>
    BY DEF StepOf
  <2>2. ASSUME initialized, NEW n \in Nodes PROVE floor'[n].by # 0
    BY <2>2 DEF StepOf, TenureInv, LostFloors
  <2> QED
    BY <1>1, <1>2, <2>1, <2>2 DEF TenureInv, LostFloors, PartOf, ClaimFits
<1>5. LeasesApart'
  <2>1. ASSUME NEW n \in Nodes PROVE owner'[n].lease <= granted'
    <3>1. owner[n].lease <= granted /\ granted <= granted' /\ granted \in Nat /\ granted' \in Nat
      BY <1>1 DEF LeasesApart, StepOf, LeaseTypes
    <3>2. owner[n].lease \in 0 .. MaxLeases /\ owner'[n].lease \in 0 .. MaxLeases
      <4>1. owner[n].lease \in 0 .. MaxLeases
        BY <1>1, OwnerTypes
      <4>2. owner'[n] \in {NoOwner} \cup [lease : 1 .. MaxLeases, claimFloor : Int]
        BY <1>1 DEF LeaseTypes
      <4> QED
        BY <4>1, <4>2, BoundAssumption DEF NoOwner
    <3>3. CASE owner'[n] = NoOwner
      BY <3>1, <3>3 DEF NoOwner
    <3>4. CASE Uses(r, owner'[n].lease)
      <4>1. owner'[n].lease \in 1 .. MaxLeases
        BY <3>2, <3>4 DEF Uses
      <4> QED
        BY <1>1, <3>1, <3>4, <4>1 DEF LeasesApart
    <3> QED
      BY <3>1, <3>2, <3>3, <3>4 DEF StepOf
  <2>2. ASSUME NEW s \in Replicas, NEW l \in 1 .. MaxLeases, Uses(s, l)'
        PROVE  (s = r /\ granted < l /\ l <= granted') \/ (Uses(s, l) /\ l <= granted)
    <3>1. CASE s = r
      BY <1>1, <2>2, <3>1 DEF StepOf, LeasesApart
    <3>2. CASE s # r
      BY <1>1, <2>2, <3>2, OthersFramed DEF LeasesApart
    <3> QED
      BY <3>1, <3>2
  <2>3. granted \in Nat /\ granted' \in Nat /\ granted <= granted'
    BY <1>1 DEF LeaseTypes, StepOf
  <2>4. \A s \in Replicas, l \in 1 .. MaxLeases : Uses(s, l)' => l <= granted'
    BY <2>2, <2>3
  <2>5. ASSUME NEW s \in Replicas, NEW q \in Replicas, NEW l \in 1 .. MaxLeases, Uses(s, l)', Uses(q, l)'
        PROVE  s = q
    BY <1>1, <2>2, <2>3, <2>5 DEF LeasesApart
  <2> QED
    BY <2>1, <2>4, <2>5 DEF LeasesApart
<1>6. OneAtATime'
  <2>1. ASSUME NEW s \in Replicas \ {r}, NEW t \in Tenures(r)', NEW u \in Tenures(s)', t.n = u.n
        PROVE  Over(t)' \/ Over(u)'
    <3>1. u \in Tenures(s) /\ Kept(u)
      BY <2>1, OthersFramed DEF TenureInv, TenuresKept
    <3>2. CASE t \in Tenures(r)
      BY <1>1, <2>1, <3>1, <3>2 DEF TenureInv, OneAtATime, Over
    <3>3. CASE t.n \in Nodes /\ initialized /\ (owner[t.n] = NoOwner \/ Uses(r, owner[t.n].lease))
      <4>1. Uses(s, u.l) /\ u.l \in 1 .. MaxLeases
        BY <1>1, <3>1, TenureTypes
      <4>2. ~isHeldBy(u.n, u.l)
        BY <1>1, <2>1, <3>3, <4>1 DEF isHeldBy, LeasesApart
      <4>3. Over(u)
        BY <3>1, <3>3, <4>2 DEF Kept
      <4> QED
        BY <1>1, <4>3 DEF Over
    <3> QED
      BY <3>2, <3>3 DEF TenuresFrom
  <2>2. ASSUME NEW s \in Replicas \ {r}, NEW q \in Replicas \ {r}, s # q,
               NEW t \in Tenures(s)', NEW u \in Tenures(q)', t.n = u.n
        PROVE  Over(t)' \/ Over(u)'
    <3>1. t \in Tenures(s) /\ u \in Tenures(q)
      BY <2>2, OthersFramed
    <3> QED
      BY <1>1, <2>2, <3>1 DEF TenureInv, OneAtATime, Over
  <2>3. \A s \in Replicas \ {r} : \A t \in Tenures(r)', u \in Tenures(s)' : t.n = u.n => Over(t)' \/ Over(u)'
    BY <2>1
  <2> QED
    BY <2>2, <2>3 DEF OneAtATime
<1> QED
  BY <1>1, <1>3, <1>4, <1>5, <1>6 DEF TenureInv

-----------------------------------------------------------------------------
(* The steps of a replica *)

(* Without an operation and without a node nothing is in tenure. *)
LEMMA NoTenure ==
  ASSUME TenureInv, NEW r \in Replicas
  PROVE  /\ ~Held(r) /\ ~InTenure(r) => Tenures(r) = {}
         /\ (~Held(r) /\ ~InTenure(r))' => Tenures(r)' = {}
  BY DEF Tenures

LEMMA GenerateSteps ==
  ASSUME TenureInv, NEW r \in Replicas, generate(r)
  PROVE  StepOf(r) /\ PartOf(r)' /\ TenuresFrom(r)
<1>1. /\ Held(r) /\ ~Stalled(r, node[r].gen)
      /\ node' = [node EXCEPT ![r] = Minted(r)]
      /\ UNCHANGED <<now, skew, asleep, lease, granted, owner, floor, initialized, emptySince, late, fault,
                     retired, pending, op>>
  BY DEF generate, Minted, clocks, leases, keyspace
<1>2. LeaseTypes
  BY DEF TenureInv
<1>3. /\ Minted(r) \in Holdings /\ Minted(r) # NotHeld /\ Minted(r).id = node[r].id /\ Minted(r).n = node[r].n
      /\ Minted(r).anchorWall = node[r].anchorWall /\ Minted(r).anchorMono = node[r].anchorMono
  BY <1>1, <1>2, MintedIs, HoldingNotEmpty
<1>4. /\ node' \in [Replicas -> {NotHeld} \cup Holdings] /\ node'[r] = Minted(r)
      /\ \A s \in Replicas \ {r} : node'[s] = node[s]
  BY <1>1, <1>2, <1>3 DEF LeaseTypes
<1>5. Held(r)' /\ Held(r)
  BY <1>1, <1>3, <1>4 DEF Held
<1>6. UNCHANGED <<InTenure(r), Anchored(r), ForGrant(r), ForRenew(r), Tenures(r)>>
  BY <1>1, <1>3, <1>4, <1>5 DEF InTenure, Anchored, ForGrant, ForRenew, Tenures, Read
<1>7. \A l \in 1 .. MaxLeases : Uses(r, l)' <=> Uses(r, l)
  BY <1>1, <1>3, <1>4 DEF Uses
<1>8. StepOf(r)
  BY <1>1, <1>2, <1>4, <1>7 DEF StepOf, LeaseTypes
<1>9. PartOf(r)'
  <2>1. AnchorsAgree(r)' /\ OneTenure(r)' /\ ClaimFits(r)'
    BY <1>1, <1>3, <1>4, <1>5, <1>6 DEF TenureInv, ClocksAgree, OneTenureEach, LostFloors, AnchorsAgree, OneTenure,
                                        ClaimFits
  <2>2. TenureKept(r)'
    BY <1>1, <1>6 DEF TenureInv, TenuresKept, TenureKept, Kept, Over, isHeldBy, Read, Alive
  <2> QED
    BY <2>1, <2>2 DEF PartOf
<1> QED
  BY <1>6, <1>8, <1>9 DEF TenuresFrom

(* Where no operation is left in flight and the node is the one it was, or none. *)
LEMMA QuietPart ==
  ASSUME TenureInv, NEW r \in Replicas, StepOf(r), op'[r] = NoOp, ~Held(r)' \/ node'[r] = node[r],
         Held(r)' => pending'[r] = 0 /\ UNCHANGED <<lease, owner>>
  PROVE  PartOf(r)' /\ TenuresFrom(r)
<1>1. /\ ~InTenure(r)' /\ ~Anchored(r)' /\ ~ForGrant(r)' /\ ~ForRenew(r)'
      /\ op'[r].pc = "none" /\ UNCHANGED <<now, fault, initialized, emptySince>>
  BY DEF InTenure, Anchored, ForGrant, ForRenew, NoOp, StepOf
<1>2. CASE ~Held(r)'
  BY <1>1, <1>2, NoTenure DEF PartOf, AnchorsAgree, OneTenure, ClaimFits, TenureKept, TenuresFrom
<1>3. CASE Held(r)' /\ node'[r] = node[r]
  <2>1. Held(r) /\ Tenures(r)' \subseteq Tenures(r)
    BY <1>1, <1>3 DEF Held, Tenures, Read
  <2>2. TenureKept(r)'
    BY <1>1, <1>3, <2>1 DEF TenureInv, TenuresKept, TenureKept, Kept, Over, isHeldBy
  <2> QED
    BY <1>1, <1>3, <2>1, <2>2
       DEF TenureInv, ClocksAgree, PartOf, AnchorsAgree, OneTenure, ClaimFits, TenuresFrom
<1> QED
  BY <1>2, <1>3

LEMMA QuietSteps ==
  ASSUME TenureInv, NEW r \in Replicas, Throws(r) \/ Restart(r) \/ exhausted(r)
  PROVE  StepOf(r) /\ PartOf(r)' /\ TenuresFrom(r)
<1>1. LeaseTypes
  BY DEF TenureInv
<1>2. Goto(r, NoOp)
  BY DEF Throws, Restart, exhausted, Exhausted
<1>3. /\ op' \in [Replicas -> {NoOp} \cup ClaimOps \cup RaiseOps \cup ReleaseOps] /\ op'[r] = NoOp
      /\ \A s \in Replicas \ {r} : op'[s] = op[s]
  BY <1>1, <1>2, OpTypes
<1>4. CASE Throws(r)
  <2>1. UNCHANGED <<now, skew, asleep, lease, granted, owner, floor, initialized, emptySince, fault,
                    node, retired, pending>>
    BY <1>4 DEF Throws, clocks, leases, keyspace
  <2>2. late' \subseteq [n : Nodes, generation : 1 .. MaxLeases, ms : Int]
    <3>1. CASE UNCHANGED late
      BY <1>1, <3>1 DEF LeaseTypes
    <3>2. CASE At(r, "raise") /\ late' = late \cup {[n |-> op[r].n, generation |-> op[r].generation, ms |-> op[r].until]}
      <4>1. op[r].n \in Nodes /\ op[r].generation \in 1 .. MaxLeases /\ op[r].until \in Int
        BY <1>1, <3>2, OpKinds DEF At, Anchored, NoOp
      <4> QED
        BY <1>1, <3>2, <4>1 DEF LeaseTypes
    <3> QED
      BY <1>4, <3>1, <3>2 DEF Throws
  <2>3. LeaseTypes'
    BY <1>1, <1>3, <2>1, <2>2 DEF LeaseTypes
  <2>4. \A l \in 1 .. MaxLeases : Uses(r, l)' => Uses(r, l)
    BY <1>3, <2>1 DEF Uses
  <2>5. StepOf(r)
    BY <1>1, <1>3, <2>1, <2>3, <2>4 DEF StepOf, LeaseTypes
  <2>6. Held(r)' <=> Held(r)
    BY <2>1 DEF Held
  <2> QED
    BY <1>3, <2>1, <2>5, <2>6, QuietPart DEF TenureInv, OneTenureEach
<1>5. CASE Restart(r)
  <2>1. /\ UNCHANGED <<now, skew, asleep, lease, granted, owner, floor, initialized, emptySince, fault, late>>
        /\ node' = [node EXCEPT ![r] = NotHeld] /\ retired' = [retired EXCEPT ![r] = 0]
        /\ pending' = [pending EXCEPT ![r] = 0]
    BY <1>5 DEF Restart, clocks, leases, keyspace
  <2>2. LeaseTypes'
    BY <1>1, <1>3, <2>1, BoundAssumption DEF LeaseTypes
  <2>3. \A l \in 1 .. MaxLeases : ~Uses(r, l)'
    BY <1>1, <1>3, <2>1 DEF Uses, LeaseTypes, NotHeld
  <2>4. StepOf(r)
    BY <1>1, <1>3, <2>1, <2>2, <2>3 DEF StepOf, LeaseTypes
  <2>5. ~Held(r)'
    BY <1>1, <2>1 DEF Held, LeaseTypes
  <2> QED
    BY <1>3, <2>4, <2>5, QuietPart
<1>6. CASE exhausted(r)
  <2>1. /\ UNCHANGED <<now, skew, asleep, granted, owner, floor, initialized, emptySince, fault, late, node, retired>>
        /\ lease' = [l \in 1 .. MaxLeases |-> IF l = pending[r] THEN 0 ELSE lease[l]]
        /\ pending' = [pending EXCEPT ![r] = 0] /\ ~Held(r)
    BY <1>6 DEF exhausted, Exhausted, clocks, keyspace
  <2>2. LeaseTypes'
    BY <1>1, <1>3, <2>1, BoundAssumption DEF LeaseTypes
  <2>3. \A l \in 1 .. MaxLeases : Uses(r, l)' => Uses(r, l)
    BY <1>1, <1>3, <2>1 DEF Uses, LeaseTypes
  <2>4. StepOf(r)
    BY <1>1, <1>3, <2>1, <2>2, <2>3 DEF StepOf, LeaseTypes, Uses
  <2>5. ~Held(r)'
    BY <2>1 DEF Held
  <2> QED
    BY <1>3, <2>4, <2>5, QuietPart
<1> QED
  BY <1>4, <1>5, <1>6

(* The clocks an operation reads tell the time it is. *)
LEMMA ClocksRead ==
  ASSUME TenureInv, NEW r \in Replicas, NEW x, x.anchorWall = Wall(r), x.anchorMono = Mono(r)
  PROVE  Read(x) = now /\ (fault \notin {"suspend", "clock"} => x.anchorWall = x.anchorMono)
  BY DEF TenureInv, ClocksAgree, LeaseTypes, Read, Wall, Mono

(* What an acquire with lease l leaves in flight. *)
LEMMA AcquireOp ==
  ASSUME LeaseTypes, NEW r \in Replicas, NEW l \in 1 .. MaxLeases,
         \/ ~initialized /\ Goto(r, NoOp)
         \/ /\ initialized
            /\ \E n \in Nodes : owner[n].lease = l /\ Readopt(r, l, n)
         \/ /\ initialized /\ Free # {} /\ \A n \in Nodes : owner[n].lease # l
            /\ \E n \in Free : Claim(r, [wall |-> Wall(r), mono |-> Mono(r)], l, [m \in Free |-> floor[m]], n)
  PROVE  /\ op' \in [Replicas -> {NoOp} \cup ClaimOps \cup RaiseOps \cup ReleaseOps]
         /\ \A s \in Replicas \ {r} : op'[s] = op[s]
         /\ \/ op'[r] = NoOp
            \/ /\ op'[r] # NoOp /\ op'[r].generation = l /\ op'[r].anchorWall = Wall(r) /\ op'[r].anchorMono = Mono(r)
               /\ initialized /\ op'[r].n \in Nodes
               /\ \/ /\ op'[r].pc = "raise" /\ op'[r].forGrant /\ owner[op'[r].n].lease = l
                     /\ op'[r].floorMs = owner[op'[r].n].claimFloor /\ op'[r].until >= floor[op'[r].n].ms
                  \/ /\ op'[r].pc = "claim" /\ \A n \in Nodes : owner[n].lease # l
                     /\ op'[r].free = [m \in Free |-> floor[m]] /\ op'[r].n \in Free
                     /\ op'[r].floorMs = floor[op'[r].n].ms /\ op'[r].until >= op'[r].floorMs
<1> DEFINE typed == /\ op' \in [Replicas -> {NoOp} \cup ClaimOps \cup RaiseOps \cup ReleaseOps]
                    /\ \A s \in Replicas \ {r} : op'[s] = op[s]
<1>1. CASE Goto(r, NoOp)
  BY <1>1, OpTypes
<1>2. ASSUME initialized, NEW n \in Nodes, owner[n].lease = l, Readopt(r, l, n)
      PROVE  /\ typed /\ op'[r] # NoOp /\ op'[r].generation = l /\ op'[r].anchorWall = Wall(r)
             /\ op'[r].anchorMono = Mono(r) /\ op'[r].n = n /\ op'[r].pc = "raise" /\ op'[r].forGrant
             /\ op'[r].floorMs = owner[n].claimFloor /\ op'[r].until >= floor[n].ms
  BY <1>2, ReadoptTypes DEF NoOp
<1>3. ASSUME NEW n \in Free, Claim(r, [wall |-> Wall(r), mono |-> Mono(r)], l, [m \in Free |-> floor[m]], n)
      PROVE  /\ typed /\ op'[r] # NoOp /\ op'[r].generation = l /\ op'[r].anchorWall = Wall(r)
             /\ op'[r].anchorMono = Mono(r) /\ op'[r].n = n /\ op'[r].pc = "claim" /\ n \in Nodes
             /\ op'[r].free = [m \in Free |-> floor[m]] /\ op'[r].floorMs = floor[n].ms
             /\ op'[r].until >= op'[r].floorMs
  <2> DEFINE free == [m \in Free |-> floor[m]]
  <2>1. free \in Snapshots /\ n \in DOMAIN free /\ free[n] = floor[n] /\ n \in Nodes
    <3>1. Free \in SUBSET Nodes /\ \A m \in Free : floor[m] \in Floors
      BY DEF Free, LeaseTypes
    <3>2. free \in [Free -> Floors]
      BY <3>1
    <3> QED
      BY <3>1, <3>2 DEF Snapshots
  <2>2. Wall(r) \in Int /\ Mono(r) \in Int
    BY ClockTypes
  <2> HIDE DEF free
  <2>3. Claim(r, [wall |-> Wall(r), mono |-> Mono(r)], l, free, n)
    BY <1>3 DEF free
  <2>4. /\ typed
        /\ op'[r].pc = "claim" /\ op'[r].anchorWall = Wall(r) /\ op'[r].anchorMono = Mono(r)
        /\ op'[r].n = n /\ op'[r].generation = l /\ op'[r].free = free /\ op'[r].floorMs = free[n].ms
        /\ op'[r].until >= op'[r].floorMs
    BY <2>1, <2>2, <2>3, ClaimTypes
  <2> QED
    BY <2>1, <2>4 DEF NoOp, free
<1> QED
  BY <1>1, <1>2, <1>3

LEMMA AcquireSteps ==
  ASSUME TenureInv, NEW r \in Replicas, acquire(r)
  PROVE  StepOf(r) /\ PartOf(r)' /\ TenuresFrom(r)
<1>1. LeaseTypes /\ LeasesApart
  BY DEF TenureInv
<1>2. PICK l \in 1 .. MaxLeases :
        /\ LeaseForClaim(r, l)
        /\ pending' = [pending EXCEPT ![r] = l]
        /\ late' = StillLate(l)
        /\ \/ ~initialized /\ Goto(r, NoOp)
           \/ /\ initialized
              /\ \E n \in Nodes : owner[n].lease = l /\ Readopt(r, l, n)
           \/ /\ initialized /\ Free # {} /\ \A n \in Nodes : owner[n].lease # l
              /\ \E n \in Free : Claim(r, [wall |-> Wall(r), mono |-> Mono(r)], l, [m \in Free |-> floor[m]], n)
  BY DEF acquire
<1>3. /\ UNCHANGED <<now, skew, asleep, owner, floor, initialized, emptySince, fault, node, retired>>
      /\ ~Held(r) /\ op[r] = NoOp
  BY DEF acquire, clocks, keyspace, Idle
<1>4. /\ lease' = [lease EXCEPT ![l] = now + Ttl]
      /\ \/ l = pending[r] /\ granted' = granted
         \/ l = granted + 1 /\ granted' = l
  BY <1>2 DEF LeaseForClaim
<1>5. l <= granted' /\ granted <= granted' /\ granted' \in 0 .. MaxLeases /\ granted \in Nat /\ (Uses(r, l) \/ granted < l)
  <2>1. granted \in 0 .. MaxLeases
    BY <1>1 DEF LeaseTypes
  <2>2. l = pending[r] => Uses(r, l) /\ l <= granted
    BY <1>1 DEF Uses, LeasesApart
  <2> QED
    BY <1>4, <2>1, <2>2, BoundAssumption
<1>6. late' \subseteq late
  BY <1>2 DEF StillLate
<1>7. /\ op' \in [Replicas -> {NoOp} \cup ClaimOps \cup RaiseOps \cup ReleaseOps]
      /\ \A s \in Replicas \ {r} : op'[s] = op[s]
      /\ \/ op'[r] = NoOp
         \/ /\ op'[r] # NoOp /\ op'[r].generation = l /\ op'[r].anchorWall = Wall(r) /\ op'[r].anchorMono = Mono(r)
            /\ initialized /\ op'[r].n \in Nodes
            /\ \/ op'[r].pc = "raise" /\ op'[r].forGrant /\ owner[op'[r].n].lease = l
               \/ /\ op'[r].pc = "claim" /\ \A n \in Nodes : owner[n].lease # l
                  /\ op'[r].free = [m \in Free |-> floor[m]] /\ op'[r].n \in Free
                  /\ op'[r].floorMs = floor[op'[r].n].ms
  BY <1>1, <1>2, AcquireOp
<1>8. LeaseTypes'
  <2>1. now + Ttl \in Nat /\ lease' \in [1 .. MaxLeases -> Nat]
    BY <1>1, <1>4, TimingAssumption DEF LeaseTypes
  <2>2. pending' \in [Replicas -> 0 .. MaxLeases]
    BY <1>1, <1>2, BoundAssumption DEF LeaseTypes
  <2> QED
    BY <1>1, <1>3, <1>5, <1>6, <1>7, <2>1, <2>2 DEF LeaseTypes
<1>9. \A k \in 1 .. MaxLeases : Uses(r, k)' => Uses(r, k) \/ (granted < k /\ k <= granted')
  BY <1>1, <1>2, <1>3, <1>5, <1>7 DEF Uses, LeaseTypes
<1>10. StepOf(r)
  <2>1. \A s \in Replicas \ {r} : node'[s] = node[s] /\ op'[s] = op[s] /\ pending'[s] = pending[s]
    BY <1>1, <1>2, <1>3, <1>7 DEF LeaseTypes
  <2>2. \A k \in 1 .. MaxLeases : k <= granted /\ ~Uses(r, k) => lease'[k] = lease[k]
    BY <1>1, <1>4, <1>5 DEF LeaseTypes
  <2> QED
    BY <1>3, <1>5, <1>8, <1>9, <2>1, <2>2 DEF StepOf
<1>11. ~Held(r)' /\ pending'[r] = l /\ lease'[l] = now + Ttl
  BY <1>1, <1>2, <1>3, <1>4 DEF Held, LeaseTypes
<1>12. CASE op'[r] = NoOp
  BY <1>10, <1>11, <1>12, QuietPart
<1>13. CASE op'[r] # NoOp
  <2>1. /\ op'[r].generation = l /\ op'[r].anchorWall = Wall(r) /\ op'[r].anchorMono = Mono(r)
        /\ initialized /\ op'[r].n \in Nodes
        /\ \/ op'[r].pc = "raise" /\ op'[r].forGrant /\ owner[op'[r].n].lease = l
           \/ /\ op'[r].pc = "claim" /\ \A n \in Nodes : owner[n].lease # l
              /\ op'[r].free = [m \in Free |-> floor[m]] /\ op'[r].n \in Free
              /\ op'[r].floorMs = floor[op'[r].n].ms
    BY <1>7, <1>13
  <2>2. Read(op'[r]) = now /\ (fault \notin {"suspend", "clock"} => op'[r].anchorWall = op'[r].anchorMono)
    BY <2>1, ClocksRead
  <2>3. Read(op[r])' = now /\ fault' = fault /\ now' = now /\ now \in Nat
    BY <1>1, <1>3, <2>2 DEF Read, LeaseTypes
  <2>4. AnchorsAgree(r)' /\ OneTenure(r)'
    BY <1>3, <1>11, <2>1, <2>2 DEF AnchorsAgree, OneTenure, ForGrant, ForRenew
  <2>5. ClaimFits(r)'
    <3>1. CASE op'[r].pc = "claim"
      <4>1. \A m \in Free : m \in Nodes /\ floor[m].by # 0
        BY <2>1 DEF TenureInv, LostFloors, Free
      <4> QED
        BY <2>1, <3>1, <4>1 DEF ClaimFits
    <3> QED
      BY <3>1 DEF ClaimFits
  <2>6. Tenures(r)' \subseteq {[n |-> op'[r].n, l |-> l, read |-> now]}
        /\ (op'[r].pc = "claim" => Tenures(r)' = {})
    BY <1>11, <2>1, <2>3 DEF Tenures, InTenure
  <2>7. TenureKept(r)'
    <3>1. CASE op'[r].pc = "claim"
      <4>1. \A n \in Nodes : owner'[n].lease # op'[r].generation
        BY <1>3, <2>1, <3>1
      <4>2. Read(op[r])' <= now' /\ lease'[op'[r].generation] >= Read(op[r])' + Ttl
        BY <1>11, <2>1, <2>3, TimingAssumption
      <4> QED
        BY <2>6, <3>1, <4>1, <4>2 DEF TenureKept
    <3>2. CASE op'[r].pc = "raise"
      <4>1. isHeldBy(op[r].n, l)'
        <5>1. owner[op'[r].n].lease = l /\ l # 0 /\ owner' = owner
          BY <1>3, <2>1, <3>2
        <5> QED
          BY <5>1 DEF isHeldBy, NoOwner
      <4>2. ASSUME NEW t \in Tenures(r)' PROVE t.read <= now' /\ Kept(t)'
        <5>1. t = [n |-> op'[r].n, l |-> l, read |-> now]
          BY <2>6
        <5>2. t.n = op'[r].n /\ t.l = l /\ t.read = now
          BY <5>1
        <5>3. isHeldBy(t.n, t.l)'
          BY <4>1, <5>2 DEF isHeldBy
        <5> QED
          BY <1>11, <2>3, <5>2, <5>3, TimingAssumption DEF Kept
      <4> QED
        BY <3>2, <4>2 DEF TenureKept
    <3> QED
      BY <2>1, <3>1, <3>2
  <2>8. TenuresFrom(r)
    <3> SUFFICES ASSUME NEW t \in Tenures(r)'
                 PROVE  t.n \in Nodes /\ initialized /\ (owner[t.n] = NoOwner \/ Uses(r, owner[t.n].lease))
      BY DEF TenuresFrom
    <3>1. t.n = op'[r].n /\ op'[r].pc = "raise"
      BY <2>1, <2>6
    <3>2. l = pending[r]
      BY <1>1, <1>4, <1>5, <2>1, <3>1 DEF LeasesApart
    <3> QED
      BY <2>1, <3>1, <3>2 DEF Uses
  <2> QED
    BY <1>10, <2>4, <2>5, <2>7, <2>8 DEF PartOf
<1> QED
  BY <1>10, <1>12, <1>13

LEMMA ClaimSteps ==
  ASSUME TenureInv, NEW r \in Replicas, claim(r)
  PROVE  StepOf(r) /\ PartOf(r)' /\ TenuresFrom(r)
<1> DEFINE o == op[r]
           l == op[r].generation
<1>1. LeaseTypes /\ LeasesApart
  BY DEF TenureInv
<1>2. /\ o.pc = "claim" /\ o \in ClaimOps /\ Anchored(r) /\ o # NoOp
      /\ o.n \in Nodes /\ l \in 1 .. MaxLeases /\ o.anchorWall \in Int /\ o.anchorMono \in Int
      /\ o.free \in Snapshots /\ o.floorMs \in Int /\ o.until \in Int
  BY <1>1, OpKinds DEF claim, At, Anchored, ClaimOps, NoOp
<1>3. /\ ~Held(r) /\ pending[r] = l /\ Uses(r, l) /\ l <= granted
      /\ (fault \notin {"suspend", "clock"} => o.anchorWall = o.anchorMono)
      /\ o.n \in DOMAIN o.free /\ o.floorMs = o.free[o.n].ms
      /\ \A m \in DOMAIN o.free : o.free[m].by # 0
      /\ \A n \in Nodes : owner[n].lease # l
      /\ Read(o) <= now /\ (Alive(l) => lease[l] >= Read(o) + Ttl)
      /\ ~InTenure(r)
  <2>1. Uses(r, l) /\ l <= granted
    BY <1>1, <1>2 DEF Uses, LeasesApart
  <2> QED
    BY <1>1, <1>2, <2>1 DEF TenureInv, OneTenureEach, ClocksAgree, LostFloors, TenuresKept, InTenure
<1>4. UNCHANGED <<now, skew, asleep, granted, initialized, emptySince, late, fault, node, retired>>
  BY DEF claim, clocks
<1>5. ~Held(r)'
  BY <1>3, <1>4 DEF Held
<1>6. granted \in Nat /\ lease[l] \in Nat /\ Read(o) \in Int /\ now \in Nat
  BY <1>1, <1>2 DEF LeaseTypes, Read
<1>7. CASE /\ Alive(l) /\ owner[o.n] = NoOwner /\ floor[o.n] = o.free[o.n]
           /\ owner' = [owner EXCEPT ![o.n] = [lease |-> l, claimFloor |-> o.floorMs]]
           /\ floor' = [floor EXCEPT ![o.n] = [ms |-> o.until, by |-> l]]
           /\ Goto(r, [o EXCEPT !.pc = "granted"])
           /\ UNCHANGED <<lease, pending>>
  <2>1. /\ op' \in [Replicas -> {NoOp} \cup ClaimOps \cup RaiseOps \cup ReleaseOps]
        /\ \A s \in Replicas \ {r} : op'[s] = op[s]
        /\ op'[r].pc = "granted" /\ op'[r].n = o.n /\ op'[r].generation = l
        /\ op'[r].anchorWall = o.anchorWall /\ op'[r].anchorMono = o.anchorMono
    BY <1>1, <1>2, <1>7, OnwardTypes
  <2>2. owner' \in [Nodes -> {NoOwner} \cup [lease : 1 .. MaxLeases, claimFloor : Int]] /\ floor' \in [Nodes -> Floors]
    BY <1>1, <1>2, <1>7 DEF LeaseTypes, Floors
  <2>3. LeaseTypes'
    BY <1>1, <1>4, <1>7, <2>1, <2>2 DEF LeaseTypes
  <2>4. \A n \in Nodes : owner'[n] = IF n = o.n THEN [lease |-> l, claimFloor |-> o.floorMs] ELSE owner[n]
    BY <1>1, <1>7 DEF LeaseTypes
  <2>5. \A n \in Nodes : floor'[n].by = IF n = o.n THEN l ELSE floor[n].by
    BY <1>1, <1>7 DEF LeaseTypes
  <2>6. owner[o.n].lease = 0 /\ owner'[o.n].lease = l
    BY <1>2, <1>7, <2>4 DEF NoOwner
  <2>7. initialized
    BY <1>2, <1>3, <1>7 DEF TenureInv, LostFloors
  <2>8. \A k \in 1 .. MaxLeases : Uses(r, k)' => Uses(r, k)
    BY <1>2, <1>4, <1>7, <2>1 DEF Uses
  <2>9. StepOf(r)
    <3>1. \A k \in 1 .. MaxLeases : k <= granted /\ ~Uses(r, k) =>
            \A n \in Nodes : owner'[n].lease = k <=> owner[n].lease = k
      BY <1>3, <2>4, <2>6
    <3>2. \A n \in Nodes : owner'[n] = owner[n] \/ Uses(r, owner'[n].lease)
      BY <1>3, <2>4, <2>6
    <3>3. \A n \in Nodes : floor'[n].by = floor[n].by \/ floor'[n].by \in 1 .. MaxLeases
      BY <1>2, <2>5
    <3> QED
      BY <1>4, <1>6, <1>7, <2>1, <2>3, <2>7, <2>8, <3>1, <3>2, <3>3 DEF StepOf
  <2>10. Read(op[r])' = Read(o)
    BY <1>4, <2>1 DEF Read
  <2>11. Tenures(r)' = {[n |-> o.n, l |-> l, read |-> Read(o)]}
    BY <1>5, <2>1, <2>10 DEF Tenures, InTenure
  <2>12. AnchorsAgree(r)' /\ OneTenure(r)' /\ ClaimFits(r)'
    BY <1>3, <1>4, <1>5, <1>7, <2>1 DEF AnchorsAgree, OneTenure, ClaimFits, ForGrant, ForRenew
  <2>13. TenureKept(r)'
    <3>1. owner'[o.n] # NoOwner
      BY <1>2, <2>6 DEF NoOwner
    <3>2. ASSUME NEW t \in Tenures(r)' PROVE t.read <= now' /\ Kept(t)'
      <4>1. t.n = o.n /\ t.l = l /\ t.read = Read(o)
        BY <2>11
      <4>2. isHeldBy(t.n, t.l)'
        BY <2>6, <3>1, <4>1 DEF isHeldBy
      <4> QED
        BY <1>3, <1>4, <1>7, <4>1, <4>2 DEF Kept
    <3> QED
      BY <2>1, <3>2 DEF TenureKept
  <2>14. TenuresFrom(r)
    BY <1>2, <1>7, <2>7, <2>11 DEF TenuresFrom
  <2> QED
    BY <2>9, <2>12, <2>13, <2>14 DEF PartOf
<1>8. CASE /\ Alive(l) /\ UNCHANGED <<lease, pending, owner, floor>>
           /\ \E n \in DOMAIN o.free \ {o.n} :
                Claim(r, [wall |-> o.anchorWall, mono |-> o.anchorMono], l, [m \in DOMAIN o.free \ {o.n} |-> o.free[m]], n)
  <2> DEFINE rest == [m \in DOMAIN o.free \ {o.n} |-> o.free[m]]
  <2>1. PICK n \in DOMAIN rest : Claim(r, [wall |-> o.anchorWall, mono |-> o.anchorMono], l, rest, n)
    BY <1>8
  <2>2. rest \in Snapshots
    <3>1. PICK S \in SUBSET Nodes : o.free \in [S -> Floors]
      BY <1>2 DEF Snapshots
    <3>2. rest \in [S \ {o.n} -> Floors] /\ S \ {o.n} \in SUBSET Nodes
      BY <3>1
    <3> QED
      BY <3>2 DEF Snapshots
  <2>3. \A m \in DOMAIN rest : rest[m].by # 0
    BY <1>3
  <2> HIDE DEF rest
  <2>4. /\ op' \in [Replicas -> {NoOp} \cup ClaimOps \cup RaiseOps \cup ReleaseOps]
        /\ \A s \in Replicas \ {r} : op'[s] = op[s]
        /\ op'[r].pc = "claim" /\ op'[r].anchorWall = o.anchorWall /\ op'[r].anchorMono = o.anchorMono
        /\ op'[r].n = n /\ op'[r].generation = l /\ op'[r].free = rest /\ op'[r].floorMs = rest[n].ms
    BY <1>1, <1>2, <2>1, <2>2, ClaimTypes
  <2>5. LeaseTypes'
    BY <1>1, <1>4, <1>8, <2>4 DEF LeaseTypes
  <2>6. \A k \in 1 .. MaxLeases : Uses(r, k)' => Uses(r, k)
    BY <1>2, <1>4, <1>8, <2>4 DEF Uses
  <2>7. StepOf(r)
    BY <1>4, <1>6, <1>8, <2>4, <2>5, <2>6 DEF StepOf
  <2>8. Read(op[r])' = Read(o)
    BY <1>4, <2>4 DEF Read
  <2>9. Tenures(r)' = {}
    BY <1>5, <2>4 DEF Tenures, InTenure
  <2>10. AnchorsAgree(r)' /\ OneTenure(r)' /\ ClaimFits(r)'
    BY <1>3, <1>4, <1>5, <1>8, <2>1, <2>3, <2>4 DEF AnchorsAgree, OneTenure, ClaimFits, ForGrant, ForRenew
  <2>11. TenureKept(r)'
    BY <1>3, <1>4, <1>8, <2>4, <2>8, <2>9 DEF TenureKept, Alive
  <2> QED
    BY <2>7, <2>9, <2>10, <2>11 DEF PartOf, TenuresFrom
<1>9. CASE /\ Exhausted(r, l) /\ UNCHANGED <<owner, floor>>
           /\ lease' = lease \/ lease' = [lease EXCEPT ![l] = 0]
  <2>1. Goto(r, NoOp) /\ pending' = [pending EXCEPT ![r] = 0]
    BY <1>9 DEF Exhausted
  <2>2. /\ op' \in [Replicas -> {NoOp} \cup ClaimOps \cup RaiseOps \cup ReleaseOps] /\ op'[r] = NoOp
        /\ \A s \in Replicas \ {r} : op'[s] = op[s]
    BY <1>1, <2>1, OpTypes
  <2>3. LeaseTypes'
    <3>1. lease' \in [1 .. MaxLeases -> Nat]
      BY <1>1, <1>9 DEF LeaseTypes
    <3>2. pending' \in [Replicas -> 0 .. MaxLeases]
      BY <1>1, <2>1, BoundAssumption DEF LeaseTypes
    <3> QED
      BY <1>1, <1>4, <1>9, <2>2, <3>1, <3>2 DEF LeaseTypes
  <2>4. \A k \in 1 .. MaxLeases : Uses(r, k)' => Uses(r, k)
    BY <1>1, <1>4, <2>1, <2>2 DEF Uses, LeaseTypes
  <2>5. \A k \in 1 .. MaxLeases : ~Uses(r, k) => lease'[k] = lease[k]
    BY <1>1, <1>3, <1>9 DEF LeaseTypes
  <2>6. \A s \in Replicas \ {r} : pending'[s] = pending[s]
    BY <1>1, <2>1 DEF LeaseTypes
  <2>7. StepOf(r)
    BY <1>4, <1>6, <1>9, <2>2, <2>3, <2>4, <2>5, <2>6 DEF StepOf
  <2> QED
    BY <1>5, <2>2, <2>7, QuietPart
<1> QED
  BY <1>7, <1>8, <1>9 DEF claim

LEMMA HeldSteps ==
  ASSUME TenureInv, NEW r \in Replicas, held(r)
  PROVE  StepOf(r) /\ PartOf(r)' /\ TenuresFrom(r)
<1> DEFINE o == op[r]
           l == op[r].generation
<1>1. LeaseTypes /\ LeasesApart
  BY DEF TenureInv
<1>2. /\ o.pc = "granted" /\ Anchored(r) /\ InTenure(r) /\ ForGrant(r) /\ o # NoOp
      /\ o.n \in Nodes /\ l \in 1 .. MaxLeases /\ o.anchorWall \in Int /\ o.anchorMono \in Int
      /\ o.until \in Int /\ o.floorMs \in Int
  BY <1>1, OpKinds DEF held, At, Anchored, InTenure, ForGrant, NoOp
<1>3. /\ ~Held(r) /\ pending[r] = l
      /\ (fault \notin {"suspend", "clock"} => o.anchorWall = o.anchorMono)
  BY <1>2 DEF TenureInv, OneTenureEach, ClocksAgree
<1>4. /\ UNCHANGED <<now, skew, asleep, lease, granted, owner, floor, initialized, emptySince, late, fault, retired>>
      /\ pending' = [pending EXCEPT ![r] = 0]
  BY DEF held, clocks, leases, keyspace
<1>5. pending' \in [Replicas -> 0 .. MaxLeases] /\ pending'[r] = 0 /\ \A s \in Replicas \ {r} : pending'[s] = pending[s]
  BY <1>1, <1>4, BoundAssumption DEF LeaseTypes
<1>6. CASE Goto(r, [pc |-> "release", n |-> o.n, generation |-> l, lastMs |-> 0]) /\ UNCHANGED node
  <2>1. /\ op' \in [Replicas -> {NoOp} \cup ClaimOps \cup RaiseOps \cup ReleaseOps]
        /\ \A s \in Replicas \ {r} : op'[s] = op[s]
        /\ op'[r].pc = "release" /\ op'[r].n = o.n /\ op'[r].generation = l
    BY <1>1, <1>2, <1>6, ReleaseTypes
  <2>2. LeaseTypes'
    BY <1>1, <1>4, <1>5, <1>6, <2>1 DEF LeaseTypes
  <2>3. \A k \in 1 .. MaxLeases : Uses(r, k)' => Uses(r, k)
    BY <1>2, <1>5, <1>6, <2>1 DEF Uses
  <2>4. StepOf(r)
    BY <1>1, <1>4, <1>5, <1>6, <2>1, <2>2, <2>3 DEF StepOf, LeaseTypes
  <2>5. ~Held(r)' /\ Tenures(r)' = {}
    BY <1>3, <1>6, <2>1 DEF Held, Tenures, InTenure
  <2>6. PartOf(r)'
    BY <2>1, <2>5 DEF PartOf, AnchorsAgree, OneTenure, ClaimFits, TenureKept, Anchored, ForGrant, ForRenew
  <2> QED
    BY <2>4, <2>5, <2>6 DEF TenuresFrom
<1>7. CASE /\ Goto(r, NoOp)
           /\ node' = [node EXCEPT ![r] =
                [id |-> o.generation, n |-> o.n, until |-> o.until,
                 gen |-> Generator(r, o.n, Larger(o.floorMs, retired[r])),
                 anchorWall |-> o.anchorWall, anchorMono |-> o.anchorMono]]
  <2> DEFINE h == [id |-> o.generation, n |-> o.n, until |-> o.until,
                   gen |-> Generator(r, o.n, Larger(o.floorMs, retired[r])),
                   anchorWall |-> o.anchorWall, anchorMono |-> o.anchorMono]
  <2>1. Generator(r, o.n, Larger(o.floorMs, retired[r])) \in Generators
    <3>1. Wall(r) \in Int /\ Mono(r) \in Int /\ retired[r] \in Int
      BY <1>1, ClockTypes DEF LeaseTypes
    <3>2. Larger(Wall(r), Larger(o.floorMs, retired[r]) + 1) - Mono(r) \in Int
      BY <1>2, <3>1 DEF Larger
    <3>3. 0 \in 0 .. SequenceCount - 1
      BY TimingAssumption
    <3> QED
      BY <1>2, <3>2, <3>3 DEF Generator, Generators
  <2>2. h \in Holdings /\ h.id = l /\ h.n = o.n /\ h.anchorWall = o.anchorWall /\ h.anchorMono = o.anchorMono
    BY <1>2, <2>1 DEF Holdings
  <2> HIDE DEF h
  <2>3. /\ node' \in [Replicas -> {NotHeld} \cup Holdings] /\ node'[r] = h
        /\ \A s \in Replicas \ {r} : node'[s] = node[s]
    BY <1>1, <1>7, <2>2 DEF LeaseTypes, h
  <2>4. /\ op' \in [Replicas -> {NoOp} \cup ClaimOps \cup RaiseOps \cup ReleaseOps] /\ op'[r] = NoOp
        /\ \A s \in Replicas \ {r} : op'[s] = op[s]
    BY <1>1, <1>7, OpTypes
  <2>5. LeaseTypes'
    BY <1>1, <1>4, <1>5, <2>3, <2>4 DEF LeaseTypes
  <2>6. \A k \in 1 .. MaxLeases : Uses(r, k)' => Uses(r, k)
    BY <1>2, <1>5, <2>2, <2>3, <2>4 DEF Uses
  <2>7. StepOf(r)
    BY <1>1, <1>4, <1>5, <2>3, <2>4, <2>5, <2>6 DEF StepOf, LeaseTypes
  <2>8. Held(r)' /\ ~InTenure(r)' /\ ~Anchored(r)' /\ ~ForGrant(r)' /\ ~ForRenew(r)' /\ op'[r].pc = "none"
    BY <2>2, <2>3, <2>4, HoldingNotEmpty DEF Held, InTenure, Anchored, ForGrant, ForRenew, NoOp
  <2>9. Tenures(r)' = {[n |-> o.n, l |-> l, read |-> Read(o)]} /\ Tenures(r)' \subseteq Tenures(r)
    BY <1>2, <1>4, <2>2, <2>3, <2>8 DEF Tenures, Read
  <2>10. TenureKept(r)'
    BY <1>4, <2>8, <2>9 DEF TenureInv, TenuresKept, TenureKept, Kept, Over, isHeldBy
  <2>11. PartOf(r)'
    BY <1>3, <1>4, <1>5, <2>2, <2>3, <2>8, <2>10 DEF PartOf, AnchorsAgree, OneTenure, ClaimFits
  <2> QED
    BY <2>7, <2>9, <2>11 DEF TenuresFrom
<1> QED
  BY <1>6, <1>7 DEF held

LEMMA RenewSteps ==
  ASSUME TenureInv, NEW r \in Replicas, renew(r)
  PROVE  StepOf(r) /\ PartOf(r)' /\ TenuresFrom(r)
<1> DEFINE n == node[r].n
           l == node[r].id
<1>1. LeaseTypes /\ LeasesApart
  BY DEF TenureInv
<1>2. /\ Held(r) /\ op[r] = NoOp /\ n \in Nodes /\ l \in 1 .. MaxLeases /\ pending[r] = 0
      /\ Uses(r, l) /\ l <= granted
  <2>1. Held(r) /\ op[r] = NoOp
    BY DEF renew, Idle
  <2>2. n \in Nodes /\ l \in 1 .. MaxLeases /\ Uses(r, l)
    BY <1>1, <2>1, HolderTypes DEF Uses
  <2> QED
    BY <1>1, <2>1, <2>2 DEF TenureInv, OneTenureEach, LeasesApart
<1>3. /\ UNCHANGED <<now, skew, asleep, granted, owner, floor, initialized, emptySince, fault, pending>>
      /\ late' \subseteq late
  BY DEF renew, clocks, keyspace, StillLate
<1>4. CASE /\ isHeldBy(n, l) /\ lease' = [lease EXCEPT ![l] = now + Ttl] /\ Raises(r)
           /\ UNCHANGED <<node, retired>>
  <2>1. /\ op' \in [Replicas -> {NoOp} \cup ClaimOps \cup RaiseOps \cup ReleaseOps]
        /\ \A s \in Replicas \ {r} : op'[s] = op[s]
        /\ op'[r] \in RaiseOps /\ op'[r].pc = "raise" /\ ~op'[r].forGrant
        /\ op'[r].anchorWall = Wall(r) /\ op'[r].anchorMono = Mono(r)
        /\ op'[r].n = n /\ op'[r].generation = l
    BY <1>1, <1>2, <1>4, RaiseTypes
  <2>2. now \in Nat /\ now + Ttl \in Nat /\ lease' \in [1 .. MaxLeases -> Nat] /\ lease'[l] = now + Ttl
        /\ \A k \in 1 .. MaxLeases : k # l => lease'[k] = lease[k]
    BY <1>1, <1>2, <1>4, TimingAssumption DEF LeaseTypes
  <2>3. LeaseTypes'
    BY <1>1, <1>3, <1>4, <2>1, <2>2 DEF LeaseTypes
  <2>4. \A k \in 1 .. MaxLeases : Uses(r, k)' => Uses(r, k)
    BY <1>2, <1>3, <1>4, <2>1 DEF Uses
  <2>5. StepOf(r)
    BY <1>1, <1>2, <1>3, <1>4, <2>1, <2>2, <2>3, <2>4 DEF StepOf, LeaseTypes
  <2>6. Read(op'[r]) = now /\ (fault \notin {"suspend", "clock"} => op'[r].anchorWall = op'[r].anchorMono)
    BY <2>1, ClocksRead
  <2>7. Read(op[r])' = now /\ Read(node[r])' = Read(node[r])
    BY <1>3, <1>4, <2>6 DEF Read
  <2>8. Held(r)' /\ node'[r] = node[r]
    BY <1>2, <1>4 DEF Held
  <2>9. Tenures(r)' = {[n |-> n, l |-> l, read |-> Read(node[r])], [n |-> n, l |-> l, read |-> now]}
        /\ [n |-> n, l |-> l, read |-> Read(node[r])] \in Tenures(r)
    BY <1>2, <2>1, <2>7, <2>8 DEF Tenures, InTenure
  <2>10. AnchorsAgree(r)' /\ OneTenure(r)' /\ ClaimFits(r)'
    BY <1>2, <1>3, <2>1, <2>6, <2>8 DEF AnchorsAgree, OneTenure, ClaimFits, ForGrant, ForRenew, TenureInv, ClocksAgree
  <2>11. TenureKept(r)'
    <3>1. ASSUME NEW t \in Tenures(r)' PROVE t.read <= now' /\ Kept(t)'
      <4>1. t.n = n /\ t.l = l /\ t.read <= now /\ t.read \in Int
        <5>1. CASE t = [n |-> n, l |-> l, read |-> Read(node[r])]
          BY <1>1, <2>9, <5>1, TenureTypes DEF TenureInv, TenuresKept
        <5>2. CASE t = [n |-> n, l |-> l, read |-> now]
          BY <2>2, <5>2
        <5> QED
          BY <2>9, <5>1, <5>2
      <4>2. isHeldBy(t.n, t.l)'
        BY <1>3, <1>4, <4>1 DEF isHeldBy
      <4> QED
        BY <1>3, <2>2, <4>1, <4>2, TimingAssumption DEF Kept
    <3> QED
      BY <2>1, <3>1 DEF TenureKept
  <2>12. TenuresFrom(r)
    <3>1. initialized
      BY <1>2, <1>4 DEF isHeldBy, TenureInv, LostFloors
    <3> QED
      BY <1>2, <1>4, <2>9, <3>1 DEF TenuresFrom, isHeldBy
  <2> QED
    BY <2>5, <2>10, <2>11, <2>12 DEF PartOf
<1>5. CASE Lost(r) /\ UNCHANGED lease
  <2>1. /\ op' \in [Replicas -> {NoOp} \cup ClaimOps \cup RaiseOps \cup ReleaseOps] /\ op'[r] = NoOp
        /\ \A s \in Replicas \ {r} : op'[s] = op[s]
    BY <1>1, <1>5, OpTypes DEF Lost
  <2>2. /\ node' \in [Replicas -> {NotHeld} \cup Holdings] /\ node'[r] = NotHeld
        /\ \A s \in Replicas \ {r} : node'[s] = node[s]
    BY <1>1, <1>5 DEF Lost, retire, LeaseTypes
  <2>3. retired' \in [Replicas -> Int]
    <3>1. node[r].gen.lastMs \in Int /\ retired[r] \in Int
      BY <1>1, <1>2, HolderTypes DEF Generators, LeaseTypes
    <3> QED
      BY <1>1, <1>5, <3>1, LargerIs DEF Lost, retire, LeaseTypes
  <2>4. LeaseTypes'
    BY <1>1, <1>3, <1>5, <2>1, <2>2, <2>3 DEF LeaseTypes
  <2>5. \A k \in 1 .. MaxLeases : Uses(r, k)' => Uses(r, k)
    BY <1>2, <1>3, <2>1, <2>2 DEF Uses, NotHeld
  <2>6. StepOf(r)
    BY <1>1, <1>3, <1>5, <2>1, <2>2, <2>4, <2>5 DEF StepOf, LeaseTypes
  <2>7. ~Held(r)'
    BY <2>2 DEF Held
  <2> QED
    BY <2>1, <2>6, <2>7, QuietPart
<1> QED
  BY <1>4, <1>5 DEF renew, Raises

(* A replica that gives its node up. *)
LEMMA RetireTypes ==
  ASSUME LeaseTypes, NEW r \in Replicas, retire(r)
  PROVE  /\ node' \in [Replicas -> {NotHeld} \cup Holdings] /\ node'[r] = NotHeld /\ ~Held(r)'
         /\ \A s \in Replicas \ {r} : node'[s] = node[s]
         /\ retired' \in [Replicas -> Int]
<1>1. /\ node' \in [Replicas -> {NotHeld} \cup Holdings] /\ node'[r] = NotHeld
      /\ \A s \in Replicas \ {r} : node'[s] = node[s]
  BY DEF retire, LeaseTypes
<1>2. retired[r] \in Int /\ (Held(r) => Larger(retired[r], node[r].gen.lastMs) \in Int)
  <2>1. retired[r] \in Int /\ (Held(r) => node[r].gen.lastMs \in Int)
    BY HolderTypes DEF Generators, LeaseTypes
  <2> QED
    BY <2>1 DEF Larger
<1>3. retired' \in [Replicas -> Int]
  BY <1>2 DEF retire, LeaseTypes
<1> QED
  BY <1>1, <1>3 DEF Held

LEMMA RaiseSteps ==
  ASSUME TenureInv, NEW r \in Replicas, raiseCeiling(r)
  PROVE  StepOf(r) /\ PartOf(r)' /\ TenuresFrom(r)
<1> DEFINE o == op[r]
           l == op[r].generation
<1>1. LeaseTypes /\ LeasesApart
  BY DEF TenureInv
<1>2. /\ o.pc = "raise" /\ o \in RaiseOps /\ Anchored(r) /\ InTenure(r) /\ o # NoOp /\ Uses(r, l)
      /\ o.n \in Nodes /\ l \in 1 .. MaxLeases /\ o.until \in Int /\ o.forGrant \in BOOLEAN
  BY <1>1, OpKinds DEF raiseCeiling, At, Anchored, InTenure, RaiseOps, NoOp, Uses
<1>3. UNCHANGED <<now, skew, asleep, lease, granted, owner, initialized, emptySince, fault, late, pending>>
  BY DEF raiseCeiling, clocks, leases
<1>4. CASE /\ isHeldBy(o.n, l) /\ floor' = [floor EXCEPT ![o.n] = [ms |-> o.until, by |-> l]]
           /\ Goto(r, [o EXCEPT !.pc = IF o.forGrant THEN "granted" ELSE "renewed"])
           /\ UNCHANGED <<node, retired>>
  <2> DEFINE pc == IF o.forGrant THEN "granted" ELSE "renewed"
  <2>1. pc \in {"renewed", "granted"} /\ (pc = "granted" <=> o.forGrant)
    BY <1>2
  <2> HIDE DEF pc
  <2>2. Goto(r, [o EXCEPT !.pc = pc])
    BY <1>4 DEF pc
  <2>3. /\ op' \in [Replicas -> {NoOp} \cup ClaimOps \cup RaiseOps \cup ReleaseOps]
        /\ \A s \in Replicas \ {r} : op'[s] = op[s]
        /\ op'[r].pc = pc /\ op'[r].n = o.n /\ op'[r].generation = l
        /\ op'[r].anchorWall = o.anchorWall /\ op'[r].anchorMono = o.anchorMono
    BY <1>1, <1>2, <2>1, <2>2, OnwardTypes
  <2>4. floor' \in [Nodes -> Floors] /\ \A n \in Nodes : floor'[n].by = IF n = o.n THEN l ELSE floor[n].by
    BY <1>1, <1>2, <1>4 DEF LeaseTypes, Floors
  <2>5. LeaseTypes'
    BY <1>1, <1>3, <1>4, <2>3, <2>4 DEF LeaseTypes
  <2>6. \A k \in 1 .. MaxLeases : Uses(r, k)' => Uses(r, k)
    BY <1>2, <1>3, <1>4, <2>3 DEF Uses
  <2>7. initialized
    BY <1>2, <1>4 DEF isHeldBy, TenureInv, LostFloors
  <2>8. StepOf(r)
    BY <1>1, <1>2, <1>3, <1>4, <2>3, <2>4, <2>5, <2>6, <2>7 DEF StepOf, LeaseTypes
  <2>9. InTenure(r)' /\ Anchored(r)' /\ (ForGrant(r)' <=> ForGrant(r)) /\ (ForRenew(r)' <=> ForRenew(r))
        /\ (Held(r)' <=> Held(r)) /\ node'[r] = node[r] /\ op'[r].pc \notin {"claim", "release"}
    BY <1>2, <1>4, <2>1, <2>3 DEF InTenure, Anchored, ForGrant, ForRenew, Held
  <2>10. Tenures(r)' = Tenures(r)
    BY <1>2, <1>3, <2>3, <2>9 DEF Tenures, Read
  <2>11. TenureKept(r)'
    BY <1>3, <2>9, <2>10 DEF TenureInv, TenuresKept, TenureKept, Kept, Over, isHeldBy
  <2>12. AnchorsAgree(r)' /\ OneTenure(r)' /\ ClaimFits(r)'
    BY <1>2, <1>3, <2>3, <2>9 DEF AnchorsAgree, OneTenure, ClaimFits, TenureInv, ClocksAgree, OneTenureEach
  <2> QED
    BY <2>8, <2>10, <2>11, <2>12 DEF PartOf, TenuresFrom
<1>5. CASE Goto(r, NoOp) /\ (UNCHANGED <<node, retired>> \/ retire(r)) /\ UNCHANGED floor
  <2>1. /\ op' \in [Replicas -> {NoOp} \cup ClaimOps \cup RaiseOps \cup ReleaseOps] /\ op'[r] = NoOp
        /\ \A s \in Replicas \ {r} : op'[s] = op[s]
    BY <1>1, <1>5, OpTypes
  <2>2. /\ node' \in [Replicas -> {NotHeld} \cup Holdings] /\ retired' \in [Replicas -> Int]
        /\ node'[r] = node[r] \/ node'[r] = NotHeld
        /\ \A s \in Replicas \ {r} : node'[s] = node[s]
    BY <1>1, <1>5, RetireTypes DEF LeaseTypes
  <2>3. LeaseTypes'
    BY <1>1, <1>3, <1>5, <2>1, <2>2 DEF LeaseTypes
  <2>4. \A k \in 1 .. MaxLeases : Uses(r, k)' => Uses(r, k)
    BY <1>3, <2>1, <2>2 DEF Uses, NotHeld
  <2>5. StepOf(r)
    BY <1>1, <1>3, <1>5, <2>1, <2>2, <2>3, <2>4 DEF StepOf, LeaseTypes
  <2>6. Held(r)' => Held(r) /\ node'[r] = node[r]
    BY <2>2 DEF Held
  <2>7. Held(r)' => pending'[r] = 0
    BY <1>3, <2>6 DEF TenureInv, OneTenureEach
  <2> QED
    BY <1>3, <2>1, <2>5, <2>6, <2>7, QuietPart
<1> QED
  BY <1>4, <1>5 DEF raiseCeiling, Lost

LEMMA RenewedSteps ==
  ASSUME TenureInv, NEW r \in Replicas, renewed(r)
  PROVE  StepOf(r) /\ PartOf(r)' /\ TenuresFrom(r)
<1> DEFINE o == op[r]
           h == [node[r] EXCEPT !.anchorWall = o.anchorWall, !.anchorMono = o.anchorMono, !.until = o.until]
<1>1. LeaseTypes /\ LeasesApart
  BY DEF TenureInv
<1>2. /\ o.pc = "renewed" /\ Anchored(r) /\ InTenure(r) /\ ForRenew(r)
      /\ o.anchorWall \in Int /\ o.anchorMono \in Int /\ o.until \in Int
  BY <1>1, OpKinds DEF renewed, At, Anchored, InTenure, ForRenew
<1>3. /\ Held(r) /\ o.n = node[r].n /\ o.generation = node[r].id /\ pending[r] = 0
      /\ (fault \notin {"suspend", "clock"} => o.anchorWall = o.anchorMono)
  BY <1>2 DEF TenureInv, OneTenureEach, ClocksAgree
<1>4. /\ UNCHANGED <<now, skew, asleep, lease, granted, owner, floor, initialized, emptySince, late, fault,
                     retired, pending>>
      /\ node' = [node EXCEPT ![r] = h] /\ Goto(r, NoOp)
  BY DEF renewed, clocks, leases, keyspace
<1>5. node[r] \in Holdings
  BY <1>1, <1>3, HolderTypes
<1>6. /\ h \in Holdings /\ h.id = node[r].id /\ h.n = node[r].n
      /\ h.anchorWall = o.anchorWall /\ h.anchorMono = o.anchorMono
  BY <1>2, <1>5 DEF Holdings
<1> HIDE DEF h
<1>7. /\ node' \in [Replicas -> {NotHeld} \cup Holdings] /\ node'[r] = h
      /\ \A s \in Replicas \ {r} : node'[s] = node[s]
  BY <1>1, <1>4, <1>6 DEF LeaseTypes
<1>8. /\ op' \in [Replicas -> {NoOp} \cup ClaimOps \cup RaiseOps \cup ReleaseOps] /\ op'[r] = NoOp
      /\ \A s \in Replicas \ {r} : op'[s] = op[s]
  BY <1>1, <1>4, OpTypes
<1>9. LeaseTypes'
  BY <1>1, <1>4, <1>7, <1>8 DEF LeaseTypes
<1>10. \A k \in 1 .. MaxLeases : Uses(r, k)' => Uses(r, k)
  BY <1>4, <1>6, <1>7, <1>8 DEF Uses
<1>11. StepOf(r)
  BY <1>1, <1>4, <1>7, <1>8, <1>9, <1>10 DEF StepOf, LeaseTypes
<1>12. Held(r)' /\ ~InTenure(r)' /\ ~Anchored(r)' /\ ~ForGrant(r)' /\ ~ForRenew(r)' /\ op'[r].pc = "none"
  BY <1>6, <1>7, <1>8, HoldingNotEmpty DEF Held, InTenure, Anchored, ForGrant, ForRenew, NoOp
<1>13. Tenures(r)' = {[n |-> o.n, l |-> o.generation, read |-> Read(o)]} /\ Tenures(r)' \subseteq Tenures(r)
  BY <1>2, <1>3, <1>4, <1>6, <1>7, <1>12 DEF Tenures, Read
<1>14. TenureKept(r)'
  BY <1>4, <1>12, <1>13 DEF TenureInv, TenuresKept, TenureKept, Kept, Over, isHeldBy
<1>15. PartOf(r)'
  BY <1>3, <1>4, <1>6, <1>7, <1>12, <1>14 DEF PartOf, AnchorsAgree, OneTenure, ClaimFits
<1> QED
  BY <1>11, <1>13, <1>15 DEF TenuresFrom

LEMMA ReleaseSteps ==
  ASSUME TenureInv, NEW r \in Replicas, release(r)
  PROVE  StepOf(r) /\ PartOf(r)' /\ TenuresFrom(r)
<1>1. LeaseTypes /\ LeasesApart
  BY DEF TenureInv
<1>2. /\ UNCHANGED <<now, skew, asleep, lease, granted, owner, floor, initialized, emptySince, late, fault, pending>>
      /\ Held(r) /\ retire(r)
      /\ Goto(r, [pc |-> "release", n |-> node[r].n, generation |-> node[r].id, lastMs |-> node[r].gen.lastMs])
  BY DEF release, clocks, leases, keyspace
<1>3. node[r].n \in Nodes /\ node[r].id \in 1 .. MaxLeases /\ node[r].gen.lastMs \in Int
  BY <1>1, <1>2, HolderTypes DEF Generators
<1>4. /\ op' \in [Replicas -> {NoOp} \cup ClaimOps \cup RaiseOps \cup ReleaseOps]
      /\ \A s \in Replicas \ {r} : op'[s] = op[s]
      /\ op'[r].pc = "release" /\ op'[r].generation = node[r].id
  BY <1>1, <1>2, <1>3, ReleaseTypes
<1>5. /\ node' \in [Replicas -> {NotHeld} \cup Holdings] /\ node'[r] = NotHeld /\ ~Held(r)'
      /\ \A s \in Replicas \ {r} : node'[s] = node[s]
      /\ retired' \in [Replicas -> Int]
  BY <1>1, <1>2, RetireTypes
<1>6. LeaseTypes'
  BY <1>1, <1>2, <1>4, <1>5 DEF LeaseTypes
<1>7. \A k \in 1 .. MaxLeases : Uses(r, k)' => Uses(r, k)
  BY <1>2, <1>4, <1>5 DEF Uses, NotHeld
<1>8. StepOf(r)
  <2>1. granted <= granted'
    BY <1>1, <1>2 DEF LeaseTypes
  <2> QED
    BY <1>2, <1>4, <1>5, <1>6, <1>7, <2>1 DEF StepOf
<1>9. Tenures(r)' = {}
  BY <1>4, <1>5 DEF Tenures, InTenure
<1>10. PartOf(r)'
  BY <1>4, <1>5, <1>9 DEF PartOf, AnchorsAgree, OneTenure, ClaimFits, TenureKept, Anchored, ForGrant, ForRenew
<1> QED
  BY <1>8, <1>9, <1>10 DEF TenuresFrom

LEMMA ReleaseTxnSteps ==
  ASSUME TenureInv, NEW r \in Replicas, releaseTxn(r)
  PROVE  StepOf(r) /\ PartOf(r)' /\ TenuresFrom(r)
<1> DEFINE o == op[r]
           l == op[r].generation
<1>1. LeaseTypes /\ LeasesApart
  BY DEF TenureInv
<1>2. /\ o.pc = "release" /\ o # NoOp /\ Uses(r, l) /\ o.n \in Nodes /\ l \in 1 .. MaxLeases /\ o.lastMs \in Int
      /\ ~Held(r)
  BY <1>1, OpKinds DEF releaseTxn, At, ReleaseOps, NoOp, Uses, TenureInv, OneTenureEach
<1>3. UNCHANGED <<now, skew, asleep, granted, initialized, emptySince, late, fault, node, retired, pending>>
  BY DEF releaseTxn, clocks
<1>4. /\ op' \in [Replicas -> {NoOp} \cup ClaimOps \cup RaiseOps \cup ReleaseOps] /\ op'[r] = NoOp
      /\ \A s \in Replicas \ {r} : op'[s] = op[s]
  BY <1>1, OpTypes DEF releaseTxn
<1>5. \A k \in 1 .. MaxLeases : Uses(r, k)' => Uses(r, k)
  BY <1>3, <1>4 DEF Uses
<1>6. ~Held(r)'
  BY <1>2, <1>3 DEF Held
<1>7. CASE UNCHANGED <<floor, owner, lease>>
  <2>1. LeaseTypes'
    BY <1>1, <1>3, <1>4, <1>7 DEF LeaseTypes
  <2>2. StepOf(r)
    BY <1>1, <1>3, <1>4, <1>5, <1>7, <2>1 DEF StepOf, LeaseTypes
  <2> QED
    BY <1>4, <1>6, <2>2, QuietPart
<1>8. CASE /\ isHeldBy(o.n, l)
           /\ floor' = [floor EXCEPT ![o.n] = [ms |-> Larger(owner[o.n].claimFloor, o.lastMs), by |-> l]]
           /\ owner' = [owner EXCEPT ![o.n] = NoOwner]
           /\ lease' = [lease EXCEPT ![l] = 0]
  <2>1. Larger(owner[o.n].claimFloor, o.lastMs) \in Int
    BY <1>1, <1>2, OwnerTypes DEF Larger
  <2>2. floor' \in [Nodes -> Floors] /\ \A n \in Nodes : floor'[n].by = IF n = o.n THEN l ELSE floor[n].by
    BY <1>1, <1>2, <1>8, <2>1 DEF LeaseTypes, Floors
  <2>3. LeaseTypes'
    BY <1>1, <1>3, <1>4, <1>8, <2>2 DEF LeaseTypes
  <2>4. initialized
    BY <1>2, <1>8 DEF isHeldBy, TenureInv, LostFloors
  <2>5. \A n \in Nodes : owner'[n] = IF n = o.n THEN NoOwner ELSE owner[n]
    BY <1>1, <1>8 DEF LeaseTypes
  <2>6. \A k \in 1 .. MaxLeases : ~Uses(r, k) =>
          lease'[k] = lease[k] /\ \A n \in Nodes : owner'[n].lease = k <=> owner[n].lease = k
    BY <1>1, <1>2, <1>8, <2>5 DEF isHeldBy, NoOwner, LeaseTypes
  <2>7. StepOf(r)
    <3>1. granted <= granted'
      BY <1>1, <1>3 DEF LeaseTypes
    <3>2. \A n \in Nodes : floor'[n].by = floor[n].by \/ floor'[n].by \in 1 .. MaxLeases
      BY <1>2, <2>2
    <3>3. \A n \in Nodes : owner'[n] = owner[n] \/ owner'[n] = NoOwner
      BY <2>5
    <3> QED
      BY <1>3, <1>4, <1>5, <2>3, <2>4, <2>6, <3>1, <3>2, <3>3 DEF StepOf
  <2> QED
    BY <1>4, <1>6, <2>7, QuietPart
<1> QED
  BY <1>7, <1>8 DEF releaseTxn

-----------------------------------------------------------------------------
(* Time, etcd and the lift *)

(* A step of none of the replicas, by which no tenure changes. *)
LEMMA OutsideKeeps ==
  ASSUME TenureInv, LeaseTypes', ClocksAgree', LostFloors',
         UNCHANGED <<granted, replica>>, now <= now',
         \A n \in Nodes : owner'[n].lease = owner[n].lease \/ owner'[n].lease = 0,
         \A r \in Replicas : Tenures(r)' = Tenures(r),
         \A r \in Replicas : \A t \in Tenures(r) : Kept(t)',
         \A r \in Replicas : op[r].pc = "claim" =>
           /\ Read(op[r])' = Read(op[r])
           /\ Alive(op[r].generation)' => lease'[op[r].generation] = lease[op[r].generation]
  PROVE  TenureInv'
<1>1. LeaseTypes /\ now \in Nat /\ now' \in Nat /\ granted \in Nat /\ UNCHANGED <<granted, node, retired, pending, op>>
  BY DEF TenureInv, LeaseTypes, replica
<1>2. LeasesApart'
  <2>1. \A n \in Nodes : owner'[n].lease <= granted'
    BY <1>1 DEF TenureInv, LeasesApart
  <2>2. \A r \in Replicas, l \in 1 .. MaxLeases : Uses(r, l)' <=> Uses(r, l)
    BY <1>1 DEF Uses
  <2> QED
    BY <1>1, <2>1, <2>2 DEF TenureInv, LeasesApart
<1>3. OneTenureEach'
  BY <1>1 DEF TenureInv, OneTenureEach, Held, ForGrant, ForRenew
<1>4. TenuresKept'
  <2>1. ASSUME NEW r \in Replicas, NEW t \in Tenures(r)' PROVE t.read <= now' /\ Kept(t)'
    <3>1. t \in Tenures(r) /\ t.read <= now /\ t.read \in Int
      BY <1>1, <2>1, TenureTypes DEF TenureInv, TenuresKept
    <3> QED
      BY <1>1, <3>1
  <2>2. ASSUME NEW r \in Replicas, op[r].pc = "claim"
        PROVE  /\ \A n \in Nodes : owner'[n].lease # op[r].generation
               /\ Read(op[r])' <= now'
               /\ Alive(op[r].generation)' => lease'[op[r].generation] >= Read(op[r])' + Ttl
    <3>1. op[r].generation \in 1 .. MaxLeases /\ Read(op[r]) \in Int
      BY <1>1, <2>2, OpKinds DEF Read, Anchored, NoOp
    <3>2. /\ \A n \in Nodes : owner[n].lease # op[r].generation
          /\ Read(op[r]) <= now
          /\ Alive(op[r].generation) => lease[op[r].generation] >= Read(op[r]) + Ttl
      BY <2>2 DEF TenureInv, TenuresKept
    <3> QED
      BY <1>1, <2>2, <3>1, <3>2 DEF Alive
  <2> QED
    BY <1>1, <2>1, <2>2 DEF TenuresKept
<1>5. OneAtATime'
  <2> SUFFICES ASSUME NEW r \in Replicas, NEW s \in Replicas, r # s,
                      NEW t \in Tenures(r)', NEW u \in Tenures(s)', t.n = u.n
               PROVE  Over(t)' \/ Over(u)'
    BY DEF OneAtATime
  <2>1. t \in Tenures(r) /\ u \in Tenures(s) /\ t.read \in Int /\ u.read \in Int
    BY <1>1, TenureTypes
  <2>2. Over(t) \/ Over(u)
    BY <2>1 DEF TenureInv, OneAtATime
  <2> QED
    BY <1>1, <2>1, <2>2, TimingAssumption DEF Over
<1> QED
  BY <1>2, <1>3, <1>4, <1>5 DEF TenureInv

(* Time passes, and a fault comes: no clock that counts goes back.                                     *)
LEMMA TimeMoves ==
  ASSUME TenureInv, Tick \/ \E r \in Replicas : Suspended(r) \/ WallSteps(r)
  PROVE  /\ UNCHANGED <<lease, granted, owner, floor, initialized, emptySince, late, node, retired, pending, op, replica>>
         /\ UNCHANGED <<minted, issued, total>>
         /\ now' \in Nat /\ now <= now' /\ skew' \in [Replicas -> Int] /\ asleep' \in [Replicas -> Nat]
         /\ fault' \in {"none", "suspend", "clock", "keyspace"}
         /\ fault' # "suspend" => \A r \in Replicas : asleep'[r] = 0
         /\ fault' # "clock" => \A r \in Replicas : skew'[r] = 0
         /\ fault' = fault \/ (fault = "none" /\ fault' \in {"suspend", "clock"})
         /\ \A r \in Replicas : /\ Held(r) => Read(node[r])' = Read(node[r])
                                /\ Anchored(r) => Read(op[r])' = Read(op[r])
         /\ \A r \in Replicas : Tenures(r)' = Tenures(r) /\ Mono(r)' >= Mono(r)
<1>1. /\ LeaseTypes /\ ClocksAgree /\ LostFloors
      /\ UNCHANGED <<lease, granted, owner, floor, initialized, emptySince, late, node, retired, pending, op, replica>>
      /\ UNCHANGED <<minted, issued, total>>
  BY DEF TenureInv, Tick, Suspended, WallSteps, leases, keyspace, replica, minted
<1>2. /\ now' \in Nat /\ now <= now' /\ skew' \in [Replicas -> Int] /\ asleep' \in [Replicas -> Nat]
      /\ fault' \in {"none", "suspend", "clock", "keyspace"}
      /\ fault' # "suspend" => \A r \in Replicas : asleep'[r] = 0
      /\ fault' # "clock" => \A r \in Replicas : skew'[r] = 0
      /\ fault' = fault \/ (fault = "none" /\ fault' \in {"suspend", "clock"})
  <2>1. CASE Tick
    <3>1. now' = now + 1 /\ now \in Nat /\ UNCHANGED <<skew, asleep, fault>>
      BY <1>1, <2>1 DEF Tick, LeaseTypes
    <3> QED
      BY <1>1, <3>1 DEF LeaseTypes, ClocksAgree
  <2>2. ASSUME NEW r \in Replicas, Suspended(r)
        PROVE  /\ fault = "none" /\ fault' = "suspend" /\ skew' = skew
               /\ now' \in Nat /\ now <= now' /\ asleep' \in [Replicas -> Nat]
    <3>1. PICK d \in 1 .. MaxTime - now : now' = now + d /\ asleep' = [asleep EXCEPT ![r] = d]
      BY <2>2 DEF Suspended
    <3>2. d \in Nat /\ now \in Nat
      BY <1>1, BoundAssumption DEF LeaseTypes
    <3> QED
      BY <1>1, <2>2, <3>1, <3>2 DEF Suspended, LeaseTypes
  <2>3. ASSUME NEW r \in Replicas, WallSteps(r)
        PROVE  fault = "none" /\ fault' = "clock" /\ skew' \in [Replicas -> Int] /\ UNCHANGED <<now, asleep>>
    <3>1. PICK d \in (-MaxStep .. MaxStep) \ {0} : skew' = [skew EXCEPT ![r] = d]
      BY <2>3 DEF WallSteps
    <3>2. d \in Int
      BY BoundAssumption
    <3> QED
      BY <1>1, <2>3, <3>1, <3>2 DEF WallSteps, LeaseTypes
  <2> QED
    BY <1>1, <2>1, <2>2, <2>3 DEF LeaseTypes, ClocksAgree
<1>3. \A r \in Replicas : /\ Held(r) => Read(node[r])' = Read(node[r])
                          /\ Anchored(r) => Read(op[r])' = Read(op[r])
  BY <1>1, <1>2 DEF ClocksAgree, Read
<1>4. \A r \in Replicas : Tenures(r)' = Tenures(r)
  BY <1>1, <1>3 DEF Tenures, Held, InTenure, Anchored
<1>5. ASSUME NEW r \in Replicas PROVE Mono(r)' >= Mono(r)
  <2>1. now \in Nat /\ asleep \in [Replicas -> Nat] /\ (fault # "suspend" => asleep[r] = 0)
    BY <1>1 DEF LeaseTypes, ClocksAgree
  <2>2. CASE UNCHANGED asleep
    BY <1>2, <2>1, <2>2 DEF Mono
  <2>3. ASSUME NEW s \in Replicas, Suspended(s) PROVE Mono(r)' >= Mono(r)
    <3>1. PICK d \in 1 .. MaxTime - now : now' = now + d /\ asleep' = [asleep EXCEPT ![s] = d]
      BY <2>3 DEF Suspended
    <3>2. d \in Nat /\ asleep[r] = 0 /\ (asleep'[r] = d \/ asleep'[r] = 0)
      BY <2>1, <2>3, <3>1, BoundAssumption DEF Suspended
    <3> QED
      BY <2>1, <3>1, <3>2 DEF Mono
  <2> QED
    BY <2>2, <2>3 DEF Tick, WallSteps
<1> QED
  BY <1>1, <1>2, <1>3, <1>4, <1>5

LEMMA TimeKeeps ==
  ASSUME TenureInv, Tick \/ \E r \in Replicas : Suspended(r) \/ WallSteps(r)
  PROVE  TenureInv'
<1>1. /\ LeaseTypes /\ ClocksAgree /\ LostFloors
      /\ UNCHANGED <<lease, granted, owner, floor, initialized, emptySince, late, node, retired, pending, op, replica>>
  BY DEF TenureInv, Tick, Suspended, WallSteps, leases, keyspace, replica
<1>2. /\ now' \in Nat /\ now <= now' /\ skew' \in [Replicas -> Int] /\ asleep' \in [Replicas -> Nat]
      /\ fault' \in {"none", "suspend", "clock", "keyspace"}
      /\ fault' # "suspend" => \A r \in Replicas : asleep'[r] = 0
      /\ fault' # "clock" => \A r \in Replicas : skew'[r] = 0
      /\ fault' = fault \/ (fault = "none" /\ fault' \in {"suspend", "clock"})
  BY TimeMoves
<1>3. LeaseTypes'
  BY <1>1, <1>2 DEF LeaseTypes
<1>4. ClocksAgree'
  BY <1>1, <1>2 DEF ClocksAgree, Held, Anchored
<1>5. LostFloors'
  BY <1>1, <1>2 DEF LostFloors, LeaseTypes
<1>6. /\ \A r \in Replicas : Anchored(r) => Read(op[r])' = Read(op[r])
      /\ \A r \in Replicas : Tenures(r)' = Tenures(r)
  BY TimeMoves
<1>7. ASSUME NEW r \in Replicas, NEW t \in Tenures(r) PROVE Kept(t)'
  <2>1. t.read \in Int /\ t.read <= now /\ Kept(t) /\ now \in Nat
    BY <1>1, TenureTypes DEF TenureInv, TenuresKept, LeaseTypes
  <2> QED
    BY <1>1, <1>2, <2>1, TimingAssumption DEF Kept, Over, isHeldBy
<1>8. \A r \in Replicas : op[r].pc = "claim" => Anchored(r)
  BY DEF Anchored
<1> QED
  BY <1>1, <1>2, <1>3, <1>4, <1>5, <1>6, <1>7, <1>8, OutsideKeeps

(* Where clocks, fault and replicas are left alone the tenures are what they were. *)
LEMMA TenuresSame ==
  ASSUME UNCHANGED <<fault, replica>>, NEW r \in Replicas
  PROVE  /\ Tenures(r)' = Tenures(r) /\ Read(op[r])' = Read(op[r])
         /\ (Held(r)' <=> Held(r)) /\ (Anchored(r)' <=> Anchored(r))
<1>1. UNCHANGED <<fault, node, op>>
  BY DEF replica
<1> QED
  BY <1>1 DEF Tenures, Read, Held, InTenure, Anchored

LEMMA EtcdKeeps ==
  ASSUME TenureInv, \/ \E w \in late : LateLands(w)
                    \/ \E l \in 1 .. MaxLeases : LeaseEnds(l)
  PROVE  TenureInv'
<1>1. /\ LeaseTypes /\ ClocksAgree /\ LostFloors
      /\ UNCHANGED <<now, skew, asleep, granted, initialized, emptySince, fault, node, retired, pending, op, replica>>
  BY DEF TenureInv, LateLands, LeaseEnds, clocks, leases, replica
<1>2. ClocksAgree'
  BY <1>1 DEF ClocksAgree, Held, Anchored
<1>3. now \in Nat /\ now <= now'
  BY <1>1 DEF LeaseTypes
<1>4. ASSUME NEW w \in late, LateLands(w) PROVE TenureInv'
  <2>1. w \in [n : Nodes, generation : 1 .. MaxLeases, ms : Int] /\ UNCHANGED <<lease, owner>> /\ late' \subseteq late
    BY <1>1, <1>4 DEF LateLands, leases, LeaseTypes
  <2>2. CASE isHeldBy(w.n, w.generation) /\ floor' = [floor EXCEPT ![w.n] = [ms |-> w.ms, by |-> w.generation]]
    <3>1. floor' \in [Nodes -> Floors] /\ \A n \in Nodes : floor'[n].by = IF n = w.n THEN w.generation ELSE floor[n].by
      BY <1>1, <2>1, <2>2 DEF LeaseTypes, Floors
    <3>2. initialized
      BY <1>1, <2>1, <2>2 DEF isHeldBy, LostFloors
    <3>3. LeaseTypes'
      BY <1>1, <2>1, <3>1 DEF LeaseTypes
    <3>4. LostFloors'
      BY <1>1, <2>1, <3>1, <3>2 DEF LostFloors
    <3>5. \A r \in Replicas : \A t \in Tenures(r) : Kept(t)'
      BY <1>1, <2>1 DEF TenureInv, TenuresKept, Kept, Over, isHeldBy
    <3> QED
      BY <1>1, <1>2, <1>3, <2>1, <3>3, <3>4, <3>5, TenuresSame, OutsideKeeps
  <2>3. CASE UNCHANGED floor
    <3>1. LeaseTypes' /\ LostFloors'
      BY <1>1, <2>1, <2>3 DEF LeaseTypes, LostFloors
    <3>2. \A r \in Replicas : \A t \in Tenures(r) : Kept(t)'
      BY <1>1, <2>1 DEF TenureInv, TenuresKept, Kept, Over, isHeldBy
    <3> QED
      BY <1>1, <1>2, <1>3, <2>1, <3>1, <3>2, TenuresSame, OutsideKeeps
  <2> QED
    BY <1>4, <2>2, <2>3 DEF LateLands
<1>5. ASSUME NEW l \in 1 .. MaxLeases, LeaseEnds(l) PROVE TenureInv'
  <2>1. /\ UNCHANGED <<floor, late>> /\ l # 0 /\ now >= lease[l] /\ lease[l] \in Nat
        /\ lease' = [lease EXCEPT ![l] = 0]
        /\ owner' = [n \in Nodes |-> IF owner[n].lease = l THEN NoOwner ELSE owner[n]]
    BY <1>1, <1>5 DEF LeaseEnds, LeaseTypes
  <2>2. LeaseTypes'
    BY <1>1, <2>1 DEF LeaseTypes
  <2>3. LostFloors'
    BY <1>1, <2>1 DEF LostFloors
  <2>4. \A n \in Nodes : owner'[n].lease = owner[n].lease \/ owner'[n].lease = 0
    BY <2>1 DEF NoOwner
  <2>5. ASSUME NEW r \in Replicas, NEW t \in Tenures(r) PROVE Kept(t)'
    <3>1. t.read \in Int /\ t.n \in Nodes /\ t.l \in 1 .. MaxLeases /\ Kept(t)
      BY <1>1, TenureTypes DEF TenureInv, TenuresKept
    <3>2. CASE t.l = l
      <4>1. now \in Nat /\ now >= lease[l]
        BY <1>1, <2>1 DEF LeaseTypes
      <4> QED
        BY <1>1, <2>1, <3>1, <3>2, <4>1, TimingAssumption DEF Kept, Over
    <3>3. CASE t.l # l
      <4>1. lease'[t.l] = lease[t.l]
        BY <1>1, <2>1, <3>1, <3>3 DEF LeaseTypes
      <4>2. isHeldBy(t.n, t.l) => isHeldBy(t.n, t.l)'
        BY <2>1, <3>1, <3>3 DEF isHeldBy, NoOwner
      <4> QED
        BY <1>1, <3>1, <4>1, <4>2 DEF Kept, Over
    <3> QED
      BY <3>2, <3>3
  <2>6. ASSUME NEW r \in Replicas, op[r].pc = "claim"
        PROVE  Alive(op[r].generation)' => lease'[op[r].generation] = lease[op[r].generation]
    <3>1. op[r].generation \in 1 .. MaxLeases
      BY <1>1, <2>6, OpKinds DEF NoOp
    <3> QED
      BY <1>1, <2>1, <3>1 DEF Alive, LeaseTypes
  <2> QED
    BY <1>1, <1>2, <1>3, <2>2, <2>3, <2>4, <2>5, <2>6, TenuresSame, OutsideKeeps
<1> QED
  BY <1>4, <1>5

LEMMA LiftKeeps ==
  ASSUME TenureInv, KeyspaceLost \/ requireSettled \/ liftFloors
  PROVE  TenureInv'
<1>1. /\ LeaseTypes /\ ClocksAgree /\ LostFloors /\ now \in Nat /\ emptySince \in Int
      /\ UNCHANGED <<now, skew, asleep, lease, granted, late, node, retired, pending, op, replica>>
      /\ fault' = fault \/ (fault = "none" /\ fault' = "keyspace")
  <2>1. LeaseTypes /\ ClocksAgree /\ LostFloors /\ now \in Nat /\ emptySince \in Int
    BY DEF TenureInv, LeaseTypes
  <2>2. CASE KeyspaceLost
    BY <2>1, <2>2 DEF KeyspaceLost, clocks, leases, replica
  <2>3. CASE requireSettled
    BY <2>1, <2>3 DEF requireSettled, clocks, leases, replica
  <2>4. CASE liftFloors
    BY <2>1, <2>4 DEF liftFloors, clocks, leases, replica
  <2> QED
    BY <2>2, <2>3, <2>4
<1>2. ClocksAgree'
  BY <1>1 DEF ClocksAgree, Held, Anchored
<1>3. \A r \in Replicas : Tenures(r)' = Tenures(r) /\ Read(op[r])' = Read(op[r])
  BY <1>1 DEF Tenures, Read, Held, InTenure
<1>4. LeaseTypes'
  <2>1. owner' \in [Nodes -> {NoOwner} \cup [lease : 1 .. MaxLeases, claimFloor : Int]]
    BY <1>1 DEF KeyspaceLost, requireSettled, liftFloors, LeaseTypes
  <2>2. \A n \in Nodes : Larger(floor[n].ms, now) \in Int
    BY <1>1, OwnerTypes DEF Larger
  <2>3. floor' \in [Nodes -> Floors]
    BY <1>1, <2>2 DEF KeyspaceLost, requireSettled, liftFloors, LeaseTypes, Floors, Lifted
  <2>4. initialized' \in BOOLEAN /\ emptySince' \in Int
    <3>1. initialized \in BOOLEAN /\ now \in Int /\ -1 \in Int
      BY <1>1 DEF LeaseTypes
    <3>2. /\ initialized' = initialized \/ initialized' = FALSE \/ initialized' = TRUE
          /\ emptySince' = -1 \/ emptySince' = now
      BY DEF KeyspaceLost, requireSettled, liftFloors
    <3> QED
      BY <3>1, <3>2
  <2> QED
    BY <1>1, <2>1, <2>3, <2>4 DEF LeaseTypes
<1>5. \A n \in Nodes : owner'[n].lease = owner[n].lease \/ owner'[n].lease = 0
  BY DEF KeyspaceLost, requireSettled, liftFloors, NoOwner
<1>6. LostFloors'
  BY <1>1 DEF KeyspaceLost, requireSettled, liftFloors, LostFloors, Lifted
<1>7. ASSUME NEW r \in Replicas, NEW t \in Tenures(r) PROVE Kept(t)'
  <2>1. t.read \in Int /\ t.n \in Nodes /\ t.read <= now /\ Kept(t)
    BY <1>1, TenureTypes DEF TenureInv, TenuresKept
  <2>2. CASE KeyspaceLost
    BY <1>1, <2>1, <2>2 DEF KeyspaceLost, Kept, Over
  <2>3. CASE requireSettled
    BY <1>1, <2>1, <2>3 DEF requireSettled, Kept, Over, isHeldBy
  <2>4. CASE liftFloors
    BY <1>1, <2>1, <2>4, TimingAssumption DEF liftFloors, Kept, Over, isHeldBy
  <2> QED
    BY <2>2, <2>3, <2>4
<1> QED
  BY <1>1, <1>2, <1>3, <1>4, <1>5, <1>6, <1>7, OutsideKeeps

LEMMA TenureKeeps == TenureInv /\ [Next]_vars => TenureInv'
<1> SUFFICES ASSUME TenureInv, [Next]_vars PROVE TenureInv'
  OBVIOUS
<1>1. ASSUME NEW r \in Replicas, Step(r), ~Suspended(r), ~WallSteps(r)
      PROVE  StepOf(r) /\ PartOf(r)' /\ TenuresFrom(r)
  BY <1>1, GenerateSteps, QuietSteps, AcquireSteps, ClaimSteps, HeldSteps, RenewSteps, RaiseSteps, RenewedSteps,
     ReleaseSteps, ReleaseTxnSteps DEF Step
<1>2. ASSUME NEW r \in Replicas, Step(r) PROVE TenureInv'
  <2>1. CASE Suspended(r) \/ WallSteps(r)
    BY <2>1, TimeKeeps
  <2>2. CASE ~Suspended(r) /\ ~WallSteps(r)
    BY <1>1, <1>2, <2>2, StepKeeps
  <2> QED
    BY <2>1, <2>2
<1>3. CASE UNCHANGED vars
  BY <1>3 DEF vars, clocks, keyspace, leases, replica, minted, TenureInv, LeaseTypes, ClocksAgree, LeasesApart,
     OneTenureEach, LostFloors, TenuresKept, OneAtATime, Held, Anchored, InTenure, ForGrant, ForRenew, Uses, Tenures,
     Kept, Over, Read, isHeldBy, Alive
<1> QED
  BY <1>2, <1>3, TimeKeeps, EtcdKeeps, LiftKeeps DEF Next

LEMMA TenureStarts == Init => TenureInv
<1> SUFFICES ASSUME Init PROVE TenureInv
  OBVIOUS
<1>1. /\ \A r \in Replicas : op[r] = NoOp /\ node[r] = NotHeld /\ pending[r] = 0
      /\ \A n \in Nodes : owner[n] = NoOwner /\ floor[n] = [ms |-> 0, by |-> -1]
  BY DEF Init, Lifted
<1>2. LeaseTypes
  <2>1. [ms |-> 0, by |-> -1] \in Floors
    BY DEF Floors
  <2> QED
    BY <1>1, <2>1, BoundAssumption DEF Init, LeaseTypes, Lifted
<1>3. \A r \in Replicas : /\ op[r].pc = "none" /\ node[r].id = 0 /\ ~Held(r) /\ Tenures(r) = {}
                          /\ ~Anchored(r) /\ ~InTenure(r) /\ ~ForGrant(r) /\ ~ForRenew(r)
  BY <1>1 DEF NoOp, NotHeld, Held, Tenures, InTenure, Anchored, ForGrant, ForRenew
<1>4. LeasesApart
  BY <1>1, <1>3 DEF Init, LeasesApart, Uses, NoOwner
<1>5. ClocksAgree /\ OneTenureEach /\ LostFloors /\ TenuresKept /\ OneAtATime
  BY <1>1, <1>3 DEF Init, ClocksAgree, OneTenureEach, LostFloors, TenuresKept, OneAtATime
<1> QED
  BY <1>2, <1>4, <1>5 DEF TenureInv

(* A tenure that is over is past its fence: whatever the one fault of a behaviour does to a clock, the *)
(* other one has counted the lease's time.                                                             *)
LEMMA OverIsFenced ==
  ASSUME LeaseTypes, ClocksAgree, NEW r \in Replicas, NEW h, h.anchorWall \in Int, h.anchorMono \in Int,
         now >= Read(h) + Ttl
  PROVE  Fenced(r, h)
<1>1. Mono(r) - h.anchorMono >= Ttl \/ Wall(r) - h.anchorWall >= Ttl
  <2>1. now \in Int /\ skew[r] \in Int /\ asleep[r] \in Int /\ Ttl \in Int
    BY TimingAssumption DEF LeaseTypes
  <2>2. CASE fault = "suspend"
    BY <2>1, <2>2 DEF ClocksAgree, Read, Wall
  <2>3. CASE fault # "suspend"
    BY <2>1, <2>3 DEF ClocksAgree, Read, Mono
  <2> QED
    BY <2>2, <2>3
<1>2. Mono(r) \in Int /\ Wall(r) \in Int
  BY ClockTypes
<1> QED
  BY <1>1, <1>2, TimingAssumption DEF Fenced, Larger

(* No two replicas are past the fence's check on one node: a holder stops on its own before etcd hands *)
(* its node to another, whichever host is suspended, clock stepped or keyspace lost (NodeLease.isHeld). *)
THEOREM AlwaysOneMinter == Spec => []OneMinter
<1>1. TenureInv => OneMinter
  <2> SUFFICES ASSUME TenureInv, NEW r \in Replicas, NEW s \in Replicas,
                      r # s, Held(r), Held(s), node[r].n = node[s].n
               PROVE  Fenced(r, node[r]) \/ Fenced(s, node[s])
    BY DEF OneMinter
  <2>1. LeaseTypes /\ ClocksAgree
    BY DEF TenureInv
  <2>2. /\ [n |-> node[r].n, l |-> node[r].id, read |-> Read(node[r])] \in Tenures(r)
        /\ [n |-> node[s].n, l |-> node[s].id, read |-> Read(node[s])] \in Tenures(s)
    BY DEF Tenures
  <2>3. now >= Read(node[r]) + Ttl \/ now >= Read(node[s]) + Ttl
    BY <2>2 DEF TenureInv, OneAtATime, Over
  <2> QED
    BY <2>1, <2>3, OverIsFenced, HolderTypes
<1> QED
  BY <1>1, TenureStarts, TenureKeeps, PTL DEF Spec

-----------------------------------------------------------------------------
(* Ids *)

LEMMA IdTypes ==
  ASSUME Stamped, NEW id \in issued
  PROVE  id[1] \in Nat /\ id[2] \in Nodes /\ id[3] \in Int
<1>1. id \in Nat \X Nodes \X (0 .. SequenceCount - 1)
  BY DEF Stamped
<1> QED
  BY <1>1, TimingAssumption

(* A step of a replica touches the floors of no other owner. *)
FloorsOf(r) ==
  \A n \in Nodes : owner[n] = NoOwner \/ Uses(r, owner[n].lease) \/ floor'[n] = floor[n]

(* Late writes may be of operations it had in flight. *)
LateOf(r) == \A w \in late' : w \in late \/ (w.generation \in 1 .. MaxLeases /\ Uses(r, w.generation))

LEMMA HeldByUser ==
  ASSUME TenureInv, NEW r \in Replicas, StepOf(r), FloorsOf(r), NEW s \in Replicas \ {r},
         NEW l \in 1 .. MaxLeases, Uses(s, l), NEW n \in Nodes, owner'[n].lease = l
  PROVE  owner'[n] = owner[n] /\ floor'[n] = floor[n] /\ isHeldBy(n, l)
<1>1. LeaseTypes /\ LeasesApart
  BY DEF TenureInv
<1>2. ~Uses(r, l) /\ l <= granted
  BY <1>1 DEF LeasesApart
<1>3. owner[n].lease = l /\ l # 0
  BY <1>2 DEF StepOf
<1>4. owner'[n] = owner[n]
  BY <1>2, <1>3 DEF StepOf, NoOwner
<1>5. owner[n] # NoOwner
  BY <1>3 DEF NoOwner
<1> QED
  BY <1>2, <1>3, <1>4, <1>5 DEF FloorsOf, isHeldBy

LEMMA OthersKeepIds ==
  ASSUME TenureInv, IdInv, NEW r \in Replicas, StepOf(r), FloorsOf(r), LateOf(r), UNCHANGED issued,
         NEW s \in Replicas \ {r}
  PROVE  MintsAbove(s)' /\ FloorRises(s)'
<1>1. /\ LeaseTypes /\ LeasesApart /\ MintsAbove(s) /\ FloorRises(s)
      /\ node'[s] = node[s] /\ op'[s] = op[s] /\ pending'[s] = pending[s]
      /\ UNCHANGED <<now, skew, asleep, fault>>
  BY DEF TenureInv, IdInv, StepOf
<1>2. /\ (Held(s)' <=> Held(s)) /\ (ForGrant(s)' <=> ForGrant(s)) /\ (Anchored(s)' <=> Anchored(s))
      /\ Tenures(s)' = Tenures(s)
  BY <1>1 DEF Held, ForGrant, Anchored, Tenures, Read, InTenure
<1>3. InTime(s)' <=> InTime(s)
  BY <1>1, <1>2 DEF InTime, Over
<1>4. /\ \A n : IdsOf(n)' = IdsOf(n)
      /\ \A id : Below(id, s)' <=> Below(id, s)
  BY <1>1 DEF IdsOf, Below, Mono
<1>5. Held(s) => node[s].n \in Nodes /\ node[s].id \in 1 .. MaxLeases /\ Uses(s, node[s].id)
  BY <1>1, HolderTypes DEF Uses
<1>6. op[s] # NoOp => op[s].n \in Nodes /\ op[s].generation \in 1 .. MaxLeases /\ Uses(s, op[s].generation)
  BY <1>1, OpKinds DEF Uses
<1>7. Stands(s)' => Stands(s) /\ owner'[node[s].n] = owner[node[s].n] /\ floor'[node[s].n] = floor[node[s].n]
  BY <1>1, <1>2, <1>5, HeldByUser DEF Stands, isHeldBy
<1>8. OpStands(s)' => OpStands(s) /\ owner'[op[s].n] = owner[op[s].n] /\ floor'[op[s].n] = floor[op[s].n]
  BY <1>1, <1>6, HeldByUser DEF OpStands, isHeldBy
<1>9. ASSUME NEW n \in Nodes, pending[s] # 0, owner'[n].lease = pending[s]
      PROVE  owner'[n] = owner[n]
  <2>1. pending[s] \in 1 .. MaxLeases /\ Uses(s, pending[s])
    BY <1>1, <1>9 DEF LeaseTypes, Uses
  <2> QED
    BY <1>9, <2>1, HeldByUser
<1>10. MintsAbove(s)'
  <2>1. Held(s)' => node'[s].gen.nodeId = node'[s].n
    BY <1>1, <1>2 DEF MintsAbove
  <2>2. Held(s)' /\ (Stands(s)' \/ InTime(s)') => (\A id \in IdsOf(node[s].n) : Below(id, s))'
    BY <1>1, <1>2, <1>3, <1>4, <1>7 DEF MintsAbove
  <2>3. Stands(s)' => Within(node[s].n, Larger(owner[node[s].n].claimFloor, node[s].gen.lastMs))'
    BY <1>1, <1>4, <1>7 DEF MintsAbove, Within
  <2>4. ForGrant(s)' /\ InTime(s)' => Within(op[s].n, op[s].floorMs)'
    BY <1>1, <1>2, <1>3, <1>4 DEF MintsAbove, Within
  <2>5. op'[s].pc = "release" /\ OpStands(s)' => Within(op[s].n, Larger(owner[op[s].n].claimFloor, op[s].lastMs))'
    BY <1>1, <1>4, <1>8 DEF MintsAbove, Within
  <2>6. pending'[s] # 0 => \A n \in Nodes : owner'[n].lease = pending'[s] => Within(n, owner[n].claimFloor)'
    BY <1>1, <1>4, <1>9 DEF MintsAbove, Within
  <2> QED
    BY <1>1, <2>1, <2>2, <2>3, <2>4, <2>5, <2>6 DEF MintsAbove, Within
<1>11. FloorRises(s)'
  <2>1. Anchored(s)' => \A w \in late' : w.generation # op'[s].generation
    <3>1. Anchored(s) => op[s] # NoOp
      BY <1>1, OpKinds DEF Anchored
    <3>2. ASSUME Anchored(s), NEW w \in late' PROVE w.generation # op[s].generation
      <4>1. CASE w \in late
        BY <1>1, <3>2, <4>1 DEF FloorRises
      <4>2. CASE w.generation \in 1 .. MaxLeases /\ Uses(r, w.generation)
        BY <1>1, <1>6, <3>1, <3>2, <4>2 DEF LeasesApart
      <4> QED
        BY <4>1, <4>2 DEF LateOf
    <3> QED
      BY <1>1, <1>2, <3>2
  <2> QED
    BY <1>1, <1>2, <1>7, <1>8, <2>1 DEF FloorRises
<1> QED
  BY <1>10, <1>11

(* A replica that goes back to no operation, with the node it had or with none. *)
LEMMA QuietKeepsIds ==
  ASSUME TenureInv, IdInv, NEW r \in Replicas, StepOf(r), op'[r] = NoOp, ~Held(r)' \/ node'[r] = node[r],
         Held(r)' => UNCHANGED <<owner, floor>>,
         pending'[r] # 0 => \A n \in Nodes : owner'[n].lease = pending'[r] =>
           pending'[r] = pending[r] /\ owner'[n] = owner[n],
         UNCHANGED issued
  PROVE  MintsAbove(r)' /\ FloorRises(r)'
<1>1. /\ LeaseTypes /\ MintsAbove(r) /\ FloorRises(r) /\ UNCHANGED <<now, skew, asleep, fault>>
      /\ ~ForGrant(r)' /\ ~Anchored(r)' /\ ~InTenure(r)' /\ ~OpStands(r)'
      /\ op'[r].pc = "none"
  BY DEF TenureInv, IdInv, StepOf, ForGrant, Anchored, InTenure, OpStands, NoOp
<1>2. /\ \A n : IdsOf(n)' = IdsOf(n)
      /\ node'[r] = node[r] => \A id : Below(id, r)' <=> Below(id, r)
  BY <1>1 DEF IdsOf, Below, Mono
<1>3. pending'[r] # 0 => \A n \in Nodes : owner'[n].lease = pending'[r] => Within(n, owner[n].claimFloor)'
  BY <1>1, <1>2 DEF MintsAbove, Within
<1>4. CASE ~Held(r)'
  BY <1>1, <1>3, <1>4 DEF MintsAbove, FloorRises, Stands
<1>5. CASE Held(r)' /\ node'[r] = node[r] /\ UNCHANGED <<owner, floor>>
  <2>1. Held(r) /\ Tenures(r)' \subseteq Tenures(r) /\ (Stands(r)' <=> Stands(r))
    BY <1>1, <1>5 DEF Held, Tenures, Read, Stands, isHeldBy
  <2>2. InTime(r)' => InTime(r)
    BY <1>1, <2>1 DEF InTime, Over
  <2> QED
    BY <1>1, <1>2, <1>3, <1>5, <2>1, <2>2 DEF MintsAbove, FloorRises, Within
<1> QED
  BY <1>4, <1>5

LEMMA QuietFloors ==
  ASSUME IdInv, NEW r \in Replicas, StepOf(r), UNCHANGED <<owner, floor, issued>>
  PROVE  FloorsOf(r) /\ IdsUnderFloor' /\ (late' \subseteq late => LateOf(r) /\ (LeaseTypes => LateRaises'))
<1>1. FloorsOf(r)
  BY DEF FloorsOf
<1>2. IdsUnderFloor'
  BY DEF IdInv, IdsUnderFloor, Within, IdsOf, StepOf
<1>3. ASSUME LeaseTypes, late' \subseteq late PROVE LateRaises'
  <2>1. \A w \in late' : w.generation \in Int
    BY <1>3 DEF LeaseTypes
  <2>2. granted \in Int /\ granted' \in Int /\ granted <= granted'
    BY <1>3 DEF LeaseTypes, StepOf
  <2> QED
    BY <1>3, <2>1, <2>2 DEF IdInv, LateRaises, isHeldBy
<1> QED
  BY <1>1, <1>2, <1>3 DEF LateOf

LEMMA StepKeepsIds ==
  ASSUME TenureInv, IdInv, NEW r \in Replicas, StepOf(r), FloorsOf(r), LateOf(r), UNCHANGED minted,
         MintsAbove(r)', FloorRises(r)', IdsUnderFloor', LateRaises'
  PROVE  IdInv'
<1>1. UNCHANGED <<issued, total>>
  BY DEF minted
<1>2. \A s \in Replicas : MintsAbove(s)' /\ FloorRises(s)'
  BY <1>1, OthersKeepIds
<1>3. Stamped'
  BY <1>1 DEF IdInv, Stamped
<1> QED
  BY <1>2, <1>3 DEF IdInv

LEMMA ThrowsKeepsIds ==
  ASSUME TenureInv, IdInv, NEW r \in Replicas, StepOf(r), Throws(r)
  PROVE  IdInv'
<1>1. /\ LeaseTypes /\ LeasesApart /\ LateRaises /\ FloorRises(r)
      /\ UNCHANGED <<lease, granted, owner, floor, node, retired, pending, issued, total>> /\ UNCHANGED minted
  BY DEF TenureInv, IdInv, Throws, leases, keyspace, minted
<1>2. op'[r] = NoOp
  BY <1>1 DEF Throws, Goto, LeaseTypes
<1>3. Held(r)' <=> Held(r)
  BY <1>1 DEF Held
<1>4. FloorsOf(r) /\ IdsUnderFloor' /\ (late' \subseteq late => LateOf(r) /\ LateRaises')
  BY <1>1, QuietFloors
<1>5. MintsAbove(r)' /\ FloorRises(r)'
  BY <1>1, <1>2, <1>3, QuietKeepsIds
<1>6. CASE UNCHANGED late
  BY <1>1, <1>4, <1>5, <1>6, StepKeepsIds
<1>7. CASE At(r, "raise") /\ late = {} /\ late' = late \cup {[n |-> op[r].n, generation |-> op[r].generation, ms |-> op[r].until]}
  <2>1. op[r] # NoOp /\ op[r].generation \in 1 .. MaxLeases /\ Uses(r, op[r].generation) /\ op[r].generation <= granted
    BY <1>1, <1>7, OpKinds DEF At, Uses, LeasesApart, NoOp
  <2>2. \A w \in late' : w.n = op[r].n /\ w.generation = op[r].generation /\ w.ms = op[r].until
    BY <1>7
  <2>3. LateOf(r)
    BY <2>1, <2>2 DEF LateOf
  <2>4. \A w, v \in late' : w = v
    BY <1>7
  <2>5. LateRaises'
    BY <1>1, <1>7, <2>1, <2>2, <2>4 DEF LateRaises, FloorRises, OpStands, isHeldBy, At
  <2> QED
    BY <1>1, <1>4, <1>5, <2>3, <2>5, StepKeepsIds
<1> QED
  BY <1>6, <1>7 DEF Throws

LEMMA QuitsKeepIds ==
  ASSUME TenureInv, IdInv, NEW r \in Replicas, StepOf(r), Restart(r) \/ exhausted(r)
  PROVE  IdInv'
<1>1. LeaseTypes /\ UNCHANGED <<owner, floor, late, issued, total>> /\ UNCHANGED minted
  BY DEF TenureInv, Restart, exhausted, keyspace, minted
<1>2. op'[r] = NoOp /\ pending'[r] = 0 /\ ~Held(r)'
  <2>1. CASE Restart(r)
    BY <1>1, <2>1 DEF Restart, Goto, LeaseTypes, Held
  <2>2. CASE exhausted(r)
    BY <1>1, <2>2 DEF exhausted, Exhausted, Goto, LeaseTypes, Held
  <2> QED
    BY <2>1, <2>2
<1>3. FloorsOf(r) /\ IdsUnderFloor' /\ LateOf(r) /\ LateRaises'
  BY <1>1, QuietFloors
<1>4. MintsAbove(r)' /\ FloorRises(r)'
  BY <1>1, <1>2, QuietKeepsIds
<1> QED
  BY <1>1, <1>3, <1>4, StepKeepsIds

LEMMA AcquireKeepsIds ==
  ASSUME ~LateWrites, TenureInv, IdInv, NEW r \in Replicas, StepOf(r), acquire(r)
  PROVE  IdInv'
<1>1. /\ LeaseTypes /\ LeasesApart /\ MintsAbove(r) /\ FloorRises(r)
      /\ UNCHANGED <<now, owner, floor, node, issued, total>> /\ UNCHANGED minted /\ ~Held(r)
  BY DEF TenureInv, IdInv, acquire, keyspace, clocks, minted
<1>2. PICK l \in 1 .. MaxLeases :
        /\ LeaseForClaim(r, l)
        /\ pending' = [pending EXCEPT ![r] = l]
        /\ late' = StillLate(l)
        /\ \/ ~initialized /\ Goto(r, NoOp)
           \/ /\ initialized
              /\ \E n \in Nodes : owner[n].lease = l /\ Readopt(r, l, n)
           \/ /\ initialized /\ Free # {} /\ \A n \in Nodes : owner[n].lease # l
              /\ \E n \in Free : Claim(r, [wall |-> Wall(r), mono |-> Mono(r)], l, [m \in Free |-> floor[m]], n)
  BY DEF acquire
<1>3. late' \subseteq late /\ \A w \in late' : w.generation # l
  BY <1>2 DEF StillLate
<1>4. pending'[r] = l /\ ~Held(r)'
  BY <1>1, <1>2 DEF LeaseTypes, Held
<1>5. \A n \in Nodes : owner[n].lease = l => pending[r] = l
  <2>1. l = pending[r] \/ l = granted + 1
    BY <1>2 DEF LeaseForClaim
  <2>2. granted \in Int
    BY <1>1 DEF LeaseTypes
  <2> QED
    BY <1>1, <2>1, <2>2 DEF LeasesApart
<1>6. FloorsOf(r) /\ IdsUnderFloor' /\ LateOf(r) /\ LateRaises'
  BY <1>1, <1>3, QuietFloors
<1>7. CASE op'[r] = NoOp
  <2>1. MintsAbove(r)' /\ FloorRises(r)'
    BY <1>1, <1>4, <1>5, <1>7, QuietKeepsIds
  <2> QED
    BY <1>1, <1>6, <2>1, StepKeepsIds
<1>8. CASE op'[r] # NoOp
  <2>1. /\ op'[r].generation = l /\ op'[r].n \in Nodes
        /\ \/ /\ op'[r].pc = "raise" /\ op'[r].forGrant /\ owner[op'[r].n].lease = l
              /\ op'[r].floorMs = owner[op'[r].n].claimFloor /\ op'[r].until >= floor[op'[r].n].ms
           \/ /\ op'[r].pc = "claim" /\ \A n \in Nodes : owner[n].lease # l
              /\ op'[r].until >= op'[r].floorMs
    BY <1>1, <1>2, <1>8, AcquireOp
  <2>2. \A n \in Nodes : owner[n].lease = l => Within(n, owner[n].claimFloor)
    BY <1>1, <1>5 DEF MintsAbove
  <2>4. MintsAbove(r)'
    <3>1. pending'[r] # 0 => \A n \in Nodes : owner'[n].lease = pending'[r] => Within(n, owner[n].claimFloor)'
      BY <1>1, <1>4, <2>2 DEF Within, IdsOf
    <3>2. ForGrant(r)' => Within(op[r].n, op[r].floorMs)'
      BY <1>1, <2>1, <2>2 DEF Within, IdsOf, ForGrant
    <3>3. ~Stands(r)' /\ op'[r].pc # "release"
      BY <1>4, <2>1 DEF Stands
    <3> QED
      BY <1>4, <3>1, <3>2, <3>3 DEF MintsAbove
  <2>5. FloorRises(r)'
    BY <1>1, <1>3, <1>4, <2>1 DEF FloorRises, Stands, ForGrant
  <2> QED
    BY <1>1, <1>6, <2>4, <2>5, StepKeepsIds
<1> QED
  BY <1>7, <1>8

LEMMA ClaimKeepsIds ==
  ASSUME TenureInv, IdInv, NEW r \in Replicas, StepOf(r), claim(r)
  PROVE  IdInv'
<1> DEFINE o == op[r]
           l == op[r].generation
<1>1. /\ LeaseTypes /\ LeasesApart /\ LateRaises /\ IdsUnderFloor /\ MintsAbove(r) /\ FloorRises(r)
      /\ UNCHANGED <<now, skew, asleep, granted, initialized, emptySince, late, fault, node, issued, total>>
      /\ UNCHANGED minted
  BY DEF TenureInv, IdInv, claim, clocks, minted
<1>2. /\ o.pc = "claim" /\ o \in ClaimOps /\ Anchored(r) /\ o # NoOp
      /\ o.n \in Nodes /\ l \in 1 .. MaxLeases /\ o.anchorWall \in Int /\ o.anchorMono \in Int
      /\ o.free \in Snapshots /\ o.floorMs \in Int /\ o.until \in Int
  BY <1>1, OpKinds DEF claim, At, Anchored, ClaimOps, NoOp
<1>3. /\ ~Held(r) /\ pending[r] = l /\ Uses(r, l) /\ o.floorMs = o.free[o.n].ms
      /\ \A m \in DOMAIN o.free : o.free[m].by # 0
      /\ o.n \in DOMAIN o.free
      /\ \A n \in Nodes : owner[n].lease # l
      /\ o.until >= o.floorMs /\ \A w \in late : w.generation # l
  BY <1>1, <1>2 DEF TenureInv, OneTenureEach, LostFloors, TenuresKept, Uses, FloorRises
<1>4. ~Held(r)' /\ ~Stands(r)'
  BY <1>1, <1>3 DEF Held, Stands
<1>5. CASE /\ Alive(l) /\ owner[o.n] = NoOwner /\ floor[o.n] = o.free[o.n]
           /\ owner' = [owner EXCEPT ![o.n] = [lease |-> l, claimFloor |-> o.floorMs]]
           /\ floor' = [floor EXCEPT ![o.n] = [ms |-> o.until, by |-> l]]
           /\ Goto(r, [o EXCEPT !.pc = "granted"])
           /\ UNCHANGED <<lease, pending>>
  <2>1. /\ op'[r].pc = "granted" /\ op'[r].n = o.n /\ op'[r].generation = l
        /\ op'[r].floorMs = o.floorMs /\ op'[r].until = o.until
    BY <1>1, <1>2, <1>5, OnwardTypes
  <2>2. /\ owner'[o.n].lease = l /\ owner'[o.n].claimFloor = o.floorMs /\ floor'[o.n].ms = o.until
        /\ \A n \in Nodes \ {o.n} : owner'[n] = owner[n] /\ floor'[n] = floor[n]
    BY <1>1, <1>2, <1>5 DEF LeaseTypes
  <2>3. initialized
    BY <1>2, <1>3, <1>5 DEF TenureInv, LostFloors
  <2>4. Within(o.n, o.floorMs)
    BY <1>1, <1>2, <1>3, <1>5, <2>3 DEF IdsUnderFloor
  <2>5. FloorsOf(r) /\ LateOf(r)
    BY <1>1, <1>5, <2>2 DEF FloorsOf, LateOf
  <2>6. IdsUnderFloor'
    <3>1. \A id \in IdsOf(o.n) : id[1] <= o.until
      BY <1>1, <1>2, <1>3, <2>4, IdTypes DEF Within, IdsOf, IdInv
    <3>2. ASSUME NEW n \in Nodes PROVE \A id \in IdsOf(n) : id[1] <= floor'[n].ms
      BY <1>1, <2>2, <2>3, <3>1 DEF IdsUnderFloor, Within
    <3> QED
      BY <1>1, <2>3, <3>2 DEF IdsUnderFloor, Within, IdsOf
  <2>7. LateRaises'
    <3>1. \A w \in late : w.n \in Nodes /\ (isHeldBy(w.n, w.generation)' => w.n # o.n /\ isHeldBy(w.n, w.generation))
      BY <1>1, <1>3, <2>2 DEF isHeldBy, LeaseTypes
    <3> QED
      BY <1>1, <2>2, <3>1 DEF LateRaises
  <2>8. MintsAbove(r)'
    <3>1. Within(op[r].n, op[r].floorMs)'
      BY <1>1, <2>1, <2>4 DEF Within, IdsOf
    <3>2. \A n \in Nodes : owner'[n].lease = pending'[r] => Within(n, owner[n].claimFloor)'
      BY <1>1, <1>3, <1>5, <2>2, <2>4 DEF Within, IdsOf
    <3> QED
      BY <1>4, <2>1, <3>1, <3>2 DEF MintsAbove
  <2>9. FloorRises(r)'
    BY <1>1, <1>2, <1>3, <1>4, <2>1, <2>2 DEF FloorRises
  <2> QED
    BY <1>1, <2>5, <2>6, <2>7, <2>8, <2>9, StepKeepsIds
<1>6. CASE /\ Alive(l) /\ UNCHANGED <<lease, pending, owner, floor>>
           /\ \E n \in DOMAIN o.free \ {o.n} :
                Claim(r, [wall |-> o.anchorWall, mono |-> o.anchorMono], l, [m \in DOMAIN o.free \ {o.n} |-> o.free[m]], n)
  <2> DEFINE rest == [m \in DOMAIN o.free \ {o.n} |-> o.free[m]]
  <2>1. PICK n \in DOMAIN rest : Claim(r, [wall |-> o.anchorWall, mono |-> o.anchorMono], l, rest, n)
    BY <1>6
  <2>2. rest \in Snapshots
    <3>1. PICK S \in SUBSET Nodes : o.free \in [S -> Floors]
      BY <1>2 DEF Snapshots
    <3>2. rest \in [S \ {o.n} -> Floors] /\ S \ {o.n} \in SUBSET Nodes
      BY <3>1
    <3> QED
      BY <3>2 DEF Snapshots
  <2> HIDE DEF rest
  <2>3. op'[r].pc = "claim" /\ op'[r].generation = l /\ op'[r].until >= op'[r].floorMs
    BY <1>1, <1>2, <2>1, <2>2, ClaimTypes
  <2>4. FloorsOf(r) /\ IdsUnderFloor' /\ LateOf(r) /\ LateRaises'
    BY <1>1, <1>6, QuietFloors
  <2>5. MintsAbove(r)' /\ FloorRises(r)'
    BY <1>1, <1>3, <1>4, <1>6, <2>3 DEF MintsAbove, FloorRises, ForGrant
  <2> QED
    BY <1>1, <2>4, <2>5, StepKeepsIds
<1>7. CASE Exhausted(r, l) /\ UNCHANGED <<owner, floor>>
  <2>1. op'[r] = NoOp /\ pending'[r] = 0
    BY <1>1, <1>7 DEF Exhausted, Goto, LeaseTypes
  <2>2. FloorsOf(r) /\ IdsUnderFloor' /\ LateOf(r) /\ LateRaises'
    BY <1>1, <1>7, QuietFloors
  <2>3. MintsAbove(r)' /\ FloorRises(r)'
    BY <1>1, <1>4, <1>7, <2>1, QuietKeepsIds
  <2> QED
    BY <1>1, <2>2, <2>3, StepKeepsIds
<1> QED
  BY <1>5, <1>6, <1>7 DEF claim

LEMMA HeldKeepsIds ==
  ASSUME TenureInv, IdInv, NEW r \in Replicas, StepOf(r), held(r)
  PROVE  IdInv'
<1> DEFINE o == op[r]
           l == op[r].generation
<1>1. /\ LeaseTypes /\ MintsAbove(r) /\ FloorRises(r)
      /\ UNCHANGED <<now, skew, asleep, owner, floor, initialized, emptySince, late, fault, retired, issued, total>>
      /\ UNCHANGED minted /\ pending' = [pending EXCEPT ![r] = 0]
  BY DEF TenureInv, IdInv, held, clocks, keyspace, minted
<1>2. /\ o.pc = "granted" /\ Anchored(r) /\ ForGrant(r) /\ o # NoOp
      /\ o.n \in Nodes /\ l \in 1 .. MaxLeases /\ o.anchorWall \in Int /\ o.anchorMono \in Int
      /\ o.until \in Int /\ o.floorMs \in Int
  BY <1>1, OpKinds DEF held, At, Anchored, ForGrant, NoOp
<1>3. ~Held(r) /\ pending[r] = l /\ InTenure(r) /\ ~Stands(r)
  BY <1>2 DEF TenureInv, OneTenureEach, InTenure, Stands
<1>4. FloorsOf(r) /\ IdsUnderFloor' /\ LateOf(r) /\ LateRaises'
  BY <1>1, QuietFloors
<1>5. pending'[r] = 0
  BY <1>1 DEF LeaseTypes
<1>6. isHeldBy(o.n, l) => Within(o.n, owner[o.n].claimFloor) /\ o.floorMs = owner[o.n].claimFloor /\ o.until <= floor[o.n].ms
  BY <1>1, <1>2, <1>3 DEF MintsAbove, FloorRises, OpStands, isHeldBy
<1>7. CASE Goto(r, [pc |-> "release", n |-> o.n, generation |-> l, lastMs |-> 0]) /\ UNCHANGED node
  <2>1. op'[r].pc = "release" /\ op'[r].n = o.n /\ op'[r].generation = l /\ op'[r].lastMs = 0
    BY <1>1, <1>2, <1>7, ReleaseTypes
  <2>2. ~Held(r)' /\ ~Stands(r)' /\ ~Anchored(r)' /\ ~ForGrant(r)'
    BY <1>3, <1>7, <2>1 DEF Held, Stands, Anchored, ForGrant
  <2>3. OpStands(r)' => isHeldBy(o.n, l)
    BY <1>1, <2>1 DEF OpStands, isHeldBy
  <2>4. isHeldBy(o.n, l) => \A id \in IdsOf(o.n) : id[1] <= Larger(owner[o.n].claimFloor, 0)
    <3>1. owner[o.n].claimFloor \in Int
      BY <1>1, <1>2, OwnerTypes
    <3>2. Larger(owner[o.n].claimFloor, 0) \in Int /\ Larger(owner[o.n].claimFloor, 0) >= owner[o.n].claimFloor
      BY <3>1 DEF Larger
    <3> QED
      BY <1>6, <3>1, <3>2, IdTypes DEF Within, IdsOf, IdInv
  <2>5. OpStands(r)' => Within(op[r].n, Larger(owner[op[r].n].claimFloor, op[r].lastMs))'
    BY <1>1, <2>1, <2>3, <2>4 DEF Within, IdsOf
  <2>6. MintsAbove(r)' /\ FloorRises(r)'
    BY <1>5, <2>1, <2>2, <2>5 DEF MintsAbove, FloorRises
  <2> QED
    BY <1>1, <1>4, <2>6, StepKeepsIds
<1>8. CASE /\ Goto(r, NoOp)
           /\ node' = [node EXCEPT ![r] =
                [id |-> o.generation, n |-> o.n, until |-> o.until,
                 gen |-> Generator(r, o.n, Larger(o.floorMs, retired[r])),
                 anchorWall |-> o.anchorWall, anchorMono |-> o.anchorMono]]
  <2> DEFINE base == Larger(Wall(r), Larger(o.floorMs, retired[r]) + 1) - Mono(r)
  <2>1. /\ node'[r].id = l /\ node'[r].n = o.n /\ node'[r].until = o.until
        /\ node'[r].anchorWall = o.anchorWall /\ node'[r].anchorMono = o.anchorMono
        /\ node'[r].gen.nodeId = o.n /\ node'[r].gen.base = base /\ node'[r].gen.lastMs = 0
        /\ node'[r].gen.sequence = 0
    BY <1>1, <1>8 DEF LeaseTypes, Generator
  <2>2. op'[r] = NoOp
    BY <1>1, <1>8, OpTypes
  <2>3. Mono(r) \in Int /\ base \in Int /\ base + Mono(r) > o.floorMs
    <3>1. Wall(r) \in Int /\ Mono(r) \in Int /\ retired[r] \in Int
      BY <1>1, ClockTypes DEF LeaseTypes
    <3> QED
      BY <1>2, <3>1 DEF Larger
  <2>4. ~ForGrant(r)' /\ ~Anchored(r)' /\ ~InTenure(r)' /\ ~OpStands(r)' /\ op'[r].pc = "none"
    BY <2>2 DEF ForGrant, Anchored, InTenure, OpStands, NoOp
  <2>5. Stands(r)' => isHeldBy(o.n, l)
    BY <1>1, <2>1 DEF Stands, isHeldBy
  <2>6. Tenures(r)' \subseteq Tenures(r)
    BY <1>1, <1>3, <2>1, <2>4 DEF Tenures, Read
  <2>7. InTime(r)' => InTime(r)
    BY <1>1, <2>6 DEF InTime, Over
  <2>8. Stands(r)' \/ InTime(r)' => Within(o.n, o.floorMs)
    BY <1>1, <1>2, <1>6, <2>5, <2>7 DEF MintsAbove
  <2>9. Stands(r)' \/ InTime(r)' => (\A id \in IdsOf(node[r].n) : Below(id, r))'
    <3> SUFFICES ASSUME Stands(r)' \/ InTime(r)', NEW id \in IdsOf(o.n)
                 PROVE  id[1] < base + Mono(r)
      BY <1>1, <2>1 DEF Below, IdsOf, Mono
    <3>1. id[1] <= o.floorMs /\ id[1] \in Int
      BY <2>8, IdTypes DEF Within, IdsOf, IdInv
    <3> QED
      BY <1>2, <2>3, <3>1
  <2>10. Stands(r)' => Within(node[r].n, Larger(owner[node[r].n].claimFloor, node[r].gen.lastMs))'
    <3> SUFFICES ASSUME Stands(r)', NEW id \in IdsOf(o.n)
                 PROVE  id[1] <= Larger(owner[o.n].claimFloor, 0)
      BY <1>1, <2>1 DEF Within, IdsOf
    <3>1. owner[o.n].claimFloor \in Int /\ id[1] \in Int /\ id[1] <= owner[o.n].claimFloor
      BY <1>1, <1>2, <1>6, <2>5, OwnerTypes, IdTypes DEF Within, IdsOf, IdInv
    <3> QED
      BY <3>1 DEF Larger
  <2>11. MintsAbove(r)'
    BY <1>5, <2>1, <2>4, <2>9, <2>10 DEF MintsAbove
  <2>12. FloorRises(r)'
    BY <1>1, <1>6, <2>1, <2>4, <2>5 DEF FloorRises
  <2> QED
    BY <1>1, <1>4, <2>11, <2>12, StepKeepsIds
<1> QED
  BY <1>7, <1>8 DEF held

LEMMA RenewKeepsIds ==
  ASSUME ~LateWrites, TenureInv, IdInv, NEW r \in Replicas, StepOf(r), renew(r)
  PROVE  IdInv'
<1> DEFINE l == node[r].id
<1>1. /\ LeaseTypes /\ MintsAbove(r) /\ FloorRises(r) /\ Held(r) /\ op[r] = NoOp
      /\ UNCHANGED <<now, skew, asleep, owner, floor, fault, pending, issued, total>> /\ UNCHANGED minted
      /\ late' = StillLate(l)
  BY DEF TenureInv, IdInv, renew, Idle, clocks, keyspace, minted
<1>2. late' \subseteq late /\ \A w \in late' : w.generation # l
  BY <1>1 DEF StillLate
<1>3. FloorsOf(r) /\ IdsUnderFloor' /\ LateOf(r) /\ LateRaises'
  BY <1>1, <1>2, QuietFloors
<1>4. pending[r] = 0
  BY <1>1 DEF TenureInv, OneTenureEach
<1>5. CASE isHeldBy(node[r].n, l) /\ Raises(r) /\ UNCHANGED <<node, retired>>
  <2>1. /\ op'[r].pc = "raise" /\ ~op'[r].forGrant /\ op'[r].n = node[r].n /\ op'[r].generation = l
        /\ op'[r].until >= floor[node[r].n].ms
    BY <1>1, <1>5, RaiseTypes
  <2>2. Held(r)' /\ Stands(r) /\ Stands(r)' /\ ~ForGrant(r)'
    BY <1>1, <1>5, <2>1 DEF Held, Stands, isHeldBy, ForGrant
  <2>3. \A id : Below(id, r)' <=> Below(id, r)
    BY <1>1, <1>5 DEF Below, Mono
  <2>4. MintsAbove(r)'
    BY <1>1, <1>4, <1>5, <2>1, <2>2, <2>3 DEF MintsAbove, Within, IdsOf
  <2>5. FloorRises(r)'
    BY <1>1, <1>2, <1>5, <2>1, <2>2 DEF FloorRises
  <2> QED
    BY <1>1, <1>3, <2>4, <2>5, StepKeepsIds
<1>6. CASE Lost(r)
  <2>1. op'[r] = NoOp /\ ~Held(r)'
    BY <1>1, <1>6, OpTypes, RetireTypes DEF Lost
  <2>2. MintsAbove(r)' /\ FloorRises(r)'
    BY <1>1, <1>4, <2>1, QuietKeepsIds
  <2> QED
    BY <1>1, <1>3, <2>2, StepKeepsIds
<1> QED
  BY <1>5, <1>6 DEF renew, Raises

LEMMA RaiseKeepsIds ==
  ASSUME TenureInv, IdInv, NEW r \in Replicas, StepOf(r), raiseCeiling(r)
  PROVE  IdInv'
<1> DEFINE o == op[r]
           l == op[r].generation
<1>1. /\ LeaseTypes /\ LateRaises /\ IdsUnderFloor /\ MintsAbove(r) /\ FloorRises(r)
      /\ UNCHANGED <<now, skew, asleep, granted, owner, initialized, emptySince, late, fault, pending, issued, total>>
      /\ UNCHANGED minted
  BY DEF TenureInv, IdInv, raiseCeiling, clocks, leases, minted
<1>2. /\ o.pc = "raise" /\ o \in RaiseOps /\ Anchored(r) /\ InTenure(r) /\ o # NoOp /\ Uses(r, l)
      /\ o.n \in Nodes /\ l \in 1 .. MaxLeases /\ o.until \in Int /\ o.forGrant \in BOOLEAN
  BY <1>1, OpKinds DEF raiseCeiling, At, Anchored, InTenure, RaiseOps, NoOp, Uses
<1>3. CASE /\ isHeldBy(o.n, l) /\ floor' = [floor EXCEPT ![o.n] = [ms |-> o.until, by |-> l]]
           /\ Goto(r, [o EXCEPT !.pc = IF o.forGrant THEN "granted" ELSE "renewed"])
           /\ UNCHANGED <<node, retired>>
  <2> DEFINE pc == IF o.forGrant THEN "granted" ELSE "renewed"
  <2>1. pc \in {"renewed", "granted"} /\ (pc = "granted" <=> o.forGrant)
    BY <1>2
  <2> HIDE DEF pc
  <2>2. Goto(r, [o EXCEPT !.pc = pc])
    BY <1>3 DEF pc
  <2>3. /\ op'[r].pc = pc /\ op'[r].n = o.n /\ op'[r].generation = l
        /\ op'[r].anchorWall = o.anchorWall /\ op'[r].anchorMono = o.anchorMono
        /\ op'[r].floorMs = o.floorMs /\ op'[r].until = o.until
    BY <1>1, <1>2, <2>1, <2>2, OnwardTypes
  <2>4. /\ floor'[o.n].ms = o.until /\ \A n \in Nodes \ {o.n} : floor'[n] = floor[n]
        /\ floor[o.n].ms <= o.until /\ floor[o.n].ms \in Int
    BY <1>1, <1>2, <1>3, OwnerTypes DEF LeaseTypes, FloorRises, OpStands
  <2>5. initialized
    BY <1>2, <1>3 DEF isHeldBy, TenureInv, LostFloors
  <2>6. FloorsOf(r) /\ LateOf(r)
    BY <1>1, <1>2, <1>3, <2>4 DEF FloorsOf, LateOf, isHeldBy
  <2>7. IdsUnderFloor'
    <3>1. ASSUME NEW n \in Nodes, NEW id \in IdsOf(n) PROVE id[1] <= floor'[n].ms
      <4>1. id[1] \in Int /\ id[1] <= floor[n].ms
        BY <1>1, <2>5, <3>1, IdTypes DEF IdsUnderFloor, Within, IdsOf, IdInv
      <4> QED
        BY <1>2, <2>4, <4>1
    <3> QED
      BY <1>1, <2>5, <3>1 DEF IdsUnderFloor, Within, IdsOf
  <2>8. LateRaises'
    <3>1. \A w \in late : w.generation # l
      BY <1>1, <1>2 DEF FloorRises
    <3>2. \A w \in late : w.n \in Nodes /\ (isHeldBy(w.n, w.generation)' => w.n # o.n /\ isHeldBy(w.n, w.generation))
      BY <1>1, <1>3, <3>1 DEF isHeldBy, LeaseTypes
    <3> QED
      BY <1>1, <2>4, <3>2 DEF LateRaises
  <2>9. /\ Anchored(r)' /\ InTenure(r)' /\ (ForGrant(r)' <=> ForGrant(r)) /\ (Held(r)' <=> Held(r))
        /\ op'[r].pc \notin {"claim", "release", "raise"} /\ (Stands(r)' <=> Stands(r)) /\ node'[r] = node[r]
    BY <1>1, <1>2, <1>3, <2>1, <2>3 DEF Anchored, InTenure, ForGrant, Held, Stands, isHeldBy
  <2>10. Tenures(r)' = Tenures(r)
    BY <1>1, <1>2, <2>3, <2>9 DEF Tenures, Read
  <2>11. InTime(r)' <=> InTime(r)
    BY <1>1, <2>10 DEF InTime, Over
  <2>12. \A id : Below(id, r)' <=> Below(id, r)
    BY <1>1, <2>9 DEF Below, Mono
  <2>13. MintsAbove(r)'
    BY <1>1, <2>3, <2>9, <2>11, <2>12 DEF MintsAbove, Within, IdsOf
  <2>14. Stands(r)' => node'[r].until <= floor'[node'[r].n].ms
    <3>1. ASSUME Stands(r) PROVE node[r].n \in Nodes /\ node[r].until \in Int /\ node[r].until <= floor[node[r].n].ms
      BY <1>1, <3>1, HolderTypes DEF Stands, FloorRises
    <3> QED
      BY <1>2, <2>4, <2>9, <3>1
  <2>15. FloorRises(r)'
    BY <1>1, <1>2, <1>3, <2>3, <2>4, <2>9, <2>14 DEF FloorRises, OpStands, isHeldBy
  <2> QED
    BY <1>1, <2>6, <2>7, <2>8, <2>13, <2>15, StepKeepsIds
<1>4. CASE Goto(r, NoOp) /\ (UNCHANGED <<node, retired>> \/ retire(r)) /\ UNCHANGED floor
  <2>1. op'[r] = NoOp /\ (~Held(r)' \/ node'[r] = node[r])
    BY <1>1, <1>4, OpTypes, RetireTypes
  <2>2. FloorsOf(r) /\ IdsUnderFloor' /\ LateOf(r) /\ LateRaises'
    BY <1>1, <1>4, QuietFloors
  <2>3. MintsAbove(r)' /\ FloorRises(r)'
    BY <1>1, <1>4, <2>1, QuietKeepsIds
  <2> QED
    BY <1>1, <2>2, <2>3, StepKeepsIds
<1> QED
  BY <1>3, <1>4 DEF raiseCeiling, Lost

LEMMA RenewedKeepsIds ==
  ASSUME TenureInv, IdInv, NEW r \in Replicas, StepOf(r), renewed(r)
  PROVE  IdInv'
<1> DEFINE o == op[r]
           h == [node[r] EXCEPT !.anchorWall = o.anchorWall, !.anchorMono = o.anchorMono, !.until = o.until]
<1>1. /\ LeaseTypes /\ MintsAbove(r) /\ FloorRises(r)
      /\ UNCHANGED <<now, skew, asleep, owner, floor, late, fault, pending, issued, total>> /\ UNCHANGED minted
      /\ node' = [node EXCEPT ![r] = h] /\ Goto(r, NoOp)
  BY DEF TenureInv, IdInv, renewed, clocks, keyspace, minted
<1>2. o.pc = "renewed" /\ InTenure(r) /\ ForRenew(r) /\ o # NoOp
  BY <1>1, OpKinds DEF renewed, At, InTenure, ForRenew
<1>3. Held(r) /\ o.n = node[r].n /\ o.generation = node[r].id /\ pending[r] = 0 /\ node[r] \in Holdings
  BY <1>1, <1>2, HolderTypes DEF TenureInv, OneTenureEach
<1>4. /\ h.id = node[r].id /\ h.n = node[r].n /\ h.gen = node[r].gen /\ h.until = o.until
      /\ h.anchorWall = o.anchorWall /\ h.anchorMono = o.anchorMono
  BY <1>3 DEF Holdings
<1> HIDE DEF h
<1>5. node'[r] = h /\ op'[r] = NoOp
  BY <1>1, OpTypes DEF LeaseTypes
<1>6. ~ForGrant(r)' /\ ~Anchored(r)' /\ ~InTenure(r)' /\ ~OpStands(r)' /\ op'[r].pc = "none"
  BY <1>5 DEF ForGrant, Anchored, InTenure, OpStands, NoOp
<1>7. Stands(r)' => Stands(r) /\ OpStands(r)
  BY <1>1, <1>2, <1>3, <1>4, <1>5 DEF Stands, OpStands, isHeldBy
<1>8. Tenures(r)' \subseteq Tenures(r)
  BY <1>1, <1>2, <1>3, <1>4, <1>5, <1>6 DEF Tenures, Read
<1>9. InTime(r)' => InTime(r)
  BY <1>1, <1>8 DEF InTime, Over
<1>10. \A id : Below(id, r)' <=> Below(id, r)
  BY <1>1, <1>4, <1>5 DEF Below, Mono
<1>11. MintsAbove(r)'
  BY <1>1, <1>3, <1>4, <1>5, <1>6, <1>7, <1>9, <1>10 DEF MintsAbove, Within, IdsOf
<1>12. FloorRises(r)'
  BY <1>1, <1>2, <1>3, <1>4, <1>5, <1>6, <1>7 DEF FloorRises
<1>13. FloorsOf(r) /\ IdsUnderFloor' /\ LateOf(r) /\ LateRaises'
  BY <1>1, QuietFloors
<1> QED
  BY <1>1, <1>11, <1>12, <1>13, StepKeepsIds

LEMMA ReleaseKeepsIds ==
  ASSUME TenureInv, IdInv, NEW r \in Replicas, StepOf(r), release(r)
  PROVE  IdInv'
<1>1. /\ LeaseTypes /\ MintsAbove(r) /\ Held(r) /\ retire(r)
      /\ UNCHANGED <<owner, floor, late, pending, issued, total>> /\ UNCHANGED minted
      /\ Goto(r, [pc |-> "release", n |-> node[r].n, generation |-> node[r].id, lastMs |-> node[r].gen.lastMs])
  BY DEF TenureInv, IdInv, release, keyspace, minted
<1>2. node[r].n \in Nodes /\ node[r].id \in 1 .. MaxLeases /\ node[r].gen.lastMs \in Int /\ pending[r] = 0
  BY <1>1, HolderTypes DEF Generators, TenureInv, OneTenureEach
<1>3. op'[r].pc = "release" /\ op'[r].n = node[r].n /\ op'[r].generation = node[r].id /\ op'[r].lastMs = node[r].gen.lastMs
  BY <1>1, <1>2, ReleaseTypes
<1>4. ~Held(r)' /\ ~Stands(r)' /\ ~ForGrant(r)' /\ ~Anchored(r)'
  BY <1>1, <1>3, RetireTypes DEF Stands, ForGrant, Anchored
<1>5. OpStands(r)' => Stands(r)
  BY <1>1, <1>3 DEF OpStands, Stands, isHeldBy
<1>6. OpStands(r)' => Within(op[r].n, Larger(owner[op[r].n].claimFloor, op[r].lastMs))'
  BY <1>1, <1>3, <1>5 DEF MintsAbove, Within, IdsOf
<1>7. MintsAbove(r)' /\ FloorRises(r)'
  BY <1>1, <1>2, <1>3, <1>4, <1>6 DEF MintsAbove, FloorRises
<1>8. FloorsOf(r) /\ IdsUnderFloor' /\ LateOf(r) /\ LateRaises'
  BY <1>1, QuietFloors
<1> QED
  BY <1>1, <1>7, <1>8, StepKeepsIds

LEMMA ReleaseTxnKeepsIds ==
  ASSUME TenureInv, IdInv, NEW r \in Replicas, StepOf(r), releaseTxn(r)
  PROVE  IdInv'
<1> DEFINE o == op[r]
           l == op[r].generation
<1>1. /\ LeaseTypes /\ LateRaises /\ IdsUnderFloor /\ MintsAbove(r)
      /\ UNCHANGED <<now, granted, initialized, emptySince, late, node, pending, issued, total>> /\ UNCHANGED minted
      /\ Goto(r, NoOp)
  BY DEF TenureInv, IdInv, releaseTxn, clocks, minted
<1>2. /\ o.pc = "release" /\ o # NoOp /\ Uses(r, l) /\ o.n \in Nodes /\ l \in 1 .. MaxLeases /\ ~Held(r)
  BY <1>1, OpKinds DEF releaseTxn, At, NoOp, Uses, TenureInv, OneTenureEach
<1>3. op'[r] = NoOp /\ ~Held(r)'
  BY <1>1, <1>2, OpTypes DEF Held
<1>4. CASE UNCHANGED <<floor, owner, lease>>
  <2>1. FloorsOf(r) /\ IdsUnderFloor' /\ LateOf(r) /\ LateRaises'
    BY <1>1, <1>4, QuietFloors
  <2>2. MintsAbove(r)' /\ FloorRises(r)'
    BY <1>1, <1>3, <1>4, QuietKeepsIds
  <2> QED
    BY <1>1, <2>1, <2>2, StepKeepsIds
<1>5. CASE /\ isHeldBy(o.n, l)
           /\ floor' = [floor EXCEPT ![o.n] = [ms |-> Larger(owner[o.n].claimFloor, o.lastMs), by |-> l]]
           /\ owner' = [owner EXCEPT ![o.n] = NoOwner]
           /\ lease' = [lease EXCEPT ![l] = 0]
  <2>1. /\ floor'[o.n].ms = Larger(owner[o.n].claimFloor, o.lastMs) /\ owner'[o.n] = NoOwner
        /\ \A n \in Nodes \ {o.n} : floor'[n] = floor[n] /\ owner'[n] = owner[n]
    BY <1>1, <1>2, <1>5 DEF LeaseTypes
  <2>2. initialized
    BY <1>2, <1>5 DEF isHeldBy, TenureInv, LostFloors
  <2>3. Within(o.n, Larger(owner[o.n].claimFloor, o.lastMs))
    BY <1>1, <1>2, <1>5 DEF MintsAbove, OpStands
  <2>4. FloorsOf(r) /\ LateOf(r)
    BY <1>1, <1>2, <1>5, <2>1 DEF FloorsOf, LateOf, isHeldBy
  <2>5. IdsUnderFloor'
    BY <1>1, <2>1, <2>2, <2>3 DEF IdsUnderFloor, Within, IdsOf
  <2>6. LateRaises'
    <3>1. \A w \in late : w.n \in Nodes /\ (isHeldBy(w.n, w.generation)' => w.n # o.n /\ isHeldBy(w.n, w.generation))
      BY <1>1, <2>1 DEF isHeldBy, LeaseTypes
    <3> QED
      BY <1>1, <2>1, <3>1 DEF LateRaises
  <2>7. \A n \in Nodes : pending'[r] # 0 /\ owner'[n].lease = pending'[r] => owner'[n] = owner[n]
    BY <2>1 DEF NoOwner
  <2>8. MintsAbove(r)' /\ FloorRises(r)'
    BY <1>1, <1>3, <2>7, QuietKeepsIds
  <2> QED
    BY <1>1, <2>4, <2>5, <2>6, <2>8, StepKeepsIds
<1> QED
  BY <1>4, <1>5 DEF releaseTxn

LEMMA TenureNodes ==
  ASSUME TenureInv, NEW r \in Replicas, NEW t \in Tenures(r)
  PROVE  (Held(r) => t.n = node[r].n) /\ (ForGrant(r) => t.n = op[r].n)
<1>1. LeaseTypes /\ op[r] \in {NoOp} \cup ClaimOps \cup RaiseOps \cup ReleaseOps
  BY DEF TenureInv, LeaseTypes
<1>2. InTenure(r) => ForGrant(r) \/ ForRenew(r)
  BY <1>1, OpKinds DEF InTenure, ForGrant, ForRenew
<1>3. /\ ForGrant(r) => ~Held(r)
      /\ ForRenew(r) => Held(r) /\ op[r].n = node[r].n
  BY DEF TenureInv, OneTenureEach
<1> QED
  BY <1>2, <1>3 DEF Tenures

(* Where a holder is in its tenure nobody else is on its node. *)
LEMMA OnlyIssuer ==
  ASSUME TenureInv, NEW r \in Replicas, Held(r), NEW t \in Tenures(r), t.n = node[r].n, t.l = node[r].id, ~Over(t),
         NEW s \in Replicas \ {r}
  PROVE  /\ Held(s) /\ node[s].n = t.n => ~InTime(s) /\ ~Stands(s)
         /\ ForGrant(s) /\ op[s].n = t.n => ~InTime(s)
         /\ op[s].n = t.n => ~OpStands(s)
         /\ pending[s] # 0 => owner[t.n].lease # pending[s]
<1>1. LeaseTypes /\ LeasesApart /\ Kept(t)
  BY DEF TenureInv, TenuresKept
<1>2. t.n \in Nodes /\ t.l \in 1 .. MaxLeases /\ Uses(r, t.l)
  BY <1>1, TenureTypes
<1>3. owner[t.n] = NoOwner \/ owner[t.n].lease = t.l
  BY <1>1, <1>2 DEF Kept, isHeldBy, TenureInv, LostFloors
<1>4. \A l \in 1 .. MaxLeases : Uses(s, l) => owner[t.n].lease # l
  BY <1>1, <1>2, <1>3 DEF LeasesApart, NoOwner
<1>5. \A u \in Tenures(s) : u.n = t.n => Over(u)
  BY DEF TenureInv, OneAtATime
<1>6. /\ Held(s) /\ node[s].n = t.n => ~InTime(s)
      /\ ForGrant(s) /\ op[s].n = t.n => ~InTime(s)
  BY <1>5, TenureNodes DEF InTime
<1>7. Held(s) /\ node[s].n = t.n => ~Stands(s)
  BY <1>1, <1>4, HolderTypes DEF Stands, isHeldBy, Uses
<1>8. op[s].n = t.n => ~OpStands(s)
  BY <1>1, <1>4, OpKinds DEF OpStands, isHeldBy, Uses
<1>9. pending[s] # 0 => owner[t.n].lease # pending[s]
  BY <1>1, <1>4 DEF Uses, LeaseTypes
<1> QED
  BY <1>6, <1>7, <1>8, <1>9

LEMMA GenerateKeepsIds ==
  ASSUME TenureInv, IdInv, NEW r \in Replicas, StepOf(r), generate(r), LittleAhead'
  PROVE  IdInv' /\ (UNCHANGED minted \/ \E id \in issued' : Mint!Issue(id))
<1> DEFINE h == Minted(r)
           g == node[r].gen
           minting == <<h.gen.lastMs, h.gen.nodeId, h.gen.sequence>>
<1>0. PICK n, id0 : n = node[r].n /\ id0 = minting
  OBVIOUS
<1>1. /\ LeaseTypes /\ LeasesApart /\ ClocksAgree /\ Stamped /\ IdsUnderFloor /\ LateRaises
      /\ MintsAbove(r) /\ FloorRises(r) /\ Held(r) /\ ~Stalled(r, g)
      /\ UNCHANGED <<now, skew, asleep, lease, granted, owner, floor, initialized, emptySince, late, fault,
                     retired, pending, op>>
      /\ node' = [node EXCEPT ![r] = h]
      /\ \/ Fenced(r, h) /\ UNCHANGED minted
         \/ ~Fenced(r, h) /\ issued' = issued \cup {id0} /\ total' = total + 1
  BY <1>0 DEF TenureInv, IdInv, generate, Minted, clocks, leases, keyspace
<1>2. /\ h \in Holdings /\ h # NotHeld /\ h.gen = Stamp(r, g) /\ h.id = node[r].id /\ h.n = n
      /\ h.until = node[r].until /\ h.anchorWall = node[r].anchorWall /\ h.anchorMono = node[r].anchorMono
  BY <1>0, <1>1, MintedIs, HoldingNotEmpty
<1>3. /\ g \in Generators /\ n \in Nodes /\ node[r].until \in Int /\ node[r].anchorWall \in Int
      /\ node[r].anchorMono \in Int /\ Mono(r) \in Int /\ g.nodeId = n
  BY <1>0, <1>1, HolderTypes, ClockTypes DEF MintsAbove
<1>4. /\ h.gen \in Generators /\ h.gen.nodeId = n /\ h.gen.base >= g.base
      /\ h.gen.lastMs >= g.base + Mono(r) /\ h.gen.lastMs >= g.lastMs
      /\ h.gen.lastMs = g.lastMs => h.gen.sequence = g.sequence + 1
  BY <1>1, <1>2, <1>3, StampIs
<1>5. /\ g.base \in Int /\ g.lastMs \in Nat /\ g.sequence \in Int /\ h.gen.base \in Int /\ h.gen.lastMs \in Nat
      /\ h.gen.sequence \in 0 .. SequenceCount - 1 /\ h.gen.sequence \in Int
  BY <1>3, <1>4, TimingAssumption DEF Generators
<1> HIDE DEF h, minting
<1>5a. id0[1] = h.gen.lastMs /\ id0[2] = n /\ id0[3] = h.gen.sequence
  BY <1>0, <1>4 DEF minting
<1>6. /\ node'[r] = h /\ \A s \in Replicas \ {r} : node'[s] = node[s]
  BY <1>1 DEF LeaseTypes
<1>7. /\ Held(r)' /\ (Stands(r)' <=> Stands(r)) /\ Tenures(r)' = Tenures(r) /\ op'[r] = op[r]
      /\ (ForGrant(r)' <=> ForGrant(r)) /\ (OpStands(r)' <=> OpStands(r)) /\ (Anchored(r)' <=> Anchored(r))
  BY <1>0, <1>1, <1>2, <1>6 DEF Held, Stands, Tenures, Read, ForGrant, InTenure, OpStands, isHeldBy, Anchored
<1>8. InTime(r)' <=> InTime(r)
  BY <1>1, <1>7 DEF InTime, Over
<1>9. ~ForGrant(r) /\ op[r].pc # "release" /\ pending[r] = 0
  BY <1>1 DEF TenureInv, OneTenureEach
<1>10. FloorRises(r)'
  BY <1>0, <1>1, <1>2, <1>6, <1>7 DEF FloorRises
<1>11. ASSUME NEW id \in issued, Below(id, r)
       PROVE  Mint!After(id0, id) /\ Below(id, r)'
  <2>1. id[1] \in Nat /\ id[3] \in Int
    BY <1>1, <1>11, IdTypes
  <2>2. Mint!After(id0, id)
    BY <1>3, <1>4, <1>5, <1>11, <1>5a, <2>1 DEF Below, Mint!After
  <2>3. id[1] < h.gen.lastMs \/ (id[1] = h.gen.lastMs /\ id[3] <= h.gen.sequence)
    BY <1>5, <1>5a, <2>1, <2>2 DEF Mint!After
  <2> QED
    BY <1>6, <2>2, <2>3 DEF Below
<1>12. owner[n].claimFloor \in Int
  BY <1>1, <1>3, OwnerTypes
<1>13. Stands(r) => \A id \in IdsOf(n) : id[1] <= Larger(owner[n].claimFloor, h.gen.lastMs)
  <2> SUFFICES ASSUME Stands(r), NEW id \in IdsOf(n) PROVE id[1] <= Larger(owner[n].claimFloor, h.gen.lastMs)
    OBVIOUS
  <2>1. id[1] \in Int /\ id[1] <= Larger(owner[n].claimFloor, g.lastMs)
    BY <1>0, <1>1, IdTypes DEF MintsAbove, Within, IdsOf
  <2> QED
    BY <1>4, <1>5, <1>12, <2>1 DEF Larger
<1>14. CASE UNCHANGED minted
  <2>1. UNCHANGED <<issued, total>>
    BY <1>14 DEF minted
  <2>2. FloorsOf(r) /\ IdsUnderFloor' /\ LateOf(r) /\ LateRaises'
    BY <1>1, <2>1, QuietFloors
  <2>3. Held(r)' /\ (Stands(r)' \/ InTime(r)') => (\A id \in IdsOf(node[r].n) : Below(id, r))'
    BY <1>0, <1>1, <1>2, <1>6, <1>7, <1>8, <1>11, <2>1 DEF MintsAbove, IdsOf
  <2>4. Stands(r)' => Within(node[r].n, Larger(owner[node[r].n].claimFloor, node[r].gen.lastMs))'
    BY <1>1, <1>2, <1>6, <1>7, <1>13, <2>1 DEF Within, IdsOf
  <2>5. MintsAbove(r)'
    BY <1>1, <1>2, <1>4, <1>6, <1>7, <1>9, <2>3, <2>4 DEF MintsAbove
  <2> QED
    BY <1>10, <1>14, <2>2, <2>5, StepKeepsIds
<1>15. CASE ~Fenced(r, h) /\ issued' = issued \cup {id0} /\ total' = total + 1
  <2> DEFINE t == [n |-> node[r].n, l |-> node[r].id, read |-> Read(node[r])]
  <2>1. t \in Tenures(r) /\ t.n = n /\ t.l = node[r].id /\ t.read = Read(node[r])
    BY <1>0, <1>1 DEF Tenures
  <2>2. t.read \in Int /\ Kept(t) /\ Read(h) = t.read
    BY <1>1, <1>2, <2>1, TenureTypes DEF TenureInv, TenuresKept, Read
  <2> HIDE DEF t
  <2>3. ~Over(t)
    BY <1>1, <1>2, <1>3, <1>15, <2>2, OverIsFenced DEF Over
  <2>4. InTime(r)
    BY <2>1, <2>3 DEF InTime
  <2>5. Stands(r) \/ (~initialized /\ t.read <= (IF emptySince = -1 THEN now ELSE emptySince))
    BY <1>0, <1>1, <2>1, <2>2, <2>3 DEF Kept, Stands
  <2>6. \A id \in IdsOf(n) : Mint!After(id0, id) /\ Below(id, r)'
    BY <1>0, <1>1, <1>11, <2>4 DEF MintsAbove, IdsOf
  <2>7. id0 \in Nat \X Nodes \X (0 .. SequenceCount - 1) /\ id0[1] = h.gen.lastMs /\ id0[2] = n /\ id0[3] = h.gen.sequence
    BY <1>0, <1>3, <1>4, <1>5, <1>5a DEF minting
  <2>8. Mint!Issue(id0) /\ id0 \in issued'
    BY <1>15, <2>6, <2>7 DEF Mint!Issue, Mint!Ids, IdsOf
  <2>9. Stamped'
    BY <1>1, <1>15, <2>7 DEF Stamped
  <2>10. IdsOf(n)' = IdsOf(n) \cup {id0} /\ \A m : m # n => IdsOf(m)' = IdsOf(m)
    BY <1>15, <1>5a DEF IdsOf
  <2>11. IdsUnderFloor'
    <3> DEFINE top(m) == IF initialized THEN floor[m].ms ELSE Ttl + (IF emptySince = -1 THEN now ELSE emptySince)
    <3>1. id0[1] <= top(n)
      <4>1. CASE Stands(r)
        <5>1. initialized
          BY <1>0, <1>1, <1>3, <4>1 DEF Stands, isHeldBy, TenureInv, LostFloors
        <5>2. h.gen.lastMs <= node[r].until /\ node[r].until <= floor[n].ms /\ floor[n].ms \in Int
          BY <1>1, <1>2, <1>3, <1>5, <1>15, <4>1, <1>0, OwnerTypes DEF Fenced, FloorRises
        <5> QED
          BY <1>3, <1>5, <2>7, <5>1, <5>2
      <4>2. CASE ~initialized /\ t.read <= (IF emptySince = -1 THEN now ELSE emptySince)
        <5>1. fault = "keyspace" /\ fault' = "keyspace" /\ asleep[r] = 0 /\ skew[r] = 0
          BY <1>1, <4>2 DEF TenureInv, LostFloors, ClocksAgree
        <5>2. id0[1] <= now + FenceMargin + 1
          BY <1>1, <2>8, <5>1 DEF LittleAhead
        <5>3. now \in Int /\ emptySince \in Int /\ Mono(r) = now /\ Wall(r) = now /\ t.read = h.anchorMono
          BY <1>1, <2>2, <5>1 DEF LeaseTypes, Mono, Wall, Read
        <5>4. now - h.anchorMono < Ttl - FenceMargin
          BY <1>2, <1>3, <1>15, <5>3, TimingAssumption DEF Fenced, Larger
        <5> QED
          BY <1>5, <2>2, <2>7, <4>2, <5>2, <5>3, <5>4, TimingAssumption
      <4> QED
        BY <2>5, <4>1, <4>2
    <3>2. ASSUME NEW m \in Nodes, NEW id \in IdsOf(m)' PROVE id[1] <= top(m)
      <4>1. CASE id \in IdsOf(m)
        BY <1>1, <4>1 DEF IdsUnderFloor, Within
      <4>2. CASE m = n /\ id = id0
        BY <3>1, <4>2
      <4> QED
        BY <2>10, <3>2, <4>1, <4>2
    <3> QED
      BY <1>1, <3>2 DEF IdsUnderFloor, Within
  <2>12. LateRaises'
    BY <1>1 DEF LateRaises, isHeldBy
  <2>13. MintsAbove(r)'
    <3>1. Below(id0, r)'
      BY <1>5, <1>6, <2>7 DEF Below
    <3>2. (\A id \in IdsOf(node[r].n) : Below(id, r))'
      BY <1>2, <1>6, <2>6, <2>10, <3>1
    <3>3. Stands(r)' => Within(node[r].n, Larger(owner[node[r].n].claimFloor, node[r].gen.lastMs))'
      <4>1. id0[1] <= Larger(owner[n].claimFloor, h.gen.lastMs)
        BY <1>5, <1>12, <2>7 DEF Larger
      <4> QED
        BY <1>1, <1>2, <1>6, <1>7, <1>13, <2>10, <4>1 DEF Within
    <3> QED
      BY <1>1, <1>2, <1>4, <1>6, <1>7, <1>9, <3>2, <3>3 DEF MintsAbove
  <2>14. ASSUME NEW s \in Replicas \ {r} PROVE MintsAbove(s)' /\ FloorRises(s)'
    <3>1. /\ node'[s] = node[s] /\ op'[s] = op[s] /\ pending'[s] = pending[s] /\ MintsAbove(s) /\ FloorRises(s)
      BY <1>1, <1>6 DEF IdInv
    <3>2. /\ (Held(s)' <=> Held(s)) /\ (Stands(s)' <=> Stands(s)) /\ (OpStands(s)' <=> OpStands(s))
          /\ (ForGrant(s)' <=> ForGrant(s)) /\ Tenures(s)' = Tenures(s) /\ (Anchored(s)' <=> Anchored(s))
      BY <1>1, <3>1 DEF Held, Stands, OpStands, ForGrant, Tenures, Read, InTenure, isHeldBy, Anchored
    <3>3. (InTime(s)' <=> InTime(s)) /\ \A id : Below(id, s)' <=> Below(id, s)
      BY <1>1, <3>1, <3>2 DEF InTime, Over, Below, Mono
    <3>4. /\ Held(s) /\ node[s].n = n => ~InTime(s) /\ ~Stands(s)
          /\ ForGrant(s) /\ op[s].n = n => ~InTime(s)
          /\ op[s].n = n => ~OpStands(s)
          /\ pending[s] # 0 => owner[n].lease # pending[s]
      BY <1>0, <1>1, <2>1, <2>3, OnlyIssuer
    <3>5. FloorRises(s)'
      BY <1>1, <3>1, <3>2 DEF FloorRises
    <3>6. Held(s)' /\ (Stands(s)' \/ InTime(s)') => (\A id \in IdsOf(node[s].n) : Below(id, s))'
      BY <2>10, <3>1, <3>2, <3>3, <3>4 DEF MintsAbove
    <3>7. Stands(s)' => Within(node[s].n, Larger(owner[node[s].n].claimFloor, node[s].gen.lastMs))'
      <4>1. Stands(s) => Held(s)
        BY DEF Stands
      <4> QED
        BY <1>1, <2>10, <3>1, <3>2, <3>4, <4>1 DEF MintsAbove, Within
    <3>8. ForGrant(s)' /\ InTime(s)' => Within(op[s].n, op[s].floorMs)'
      BY <2>10, <3>1, <3>2, <3>3, <3>4 DEF MintsAbove, Within
    <3>9. op'[s].pc = "release" /\ OpStands(s)' => Within(op[s].n, Larger(owner[op[s].n].claimFloor, op[s].lastMs))'
      BY <1>1, <2>10, <3>1, <3>2, <3>4 DEF MintsAbove, Within
    <3>10. pending'[s] # 0 => \A m \in Nodes : owner'[m].lease = pending'[s] => Within(m, owner[m].claimFloor)'
      BY <1>1, <2>10, <3>1, <3>4 DEF MintsAbove, Within
    <3> QED
      BY <3>1, <3>2, <3>5, <3>6, <3>7, <3>8, <3>9, <3>10 DEF MintsAbove
  <2> QED
    BY <1>10, <2>8, <2>9, <2>11, <2>12, <2>13, <2>14 DEF IdInv
<1> QED
  BY <1>1, <1>14, <1>15

(* A step of none of the replicas. *)
LEMMA OutsideKeepsIds ==
  ASSUME TenureInv, IdInv, LeaseTypes', UNCHANGED <<granted, replica, issued, total>>, now <= now',
         \A r \in Replicas : Tenures(r)' = Tenures(r) /\ Mono(r)' >= Mono(r),
         \A n \in Nodes : owner'[n] = NoOwner \/ (owner'[n] = owner[n] /\ floor'[n].ms >= floor[n].ms),
         \A n \in Nodes : \/ owner'[n] = NoOwner \/ floor'[n] = floor[n]
                          \/ \A r \in Replicas : Anchored(r) => owner[n].lease # op[r].generation,
         late' \subseteq late, IdsUnderFloor', LateRaises'
  PROVE  IdInv'
<1>1. /\ LeaseTypes /\ now \in Nat /\ now' \in Nat /\ Stamped
      /\ UNCHANGED <<granted, node, retired, pending, op, issued, total>>
  BY DEF TenureInv, IdInv, LeaseTypes, replica
<1>2. ASSUME NEW r \in Replicas PROVE MintsAbove(r)' /\ FloorRises(r)'
  <2>1. MintsAbove(r) /\ FloorRises(r)
    BY DEF IdInv
  <2>2. /\ (Held(r)' <=> Held(r)) /\ (ForGrant(r)' <=> ForGrant(r)) /\ (Anchored(r)' <=> Anchored(r))
        /\ \A n : IdsOf(n)' = IdsOf(n)
    BY <1>1 DEF Held, ForGrant, Anchored, IdsOf
  <2>3. InTime(r)' => InTime(r)
    <3>1. \A t \in Tenures(r) : t.read \in Int
      BY <1>1, TenureTypes
    <3>2. \A t \in Tenures(r) : Over(t) => Over(t)'
      BY <1>1, <3>1, TimingAssumption DEF Over
    <3> QED
      BY <3>2 DEF InTime
  <2>4. Held(r) => /\ node[r].n \in Nodes /\ node[r].until \in Int
                   /\ node[r].gen.base \in Int /\ node[r].gen.lastMs \in Int /\ node[r].gen.sequence \in Int
    <3>1. Held(r) => node[r].gen \in Generators
      BY <1>1, HolderTypes
    <3> QED
      BY <1>1, <3>1, HolderTypes, TimingAssumption DEF Generators
  <2>5. op[r] # NoOp => op[r].n \in Nodes
    BY <1>1, OpKinds
  <2>6. /\ Stands(r)' => /\ Stands(r) /\ owner'[node[r].n] = owner[node[r].n]
                         /\ floor'[node[r].n].ms >= floor[node[r].n].ms
        /\ OpStands(r)' => /\ OpStands(r) /\ owner'[op[r].n] = owner[op[r].n]
                           /\ floor'[op[r].n].ms >= floor[op[r].n].ms
                           /\ Anchored(r) => floor'[op[r].n] = floor[op[r].n]
    BY <1>1, <2>2, <2>4, <2>5 DEF Stands, OpStands, isHeldBy
  <2>7. ASSUME Held(r), NEW id \in issued, Below(id, r) PROVE Below(id, r)'
    <3>1. id[1] \in Nat /\ id[3] \in Int
      BY <1>1, <2>7, IdTypes
    <3>2. Mono(r) \in Int /\ Mono(r)' \in Int
      <4>1. Mono(r)' \in Int
        BY DEF LeaseTypes, Mono
      <4> QED
        BY <1>1, <4>1, ClockTypes
    <3> QED
      BY <1>1, <2>4, <2>7, <3>1, <3>2 DEF Below
  <2>8. MintsAbove(r)'
    <3>1. Held(r)' /\ (Stands(r)' \/ InTime(r)') => (\A id \in IdsOf(node[r].n) : Below(id, r))'
      BY <1>1, <2>1, <2>2, <2>3, <2>6, <2>7 DEF MintsAbove, IdsOf
    <3>2. \A n \in Nodes : pending[r] # 0 /\ owner'[n].lease = pending[r] => owner'[n] = owner[n]
      BY DEF NoOwner
    <3> QED
      BY <1>1, <2>1, <2>2, <2>3, <2>6, <3>1, <3>2 DEF MintsAbove, Within
  <2>9. FloorRises(r)'
    <3>1. Stands(r)' => node[r].until <= floor'[node[r].n].ms
      <4>1. Stands(r) => Held(r)
        BY DEF Stands
      <4>2. Stands(r) => floor[node[r].n].ms \in Int /\ floor'[node[r].n].ms \in Int
        BY <1>1, <2>4, <4>1 DEF LeaseTypes, Floors
      <4> QED
        BY <2>1, <2>4, <2>6, <4>1, <4>2 DEF FloorRises
    <3>2. op[r].pc \in {"granted", "renewed", "raise"} => Anchored(r)
      BY DEF Anchored
    <3> QED
      BY <1>1, <2>1, <2>2, <2>6, <3>1, <3>2 DEF FloorRises
  <2> QED
    BY <2>8, <2>9
<1>3. Stamped'
  BY <1>1 DEF Stamped
<1> QED
  BY <1>2, <1>3 DEF IdInv

LEMMA TimeKeepsIds ==
  ASSUME TenureInv, IdInv, TenureInv', Tick \/ \E r \in Replicas : Suspended(r) \/ WallSteps(r)
  PROVE  IdInv'
<1>1. /\ LeaseTypes /\ LeaseTypes' /\ Stamped /\ IdsUnderFloor /\ LateRaises
      /\ now \in Nat /\ now' \in Nat /\ now <= now' /\ emptySince \in Int
      /\ UNCHANGED <<granted, owner, floor, initialized, emptySince, late, node, op, replica, issued, total>>
      /\ \A r \in Replicas : Tenures(r)' = Tenures(r) /\ Mono(r)' >= Mono(r)
  BY TimeMoves DEF TenureInv, IdInv, LeaseTypes
<1>2. IdsUnderFloor'
  <2>1. ASSUME NEW n \in Nodes, NEW id \in IdsOf(n), ~initialized
        PROVE  id[1] <= Ttl + (IF emptySince = -1 THEN now' ELSE emptySince)
    BY <1>1, <2>1, IdTypes, TimingAssumption DEF IdsUnderFloor, Within, IdsOf
  <2> QED
    BY <1>1, <2>1 DEF IdsUnderFloor, Within, IdsOf
<1>3. LateRaises'
  BY <1>1 DEF LateRaises, isHeldBy
<1>4. \A n \in Nodes : floor[n].ms \in Int
  BY <1>1 DEF LeaseTypes, Floors
<1> QED
  BY <1>1, <1>2, <1>3, <1>4, OutsideKeepsIds

LEMMA EtcdKeepsIds ==
  ASSUME TenureInv, IdInv, TenureInv',
         \/ \E w \in late : LateLands(w)
         \/ \E l \in 1 .. MaxLeases : LeaseEnds(l)
  PROVE  IdInv'
<1>1. /\ LeaseTypes /\ LeaseTypes' /\ IdsUnderFloor /\ LateRaises /\ Stamped /\ now \in Int
      /\ UNCHANGED <<now, skew, asleep, fault, granted, initialized, emptySince, replica, node, op, issued, total>>
  <2>1. LeaseTypes /\ LeaseTypes' /\ IdsUnderFloor /\ LateRaises /\ Stamped /\ now \in Int
    <3>1. LeaseTypes /\ LeaseTypes'
      BY DEF TenureInv
    <3>2. IdsUnderFloor /\ LateRaises /\ Stamped
      BY DEF IdInv
    <3>3. now \in Int
      BY <3>1 DEF LeaseTypes
    <3> QED
      BY <3>1, <3>2, <3>3
  <2>2. ASSUME NEW w \in late, LateLands(w)
        PROVE  UNCHANGED <<now, skew, asleep, fault, granted, initialized, emptySince, replica, node, op, issued, total>>
    BY <2>2 DEF LateLands, clocks, leases, replica, minted
  <2>3. ASSUME NEW l \in 1 .. MaxLeases, LeaseEnds(l)
        PROVE  UNCHANGED <<now, skew, asleep, fault, granted, initialized, emptySince, replica, node, op, issued, total>>
    BY <2>3 DEF LeaseEnds, clocks, leases, replica, minted
  <2> QED
    BY <2>1, <2>2, <2>3
<1>2. \A r \in Replicas : Tenures(r)' = Tenures(r) /\ Mono(r)' >= Mono(r)
  <2>1. ASSUME NEW r \in Replicas PROVE Mono(r)' = Mono(r) /\ Mono(r) \in Int
    BY <1>1, ClockTypes DEF Mono
  <2> QED
    BY <1>1, <2>1, TenuresSame
<1>3. \A n \in Nodes : floor[n].ms \in Int
  BY <1>1 DEF LeaseTypes, Floors
<1>4. ASSUME NEW w \in late, LateLands(w) PROVE IdInv'
  <2>1. w.n \in Nodes /\ w.ms \in Int /\ UNCHANGED owner /\ late' = {}
    BY <1>1, <1>4 DEF LateLands, leases, LeaseTypes, LateRaises
  <2>2. LateRaises'
    BY <2>1 DEF LateRaises
  <2>3. CASE isHeldBy(w.n, w.generation) /\ floor' = [floor EXCEPT ![w.n] = [ms |-> w.ms, by |-> w.generation]]
    <3>1. /\ floor'[w.n].ms = w.ms /\ w.ms >= floor[w.n].ms
          /\ \A n \in Nodes \ {w.n} : floor'[n] = floor[n]
      BY <1>1, <2>1, <2>3 DEF LeaseTypes, LateRaises
    <3>2. initialized
      BY <2>1, <2>3 DEF isHeldBy, TenureInv, LostFloors
    <3>3. IdsUnderFloor'
      <4>1. ASSUME NEW n \in Nodes, NEW id \in IdsOf(n) PROVE id[1] <= floor'[n].ms
        <5>1. id[1] \in Int /\ id[1] <= floor[n].ms
          BY <1>1, <3>2, <4>1, IdTypes DEF IdsUnderFloor, Within, IdsOf
        <5> QED
          BY <1>3, <2>1, <3>1, <5>1
      <4> QED
        BY <1>1, <3>2, <4>1 DEF IdsUnderFloor, Within, IdsOf
    <3>4. \A r \in Replicas : Anchored(r) => owner[w.n].lease # op[r].generation
      BY <2>3 DEF IdInv, FloorRises, isHeldBy
    <3>5. \A n \in Nodes : floor'[n].ms >= floor[n].ms
      BY <1>3, <2>1, <3>1
    <3>6. \A n \in Nodes : floor'[n] = floor[n] \/ \A r \in Replicas : Anchored(r) => owner[n].lease # op[r].generation
      BY <3>1, <3>4
    <3> QED
      BY <1>1, <1>2, <2>1, <2>2, <3>3, <3>5, <3>6, OutsideKeepsIds
  <2>4. CASE UNCHANGED floor
    <3>1. IdsUnderFloor'
      BY <1>1, <2>4 DEF IdsUnderFloor, Within, IdsOf
    <3> QED
      BY <1>1, <1>2, <1>3, <2>1, <2>2, <2>4, <3>1, OutsideKeepsIds
  <2> QED
    BY <1>4, <2>3, <2>4 DEF LateLands
<1>5. ASSUME NEW l \in 1 .. MaxLeases, LeaseEnds(l) PROVE IdInv'
  <2>1. UNCHANGED <<floor, late>> /\ \A n \in Nodes : owner'[n] = NoOwner \/ owner'[n] = owner[n]
    BY <1>5 DEF LeaseEnds
  <2>2. IdsUnderFloor'
    BY <1>1, <2>1 DEF IdsUnderFloor, Within, IdsOf
  <2>3. LateRaises'
    <3>1. \A w \in late : w.n \in Nodes
      BY <1>1 DEF LeaseTypes
    <3> QED
      BY <1>1, <2>1, <3>1 DEF LateRaises, isHeldBy
  <2> QED
    BY <1>1, <1>2, <1>3, <2>1, <2>2, <2>3, OutsideKeepsIds
<1> QED
  BY <1>4, <1>5

LEMMA LiftKeepsIds ==
  ASSUME TenureInv, IdInv, TenureInv', LittleAhead', KeyspaceLost \/ requireSettled \/ liftFloors
  PROVE  IdInv'
<1>1. /\ LeaseTypes /\ LeaseTypes' /\ IdsUnderFloor /\ LateRaises /\ Stamped /\ now \in Nat /\ emptySince \in Int
      /\ UNCHANGED <<now, skew, asleep, granted, late, replica, node, op, issued, total>>
  <2>1. LeaseTypes /\ LeaseTypes' /\ IdsUnderFloor /\ LateRaises /\ Stamped /\ now \in Nat /\ emptySince \in Int
    BY DEF TenureInv, IdInv, LeaseTypes
  <2>2. UNCHANGED <<now, skew, asleep, granted, late, replica, node, op, issued, total>>
    BY DEF KeyspaceLost, requireSettled, liftFloors, clocks, leases, replica, minted
  <2> QED
    BY <2>1, <2>2
<1>2. \A r \in Replicas : Tenures(r)' = Tenures(r) /\ Mono(r)' >= Mono(r)
  <2>1. fault' = fault \/ (fault = "none" /\ fault' = "keyspace")
    BY DEF KeyspaceLost, requireSettled, liftFloors
  <2>2. \A r \in Replicas : Mono(r)' = Mono(r) /\ Mono(r) \in Int
    BY <1>1, ClockTypes DEF Mono
  <2> QED
    BY <1>1, <2>1, <2>2 DEF Tenures, Read, Held, InTenure
<1>3. \A n \in Nodes : owner'[n] = NoOwner
  BY DEF KeyspaceLost, requireSettled, liftFloors, Free
<1>4. LateRaises'
  BY <1>1, <1>3 DEF LateRaises, isHeldBy, LeaseTypes
<1>5. IdsUnderFloor'
  <2> SUFFICES ASSUME NEW n \in Nodes, NEW id \in IdsOf(n)
               PROVE  id[1] <= IF initialized' THEN floor'[n].ms
                               ELSE Ttl + (IF emptySince' = -1 THEN now ELSE emptySince')
    BY <1>1 DEF IdsUnderFloor, Within, IdsOf
  <2>1. /\ id[1] \in Nat /\ id \in issued
        /\ id[1] <= IF initialized THEN floor[n].ms ELSE Ttl + (IF emptySince = -1 THEN now ELSE emptySince)
    BY <1>1, IdTypes DEF IdsUnderFloor, Within, IdsOf
  <2>2. CASE KeyspaceLost
    <3>1. id[1] <= now + FenceMargin + 1
      BY <1>1, <2>1, <2>2 DEF KeyspaceLost, LittleAhead
    <3> QED
      BY <1>1, <2>1, <2>2, <3>1, TimingAssumption DEF KeyspaceLost
  <2>3. CASE requireSettled
    BY <1>1, <2>1, <2>3 DEF requireSettled
  <2>4. CASE liftFloors
    <3>1. initialized' /\ floor'[n].ms = Larger(floor[n].ms, now) /\ floor[n].ms \in Int
      BY <1>1, <2>4 DEF liftFloors, LeaseTypes, Floors
    <3>2. id[1] <= now
      BY <1>1, <2>1, <2>4, TimingAssumption DEF liftFloors
    <3> QED
      BY <1>1, <2>1, <3>1, <3>2 DEF Larger
  <2> QED
    BY <2>2, <2>3, <2>4
<1> QED
  BY <1>1, <1>2, <1>3, <1>4, <1>5, OutsideKeepsIds

LEMMA IdsStart == Init => IdInv /\ Mint!Init
<1> SUFFICES ASSUME Init PROVE IdInv /\ Mint!Init
  OBVIOUS
<1>1. issued = {} /\ total = 0 /\ late = {}
  BY DEF Init
<1>2. \A r \in Replicas : op[r] = NoOp /\ node[r] = NotHeld /\ pending[r] = 0
  BY DEF Init
<1>3. \A r \in Replicas : MintsAbove(r) /\ FloorRises(r)
  BY <1>1, <1>2 DEF MintsAbove, FloorRises, Held, Stands, OpStands, ForGrant, Anchored, NoOp, Within, IdsOf
<1>4. Stamped /\ IdsUnderFloor /\ LateRaises
  BY <1>1 DEF Stamped, IdsUnderFloor, LateRaises, Within, IdsOf
<1> QED
  BY <1>1, <1>3, <1>4 DEF IdInv, Mint!Init

LEMMA IdsKeep ==
  ASSUME ~LateWrites, TenureInv, IdInv, LittleAhead', [Next]_vars
  PROVE  IdInv' /\ [Mint!Next]_<<issued, total>>
<1>1. TenureInv'
  BY TenureKeeps
<1>2. ASSUME NEW r \in Replicas, Step(r), ~Suspended(r), ~WallSteps(r)
      PROVE  IdInv' /\ (UNCHANGED minted \/ \E id \in issued' : Mint!Issue(id))
  <2>1. StepOf(r)
    BY <1>2, GenerateSteps, QuietSteps, AcquireSteps, ClaimSteps, HeldSteps, RenewSteps, RaiseSteps, RenewedSteps,
       ReleaseSteps, ReleaseTxnSteps DEF Step
  <2>2. CASE generate(r)
    BY <2>1, <2>2, GenerateKeepsIds
  <2>3. CASE ~generate(r)
    <3>1. UNCHANGED minted
      BY <1>2, <2>3 DEF Step, acquire, exhausted, claim, held, renew, raiseCeiling, renewed, release, releaseTxn,
                        Throws, Restart
    <3>2. IdInv'
      BY <1>2, <2>1, <2>3, AcquireKeepsIds, QuitsKeepIds, ClaimKeepsIds, HeldKeepsIds, RenewKeepsIds, RaiseKeepsIds,
         RenewedKeepsIds, ReleaseKeepsIds, ReleaseTxnKeepsIds, ThrowsKeepsIds DEF Step
    <3> QED
      BY <3>1, <3>2
  <2> QED
    BY <2>2, <2>3
<1>3. ASSUME NEW r \in Replicas, Step(r)
      PROVE  IdInv' /\ (UNCHANGED minted \/ \E id \in issued' : Mint!Issue(id))
  <2>1. CASE Suspended(r) \/ WallSteps(r)
    BY <1>1, <2>1, TimeKeepsIds DEF Suspended, WallSteps
  <2> QED
    BY <1>2, <1>3, <2>1
<1>4. ASSUME UNCHANGED vars PROVE IdInv' /\ UNCHANGED minted
  <2>1. UNCHANGED minted
    BY <1>4 DEF vars
  <2>2. UNCHANGED <<issued, total, late, node, op, pending, owner, floor, granted, initialized, emptySince, now, asleep, fault>>
    BY <1>4 DEF vars, clocks, keyspace, leases, replica, minted
  <2>3. Stamped' /\ IdsUnderFloor' /\ LateRaises'
    BY <2>2 DEF IdInv, Stamped, IdsUnderFloor, LateRaises, Within, IdsOf, isHeldBy
  <2>4. ASSUME NEW r \in Replicas PROVE MintsAbove(r)' /\ FloorRises(r)'
    <3>1. MintsAbove(r) /\ FloorRises(r)
      BY DEF IdInv
    <3>2. (InTime(r)' <=> InTime(r)) /\ (Held(r)' <=> Held(r)) /\ (Stands(r)' <=> Stands(r)) /\ (OpStands(r)' <=> OpStands(r))
          /\ (ForGrant(r)' <=> ForGrant(r)) /\ (Anchored(r)' <=> Anchored(r)) /\ \A id : Below(id, r)' <=> Below(id, r)
      BY <2>2 DEF InTime, Tenures, Read, Over, Held, InTenure, Stands, OpStands, isHeldBy, ForGrant, Anchored, Below, Mono
    <3> QED
      BY <2>2, <3>1, <3>2 DEF MintsAbove, FloorRises, Within, IdsOf
  <2> QED
    BY <2>1, <2>3, <2>4 DEF IdInv
<1>5. ASSUME Tick PROVE IdInv' /\ UNCHANGED minted
  BY <1>1, <1>5, TimeKeepsIds DEF Tick
<1>6. ASSUME (\E w \in late : LateLands(w)) \/ \E l \in 1 .. MaxLeases : LeaseEnds(l) PROVE IdInv' /\ UNCHANGED minted
  BY <1>1, <1>6, EtcdKeepsIds DEF LateLands, LeaseEnds
<1>7. ASSUME KeyspaceLost \/ requireSettled \/ liftFloors PROVE IdInv' /\ UNCHANGED minted
  BY <1>1, <1>7, LiftKeepsIds DEF KeyspaceLost, requireSettled, liftFloors
<1>8. IdInv' /\ (UNCHANGED minted \/ \E id \in issued' : Mint!Issue(id))
  BY <1>3, <1>4, <1>5, <1>6, <1>7 DEF Next
<1> QED
  BY <1>8 DEF minted, Mint!Next

(* The service is IdMint, with what a claim, the raise of a floor, a release and the lift let a        *)
(* generator stamp: no id comes twice and the ids of a node ascend, whoever holds it.  Of a txn that   *)
(* timed out it is assumed that it lands before its client's next request (~LateWrites); and of a      *)
(* keyspace that was lost, that its generators were then no more than the fence's margin ahead of true *)
(* time, which the code leaves to the pace of re-acquisition (generate, retire and liftFloors of       *)
(* NodeLease).  Without a lost keyspace LittleAhead says nothing.                                      *)
THEOREM ServiceIsIdMint ==
  ASSUME ~LateWrites
  PROVE  Spec /\ []LittleAhead => FreshIds
<1>1. Init => TenureInv /\ IdInv /\ Mint!Init
  BY TenureStarts, IdsStart
<1>2. TenureInv /\ IdInv /\ LittleAhead' /\ [Next]_vars => TenureInv' /\ IdInv' /\ [Mint!Next]_<<issued, total>>
  BY TenureKeeps, IdsKeep
<1> QED
  BY <1>1, <1>2, PTL DEF Spec, FreshIds, Mint!Spec

=============================================================================
