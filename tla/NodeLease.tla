------------------------------- MODULE NodeLease -------------------------------
(***************************************************************************)
(* The id service: replicas mint ids under node ids they lease from etcd.  *)
(*                                                                         *)
(* etcd keeps an owner key per node, which dies with its etcd lease, and a *)
(* floor key, the highest timestamp any holder may have stamped.  A store  *)
(* operation is several requests; ticks, other replicas and mints fall     *)
(* between them, and it may throw at any of them.  At etcd a request that  *)
(* threw has run, has not run or runs later: before the client's next      *)
(* request on that node, or with LateWrites at any time.                   *)
(*                                                                         *)
(* now is true time.  A replica's wall clock is off from it by an amount   *)
(* that steps; its monotonic clock lacks the time its host was suspended.  *)
(* The keeper's timers only decide when operations begin: here they may    *)
(* begin whenever none is in flight.  A draining replica renews and mints  *)
(* as before and acquires no more, so it is a replica that does not begin  *)
(* an acquire.                                                             *)
(***************************************************************************)
EXTENDS Integers, FiniteSets, TLC

CONSTANTS
  Replicas, Nodes,
  Ttl, FenceMargin, MaxFloorAhead,
  SequenceCount,
  Suspends,    \* replicas whose host may be suspended
  Steps,       \* replicas whose wall clock may be stepped
  MaxStep,     \* bound on a step of a wall clock
  LateWrites,  \* whether a txn that timed out may land after its client's next request
  MaxTime,     \* bound on true time
  MaxLeases,   \* bound on etcd leases granted
  MaxTotal     \* bound on ids handed out

ASSUME TimingAssumption ==
  /\ Ttl \in Nat \ {0} /\ FenceMargin \in 1 .. Ttl - 1 /\ MaxFloorAhead \in 0 .. FenceMargin
  /\ SequenceCount \in Nat \ {0}
ASSUME BoundAssumption ==
  /\ MaxStep \in Nat /\ MaxTime \in Nat /\ MaxLeases \in Nat /\ MaxTotal \in Nat
  /\ LateWrites \in BOOLEAN

VARIABLES
  now,          \* true time
  skew,         \* per replica: wall clock minus true time
  asleep,       \* per replica: true time minus monotonic clock
  lease,        \* per etcd lease id: its deadline, 0 before it is granted and once it is gone
  granted,      \* number of etcd leases granted
  owner,        \* owner key per node: its etcd lease and the floor it was claimed above
  floor,        \* floor key per node: its value and the tenure that wrote it
  initialized,  \* the floor lift's marker is there
  emptySince,   \* when the lift first saw the keyspace empty, -1 for never
  late,         \* floor writes of txns that timed out and have yet to run
  fault,        \* history: the fault the behaviour has met, one of "none", "suspend", "clock", "keyspace"
  node,         \* per replica: the lease it holds, and its generator
  retired,      \* per replica: retiredLastMs
  pending,      \* per replica: pendingLeaseId, 0 for null
  op,           \* per replica: the store operation in flight
  issued, total \* ids handed out, and how many times one was

clocks == <<now, skew, asleep>>
keyspace == <<owner, floor, initialized, emptySince>>
leases == <<lease, granted>>
replica == <<node, retired, pending, op>>
minted == <<issued, total>>
vars == <<clocks, leases, keyspace, late, fault, replica, minted>>

Wall(r) == now + skew[r]
Mono(r) == now - asleep[r]
Larger(a, b) == IF a > b THEN a ELSE b

NoOwner == [lease |-> 0, claimFloor |-> 0]
NotHeld == [id |-> 0]
NoOp == [pc |-> "none"]
Held(r) == node[r] # NotHeld
Free == {n \in Nodes : owner[n] = NoOwner}

(* The owner key's create revision: a lease claims a node at most once, so  *)
(* its id tells the tenures of a node apart as well.                        *)
isHeldBy(n, generation) == owner[n] # NoOwner /\ owner[n].lease = generation

Alive(l) == l # 0 /\ lease[l] > 0

Lifted == -1  \* the writer of a floor that the lift wrote

Init ==
  /\ now = 0 /\ skew = [r \in Replicas |-> 0] /\ asleep = [r \in Replicas |-> 0]
  /\ lease = [l \in 1 .. MaxLeases |-> 0] /\ granted = 0
  /\ owner = [n \in Nodes |-> NoOwner] /\ floor = [n \in Nodes |-> [ms |-> 0, by |-> Lifted]]
  /\ initialized = TRUE /\ emptySince = -1
  /\ late = {} /\ fault = "none"
  /\ node = [r \in Replicas |-> NotHeld] /\ retired = [r \in Replicas |-> 0]
  /\ pending = [r \in Replicas |-> 0] /\ op = [r \in Replicas |-> NoOp]
  /\ issued = {} /\ total = 0

-------------------------------------------------------------------------------
(***************************************************************************)
(* SnowflakeGenerator.  base is the origin, the lift past the floor and    *)
(* the offset that only grows, less the monotonic origin: the generator's  *)
(* clock reads base plus the monotonic clock.                              *)
(***************************************************************************)
Generator(r, n, floorMs) ==
  [nodeId |-> n, base |-> Larger(Wall(r), floorMs + 1) - Mono(r), lastMs |-> 0, sequence |-> 0]

(* now(): catches up with the wall clock, never goes back with it. *)
CaughtUp(r, g) == [g EXCEPT !.base = Larger(@, Wall(r) - Mono(r))]

Stalled(r, g) == CaughtUp(r, g).base + Mono(r) <= g.lastMs /\ g.sequence = SequenceCount - 1

Stamp(r, g) ==
  LET ts == CaughtUp(r, g).base + Mono(r) IN
  [CaughtUp(r, g) EXCEPT !.lastMs   = Larger(ts, g.lastMs),
                         !.sequence = IF ts <= g.lastMs THEN g.sequence + 1 ELSE 0]

-------------------------------------------------------------------------------
(***************************************************************************)
(* NodeLease: the fence, and minting.                                      *)
(***************************************************************************)

(* Defect: the fence trusts the monotonic clock alone. *)
FencedByMonotonic(r, h) ==
  \/ Mono(r) - h.anchorMono >= Ttl - FenceMargin
  \/ h.gen.lastMs > h.until

Fenced(r, h) ==
  LET monotonicElapsed == Mono(r) - h.anchorMono
      wallElapsed == Wall(r) - h.anchorWall
  IN \/ Larger(monotonicElapsed, wallElapsed) >= Ttl - FenceMargin
     \/ wallElapsed - monotonicElapsed > FenceMargin
     \/ h.gen.lastMs > h.until

(* The host may be suspended between the fence check and the stamp; the     *)
(* check after the stamp decides.                                           *)
generate(r) ==
  /\ Held(r) /\ total < MaxTotal /\ ~Stalled(r, node[r].gen)
  /\ Fenced(r, node[r]) => asleep[r] > 0
  /\ LET h == [node[r] EXCEPT !.gen = Stamp(r, node[r].gen)] IN
     /\ node' = [node EXCEPT ![r] = h]
     /\ \/ Fenced(r, h) /\ UNCHANGED minted
        \/ /\ ~Fenced(r, h)
           /\ issued' = issued \cup {<<h.gen.lastMs, h.gen.nodeId, h.gen.sequence>>}
           /\ total' = total + 1
  /\ UNCHANGED <<clocks, leases, keyspace, late, fault, retired, pending, op>>

Goto(r, next) == op' = [op EXCEPT ![r] = next]
Idle(r) == op[r] = NoOp

(* The late writes a client's next request on its node leaves possible. *)
StillLate(generation) == IF LateWrites THEN late ELSE {w \in late : w.generation # generation}
At(r, pc) == op[r].pc = pc

(* retire: every later generator of the process starts above what this one  *)
(* stamped.                                                                 *)
retire(r) ==
  /\ retired' = [retired EXCEPT ![r] = IF Held(r) THEN Larger(@, node[r].gen.lastMs) ELSE @]
  /\ node' = [node EXCEPT ![r] = NotHeld]

-------------------------------------------------------------------------------
(***************************************************************************)
(* acquire                                                                 *)
(***************************************************************************)
(* leaseForClaim: the pending lease if it is still alive, or a new one. *)
LeaseForClaim(r, l) ==
  \/ /\ Alive(pending[r]) /\ l = pending[r]
     /\ lease' = [lease EXCEPT ![l] = now + Ttl] /\ UNCHANGED granted
  \/ /\ ~Alive(pending[r]) /\ l = granted + 1
     /\ granted' = l /\ lease' = [lease EXCEPT ![l] = now + Ttl]

(* A node of its own lease is an earlier claim whose outcome it never heard: *)
(* it is adopted again, its ceiling raised as a renew would.                 *)
Readopt(r, l, n) ==
  Goto(r, [pc |-> "raise", anchorWall |-> Wall(r), anchorMono |-> Mono(r), forGrant |-> TRUE, n |-> n, generation |-> l,
           floorMs |-> owner[n].claimFloor, nowMs |-> Wall(r), until |-> Larger(floor[n].ms, Wall(r) + Ttl)])

(* The claim of one free node, with the floor the snapshot read. *)
Claim(r, anchor, l, free, n) ==
  Goto(r, [pc |-> "claim", anchorWall |-> anchor.wall, anchorMono |-> anchor.mono,
           n |-> n, generation |-> l, free |-> free, floorMs |-> free[n].ms, nowMs |-> Wall(r),
           until |-> Larger(Wall(r), free[n].ms) + Ttl])

Exhausted(r, l) ==
  /\ Goto(r, NoOp)
  /\ pending' = [pending EXCEPT ![r] = 0]

(* The clocks are read, a lease is had and the keyspace is read.  Without    *)
(* the lift's marker it is not trusted.                                      *)
acquire(r) ==
  /\ ~Held(r) /\ Idle(r)
  /\ granted < MaxLeases \/ Alive(pending[r])
  /\ \E l \in 1 .. MaxLeases :
       /\ LeaseForClaim(r, l)
       /\ pending' = [pending EXCEPT ![r] = l]
       /\ late' = StillLate(l)
       /\ \/ ~initialized /\ Goto(r, NoOp)
          \/ /\ initialized
             /\ \E n \in Nodes : owner[n].lease = l /\ Readopt(r, l, n)
          \/ /\ initialized /\ Free # {} /\ \A n \in Nodes : owner[n].lease # l
             /\ \E n \in Free : Claim(r, [wall |-> Wall(r), mono |-> Mono(r)], l, [m \in Free |-> floor[m]], n)
  /\ UNCHANGED <<clocks, keyspace, fault, node, retired, minted>>

(* Nothing is free: the lease is given up. *)
exhausted(r) ==
  /\ ~Held(r) /\ Idle(r) /\ initialized /\ Free = {}
  /\ \A n \in Nodes : ~Alive(pending[r]) \/ owner[n].lease # pending[r]
  /\ lease' = [l \in 1 .. MaxLeases |-> IF l = pending[r] THEN 0 ELSE lease[l]]
  /\ Exhausted(r, pending[r])
  /\ UNCHANGED <<clocks, granted, keyspace, late, fault, node, retired, minted>>

(* The claim's txn: the node is still free and its floor the one read. *)
claim(r) ==
  LET o == op[r] IN
  /\ At(r, "claim")
  /\ \/ /\ Alive(o.generation)
        /\ owner[o.n] = NoOwner /\ floor[o.n] = o.free[o.n]
        /\ owner' = [owner EXCEPT ![o.n] = [lease |-> o.generation, claimFloor |-> o.floorMs]]
        /\ floor' = [floor EXCEPT ![o.n] = [ms |-> o.until, by |-> o.generation]]
        /\ Goto(r, [o EXCEPT !.pc = "granted"])
        /\ UNCHANGED <<lease, pending>>
     \/ /\ Alive(o.generation)
        /\ owner[o.n] # NoOwner \/ floor[o.n] # o.free[o.n]
        /\ LET rest == DOMAIN o.free \ {o.n} IN
           \/ /\ \E n \in rest : Claim(r, [wall |-> o.anchorWall, mono |-> o.anchorMono], o.generation, [m \in rest |-> o.free[m]], n)
              /\ UNCHANGED <<lease, pending>>
           \/ /\ rest = {} /\ Exhausted(r, o.generation)
              /\ lease' = [lease EXCEPT ![o.generation] = 0]
        /\ UNCHANGED <<owner, floor>>
     \/ /\ ~Alive(o.generation)  \* EtcdLeaseInvalidError
        /\ Exhausted(r, o.generation)
        /\ UNCHANGED <<lease, owner, floor>>
  /\ UNCHANGED <<clocks, granted, initialized, emptySince, late, fault, node, retired, minted>>

(* Defect: a generator starts at the floor it was granted, not above what    *)
(* the process itself stamped.                                               *)
heldAtFloor(r) ==
  LET o == op[r] IN
  /\ At(r, "granted")
  /\ node' = [node EXCEPT ![r] =
                [id |-> o.generation, n |-> o.n, until |-> o.until,
                 gen |-> Generator(r, o.n, 0),
                 anchorWall |-> o.anchorWall, anchorMono |-> o.anchorMono]]
  /\ pending' = [pending EXCEPT ![r] = 0]
  /\ Goto(r, NoOp)
  /\ UNCHANGED <<clocks, leases, keyspace, late, fault, retired, minted>>

(* The grant reaches the replica.  A floor too far ahead of the clock that   *)
(* claimed is handed back; otherwise the process mints above the floor.      *)
held(r) ==
  LET o == op[r] IN
  /\ At(r, "granted")
  /\ pending' = [pending EXCEPT ![r] = 0]
  /\ \/ /\ o.floorMs > 0 /\ o.floorMs - o.nowMs > MaxFloorAhead
        /\ Goto(r, [pc |-> "release", n |-> o.n, generation |-> o.generation, lastMs |-> 0])
        /\ UNCHANGED node
     \/ /\ o.floorMs = 0 \/ o.floorMs - o.nowMs <= MaxFloorAhead
        /\ node' = [node EXCEPT ![r] =
                      [id |-> o.generation, n |-> o.n, until |-> o.until,
                       gen |-> Generator(r, o.n, Larger(o.floorMs, retired[r])),
                       anchorWall |-> o.anchorWall, anchorMono |-> o.anchorMono]]
        /\ Goto(r, NoOp)
  /\ UNCHANGED <<clocks, leases, keyspace, late, fault, retired, minted>>

-------------------------------------------------------------------------------
(***************************************************************************)
(* renew                                                                   *)
(***************************************************************************)
Lost(r) == retire(r) /\ Goto(r, NoOp)

(* The clocks are read, then the node, and its etcd lease is kept alive;     *)
(* gone, the node is lost.                                                   *)
renew(r) ==
  LET h == node[r] IN
  /\ Held(r) /\ Idle(r)
  /\ late' = StillLate(h.id)
  /\ \/ /\ isHeldBy(h.n, h.id)
        /\ lease' = [lease EXCEPT ![h.id] = now + Ttl]
        /\ Goto(r, [pc |-> "raise", anchorWall |-> Wall(r), anchorMono |-> Mono(r), forGrant |-> FALSE,
                    n |-> h.n, generation |-> h.id, floorMs |-> 0, nowMs |-> 0,
                    until |-> Larger(floor[h.n].ms, Larger(Wall(r), h.gen.lastMs) + Ttl)])
        /\ UNCHANGED <<node, retired>>
     \/ ~isHeldBy(h.n, h.id) /\ Lost(r) /\ UNCHANGED lease
  /\ UNCHANGED <<clocks, granted, keyspace, fault, pending, minted>>

(* raiseCeiling's txn compares the owner's generation, not the floor. *)
raiseCeiling(r) ==
  LET o == op[r] IN
  /\ At(r, "raise")
  /\ \/ /\ isHeldBy(o.n, o.generation)
        /\ floor' = [floor EXCEPT ![o.n] = [ms |-> o.until, by |-> o.generation]]
        /\ Goto(r, [o EXCEPT !.pc = IF o.forGrant THEN "granted" ELSE "renewed"])
        /\ UNCHANGED <<node, retired>>
     \/ /\ ~isHeldBy(o.n, o.generation)
        /\ IF o.forGrant THEN Goto(r, NoOp) /\ UNCHANGED <<node, retired>> ELSE Lost(r)
        /\ UNCHANGED floor
  /\ UNCHANGED <<clocks, leases, owner, initialized, emptySince, late, fault, pending, minted>>

renewed(r) ==
  LET o == op[r] IN
  /\ At(r, "renewed")
  /\ node' = [node EXCEPT ![r].anchorWall = o.anchorWall, ![r].anchorMono = o.anchorMono, ![r].until = o.until]
  /\ Goto(r, NoOp)
  /\ UNCHANGED <<clocks, leases, keyspace, late, fault, retired, pending, minted>>

-------------------------------------------------------------------------------
(***************************************************************************)
(* release, at shutdown or of a rejected grant                             *)
(***************************************************************************)
release(r) ==
  /\ Held(r) /\ Idle(r)
  /\ retire(r)
  /\ Goto(r, [pc |-> "release", n |-> node[r].n, generation |-> node[r].id, lastMs |-> node[r].gen.lastMs])
  /\ UNCHANGED <<clocks, leases, keyspace, late, fault, pending, minted>>

(* The floor comes down from the ceiling to what was stamped, the owner key  *)
(* and the lease go.                                                         *)
releaseTxn(r) ==
  LET o == op[r] IN
  /\ At(r, "release")
  /\ \/ /\ isHeldBy(o.n, o.generation)
        /\ floor' = [floor EXCEPT ![o.n] = [ms |-> Larger(owner[o.n].claimFloor, o.lastMs), by |-> o.generation]]
        /\ owner' = [owner EXCEPT ![o.n] = NoOwner]
        /\ lease' = [lease EXCEPT ![o.generation] = 0]
     \/ ~isHeldBy(o.n, o.generation) /\ UNCHANGED <<floor, owner, lease>>
  /\ Goto(r, NoOp)
  /\ UNCHANGED <<clocks, granted, initialized, emptySince, late, fault, node, retired, pending, minted>>

(* The operation throws: the lease in hand stays usable until the fence.     *)
(* A txn not yet run never does, or still may.                               *)
Throws(r) ==
  LET o == op[r] IN
  /\ ~Idle(r)
  /\ \/ UNCHANGED late
     \/ /\ At(r, "raise") /\ late = {}  \* one at a time
        /\ late' = late \cup {[n |-> o.n, generation |-> o.generation, ms |-> o.until]}
  /\ Goto(r, NoOp)
  /\ UNCHANGED <<clocks, leases, keyspace, fault, node, retired, pending, minted>>

LateLands(w) ==
  /\ late' = late \ {w}
  /\ floor' = IF isHeldBy(w.n, w.generation)
              THEN [floor EXCEPT ![w.n] = [ms |-> w.ms, by |-> w.generation]] ELSE floor
  /\ UNCHANGED <<clocks, leases, owner, initialized, emptySince, fault, replica, minted>>

(* The process dies, or has shut down, and another starts in its place. *)
Restart(r) ==
  /\ node' = [node EXCEPT ![r] = NotHeld] /\ retired' = [retired EXCEPT ![r] = 0]
  /\ pending' = [pending EXCEPT ![r] = 0] /\ Goto(r, NoOp)
  /\ Held(r) \/ ~Idle(r)
  /\ UNCHANGED <<clocks, leases, keyspace, late, fault, minted>>

-------------------------------------------------------------------------------
(***************************************************************************)
(* etcd, time and the floor lift                                           *)
(***************************************************************************)

(* A lease ends at its deadline or later; its keys go with it. *)
LeaseEnds(l) ==
  /\ Alive(l) /\ now >= lease[l]
  /\ lease' = [lease EXCEPT ![l] = 0]
  /\ owner' = [n \in Nodes |-> IF owner[n].lease = l THEN NoOwner ELSE owner[n]]
  /\ UNCHANGED <<clocks, granted, floor, initialized, emptySince, late, fault, replica, minted>>

Tick ==
  /\ now < MaxTime
  /\ now' = now + 1
  /\ UNCHANGED <<skew, asleep, leases, keyspace, late, fault, replica, minted>>

(* One kind of fault, and one fault, in a behaviour.  A host is suspended    *)
(* for a while, a wall clock is stepped, or the keys are lost (leases and    *)
(* revisions go on); the lift compares ages on the clock of one host.        *)
Suspended(r) ==
  /\ r \in Suspends /\ fault = "none" /\ fault' = "suspend"
  /\ \E d \in 1 .. MaxTime - now : now' = now + d /\ asleep' = [asleep EXCEPT ![r] = d]
  /\ UNCHANGED <<skew, leases, keyspace, late, replica, minted>>

WallSteps(r) ==
  /\ r \in Steps /\ fault = "none" /\ fault' = "clock"
  /\ \E d \in (-MaxStep .. MaxStep) \ {0} : Wall(r) + d >= 0 /\ skew' = [skew EXCEPT ![r] = d]
  /\ UNCHANGED <<now, asleep, leases, keyspace, late, replica, minted>>

KeyspaceLost ==
  /\ fault = "none" /\ fault' = "keyspace"
  /\ owner' = [n \in Nodes |-> NoOwner] /\ floor' = [n \in Nodes |-> [ms |-> 0, by |-> 0]]
  /\ initialized' = FALSE /\ emptySince' = -1
  /\ UNCHANGED <<clocks, leases, late, replica, minted>>

(* liftFloors --if-uninitialized --settle: the first run records when it saw *)
(* the keyspace empty.                                                       *)
requireSettled ==
  /\ ~initialized /\ emptySince = -1 /\ Free = Nodes
  /\ emptySince' = now
  /\ UNCHANGED <<clocks, leases, owner, floor, initialized, late, fault, replica, minted>>

liftFloors ==
  /\ ~initialized /\ emptySince # -1 /\ emptySince + Ttl <= now /\ Free = Nodes
  /\ floor' = [n \in Nodes |-> [ms |-> Larger(floor[n].ms, now), by |-> Lifted]]
  /\ initialized' = TRUE /\ emptySince' = -1
  /\ UNCHANGED <<clocks, leases, owner, late, fault, replica, minted>>

Step(r) ==
  \/ generate(r)
  \/ acquire(r) \/ exhausted(r) \/ claim(r) \/ held(r)
  \/ renew(r) \/ raiseCeiling(r) \/ renewed(r)
  \/ release(r) \/ releaseTxn(r)
  \/ Throws(r) \/ Restart(r) \/ Suspended(r) \/ WallSteps(r)

Next ==
  \/ \E r \in Replicas : Step(r)
  \/ \E w \in late : LateLands(w)
  \/ \E l \in 1 .. MaxLeases : LeaseEnds(l)
  \/ Tick \/ KeyspaceLost \/ requireSettled \/ liftFloors

Spec == Init /\ [][Next]_vars

-------------------------------------------------------------------------------
(* No id is handed out twice and the ids of a node ascend, across tenures,   *)
(* restarts, suspended hosts and a lost keyspace: the service is IdMint.     *)
Mint == INSTANCE IdMint WITH
  Nodes         <- Nodes,
  SequenceCount <- SequenceCount,
  issued        <- issued,
  total         <- total
FreshIds == Mint!Spec

(* A holder stops on its own before etcd hands its node to another: no two   *)
(* replicas are past the fence's check on one node.                          *)
OneMinter ==
  \A r, s \in Replicas :
    r # s /\ Held(r) /\ Held(s) /\ node[r].n = node[s].n => Fenced(r, node[r]) \/ Fenced(s, node[s])

===============================================================================
