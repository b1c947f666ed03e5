----------------------- MODULE CoordinatorOps_proofs -----------------------
(***************************************************************************)
(* Every handler of the coordinator keeps its state well-typed and sound,  *)
(* for all drones, grids and timeouts.                                     *)
(***************************************************************************)
EXTENDS CoordinatorOps, TLAPS

\* What the code below calls a stamp is a number of ticks, at most MaxAge.
LEMMA AgeFacts ==
  /\ 0 \in Age
  /\ MaxAge \in Age
  /\ \A a \in Age : Older(a) \in Age
BY TimeoutAssumption, SMT DEF Age, MaxAge, Older

\* Drone ids are positive, so 0 is free to stand for none.
LEMMA DroneFacts ==
  \A d \in Drone : d \in Nat /\ d # 0 /\ d > 0
BY DroneAssumption

\* rebuildAggregatedState picks an owner that some snapshot reports.
LEMMA ReportedOwnerType ==
  ASSUME NEW c \in CoordState, NEW g \in Grid
  PROVE  ReportedOwner(c, g) \in OwnershipRecord
<1>1. CASE \E s \in Drone : IsWinner(c, g, s)
  <2> DEFINE s == CHOOSE s \in Drone : IsWinner(c, g, s)
  <2>1. s \in Drone
    BY <1>1
  <2>2. c.snap[s] \in Snapshot
    BY <2>1 DEF CoordState
  <2>3. c.snap[s].owned[g] \in OwnershipRecord
    BY <2>2 DEF Snapshot
  <2> QED
    BY <1>1, <2>3 DEF ReportedOwner
<1>2. CASE ~ \E s \in Drone : IsWinner(c, g, s)
  BY <1>2 DEF ReportedOwner, Unowned, OwnershipRecord, DroneOrNone
<1> QED
  BY <1>1, <1>2

\* Latest known versions are numbers, and Larger bounds both its arguments.
LEMMA LargerFacts ==
  ASSUME NEW m \in Nat, NEW n \in Nat
  PROVE  Larger(m, n) \in Nat /\ m <= Larger(m, n) /\ n <= Larger(m, n)
BY SMT DEF Larger

\* The state of a node that knows nothing of its view.
LEMMA EmptyViewType ==
  ASSUME NEW l \in DroneOrNone, NEW e \in Nat, NEW a \in Age
  PROVE  EmptyView(l, e, a) \in CoordState
<1>1. NoSnapshot \in Snapshot
  BY AgeFacts DEF NoSnapshot, Snapshot, OwnershipRecord, Unowned, DroneOrNone
<1>2. NoOverride \in Override /\ NoPlan \in Plan
  BY AgeFacts DEF NoOverride, Override, NoPlan, Plan, DroneOrNone
<1>3. Unowned \in OwnershipRecord
  BY DEF Unowned, OwnershipRecord, DroneOrNone
<1> QED
  BY <1>1, <1>2, <1>3 DEF EmptyView, CoordState

\* rebuildAggregatedState keeps the state well-typed.
LEMMA RebuildType ==
  ASSUME NEW c \in CoordState
  PROVE  Rebuild(c) \in CoordState
<1>1. \A g \in Grid : ReportedOwner(c, g) \in OwnershipRecord
  BY ReportedOwnerType
<1>2. \A g \in Grid : c.latest[g] \in Nat /\ c.over[g] \in Override
  BY DEF CoordState
<1>3. \A g \in Grid : ReportedLatest(c, g) \in Nat
  BY <1>1, <1>2 DEF ReportedLatest, Larger, OwnershipRecord
<1>4. \A g \in Grid :
        /\ Larger(ReportedLatest(c, g), c.over[g].version) \in Nat
        /\ c.over[g].version \in Nat
        /\ c.over[g].owner \in DroneOrNone
  BY <1>2, <1>3 DEF Larger, Override
<1>5. Unowned \in OwnershipRecord
  BY DEF Unowned, OwnershipRecord, DroneOrNone
<1>6. Rebuild(c).table \in [Grid -> OwnershipRecord]
  BY <1>1, <1>4, <1>5 DEF Rebuild, CoordState, OwnershipRecord
<1>7. Rebuild(c).latest \in [Grid -> Nat] /\ Rebuild(c).freeVer \in [Grid -> Nat]
  BY <1>4 DEF Rebuild, CoordState
<1>8. Rebuild(c).free \in SUBSET Grid
  BY DEF Rebuild, CoordState, FreeAfterRebuild
<1> QED
  BY <1>6, <1>7, <1>8 DEF Rebuild, CoordState


\* What rebuildAggregatedState leaves alone.
LEMMA RebuildKeeps ==
  ASSUME NEW c \in CoordState
  PROVE  /\ Rebuild(c).plan = c.plan
         /\ Rebuild(c).leader = c.leader
         /\ Rebuild(c).over = c.over
BY DEF Rebuild, CoordState

\* After rebuildAggregatedState the table, the pool and the overrides agree,
\* whatever the snapshots say.
LEMMA RebuildSound ==
  ASSUME NEW c \in CoordState, NEW d \in Drone, PlanIsLeaders(d, c)
  PROVE  Sound(d, Rebuild(c))
<1> DEFINE r == Rebuild(c)
<1>1. /\ r.free = FreeAfterRebuild(c)
      /\ r.over = c.over
      /\ \A g \in Grid :
           /\ ~HasOverride(c, g) => r.table[g] = ReportedOwner(c, g)
           /\ HasOverride(c, g) /\ c.over[g].owner > 0
                => r.table[g] = [owner   |-> c.over[g].owner,
                                 version |-> c.over[g].version]
           /\ HasOverride(c, g) /\ ~(c.over[g].owner > 0) => r.table[g] = Unowned
           /\ r.latest[g] = Larger(ReportedLatest(c, g), c.over[g].version)
           /\ r.freeVer[g] \in {0, r.latest[g], c.over[g].version}
  BY DEF Rebuild, CoordState
<1> HIDE DEF r
<1>2. ASSUME NEW g \in Grid
      PROVE  /\ ReportedOwner(c, g).version \in Nat
             /\ c.over[g].version \in Nat
             /\ c.over[g].owner \in DroneOrNone
             /\ c.latest[g] \in Nat
  BY ReportedOwnerType DEF CoordState, OwnershipRecord, Override
<1>3. FreeNotOwned(r)
  <2> SUFFICES ASSUME NEW g \in FreeAfterRebuild(c)
               PROVE  r.table[g].owner = 0
    BY <1>1 DEF FreeNotOwned
  <2>1. g \in Grid
    BY DEF FreeAfterRebuild
  <2>2. CASE HasOverride(c, g)
    <3>1. c.over[g].owner = 0
      BY <2>1, <2>2 DEF FreeAfterRebuild
    <3>2. ~(c.over[g].owner > 0)
      BY <3>1
    <3>3. r.table[g] = Unowned
      BY <1>1, <2>1, <2>2, <3>2
    <3> QED
      BY <3>3 DEF Unowned
  <2>3. CASE ~HasOverride(c, g)
    BY <1>1, <2>1, <2>3 DEF FreeAfterRebuild, ReportedFree
  <2> QED
    BY <2>2, <2>3
<1>4. VersionsCovered(r)
  <2> SUFFICES ASSUME NEW g \in Grid
               PROVE  /\ r.table[g].version <= r.latest[g]
                      /\ r.over[g].version <= r.latest[g]
                      /\ r.freeVer[g] <= r.latest[g]
    BY DEF VersionsCovered
  <2>1. /\ ReportedLatest(c, g) \in Nat
        /\ ReportedOwner(c, g).version <= ReportedLatest(c, g)
    BY <1>2, LargerFacts DEF ReportedLatest
  <2>2. /\ r.latest[g] \in Nat
        /\ ReportedLatest(c, g) <= r.latest[g]
        /\ c.over[g].version <= r.latest[g]
    BY <1>1, <1>2, <2>1, LargerFacts
  <2>3. r.table[g].version <= r.latest[g]
    <3>1. CASE ~HasOverride(c, g)
      <4>1. r.table[g] = ReportedOwner(c, g)
        BY <1>1, <3>1
      <4> QED
        BY <1>2, <2>1, <2>2, <4>1
    <3>2. CASE HasOverride(c, g) /\ c.over[g].owner > 0
      <4>1. r.table[g] = [owner   |-> c.over[g].owner,
                          version |-> c.over[g].version]
        BY <1>1, <3>2
      <4> QED
        BY <2>2, <4>1
    <3>3. CASE HasOverride(c, g) /\ ~(c.over[g].owner > 0)
      <4>1. r.table[g] = Unowned
        BY <1>1, <3>3
      <4> QED
        BY <2>2, <4>1 DEF Unowned
    <3> QED
      BY <3>1, <3>2, <3>3
  <2>4. r.freeVer[g] <= r.latest[g]
    <3>1. r.freeVer[g] \in {0, r.latest[g], c.over[g].version}
      BY <1>1
    <3> QED
      BY <2>2, <3>1
  <2> QED
    BY <1>1, <2>2, <2>3, <2>4
<1>5. OverrideWins(r)
  <2> SUFFICES ASSUME NEW g \in Grid, HasOverride(r, g)
               PROVE  IF r.over[g].owner > 0
                      THEN /\ g \notin r.free
                           /\ r.table[g] = [owner   |-> r.over[g].owner,
                                            version |-> r.over[g].version]
                      ELSE g \in r.free
    BY DEF OverrideWins
  <2>1. HasOverride(c, g)
    BY <1>1 DEF HasOverride
  <2>2. c.over[g].owner \in Nat
    <3>1. c.over[g].owner \in DroneOrNone
      BY <1>2
    <3>2. DroneOrNone \subseteq Nat
      BY DroneAssumption DEF DroneOrNone
    <3> QED
      BY <3>1, <3>2
  <2>3. g \in r.free <=> c.over[g].owner = 0
    BY <1>1, <2>1 DEF FreeAfterRebuild
  <2>4. CASE c.over[g].owner > 0
    BY <1>1, <2>1, <2>3, <2>4
  <2>5. CASE c.over[g].owner = 0
    BY <1>1, <2>3, <2>5
  <2> QED
    BY <2>2, <2>4, <2>5
<1>6. PlanIsLeaders(d, r)
  BY RebuildKeeps DEF r, PlanIsLeaders, IsLeader
<1> QED
  BY <1>3, <1>4, <1>5, <1>6 DEF r, Sound

\* A node that knows nothing is sound.
LEMMA EmptyViewSound ==
  ASSUME NEW d \in Drone, NEW l, NEW e, NEW a
  PROVE  Sound(d, EmptyView(l, e, a))
BY DEF Sound, EmptyView, FreeNotOwned, VersionsCovered, OverrideWins,
       PlanIsLeaders, HasOverride, NoPlan, NoOverride, Unowned

\* componentStateCallback.
LEMMA OnComponentStateSafe ==
  ASSUME NEW c \in CoordState, NEW d \in Drone, NEW s \in Drone,
         NEW m \in Snapshot, Sound(d, c)
  PROVE  OnComponentState(c, s, m) \in CoordState /\ Sound(d, OnComponentState(c, s, m))
<1> DEFINE empty == EmptyView(m.leader, m.epoch, m.age)
           viewChanged == c.epoch # m.epoch \/ c.leader # m.leader
           adopted == IF ~Authoritative(c, s, m) THEN c
                      ELSE IF viewChanged THEN empty
                      ELSE [c EXCEPT !.age = m.age]
           cached == [adopted EXCEPT !.snap[s] = m]
<1>1. m.leader \in DroneOrNone /\ m.epoch \in Nat /\ m.age \in Age
  BY DEF Snapshot
<1>2. empty \in CoordState /\ PlanIsLeaders(d, empty)
  BY <1>1, EmptyViewType, EmptyViewSound DEF Sound
<1>3. /\ [c EXCEPT !.age = m.age] \in CoordState
      /\ PlanIsLeaders(d, [c EXCEPT !.age = m.age])
  BY <1>1 DEF CoordState, Sound, PlanIsLeaders, IsLeader
<1>4. adopted \in CoordState /\ PlanIsLeaders(d, adopted)
  BY <1>2, <1>3 DEF Sound
<1> HIDE DEF adopted
<1>5. cached \in CoordState /\ PlanIsLeaders(d, cached)
  BY <1>4 DEF CoordState, PlanIsLeaders, IsLeader
<1>6. OnComponentState(c, s, m) = Rebuild(cached)
  BY DEF OnComponentState, adopted
<1> QED
  BY <1>5, <1>6, RebuildType, RebuildSound

\* allocationRequestCallback: what is planned is a version never used before.
LEMMA OnRequestSafe ==
  ASSUME NEW c \in CoordState, NEW d \in Drone, NEW m, NEW g \in Grid,
         m.drone \in Drone, m.txn \in Nat, CanPlan(d, c, m), Sound(d, c)
  PROVE  OnRequest(c, m, g) \in CoordState /\ Sound(d, OnRequest(c, m, g))
<1>1. c.freeVer[g] + 1 \in Nat /\ c.freeVer[g] + 1 > 0
  BY DEF CoordState
<1>2. PlanFor(c, m, g) \in Plan
  BY <1>1, AgeFacts, GridAssumption DEF PlanFor, Plan, DroneOrNone
<1>3. OnRequest(c, m, g) \in CoordState
  BY <1>2 DEF OnRequest, CoordState
<1>4. /\ OnRequest(c, m, g).plan = PlanFor(c, m, g)
      /\ OnRequest(c, m, g).leader = c.leader
      /\ OnRequest(c, m, g).free = c.free
      /\ OnRequest(c, m, g).table = c.table
      /\ OnRequest(c, m, g).over = c.over
      /\ OnRequest(c, m, g).latest = c.latest
      /\ OnRequest(c, m, g).freeVer = c.freeVer
  BY DEF OnRequest, CoordState
<1>5. PlanIsLeaders(d, OnRequest(c, m, g))
  BY <1>1, <1>4 DEF PlanIsLeaders, PlanFor, CanPlan, IsLeader
<1>6. FreeNotOwned(OnRequest(c, m, g)) /\ VersionsCovered(OnRequest(c, m, g))
  BY <1>4 DEF Sound, FreeNotOwned, VersionsCovered
<1>7. OverrideWins(OnRequest(c, m, g))
  BY <1>4 DEF Sound, OverrideWins, HasOverride
<1> QED
  BY <1>3, <1>5, <1>6, <1>7 DEF Sound

\* assignmentAckCallback: the grid is the drone's in the table, out of the
\* pool, and the decision is remembered.
LEMMA OnAckSafe ==
  ASSUME NEW c \in CoordState, NEW d \in Drone, NEW m,
         m.drone \in Drone, m.grid \in Grid, AckFits(d, c, m), Sound(d, c)
  PROVE  OnAck(c) \in CoordState /\ Sound(d, OnAck(c))
<1> DEFINE h == c.plan.grid
           v == c.plan.version
           a == OnAck(c)
<1>1. /\ h \in Grid
      /\ v \in Nat
      /\ c.plan.owner \in Drone
      /\ c.plan.owner > 0
  <2>1. h = m.grid /\ c.plan.owner = m.drone
    BY DEF AckFits
  <2>2. v \in Nat
    BY DEF CoordState, Plan
  <2>3. m.drone > 0
    BY DroneFacts
  <2> QED
    BY <2>1, <2>2, <2>3
<1>2. [owner |-> c.plan.owner, version |-> v] \in OwnershipRecord
  BY <1>1 DEF OwnershipRecord, DroneOrNone
<1>3. [owner |-> c.plan.owner, version |-> v, age |-> 0] \in Override
  BY <1>1, AgeFacts DEF Override, DroneOrNone
<1>4. NoPlan \in Plan
  BY AgeFacts DEF NoPlan, Plan, DroneOrNone
<1>5. a \in CoordState
  BY <1>1, <1>2, <1>3, <1>4 DEF OnAck, CoordState
<1>6. /\ a.plan = NoPlan
      /\ a.free = c.free \ {h}
      /\ a.table[h] = [owner |-> c.plan.owner, version |-> v]
      /\ a.latest[h] = v
      /\ a.over[h] = [owner |-> c.plan.owner, version |-> v, age |-> 0]
      /\ a.freeVer[h] = 0
      /\ \A g \in Grid \ {h} :
           /\ a.table[g] = c.table[g]
           /\ a.latest[g] = c.latest[g]
           /\ a.over[g] = c.over[g]
           /\ a.freeVer[g] = c.freeVer[g]
  BY <1>1 DEF OnAck, CoordState
<1> HIDE DEF a, h, v
<1>7. FreeNotOwned(a)
  BY <1>6 DEF FreeNotOwned, Sound, CoordState
<1>8. VersionsCovered(a)
  <2> SUFFICES ASSUME NEW g \in Grid
               PROVE  /\ a.table[g].version <= a.latest[g]
                      /\ a.over[g].version <= a.latest[g]
                      /\ a.freeVer[g] <= a.latest[g]
    BY DEF VersionsCovered
  <2>1. CASE g = h
    BY <1>1, <1>6, <2>1
  <2>2. CASE g # h
    BY <1>6, <2>2 DEF Sound, VersionsCovered
  <2> QED
    BY <2>1, <2>2
<1>9. OverrideWins(a)
  <2> SUFFICES ASSUME NEW g \in Grid, HasOverride(a, g)
               PROVE  IF a.over[g].owner > 0
                      THEN /\ g \notin a.free
                           /\ a.table[g] = [owner   |-> a.over[g].owner,
                                            version |-> a.over[g].version]
                      ELSE g \in a.free
    BY DEF OverrideWins
  <2>1. CASE g = h
    BY <1>1, <1>6, <2>1
  <2>2. CASE g # h
    <3>1. HasOverride(c, g)
      BY <1>6, <2>2 DEF HasOverride
    <3>2. /\ a.over[g] = c.over[g]
          /\ a.table[g] = c.table[g]
          /\ g \in a.free <=> g \in c.free
      BY <1>6, <2>2
    <3> QED
      BY <3>1, <3>2 DEF Sound, OverrideWins
  <2> QED
    BY <2>1, <2>2
<1>10. PlanIsLeaders(d, a)
  BY <1>6 DEF PlanIsLeaders, NoPlan
<1> QED
  BY <1>5, <1>7, <1>8, <1>9, <1>10 DEF a, Sound

\* releaseRequestCallback: only what the drone owns in the table, in the very
\* version, is freed.
LEMMA OnReleaseSafe ==
  ASSUME NEW c \in CoordState, NEW d \in Drone, NEW m,
         m.grids \subseteq Grid, m.versions \in [Grid -> Nat], Sound(d, c)
  PROVE  OnRelease(d, c, m) \in CoordState /\ Sound(d, OnRelease(d, c, m))
<1> DEFINE R == Released(d, c, m)
           r == OnRelease(d, c, m)
<1>1. R \subseteq Grid
  BY DEF Released
<1>2. \A g \in R : c.table[g].version = m.versions[g]
  BY DEF Released
<1>3. \A g \in Grid : /\ c.table[g] \in OwnershipRecord
                      /\ c.over[g] \in Override
                      /\ m.versions[g] \in Nat
                      /\ c.table[g].version \in Nat
                      /\ c.latest[g] \in Nat /\ c.freeVer[g] \in Nat
  BY DEF CoordState, OwnershipRecord
<1>4. Unowned \in OwnershipRecord
  BY DEF Unowned, OwnershipRecord, DroneOrNone
<1>5. \A g \in Grid : [owner |-> 0, version |-> m.versions[g], age |-> 0] \in Override
  BY <1>3, AgeFacts DEF Override, DroneOrNone
<1> HIDE DEF R
<1>6. /\ r.plan = c.plan /\ r.leader = c.leader
      /\ r.free = c.free \cup R
      /\ \A g \in R :
           /\ r.table[g] = Unowned
           /\ r.latest[g] = c.table[g].version
           /\ r.freeVer[g] = m.versions[g]
           /\ r.over[g] = [owner |-> 0, version |-> m.versions[g], age |-> 0]
      /\ \A g \in Grid \ R :
           /\ r.table[g] = c.table[g]
           /\ r.latest[g] = c.latest[g]
           /\ r.freeVer[g] = c.freeVer[g]
           /\ r.over[g] = c.over[g]
  BY <1>1 DEF OnRelease, CoordState, R
<1>7. r \in CoordState
  BY <1>1, <1>3, <1>4, <1>5 DEF OnRelease, CoordState, R
<1> HIDE DEF r
<1>8. FreeNotOwned(r)
  <2> SUFFICES ASSUME NEW g \in r.free
               PROVE  r.table[g].owner = 0
    BY DEF FreeNotOwned
  <2>1. CASE g \in R
    <3>1. r.table[g] = Unowned
      BY <1>6, <2>1
    <3> QED
      BY <3>1 DEF Unowned
  <2>2. CASE g \notin R
    <3>1. g \in c.free /\ g \in Grid
      BY <1>6, <2>2 DEF CoordState
    <3>2. r.table[g] = c.table[g]
      BY <1>6, <2>2, <3>1
    <3> QED
      BY <3>1, <3>2 DEF Sound, FreeNotOwned
  <2> QED
    BY <2>1, <2>2
<1>9. VersionsCovered(r)
  <2> SUFFICES ASSUME NEW g \in Grid
               PROVE  /\ r.table[g].version <= r.latest[g]
                      /\ r.over[g].version <= r.latest[g]
                      /\ r.freeVer[g] <= r.latest[g]
    BY DEF VersionsCovered
  <2>1. CASE g \in R
    <3>1. /\ r.table[g] = Unowned
          /\ r.latest[g] = c.table[g].version
          /\ r.freeVer[g] = c.table[g].version
          /\ r.over[g] = [owner |-> 0, version |-> c.table[g].version, age |-> 0]
      BY <1>2, <1>6, <2>1
    <3>2. c.table[g].version \in Nat
      BY <1>3
    <3> QED
      BY <3>1, <3>2 DEF Unowned
  <2>2. CASE g \notin R
    BY <1>6, <2>2 DEF Sound, VersionsCovered
  <2> QED
    BY <2>1, <2>2
<1>10. OverrideWins(r)
  <2> SUFFICES ASSUME NEW g \in Grid, HasOverride(r, g)
               PROVE  IF r.over[g].owner > 0
                      THEN /\ g \notin r.free
                           /\ r.table[g] = [owner   |-> r.over[g].owner,
                                            version |-> r.over[g].version]
                      ELSE g \in r.free
    BY DEF OverrideWins
  <2>1. CASE g \in R
    <3>1. r.over[g] = [owner |-> 0, version |-> m.versions[g], age |-> 0]
      BY <1>6, <2>1
    <3>2. r.over[g].owner = 0
      BY <3>1
    <3>3. g \in r.free
      BY <1>6, <2>1
    <3> QED
      BY <3>2, <3>3
  <2>2. CASE g \notin R
    <3>1. HasOverride(c, g)
      BY <1>6, <2>2 DEF HasOverride
    <3>2. /\ r.over[g] = c.over[g]
          /\ r.table[g] = c.table[g]
          /\ g \in r.free <=> g \in c.free
      BY <1>6, <2>2
    <3> QED
      BY <3>1, <3>2 DEF Sound, OverrideWins
  <2> QED
    BY <2>1, <2>2
<1>11. PlanIsLeaders(d, r)
  BY <1>6 DEF PlanIsLeaders, IsLeader, Sound
<1> QED
  BY <1>7, <1>8, <1>9, <1>10, <1>11 DEF r, Sound

\* pruneExpiredSnapshots and pruneExpiredLocalOverrides.
LEMMA PruneSafe ==
  ASSUME NEW c \in CoordState, NEW d \in Drone, Sound(d, c)
  PROVE  /\ PruneExpiredSnapshots(c) \in CoordState
         /\ Sound(d, PruneExpiredSnapshots(c))
         /\ PruneExpiredOverrides(c) \in CoordState
         /\ Sound(d, PruneExpiredOverrides(c))
<1> DEFINE s == [c EXCEPT !.snap =
                   [t \in Drone |-> IF Expired(@[t].age) THEN NoSnapshot ELSE @[t]]]
           o == [c EXCEPT !.over =
                   [g \in Grid |-> IF Expired(@[g].age) THEN NoOverride ELSE @[g]]]
<1>1. NoSnapshot \in Snapshot
  BY AgeFacts DEF NoSnapshot, Snapshot, OwnershipRecord, Unowned, DroneOrNone
<1>2. NoOverride \in Override
  BY AgeFacts DEF NoOverride, Override, DroneOrNone
<1>3. s \in CoordState /\ o \in CoordState
  BY <1>1, <1>2 DEF CoordState
<1>4. PlanIsLeaders(d, s) /\ PlanIsLeaders(d, o)
  BY DEF Sound, PlanIsLeaders, IsLeader, CoordState
<1>5. /\ Rebuild(s) \in CoordState /\ Sound(d, Rebuild(s))
      /\ Rebuild(o) \in CoordState /\ Sound(d, Rebuild(o))
  BY <1>3, <1>4, RebuildType, RebuildSound
<1>6. PruneExpiredSnapshots(c) \in {c, Rebuild(s)}
  BY DEF PruneExpiredSnapshots
<1>7. PruneExpiredOverrides(c) \in {c, Rebuild(o)}
  BY DEF PruneExpiredOverrides
<1> HIDE DEF s, o
<1> QED
  BY <1>5, <1>6, <1>7

\* pendingPlanTimerCallback.
LEMMA OnTimerSafe ==
  ASSUME NEW c \in CoordState, NEW d \in Drone, Sound(d, c)
  PROVE  OnTimer(c) \in CoordState /\ Sound(d, OnTimer(c))
<1> DEFINE p == PruneExpiredOverrides(PruneExpiredSnapshots(c))
           q == [p EXCEPT !.plan = NoPlan]
<1>1. p \in CoordState /\ Sound(d, p)
  BY PruneSafe
<1>2. OnTimer(c) \in {p, q}
  BY DEF OnTimer
<1> HIDE DEF p
<1>3. q \in CoordState
  BY <1>1, AgeFacts DEF CoordState, NoPlan, Plan, DroneOrNone
<1>4. /\ q.plan = NoPlan /\ q.free = p.free /\ q.table = p.table
      /\ q.over = p.over /\ q.latest = p.latest /\ q.freeVer = p.freeVer
  BY <1>1 DEF CoordState
<1> HIDE DEF q
<1>5. FreeNotOwned(q) /\ VersionsCovered(q)
  BY <1>1, <1>4 DEF Sound, FreeNotOwned, VersionsCovered
<1>6. OverrideWins(q)
  BY <1>1, <1>4 DEF Sound, OverrideWins, HasOverride
<1>7. PlanIsLeaders(d, q)
  BY <1>4 DEF PlanIsLeaders, NoPlan
<1> QED
  BY <1>1, <1>2, <1>3, <1>5, <1>6, <1>7 DEF Sound

\* The passing of a tick.
LEMMA AgedSafe ==
  ASSUME NEW c \in CoordState, NEW d \in Drone, Sound(d, c)
  PROVE  Aged(c) \in CoordState /\ Sound(d, Aged(c))
<1> DEFINE a == Aged(c)
<1>1. NoSnapshot \in Snapshot
  BY AgeFacts DEF NoSnapshot, Snapshot, OwnershipRecord, Unowned, DroneOrNone
<1>2. NoOverride \in Override /\ NoPlan \in Plan
  BY AgeFacts DEF NoOverride, Override, NoPlan, Plan, DroneOrNone
<1>3. \A s \in Drone : AgedSnapshot(c.snap[s]) \in Snapshot
  BY <1>1, AgeFacts DEF AgedSnapshot, CoordState, Snapshot
<1>4. \A g \in Grid : AgedOverride(c.over[g]) \in Override
  BY <1>2, AgeFacts DEF AgedOverride, CoordState, Override
<1>5. AgedPlan(c.plan) \in Plan
  BY <1>2, AgeFacts DEF AgedPlan, CoordState, Plan
<1>6. Older(c.age) \in Age
  BY AgeFacts DEF CoordState
<1>7. a \in CoordState
  BY <1>3, <1>4, <1>5, <1>6 DEF Aged, CoordState
<1>8. /\ a.leader = c.leader /\ a.free = c.free /\ a.table = c.table
      /\ a.latest = c.latest /\ a.freeVer = c.freeVer
      /\ a.plan = AgedPlan(c.plan)
      /\ \A g \in Grid : a.over[g] = AgedOverride(c.over[g])
  BY DEF Aged, CoordState
<1> HIDE DEF a
<1>9. \A g \in Grid :
        \/ a.over[g].owner = c.over[g].owner /\ a.over[g].version = c.over[g].version
        \/ a.over[g].version = 0
  <2> SUFFICES ASSUME NEW g \in Grid
               PROVE  \/ /\ a.over[g].owner = c.over[g].owner
                         /\ a.over[g].version = c.over[g].version
                      \/ a.over[g].version = 0
    OBVIOUS
  <2>1. c.over[g] \in Override
    BY DEF CoordState
  <2>2. a.over[g] = AgedOverride(c.over[g])
    BY <1>8
  <2>3. CASE c.over[g].version > 0
    BY <2>1, <2>2, <2>3 DEF AgedOverride, Override
  <2>4. CASE ~(c.over[g].version > 0)
    BY <2>2, <2>4 DEF AgedOverride, NoOverride
  <2> QED
    BY <2>3, <2>4
<1>10. FreeNotOwned(a)
  BY <1>8 DEF Sound, FreeNotOwned
<1>11. VersionsCovered(a)
  <2>1. \A g \in Grid : c.latest[g] \in Nat
    BY DEF CoordState
  <2> QED
    BY <1>8, <1>9, <2>1 DEF Sound, VersionsCovered
<1>12. OverrideWins(a)
  BY <1>8, <1>9 DEF Sound, OverrideWins, HasOverride
<1>13. PlanIsLeaders(d, a)
  <2>1. CASE c.plan.active
    BY <1>8, <2>1 DEF AgedPlan, Sound, PlanIsLeaders, IsLeader, CoordState, Plan
  <2>2. CASE ~c.plan.active
    BY <1>8, <2>2 DEF AgedPlan, PlanIsLeaders, NoPlan
  <2> QED
    BY <2>1, <2>2
<1> QED
  BY <1>7, <1>10, <1>11, <1>12, <1>13 DEF a, Sound

=============================================================================
