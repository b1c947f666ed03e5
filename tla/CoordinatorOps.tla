--------------------------- MODULE CoordinatorOps ---------------------------
(***************************************************************************)
(* The data and the handlers of one component_allocation_coordinator_node: *)
(* the leader-side table of who owns which grid.  A node is a              *)
(* single-threaded ros::spin loop, so a handler is a function of the       *)
(* node's state `c' and of the message it is given.                        *)
(*                                                                         *)
(* Stamps are kept as AGES in clock ticks: a stamp comparison              *)
(* "s.stamp < o.stamp" is "s.age > o.age".  Ages saturate at MaxAge, one   *)
(* past the largest age any comparison of the code tells apart.  Of two    *)
(* stamps of the same tick neither is taken to be before the other.        *)
(***************************************************************************)
EXTENDS Integers

CONSTANTS
  Drone,       \* drone ids: positive integers, their order is the leader rule
  Grid,        \* ids of the cells of the hierarchical grid
  Timeout      \* the three one-second timeouts of the node, in ticks

ASSUME DroneAssumption == Drone \subseteq (Nat \ {0})
ASSUME GridAssumption == Grid \subseteq Nat
ASSUME TimeoutAssumption == Timeout \in Nat \ {0}

MaxAge == Timeout + 1
Age == 0 .. MaxAge

\* Id 0 stands for "no drone": no leader, no owner.
DroneOrNone == Drone \cup {0}

-----------------------------------------------------------------------------
(* Data.                                                                   *)

OwnershipRecord == [owner : DroneOrNone, version : Nat]
Unowned == [owner |-> 0, version |-> 0]

\* What a drone publishes as ComponentState: its view of the component, who
\* owns which grid in that view, and which grids nobody owns.
Snapshot == [known  : BOOLEAN,
             epoch  : Nat,
             leader : DroneOrNone,
             owned  : [Grid -> OwnershipRecord],
             free   : SUBSET Grid,
             age    : Age]

NoSnapshot == [known |-> FALSE, epoch |-> 0, leader |-> 0,
               owned |-> [g \in Grid |-> Unowned], free |-> {}, age |-> 0]

\* The coordinator's own recent decision on a grid (owner 0: released).
\* version 0 means that there is none.
Override == [owner : DroneOrNone, version : Nat, age : Age]
NoOverride == [owner |-> 0, version |-> 0, age |-> 0]

Plan == [active : BOOLEAN, txn : Nat, grid : Nat,
         owner : DroneOrNone, version : Nat, age : Age]
NoPlan == [active |-> FALSE, txn |-> 0, grid |-> 0,
           owner |-> 0, version |-> 0, age |-> 0]

CoordState == [leader  : DroneOrNone,
               epoch   : Nat,
               age     : Age,                      \* of component_stamp_
               snap    : [Drone -> Snapshot],
               over    : [Grid -> Override],
               latest  : [Grid -> Nat],            \* 0: no version known
               table   : [Grid -> OwnershipRecord],
               free    : SUBSET Grid,
               freeVer : [Grid -> Nat],            \* 0 outside free
               plan    : Plan]

\* The state after construction, and after every change of view.
EmptyView(l, e, a) ==
  [leader  |-> l, epoch |-> e, age |-> a,
   snap    |-> [s \in Drone |-> NoSnapshot],
   over    |-> [g \in Grid |-> NoOverride],
   latest  |-> [g \in Grid |-> 0],
   table   |-> [g \in Grid |-> Unowned],
   free    |-> {},
   freeVer |-> [g \in Grid |-> 0],
   plan    |-> NoPlan]

CoordInit == EmptyView(0, 0, MaxAge)

IsLeader(d, c) == c.leader > 0 /\ c.leader = d

-----------------------------------------------------------------------------
(* rebuildAggregatedState: the ownership table and the free pool, from the *)
(* cached snapshots and the local overrides.                               *)

\* snapshotMatchesAuthoritativeView: with no leader, or in epoch 0, every
\* snapshot does.
Matches(c, s) ==
  \/ c.leader = 0
  \/ c.epoch = 0
  \/ s.leader = c.leader /\ s.epoch = c.epoch

Current(c) == {s \in Drone : c.snap[s].known /\ Matches(c, c.snap[s])}

HasOverride(c, g) == c.over[g].version > 0

\* A snapshot published before the override must not undo it.
Shadowed(c, g, s) ==
  LET v == c.snap[s].owned[g].version
  IN  /\ HasOverride(c, g)
      /\ \/ v < c.over[g].version
         \/ v = c.over[g].version /\ c.snap[s].age > c.over[g].age

\* The sources whose snapshot says who owns g.
Claimants(c, g) ==
  {s \in Current(c) : c.snap[s].owned[g].owner # 0 /\ ~Shadowed(c, g, s)}

\* The highest version wins; of equal versions, the smaller source.
Beats(c, g, s, t) ==
  LET v == c.snap[s].owned[g].version
      w == c.snap[t].owned[g].version
  IN  v > w \/ (v = w /\ s <= t)

IsWinner(c, g, s) ==
  s \in Claimants(c, g) /\ \A t \in Claimants(c, g) : Beats(c, g, s, t)

ReportedOwner(c, g) ==
  IF \E s \in Drone : IsWinner(c, g, s)
  THEN c.snap[CHOOSE s \in Drone : IsWinner(c, g, s)].owned[g]
  ELSE Unowned

Larger(m, n) == IF m < n THEN n ELSE m

\* latest_owner_versions_ after the snapshots were read.
ReportedLatest(c, g) == Larger(c.latest[g], ReportedOwner(c, g).version)

ReportedFree(c, g) ==
  /\ ReportedOwner(c, g).owner = 0
  /\ \E s \in Current(c) :
       /\ g \in c.snap[s].free
       /\ ~(HasOverride(c, g) /\ c.snap[s].age > c.over[g].age)

\* Mutant: a grid that was just given stays free if a snapshot says so.
FreeAsReported(c) ==
  {g \in Grid : \/ HasOverride(c, g) /\ c.over[g].owner = 0
               \/ ReportedFree(c, g)}

\* Overrides are applied last.
FreeAfterRebuild(c) ==
  {g \in Grid : IF HasOverride(c, g) THEN c.over[g].owner = 0
                                     ELSE ReportedFree(c, g)}


Rebuild(c) ==
  [c EXCEPT
     !.table = [g \in Grid |->
                  IF ~HasOverride(c, g) THEN ReportedOwner(c, g)
                  ELSE IF c.over[g].owner > 0
                       THEN [owner   |-> c.over[g].owner,
                             version |-> c.over[g].version]
                       ELSE Unowned],
     !.latest = [g \in Grid |->
                   Larger(ReportedLatest(c, g), c.over[g].version)],
     !.free = FreeAfterRebuild(c),
     !.freeVer = [g \in Grid |->
                    IF g \notin FreeAfterRebuild(c) THEN 0
                    ELSE IF ReportedFree(c, g)
                         THEN Larger(ReportedLatest(c, g), c.over[g].version)
                         ELSE c.over[g].version]]

-----------------------------------------------------------------------------
(* componentStateCallback                                                  *)

\* authoritativeSourceTimedOut
SourceTimedOut(c) == c.age > Timeout

\* Mutant: the first leader is never replaced, nor its epoch.
AuthoritativeOnce(c, s, m) == s = m.leader /\ c.leader = 0

\* authoritativeAcceptanceReason is not empty.
Authoritative(c, s, m) ==
  /\ s = m.leader
  /\ \/ c.leader = 0
     \/ c.epoch = 0
     \/ s = c.leader
     \/ m.epoch > c.epoch
     \/ SourceTimedOut(c)

\* Mutant: every snapshot of the leader clears what the node knows.
OnComponentStateAfresh(c, s, m) ==
  LET adopted == IF Authoritative(c, s, m)
                 THEN EmptyView(m.leader, m.epoch, m.age) ELSE c
  IN  Rebuild([adopted EXCEPT !.snap[s] = m])

OnComponentState(c, s, m) ==
  LET viewChanged == c.epoch # m.epoch \/ c.leader # m.leader
      adopted ==
        IF ~Authoritative(c, s, m) THEN c
        ELSE IF viewChanged THEN EmptyView(m.leader, m.epoch, m.age)
        ELSE [c EXCEPT !.age = m.age]
  IN  Rebuild([adopted EXCEPT !.snap[s] = m])

-----------------------------------------------------------------------------
(* allocationRequestCallback                                               *)

SameView(c, m) == m.leader = c.leader /\ m.epoch = c.epoch

\* The first requested grid that is free; the requester lists the grids it
\* wants back after relay duty before the others, and within each part the
\* order is that of a hash map.  An empty request asks for the smallest.
Grantable(c, m) ==
  IF m.recover \cup m.claim = {}
  THEN {g \in c.free : \A h \in c.free : g <= h}
  ELSE IF m.recover \cap c.free # {} THEN m.recover \cap c.free
                                     ELSE m.claim \cap c.free

CanPlan(d, c, m) == IsLeader(d, c) /\ SameView(c, m) /\ ~c.plan.active

PlanFor(c, m, g) ==
  [active |-> TRUE, txn |-> m.txn, grid |-> g, owner |-> m.drone,
   version |-> c.freeVer[g] + 1, age |-> 0]

OnRequest(c, m, g) == [c EXCEPT !.plan = PlanFor(c, m, g)]

-----------------------------------------------------------------------------
(* assignmentAckCallback                                                   *)

\* Mutant: a refusal commits as well.
AckFitsRefused(d, c, m) ==
  /\ IsLeader(d, c)
  /\ c.plan.active
  /\ SameView(c, m)
  /\ m.txn = c.plan.txn
  /\ m.grid = c.plan.grid
  /\ m.drone = c.plan.owner
  /\ m.version = c.plan.version

AckFits(d, c, m) ==
  /\ IsLeader(d, c)
  /\ c.plan.active
  /\ SameView(c, m)
  /\ m.txn = c.plan.txn
  /\ m.grid = c.plan.grid
  /\ m.drone = c.plan.owner
  /\ m.version = c.plan.version
  /\ m.accept

\* Mutant: the grid is not taken out of the free pool.
OnAckStillFree(c) ==
  LET g == c.plan.grid
      v == c.plan.version
  IN  [c EXCEPT !.table[g]  = [owner |-> c.plan.owner, version |-> v],
                !.latest[g] = v,
                !.over[g]   = [owner |-> c.plan.owner, version |-> v, age |-> 0],
                !.plan      = NoPlan]

\* Mutant: the decision is not remembered as a local override.
OnAckForgotten(c) ==
  LET g == c.plan.grid
      v == c.plan.version
  IN  [c EXCEPT !.table[g]   = [owner |-> c.plan.owner, version |-> v],
                !.latest[g]  = v,
                !.free       = @ \ {g},
                !.freeVer[g] = 0,
                !.plan       = NoPlan]

\* The commit was published; a refusal or a stray ack changes nothing.
OnAck(c) ==
  LET g == c.plan.grid
      v == c.plan.version
  IN  [c EXCEPT !.table[g]   = [owner |-> c.plan.owner, version |-> v],
                !.latest[g]  = v,
                !.free       = @ \ {g},
                !.freeVer[g] = 0,
                !.over[g]    = [owner |-> c.plan.owner, version |-> v, age |-> 0],
                !.plan       = NoPlan]

-----------------------------------------------------------------------------
(* releaseRequestCallback                                                  *)

\* m.versions gives a version for every released grid.
Released(d, c, m) ==
  {g \in m.grids :
     /\ IsLeader(d, c)
     /\ SameView(c, m)
     /\ c.table[g] = [owner |-> m.drone, version |-> m.versions[g]]}


OnRelease(d, c, m) ==
  LET R == Released(d, c, m)
  IN  [c EXCEPT
         !.latest  = [g \in Grid |-> IF g \in R THEN c.table[g].version ELSE @[g]],
         !.table   = [g \in Grid |-> IF g \in R THEN Unowned ELSE @[g]],
         !.free    = @ \cup R,
         !.freeVer = [g \in Grid |-> IF g \in R THEN m.versions[g] ELSE @[g]],
         !.over    = [g \in Grid |->
                        IF g \in R
                        THEN [owner |-> 0, version |-> m.versions[g], age |-> 0]
                        ELSE @[g]]]

-----------------------------------------------------------------------------
(* pendingPlanTimerCallback                                                *)

Expired(a) == a > Timeout

PruneExpiredSnapshots(c) ==
  IF \E s \in Drone : c.snap[s].known /\ Expired(c.snap[s].age)
  THEN Rebuild([c EXCEPT !.snap =
         [s \in Drone |-> IF Expired(@[s].age) THEN NoSnapshot ELSE @[s]]])
  ELSE c

PruneExpiredOverrides(c) ==
  IF \E g \in Grid : HasOverride(c, g) /\ Expired(c.over[g].age)
  THEN Rebuild([c EXCEPT !.over =
         [g \in Grid |-> IF Expired(@[g].age) THEN NoOverride ELSE @[g]]])
  ELSE c

\* The plan's timeout is inclusive, the other two are not.
PlanExpired(c) == c.plan.active /\ c.plan.age >= Timeout

OnTimer(c) ==
  LET pruned == PruneExpiredOverrides(PruneExpiredSnapshots(c))
  IN  IF PlanExpired(pruned) THEN [pruned EXCEPT !.plan = NoPlan] ELSE pruned

\* The timer has something to do.
TimerDue(c) ==
  \/ \E s \in Drone : c.snap[s].known /\ Expired(c.snap[s].age)
  \/ \E g \in Grid : HasOverride(c, g) /\ Expired(c.over[g].age)
  \/ PlanExpired(c)

-----------------------------------------------------------------------------
(* The passing of one tick.                                                *)

Older(a) == IF a < MaxAge THEN a + 1 ELSE MaxAge

AgedSnapshot(s) == IF s.known THEN [s EXCEPT !.age = Older(s.age)] ELSE NoSnapshot
AgedOverride(o) == IF o.version > 0 THEN [o EXCEPT !.age = Older(o.age)] ELSE NoOverride
AgedPlan(p) == IF p.active THEN [p EXCEPT !.age = Older(p.age)] ELSE NoPlan

Aged(c) ==
  [c EXCEPT !.age  = Older(c.age),
            !.snap = [s \in Drone |-> AgedSnapshot(c.snap[s])],
            !.over = [g \in Grid |-> AgedOverride(c.over[g])],
            !.plan = AgedPlan(c.plan)]

-----------------------------------------------------------------------------
(* What every handler of the node must keep.                               *)

\* No grid is at once owned and grantable.
FreeNotOwned(c) == \A g \in c.free : c.table[g].owner = 0

\* latest_owner_versions_ is never behind a version in use.
VersionsCovered(c) ==
  \A g \in Grid : /\ c.table[g].version <= c.latest[g]
                  /\ c.over[g].version  <= c.latest[g]
                  /\ c.freeVer[g]       <= c.latest[g]

\* A recent decision of the coordinator outlives every report against it.
OverrideWins(c) ==
  \A g \in Grid :
    HasOverride(c, g) =>
      IF c.over[g].owner > 0
      THEN /\ g \notin c.free
           /\ c.table[g] = [owner |-> c.over[g].owner, version |-> c.over[g].version]
      ELSE g \in c.free

\* Only a leader has a plan in progress, and the plan names a version: 0 is
\* the mark of none.
PlanIsLeaders(d, c) == c.plan.active => IsLeader(d, c) /\ c.plan.version > 0

Sound(d, c) ==
  FreeNotOwned(c) /\ VersionsCovered(c) /\ OverrideWins(c) /\ PlanIsLeaders(d, c)

=============================================================================
