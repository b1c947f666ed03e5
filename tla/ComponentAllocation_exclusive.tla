-------------------- MODULE ComponentAllocation_exclusive --------------------
(***************************************************************************)
(* No two drones hold the same grid: in a component that stays together,   *)
(* on time, whatever its drones and coordinators do and in whatever order, *)
(* until a second grid is given back.                                      *)
(*                                                                         *)
(* The leader's coordinator gives a grid only if it is free in its pool,   *)
(* and the pool is made of what others report.  So what keeps a grid out   *)
(* of the pool is handed on, from the override that the commit leaves, to  *)
(* the owner's next ComponentState, to the snapshot that the coordinator   *)
(* keeps of it; and each is there before the one before it times out.      *)
(***************************************************************************)
EXTENDS ComponentAllocation_proofs, FiniteSetTheorems, WellFoundedInduction

-----------------------------------------------------------------------------
(* Two facts about orders.                                                 *)

\* Some id is the smallest.
LEMMA MinimumOf ==
  ASSUME NEW S \in SUBSET Drone, S # {}
  PROVE  Minimum(S) \in S /\ Minimum(S) # 0 /\ \A d \in S : Minimum(S) <= d
<1> DEFINE R == OpToRel(<, Nat)
<1>1. IsWellFoundedOn(R, Nat)
  BY NatLessThanWellFounded
<1>2. ASSUME NEW x \in Nat, NEW y \in Nat, <<x, y>> \notin R
      PROVE  y <= x
  BY <1>2 DEF OpToRel
<1> HIDE DEF R
<1>3. S \subseteq Nat
  BY DroneAssumption
<1>4. PICK n \in S : \A y \in S : <<y, n>> \notin R
  BY <1>1, <1>3, WFMin
<1>5. IsMinimum(n, S)
  BY <1>2, <1>3, <1>4 DEF IsMinimum
<1>6. IsMinimum(Minimum(S), S)
  BY <1>5 DEF Minimum
<1> QED
  BY <1>6, DroneFacts DEF IsMinimum

\* rebuildAggregatedState goes through the snapshots it has: if any of them
\* claims the grid, one of the claims wins.
LEMMA WinnerOf ==
  ASSUME IsFiniteSet(Drone), NEW c \in CoordState, NEW g \in Grid,
         NEW d \in Claimants(c, g)
  PROVE  \E s \in Drone : IsWinner(c, g, s)
<1> DEFINE C == Claimants(c, g)
           v(s) == c.snap[s].owned[g].version
           Above(s) == {t \in C : Beats(c, g, t, s)}
           F == {Above(s) : s \in C}
           R == StrictSubsetOrdering(C)
<1>1. C \subseteq Drone /\ IsFiniteSet(C)
  BY FS_Subset DEF Claimants, Current
<1>2. \A s \in C : v(s) \in Nat /\ s \in Nat
  BY <1>1, DroneFacts DEF CoordState, Snapshot, OwnershipRecord
<1>3. \A s, t \in C : Beats(c, g, s, t) <=> v(s) > v(t) \/ (v(s) = v(t) /\ s <= t)
  BY DEF Beats
<1> HIDE DEF v
<1>4. \A s \in C : Beats(c, g, s, s)
  BY <1>2, <1>3
<1>5. \A s, t \in C : Beats(c, g, s, t) \/ Beats(c, g, t, s)
  BY <1>2, <1>3
<1>6. \A s, t, u \in C : Beats(c, g, s, t) /\ Beats(c, g, t, u) => Beats(c, g, s, u)
  BY <1>2, <1>3
<1>7. IsWellFoundedOn(R, FiniteSubsetsOf(C))
  BY FS_StrictSubsetOrderingWellFounded
<1>8. FiniteSubsetsOf(C) = SUBSET C
  BY <1>1, FS_FiniteSubsetsOfFinite
<1>9. F \subseteq SUBSET C /\ F # {}
  OBVIOUS
<1>10. \A T, U \in SUBSET C : U \subseteq T /\ U # T => <<U, T>> \in R
  BY DEF StrictSubsetOrdering
<1> HIDE DEF R, F, C
<1>11. PICK T \in F : \A U \in F : <<U, T>> \notin R
  BY <1>7, <1>8, <1>9, WFMin
<1>12. PICK s \in C : T = Above(s)
  BY <1>11 DEF F
<1>13. ASSUME NEW t \in C PROVE Beats(c, g, s, t)
  <2> SUFFICES ASSUME ~Beats(c, g, s, t) PROVE FALSE
    OBVIOUS
  <2>1. Above(t) \in F /\ Above(t) \subseteq C /\ Above(s) \subseteq C
    BY DEF F
  <2>2. Above(t) \subseteq Above(s)
    BY <1>5, <1>6
  <2>3. s \in Above(s) /\ s \notin Above(t)
    BY <1>4
  <2> QED
    BY <1>10, <1>11, <1>12, <2>1, <2>2, <2>3
<1> QED
  BY <1>1, <1>13 DEF IsWinner, C

-----------------------------------------------------------------------------
(* The invariant.                                                          *)

\* The drone whose coordinator decides, for as long as nobody leaves.
Lead == Minimum(Drone)

\* Every drone is an explorer in the sight of all others, and counts the view
\* of them all as its second.
Together ==
  \A d \in Drone :
    /\ role[d] = Explorer
    /\ members[d] = Drone /\ epoch[d] = 1 /\ leader[d] = Lead
    /\ radio[d].fresh /\ radio[d].explorer
    /\ \A p \in Drone \ {d} : seen[d][p].fresh /\ seen[d][p].explorer

OfView(r) == r.epoch = 1 /\ r.leader = Lead

\* So every snapshot is of that view, on its way or cached; a cached one gets
\* older than a tick only if the next one is about to come.
ViewOf(c) ==
  /\ (coord[c].leader = 0 /\ coord[c].epoch = 0) \/ OfView(coord[c])
  /\ \A s \in Drone :
       /\ state[c][s].known => OfView(state[c][s]) /\ state[c][s].age = 0
       /\ coord[c].snap[s].known =>
            /\ OfView(coord[c].snap[s])
            /\ \/ coord[c].snap[s].age = 0
               \/ coord[c].snap[s].age = 1 /\ (s \in due \/ state[c][s].known)

OneView == \A c \in Coord : ViewOf(c)

\* Until something is given back, what peers and views say of a drone's grids
\* is true, and no owner has been counted twice.
NothingBack(d) ==
  /\ hidden[d] = {}
  /\ radio[d].grids \subseteq grids[d]
  /\ \A p \in Drone \ {d} : seen[p][d].grids \subseteq grids[d]
  /\ \A g \in Grid :
       /\ owners[d][g].version <= 1
       /\ owners[d][g].owner # 0 => g \in grids[owners[d][g].owner]

FirstReturn == releases = 0 => \A d \in Drone : NothingBack(d)

Returns == {m \in net : m.type = "release"}

\* A grid is given when it is held or a commit of it is on its way.
Given(g) ==
  \/ \E d \in Drone : g \in Effective(d)
  \/ \E m \in Decisions : m.grid = g

GivenOnce ==
  /\ Exclusive
  /\ \A m, n \in Decisions : m.grid = n.grid => m = n
  /\ \A m \in Decisions, d \in Drone : m.grid \notin Effective(d)

Planned(c, g) == c.plan.active /\ c.plan.grid = g

\* The coordinator c does not give it again.
Withheld(c, g) ==
  Given(g) => /\ c.leader = Lead
              /\ g \notin c.free
              /\ ~Planned(c, g)
              /\ c.latest[g] > 0

Claimed(s, g) == s.known /\ s.owned[g].owner # 0

\* Why c knows that d holds g: it has just said so; or the snapshot of d does,
\* and so will the next; or it said so in the tick before, and the next
\* snapshot of d, not yet sent or not yet read, will confirm it.
Covered(c, d, g) ==
  LET o == c.over[g]
      s == state[Lead][d]
  IN  /\ o.version > 0 => o.owner = d
      /\ \/ o.version > 0 /\ o.age = 0
         \/ Claimed(c.snap[d], g) /\ (s.known => Claimed(s, g))
         \/ o.version > 0 /\ o.age <= 1 /\ d \in due /\ ~s.known
         \/ o.version > 0 /\ o.age <= 1 /\ Claimed(s, g)

JustGiven(c, m) ==
  /\ m.version > 0
  /\ c.over[m.grid] = [owner |-> m.drone, version |-> m.version, age |-> 0]

\* A version is never used twice: a grid that was given has a version, which
\* the next one counts from.
Counted(c, g) == g \in c.free /\ c.latest[g] > 0 => c.freeVer[g] > 0

\* A release on its way names the first version of the grid.  If the grid has
\* been given since, it was this tick and with a later one.
Outdated(c, m, g) ==
  /\ m.versions[g] = 1
  /\ c.leader = Lead
  /\ c.latest[g] > 0
  /\ Given(g) => c.over[g].version > 1 /\ c.over[g].age = 0
  /\ Planned(c, g) => c.plan.version > 1

GridSafe(c, g) ==
  /\ Withheld(c, g)
  /\ \A d \in Drone : g \in Effective(d) => Covered(c, d, g)
  /\ \A m \in Decisions : m.grid = g => JustGiven(c, m)
  /\ Counted(c, g)
  /\ \A m \in Returns : g \in m.grids => Outdated(c, m, g)

GridsSafe ==
  \A g \in Grid : IF Lead \in Coord THEN GridSafe(coord[Lead], g) ELSE ~Given(g)

FleetInv == Together /\ OneView /\ FirstReturn
GrantInv == GivenOnce /\ GridsSafe
ShareInv == FleetInv /\ GrantInv

-----------------------------------------------------------------------------
(* The fleet stays together.                                               *)

\* What droneStateTimerCallback computes then.
LEMMA FleetView ==
  ASSUME Together, NEW d \in Drone
  PROVE  {a \in Drone : Visible(d, a) /\ Assignable(d, a)} = Drone
BY DEF Together, Visible, Assignable

\* Its record of a grid, with all drones in view.
Recount(d, g) ==
  LET own == Minimum({a \in Drone : g \in Held(d, a)})
  IN  IF own = 0 THEN Unowned
      ELSE [owner   |-> own,
            version |-> IF owners[d][g].owner = 0 THEN 1
                        ELSE IF owners[d][g].owner # own
                             THEN owners[d][g].version + 1
                             ELSE owners[d][g].version]

LEMMA TimerOfFleet ==
  ASSUME TypeOK, Together, NEW d \in Drone, DroneStateTimer(d)
  PROVE  /\ members'[d] = Drone /\ epoch'[d] = 1 /\ leader'[d] = Lead
         /\ \A c \in Coord :
              /\ state'[c][d].known /\ OfView(state'[c][d]) /\ state'[c][d].age = 0
              /\ \A s \in Drone \ {d} : state'[c][s] = state[c][s]
              /\ \A g \in Effective(d) : Claimed(state'[c][d], g)
         /\ \A g \in Grid : owners'[d][g] = Recount(d, g)
         /\ radio'[d] = [grids |-> Effective(d), explorer |-> TRUE, fresh |-> TRUE]
<1> DEFINE mem == {a \in Drone : Visible(d, a) /\ Assignable(d, a)}
           own == [g \in Grid |-> Minimum({a \in mem : g \in Held(d, a)})]
           vers == [g \in Grid |->
                      IF own[g] = 0 THEN Unowned
                      ELSE [owner   |-> own[g],
                            version |-> IF owners[d][g].owner = 0 THEN 1
                                        ELSE IF owners[d][g].owner # own[g]
                                             THEN owners[d][g].version + 1
                                             ELSE owners[d][g].version]]
           ep == IF members[d] \notin {Unknown, mem} THEN epoch[d] + 1 ELSE epoch[d]
           ld == Minimum(mem)
           snap == [known |-> TRUE, epoch |-> ep, leader |-> ld, owned |-> vers,
                    free |-> {g \in Active : own[g] = 0}, age |-> 0]
<1>1. mem = Drone
  BY FleetView
<1>2. members[d] = Drone /\ epoch[d] = 1 /\ role[d] = Explorer
  BY DEF Together
<1>3. /\ members' = [members EXCEPT ![d] = mem]
      /\ epoch' = [epoch EXCEPT ![d] = ep]
      /\ leader' = [leader EXCEPT ![d] = ld]
      /\ owners' = [owners EXCEPT ![d] = vers]
      /\ radio' = [radio EXCEPT ![d] =
                     [grids |-> Effective(d), explorer |-> role[d] = Explorer,
                      fresh |-> TRUE]]
      /\ state' = [c \in Coord |-> [state[c] EXCEPT ![d] = snap]]
  BY DEF DroneStateTimer
<1> HIDE DEF mem
<1>4. ep = 1 /\ ld = Lead
  BY <1>1, <1>2 DEF Lead
<1>5. \A g \in Grid : own[g] = Minimum({a \in Drone : g \in Held(d, a)})
  BY <1>1
<1>6. ASSUME NEW g \in Effective(d) PROVE g \in Grid /\ own[g] # 0
  <2> DEFINE S == {a \in Drone : g \in Held(d, a)}
  <2>1. g \in Grid
    BY <1>2 DEF Effective, TypeOK, Explorer, Relay
  <2>2. d \in S
    BY DEF Held
  <2>3. Minimum(S) # 0
    BY <2>2, MinimumOf
  <2> QED
    BY <1>5, <2>1, <2>3
<1> HIDE DEF own, ep, ld
<1>7. \A g \in Effective(d) : vers[g].owner # 0
  BY <1>6
<1>8. \A c \in Coord : state'[c][d] = snap /\ \A s \in Drone \ {d} : state'[c][s] = state[c][s]
  BY <1>3 DEF TypeOK
<1>9. \A g \in Grid : owners'[d][g] = vers[g]
  BY <1>3 DEF TypeOK
<1>10. /\ members'[d] = Drone /\ epoch'[d] = 1 /\ leader'[d] = Lead
       /\ radio'[d] = [grids |-> Effective(d), explorer |-> TRUE, fresh |-> TRUE]
  BY <1>1, <1>2, <1>3, <1>4 DEF TypeOK
<1>11. snap.known /\ OfView(snap) /\ snap.age = 0 /\ \A g \in Effective(d) : Claimed(snap, g)
  BY <1>4, <1>7 DEF OfView, Claimed
<1>12. \A g \in Grid : owners'[d][g] = Recount(d, g)
  BY <1>5, <1>9 DEF Recount
<1> QED
  BY <1>8, <1>10, <1>11, <1>12

LEMMA TogetherNext ==
  ASSUME MaxCommands = 0, MaxLosses = 0, TypeOK, Together, [Next]_vars
  PROVE  Together'
<1> USE DEF Explorer, Relay
<1>1. ASSUME UNCHANGED <<role, members, epoch, leader, radio, seen>> PROVE Together'
  BY <1>1 DEF Together
<1>2. ASSUME NEW d \in Drone, DroneStateTimer(d) PROVE Together'
  <2>1. UNCHANGED <<role, seen>>
    BY <1>2 DEF DroneStateTimer, droneVars
  <2>2. \A e \in Drone \ {d} : /\ members'[e] = members[e] /\ epoch'[e] = epoch[e]
                               /\ leader'[e] = leader[e] /\ radio'[e] = radio[e]
    BY <1>2 DEF DroneStateTimer, TypeOK
  <2>3. /\ members'[d] = Drone /\ epoch'[d] = 1 /\ leader'[d] = Lead
        /\ radio'[d] = [grids |-> Effective(d), explorer |-> TRUE, fresh |-> TRUE]
    BY <1>2, TimerOfFleet
  <2>4. ASSUME NEW e \in Drone
        PROVE  /\ members'[e] = Drone /\ epoch'[e] = 1 /\ leader'[e] = Lead
               /\ radio'[e].fresh /\ radio'[e].explorer
    <3>1. CASE e = d
      BY <2>3, <3>1
    <3>2. CASE e # d
      BY <2>2, <3>2 DEF Together
    <3> QED
      BY <3>1, <3>2
  <2> QED
    BY <2>1, <2>4 DEF Together
<1>3. ASSUME NEW d \in Drone, NEW p \in Drone, PeerState(d, p) PROVE Together'
  <2>1. /\ UNCHANGED <<role, members, epoch, leader, radio>>
        /\ seen' = [seen EXCEPT ![d][p] = radio[p]]
    BY <1>3 DEF PeerState, viewVars
  <2>2. \A e, q \in Drone : seen'[e][q] \in {seen[e][q], radio[q]}
    BY <2>1 DEF TypeOK
  <2> QED
    BY <2>1, <2>2 DEF Together
<1>4. ASSUME NEW d \in Drone, \/ EnterRelay(d) \/ LeaveRelay(d)
                              \/ \E p \in Drone : PeerLost(d, p)
      PROVE  FALSE
  BY <1>4 DEF EnterRelay, LeaveRelay, PeerLost, TypeOK
<1>5. ASSUME NEW d \in Drone,
             \/ OptTimer(d) \/ \E S \in SUBSET Grid : PlanFailureRelease(d, S) \/ MapInvalidation(d, S)
             \/ \E m \in net : RcvPlan(d, m) \/ RcvCommit(d, m)
      PROVE  Together'
  BY <1>1, <1>5 DEF OptTimer, PlanFailureRelease, MapInvalidation, RcvPlan, RcvCommit,
                    droneVars, viewVars
<1>6. ASSUME CoordUnchanged PROVE Together'
  BY <1>1, <1>6 DEF CoordUnchanged, droneVars, viewVars
<1>7. CASE Tick \/ UNCHANGED vars
  BY <1>1, <1>7 DEF Tick, vars, droneVars, viewVars
<1>8. ASSUME NEW c \in Coord, CoordTimer(c) \/ \E s \in Drone : RcvComponentState(c, s)
      PROVE  Together'
  BY <1>6, <1>8 DEF CoordTimer, RcvComponentState
<1>9. ASSUME NEW m \in net, RcvRequest(m) \/ RcvAck(m) \/ RcvRelease(m) PROVE Together'
  BY <1>6, <1>9 DEF RcvRequest, RcvAck, RcvRelease
<1> QED
  BY <1>2, <1>3, <1>4, <1>5, <1>7, <1>8, <1>9 DEF Next

-----------------------------------------------------------------------------
(* What the handlers of a coordinator do to its view and to its pool.      *)

\* Requests, acks and releases leave the view and the snapshots alone.
LEMMA AnswersView ==
  ASSUME NEW c \in CoordState, NEW d, NEW m, NEW g
  PROVE  /\ OnRequest(c, m, g).leader = c.leader /\ OnAck(c).leader = c.leader
         /\ OnRelease(d, c, m).leader = c.leader
         /\ OnRequest(c, m, g).epoch = c.epoch /\ OnAck(c).epoch = c.epoch
         /\ OnRelease(d, c, m).epoch = c.epoch
         /\ OnRequest(c, m, g).snap = c.snap /\ OnAck(c).snap = c.snap
         /\ OnRelease(d, c, m).snap = c.snap
BY DEF CoordState, OnRequest, OnAck, OnRelease

LEMMA RebuildFrame ==
  ASSUME NEW c \in CoordState
  PROVE  /\ Rebuild(c).leader = c.leader /\ Rebuild(c).epoch = c.epoch
         /\ Rebuild(c).snap = c.snap /\ Rebuild(c).over = c.over
         /\ Rebuild(c).plan = c.plan
BY DEF Rebuild, CoordState

\* componentStateCallback, of a snapshot of the view.
LEMMA ComponentStateInView ==
  ASSUME NEW c \in CoordState, NEW s \in Drone, NEW m \in Snapshot, OfView(m), OfView(c)
  PROVE  \E b \in CoordState :
           /\ OnComponentState(c, s, m) = Rebuild(b)
           /\ OfView(b) /\ b.leader = c.leader
           /\ b.over = c.over /\ b.plan = c.plan /\ b.latest = c.latest
           /\ b.snap = [c.snap EXCEPT ![s] = m]
<1> DEFINE a == IF Authoritative(c, s, m) THEN [c EXCEPT !.age = m.age] ELSE c
           b == [a EXCEPT !.snap[s] = m]
<1>1. m.age \in Age
  BY DEF Snapshot
<1>2. CASE Authoritative(c, s, m)
  <2>1. a = [c EXCEPT !.age = m.age] /\ a \in CoordState
    BY <1>1, <1>2 DEF CoordState
  <2>2. a.leader = c.leader /\ a.epoch = c.epoch /\ a.over = c.over /\ a.plan = c.plan
        /\ a.latest = c.latest /\ a.snap = c.snap
    BY <2>1 DEF CoordState
  <2>3. OnComponentState(c, s, m) = Rebuild(b)
    BY <1>2 DEF OnComponentState, OfView
  <2> HIDE DEF a
  <2>4. b \in CoordState
    BY <2>1 DEF CoordState
  <2>5. b.leader = a.leader /\ b.epoch = a.epoch /\ b.over = a.over /\ b.plan = a.plan
        /\ b.latest = a.latest /\ b.snap = [a.snap EXCEPT ![s] = m]
    BY <2>1 DEF CoordState
  <2> HIDE DEF b
  <2> QED
    BY <2>2, <2>3, <2>4, <2>5 DEF OfView
<1>3. CASE ~Authoritative(c, s, m)
  <2>1. a = c
    BY <1>3
  <2>2. OnComponentState(c, s, m) = Rebuild(b)
    BY <1>3 DEF OnComponentState
  <2>3. b = [c EXCEPT !.snap[s] = m]
    BY <2>1
  <2> HIDE DEF a, b
  <2>4. b \in CoordState
    BY <2>3 DEF CoordState
  <2>5. b.leader = c.leader /\ b.epoch = c.epoch /\ b.over = c.over /\ b.plan = c.plan
        /\ b.latest = c.latest /\ b.snap = [c.snap EXCEPT ![s] = m]
    BY <2>3 DEF CoordState
  <2> QED
    BY <2>2, <2>4, <2>5 DEF OfView
<1> QED
  BY <1>2, <1>3

\* The same of a coordinator without a view, which then may take that one.
LEMMA ComponentStateOfNone ==
  ASSUME NEW c \in CoordState, NEW s \in Drone, NEW m \in Snapshot, OfView(m),
         c.leader = 0, c.epoch = 0
  PROVE  \E b \in CoordState :
           /\ OnComponentState(c, s, m) = Rebuild(b)
           /\ (b.leader = 0 /\ b.epoch = 0) \/ OfView(b)
           /\ b.snap[s] = m
           /\ \A t \in Drone \ {s} : b.snap[t] \in {c.snap[t], NoSnapshot}
<1> DEFINE a == IF Authoritative(c, s, m) THEN EmptyView(m.leader, m.epoch, m.age) ELSE c
           b == [a EXCEPT !.snap[s] = m]
<1>1. m.age \in Age /\ m.leader \in DroneOrNone /\ m.epoch \in Nat
  BY DEF Snapshot
<1>2. OnComponentState(c, s, m) = Rebuild(b)
  BY DEF OnComponentState, OfView
<1>3. /\ a \in CoordState
      /\ (a.leader = 0 /\ a.epoch = 0) \/ OfView(a)
      /\ \A t \in Drone : a.snap[t] \in {c.snap[t], NoSnapshot}
  <2>1. CASE Authoritative(c, s, m)
    <3>1. a = EmptyView(m.leader, m.epoch, m.age)
      BY <2>1
    <3>2. EmptyView(m.leader, m.epoch, m.age) \in CoordState
      BY <1>1, EmptyViewType
    <3> QED
      BY <3>1, <3>2 DEF EmptyView, OfView
  <2>2. CASE ~Authoritative(c, s, m)
    BY <2>2
  <2> QED
    BY <2>1, <2>2
<1> HIDE DEF a
<1>4. b \in CoordState
  BY <1>3 DEF CoordState
<1>5. b.leader = a.leader /\ b.epoch = a.epoch /\ b.snap = [a.snap EXCEPT ![s] = m]
  BY <1>3 DEF CoordState
<1>6. a.snap \in [Drone -> Snapshot]
  BY <1>3 DEF CoordState
<1> HIDE DEF b
<1>7. b.snap[s] = m /\ \A t \in Drone \ {s} : b.snap[t] = a.snap[t]
  BY <1>5, <1>6
<1> QED
  BY <1>2, <1>3, <1>4, <1>5, <1>7 DEF OfView

\* pendingPlanTimerCallback, when no snapshot is too old: overrides may go,
\* and the pool is rebuilt if they do; the plan may go.
LEMMA TimerInView ==
  ASSUME NEW c \in CoordState,
         \A s \in Drone : c.snap[s].known => ~Expired(c.snap[s].age)
  PROVE  \E b \in CoordState, r \in CoordState :
           /\ b.leader = c.leader /\ b.epoch = c.epoch /\ b.snap = c.snap
           /\ b.plan = c.plan /\ b.latest = c.latest
           /\ \A g \in Grid :
                b.over[g] = IF Expired(c.over[g].age) THEN NoOverride ELSE c.over[g]
           /\ r \in {c, Rebuild(b)}
           /\ r = c => \A g \in Grid : HasOverride(c, g) => ~Expired(c.over[g].age)
           /\ OnTimer(c) \in {r, [r EXCEPT !.plan = NoPlan]}
<1> DEFINE b == [c EXCEPT !.over = [g \in Grid |-> IF Expired(c.over[g].age) THEN NoOverride
                                                   ELSE c.over[g]]]
           r == PruneExpiredOverrides(c)
<1>1. NoOverride \in Override
  BY AgeFacts DEF NoOverride, Override, DroneOrNone
<1>2. b \in CoordState
  BY <1>1 DEF CoordState
<1>3. /\ b.leader = c.leader /\ b.epoch = c.epoch /\ b.snap = c.snap
      /\ b.plan = c.plan /\ b.latest = c.latest
      /\ \A g \in Grid :
           b.over[g] = IF Expired(c.over[g].age) THEN NoOverride ELSE c.over[g]
  BY DEF CoordState
<1>4. r = IF \E g \in Grid : HasOverride(c, g) /\ Expired(c.over[g].age)
          THEN Rebuild(b) ELSE c
  BY DEF PruneExpiredOverrides
<1>5. PruneExpiredSnapshots(c) = c
  BY DEF PruneExpiredSnapshots
<1>6. OnTimer(c) \in {r, [r EXCEPT !.plan = NoPlan]}
  BY <1>5 DEF OnTimer
<1> HIDE DEF b, r
<1>7. CASE \E g \in Grid : HasOverride(c, g) /\ Expired(c.over[g].age)
  <2>1. r = Rebuild(b) /\ r \in CoordState
    BY <1>2, <1>4, <1>7, RebuildType
  <2>2. r = c => \A g \in Grid : HasOverride(c, g) => ~Expired(c.over[g].age)
    <3> SUFFICES ASSUME r = c, NEW g \in Grid, HasOverride(c, g), Expired(c.over[g].age)
                 PROVE  FALSE
      OBVIOUS
    <3>1. r.over = b.over
      BY <1>2, <2>1, RebuildFrame
    <3>2. b.over[g] = NoOverride
      BY <1>3
    <3>3. c.over[g] = NoOverride
      BY <3>1, <3>2
    <3> QED
      BY <3>3 DEF HasOverride, NoOverride
  <2> QED
    BY <1>2, <1>3, <1>6, <2>1, <2>2
<1>8. CASE ~ \E g \in Grid : HasOverride(c, g) /\ Expired(c.over[g].age)
  <2>1. r = c
    BY <1>4, <1>8
  <2> QED
    BY <1>2, <1>3, <1>6, <1>8, <2>1
<1> QED
  BY <1>7, <1>8

\* A grid that its owner's snapshot or the coordinator itself says is owned
\* stays out of the pool.
LEMMA RebuildWithholds ==
  ASSUME IsFiniteSet(Drone), NEW b \in CoordState, OfView(b),
         \A s \in Drone : b.snap[s].known => OfView(b.snap[s]),
         NEW g \in Grid, NEW d \in Drone,
         b.over[g].version > 0 => b.over[g].owner = d,
         b.over[g].version > 0 \/ Claimed(b.snap[d], g)
  PROVE  g \notin Rebuild(b).free
<1> SUFFICES g \notin FreeAfterRebuild(b)
  BY DEF Rebuild, CoordState
<1>1. d # 0
  BY DroneFacts
<1>2. CASE HasOverride(b, g)
  BY <1>1, <1>2 DEF HasOverride, FreeAfterRebuild
<1>3. CASE ~HasOverride(b, g)
  <2>1. Claimed(b.snap[d], g)
    BY <1>3 DEF HasOverride
  <2>2. d \in Claimants(b, g)
    BY <1>3, <2>1 DEF Claimants, Current, Claimed, Shadowed, Matches, OfView
  <2>3. PICK s \in Drone : IsWinner(b, g, s)
    BY <2>2, WinnerOf
  <2> DEFINE w == CHOOSE t \in Drone : IsWinner(b, g, t)
  <2>4. IsWinner(b, g, w)
    BY <2>3
  <2>5. b.snap[w].owned[g].owner # 0
    BY <2>4 DEF IsWinner, Claimants
  <2>6. ReportedOwner(b, g) = b.snap[w].owned[g]
    BY <2>3 DEF ReportedOwner
  <2> HIDE DEF w
  <2> QED
    BY <1>3, <2>5, <2>6 DEF FreeAfterRebuild, ReportedFree
<1> QED
  BY <1>2, <1>3

\* The pool knows the version of each grid that ever had one.
LEMMA RebuildCounts ==
  ASSUME NEW b \in CoordState, NEW g \in Grid
  PROVE  /\ Counted(Rebuild(b), g)
         /\ b.latest[g] > 0 => Rebuild(b).latest[g] > 0
<1>1. b.latest[g] \in Nat /\ b.over[g].version \in Nat
  BY DEF CoordState, Override
<1>2. ReportedOwner(b, g).version \in Nat
  BY ReportedOwnerType DEF OwnershipRecord
<1>3. ReportedLatest(b, g) \in Nat /\ b.latest[g] <= ReportedLatest(b, g)
  BY <1>1, <1>2 DEF ReportedLatest, Larger
<1>4. /\ Rebuild(b).latest[g] = Larger(ReportedLatest(b, g), b.over[g].version)
      /\ Rebuild(b).free = FreeAfterRebuild(b)
      /\ Rebuild(b).freeVer[g] =
           IF g \notin FreeAfterRebuild(b) THEN 0
           ELSE IF ReportedFree(b, g)
                THEN Larger(ReportedLatest(b, g), b.over[g].version)
                ELSE b.over[g].version
  BY DEF Rebuild, CoordState
<1>5. b.latest[g] > 0 => Rebuild(b).latest[g] > 0
  BY <1>1, <1>3, <1>4 DEF Larger
<1>6. ASSUME g \in Rebuild(b).free, Rebuild(b).latest[g] > 0
      PROVE  Rebuild(b).freeVer[g] > 0
  <2>1. CASE ReportedFree(b, g)
    BY <1>4, <1>6, <2>1
  <2>2. CASE ~ReportedFree(b, g)
    <3>1. HasOverride(b, g)
      BY <1>4, <1>6, <2>2 DEF FreeAfterRebuild
    <3> QED
      BY <1>4, <1>6, <2>2, <3>1 DEF HasOverride
  <2> QED
    BY <2>1, <2>2
<1> QED
  BY <1>5, <1>6 DEF Counted

-----------------------------------------------------------------------------
(* There is one view.                                                      *)

\* The coordinators that do not move.
LEMMA ViewFrame ==
  ASSUME NEW c \in Coord, ViewOf(c), coord'[c].leader = coord[c].leader,
         coord'[c].epoch = coord[c].epoch, coord'[c].snap = coord[c].snap,
         state'[c] = state[c], due' = due
  PROVE  ViewOf(c)'
BY DEF ViewOf, OfView

LEMMA TimerOneView ==
  ASSUME TypeOK, Together, OneView, NEW d \in Drone, DroneStateTimer(d)
  PROVE  OneView'
<1> SUFFICES ASSUME NEW c \in Coord PROVE ViewOf(c)'
  BY DEF OneView
<1>1. coord' = coord /\ due' = due \ {d}
  BY DEF DroneStateTimer
<1>2. /\ state'[c][d].known /\ OfView(state'[c][d]) /\ state'[c][d].age = 0
      /\ \A s \in Drone \ {d} : state'[c][s] = state[c][s]
  BY TimerOfFleet
<1>3. ViewOf(c)
  BY DEF OneView
<1>4. ASSUME NEW s \in Drone
      PROVE  /\ state'[c][s].known => OfView(state'[c][s]) /\ state'[c][s].age = 0
             /\ coord[c].snap[s].known =>
                  /\ OfView(coord[c].snap[s])
                  /\ \/ coord[c].snap[s].age = 0
                     \/ coord[c].snap[s].age = 1 /\ (s \in due' \/ state'[c][s].known)
  <2>1. CASE s = d
    BY <1>2, <1>3, <2>1 DEF ViewOf
  <2>2. CASE s # d
    BY <1>1, <1>2, <1>3, <2>2 DEF ViewOf
  <2> QED
    BY <2>1, <2>2
<1> QED
  BY <1>1, <1>3, <1>4 DEF ViewOf, OfView

LEMMA ComponentStateOneView ==
  ASSUME TypeOK, OneView, NEW c \in Coord, NEW s \in Drone, RcvComponentState(c, s)
  PROVE  OneView'
<1> DEFINE h == OnComponentState(coord[c], s, state[c][s])
<1>1. /\ coord' = [coord EXCEPT ![c] = h]
      /\ state' = [state EXCEPT ![c][s] = NoSnapshot]
      /\ due' = due /\ state[c][s].known
  BY DEF RcvComponentState, CoordUnchanged, envVars
<1>2. coord[c] \in CoordState /\ state[c][s] \in Snapshot /\ ViewOf(c)
  BY DEF TypeOK, OneView
<1>3. OfView(state[c][s]) /\ state[c][s].age = 0
  BY <1>1, <1>2 DEF ViewOf
<1>4. /\ (h.leader = 0 /\ h.epoch = 0) \/ OfView(h)
      /\ h.snap[s] = state[c][s]
      /\ \A t \in Drone \ {s} : h.snap[t] \in {coord[c].snap[t], NoSnapshot}
  <2>1. CASE OfView(coord[c])
    <3>1. PICK b \in CoordState :
            /\ h = Rebuild(b) /\ OfView(b)
            /\ b.snap = [coord[c].snap EXCEPT ![s] = state[c][s]]
      BY <1>2, <1>3, <2>1, ComponentStateInView
    <3>2. h.leader = b.leader /\ h.epoch = b.epoch /\ h.snap = b.snap
      BY <3>1, RebuildFrame
    <3>3. coord[c].snap \in [Drone -> Snapshot]
      BY <1>2 DEF CoordState
    <3> HIDE DEF h
    <3> QED
      BY <3>1, <3>2, <3>3 DEF OfView
  <2>2. CASE coord[c].leader = 0 /\ coord[c].epoch = 0
    <3>1. PICK b \in CoordState :
            /\ h = Rebuild(b)
            /\ (b.leader = 0 /\ b.epoch = 0) \/ OfView(b)
            /\ b.snap[s] = state[c][s]
            /\ \A t \in Drone \ {s} : b.snap[t] \in {coord[c].snap[t], NoSnapshot}
      BY <1>2, <1>3, <2>2, ComponentStateOfNone
    <3>2. h.leader = b.leader /\ h.epoch = b.epoch /\ h.snap = b.snap
      BY <3>1, RebuildFrame
    <3> HIDE DEF h
    <3> QED
      BY <3>1, <3>2 DEF OfView
  <2> QED
    BY <1>2, <2>1, <2>2 DEF ViewOf
<1> HIDE DEF h
<1>5. /\ coord'[c] = h /\ \A e \in Coord \ {c} : coord'[e] = coord[e] /\ state'[e] = state[e]
      /\ state'[c][s] = NoSnapshot /\ \A t \in Drone \ {s} : state'[c][t] = state[c][t]
  BY <1>1 DEF TypeOK
<1>6. ViewOf(c)'
  <2>1. ASSUME NEW t \in Drone
        PROVE  /\ state'[c][t].known => OfView(state'[c][t]) /\ state'[c][t].age = 0
               /\ h.snap[t].known =>
                    /\ OfView(h.snap[t])
                    /\ \/ h.snap[t].age = 0
                       \/ h.snap[t].age = 1 /\ (t \in due \/ state'[c][t].known)
    <3>1. CASE t = s
      BY <1>3, <1>4, <1>5, <3>1 DEF NoSnapshot
    <3>2. CASE t # s
      <4>1. h.snap[t] \in {coord[c].snap[t], NoSnapshot} /\ state'[c][t] = state[c][t]
        BY <1>4, <1>5, <3>2
      <4> QED
        BY <1>2, <4>1 DEF ViewOf, NoSnapshot
    <3> QED
      BY <3>1, <3>2
  <2> QED
    BY <1>1, <1>4, <1>5, <2>1 DEF ViewOf, OfView
<1>7. ASSUME NEW e \in Coord, e # c PROVE ViewOf(e)'
  BY <1>1, <1>5, <1>7, ViewFrame DEF OneView
<1> QED
  BY <1>6, <1>7 DEF OneView

\* No cached snapshot is ever too old.
LEMMA SnapshotsYoung ==
  ASSUME OneView, NEW c \in Coord, NEW s \in Drone, coord[c].snap[s].known
  PROVE  ~Expired(coord[c].snap[s].age)
BY TimeoutAssumption DEF OneView, ViewOf, Expired

LEMMA CoordTimerOneView ==
  ASSUME TypeOK, OneView, NEW c \in Coord, CoordTimer(c)
  PROVE  OneView'
<1>1. /\ coord' = [coord EXCEPT ![c] = OnTimer(coord[c])]
      /\ state' = state /\ due' = due
  BY DEF CoordTimer, CoordUnchanged, envVars
<1>2. coord[c] \in CoordState
  BY DEF TypeOK
<1>3. PICK b \in CoordState, r \in CoordState :
        /\ b.leader = coord[c].leader /\ b.epoch = coord[c].epoch /\ b.snap = coord[c].snap
        /\ r \in {coord[c], Rebuild(b)}
        /\ OnTimer(coord[c]) \in {r, [r EXCEPT !.plan = NoPlan]}
  BY <1>2, SnapshotsYoung, TimerInView
<1>4. r.leader = coord[c].leader /\ r.epoch = coord[c].epoch /\ r.snap = coord[c].snap
  BY <1>3, RebuildFrame
<1>5. /\ OnTimer(coord[c]).leader = r.leader /\ OnTimer(coord[c]).epoch = r.epoch
      /\ OnTimer(coord[c]).snap = r.snap
  BY <1>3 DEF CoordState
<1>6. \A e \in Coord : coord'[e] = IF e = c THEN OnTimer(coord[c]) ELSE coord[e]
  BY <1>1 DEF TypeOK
<1> SUFFICES ASSUME NEW e \in Coord PROVE ViewOf(e)'
  BY DEF OneView
<1>7. /\ coord'[e].leader = coord[e].leader /\ coord'[e].epoch = coord[e].epoch
      /\ coord'[e].snap = coord[e].snap
  BY <1>4, <1>5, <1>6
<1> QED
  BY <1>1, <1>7, ViewFrame DEF OneView

LEMMA AnswersOneView ==
  ASSUME TypeOK, OneView, NEW m \in net, RcvRequest(m) \/ RcvAck(m) \/ RcvRelease(m)
  PROVE  OneView'
<1>1. state' = state /\ due' = due
  BY DEF RcvRequest, RcvAck, RcvRelease, CoordUnchanged, envVars
<1>2. \/ coord' = coord
      \/ /\ m.leader \in Coord
         /\ \E h \in {OnRequest(coord[m.leader], m, g) : g \in Grid}
                     \cup {OnAck(coord[m.leader]), OnRelease(m.leader, coord[m.leader], m)} :
              coord' = [coord EXCEPT ![m.leader] = h]
  <2>1. CASE RcvRequest(m)
    <3>1. m.leader \in Coord => Grantable(coord[m.leader], m) \subseteq Grid
      BY DEF Grantable, TypeOK, CoordState
    <3> QED
      BY <2>1, <3>1 DEF RcvRequest
  <2>2. CASE RcvAck(m) \/ RcvRelease(m)
    BY <2>2 DEF RcvAck, RcvRelease
  <2> QED
    BY <2>1, <2>2
<1> SUFFICES ASSUME NEW e \in Coord PROVE ViewOf(e)'
  BY DEF OneView
<1>3. coord[e] \in CoordState
  BY DEF TypeOK
<1>4. /\ coord'[e].leader = coord[e].leader /\ coord'[e].epoch = coord[e].epoch
      /\ coord'[e].snap = coord[e].snap
  <2>1. CASE coord' = coord
    BY <2>1
  <2>2. CASE m.leader \in Coord /\ coord' # coord
    <3>1. PICK h \in {OnRequest(coord[m.leader], m, g) : g \in Grid}
                     \cup {OnAck(coord[m.leader]), OnRelease(m.leader, coord[m.leader], m)} :
            coord' = [coord EXCEPT ![m.leader] = h]
      BY <1>2, <2>2
    <3>2. coord'[e] = IF e = m.leader THEN h ELSE coord[e]
      BY <3>1 DEF TypeOK
    <3> QED
      BY <1>3, <3>2, AnswersView
  <2> QED
    BY <1>2, <2>1, <2>2
<1> QED
  BY <1>1, <1>4, ViewFrame DEF OneView

LEMMA TickOneView ==
  ASSUME Timely, TypeOK, OneView, Tick
  PROVE  OneView'
<1>1. /\ coord' = [c \in Coord |-> Aged(coord[c])] /\ due' = Drone
      /\ state' = [c \in Coord |-> [s \in Drone |-> AgedSnapshot(state[c][s])]]
      /\ due = {} /\ \A c \in Coord, s \in Drone : ~state[c][s].known
  BY DEF Tick, OnTime
<1> SUFFICES ASSUME NEW c \in Coord PROVE ViewOf(c)'
  BY DEF OneView
<1>2. coord[c] \in CoordState /\ ViewOf(c)
  BY DEF TypeOK, OneView
<1>3. Aged(coord[c]).leader = coord[c].leader /\ Aged(coord[c]).epoch = coord[c].epoch
      /\ Aged(coord[c]).snap = [s \in Drone |-> AgedSnapshot(coord[c].snap[s])]
  BY <1>2 DEF Aged, CoordState
<1>4. ASSUME NEW s \in Drone
      PROVE  /\ ~state'[c][s].known
             /\ Aged(coord[c]).snap[s].known =>
                  OfView(Aged(coord[c]).snap[s]) /\ Aged(coord[c]).snap[s].age = 1
  <2>1. state'[c][s] = NoSnapshot
    BY <1>1 DEF AgedSnapshot
  <2>2. Aged(coord[c]).snap[s] = AgedSnapshot(coord[c].snap[s])
    BY <1>3
  <2>3. coord[c].snap[s] \in Snapshot
    BY <1>2 DEF CoordState
  <2>4. ASSUME coord[c].snap[s].known
        PROVE  /\ OfView(AgedSnapshot(coord[c].snap[s]))
               /\ AgedSnapshot(coord[c].snap[s]).age = 1
    <3>1. OfView(coord[c].snap[s]) /\ coord[c].snap[s].age = 0
      BY <1>1, <1>2, <2>4 DEF ViewOf
    <3>2. Older(0) = 1
      BY TimeoutAssumption DEF Older, MaxAge
    <3> QED
      BY <2>3, <2>4, <3>1, <3>2 DEF AgedSnapshot, Snapshot, OfView
  <2>5. ~coord[c].snap[s].known => ~AgedSnapshot(coord[c].snap[s]).known
    BY DEF AgedSnapshot, NoSnapshot
  <2> QED
    BY <2>1, <2>2, <2>4, <2>5 DEF NoSnapshot
<1>5. coord'[c] = Aged(coord[c])
  BY <1>1
<1> QED
  BY <1>1, <1>2, <1>3, <1>4, <1>5 DEF ViewOf, OfView

LEMMA OneViewNext ==
  ASSUME Timely, TypeOK, Together, OneView, [Next]_vars
  PROVE  OneView'
<1>1. ASSUME UNCHANGED <<coord, state, due>> PROVE OneView'
  BY <1>1 DEF OneView, ViewOf, OfView
<1>2. ASSUME NEW d \in Drone,
             \/ OptTimer(d) \/ EnterRelay(d) \/ LeaveRelay(d)
             \/ \E p \in Drone : PeerState(d, p) \/ PeerLost(d, p)
             \/ \E S \in SUBSET Grid : PlanFailureRelease(d, S) \/ MapInvalidation(d, S)
             \/ \E m \in net : RcvPlan(d, m) \/ RcvCommit(d, m)
      PROVE  OneView'
  BY <1>1, <1>2 DEF OptTimer, EnterRelay, LeaveRelay, PeerState, PeerLost,
                    PlanFailureRelease, MapInvalidation, RcvPlan, RcvCommit, envVars
<1>3. CASE UNCHANGED vars
  BY <1>1, <1>3 DEF vars, envVars
<1> QED
  BY <1>2, <1>3, TimerOneView, ComponentStateOneView, CoordTimerOneView, AnswersOneView,
     TickOneView DEF Next

-----------------------------------------------------------------------------
(* Until something is given back.                                          *)

\* What an explorer holds, and what is still told of it.
LEMMA HeldFacts ==
  ASSUME TypeOK, Together, NEW d \in Drone
  PROVE  /\ Effective(d) = grids[d] \ hidden[d] /\ Effective(d) \subseteq Grid
         /\ Held(d, d) = Effective(d)
         /\ \A a \in Drone \ {d} : Held(d, a) = seen[d][a].grids
BY DEF Effective, Held, Together, TypeOK, Explorer, Relay

LEMMA TimerFirstReturn ==
  ASSUME TypeOK, Together, Exclusive, FirstReturn, NEW d \in Drone, DroneStateTimer(d)
  PROVE  FirstReturn'
<1> SUFFICES ASSUME releases' = 0, NEW e \in Drone PROVE NothingBack(e)'
  BY DEF FirstReturn
<1>1. UNCHANGED <<role, grids, hidden, seen, releases>>
  BY DEF DroneStateTimer, droneVars
<1>2. \A a \in Drone : NothingBack(a)
  BY <1>1 DEF FirstReturn
<1>3. ASSUME NEW a \in Drone PROVE Effective(a) = grids[a]
  <2>1. Effective(a) = grids[a] \ hidden[a]
    BY HeldFacts
  <2>2. hidden[a] = {}
    BY <1>2 DEF NothingBack
  <2> QED
    BY <2>1, <2>2
<1>4. CASE e # d
  <2>1. radio'[e] = radio[e] /\ owners'[e] = owners[e]
    BY <1>4 DEF DroneStateTimer, TypeOK
  <2> QED
    BY <1>1, <1>2, <2>1 DEF NothingBack
<1>5. CASE e = d
  <2>1. radio'[d].grids = grids[d]
    <3>1. radio'[d] = [grids |-> Effective(d), explorer |-> TRUE, fresh |-> TRUE]
      BY TimerOfFleet
    <3> QED
      BY <1>3, <3>1
  <2>2. ASSUME NEW g \in Grid
        PROVE  /\ owners'[d][g].version <= 1
               /\ owners'[d][g].owner # 0 => g \in grids[owners'[d][g].owner]
    <3> DEFINE S == {a \in Drone : g \in Held(d, a)}
               own == Minimum(S)
    <3>1. owners'[d][g] = Recount(d, g)
      BY TimerOfFleet
    <3>2. \A a \in S : g \in grids[a]
      <4> SUFFICES ASSUME NEW a \in S PROVE g \in grids[a]
        OBVIOUS
      <4>1. CASE a = d
        BY <1>3, <4>1, HeldFacts
      <4>2. CASE a # d
        BY <1>2, <4>2, HeldFacts DEF NothingBack
      <4> QED
        BY <4>1, <4>2
    <3>3. own = 0 \/ own \in S
      BY MinimumOf DEF Minimum, IsMinimum
    <3>4. CASE own = 0
      <4>1. owners'[d][g] = Unowned
        BY <3>1, <3>4 DEF Recount
      <4> QED
        BY <4>1 DEF Unowned
    <3>5. CASE own # 0
      <4>1. g \in grids[own] /\ own \in Drone
        BY <3>2, <3>3, <3>5
      <4> DEFINE o == owners[d][g]
      <4>2. o.version <= 1 /\ (o.owner # 0 => g \in grids[o.owner])
            /\ o.owner \in Drone \cup {0}
        BY <1>2 DEF NothingBack, TypeOK, OwnershipRecord, DroneOrNone
      <4>3. o.owner # 0 => o.owner = own
        BY <1>3, <4>1, <4>2 DEF Exclusive
      <4>4. owners'[d][g] = [owner |-> own,
                             version |-> IF o.owner = 0 THEN 1 ELSE o.version]
        BY <3>1, <3>5, <4>3 DEF Recount
      <4> HIDE DEF own, o
      <4> QED
        BY <4>1, <4>2, <4>4
    <3> QED
      BY <3>4, <3>5
  <2> QED
    BY <1>1, <1>2, <1>5, <2>1, <2>2 DEF NothingBack
<1> QED
  BY <1>4, <1>5

LEMMA FirstReturnNext ==
  ASSUME MaxCommands = 0, MaxLosses = 0, TypeOK, Together, Exclusive, FirstReturn,
         [Next]_vars
  PROVE  FirstReturn'
<1>1. ASSUME UNCHANGED <<grids, hidden, radio, seen, owners, releases>> PROVE FirstReturn'
  BY <1>1 DEF FirstReturn, NothingBack
<1>2. ASSUME NEW d \in Drone, NEW p \in Drone, PeerState(d, p) PROVE FirstReturn'
  <2>1. /\ UNCHANGED <<grids, hidden, radio, owners, releases>>
        /\ seen' = [seen EXCEPT ![d][p] = radio[p]]
    BY <1>2 DEF PeerState, viewVars, envVars
  <2>2. \A e, q \in Drone : seen'[e][q] \in {seen[e][q], radio[q]}
    BY <2>1 DEF TypeOK
  <2> QED
    BY <2>1, <2>2 DEF FirstReturn, NothingBack
<1>3. ASSUME NEW d \in Drone, NEW S \in SUBSET Grid,
             PlanFailureRelease(d, S) \/ MapInvalidation(d, S)
      PROVE  FirstReturn'
  <2>1. releases' = releases + 1 /\ releases \in Nat
    BY <1>3 DEF PlanFailureRelease, MapInvalidation, TypeOK
  <2> QED
    BY <2>1 DEF FirstReturn
<1>4. ASSUME NEW d \in Drone, NEW m \in net, RcvCommit(d, m) PROVE FirstReturn'
  <2>1. UNCHANGED <<radio, seen, owners, releases>>
    BY <1>4 DEF RcvCommit, viewVars, envVars
  <2>2. ASSUME NEW e \in Drone
        PROVE  grids[e] \subseteq grids'[e] /\ hidden'[e] \subseteq hidden[e]
    <3>1. /\ grids \in [Drone -> SUBSET Grid] /\ hidden \in [Drone -> SUBSET Grid]
          /\ \/ UNCHANGED <<grids, hidden>>
             \/ /\ grids' = [grids EXCEPT ![d] = @ \cup {m.grid}]
                /\ hidden' = [hidden EXCEPT ![d] = @ \ {m.grid}]
      BY <1>4 DEF RcvCommit, TypeOK
    <3> QED
      BY <3>1
  <2> SUFFICES ASSUME releases = 0, NEW e \in Drone PROVE NothingBack(e)'
    BY <2>1 DEF FirstReturn
  <2>3. NothingBack(e)
    BY DEF FirstReturn
  <2>4. ASSUME NEW g \in Grid, owners[e][g].owner # 0
        PROVE  g \in grids'[owners[e][g].owner]
    <3>1. owners[e][g].owner \in Drone
      BY <2>4 DEF TypeOK, OwnershipRecord, DroneOrNone
    <3> QED
      BY <2>2, <2>3, <2>4, <3>1 DEF NothingBack
  <2> QED
    BY <2>1, <2>2, <2>3, <2>4 DEF NothingBack
<1>5. ASSUME NEW d \in Drone, \/ EnterRelay(d) \/ LeaveRelay(d)
                              \/ \E p \in Drone : PeerLost(d, p)
      PROVE  FALSE
  BY <1>5 DEF EnterRelay, LeaveRelay, PeerLost, TypeOK
<1>6. ASSUME NEW d \in Drone, OptTimer(d) \/ \E m \in net : RcvPlan(d, m)
      PROVE  FirstReturn'
  BY <1>1, <1>6 DEF OptTimer, RcvPlan, droneVars, viewVars, envVars
<1>7. ASSUME CoordUnchanged PROVE FirstReturn'
  BY <1>1, <1>7 DEF CoordUnchanged, droneVars, viewVars, envVars
<1>8. CASE Tick \/ UNCHANGED vars
  BY <1>1, <1>8 DEF Tick, vars, droneVars, viewVars, envVars
<1>9. ASSUME NEW c \in Coord, CoordTimer(c) \/ \E s \in Drone : RcvComponentState(c, s)
      PROVE  FirstReturn'
  BY <1>7, <1>9 DEF CoordTimer, RcvComponentState
<1>10. ASSUME NEW m \in net, RcvRequest(m) \/ RcvAck(m) \/ RcvRelease(m) PROVE FirstReturn'
  BY <1>7, <1>10 DEF RcvRequest, RcvAck, RcvRelease
<1> QED
  BY <1>2, <1>3, <1>4, <1>5, <1>6, <1>8, <1>9, <1>10, TimerFirstReturn DEF Next

-----------------------------------------------------------------------------
(* What the participants do to the grids.                                  *)

\* Nothing is given.
NoneGiven ==
  /\ \A d \in Drone : Effective(d)' \subseteq Effective(d)
  /\ Decisions' \subseteq Decisions

LEMMA GivenFrame ==
  ASSUME NoneGiven
  PROVE  /\ GivenOnce => GivenOnce'
         /\ \A g : Given(g)' => Given(g)
<1>1. GivenOnce => GivenOnce'
  BY DEF NoneGiven, GivenOnce, Exclusive
<1>2. \A g : Given(g)' => Given(g)
  BY DEF NoneGiven, Given
<1> QED
  BY <1>1, <1>2

LEMMA GrantFrame ==
  ASSUME GrantInv, NoneGiven, Returns' \subseteq Returns, due' = due,
         Lead \in Coord => coord'[Lead] = coord[Lead] /\ state'[Lead] = state[Lead]
  PROVE  GrantInv'
<1>1. GivenOnce' /\ \A g : Given(g)' => Given(g)
  BY GivenFrame DEF GrantInv
<1> SUFFICES ASSUME NEW g \in Grid
             PROVE  IF Lead \in Coord THEN GridSafe(coord[Lead], g)' ELSE ~Given(g)'
  BY <1>1 DEF GrantInv, GridsSafe
<1>2. CASE Lead \notin Coord
  BY <1>1, <1>2 DEF GrantInv, GridsSafe
<1>3. CASE Lead \in Coord
  <2> DEFINE c == coord[Lead]
  <2>1. GridSafe(c, g)
    BY <1>3 DEF GrantInv, GridsSafe
  <2>2. Withheld(coord[Lead], g)'
    BY <1>1, <1>3, <2>1 DEF GridSafe, Withheld, Planned
  <2>3. \A d \in Drone : g \in Effective(d)' => Covered(coord[Lead], d, g)'
    BY <1>3, <2>1 DEF GridSafe, NoneGiven, Covered, Claimed
  <2>4. \A m \in Decisions' : m.grid = g => JustGiven(coord[Lead], m)'
    BY <1>3, <2>1 DEF GridSafe, NoneGiven, JustGiven
  <2>5. Counted(coord[Lead], g)'
    BY <1>3, <2>1 DEF GridSafe, Counted
  <2>6. \A m \in Returns' : g \in m.grids => Outdated(coord[Lead], m, g)'
    BY <1>1, <1>3, <2>1 DEF GridSafe, Outdated, Planned
  <2> QED
    BY <1>3, <2>2, <2>3, <2>4, <2>5, <2>6 DEF GridSafe
<1> QED
  BY <1>2, <1>3

\* droneStateTimerCallback: the drone confirms what it holds.
LEMMA TimerGrants ==
  ASSUME TypeOK, Together, GrantInv, NEW d \in Drone, DroneStateTimer(d)
  PROVE  GrantInv'
<1>1. UNCHANGED <<role, grids, hidden, coord, net>> /\ due' = due \ {d}
  BY DEF DroneStateTimer, droneVars
<1>2. (\A e \in Drone : Effective(e)' = Effective(e)) /\ Decisions' = Decisions /\ Returns' = Returns
  BY <1>1 DEF Effective, Decisions, Returns
<1>3. GivenOnce' /\ \A g : Given(g)' => Given(g)
  BY <1>2, GivenFrame DEF GrantInv, NoneGiven
<1> SUFFICES ASSUME NEW g \in Grid
             PROVE  IF Lead \in Coord THEN GridSafe(coord[Lead], g)' ELSE ~Given(g)'
  BY <1>3 DEF GrantInv, GridsSafe
<1>4. CASE Lead \notin Coord
  BY <1>3, <1>4 DEF GrantInv, GridsSafe
<1>5. CASE Lead \in Coord
  <2>1. GridSafe(coord[Lead], g)
    BY <1>5 DEF GrantInv, GridsSafe
  <2>2. Withheld(coord[Lead], g)'
    BY <1>1, <1>3, <2>1 DEF GridSafe, Withheld, Planned
  <2>3. ASSUME NEW e \in Drone, g \in Effective(e)' PROVE Covered(coord[Lead], e, g)'
    <3>1. Covered(coord[Lead], e, g)
      BY <1>2, <2>1, <2>3 DEF GridSafe
    <3>2. CASE e = d
      <4>1. \A c \in Coord : \A k \in Effective(d) : Claimed(state'[c][d], k)
        BY TimerOfFleet
      <4>2. g \in Effective(d)
        BY <1>2, <2>3, <3>2
      <4>3. Claimed(state'[Lead][d], g)
        BY <1>5, <4>1, <4>2
      <4> QED
        BY <1>1, <3>1, <3>2, <4>3 DEF Covered, Claimed
    <3>3. CASE e # d
      <4>0. \A c \in Coord : \A k \in Drone \ {d} : state'[c][k] = state[c][k]
        BY TimerOfFleet
      <4>1. state'[Lead][e] = state[Lead][e]
        BY <1>5, <3>3, <4>0
      <4>2. e \in due' <=> e \in due
        BY <1>1, <3>3
      <4> QED
        BY <1>1, <3>1, <4>1, <4>2 DEF Covered, Claimed
    <3> QED
      BY <3>2, <3>3
  <2>4. \A m \in Decisions' : m.grid = g => JustGiven(coord[Lead], m)'
    BY <1>1, <1>2, <2>1 DEF GridSafe, JustGiven
  <2>5. Counted(coord[Lead], g)'
    BY <1>1, <2>1 DEF GridSafe, Counted
  <2>6. \A m \in Returns' : g \in m.grids => Outdated(coord[Lead], m, g)'
    BY <1>1, <1>2, <1>3, <2>1 DEF GridSafe, Outdated, Planned
  <2> QED
    BY <1>5, <2>2, <2>3, <2>4, <2>5, <2>6 DEF GridSafe
<1> QED
  BY <1>4, <1>5

\* A callback that only adds requests and acks to what is on its way.
LEMMA TrafficOnly ==
  ASSUME \A m \in net' : m \in net \/ m.type \in {"request", "ack"}
  PROVE  Decisions' \subseteq Decisions /\ Returns' \subseteq Returns
BY DEF Decisions, Returns

LEMMA PublishAdds ==
  ASSUME NEW d, NEW rec, NEW cl, NEW staged, NEW sent,
         PublishRequest(d, rec, cl, staged, sent)
  PROVE  \A m \in net' : m \in sent \/ m.type = "request"
BY DEF PublishRequest, Request

LEMMA ClaimAdds ==
  ASSUME NEW d, NEW share, NEW sent, ClaimShare(d, share, sent)
  PROVE  \A m \in net' : m \in sent \/ m.type = "request"
BY PublishAdds DEF ClaimShare

LEMMA QuietGrants ==
  ASSUME TypeOK, GrantInv, NEW d \in Drone,
         \/ OptTimer(d) \/ \E p \in Drone : PeerState(d, p)
         \/ \E m \in net : RcvPlan(d, m)
  PROVE  GrantInv'
<1>1. UNCHANGED <<role, grids, hidden, coord, state, due>>
  BY DEF OptTimer, PeerState, RcvPlan, droneVars, envVars
<1>2. \A m \in net' : m \in net \/ m.type \in {"request", "ack"}
  <2>1. CASE OptTimer(d)
    BY <2>1, ClaimAdds DEF OptTimer
  <2>2. CASE \E p \in Drone : PeerState(d, p)
    BY <2>2, ClaimAdds DEF PeerState
  <2>3. CASE \E m \in net : RcvPlan(d, m)
    BY <2>3 DEF RcvPlan, Rest, Ack
  <2> QED
    BY <2>1, <2>2, <2>3
<1>3. NoneGiven /\ Returns' \subseteq Returns
  BY <1>1, <1>2, TrafficOnly DEF NoneGiven, Effective
<1> QED
  BY <1>1, <1>3, GrantFrame

\* assignmentCommitCallback: what was given is held.
LEMMA RcvCommitGrants ==
  ASSUME TypeOK, Together, GrantInv, NEW d \in Drone, NEW m \in net, RcvCommit(d, m)
  PROVE  GrantInv'
<1>1. UNCHANGED <<role, coord, state, due>> /\ m.drone = d /\ m \in Decisions
  BY DEF RcvCommit, envVars, Decisions
<1>2. \A n \in net' : n \in Rest(m) \/ n.type = "request"
  <2>1. \/ net' = Rest(m)
        \/ PublishRequest(d, recover[d] \ {m.grid}, claim[d] \ {m.grid}, FALSE, Rest(m))
    BY DEF RcvCommit
  <2> QED
    BY <2>1, PublishAdds
<1>3. Decisions' \subseteq Decisions \ {m} /\ Returns' \subseteq Returns
  BY <1>2 DEF Decisions, Returns, Rest
<1>4. CASE UNCHANGED <<grids, hidden>>
  <2>1. NoneGiven
    BY <1>1, <1>3, <1>4 DEF NoneGiven, Effective
  <2> QED
    BY <1>1, <1>3, <2>1, GrantFrame
<1>5. CASE /\ grids' = [grids EXCEPT ![d] = @ \cup {m.grid}]
           /\ hidden' = [hidden EXCEPT ![d] = @ \ {m.grid}]
  <2> DEFINE h == m.grid
  <2>1. /\ Effective(d)' \subseteq Effective(d) \cup {h}
        /\ \A e \in Drone \ {d} : Effective(e)' = Effective(e)
    BY <1>1, <1>5 DEF Effective, TypeOK
  <2>2. GivenOnce
    BY DEF GrantInv
  <2>3. \A e \in Drone : h \notin Effective(e)
    BY <1>1, <2>2 DEF GivenOnce
  <2>4. \A n \in Decisions' : n \in Decisions /\ n.grid # h
    BY <1>1, <1>3, <2>2 DEF GivenOnce
  <2>5. GivenOnce'
    <3>1. Exclusive'
      BY <2>1, <2>2, <2>3 DEF GivenOnce, Exclusive
    <3>2. \A n \in Decisions', e \in Drone : n.grid \notin Effective(e)'
      BY <2>1, <2>2, <2>4 DEF GivenOnce
    <3>3. \A n, k \in Decisions' : n.grid = k.grid => n = k
      BY <2>2, <2>4 DEF GivenOnce
    <3> QED
      BY <3>1, <3>2, <3>3 DEF GivenOnce
  <2>6. \A g : Given(g)' => Given(g)
    BY <1>1, <2>1, <2>4 DEF Given
  <2> SUFFICES ASSUME NEW g \in Grid
               PROVE  IF Lead \in Coord THEN GridSafe(coord[Lead], g)' ELSE ~Given(g)'
    BY <2>5 DEF GrantInv, GridsSafe
  <2>7. CASE Lead \notin Coord
    BY <2>6, <2>7 DEF GrantInv, GridsSafe
  <2>8. CASE Lead \in Coord
    <3>1. GridSafe(coord[Lead], g)
      BY <2>8 DEF GrantInv, GridsSafe
    <3>2. Withheld(coord[Lead], g)'
      BY <1>1, <2>6, <3>1 DEF GridSafe, Withheld, Planned
    <3>3. ASSUME NEW e \in Drone, g \in Effective(e)' PROVE Covered(coord[Lead], e, g)'
      <4>1. Covered(coord[Lead], e, g)
        <5>1. CASE g \in Effective(e)
          BY <3>1, <5>1 DEF GridSafe
        <5>2. CASE g \notin Effective(e)
          <6>1. e = d /\ g = h
            BY <2>1, <3>3, <5>2
          <6>2. JustGiven(coord[Lead], m)
            BY <1>1, <3>1, <6>1 DEF GridSafe
          <6> QED
            BY <1>1, <6>1, <6>2 DEF JustGiven, Covered
        <5> QED
          BY <5>1, <5>2
      <4> QED
        BY <1>1, <4>1 DEF Covered, Claimed
    <3>4. \A n \in Decisions' : n.grid = g => JustGiven(coord[Lead], n)'
      BY <1>1, <2>4, <3>1 DEF GridSafe, JustGiven
    <3>5. Counted(coord[Lead], g)'
      BY <1>1, <3>1 DEF GridSafe, Counted
    <3>6. \A n \in Returns' : g \in n.grids => Outdated(coord[Lead], n, g)'
      BY <1>1, <1>3, <2>6, <3>1 DEF GridSafe, Outdated, Planned
    <3> QED
      BY <2>8, <3>2, <3>3, <3>4, <3>5, <3>6 DEF GridSafe
  <2> QED
    BY <2>7, <2>8
<1> QED
  BY <1>4, <1>5 DEF RcvCommit

\* planningFailure and handleRemoteMapUpdate: something is given back.
LEMMA ReleaseGrants ==
  ASSUME MaxReleases \in {0, 1}, TypeOK, Together, FirstReturn, GrantInv,
         NEW d \in Drone, NEW S \in SUBSET Grid,
         PlanFailureRelease(d, S) \/ MapInvalidation(d, S)
  PROVE  GrantInv'
<1>1. /\ UNCHANGED <<role, grids, coord, state, due>>
      /\ hidden' = [hidden EXCEPT ![d] = @ \cup S]
      /\ S \subseteq Effective(d) /\ releases < MaxReleases
  BY DEF PlanFailureRelease, MapInvalidation, viewVars
<1>2. releases = 0
  BY <1>1 DEF TypeOK
<1>3. \A n \in net' : n \in net \/ n.type = "request" \/ n = Release(d, S)
  <2>1. CASE PlanFailureRelease(d, S)
    BY <2>1 DEF PlanFailureRelease
  <2>2. CASE MapInvalidation(d, S)
    <3> DEFINE sent == net \cup ReleaseSent(d, S)
    <3>1. \A n \in net' : n \in sent \/ n.type = "request"
      BY <2>2, ClaimAdds DEF MapInvalidation
    <3>2. \A n \in sent : n \in net \/ n = Release(d, S)
      BY DEF ReleaseSent
    <3> HIDE DEF sent
    <3> QED
      BY <3>1, <3>2
  <2> QED
    BY <2>1, <2>2
<1>4. Decisions' \subseteq Decisions /\ \A n \in Returns' : n \in Returns \/ n = Release(d, S)
  BY <1>3 DEF Decisions, Returns, Release
<1>5. /\ Effective(d)' = Effective(d) \ S
      /\ \A e \in Drone \ {d} : Effective(e)' = Effective(e)
  BY <1>1 DEF Effective, TypeOK
<1>6. NoneGiven
  BY <1>4, <1>5 DEF NoneGiven
<1>7. GivenOnce /\ GivenOnce' /\ \A g : Given(g)' => Given(g)
  BY <1>6, GivenFrame DEF GrantInv
<1>8. ASSUME NEW g \in S PROVE Given(g) /\ ~Given(g)'
  <2>1. Given(g)
    BY <1>1 DEF Given
  <2>2. \A e \in Drone : g \notin Effective(e)'
    BY <1>1, <1>5, <1>7 DEF GivenOnce, Exclusive
  <2>3. \A n \in Decisions' : n.grid # g
    BY <1>1, <1>4, <1>7 DEF GivenOnce
  <2> QED
    BY <2>1, <2>2, <2>3 DEF Given
<1>9. \A g \in Grid : Release(d, S).versions[g] = 1
  <2>1. ASSUME NEW g \in Grid
        PROVE  owners[d][g].version <= 1 /\ owners[d][g].version \in Nat
    BY <1>2 DEF FirstReturn, NothingBack, TypeOK, OwnershipRecord
  <2> QED
    BY <2>1 DEF Release
<1> SUFFICES ASSUME NEW g \in Grid
             PROVE  IF Lead \in Coord THEN GridSafe(coord[Lead], g)' ELSE ~Given(g)'
  BY <1>7 DEF GrantInv, GridsSafe
<1>10. CASE Lead \notin Coord
  BY <1>7, <1>10 DEF GrantInv, GridsSafe
<1>11. CASE Lead \in Coord
  <2>1. GridSafe(coord[Lead], g)
    BY <1>11 DEF GrantInv, GridsSafe
  <2>2. Withheld(coord[Lead], g)'
    BY <1>1, <1>7, <2>1 DEF GridSafe, Withheld, Planned
  <2>3. \A e \in Drone : g \in Effective(e)' => Covered(coord[Lead], e, g)'
    BY <1>1, <1>6, <2>1 DEF GridSafe, NoneGiven, Covered, Claimed
  <2>4. \A n \in Decisions' : n.grid = g => JustGiven(coord[Lead], n)'
    BY <1>1, <1>4, <2>1 DEF GridSafe, JustGiven
  <2>5. Counted(coord[Lead], g)'
    BY <1>1, <2>1 DEF GridSafe, Counted
  <2>6. ASSUME NEW n \in Returns', g \in n.grids PROVE Outdated(coord[Lead], n, g)'
    <3>1. CASE n \in Returns
      BY <1>1, <1>7, <2>1, <2>6, <3>1 DEF GridSafe, Outdated, Planned
    <3>2. CASE n = Release(d, S)
      <4>1. g \in S
        BY <2>6, <3>2 DEF Release
      <4>2. Given(g) /\ ~Given(g)'
        BY <1>8, <4>1
      <4>3. Withheld(coord[Lead], g)
        BY <2>1 DEF GridSafe
      <4> QED
        BY <1>1, <1>9, <3>2, <4>2, <4>3 DEF Withheld, Outdated, Planned
    <3> QED
      BY <1>4, <2>6, <3>1, <3>2
  <2> QED
    BY <1>11, <2>2, <2>3, <2>4, <2>5, <2>6 DEF GridSafe
<1> QED
  BY <1>10, <1>11

-----------------------------------------------------------------------------
(* What the coordinators do to the grids.                                  *)

\* Nothing of a participant changes, so what is given does not, except by a
\* commit.
LEMMA CoordFrame ==
  ASSUME CoordUnchanged, Decisions' \subseteq Decisions
  PROVE  NoneGiven
BY DEF CoordUnchanged, droneVars, NoneGiven, Effective

\* Another coordinator than the leader's.
LEMMA OtherCoordinator ==
  ASSUME GrantInv, CoordUnchanged, Decisions' \subseteq Decisions, Returns' \subseteq Returns,
         Lead \in Coord => coord'[Lead] = coord[Lead] /\ state'[Lead] = state[Lead]
  PROVE  GrantInv'
<1>1. NoneGiven /\ due' = due
  BY CoordFrame DEF CoordUnchanged, envVars
<1> QED
  BY <1>1, GrantFrame

\* What the leader's coordinator must establish.
LEMMA LeadStep ==
  ASSUME GrantInv, Lead \in Coord, CoordUnchanged, Decisions' \subseteq Decisions,
         \A g \in Grid : GridSafe(coord[Lead], g)'
  PROVE  GrantInv'
<1>1. GivenOnce'
  BY CoordFrame, GivenFrame DEF GrantInv
<1> QED
  BY <1>1 DEF GrantInv, GridsSafe

\* A coordinator without a view has given nothing.
LEMMA NothingYet ==
  ASSUME Lead \in Coord, GrantInv, NEW g \in Grid, coord[Lead].leader = 0
  PROVE  ~Given(g) /\ \A m \in Returns : g \notin m.grids
<1>1. Lead # 0
  BY CoordAssumption, DroneFacts
<1>2. GridSafe(coord[Lead], g)
  BY DEF GrantInv, GridsSafe
<1> QED
  BY <1>1, <1>2 DEF GridSafe, Withheld, Outdated

\* componentStateCallback.
LEMMA ComponentStateGrants ==
  ASSUME IsFiniteSet(Drone), TypeOK, OneView, GrantInv,
         NEW e \in Coord, NEW s \in Drone, RcvComponentState(e, s)
  PROVE  GrantInv'
<1>1. /\ CoordUnchanged /\ net' = net /\ due' = due
      /\ coord' = [coord EXCEPT ![e] = OnComponentState(@, s, state[e][s])]
      /\ state' = [state EXCEPT ![e][s] = NoSnapshot]
      /\ state[e][s].known
  BY DEF RcvComponentState, CoordUnchanged, envVars
<1>2. Decisions' = Decisions /\ Returns' = Returns
  BY <1>1 DEF Decisions, Returns
<1>3. CASE e # Lead
  <2>1. Lead \in Coord => coord'[Lead] = coord[Lead] /\ state'[Lead] = state[Lead]
    BY <1>1, <1>3 DEF TypeOK
  <2> QED
    BY <1>1, <1>2, <2>1, OtherCoordinator
<1>4. CASE e = Lead
  <2> DEFINE h == OnComponentState(coord[Lead], s, state[Lead][s])
  <2>1. /\ coord[Lead] \in CoordState /\ state[Lead][s] \in Snapshot /\ ViewOf(Lead)
        /\ Lead \in Coord
    BY <1>4 DEF TypeOK, OneView
  <2>2. coord'[Lead] = h /\ state'[Lead] = [state[Lead] EXCEPT ![s] = NoSnapshot]
    BY <1>1, <1>4 DEF TypeOK
  <2>3. state[Lead][s].known /\ OfView(state[Lead][s])
    BY <1>1, <1>4, <2>1 DEF ViewOf
  <2>4. \A t \in Drone : state'[Lead][t] = IF t = s THEN NoSnapshot ELSE state[Lead][t]
    <3>1. state[Lead] \in [Drone -> Snapshot]
      BY <2>1 DEF TypeOK
    <3> QED
      BY <2>2, <3>1
  <2> SUFFICES ASSUME NEW g \in Grid PROVE GridSafe(coord[Lead], g)'
    BY <1>1, <1>2, <2>1, LeadStep
  <2>5. Given(g)' => Given(g)
    BY <1>1, <1>2, CoordFrame, GivenFrame
  <2>6. \A d \in Drone : Effective(d)' = Effective(d)
    BY <1>1 DEF CoordUnchanged, droneVars, Effective
  <2>7. CASE coord[Lead].leader = 0 /\ coord[Lead].epoch = 0
    <3>1. ~Given(g) /\ \A m \in Returns : g \notin m.grids
      BY <2>1, <2>7, NothingYet
    <3>2. PICK b \in CoordState : h = Rebuild(b)
      BY <2>1, <2>3, <2>7, ComponentStateOfNone
    <3>3. Counted(h, g)
      BY <3>2, RebuildCounts
    <3> HIDE DEF h
    <3>4. Counted(coord[Lead], g)'
      BY <2>2, <3>3 DEF Counted
    <3>5. ~Given(g)' /\ \A m \in Returns' : g \notin m.grids
      BY <1>2, <2>5, <3>1
    <3>6. (\A d \in Drone : g \notin Effective(d)') /\ \A m \in Decisions' : m.grid # g
      BY <3>5 DEF Given
    <3> QED
      BY <3>4, <3>5, <3>6 DEF GridSafe, Withheld
  <2>8. CASE OfView(coord[Lead])
    <3>1. PICK b \in CoordState :
            /\ h = Rebuild(b)
            /\ OfView(b) /\ b.leader = coord[Lead].leader
            /\ b.over = coord[Lead].over /\ b.plan = coord[Lead].plan
            /\ b.latest = coord[Lead].latest
            /\ b.snap = [coord[Lead].snap EXCEPT ![s] = state[Lead][s]]
      BY <2>1, <2>3, <2>8, ComponentStateInView
    <3>2. /\ h.leader = coord[Lead].leader /\ h.over = coord[Lead].over
          /\ h.plan = coord[Lead].plan /\ h.snap = b.snap
      BY <3>1, RebuildFrame
    <3>3. \A t \in Drone :
            b.snap[t] = IF t = s THEN state[Lead][s] ELSE coord[Lead].snap[t]
      BY <2>1, <3>1 DEF CoordState
    <3>4. \A t \in Drone : b.snap[t].known => OfView(b.snap[t])
      BY <2>1, <2>3, <3>3 DEF ViewOf
    <3>5. Counted(h, g) /\ (coord[Lead].latest[g] > 0 => h.latest[g] > 0)
      BY <3>1, RebuildCounts
    <3>6. GridSafe(coord[Lead], g)
      BY <2>1 DEF GrantInv, GridsSafe
    <3> HIDE DEF h
    <3>7. ASSUME NEW d \in Drone, g \in Effective(d)' PROVE Covered(coord[Lead], d, g)'
      <4>1. Covered(coord[Lead], d, g)
        BY <2>6, <3>6, <3>7 DEF GridSafe
      <4>2. coord'[Lead].over = coord[Lead].over
            /\ coord'[Lead].snap[d] = IF d = s THEN state[Lead][s] ELSE coord[Lead].snap[d]
        BY <2>2, <3>2, <3>3
      <4>3. CASE d = s
        BY <1>1, <2>3, <2>4, <4>1, <4>2, <4>3 DEF Covered, Claimed, NoSnapshot
      <4>4. CASE d # s
        BY <1>1, <2>4, <4>1, <4>2, <4>4 DEF Covered, Claimed
      <4> QED
        BY <4>3, <4>4
    <3>8. \A m \in Decisions' : m.grid = g => JustGiven(coord[Lead], m)'
      BY <1>2, <2>2, <3>2, <3>6 DEF GridSafe, JustGiven
    <3>9. Given(g)' => g \notin h.free
      <4>1. ASSUME NEW d \in Drone, g \in Effective(d)' PROVE g \notin h.free
        <5>1. Covered(coord[Lead], d, g)
          BY <2>6, <3>6, <4>1 DEF GridSafe
        <5>2. /\ b.over[g].version > 0 => b.over[g].owner = d
              /\ b.over[g].version > 0 \/ Claimed(b.snap[d], g)
          BY <2>3, <3>1, <3>3, <5>1 DEF Covered, Claimed
        <5> QED
          BY <3>1, <3>4, <5>2, RebuildWithholds
      <4>2. ASSUME NEW m \in Decisions', m.grid = g PROVE g \notin h.free
        <5>1. JustGiven(coord[Lead], m) /\ m.drone \in Drone
          <6>1. m \in GrantMsg
            BY <1>2, <4>2, MessageKinds DEF Decisions, TypeOK
          <6> QED
            BY <1>2, <3>6, <4>2, <6>1 DEF GridSafe, GrantMsg
        <5>2. b.over[g].version > 0 /\ b.over[g].owner = m.drone
          BY <3>1, <4>2, <5>1 DEF JustGiven
        <5> QED
          BY <3>1, <3>4, <5>1, <5>2, RebuildWithholds
      <4> QED
        BY <4>1, <4>2 DEF Given
    <3>10. Withheld(coord[Lead], g)'
      BY <2>2, <2>5, <3>2, <3>5, <3>6, <3>9 DEF GridSafe, Withheld, Planned
    <3>11. Counted(coord[Lead], g)'
      BY <2>2, <3>5 DEF Counted
    <3>12. \A m \in Returns' : g \in m.grids => Outdated(coord[Lead], m, g)'
      BY <1>2, <2>2, <2>5, <3>2, <3>5, <3>6 DEF GridSafe, Outdated, Planned
    <3> QED
      BY <3>7, <3>8, <3>10, <3>11, <3>12 DEF GridSafe
  <2> QED
    BY <2>1, <2>7, <2>8 DEF ViewOf
<1> QED
  BY <1>3, <1>4

\* pendingPlanTimerCallback: an override that goes has been confirmed.
LEMMA CoordTimerGrants ==
  ASSUME IsFiniteSet(Drone), TypeOK, OneView, GrantInv, NEW e \in Coord, CoordTimer(e)
  PROVE  GrantInv'
<1>1. /\ CoordUnchanged /\ net' = net /\ due' = due /\ state' = state
      /\ coord' = [coord EXCEPT ![e] = OnTimer(@)]
  BY DEF CoordTimer, CoordUnchanged, envVars
<1>2. Decisions' = Decisions /\ Returns' = Returns
  BY <1>1 DEF Decisions, Returns
<1>3. CASE e # Lead
  <2>1. Lead \in Coord => coord'[Lead] = coord[Lead] /\ state'[Lead] = state[Lead]
    BY <1>1, <1>3 DEF TypeOK
  <2> QED
    BY <1>1, <1>2, <2>1, OtherCoordinator
<1>4. CASE e = Lead
  <2> DEFINE c == coord[Lead]
             h == OnTimer(c)
  <2>1. c \in CoordState /\ ViewOf(Lead) /\ Lead \in Coord
    BY <1>4 DEF TypeOK, OneView
  <2>2. coord'[Lead] = h
    BY <1>1, <1>4 DEF TypeOK
  <2>3. \A s \in Drone : c.snap[s].known => ~Expired(c.snap[s].age)
    BY <2>1, SnapshotsYoung
  <2>4. PICK b \in CoordState, r \in CoordState :
          /\ b.leader = c.leader /\ b.epoch = c.epoch /\ b.snap = c.snap
          /\ b.plan = c.plan /\ b.latest = c.latest
          /\ \A g \in Grid :
               b.over[g] = IF Expired(c.over[g].age) THEN NoOverride ELSE c.over[g]
          /\ r \in {c, Rebuild(b)}
          /\ h \in {r, [r EXCEPT !.plan = NoPlan]}
    BY <2>1, <2>3, TimerInView
  <2> HIDE DEF h
  <2>5. /\ h.leader = r.leader /\ h.snap = r.snap /\ h.over = r.over
        /\ h.free = r.free /\ h.freeVer = r.freeVer /\ h.latest = r.latest
        /\ h.plan \in {r.plan, NoPlan}
    BY <2>4 DEF CoordState
  <2> SUFFICES ASSUME NEW g \in Grid PROVE GridSafe(coord[Lead], g)'
    BY <1>1, <1>2, <2>1, LeadStep
  <2>6. GridSafe(c, g)
    BY <2>1 DEF GrantInv, GridsSafe
  <2>7. r.leader = c.leader /\ r.snap = c.snap /\ r.plan = c.plan
    BY <2>4, RebuildFrame
  <2>8. /\ Given(g)' => Given(g)
        /\ \A d \in Drone : Effective(d)' = Effective(d)
    BY <1>1, <1>2, CoordFrame, GivenFrame DEF CoordUnchanged, droneVars, Effective
  <2>9. \/ r.over[g] = c.over[g]
        \/ Expired(c.over[g].age) /\ r.over[g] = NoOverride
    BY <2>4, RebuildFrame
  <2>10. /\ ~Expired(0) /\ \A a \in Age : a <= 1 => ~Expired(a)
         /\ c.over[g].age \in Age
    BY <2>1, TimeoutAssumption DEF Expired, CoordState, Override, Age
  <2>11. c.latest[g] > 0 => r.latest[g] > 0
    BY <2>4, RebuildCounts
  <2>12. Counted(r, g)
    BY <2>4, <2>6, RebuildCounts DEF GridSafe
  <2>13. ASSUME NEW d \in Drone, g \in Effective(d)
         PROVE  /\ Covered(c, d, g) /\ Covered(r, d, g)
                /\ r.over[g].version > 0 \/ Claimed(r.snap[d], g)
    <3>1. Covered(c, d, g)
      BY <2>6, <2>13 DEF GridSafe
    <3>2. CASE r.over[g] = c.over[g]
      BY <2>7, <3>1, <3>2 DEF Covered
    <3>3. CASE Expired(c.over[g].age) /\ r.over[g] = NoOverride
      <4>1. Claimed(c.snap[d], g) /\ (state[Lead][d].known => Claimed(state[Lead][d], g))
        BY <2>10, <3>1, <3>3 DEF Covered
      <4> QED
        BY <2>7, <3>1, <3>3, <4>1 DEF Covered, NoOverride
    <3> QED
      BY <2>9, <3>2, <3>3
  <2>14. \A m \in Decisions : m.grid = g => JustGiven(r, m)
    BY <2>6, <2>9, <2>10 DEF GridSafe, JustGiven
  <2>15. Given(g) => g \notin r.free
    <3>1. CASE r = c
      BY <2>6, <3>1 DEF GridSafe, Withheld
    <3>2. CASE r = Rebuild(b) /\ OfView(c)
      <4>1. OfView(b) /\ \A s \in Drone : b.snap[s].known => OfView(b.snap[s])
        BY <2>1, <2>4, <3>2 DEF OfView, ViewOf
      <4>2. b.over = r.over /\ b.snap = r.snap
        BY <3>2, RebuildFrame
      <4>3. ASSUME NEW d \in Drone, g \in Effective(d) PROVE g \notin r.free
        <5>1. Covered(r, d, g) /\ (r.over[g].version > 0 \/ Claimed(r.snap[d], g))
          BY <2>13, <4>3
        <5>2. r.over[g].version > 0 => r.over[g].owner = d
          BY <5>1 DEF Covered
        <5> QED
          BY <3>2, <4>1, <4>2, <5>1, <5>2, RebuildWithholds
      <4>4. ASSUME NEW m \in Decisions, m.grid = g PROVE g \notin r.free
        <5>1. m \in GrantMsg
          BY <4>4, MessageKinds DEF Decisions, TypeOK
        <5>2. JustGiven(r, m) /\ m.drone \in Drone
          BY <2>14, <4>4, <5>1 DEF GrantMsg
        <5>3. r.over[g].version > 0 /\ r.over[g].owner = m.drone
          BY <4>4, <5>2 DEF JustGiven
        <5> QED
          BY <3>2, <4>1, <4>2, <5>2, <5>3, RebuildWithholds
      <4> QED
        BY <4>3, <4>4 DEF Given
    <3>3. CASE c.leader = 0
      BY <2>1, <3>3, NothingYet
    <3> QED
      BY <2>1, <2>4, <3>1, <3>2, <3>3 DEF ViewOf
  <2>16. Withheld(coord[Lead], g)'
    BY <2>2, <2>5, <2>6, <2>7, <2>8, <2>11, <2>15 DEF GridSafe, Withheld, Planned, NoPlan
  <2>17. ASSUME NEW d \in Drone, g \in Effective(d)' PROVE Covered(coord[Lead], d, g)'
    <3>1. Covered(r, d, g)
      BY <2>8, <2>13, <2>17
    <3> QED
      BY <1>1, <2>2, <2>5, <3>1 DEF Covered
  <2>18. \A m \in Decisions' : m.grid = g => JustGiven(coord[Lead], m)'
    BY <1>2, <2>2, <2>5, <2>14 DEF JustGiven
  <2>19. Counted(coord[Lead], g)'
    BY <2>2, <2>5, <2>12 DEF Counted
  <2>20. ASSUME NEW m \in Returns', g \in m.grids PROVE Outdated(coord[Lead], m, g)'
    <3>1. Outdated(c, m, g)
      BY <1>2, <2>6, <2>20 DEF GridSafe
    <3>2. Given(g) => r.over[g] = c.over[g]
      BY <2>9, <2>10, <3>1 DEF Outdated
    <3>3. Planned(h, g) => Planned(c, g) /\ h.plan = c.plan
      BY <2>5, <2>7 DEF Planned, NoPlan
    <3> QED
      BY <2>2, <2>5, <2>7, <2>8, <2>11, <3>1, <3>2, <3>3 DEF Outdated, Planned
  <2> QED
    BY <2>16, <2>17, <2>18, <2>19, <2>20 DEF GridSafe
<1> QED
  BY <1>3, <1>4

\* allocationRequestCallback: what is planned was free.
LEMMA RcvRequestGrants ==
  ASSUME TypeOK, GrantInv, NEW m \in net, RcvRequest(m)
  PROVE  GrantInv'
<1>1. CoordUnchanged /\ state' = state /\ due' = due
  BY DEF RcvRequest, CoordUnchanged, envVars
<1>2. Decisions' \subseteq Decisions /\ Returns' \subseteq Returns
  BY DEF RcvRequest, Rest, Answer, Decisions, Returns
<1>3. CASE Lead \in Coord => coord'[Lead] = coord[Lead]
  BY <1>1, <1>2, <1>3, OtherCoordinator
<1>4. CASE ~(Lead \in Coord => coord'[Lead] = coord[Lead])
  <2> DEFINE c == coord[Lead]
  <2>1. Lead \in Coord /\ c \in CoordState
    BY <1>4 DEF TypeOK
  <2>2. /\ m.leader = Lead /\ CanPlan(Lead, c, m)
        /\ \E h \in Grantable(c, m) : coord'[Lead] = OnRequest(c, m, h)
    <3>1. coord' # coord
      BY <1>4
    <3>2. /\ m.leader \in Coord /\ CanPlan(m.leader, coord[m.leader], m)
          /\ \E h \in Grantable(coord[m.leader], m) :
               coord' = [coord EXCEPT ![m.leader] = OnRequest(@, m, h)]
      BY <3>1 DEF RcvRequest
    <3>3. m.leader = Lead
      BY <1>4, <2>1, <3>2
    <3> QED
      BY <2>1, <3>2, <3>3 DEF TypeOK
  <2>3. PICK h \in Grantable(c, m) : coord'[Lead] = OnRequest(c, m, h)
    BY <2>2
  <2>4. h \in c.free /\ c.leader = Lead
    BY <2>2 DEF Grantable, CanPlan, IsLeader
  <2>5. /\ coord'[Lead].leader = c.leader /\ coord'[Lead].snap = c.snap
        /\ coord'[Lead].over = c.over /\ coord'[Lead].free = c.free
        /\ coord'[Lead].freeVer = c.freeVer /\ coord'[Lead].latest = c.latest
        /\ coord'[Lead].plan.grid = h /\ coord'[Lead].plan.version = c.freeVer[h] + 1
    BY <2>1, <2>3 DEF OnRequest, PlanFor, CoordState
  <2> SUFFICES ASSUME NEW g \in Grid PROVE GridSafe(coord[Lead], g)'
    BY <1>1, <1>2, <2>1, LeadStep
  <2>6. GridSafe(c, g)
    BY <2>1 DEF GrantInv, GridsSafe
  <2>7. /\ Given(g)' => Given(g)
        /\ \A d \in Drone : Effective(d)' = Effective(d)
    BY <1>1, <1>2, CoordFrame, GivenFrame DEF CoordUnchanged, droneVars, Effective
  <2>8. Given(g) => g # h
    BY <2>4, <2>6 DEF GridSafe, Withheld
  <2>9. Withheld(coord[Lead], g)'
    BY <2>5, <2>6, <2>7, <2>8 DEF GridSafe, Withheld, Planned
  <2>10. \A d \in Drone : g \in Effective(d)' => Covered(coord[Lead], d, g)'
    BY <1>1, <2>5, <2>6, <2>7 DEF GridSafe, Covered, Claimed
  <2>11. \A n \in Decisions' : n.grid = g => JustGiven(coord[Lead], n)'
    BY <1>2, <2>5, <2>6 DEF GridSafe, JustGiven
  <2>12. Counted(coord[Lead], g)'
    BY <2>5, <2>6 DEF GridSafe, Counted
  <2>13. ASSUME NEW n \in Returns', g \in n.grids PROVE Outdated(coord[Lead], n, g)'
    <3>1. Outdated(c, n, g)
      BY <1>2, <2>6, <2>13 DEF GridSafe
    <3>2. ASSUME g = h PROVE c.freeVer[h] + 1 > 1
      <4>1. c.latest[g] > 0 /\ Counted(c, g) /\ c.freeVer[g] \in Nat
        BY <2>1, <2>6, <3>1 DEF Outdated, GridSafe, CoordState
      <4> QED
        BY <2>4, <3>2, <4>1 DEF Counted
    <3> QED
      BY <2>5, <2>7, <3>1, <3>2 DEF Outdated, Planned
  <2> QED
    BY <2>9, <2>10, <2>11, <2>12, <2>13 DEF GridSafe
<1> QED
  BY <1>3, <1>4

\* assignmentAckCallback: the only step that gives a grid.
LEMMA RcvAckGrants ==
  ASSUME TableInv, OneView, GrantInv, NEW m \in net, RcvAck(m)
  PROVE  GrantInv'
<1>1. CoordUnchanged /\ state' = state /\ due' = due
  BY DEF RcvAck, CoordUnchanged, envVars
<1>2. CASE /\ m.leader \in Coord => ~AckFits(m.leader, coord[m.leader], m)
           /\ net' = Rest(m) /\ UNCHANGED coord
  <2>1. Decisions' \subseteq Decisions /\ Returns' \subseteq Returns
    BY <1>2 DEF Rest, Decisions, Returns
  <2> QED
    BY <1>1, <1>2, <2>1, OtherCoordinator
<1>3. CASE /\ m.leader \in Coord
           /\ AckFits(m.leader, coord[m.leader], m)
           /\ coord' = [coord EXCEPT ![m.leader] = OnAck(@)]
           /\ net' = Rest(m) \cup {Answer("commit", m.leader, coord[m.leader].plan)}
  <2> DEFINE c == coord[Lead]
             k == c.plan.grid
             n == Answer("commit", Lead, c.plan)
  <2>1. m.leader = Lead
    <3>1. ViewOf(m.leader) /\ coord[m.leader].leader = m.leader /\ m.leader \in Drone
      BY <1>3, CoordAssumption DEF OneView, AckFits, IsLeader
    <3> QED
      BY <3>1, DroneFacts DEF ViewOf, OfView
  <2>2. /\ Lead \in Coord /\ c \in CoordState /\ Sound(Lead, c) /\ TypeOK
        /\ c.plan.active /\ c.leader = Lead /\ c.plan.version > 0
        /\ k = m.grid /\ m \in AckMsg
    <3>1. Lead \in Coord /\ c \in CoordState /\ Sound(Lead, c) /\ TypeOK
      BY <1>3, <2>1, TableFacts DEF TableInv
    <3>2. m \in AckMsg
      BY <3>1, MessageKinds DEF RcvAck, TypeOK
    <3> QED
      BY <1>3, <2>1, <3>1, <3>2 DEF AckFits, IsLeader, Sound, PlanIsLeaders
  <2>3. k \in Grid
    BY <2>2 DEF AckMsg
  <2>4. coord'[Lead] = OnAck(c)
    BY <1>3, <2>1, <2>2 DEF TypeOK
  <2>5. /\ coord'[Lead].leader = c.leader /\ coord'[Lead].snap = c.snap
        /\ coord'[Lead].free = c.free \ {k} /\ coord'[Lead].plan = NoPlan
        /\ coord'[Lead].over[k] =
             [owner |-> c.plan.owner, version |-> c.plan.version, age |-> 0]
        /\ coord'[Lead].latest[k] = c.plan.version
        /\ \A g \in Grid \ {k} : /\ coord'[Lead].over[g] = c.over[g]
                                 /\ coord'[Lead].latest[g] = c.latest[g]
                                 /\ coord'[Lead].freeVer[g] = c.freeVer[g]
    BY <2>2, <2>3, <2>4 DEF OnAck, CoordState
  <2>6. /\ \A x \in Decisions' : x \in Decisions \/ x = n
        /\ Returns' \subseteq Returns
        /\ n.grid = k /\ n.drone = c.plan.owner /\ n.version = c.plan.version
    BY <1>3, <2>1 DEF Rest, Decisions, Returns, Answer
  <2>7. \A d \in Drone : Effective(d)' = Effective(d)
    BY <1>1 DEF CoordUnchanged, droneVars, Effective
  <2>8. \A g \in Grid : GridSafe(c, g)
    BY <2>2 DEF GrantInv, GridsSafe
  <2>9. ~Given(k)
    <3>1. Withheld(c, k)
      BY <2>3, <2>8 DEF GridSafe
    <3> QED
      BY <2>2, <3>1 DEF Withheld, Planned
  <2>10. (\A d \in Drone : k \notin Effective(d)) /\ \A x \in Decisions : x.grid # k
    BY <2>9 DEF Given
  <2> HIDE DEF n
  <2>11. GivenOnce'
    <3>1. GivenOnce
      BY DEF GrantInv
    <3>2. Exclusive'
      BY <2>7, <3>1 DEF GivenOnce, Exclusive
    <3>3. \A x, y \in Decisions' : x.grid = y.grid => x = y
      BY <2>6, <2>10, <3>1 DEF GivenOnce
    <3>4. \A x \in Decisions', d \in Drone : x.grid \notin Effective(d)'
      BY <2>6, <2>7, <2>10, <3>1 DEF GivenOnce
    <3> QED
      BY <3>2, <3>3, <3>4 DEF GivenOnce
  <2>12. \A g : Given(g)' => Given(g) \/ g = k
    BY <2>6, <2>7 DEF Given
  <2>13. ASSUME NEW g \in Grid PROVE GridSafe(coord[Lead], g)'
    <3>1. GridSafe(c, g)
      BY <2>8
    <3>2. CASE g = k
      <4>1. Withheld(coord[Lead], g)' /\ Counted(coord[Lead], g)'
        BY <2>2, <2>5, <3>2 DEF Withheld, Planned, NoPlan, Counted
      <4>2. \A d \in Drone : g \notin Effective(d)'
        BY <2>7, <2>10, <3>2
      <4>3. \A x \in Decisions' : x.grid = g => JustGiven(coord[Lead], x)'
        BY <2>2, <2>5, <2>6, <2>10, <3>2 DEF JustGiven
      <4>4. ASSUME NEW x \in Returns', g \in x.grids PROVE Outdated(coord[Lead], x, g)'
        <5>1. Outdated(c, x, g)
          BY <2>6, <3>1, <4>4 DEF GridSafe
        <5>2. c.plan.version > 1
          BY <2>2, <3>2, <5>1 DEF Outdated, Planned
        <5> QED
          BY <2>2, <2>5, <3>2, <5>1, <5>2 DEF Outdated, Planned, NoPlan
      <4> QED
        BY <4>1, <4>2, <4>3, <4>4 DEF GridSafe
    <3>3. CASE g # k
      <4>1. Withheld(coord[Lead], g)' /\ Counted(coord[Lead], g)'
        BY <2>2, <2>5, <2>12, <3>1, <3>3 DEF GridSafe, Withheld, Planned, NoPlan, Counted
      <4>2. ASSUME NEW d \in Drone, g \in Effective(d)' PROVE Covered(coord[Lead], d, g)'
        <5>1. Covered(c, d, g)
          BY <2>7, <3>1, <4>2 DEF GridSafe
        <5>2. coord'[Lead].over[g] = c.over[g] /\ coord'[Lead].snap = c.snap
          BY <2>5, <3>3
        <5> QED
          BY <1>1, <5>1, <5>2 DEF Covered, Claimed
      <4>3. \A x \in Decisions' : x.grid = g => JustGiven(coord[Lead], x)'
        BY <2>5, <2>6, <3>1, <3>3 DEF GridSafe, JustGiven
      <4>4. ASSUME NEW x \in Returns', g \in x.grids PROVE Outdated(coord[Lead], x, g)'
        <5>1. Outdated(c, x, g)
          BY <2>6, <3>1, <4>4 DEF GridSafe
        <5> QED
          BY <2>5, <2>12, <3>3, <5>1 DEF Outdated, Planned, NoPlan
      <4> QED
        BY <4>1, <4>2, <4>3, <4>4 DEF GridSafe
    <3> QED
      BY <3>2, <3>3
  <2> QED
    BY <2>2, <2>11, <2>13 DEF GrantInv, GridsSafe
<1> QED
  BY <1>2, <1>3 DEF RcvAck

\* releaseRequestCallback: a release that has been overtaken by a new grant
\* does not name its version.
LEMMA RcvReleaseGrants ==
  ASSUME TableInv, GrantInv, NEW m \in net, RcvRelease(m)
  PROVE  GrantInv'
<1>1. CoordUnchanged /\ state' = state /\ due' = due
  BY DEF RcvRelease, CoordUnchanged, envVars
<1>2. Decisions' \subseteq Decisions /\ Returns' \subseteq Returns /\ m \in Returns
  BY DEF RcvRelease, Rest, Decisions, Returns
<1>3. CASE Lead \in Coord => coord'[Lead] = coord[Lead]
  BY <1>1, <1>2, <1>3, OtherCoordinator
<1>4. CASE ~(Lead \in Coord => coord'[Lead] = coord[Lead])
  <2> DEFINE c == coord[Lead]
             R == Released(Lead, c, m)
  <2>1. Lead \in Coord /\ c \in CoordState /\ Sound(Lead, c) /\ TypeOK
    BY <1>4, TableFacts DEF TableInv
  <2>2. m.leader = Lead /\ coord'[Lead] = OnRelease(Lead, c, m)
    BY <1>4, <2>1 DEF RcvRelease, TypeOK
  <2>3. /\ coord'[Lead].leader = c.leader /\ coord'[Lead].snap = c.snap
        /\ coord'[Lead].plan = c.plan /\ coord'[Lead].free = c.free \cup R
        /\ \A g \in Grid : IF g \in R
             THEN /\ coord'[Lead].latest[g] = c.table[g].version
                  /\ coord'[Lead].freeVer[g] = m.versions[g]
             ELSE /\ coord'[Lead].latest[g] = c.latest[g]
                  /\ coord'[Lead].freeVer[g] = c.freeVer[g]
                  /\ coord'[Lead].over[g] = c.over[g]
    BY <2>1, <2>2 DEF OnRelease, CoordState
  <2> SUFFICES ASSUME NEW g \in Grid PROVE GridSafe(coord[Lead], g)'
    BY <1>1, <1>2, <2>1, LeadStep
  <2>4. GridSafe(c, g)
    BY <2>1 DEF GrantInv, GridsSafe
  <2>5. /\ Given(g)' => Given(g)
        /\ \A d \in Drone : Effective(d)' = Effective(d)
    BY <1>1, <1>2, CoordFrame, GivenFrame DEF CoordUnchanged, droneVars, Effective
  <2>6. ASSUME g \in R
        PROVE  m.versions[g] = 1 /\ c.table[g].version = 1 /\ ~Given(g)
    <3>1. g \in m.grids /\ c.table[g] = [owner |-> m.drone, version |-> m.versions[g]]
      BY <2>6 DEF Released
    <3>2. Outdated(c, m, g)
      BY <1>2, <2>4, <3>1 DEF GridSafe
    <3>3. m.versions[g] = 1 /\ c.table[g].version = 1
      BY <3>1, <3>2 DEF Outdated
    <3>4. ASSUME Given(g) PROVE FALSE
      <4>1. c.over[g].version > 1 /\ c.over[g].version \in Nat
            /\ c.over[g].owner \in DroneOrNone
        BY <2>1, <3>2, <3>4 DEF Outdated, CoordState, Override
      <4>2. HasOverride(c, g) /\ OverrideWins(c)
        BY <2>1, <4>1 DEF HasOverride, Sound
      <4>3. CASE c.over[g].owner > 0
        <5>1. c.table[g] = [owner |-> c.over[g].owner, version |-> c.over[g].version]
          BY <4>2, <4>3 DEF OverrideWins
        <5> QED
          BY <3>3, <4>1, <5>1
      <4>4. CASE ~(c.over[g].owner > 0)
        <5>1. g \in c.free
          BY <4>2, <4>4 DEF OverrideWins
        <5> QED
          BY <2>4, <3>4, <5>1 DEF GridSafe, Withheld
      <4> QED
        BY <4>3, <4>4
    <3> QED
      BY <3>3, <3>4
  <2> HIDE DEF R
  <2>7. CASE g \in R
    <3>1. ~Given(g)' /\ coord'[Lead].latest[g] = 1 /\ coord'[Lead].freeVer[g] = 1
      BY <2>3, <2>5, <2>6, <2>7
    <3>2. (\A d \in Drone : g \notin Effective(d)') /\ \A n \in Decisions' : n.grid # g
      BY <3>1 DEF Given
    <3>3. Withheld(coord[Lead], g)' /\ Counted(coord[Lead], g)'
      BY <3>1 DEF Withheld, Counted
    <3>4. ASSUME NEW n \in Returns', g \in n.grids PROVE Outdated(coord[Lead], n, g)'
      <4>1. Outdated(c, n, g)
        BY <1>2, <2>4, <3>4 DEF GridSafe
      <4> QED
        BY <2>3, <3>1, <4>1 DEF Outdated, Planned
    <3> QED
      BY <3>2, <3>3, <3>4 DEF GridSafe
  <2>8. CASE g \notin R
    <3>1. /\ coord'[Lead].latest[g] = c.latest[g] /\ coord'[Lead].freeVer[g] = c.freeVer[g]
          /\ coord'[Lead].over[g] = c.over[g]
          /\ g \in coord'[Lead].free <=> g \in c.free
      BY <2>3, <2>8
    <3>2. Withheld(coord[Lead], g)' /\ Counted(coord[Lead], g)'
      BY <2>3, <2>4, <2>5, <3>1 DEF GridSafe, Withheld, Planned, Counted
    <3>3. \A d \in Drone : g \in Effective(d)' => Covered(coord[Lead], d, g)'
      BY <1>1, <2>3, <2>4, <2>5, <3>1 DEF GridSafe, Covered, Claimed
    <3>4. \A n \in Decisions' : n.grid = g => JustGiven(coord[Lead], n)'
      BY <1>2, <2>4, <3>1 DEF GridSafe, JustGiven
    <3>5. ASSUME NEW n \in Returns', g \in n.grids PROVE Outdated(coord[Lead], n, g)'
      <4>1. Outdated(c, n, g)
        BY <1>2, <2>4, <3>5 DEF GridSafe
      <4> QED
        BY <2>3, <2>5, <3>1, <4>1 DEF Outdated, Planned
    <3> QED
      BY <3>2, <3>3, <3>4, <3>5 DEF GridSafe
  <2> QED
    BY <2>7, <2>8
<1> QED
  BY <1>3, <1>4

\* A tick: what the coordinator has just said is now to be confirmed.
LEMMA TickGrants ==
  ASSUME Timely, TypeOK, GrantInv, Tick
  PROVE  GrantInv'
<1>1. /\ coord' = [c \in Coord |-> Aged(coord[c])] /\ due' = Drone /\ net' = {}
      /\ state' = [c \in Coord |-> [s \in Drone |-> AgedSnapshot(state[c][s])]]
      /\ due = {} /\ \A c \in Coord, s \in Drone : ~state[c][s].known
      /\ UNCHANGED <<role, grids, hidden>>
  BY DEF Tick, OnTime, droneVars
<1>2. Decisions' = {} /\ Returns' = {} /\ \A d \in Drone : Effective(d)' = Effective(d)
  BY <1>1 DEF Decisions, Returns, Effective
<1>3. GivenOnce' /\ \A g : Given(g)' => Given(g)
  BY <1>2, GivenFrame DEF GrantInv, NoneGiven
<1> SUFFICES ASSUME NEW g \in Grid
             PROVE  IF Lead \in Coord THEN GridSafe(coord[Lead], g)' ELSE ~Given(g)'
  BY <1>3 DEF GrantInv, GridsSafe
<1>4. CASE Lead \notin Coord
  BY <1>3, <1>4 DEF GrantInv, GridsSafe
<1>5. CASE Lead \in Coord
  <2> DEFINE c == coord[Lead]
             h == Aged(c)
  <2>1. c \in CoordState /\ coord'[Lead] = h
    BY <1>1, <1>5 DEF TypeOK
  <2>2. GridSafe(c, g)
    BY <1>5 DEF GrantInv, GridsSafe
  <2>3. /\ h.leader = c.leader /\ h.latest = c.latest /\ h.free = c.free
        /\ h.freeVer = c.freeVer /\ h.plan = AgedPlan(c.plan)
        /\ h.over[g] = AgedOverride(c.over[g])
        /\ \A s \in Drone : h.snap[s] = AgedSnapshot(c.snap[s])
    BY <2>1 DEF Aged, CoordState
  <2>4. \A s \in Drone : ~state[Lead][s].known /\ ~state'[Lead][s].known
    BY <1>1, <1>5 DEF AgedSnapshot, NoSnapshot
  <2> HIDE DEF h
  <2>5. AgedPlan(c.plan).active => c.plan.active /\ AgedPlan(c.plan).grid = c.plan.grid
    BY <2>1 DEF AgedPlan, NoPlan, CoordState, Plan
  <2>6. Withheld(coord[Lead], g)'
    BY <1>3, <2>1, <2>2, <2>3, <2>5 DEF GridSafe, Withheld, Planned
  <2>7. ASSUME NEW d \in Drone, g \in Effective(d)' PROVE Covered(coord[Lead], d, g)'
    <3>1. Covered(c, d, g)
      BY <1>2, <2>2, <2>7 DEF GridSafe
    <3>2. c.over[g] \in Override /\ c.snap[d] \in Snapshot /\ Older(0) = 1
      BY <2>1, TimeoutAssumption DEF CoordState, Older, MaxAge
    <3>3. h.over[g].version > 0 => c.over[g].version > 0 /\ h.over[g].owner = c.over[g].owner
      BY <2>3, <3>2 DEF AgedOverride, NoOverride, Override
    <3>4. CASE c.over[g].version > 0 /\ c.over[g].age = 0
      <4>1. h.over[g].version > 0 /\ h.over[g].age = 1
        BY <2>3, <3>2, <3>4 DEF AgedOverride, Override
      <4> QED
        <5>1. d \in due' /\ ~state'[Lead][d].known /\ coord'[Lead].over[g].owner = d
          BY <1>1, <2>1, <2>4, <3>1, <3>3, <4>1 DEF Covered
        <5> QED
          BY <2>1, <4>1, <5>1 DEF Covered
    <3>5. CASE Claimed(c.snap[d], g)
      <4>1. Claimed(h.snap[d], g)
        BY <2>3, <3>2, <3>5 DEF Claimed, AgedSnapshot, Snapshot
      <4> QED
        BY <2>1, <2>4, <3>1, <3>3, <4>1 DEF Covered
    <3> QED
      BY <1>1, <2>4, <3>1, <3>4, <3>5 DEF Covered, Claimed
  <2>8. Counted(coord[Lead], g)'
    BY <2>1, <2>2, <2>3 DEF GridSafe, Counted
  <2> QED
    BY <1>2, <1>5, <2>6, <2>7, <2>8 DEF GridSafe
<1> QED
  BY <1>4, <1>5

-----------------------------------------------------------------------------
(* All together.                                                           *)

LEMMA GrantNext ==
  ASSUME Timely, IsFiniteSet(Drone), MaxCommands = 0, MaxLosses = 0,
         MaxReleases \in {0, 1}, TableInv, FleetInv, GrantInv, [Next]_vars
  PROVE  GrantInv'
<1>1. TypeOK /\ Together /\ OneView /\ FirstReturn
  BY DEF TableInv, FleetInv
<1>2. ASSUME NEW d \in Drone, DroneStateTimer(d) PROVE GrantInv'
  BY <1>1, <1>2, TimerGrants
<1>3. ASSUME NEW d \in Drone,
             \/ OptTimer(d) \/ \E p \in Drone : PeerState(d, p)
             \/ \E m \in net : RcvPlan(d, m)
      PROVE  GrantInv'
  BY <1>1, <1>3, QuietGrants
<1>4. ASSUME NEW d \in Drone, \/ EnterRelay(d) \/ LeaveRelay(d)
                              \/ \E p \in Drone : PeerLost(d, p)
      PROVE  FALSE
  BY <1>1, <1>4 DEF EnterRelay, LeaveRelay, PeerLost, TypeOK
<1>5. ASSUME NEW d \in Drone, NEW S \in SUBSET Grid,
             PlanFailureRelease(d, S) \/ MapInvalidation(d, S)
      PROVE  GrantInv'
  BY <1>1, <1>5, ReleaseGrants
<1>6. ASSUME NEW d \in Drone, NEW m \in net, RcvCommit(d, m) PROVE GrantInv'
  BY <1>1, <1>6, RcvCommitGrants
<1>7. ASSUME NEW c \in Coord, NEW s \in Drone, RcvComponentState(c, s) PROVE GrantInv'
  BY <1>1, <1>7, ComponentStateGrants
<1>8. ASSUME NEW c \in Coord, CoordTimer(c) PROVE GrantInv'
  BY <1>1, <1>8, CoordTimerGrants
<1>9. ASSUME NEW m \in net, RcvRequest(m) \/ RcvAck(m) \/ RcvRelease(m) PROVE GrantInv'
  BY <1>1, <1>9, RcvRequestGrants, RcvAckGrants, RcvReleaseGrants
<1>10. CASE Tick
  BY <1>1, <1>10, TickGrants
<1>11. CASE UNCHANGED vars
  <2>1. UNCHANGED <<role, grids, hidden, net, due, coord, state>>
    BY <1>11 DEF vars, droneVars, envVars
  <2>2. NoneGiven /\ Returns' \subseteq Returns
    BY <2>1 DEF NoneGiven, Effective, Decisions, Returns
  <2> QED
    BY <2>1, <2>2, GrantFrame
<1> QED
  BY <1>2, <1>3, <1>4, <1>5, <1>6, <1>7, <1>8, <1>9, <1>10, <1>11 DEF Next

LEMMA ShareInit == FormedInit => ShareInv
<1> SUFFICES ASSUME FormedInit PROVE ShareInv
  OBVIOUS
<1>1. Together
  BY DEF FormedInit, Together, Lead, NeverSeen
<1>2. OneView
  BY DEF FormedInit, OneView, ViewOf, CoordInit, EmptyView, NoSnapshot
<1>3. FirstReturn
  <2>1. \A d \in Drone : /\ hidden[d] = {} /\ radio[d].grids = {}
                         /\ \A g \in Grid : owners[d][g] = Unowned
    BY DEF FormedInit, NeverSeen
  <2>2. \A p, d \in Drone : seen[p][d].grids = {}
    BY <2>1 DEF FormedInit, NeverSeen
  <2>3. Unowned.version = 0 /\ Unowned.owner = 0
    BY DEF Unowned
  <2>4. ASSUME NEW d \in Drone PROVE NothingBack(d)
    <3>1. \A g \in Grid : owners[d][g].version = 0 /\ owners[d][g].owner = 0
      BY <2>1, <2>3
    <3> QED
      BY <2>1, <2>2, <3>1 DEF NothingBack
  <2> QED
    BY <2>4 DEF FirstReturn
<1>4. \A d \in Drone : Effective(d) = {}
  BY DEF FormedInit, Effective
<1>5. Decisions = {} /\ Returns = {}
  BY DEF FormedInit, Decisions, Returns
<1>6. GivenOnce /\ \A g : ~Given(g)
  BY <1>4, <1>5 DEF GivenOnce, Exclusive, Given
<1>7. ASSUME NEW g \in Grid, Lead \in Coord PROVE Counted(coord[Lead], g)
  BY <1>7 DEF FormedInit, CoordInit, EmptyView, Counted
<1>8. GridsSafe
  BY <1>4, <1>5, <1>6, <1>7 DEF GridsSafe, GridSafe, Withheld
<1> QED
  BY <1>1, <1>2, <1>3, <1>6, <1>8 DEF ShareInv, FleetInv, GrantInv

\* In a component that has formed and stays together, with every timer and
\* message on time, no two drones ever hold the same grid: whatever requests,
\* plans, acks, commits, snapshots and time-outs come in which order, up to
\* the first release, its own race with a new grant of the grid included
\* (assignmentAckCallback, releaseRequestCallback, rebuildAggregatedState).
THEOREM GridsExclusive ==
  ASSUME Timely, IsFiniteSet(Drone), MaxCommands = 0, MaxLosses = 0,
         MaxReleases \in {0, 1}
  PROVE  FormedSpec => []Exclusive
<1>1. FormedInit => TableInv /\ ShareInv
  BY TableInit, ShareInit
<1>2. TableInv /\ ShareInv /\ [Next]_vars => (TableInv /\ ShareInv)'
  <2> SUFFICES ASSUME TableInv, ShareInv, [Next]_vars PROVE (TableInv /\ ShareInv)'
    OBVIOUS
  <2>1. TypeOK /\ Together /\ OneView /\ FirstReturn /\ GrantInv /\ Exclusive
    BY DEF TableInv, ShareInv, FleetInv, GrantInv, GivenOnce
  <2>2. Together' /\ OneView' /\ FirstReturn'
    BY <2>1, TogetherNext, OneViewNext, FirstReturnNext
  <2>3. GrantInv'
    BY <2>1, GrantNext DEF ShareInv
  <2> QED
    BY <2>2, <2>3, TableNext DEF ShareInv, FleetInv
<1>3. ShareInv => Exclusive
  BY DEF ShareInv, GrantInv, GivenOnce
<1> QED
  BY <1>1, <1>2, <1>3, PTL DEF FormedSpec

=============================================================================
