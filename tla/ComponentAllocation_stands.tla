--------------------- MODULE ComponentAllocation_stands ---------------------
(***************************************************************************)
(* A coordinator stands by the commits it has sent, in every instance that *)
(* runs on time and in which nobody gives a grid back.                     *)
(*                                                                         *)
(* GrantStands is not inductive: the coordinator might have left the view  *)
(* of the commit and come back to it, with an empty table.  It can not,    *)
(* and the reason lies outside of the node.  It leaves (L, e) for a higher *)
(* epoch, from which no snapshot of epoch e takes it back before a timeout *)
(* and the commit has arrived by then; or because L was silent about that  *)
(* view for too long, which an L on time only is once its epoch is past e. *)
(***************************************************************************)
EXTENDS ComponentAllocation_proofs

\* A snapshot that has not been read is of its source's present view.
StateFresh ==
  \A c \in Coord, s \in Drone :
    state[c][s].known =>
      /\ state[c][s].age = 0
      /\ state[c][s].epoch = epoch[s]
      /\ state[c][s].leader = leader[s]
      /\ members[s] # Unknown

\* The leader is the smallest member.
ViewMin ==
  \A d \in Drone : members[d] # Unknown => leader[d] = Minimum(members[d])

\* The leader that a coordinator follows has led the view it is followed in.
LeaderKnown ==
  \A c \in Coord :
    /\ coord[c].leader = 0 => coord[c].epoch = 0
    /\ \A s \in Drone :
         coord[c].leader = s =>
           /\ members[s] # Unknown
           /\ coord[c].epoch <= epoch[s]
           /\ coord[c].epoch = epoch[s] => leader[s] = s

\* The leader's own coordinator has not heard of its view since the last
\* tick, although the leader has spoken, or not for longer than that.
Silent(l) ==
  \/ coord[l].age >= 2
  \/ coord[l].age >= 1 /\ l \notin due /\ ~state[l][l].known

\* Then the leader has moved on to another view.
Neglected ==
  \A l \in Coord :
    coord[l].leader = l /\ Silent(l) => coord[l].epoch < epoch[l]

NoReleases == \A m \in net : m.type # "release"

\* In the view of the commit: the decision is as fresh as can be, and no plan
\* is about the same grid.
InForce(c, m) ==
  /\ SameView(c, m)
  /\ c.over[m.grid] = [owner |-> m.drone, version |-> m.version, age |-> 0]
  /\ c.plan.active => c.plan.grid # m.grid

\* In another view: no way back to that of the commit.
Passed(c, m) ==
  /\ ~SameView(c, m)
  /\ m.epoch < epoch[m.leader] \/ (m.epoch < c.epoch /\ c.age = 0)

CommitStands(m) ==
  /\ m.leader \in Coord
  /\ m.version > 0
  /\ m.epoch > 0 => InForce(coord[m.leader], m) \/ Passed(coord[m.leader], m)

CommitsStand == \A m \in net : m.type = "commit" => CommitStands(m)

ViewInv == StateFresh /\ ViewMin /\ LeaderKnown /\ Neglected
StandInv == ViewInv /\ NoReleases /\ CommitsStand

-----------------------------------------------------------------------------
(* What the handlers of a node do to its view, its plan and its recent     *)
(* decisions.                                                              *)

\* rebuildAggregatedState touches none of them.
LEMMA RebuildView ==
  ASSUME NEW c \in CoordState
  PROVE  /\ Rebuild(c).leader = c.leader
         /\ Rebuild(c).epoch = c.epoch
         /\ Rebuild(c).age = c.age
         /\ Rebuild(c).over = c.over
         /\ Rebuild(c).plan = c.plan
BY DEF Rebuild, CoordState

\* componentStateCallback takes the view of a snapshot or keeps its own; if
\* the view does not change, neither do plan and decisions.
LEMMA ComponentStateView ==
  ASSUME NEW c \in CoordState, NEW s \in Drone, NEW m \in Snapshot
  PROVE  LET h == OnComponentState(c, s, m)
         IN  /\ ~Authoritative(c, s, m) =>
                  h.leader = c.leader /\ h.epoch = c.epoch /\ h.age = c.age
             /\ Authoritative(c, s, m) =>
                  h.leader = m.leader /\ h.epoch = m.epoch /\ h.age = m.age
             /\ h.leader = c.leader /\ h.epoch = c.epoch =>
                  h.over = c.over /\ h.plan = c.plan
<1> DEFINE moved == EmptyView(m.leader, m.epoch, m.age)
           noted(x) == [x EXCEPT !.snap[s] = m]
<1>1. /\ m.leader \in DroneOrNone /\ m.epoch \in Nat /\ m.age \in Age
      /\ moved \in CoordState
  BY EmptyViewType DEF Snapshot
<1>2. ASSUME NEW x \in CoordState
      PROVE  /\ noted(x) \in CoordState
             /\ noted(x).leader = x.leader
             /\ noted(x).epoch = x.epoch
             /\ noted(x).age = x.age
             /\ noted(x).over = x.over
             /\ noted(x).plan = x.plan
  BY DEF CoordState
<1> HIDE DEF noted
<1>3. CASE ~Authoritative(c, s, m)
  <2>1. OnComponentState(c, s, m) = Rebuild(noted(c))
    BY <1>3 DEF OnComponentState, noted
  <2> QED
    BY <1>2, <1>3, <2>1, RebuildView
<1>4. CASE Authoritative(c, s, m) /\ (c.epoch # m.epoch \/ c.leader # m.leader)
  <2>1. OnComponentState(c, s, m) = Rebuild(noted(moved))
    BY <1>4 DEF OnComponentState, noted
  <2>2. moved.leader = m.leader /\ moved.epoch = m.epoch /\ moved.age = m.age
    BY DEF EmptyView
  <2> HIDE DEF moved
  <2> QED
    BY <1>1, <1>2, <1>4, <2>1, <2>2, RebuildView
<1>5. CASE Authoritative(c, s, m) /\ c.epoch = m.epoch /\ c.leader = m.leader
  <2> DEFINE heard == [c EXCEPT !.age = m.age]
  <2>1. OnComponentState(c, s, m) = Rebuild(noted(heard))
    BY <1>5 DEF OnComponentState, noted
  <2>2. /\ heard \in CoordState
        /\ heard.leader = c.leader /\ heard.epoch = c.epoch /\ heard.age = m.age
        /\ heard.over = c.over /\ heard.plan = c.plan
    BY <1>1 DEF CoordState
  <2> HIDE DEF heard
  <2> QED
    BY <1>2, <1>5, <2>1, <2>2, RebuildView
<1> QED
  BY <1>3, <1>4, <1>5

\* pendingPlanTimerCallback keeps the view, the decisions that have not
\* expired, and the plan or none.
LEMMA TimerView ==
  ASSUME NEW c \in CoordState, NEW d \in Drone, Sound(d, c)
  PROVE  LET h == OnTimer(c)
         IN  /\ h.leader = c.leader /\ h.epoch = c.epoch /\ h.age = c.age
             /\ h.plan = c.plan \/ ~h.plan.active
             /\ \A g \in Grid : c.over[g].age = 0 => h.over[g] = c.over[g]
<1> DEFINE s == [c EXCEPT !.snap =
                   [t \in Drone |-> IF Expired(@[t].age) THEN NoSnapshot ELSE @[t]]]
           p == PruneExpiredSnapshots(c)
           o == [p EXCEPT !.over =
                   [g \in Grid |-> IF Expired(@[g].age) THEN NoOverride ELSE @[g]]]
           q == PruneExpiredOverrides(p)
           Keeps(x, y) == /\ y.leader = x.leader /\ y.epoch = x.epoch /\ y.age = x.age
                          /\ y.plan = x.plan
                          /\ \A g \in Grid : x.over[g].age = 0 => y.over[g] = x.over[g]
<1>1. Keeps(c, p)
  <2>1. s \in CoordState
    <3>1. NoSnapshot \in Snapshot
      BY AgeFacts DEF NoSnapshot, Snapshot, OwnershipRecord, Unowned, DroneOrNone
    <3> QED
      BY <3>1 DEF CoordState
  <2>2. Keeps(c, s)
    BY DEF CoordState
  <2>3. p \in {c, Rebuild(s)}
    BY DEF PruneExpiredSnapshots
  <2> HIDE DEF s, p
  <2> QED
    BY <2>1, <2>2, <2>3, RebuildView
<1>2. p \in CoordState /\ Sound(d, p)
  BY PruneSafe
<1> HIDE DEF p, s
<1>3. Keeps(p, q)
  <2>1. ~Expired(0)
    BY TimeoutAssumption DEF Expired
  <2>2. o \in CoordState
    <3>1. NoOverride \in Override
      BY AgeFacts DEF NoOverride, Override, DroneOrNone
    <3> QED
      BY <1>2, <3>1 DEF CoordState
  <2>3. Keeps(p, o)
    BY <1>2, <2>1 DEF CoordState
  <2>4. q \in {p, Rebuild(o)}
    BY DEF PruneExpiredOverrides
  <2> HIDE DEF o, q
  <2> QED
    BY <2>2, <2>3, <2>4, RebuildView
<1>4. q \in CoordState
  BY <1>2, PruneSafe
<1>5. OnTimer(c) \in {q, [q EXCEPT !.plan = NoPlan]}
  BY DEF OnTimer, p
<1> HIDE DEF q
<1>6. Keeps(c, q)
  BY <1>1, <1>3
<1>7. LET h == [q EXCEPT !.plan = NoPlan]
      IN  /\ h.leader = q.leader /\ h.epoch = q.epoch /\ h.age = q.age
          /\ ~h.plan.active /\ h.over = q.over
  BY <1>4 DEF CoordState, NoPlan
<1> QED
  BY <1>5, <1>6, <1>7

-----------------------------------------------------------------------------
(* The views: what snapshots on the way, coordinators and leaders know of  *)
(* each other.                                                             *)

ViewVars == <<coord, state, members, epoch, leader, due>>

\* Steps that leave the views alone.
LEMMA ViewFrame == ViewInv /\ UNCHANGED ViewVars => ViewInv'
BY DEF ViewInv, StateFresh, ViewMin, LeaderKnown, Neglected, Silent, ViewVars

\* droneStateTimerCallback: a view that is kept keeps its leader, and every
\* other one is of a later epoch.
LEMMA TimerOfDrone ==
  ASSUME TypeOK, NEW d \in Drone, DroneStateTimer(d)
  PROVE  /\ UNCHANGED <<coord, net>> /\ due' = due \ {d}
         /\ members'[d] \in SUBSET Drone /\ members'[d] # Unknown
         /\ leader'[d] = Minimum(members'[d])
         /\ epoch[d] <= epoch'[d]
         /\ epoch'[d] = epoch[d] /\ members[d] # Unknown => members'[d] = members[d]
         /\ \A e \in Drone \ {d} :
              /\ members'[e] = members[e]
              /\ epoch'[e] = epoch[e]
              /\ leader'[e] = leader[e]
         /\ \A c \in Coord :
              /\ state'[c][d].known /\ state'[c][d].age = 0
              /\ state'[c][d].epoch = epoch'[d]
              /\ state'[c][d].leader = leader'[d]
              /\ \A e \in Drone \ {d} : state'[c][e] = state[c][e]
<1> DEFINE mem  == {a \in Drone : Visible(d, a) /\ Assignable(d, a)}
           ep   == IF members[d] \notin {Unknown, mem} THEN epoch[d] + 1 ELSE epoch[d]
           own  == [g \in Grid |-> Minimum({a \in mem : g \in Held(d, a)})]
           vers == [g \in Grid |->
                      IF own[g] = 0 THEN Unowned
                      ELSE [owner   |-> own[g],
                            version |-> IF owners[d][g].owner = 0 THEN 1
                                        ELSE IF owners[d][g].owner # own[g]
                                             THEN owners[d][g].version + 1
                                             ELSE owners[d][g].version]]
           snap == [known |-> TRUE, epoch |-> ep, leader |-> Minimum(mem),
                    owned |-> vers, free |-> {g \in Active : own[g] = 0}, age |-> 0]
<1>1. /\ members' = [members EXCEPT ![d] = mem]
      /\ epoch' = [epoch EXCEPT ![d] = ep]
      /\ leader' = [leader EXCEPT ![d] = Minimum(mem)]
      /\ state' = [c \in Coord |-> [state[c] EXCEPT ![d] = snap]]
      /\ due' = due \ {d}
      /\ UNCHANGED <<coord, net>>
  BY DEF DroneStateTimer
<1>2. mem \in SUBSET Drone /\ mem # Unknown
  BY DroneFacts DEF Unknown
<1>3. epoch[d] \in Nat
  BY DEF TypeOK
<1>4. epoch[d] <= ep /\ (ep = epoch[d] /\ members[d] # Unknown => mem = members[d])
  BY <1>3
<1>5. /\ snap.known /\ snap.age = 0
      /\ snap.epoch = ep /\ snap.leader = Minimum(mem)
  OBVIOUS
<1> HIDE DEF mem, ep, own, vers, snap
<1>6. \A c \in Coord : /\ state'[c][d] = snap
                       /\ \A e \in Drone \ {d} : state'[c][e] = state[c][e]
  BY <1>1 DEF TypeOK
<1>7. /\ members'[d] = mem /\ epoch'[d] = ep /\ leader'[d] = Minimum(mem)
      /\ \A e \in Drone \ {d} :
           members'[e] = members[e] /\ epoch'[e] = epoch[e] /\ leader'[e] = leader[e]
  BY <1>1 DEF TypeOK
<1> QED
  BY <1>1, <1>2, <1>4, <1>5, <1>6, <1>7

\* droneStateTimerCallback keeps the views in step.
LEMMA DroneStateTimerView ==
  ASSUME TypeOK, ViewInv, NEW d \in Drone, DroneStateTimer(d)
  PROVE  ViewInv'
<1>1. StateFresh'
  BY TimerOfDrone DEF ViewInv, StateFresh
<1>2. ViewMin'
  BY TimerOfDrone DEF ViewInv, ViewMin
<1>3. LeaderKnown'
  <2> SUFFICES ASSUME NEW c \in Coord, NEW s \in Drone, coord[c].leader = s
               PROVE  /\ members'[s] # Unknown
                      /\ coord[c].epoch <= epoch'[s]
                      /\ coord[c].epoch = epoch'[s] => leader'[s] = s
    BY TimerOfDrone DEF ViewInv, LeaderKnown
  <2>1. /\ members[s] # Unknown
        /\ coord[c].epoch <= epoch[s]
        /\ coord[c].epoch = epoch[s] => leader[s] = s
    BY DEF ViewInv, LeaderKnown
  <2>2. CASE s # d
    BY <2>1, <2>2, TimerOfDrone
  <2>3. CASE s = d
    <3>1. coord[c].epoch \in Nat /\ epoch[d] \in Nat /\ epoch'[d] \in Nat
      BY DroneStateTimerType DEF TypeOK, CoordState
    <3>2. epoch[d] <= epoch'[d] /\ members'[d] # Unknown
      BY TimerOfDrone
    <3>3. ASSUME epoch'[d] = epoch[d] PROVE leader'[d] = leader[d]
      BY <2>1, <2>3, <3>3, TimerOfDrone DEF ViewInv, ViewMin
    <3> QED
      BY <2>1, <2>3, <3>1, <3>2, <3>3
  <2> QED
    BY <2>2, <2>3
<1>4. Neglected'
  <2> SUFFICES ASSUME NEW l \in Coord, coord[l].leader = l, Silent(l)'
               PROVE  coord[l].epoch < epoch'[l]
    BY TimerOfDrone DEF Neglected
  <2>1. l \in Drone
    BY CoordAssumption
  <2>2. Silent(l)
    BY <2>1, TimerOfDrone DEF Silent
  <2>3. coord[l].epoch < epoch[l]
    BY <2>2 DEF ViewInv, Neglected
  <2>4. coord[l].epoch \in Nat /\ epoch[l] \in Nat /\ epoch'[l] \in Nat
    BY <2>1, DroneStateTimerType DEF TypeOK, CoordState
  <2>5. epoch[l] <= epoch'[l]
    BY <2>1, <2>4, TimerOfDrone
  <2> QED
    BY <2>3, <2>4, <2>5
<1> QED
  BY <1>1, <1>2, <1>3, <1>4 DEF ViewInv

\* componentStateCallback: a view is taken from its leader, as it is now.
LEMMA RcvComponentStateView ==
  ASSUME TableInv, ViewInv, NEW c \in Coord, NEW s \in Drone, RcvComponentState(c, s)
  PROVE  ViewInv'
<1> DEFINE h == OnComponentState(coord[c], s, state[c][s])
<1>1. /\ coord' = [coord EXCEPT ![c] = h]
      /\ state' = [state EXCEPT ![c][s] = NoSnapshot]
      /\ UNCHANGED <<members, epoch, leader, due>>
  BY DEF RcvComponentState, CoordUnchanged, viewVars, envVars
<1>2. /\ state[c][s] \in Snapshot
      /\ state[c][s].epoch = epoch[s] /\ state[c][s].leader = leader[s]
      /\ state[c][s].age = 0 /\ members[s] # Unknown /\ epoch[s] \in Nat
      /\ state[c][s].known
  BY DEF RcvComponentState, ViewInv, StateFresh, TableInv, TypeOK
<1>3. /\ c \in Drone /\ coord[c] \in CoordState /\ s # 0
      /\ coord[c].epoch \in Nat
  BY TableFacts, DroneFacts DEF CoordState
<1>4. /\ \/ h.leader = coord[c].leader /\ h.epoch = coord[c].epoch /\ h.age = coord[c].age
         \/ h.leader = s /\ leader[s] = s /\ h.epoch = epoch[s] /\ h.age = 0
      /\ coord[c].leader = s /\ leader[s] = s =>
           h.leader = s /\ h.epoch = epoch[s] /\ h.age = 0
  <2> DEFINE a == Authoritative(coord[c], s, state[c][s])
  <2>1. /\ ~a => h.leader = coord[c].leader /\ h.epoch = coord[c].epoch /\ h.age = coord[c].age
        /\ a => /\ h.leader = state[c][s].leader
                /\ h.epoch = state[c][s].epoch
                /\ h.age = state[c][s].age
    BY <1>2, <1>3, ComponentStateView
  <2>2. a => leader[s] = s
    BY <1>2 DEF Authoritative
  <2>3. coord[c].leader = s /\ leader[s] = s => a
    BY <1>2 DEF Authoritative
  <2> HIDE DEF a, h
  <2> QED
    BY <1>2, <2>1, <2>2, <2>3
<1> HIDE DEF h
<1>5. \A b \in Coord : \A t \in Drone :
        /\ coord'[b] = IF b = c THEN h ELSE coord[b]
        /\ state'[b][t] = IF b = c /\ t = s THEN NoSnapshot ELSE state[b][t]
  BY <1>1 DEF TableInv, TypeOK
<1>6. StateFresh'
  BY <1>1, <1>5 DEF ViewInv, StateFresh, NoSnapshot
<1>7. ViewMin'
  BY <1>1 DEF ViewInv, ViewMin
<1>8. LeaderKnown'
  <2>1. \A t \in Drone : epoch[t] \in Nat
    BY DEF TableInv, TypeOK
  <2> QED
    BY <1>1, <1>2, <1>3, <1>4, <1>5, <2>1 DEF ViewInv, LeaderKnown
<1>9. Neglected'
  <2> SUFFICES ASSUME NEW l \in Coord, coord'[l].leader = l, Silent(l)'
               PROVE  coord'[l].epoch < epoch[l]
    BY <1>1 DEF Neglected
  <2>1. CASE l # c
    BY <1>1, <1>5, <2>1, CoordAssumption DEF ViewInv, Neglected, Silent
  <2>2. CASE l = c /\ s # c
    <3>1. h.leader = coord[c].leader /\ h.epoch = coord[c].epoch /\ h.age = coord[c].age
      BY <1>3, <1>4, <1>5, <2>2
    <3>2. Silent(c)
      BY <1>1, <1>3, <1>5, <2>2, <3>1 DEF Silent
    <3> QED
      BY <1>5, <2>2, <3>1, <3>2 DEF ViewInv, Neglected
  <2>3. CASE l = c /\ s = c
    <3>1. coord'[c].age >= 1
      <4>1. coord'[c].age \in Int
        BY RcvComponentStateTable DEF TableInv, TypeOK, CoordState, Age
      <4> QED
        BY <2>3, <4>1 DEF Silent
    <3>2. /\ h.leader = coord[c].leader /\ h.epoch = coord[c].epoch
          /\ leader[c] # c /\ coord[c].leader = c
      BY <1>4, <1>5, <2>3, <3>1
    <3>3. coord[c].epoch <= epoch[c] /\ coord[c].epoch # epoch[c]
      BY <1>3, <3>2 DEF ViewInv, LeaderKnown
    <3> QED
      BY <1>2, <1>3, <1>5, <2>3, <3>2, <3>3
  <2> QED
    BY <2>1, <2>2, <2>3
<1> QED
  BY <1>6, <1>7, <1>8, <1>9 DEF ViewInv

\* The other handlers of a coordinator keep its view.
LEMMA HandlerView ==
  ASSUME TypeOK, ViewInv, CoordUnchanged, state' = state,
         coord' \in [Coord -> CoordState],
         \A c \in Coord : /\ coord'[c].leader = coord[c].leader
                          /\ coord'[c].epoch = coord[c].epoch
                          /\ coord'[c].age = coord[c].age
  PROVE  ViewInv'
BY DEF ViewInv, StateFresh, ViewMin, LeaderKnown, Neglected, Silent,
       CoordUnchanged, viewVars, envVars

\* A tick finds every snapshot read.
LEMMA TickView ==
  ASSUME TypeOK, ViewInv, Timely, Tick
  PROVE  ViewInv'
<1>1. /\ due = {} /\ due' = Drone
      /\ \A c \in Coord, s \in Drone : ~state[c][s].known
      /\ \A c \in Coord : coord'[c] = Aged(coord[c])
      /\ \A c \in Coord, s \in Drone : state'[c][s] = AgedSnapshot(state[c][s])
      /\ UNCHANGED <<members, epoch, leader>>
  BY DEF Tick, OnTime, viewVars
<1>2. ASSUME NEW c \in Coord
      PROVE  /\ coord'[c].leader = coord[c].leader
             /\ coord'[c].epoch = coord[c].epoch
             /\ coord'[c].age = Older(coord[c].age)
  <2>1. coord[c] \in CoordState
    BY DEF TypeOK
  <2> QED
    BY <1>1, <2>1 DEF Aged, CoordState
<1>3. StateFresh'
  <2>1. \A c \in Coord, s \in Drone : state'[c][s] = NoSnapshot
    BY <1>1 DEF AgedSnapshot
  <2> QED
    BY <2>1 DEF StateFresh, NoSnapshot
<1>4. ViewMin' /\ LeaderKnown'
  BY <1>1, <1>2 DEF ViewInv, ViewMin, LeaderKnown
<1>5. Neglected'
  <2> SUFFICES ASSUME NEW l \in Coord, coord'[l].leader = l, Silent(l)'
               PROVE  coord'[l].epoch < epoch[l]
    BY <1>1 DEF Neglected
  <2>1. l \in Drone
    BY CoordAssumption
  <2>2. coord'[l].age >= 2
    BY <1>1, <2>1 DEF Silent
  <2>3. coord[l].age >= 1
    BY <1>2, <2>2, TimeoutAssumption DEF Older, MaxAge, TypeOK, CoordState, Age
  <2>4. Silent(l)
    BY <1>1, <2>1, <2>3 DEF Silent
  <2> QED
    BY <1>2, <2>4 DEF ViewInv, Neglected
<1> QED
  BY <1>3, <1>4, <1>5 DEF ViewInv

-----------------------------------------------------------------------------
(* The commits.                                                            *)

\* What a step has put in flight.
Sent(type) == \A m \in net' : m \in net \/ m.type \in type

\* A participant that gives nothing back asks and answers.
LEMMA ClaimShareSends ==
  ASSUME NEW d, NEW share, NEW sent, ClaimShare(d, share, sent)
  PROVE  \A m \in net' : m \in sent \/ m.type = "request"
BY DEF ClaimShare, PublishRequest, Request

\* Without releases and role commands, the participants' callbacks leave the
\* views and the commits alone; only droneStateTimerCallback is not here.
LEMMA ParticipantFrame ==
  ASSUME TypeOK, MaxReleases = 0, MaxCommands = 0, NEW d \in Drone,
         \/ OptTimer(d) \/ EnterRelay(d) \/ LeaveRelay(d)
         \/ \E p \in Drone : PeerState(d, p) \/ PeerLost(d, p)
         \/ \E S \in SUBSET Grid : PlanFailureRelease(d, S) \/ MapInvalidation(d, S)
         \/ \E m \in net : RcvPlan(d, m) \/ RcvCommit(d, m)
  PROVE  UNCHANGED ViewVars /\ Sent({"request", "ack"})
<1>1. ~(releases < MaxReleases) /\ ~(commands < MaxCommands)
  BY DEF TypeOK
<1>2. ASSUME OptTimer(d) PROVE UNCHANGED ViewVars /\ Sent({"request", "ack"})
  <2>1. Sent({"request", "ack"})
    BY <1>2, ClaimShareSends DEF OptTimer, Sent
  <2> QED
    BY <1>2, <2>1 DEF OptTimer, ViewVars, viewVars, envVars
<1>3. ASSUME NEW p \in Drone, PeerState(d, p)
      PROVE  UNCHANGED ViewVars /\ Sent({"request", "ack"})
  <2>1. \/ \E share \in Shares(d)' : ClaimShare(d, share, net)
        \/ net' = net
    BY <1>3 DEF PeerState
  <2>2. Sent({"request", "ack"})
    BY <2>1, ClaimShareSends DEF Sent
  <2> QED
    BY <1>3, <2>2 DEF PeerState, ViewVars, viewVars, envVars
<1>4. ASSUME NEW p \in Drone, PeerLost(d, p)
      PROVE  UNCHANGED ViewVars /\ Sent({"request", "ack"})
  BY <1>4 DEF PeerLost, Sent, ViewVars, viewVars
<1>5. ASSUME NEW m \in net, RcvPlan(d, m)
      PROVE  UNCHANGED ViewVars /\ Sent({"request", "ack"})
  BY <1>5 DEF RcvPlan, Sent, Rest, Ack, ViewVars, viewVars, envVars
<1>6. ASSUME NEW m \in net, RcvCommit(d, m)
      PROVE  UNCHANGED ViewVars /\ Sent({"request", "ack"})
  BY <1>6 DEF RcvCommit, PublishRequest, Request, Sent, Rest, ViewVars, viewVars, envVars
<1> QED
  BY <1>1, <1>2, <1>3, <1>4, <1>5, <1>6
     DEF EnterRelay, LeaveRelay, PlanFailureRelease, MapInvalidation

\* Steps that leave the views alone and decide nothing.
LEMMA StandFrame ==
  ASSUME StandInv, UNCHANGED ViewVars, Sent({"request", "plan", "ack"})
  PROVE  StandInv'
<1>1. ViewInv'
  BY ViewFrame DEF StandInv
<1>2. NoReleases'
  BY DEF StandInv, NoReleases, Sent
<1>3. CommitsStand'
  <2> SUFFICES ASSUME NEW m \in net', m.type = "commit" PROVE CommitStands(m)'
    BY DEF CommitsStand
  <2>1. CommitStands(m)
    BY DEF StandInv, CommitsStand, Sent
  <2> QED
    BY <2>1 DEF CommitStands, InForce, Passed, ViewVars
<1> QED
  BY <1>1, <1>2, <1>3 DEF StandInv

\* What is known of a commit in flight.
LEMMA CommitFacts ==
  ASSUME TableInv, StandInv, NEW m \in net, m.type = "commit"
  PROVE  /\ m \in GrantMsg /\ m.leader \in Coord /\ m.leader \in Drone
         /\ m.grid \in Grid /\ m.drone \in Drone /\ m.epoch \in Nat
         /\ coord[m.leader] \in CoordState
         /\ CommitStands(m)
BY MessageKinds, TableFacts
   DEF TableInv, TypeOK, GrantMsg, StandInv, CommitsStand, CommitStands

\* droneStateTimerCallback: epochs only grow.
LEMMA DroneStateTimerStands ==
  ASSUME TableInv, StandInv, NEW d \in Drone, DroneStateTimer(d)
  PROVE  StandInv'
<1>1. UNCHANGED <<coord, net>> /\ TypeOK /\ TypeOK'
  BY TimerOfDrone, DroneStateTimerType DEF TableInv
<1>2. ViewInv'
  BY <1>1, DroneStateTimerView DEF StandInv
<1>3. CommitsStand'
  <2> SUFFICES ASSUME NEW m \in net, m.type = "commit" PROVE CommitStands(m)'
    BY <1>1 DEF CommitsStand
  <2>1. /\ m.leader \in Drone /\ m.epoch \in Nat
        /\ CommitStands(m)
    BY CommitFacts
  <2>2. epoch[m.leader] \in Nat /\ epoch'[m.leader] \in Nat
    BY <1>1, <2>1 DEF TypeOK
  <2>3. epoch[m.leader] <= epoch'[m.leader]
    <3>1. /\ epoch[d] <= epoch'[d]
          /\ \A e \in Drone \ {d} : epoch'[e] = epoch[e]
      BY <1>1, TimerOfDrone
    <3>2. CASE m.leader = d
      BY <3>1, <3>2
    <3>3. CASE m.leader # d
      BY <2>1, <2>2, <3>1, <3>3
    <3> QED
      BY <3>2, <3>3
  <2> QED
    BY <1>1, <2>1, <2>2, <2>3 DEF CommitStands, InForce, Passed
<1> QED
  BY <1>1, <1>2, <1>3 DEF StandInv, NoReleases

\* componentStateCallback: the node stays in the view of the commit, with
\* its decisions, or leaves it for good.
LEMMA RcvComponentStateStands ==
  ASSUME TableInv, StandInv, NEW c \in Coord, NEW s \in Drone, RcvComponentState(c, s)
  PROVE  StandInv'
<1> DEFINE h == OnComponentState(coord[c], s, state[c][s])
<1>1. /\ coord' = [coord EXCEPT ![c] = h]
      /\ UNCHANGED <<epoch, net>>
  BY DEF RcvComponentState, CoordUnchanged, viewVars
<1>2. /\ state[c][s] \in Snapshot
      /\ state[c][s].epoch = epoch[s] /\ state[c][s].leader = leader[s]
      /\ state[c][s].age = 0 /\ epoch[s] \in Nat
  BY DEF RcvComponentState, StandInv, ViewInv, StateFresh, TableInv, TypeOK
<1>3. /\ c \in Drone /\ coord[c] \in CoordState /\ s > 0
      /\ coord[c].epoch \in Nat /\ coord[c].age \in Int
  BY TableFacts, DroneFacts DEF CoordState, Age
<1>4. ViewInv'
  BY RcvComponentStateView DEF StandInv
\* Why the node takes the view of s.
<1>5. \/ h.leader = coord[c].leader /\ h.epoch = coord[c].epoch /\ h.age = coord[c].age
      \/ /\ h.leader = s /\ h.epoch = epoch[s] /\ h.age = 0
         /\ \/ coord[c].leader = 0
            \/ coord[c].epoch = 0
            \/ s = coord[c].leader
            \/ epoch[s] > coord[c].epoch
            \/ coord[c].age > Timeout
  <2> DEFINE a == Authoritative(coord[c], s, state[c][s])
  <2>1. /\ ~a => h.leader = coord[c].leader /\ h.epoch = coord[c].epoch /\ h.age = coord[c].age
        /\ a => /\ h.leader = state[c][s].leader
                /\ h.epoch = state[c][s].epoch
                /\ h.age = state[c][s].age
    BY <1>2, <1>3, ComponentStateView
  <2>2. a => /\ leader[s] = s
             /\ \/ coord[c].leader = 0
                \/ coord[c].epoch = 0
                \/ s = coord[c].leader
                \/ epoch[s] > coord[c].epoch
                \/ coord[c].age > Timeout
    BY <1>2 DEF Authoritative, SourceTimedOut
  <2> HIDE DEF a, h
  <2> QED
    BY <1>2, <2>1, <2>2
<1>6. h.leader = coord[c].leader /\ h.epoch = coord[c].epoch =>
        h.over = coord[c].over /\ h.plan = coord[c].plan
  BY <1>2, <1>3, ComponentStateView
<1> HIDE DEF h
<1>7. CommitsStand'
  <2> SUFFICES ASSUME NEW m \in net, m.type = "commit" PROVE CommitStands(m)'
    BY <1>1 DEF CommitsStand
  <2>1. /\ m.leader \in Coord /\ m.leader \in Drone /\ m.epoch \in Nat
        /\ CommitStands(m)
    BY CommitFacts
  <2>2. CASE m.leader # c
    <3>1. coord'[m.leader] = coord[m.leader]
      BY <1>1, <2>1, <2>2
    <3> QED
      BY <1>1, <2>1, <3>1 DEF CommitStands, InForce, Passed
  <2>3. CASE m.leader = c
    <3>1. coord'[c] = h /\ epoch[c] \in Nat
      BY <1>1, <1>3 DEF TableInv, TypeOK
    <3> SUFFICES ASSUME m.epoch > 0,
                        ~(h.leader = coord[c].leader /\ h.epoch = coord[c].epoch)
                 PROVE  Passed(h, m)
      <4>1. CASE m.epoch = 0
        BY <2>1, <4>1 DEF CommitStands
      <4>2. CASE h.leader = coord[c].leader /\ h.epoch = coord[c].epoch
        <5>1. InForce(coord[c], m) => InForce(h, m)
          BY <1>6, <4>2 DEF InForce, SameView
        <5>2. Passed(coord[c], m) => Passed(h, m)
          BY <1>5, <4>2 DEF Passed, SameView
        <5> QED
          BY <1>1, <2>1, <2>3, <3>1, <5>1, <5>2
             DEF CommitStands, InForce, Passed
      <4> QED
        BY <1>1, <2>1, <2>3, <3>1, <4>1, <4>2 DEF CommitStands, Passed
    <3>2. /\ h.leader = s /\ h.epoch = epoch[s] /\ h.age = 0
          /\ \/ coord[c].leader = 0
             \/ coord[c].epoch = 0
             \/ s = coord[c].leader
             \/ epoch[s] > coord[c].epoch
             \/ coord[c].age > Timeout
      BY <1>5
    <3>3. /\ coord[c].leader = 0 => coord[c].epoch = 0
          /\ coord[c].leader = s => coord[c].epoch <= epoch[s]
      BY DEF StandInv, ViewInv, LeaderKnown
    <3>4. CASE InForce(coord[c], m)
      <4>1. coord[c].leader = c /\ coord[c].epoch = m.epoch
        BY <2>3, <3>4 DEF InForce, SameView
      <4>2. coord[c].age > Timeout => m.epoch < epoch[c]
        <5>1. coord[c].age > Timeout => Silent(c)
          BY <1>3, TimeoutAssumption DEF Silent
        <5> QED
          BY <4>1, <5>1 DEF StandInv, ViewInv, Neglected
      <4>3. s = c => m.epoch < epoch[c]
        BY <1>2, <3>2, <3>3, <4>1, <2>1
      <4>4. m.epoch < epoch[c] \/ m.epoch < epoch[s]
        BY <1>3, <3>2, <3>3, <4>1, <4>2, <4>3
      <4> QED
        BY <2>3, <3>2, <4>1, <4>4 DEF Passed, SameView
    <3>5. CASE Passed(coord[c], m) /\ m.epoch < epoch[c]
      <4>1. ~SameView(h, m)
        BY <2>1, <2>3, <3>1, <3>2, <3>5 DEF SameView
      <4> QED
        BY <2>3, <3>5, <4>1 DEF Passed
    <3>6. CASE Passed(coord[c], m) /\ m.epoch < coord[c].epoch /\ coord[c].age = 0
      <4>1. ~(coord[c].age > Timeout) /\ coord[c].epoch # 0 /\ coord[c].leader # 0
        BY <1>3, <2>1, <3>3, <3>6, TimeoutAssumption
      <4>2. m.epoch < epoch[s]
        BY <1>2, <1>3, <2>1, <3>2, <3>3, <3>6, <4>1
      <4> QED
        BY <1>2, <2>1, <3>2, <4>2 DEF Passed, SameView
    <3> QED
      BY <2>1, <2>3, <3>4, <3>5, <3>6 DEF CommitStands, Passed
  <2> QED
    BY <2>2, <2>3
<1> QED
  BY <1>1, <1>4, <1>7 DEF StandInv, NoReleases

\* The decisions of this tick stay.
KeepsFresh(c, h) == \A g \in Grid : c.over[g].age = 0 => h.over[g] = c.over[g]

\* A handler that keeps the view of its node, its fresh decisions and every
\* plan on a grid it did not have free, and that sends no commit.
LEMMA HandlerStands ==
  ASSUME TableInv, TableInv', StandInv, CoordUnchanged, state' = state,
         Sent({"plan"}), NEW c \in Coord, NEW h, coord' = [coord EXCEPT ![c] = h],
         h.leader = coord[c].leader, h.epoch = coord[c].epoch, h.age = coord[c].age,
         KeepsFresh(coord[c], h),
         h.plan.active => h.plan = coord[c].plan \/ h.plan.grid \in coord[c].free
  PROVE  StandInv'
<1>1. /\ UNCHANGED <<epoch>>
      /\ \A b \in Coord : coord'[b] = IF b = c THEN h ELSE coord[b]
  BY DEF CoordUnchanged, viewVars, TableInv, TypeOK
<1>2. ViewInv'
  BY <1>1, HandlerView DEF TableInv, TypeOK, StandInv
<1>3. CommitsStand'
  <2> SUFFICES ASSUME NEW m \in net, m.type = "commit", CommitStands(m)
               PROVE  CommitStands(m)'
    BY DEF CommitsStand, StandInv, Sent
  <2>1. m.leader \in Coord /\ m.grid \in Grid /\ m.drone \in Drone /\ m.drone > 0
    BY CommitFacts, DroneFacts
  <2>2. CASE m.leader # c
    BY <1>1, <2>1, <2>2 DEF CommitStands, InForce, Passed
  <2>3. CASE m.leader = c
    <3>1. Passed(coord[c], m) => Passed(h, m)
      BY DEF Passed, SameView
    <3>2. ASSUME InForce(coord[c], m) PROVE InForce(h, m)
      <4>1. m.grid \notin coord[c].free
        <5>1. OverrideWins(coord[c])
          BY TableFacts DEF Sound
        <5>2. /\ coord[c].over[m.grid] =
                   [owner |-> m.drone, version |-> m.version, age |-> 0]
              /\ m.version > 0
          BY <3>2 DEF InForce, CommitStands
        <5>3. HasOverride(coord[c], m.grid) /\ coord[c].over[m.grid].owner > 0
          BY <2>1, <5>2 DEF HasOverride
        <5> QED
          BY <2>1, <5>1, <5>3 DEF OverrideWins
      <4> QED
        BY <2>1, <3>2, <4>1 DEF InForce, SameView, KeepsFresh
    <3> QED
      BY <1>1, <2>1, <2>3, <3>1, <3>2 DEF CommitStands, InForce, Passed
  <2> QED
    BY <2>2, <2>3
<1> QED
  BY <1>2, <1>3 DEF StandInv, NoReleases, Sent

\* allocationRequestCallback plans only with what is free.
LEMMA RcvRequestStands ==
  ASSUME TableInv, StandInv, NEW m \in net, RcvRequest(m)
  PROVE  StandInv'
<1>1. CoordUnchanged /\ state' = state /\ TableInv'
  BY RcvRequestTable DEF RcvRequest
<1>2. CASE net' = Rest(m) /\ coord' = coord
  <2>1. Sent({"request", "plan", "ack"})
    BY <1>2 DEF Sent, Rest
  <2> QED
    BY <1>1, <1>2, <2>1, StandFrame DEF CoordUnchanged, ViewVars, viewVars, envVars
<1>3. ASSUME m.leader \in Coord, CanPlan(m.leader, coord[m.leader], m),
             NEW g \in Grantable(coord[m.leader], m),
             coord' = [coord EXCEPT ![m.leader] = OnRequest(@, m, g)],
             net' = Rest(m) \cup
                      {Answer("plan", m.leader, PlanFor(coord[m.leader], m, g))}
      PROVE  StandInv'
  <2> DEFINE c == m.leader
             h == OnRequest(coord[c], m, g)
  <2>1. coord[c] \in CoordState
    BY <1>3, TableFacts
  <2>2. /\ h.leader = coord[c].leader /\ h.epoch = coord[c].epoch
        /\ h.age = coord[c].age /\ h.over = coord[c].over
        /\ h.plan.grid = g
    BY <2>1 DEF OnRequest, PlanFor, CoordState
  <2>3. g \in coord[c].free
    BY <1>3 DEF Grantable
  <2>4. KeepsFresh(coord[c], h)
    BY <2>2 DEF KeepsFresh
  <2>5. Sent({"plan"})
    BY <1>3 DEF Sent, Rest, Answer
  <2>6. coord' = [coord EXCEPT ![c] = h]
    BY <1>3
  <2> HIDE DEF h
  <2> QED
    BY <1>1, <1>3, <2>2, <2>3, <2>4, <2>5, <2>6, HandlerStands
<1> QED
  BY <1>2, <1>3 DEF RcvRequest

\* pendingPlanTimerCallback forgets no decision of this tick.
LEMMA CoordTimerStands ==
  ASSUME TableInv, StandInv, NEW c \in Coord, CoordTimer(c)
  PROVE  StandInv'
<1> DEFINE h == OnTimer(coord[c])
<1>1. /\ CoordUnchanged /\ state' = state /\ net' = net /\ TableInv'
      /\ coord' = [coord EXCEPT ![c] = h]
  BY CoordTimerTable DEF CoordTimer
<1>2. /\ h.leader = coord[c].leader /\ h.epoch = coord[c].epoch /\ h.age = coord[c].age
      /\ h.plan.active => h.plan = coord[c].plan
      /\ KeepsFresh(coord[c], h)
  BY TableFacts, TimerView DEF KeepsFresh
<1>3. Sent({"plan"})
  BY <1>1 DEF Sent
<1> HIDE DEF h
<1> QED
  BY <1>1, <1>2, <1>3, HandlerStands

\* assignmentAckCallback: the new commit is in force, and it is about another
\* grid than those before it.
LEMMA RcvAckStands ==
  ASSUME TableInv, StandInv, NEW m \in net, RcvAck(m)
  PROVE  StandInv'
<1> DEFINE c == m.leader
           h == OnAck(coord[c])
           commit == Answer("commit", c, coord[c].plan)
<1>1. CoordUnchanged /\ state' = state /\ TableInv'
  BY RcvAckTable DEF RcvAck
<1>2. CASE net' = Rest(m) /\ coord' = coord
  <2>1. Sent({"request", "plan", "ack"})
    BY <1>2 DEF Sent, Rest
  <2> QED
    BY <1>1, <1>2, <2>1, StandFrame DEF CoordUnchanged, ViewVars, viewVars, envVars
<1>3. ASSUME c \in Coord, AckFits(c, coord[c], m),
             coord' = [coord EXCEPT ![c] = h], net' = Rest(m) \cup {commit}
      PROVE  StandInv'
  <2>1. /\ coord[c] \in CoordState /\ c \in Drone
        /\ coord[c].leader = c /\ coord[c].plan.active /\ coord[c].plan.version > 0
        /\ m.grid \in Grid /\ coord[c].plan.grid = m.grid
    <3>1. m.grid \in Grid
      BY MessageKinds DEF RcvAck, TableInv, TypeOK, AckMsg
    <3> QED
      BY <1>3, <3>1, TableFacts DEF AckFits, IsLeader, Sound, PlanIsLeaders
  <2>2. /\ h.leader = coord[c].leader /\ h.epoch = coord[c].epoch
        /\ h.age = coord[c].age /\ ~h.plan.active
        /\ \A g \in Grid :
             h.over[g] = IF g = m.grid
                         THEN [owner |-> coord[c].plan.owner,
                               version |-> coord[c].plan.version, age |-> 0]
                         ELSE coord[c].over[g]
    BY <2>1 DEF OnAck, NoPlan, CoordState
  <2>3. /\ commit.type = "commit" /\ commit.epoch = coord[c].epoch
        /\ commit.leader = c /\ commit.drone = coord[c].plan.owner
        /\ commit.grid = m.grid /\ commit.version = coord[c].plan.version
    BY <2>1 DEF Answer
  <2>4. /\ UNCHANGED epoch
        /\ \A b \in Coord : coord'[b] = IF b = c THEN h ELSE coord[b]
    BY <1>1, <1>3 DEF CoordUnchanged, viewVars, TableInv, TypeOK
  <2> HIDE DEF h, commit
  <2>5. ViewInv'
    BY <1>1, <2>2, <2>4, HandlerView DEF TableInv, TypeOK, StandInv
  <2>6. ASSUME NEW n, n = commit PROVE CommitStands(n)'
    BY <1>3, <2>6, <2>1, <2>2, <2>3, <2>4 DEF CommitStands, InForce, SameView
  <2>7. ASSUME NEW n \in net, n.type = "commit" PROVE CommitStands(n)'
    <3>1. n.leader \in Coord /\ n.grid \in Grid /\ CommitStands(n)
      BY <2>7, CommitFacts
    <3>2. InForce(coord[c], n) => InForce(h, n)
      BY <2>1, <2>2, <3>1 DEF InForce, SameView
    <3>3. Passed(coord[c], n) => Passed(h, n)
      BY <2>2 DEF Passed, SameView
    <3> QED
      BY <2>4, <3>1, <3>2, <3>3 DEF CommitStands, InForce, Passed
  <2>8. CommitsStand'
    BY <1>3, <2>6, <2>7 DEF CommitsStand, Rest
  <2>9. NoReleases'
    BY <1>3, <2>3 DEF StandInv, NoReleases, Rest
  <2> QED
    BY <2>5, <2>8, <2>9 DEF StandInv
<1> QED
  BY <1>2, <1>3 DEF RcvAck

\* When a tick comes, every commit has arrived.
LEMMA TickStands ==
  ASSUME TypeOK, StandInv, Timely, Tick
  PROVE  StandInv'
<1>1. net' = {}
  BY DEF Tick, OnTime
<1>2. ViewInv'
  BY TickView DEF StandInv
<1> QED
  BY <1>1, <1>2 DEF StandInv, NoReleases, CommitsStand

-----------------------------------------------------------------------------
(* The theorem.                                                            *)

\* The nodes start without a view.
LEMMA StandInit == Init \/ FormedInit => StandInv
<1> SUFFICES ASSUME Init \/ FormedInit PROVE StandInv
  OBVIOUS
<1>1. StateFresh /\ ViewMin
  BY DEF Init, FormedInit, StateFresh, ViewMin, NoSnapshot
<1>2. \A c \in Coord : coord[c].leader = 0 /\ coord[c].epoch = 0
  BY DEF Init, FormedInit, CoordInit, EmptyView
<1>3. LeaderKnown /\ Neglected
  BY <1>2, DroneFacts, CoordAssumption DEF LeaderKnown, Neglected
<1>4. NoReleases /\ CommitsStand
  BY DEF Init, FormedInit, NoReleases, CommitsStand
<1> QED
  BY <1>1, <1>3, <1>4 DEF StandInv, ViewInv

\* Every step of an instance on time, in which nobody gives a grid back.
LEMMA StandNext ==
  ASSUME Timely, MaxReleases = 0, MaxCommands = 0
  PROVE  TableInv /\ StandInv /\ [Next]_vars => StandInv'
<1> SUFFICES ASSUME TableInv, StandInv, [Next]_vars PROVE StandInv'
  OBVIOUS
<1>1. TypeOK
  BY DEF TableInv
<1>2. ASSUME NEW d \in Drone, DroneStateTimer(d) PROVE StandInv'
  BY <1>2, DroneStateTimerStands
<1>3. ASSUME NEW d \in Drone,
             \/ OptTimer(d) \/ EnterRelay(d) \/ LeaveRelay(d)
             \/ \E p \in Drone : PeerState(d, p) \/ PeerLost(d, p)
             \/ \E S \in SUBSET Grid : PlanFailureRelease(d, S) \/ MapInvalidation(d, S)
             \/ \E m \in net : RcvPlan(d, m) \/ RcvCommit(d, m)
      PROVE  StandInv'
  <2>1. UNCHANGED ViewVars /\ Sent({"request", "ack"})
    BY <1>1, <1>3, ParticipantFrame
  <2>2. Sent({"request", "plan", "ack"})
    BY <2>1 DEF Sent
  <2> QED
    BY <2>1, <2>2, StandFrame
<1>4. ASSUME NEW c \in Coord, CoordTimer(c) PROVE StandInv'
  BY <1>4, CoordTimerStands
<1>5. ASSUME NEW c \in Coord, NEW s \in Drone, RcvComponentState(c, s) PROVE StandInv'
  BY <1>5, RcvComponentStateStands
<1>6. ASSUME NEW m \in net, RcvRequest(m) PROVE StandInv'
  BY <1>6, RcvRequestStands
<1>7. ASSUME NEW m \in net, RcvAck(m) PROVE StandInv'
  BY <1>7, RcvAckStands
<1>8. ASSUME NEW m \in net, RcvRelease(m) PROVE StandInv'
  BY <1>8 DEF RcvRelease, StandInv, NoReleases
<1>9. CASE Tick
  BY <1>1, <1>9, TickStands
<1>10. CASE UNCHANGED vars
  <2>1. UNCHANGED ViewVars /\ net' = net
    BY <1>10 DEF vars, ViewVars, viewVars, envVars
  <2>2. Sent({"request", "plan", "ack"})
    BY <2>1 DEF Sent
  <2> QED
    BY <2>1, <2>2, StandFrame
<1> QED
  BY <1>2, <1>3, <1>4, <1>5, <1>6, <1>7, <1>8, <1>9, <1>10 DEF Next

\* A commit that is in its coordinator's view is in its table.
LEMMA StandInvGrants == TableInv /\ StandInv => GrantStands
<1> SUFFICES ASSUME TableInv, StandInv, NEW m \in net, m.type = "commit",
                    m.epoch > 0, m.leader \in Coord, SameView(coord[m.leader], m)
             PROVE  coord[m.leader].table[m.grid] =
                      [owner |-> m.drone, version |-> m.version]
  BY DEF GrantStands
<1>1. m.grid \in Grid /\ m.drone \in Drone /\ m.drone > 0 /\ CommitStands(m)
  BY CommitFacts, DroneFacts
<1>2. Sound(m.leader, coord[m.leader])
  BY TableFacts
<1>3. /\ coord[m.leader].over[m.grid] =
           [owner |-> m.drone, version |-> m.version, age |-> 0]
      /\ m.version > 0
  BY <1>1 DEF CommitStands, InForce, Passed
<1> QED
  BY <1>1, <1>2, <1>3 DEF Sound, OverrideWins, HasOverride

\* The coordinator that sent a commit stands by it until it has arrived, if
\* every message and timer is on time and nobody gives a grid back, whatever
\* drones lose sight of each other, split, merge and ask at the same time
\* (local_owner_overrides_, rebuildAggregatedState, componentStateCallback).
THEOREM GrantsStand ==
  ASSUME Timely, MaxReleases = 0, MaxCommands = 0
  PROVE  (Spec => []GrantStands) /\ (FormedSpec => []GrantStands)
<1>1. TableInv /\ StandInv /\ [Next]_vars => (TableInv /\ StandInv)'
  BY TableNext, StandNext
<1> QED
  BY <1>1, TableInit, StandInit, StandInvGrants, PTL DEF Spec, FormedSpec

=============================================================================
