------------------------- MODULE ComponentAllocation -------------------------
(***************************************************************************)
(* How the explorers of one connected component share out the grids: each  *)
(* drone runs the participant half in its FastExplorationFSM, and drones   *)
(* in Coord also run a component_allocation_coordinator_node; the          *)
(* coordinator whose id is the component leader's decides.                 *)
(*                                                                         *)
(*   request -> plan -> ack -> commit        (a grid is given)             *)
(*   release                                 (a grid is given back)        *)
(*   ComponentState snapshots                (who is in, who owns what)    *)
(*                                                                         *)
(* Both processes are single-threaded ros::spin loops, so each callback is *)
(* one action.  The allocation topics are shared ROS topics: their         *)
(* messages arrive once, in any order.  A ComponentState not yet read is   *)
(* overwritten by the next of its source.  DroneState goes over the radio: *)
(* a drone hears the last broadcast of a peer, sooner or later or never.   *)
(* Odometry is taken to be there, and every grid to have a frontier.       *)
(***************************************************************************)
EXTENDS CoordinatorOps, FiniteSets

CONSTANTS
  Coord,        \* the drones whose coordinator node runs
  Timely,       \* TRUE: no message or timer is late by more than a tick
  MaxTxn,       \* transaction ids wrap here
  MaxVersion,   \* bound on owner versions
  MaxRequests,  \* bound on the requests a drone's timers put in flight
  Relays,       \* the drones that the relay controllers command
  MaxCommands,  \* bound on changes of role
  MaxLosses,    \* bound on losses of sight
  MaxReleases   \* bound on releases by explorers

ASSUME CoordAssumption == Coord \subseteq Drone
ASSUME RelaysAssumption == Relays \subseteq Drone
ASSUME TimelyAssumption == Timely \in BOOLEAN
ASSUME BoundsAssumption ==
  /\ MaxTxn \in Nat \ {0} /\ MaxVersion \in Nat /\ MaxRequests \in Nat
  /\ MaxCommands \in Nat /\ MaxLosses \in Nat /\ MaxReleases \in Nat

VARIABLES
  \* --- per drone, participant (FastExplorationFSM) ---
  role,       \* current_role_
  grids,      \* swarm_state_[self].grid_ids_
  hidden,     \* pending_release_grid_ids_
  claim,      \* pending_claim_grid_ids_
  recover,    \* pending_relay_recover_grid_ids_
  suspended,  \* relay_suspended_grid_ids_
  txn,        \* pending_assignment_*
  nextTxn,    \* next_allocation_request_txn_id_
  members,    \* last_component_member_ids_, Unknown before the first timer
  epoch,      \* component_epoch_
  leader,     \* component_leader_id_
  owners,     \* component_owner_ids_ and component_owner_versions_
  seen,       \* swarm_state_[peer] and observed_peer_grid_ids_[peer]
  \* --- per coordinator ---
  coord,
  \* --- messages ---
  radio,      \* the last DroneState a drone broadcast
  state,      \* ComponentState of a source on its way to a coordinator
  net,        \* requests, plans, acks, commits and releases in flight
  \* --- the clock and the budgets of the environment ---
  due,        \* drones whose state timer has not run since the last tick
  commands, losses, releases

droneVars == <<role, grids, hidden, claim, recover, suspended>>
txnVars == <<txn, nextTxn>>
viewVars == <<members, epoch, leader, owners>>
envVars == <<due, commands, losses, releases>>
vars == <<droneVars, txnVars, viewVars, seen, coord, radio, state, net, envVars>>

-----------------------------------------------------------------------------
(* Data.                                                                   *)

Explorer == "explorer"
Relay == "relay"
Role == {Explorer, Relay}

Unknown == {0}                       \* component_members_initialized_ = false

Peer == [grids : SUBSET Grid, explorer : BOOLEAN, fresh : BOOLEAN]
NeverSeen == [grids |-> {}, explorer |-> TRUE, fresh |-> FALSE]

Txn == [active : BOOLEAN, id : Nat, epoch : Nat, leader : DroneOrNone,
        grid : Nat, version : Nat]
NoTxn == [active |-> FALSE, id |-> 0, epoch |-> 0, leader |-> 0,
          grid |-> 0, version |-> 0]

RequestMsg == [type : {"request"}, epoch : Nat, leader : Drone, drone : Drone,
               txn : Nat, recover : SUBSET Grid, claim : SUBSET Grid]
GrantMsg == [type : {"plan", "commit"}, epoch : Nat, leader : Drone,
             drone : Drone, txn : Nat, grid : Grid, version : Nat]
AckMsg == [type : {"ack"}, epoch : Nat, leader : Drone, drone : Drone,
           txn : Nat, grid : Grid, version : Nat, accept : BOOLEAN]
ReleaseMsg == [type : {"release"}, epoch : Nat, leader : Drone, drone : Drone,
               grids : SUBSET Grid, versions : [Grid -> Nat]]
Message == RequestMsg \cup GrantMsg \cup AckMsg \cup ReleaseMsg

\* The smallest member; 0 if there is none.
IsMinimum(d, S) == d \in S /\ \A e \in S : d <= e
Minimum(S) == IF \E d \in S : IsMinimum(d, S)
              THEN CHOOSE d \in S : IsMinimum(d, S) ELSE 0

\* Every grid stays active: explored-out grids are not modelled here.
Active == Grid

-----------------------------------------------------------------------------
(* Helpers of the participant.                                             *)

\* getEffectiveSelfGridIds
Effective(d) == IF role[d] = Relay THEN {} ELSE grids[d] \ hidden[d]

\* Mutant: the drone looks up its own grids where it keeps those of peers.
HeldAsObserved(d, a) == seen[d][a].grids

\* What drone d believes agent a holds.
Held(d, a) == IF a = d THEN Effective(d) ELSE seen[d][a].grids

Assignable(d, a) == IF a = d THEN role[d] = Explorer ELSE seen[d][a].explorer

Visible(d, a) == a = d \/ seen[d][a].fresh

\* findUnallocated: a peer out of sight still counts, with its last grids.
Missed(d) ==
  {g \in Active : \A a \in Drone : Assignable(d, a) => g \notin Held(d, a)}

\* tryClaimUnallocatedGrids: the agents among which the missed grids are
\* shared out, the idle ones if there are any.
Candidates(d) ==
  LET assignable == {a \in Drone : Visible(d, a) /\ Assignable(d, a)}
      idle == {a \in assignable : Held(d, a) = {}}
  IN  IF idle = {} THEN assignable ELSE idle

\* The share of d: all if there is no other candidate; what the distances
\* and loads say otherwise.
Shares(d) ==
  IF d \notin Candidates(d) THEN {}
  ELSE IF Candidates(d) = {d} THEN {Missed(d)} \ {{}}
  ELSE SUBSET Missed(d) \ {{}}

\* Mutant: the id wraps to 0, which assignmentPlanCallback takes for none.
NextTxnIdFromZero(n) == (n + 1) % MaxTxn

\* next_allocation_request_txn_id_ after a request.
NextTxnId(n) == (n % MaxTxn) + 1

\* publishAllocationRequest, for the candidates rec and cl.
Request(d, ep, ld, rec, cl) ==
  [type |-> "request", epoch |-> ep, leader |-> ld, drone |-> d,
   txn |-> nextTxn[d], recover |-> rec, claim |-> cl \ rec]

\* What both publishers ask first.
InComponent(d) == members[d] # Unknown /\ leader[d] > 0

\* net and nextTxn after publishAllocationRequest; staged says whether a
\* transaction is, sent is what the callback left in net before.
PublishRequest(d, rec, cl, staged, sent) ==
  IF InComponent(d) /\ rec \cup cl # {} /\ ~staged
  THEN /\ net' = sent \cup {Request(d, epoch[d], leader[d], rec, cl)}
       /\ nextTxn' = [nextTxn EXCEPT ![d] = NextTxnId(@)]
  ELSE /\ net' = sent
       /\ UNCHANGED nextTxn

\* publishReleaseRequest: versions as the drone itself counts them.
Release(d, S) ==
  [type |-> "release", epoch |-> epoch[d], leader |-> leader[d], drone |-> d,
   grids |-> S,
   versions |-> [g \in Grid |-> IF owners[d][g].version = 0 THEN 1
                                ELSE owners[d][g].version]]

ReleaseSent(d, S) == IF InComponent(d) /\ S # {} THEN {Release(d, S)} ELSE {}

\* A callback consumes the message it was given.
Rest(m) == net \ {m}

-----------------------------------------------------------------------------
Init ==
  /\ role = [d \in Drone |-> Explorer]
  /\ grids = [d \in Drone |-> {}]
  /\ hidden = [d \in Drone |-> {}]
  /\ claim = [d \in Drone |-> {}]
  /\ recover = [d \in Drone |-> {}]
  /\ suspended = [d \in Drone |-> {}]
  /\ txn = [d \in Drone |-> NoTxn]
  /\ nextTxn = [d \in Drone |-> 1]
  /\ members = [d \in Drone |-> Unknown]
  /\ epoch = [d \in Drone |-> 0]
  /\ leader = [d \in Drone |-> 0]
  /\ owners = [d \in Drone |-> [g \in Grid |-> Unowned]]
  /\ seen = [d \in Drone |-> [p \in Drone |-> NeverSeen]]
  /\ coord = [c \in Coord |-> CoordInit]
  /\ radio = [d \in Drone |-> NeverSeen]
  /\ state = [c \in Coord |-> [s \in Drone |-> NoSnapshot]]
  /\ net = {}
  /\ due = IF Timely THEN Drone ELSE {}
  /\ commands = 0
  /\ losses = 0
  /\ releases = 0

\* The drones have seen each other, so each is in its second view, of all of
\* them; the coordinators have just been started.
FormedInit ==
  /\ role = [d \in Drone |-> Explorer]
  /\ grids = [d \in Drone |-> {}]
  /\ hidden = [d \in Drone |-> {}]
  /\ claim = [d \in Drone |-> {}]
  /\ recover = [d \in Drone |-> {}]
  /\ suspended = [d \in Drone |-> {}]
  /\ txn = [d \in Drone |-> NoTxn]
  /\ nextTxn = [d \in Drone |-> 1]
  /\ members = [d \in Drone |-> Drone]
  /\ epoch = [d \in Drone |-> 1]
  /\ leader = [d \in Drone |-> Minimum(Drone)]
  /\ owners = [d \in Drone |-> [g \in Grid |-> Unowned]]
  /\ radio = [d \in Drone |-> [NeverSeen EXCEPT !.fresh = TRUE]]
  /\ seen = [d \in Drone |-> [p \in Drone |-> IF p = d THEN NeverSeen ELSE radio[p]]]
  /\ coord = [c \in Coord |-> CoordInit]
  /\ state = [c \in Coord |-> [s \in Drone |-> NoSnapshot]]
  /\ net = {}
  /\ due = IF Timely THEN Drone ELSE {}
  /\ commands = 0
  /\ losses = 0
  /\ releases = 0

-----------------------------------------------------------------------------
(* The participant.                                                        *)

\* Mutant: a new epoch of the same leader goes unnoticed.
SurvivingByLeader(t, ep, ld) ==
  IF t.active /\ t.leader # ld THEN NoTxn ELSE t

\* What is left of the staged transaction t in the view (ep, ld).
Surviving(t, ep, ld) ==
  IF t.active /\ (t.epoch # ep \/ t.leader # ld) THEN NoTxn ELSE t

\* droneStateTimerCallback: recompute the component view, drop a staged
\* transaction of another view, broadcast DroneState and ComponentState.
DroneStateTimer(d) ==
  LET eff  == Effective(d)
      mem  == {a \in Drone : Visible(d, a) /\ Assignable(d, a)}
      ep   == IF members[d] \notin {Unknown, mem} THEN epoch[d] + 1 ELSE epoch[d]
      ld   == Minimum(mem)
      own  == [g \in Grid |-> Minimum({a \in mem : g \in Held(d, a)})]
      vers == [g \in Grid |->
                 IF own[g] = 0 THEN Unowned
                 ELSE [owner   |-> own[g],
                       version |-> IF owners[d][g].owner = 0 THEN 1
                                   ELSE IF owners[d][g].owner # own[g]
                                        THEN owners[d][g].version + 1
                                        ELSE owners[d][g].version]]
      snap == [known |-> TRUE, epoch |-> ep, leader |-> ld, owned |-> vers,
               free |-> {g \in Active : own[g] = 0}, age |-> 0]
  IN  /\ \A g \in Grid : vers[g].version <= MaxVersion
      /\ members' = [members EXCEPT ![d] = mem]
      /\ epoch' = [epoch EXCEPT ![d] = ep]
      /\ leader' = [leader EXCEPT ![d] = ld]
      /\ owners' = [owners EXCEPT ![d] = vers]
      /\ txn' = [txn EXCEPT ![d] = Surviving(@, ep, ld)]
      /\ radio' = [radio EXCEPT ![d] =
                     [grids |-> eff, explorer |-> role[d] = Explorer, fresh |-> TRUE]]
      /\ state' = [c \in Coord |-> [state[c] EXCEPT ![d] = snap]]
      /\ due' = due \ {d}
      /\ UNCHANGED <<droneVars, nextTxn, seen, coord, net, commands, losses, releases>>

\* tryClaimUnallocatedGrids, once its share is not empty.
ClaimShare(d, share, sent) ==
  /\ Cardinality({m \in net : m.type = "request" /\ m.drone = d}) < MaxRequests
  /\ claim' = [claim EXCEPT ![d] = share]
  /\ PublishRequest(d, recover[d], share, txn[d].active, sent)

\* optTimerCallback (the pair-wise part is switched off) and the IDLE case of
\* FSMCallback: claim missed grids.  The first waits for a staged
\* transaction, the second only serves a drone without grids.  An attempt
\* that the rate limit or the lack of frontiers turns down changes nothing.
OptTimer(d) ==
  /\ role[d] = Explorer
  /\ ~txn[d].active \/ Effective(d) = {}
  /\ \E share \in Shares(d) : ClaimShare(d, share, net)
  /\ UNCHANGED <<role, grids, hidden, recover, suspended, txn, viewVars, seen,
                 coord, radio, state, envVars>>

\* droneStateMsgCallback: the broadcast of p reaches d.  A peer that was an
\* explorer and now is a relay makes an idle d claim at once.
PeerState(d, p) ==
  LET enteredRelay == seen[d][p].explorer /\ ~radio[p].explorer
  IN  /\ d # p
      /\ radio[p].fresh
      /\ seen[d][p] # radio[p]
      /\ seen' = [seen EXCEPT ![d][p] = radio[p]]
      /\ UNCHANGED <<role, grids, hidden, recover, suspended, txn, viewVars,
                     coord, radio, state, envVars>>
      /\ \/ /\ enteredRelay
            /\ role[d] = Explorer
            /\ Effective(d) = {}
            /\ \E share \in Shares(d)' : ClaimShare(d, share, net)
         \/ UNCHANGED <<claim, net, nextTxn>>

\* The peer's state is older than kPeerStateFreshnessSec.
PeerLost(d, p) ==
  /\ losses < MaxLosses
  /\ seen[d][p].fresh
  /\ seen' = [seen EXCEPT ![d][p].fresh = FALSE]
  /\ losses' = losses + 1
  /\ UNCHANGED <<droneVars, txnVars, viewVars, coord, radio, state, net,
                 due, commands, releases>>

\* FSMCallback, PLAN_TRAJ: after repeated planning failures the drone hides
\* one of several grids, or all it has, once the coordinator could be told.
PlanFailureRelease(d, S) ==
  /\ releases < MaxReleases
  /\ role[d] = Explorer
  /\ ~txn[d].active
  /\ InComponent(d)
  /\ S # {} /\ S \subseteq Effective(d)
  /\ S = Effective(d) \/ Cardinality(S) = 1
  /\ net' = net \cup {Release(d, S)}
  /\ hidden' = [hidden EXCEPT ![d] = @ \cup S]
  /\ releases' = releases + 1
  /\ UNCHANGED <<role, grids, claim, recover, suspended, txnVars, viewVars,
                 seen, coord, radio, state, due, commands, losses>>

\* handleRemoteMapUpdate: grids that lost their frontiers to a peer's map are
\* hidden whether or not the coordinator could be told; an idle drone left
\* with none claims others.
MapInvalidation(d, S) ==
  LET sent == net \cup ReleaseSent(d, S)
  IN  /\ releases < MaxReleases
      /\ role[d] = Explorer
      /\ S # {} /\ S \subseteq Effective(d)
      /\ hidden' = [hidden EXCEPT ![d] = @ \cup S]
      /\ releases' = releases + 1
      /\ UNCHANGED <<role, grids, recover, suspended, txn, viewVars, seen,
                     coord, radio, state, due, commands, losses>>
      /\ \/ net' = sent /\ UNCHANGED <<claim, nextTxn>>
         \/ /\ S = Effective(d)
            /\ \E share \in Shares(d)' : ClaimShare(d, share, sent)

\* relayRoleCmdCallback, entering relay duty.
EnterRelay(d) ==
  /\ d \in Relays /\ commands < MaxCommands
  /\ role[d] = Explorer
  /\ role' = [role EXCEPT ![d] = Relay]
  /\ suspended' = [suspended EXCEPT ![d] = grids[d]]
  /\ hidden' = [hidden EXCEPT ![d] = @ \cup grids[d]]
  /\ net' = net \cup ReleaseSent(d, grids[d])
  /\ claim' = [claim EXCEPT ![d] = {}]
  /\ recover' = [recover EXCEPT ![d] = {}]
  /\ txn' = [txn EXCEPT ![d] = NoTxn]
  /\ grids' = [grids EXCEPT ![d] = {}]
  /\ commands' = commands + 1
  /\ UNCHANGED <<nextTxn, viewVars, seen, coord, radio, state, due, losses, releases>>

\* relayRoleCmdCallback, leaving it: recoverAssignmentAfterRelayExit asks for
\* the suspended grids nobody took, or else claims like any idle explorer.
LeaveRelay(d) ==
  LET back == suspended[d] \cap Missed(d)'
  IN  /\ d \in Relays /\ commands < MaxCommands
      /\ role[d] = Relay
      /\ role' = [role EXCEPT ![d] = Explorer]
      /\ UNCHANGED <<grids, hidden, suspended, txn, viewVars, seen, coord,
                     radio, state, due, losses, releases>>
      /\ recover' = [recover EXCEPT ![d] = back]
      /\ \/ /\ back # {}
            /\ claim' = [claim EXCEPT ![d] = {}]
            /\ PublishRequest(d, back, {}, txn[d].active, net)
         \/ /\ back = {}
            /\ \E share \in Shares(d)' :
                 /\ claim' = [claim EXCEPT ![d] = share]
                 /\ PublishRequest(d, {}, share, txn[d].active, net)
         \/ /\ back = {}
            /\ PublishRequest(d, {}, claim[d], txn[d].active, net)
            /\ UNCHANGED claim
      /\ commands' = commands + 1

InView(d, m) == m.epoch = epoch[d] /\ m.leader = leader[d]

TxnOf(m) == [active |-> TRUE, id |-> m.txn, epoch |-> m.epoch,
             leader |-> m.leader, grid |-> m.grid, version |-> m.version]

Ack(m, ok) ==
  [type |-> "ack", epoch |-> m.epoch, leader |-> m.leader, drone |-> m.drone,
   txn |-> m.txn, grid |-> m.grid, version |-> m.version, accept |-> ok]

\* assignmentPlanCallback: stage the plan and accept it, or refuse it as a
\* relay; a plan of another view, or one that conflicts with the staged one,
\* is dropped without an answer.
RcvPlan(d, m) ==
  /\ m \in net /\ m.type = "plan" /\ m.drone = d
  /\ \/ /\ ~InView(d, m)
        /\ net' = Rest(m)
        /\ UNCHANGED txn
     \/ /\ InView(d, m)
        /\ role[d] = Relay
        /\ net' = Rest(m) \cup {Ack(m, FALSE)}
        /\ UNCHANGED txn
     \/ /\ InView(d, m)
        /\ role[d] = Explorer
        /\ txn[d].active /\ txn[d] # TxnOf(m)
        /\ net' = Rest(m)
        /\ UNCHANGED txn
     \/ /\ InView(d, m)
        /\ role[d] = Explorer
        /\ txn[d] \in {NoTxn, TxnOf(m)}
        /\ net' = Rest(m) \cup {Ack(m, TRUE)}
        /\ txn' = [txn EXCEPT ![d] = TxnOf(m)]
  /\ UNCHANGED <<droneVars, nextTxn, viewVars, seen, coord, radio, state, envVars>>

\* Mutant: any commit to the drone in its view is applied.
AppliesUnstaged(d, m) == InView(d, m) /\ m.drone = d

\* A commit is applied only if it is the staged one.
Applies(d, m) == InView(d, m) /\ txn[d] = TxnOf(m)

\* assignmentCommitCallback: the grid becomes the drone's, leaves every
\* staging list, and the remaining candidates are requested.
RcvCommit(d, m) ==
  /\ m \in net /\ m.type = "commit" /\ m.drone = d
  /\ \/ /\ ~Applies(d, m)
        /\ net' = Rest(m)
        /\ UNCHANGED <<grids, hidden, claim, recover, txnVars>>
     \/ /\ Applies(d, m)
        /\ grids' = [grids EXCEPT ![d] = @ \cup {m.grid}]
        /\ hidden' = [hidden EXCEPT ![d] = @ \ {m.grid}]
        /\ claim' = [claim EXCEPT ![d] = @ \ {m.grid}]
        /\ recover' = [recover EXCEPT ![d] = @ \ {m.grid}]
        /\ txn' = [txn EXCEPT ![d] = NoTxn]
        /\ PublishRequest(d, recover[d] \ {m.grid}, claim[d] \ {m.grid},
                          FALSE, Rest(m))
  /\ UNCHANGED <<role, suspended, viewVars, seen, coord, radio, state, envVars>>

-----------------------------------------------------------------------------
(* The coordinators.                                                       *)

CoordUnchanged ==
  UNCHANGED <<droneVars, txnVars, viewVars, seen, radio, envVars>>

RcvComponentState(c, s) ==
  /\ state[c][s].known
  /\ coord' = [coord EXCEPT ![c] = OnComponentState(@, s, state[c][s])]
  /\ state' = [state EXCEPT ![c][s] = NoSnapshot]
  /\ CoordUnchanged /\ UNCHANGED net

Answer(type, c, p) ==
  [type |-> type, epoch |-> coord[c].epoch, leader |-> c, drone |-> p.owner,
   txn |-> p.txn, grid |-> p.grid, version |-> p.version]

\* A request reaches the coordinator of the leader it names; the others drop
\* it, as does that one when it does not lead that view, has a plan in
\* progress, or has none of the grids free.
RcvRequest(m) ==
  /\ m \in net /\ m.type = "request"
  /\ LET c == m.leader
     IN  \/ /\ c \in Coord
            /\ CanPlan(c, coord[c], m)
            /\ \E g \in Grantable(coord[c], m) :
                 LET p == PlanFor(coord[c], m, g)
                 IN  /\ p.version <= MaxVersion
                     /\ coord' = [coord EXCEPT ![c] = OnRequest(@, m, g)]
                     /\ net' = Rest(m) \cup {Answer("plan", c, p)}
         \/ /\ c \in Coord =>
                 ~CanPlan(c, coord[c], m) \/ Grantable(coord[c], m) = {}
            /\ net' = Rest(m)
            /\ UNCHANGED coord
  /\ CoordUnchanged /\ UNCHANGED state

RcvAck(m) ==
  /\ m \in net /\ m.type = "ack"
  /\ LET c == m.leader
     IN  \/ /\ c \in Coord
            /\ AckFits(c, coord[c], m)
            /\ coord' = [coord EXCEPT ![c] = OnAck(@)]
            /\ net' = Rest(m) \cup {Answer("commit", c, coord[c].plan)}
         \/ /\ c \in Coord => ~AckFits(c, coord[c], m)
            /\ net' = Rest(m)
            /\ UNCHANGED coord
  /\ CoordUnchanged /\ UNCHANGED state

RcvRelease(m) ==
  /\ m \in net /\ m.type = "release"
  /\ coord' = IF m.leader \in Coord
              THEN [coord EXCEPT ![m.leader] = OnRelease(m.leader, @, m)]
              ELSE coord
  /\ net' = Rest(m)
  /\ CoordUnchanged /\ UNCHANGED state

CoordTimer(c) ==
  /\ TimerDue(coord[c])
  /\ coord' = [coord EXCEPT ![c] = OnTimer(@)]
  /\ CoordUnchanged /\ UNCHANGED <<state, net>>

-----------------------------------------------------------------------------
(* The clock.  A tick is one Timeout-th of the one-second timeouts.  When  *)
(* Timely, every timer (0.04 s to 0.5 s) has run since the last tick, and  *)
(* no message is in flight across one.                                     *)

OnTime ==
  /\ due = {}
  /\ net = {}
  /\ \A c \in Coord : ~TimerDue(coord[c])
  /\ \A c \in Coord, s \in Drone : ~state[c][s].known

Tick ==
  /\ Timely => OnTime
  /\ coord' = [c \in Coord |-> Aged(coord[c])]
  /\ state' = [c \in Coord |-> [s \in Drone |-> AgedSnapshot(state[c][s])]]
  /\ due' = IF Timely THEN Drone ELSE due
  /\ UNCHANGED <<droneVars, txnVars, viewVars, seen, radio, net, commands, losses, releases>>

-----------------------------------------------------------------------------
Next ==
  \/ \E d \in Drone :
       \/ DroneStateTimer(d)
       \/ OptTimer(d)
       \/ EnterRelay(d)
       \/ LeaveRelay(d)
       \/ \E p \in Drone : PeerState(d, p) \/ PeerLost(d, p)
       \/ \E S \in SUBSET Grid : PlanFailureRelease(d, S) \/ MapInvalidation(d, S)
       \/ \E m \in net : RcvPlan(d, m) \/ RcvCommit(d, m)
  \/ \E c \in Coord :
       \/ CoordTimer(c)
       \/ \E s \in Drone : RcvComponentState(c, s)
  \/ \E m \in net : RcvRequest(m) \/ RcvAck(m) \/ RcvRelease(m)
  \/ Tick

Spec == Init /\ [][Next]_vars
FormedSpec == FormedInit /\ [][Next]_vars

-----------------------------------------------------------------------------
(* Properties.                                                             *)

\* Every variable keeps its type.
TypeOK ==
  /\ role \in [Drone -> Role]
  /\ grids \in [Drone -> SUBSET Grid]
  /\ hidden \in [Drone -> SUBSET Grid]
  /\ claim \in [Drone -> SUBSET Grid]
  /\ recover \in [Drone -> SUBSET Grid]
  /\ suspended \in [Drone -> SUBSET Grid]
  /\ txn \in [Drone -> Txn]
  /\ nextTxn \in [Drone -> Nat \ {0}]
  /\ members \in [Drone -> {Unknown} \cup SUBSET Drone]
  /\ epoch \in [Drone -> Nat]
  /\ leader \in [Drone -> DroneOrNone]
  /\ owners \in [Drone -> [Grid -> OwnershipRecord]]
  /\ seen \in [Drone -> [Drone -> Peer]]
  /\ coord \in [Coord -> CoordState]
  /\ radio \in [Drone -> Peer]
  /\ state \in [Coord -> [Drone -> Snapshot]]
  /\ net \subseteq Message
  /\ due \subseteq Drone
  /\ commands \in Nat
  /\ losses \in Nat
  /\ releases \in Nat

\* A relay holds no grid and has promised to take none: a transaction staged
\* before the role command must not end in a grid while it hovers
\* (relayRoleCmdCallback, assignmentPlanCallback, assignmentCommitCallback).
RelayHoldsNothing ==
  \A d \in Drone : role[d] = Relay => grids[d] = {} /\ ~txn[d].active

\* No drone asks for a grid it already holds: the staging lists are cleaned
\* by the same commit that gives the grid (assignmentCommitCallback).
CandidatesUnowned ==
  \A d \in Drone : (claim[d] \cup recover[d]) \cap Effective(d) = {}

\* A staged transaction is of the drone's present view: a drone that moved to
\* another component view can not be given a grid by the old leader
\* (droneStateTimerCallback clears it in the same callback).
StagedTxnIsCurrent ==
  \A d \in Drone :
    txn[d].active => txn[d].epoch = epoch[d] /\ txn[d].leader = leader[d]

\* The coordinators' tables are consistent, whatever snapshots, acks and
\* releases came in which order (rebuildAggregatedState and the handlers).
CoordinatorsSound == \A c \in Coord : Sound(c, coord[c])


\* No two drones hold the same grid.
Exclusive ==
  \A d, e \in Drone : d # e => Effective(d) \cap Effective(e) = {}

\* While a commit travels, the coordinator that sent it stands by it, as long
\* as it is in the view that the commit names: no late snapshot, no plan for
\* another drone and no other view in between makes the grid another's or free.
\* In epoch 0, which the coordinator takes for "no epoch yet", it does not; nor
\* against a release that a snapshot has overtaken, which may name the version
\* of the new grant (releaseRequestCallback).
GrantStands ==
  \A m \in net :
    /\ m.type = "commit"
    /\ m.epoch > 0
    /\ m.leader \in Coord
    /\ SameView(coord[m.leader], m)
    => coord[m.leader].table[m.grid] = [owner |-> m.drone, version |-> m.version]

-----------------------------------------------------------------------------
(* ComponentAllocation implements AssignmentGrant: acks that accept are    *)
(* promises, commits are decisions, staged transactions are what drones    *)
(* wait for.                                                               *)

Grant == [drone : Drone, leader : Drone, epoch : Nat, txn : Nat,
          grid : Grid, version : Nat]

GrantIn(m) == [drone |-> m.drone, leader |-> m.leader, epoch |-> m.epoch,
               txn |-> m.txn, grid |-> m.grid, version |-> m.version]

StagedBy(d) ==
  IF ~txn[d].active THEN NoTxn
  ELSE [drone |-> d, leader |-> txn[d].leader, epoch |-> txn[d].epoch,
        txn |-> txn[d].id, grid |-> txn[d].grid, version |-> txn[d].version]

Promises == {m \in net : m.type = "ack" /\ m.accept}
Decisions == {m \in net : m.type = "commit"}

AllHeld == [d \in Drone |-> Effective(d)]
AllStaged == [d \in Drone |-> StagedBy(d)]
AllPromised == {GrantIn(m) : m \in Promises}
AllDecided == {GrantIn(m) : m \in Decisions}

Granting == INSTANCE AssignmentGrant WITH
  NoGrant  <- NoTxn,
  held     <- AllHeld,
  staged   <- AllStaged,
  promised <- AllPromised,
  decided  <- AllDecided

\* Grids change hands only by the assignment transaction, through changes of
\* view, relay duty, time-outs and lost answers.
Grants == Granting!Spec

=============================================================================
