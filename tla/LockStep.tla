------------------------------ MODULE LockStep ------------------------------
(***************************************************************************)
(* The lock-step of the co-simulation: the coordinator, the network        *)
(* connector (ns-3) and the physics connector (racer_real_phy_bridge) are  *)
(* three processes joined by two sockets.  In every step the coordinator   *)
(* samples the states of the agents, has the network simulate one window,  *)
(* hands the packets heard in it to the physics connector and advances the *)
(* clock.  Each process keeps a clock of its own: they must agree, and the *)
(* packets must come out once, in order and on time.                       *)
(*                                                                         *)
(*   coordinator --BEGIN states-->          NET --END packets--> coord.    *)
(*   coordinator --BEGIN states, packets--> PHY --END-->         coord.    *)
(*   coordinator --CLOSE-->                 NET, PHY                       *)
(*                                                                         *)
(* ROS callbacks (odometry, packets to send) run in threads beside the     *)
(* lock-step and fall between any two of its steps.  A process may die;    *)
(* its sockets then close.  What ns-3 does with a packet is external:      *)
(* heard within the window, later, or never.  A packet heard by several    *)
(* receivers counts as several packets.                                    *)
(***************************************************************************)
EXTENDS Integers, Sequences, FiniteSets

CONSTANTS
  Agent, Packet,
  Steps,       \* simulation_length, in steps
  Step,        \* sync_window = phy_step_size = net_step_size
  Shortfall,   \* what rounding step_size takes off a window on the ns-3
               \* clock; negative if it adds to it
  Delay,       \* comm_processing_delay_us
  Ttl,         \* comm_ttl_us, 0 for none
  MaxAge,      \* agent_state_max_age_us
  Tolerance,   \* agent_state_future_tolerance_us
  MaxDeaths    \* bound on connectors that die

ASSUME TimesAssumption ==
  /\ Step \in Nat \ {0} /\ Shortfall \in Int /\ Shortfall < Step
  /\ Delay \in Nat /\ Ttl \in Nat /\ MaxAge \in Nat /\ Tolerance \in Nat
ASSUME BoundsAssumption == Steps \in Nat /\ MaxDeaths \in Nat

VARIABLES
  \* --- coordinator ---
  phase,      \* where RunStrictLockstep_ is
  step,       \* step_idx; current_sim_time_ is step * Step
  odom,       \* cached_agent_states_: the stamp of the last odometry, 0 if none
  sample,     \* agent_states_gz of this step
  \* --- sockets ---
  request, reply,
  conn,       \* where each connector's Loop is
  \* --- network connector ---
  netIt,      \* it
  netPos,     \* agents_: the stamp of the position in use
  stage,      \* where each packet is on its way through the network
  \* --- physics connector ---
  phyIt,      \* it
  phyPos,     \* snapshots_
  pending,    \* pending_delivered_packets_
  out,        \* packets published on the rx topic
  expired,    \* packets dropped for their age
  \* --- the budget of the environment ---
  deaths

coordVars == <<phase, step, sample>>
netVars == <<netIt, netPos, stage>>
phyVars == <<phyIt, phyPos, pending, out, expired>>
vars == <<coordVars, odom, request, reply, conn, netVars, phyVars, deaths>>

-----------------------------------------------------------------------------
(* Data.                                                                   *)

NET == "net"
PHY == "phy"
Connector == {NET, PHY}

Phase == {"accept_phy", "accept_net", "sample", NET, PHY, "done", "failed"}
Over == phase \in {"done", "failed"}

Heard == [packet : Packet, rx : Nat]
Out == [packet : Packet, rx : Nat, at : Nat]
Sample == [Agent -> [stamp : Nat, usable : BOOLEAN]]

Begin(states, packets) == [type |-> "BEGIN", states |-> states, packets |-> packets]
Close == [type |-> "CLOSE", states |-> <<>>, packets |-> {}]

Now == step * Step                       \* current_sim_time_

\* One window on the clock of ns-3, where step_size is a float: that clock may
\* fall behind the others or run ahead of them.
NetWindow == Step - Shortfall
WindowTimes == netIt * NetWindow .. (netIt + 1) * NetWindow

StepEnd == Step * (phyIt + 1)            \* CurrentStepEndSimUs

-----------------------------------------------------------------------------
(* The coordinator.                                                        *)

\* EvaluateAgentStateFreshness_; 0 is no stamp.
Usable(stamp) ==
  /\ stamp > 0
  /\ IF stamp > Now THEN stamp - Now <= Tolerance ELSE Now - stamp <= MaxAge

Init ==
  /\ phase = "accept_phy"
  /\ step = 0
  /\ odom = [a \in Agent |-> 0]
  /\ sample = [a \in Agent |-> [stamp |-> 0, usable |-> FALSE]]
  /\ request = [c \in Connector |-> <<>>]
  /\ reply = [c \in Connector |-> <<>>]
  /\ conn = [c \in Connector |-> "connecting"]
  /\ netIt = 0
  /\ netPos = [a \in Agent |-> 0]
  /\ stage = [p \in Packet |-> "new"]
  /\ phyIt = 0
  /\ phyPos = [a \in Agent |-> 0]
  /\ pending = {}
  /\ out = {}
  /\ expired = {}
  /\ deaths = 0

\* AcceptSocket_: physics first, then the network.
Accept(c, next) ==
  /\ conn[c] = "connecting"
  /\ conn' = [conn EXCEPT ![c] = "serving"]
  /\ phase' = next
  /\ UNCHANGED <<step, sample, odom, request, reply, netVars, phyVars, deaths>>

AcceptPhy == phase = "accept_phy" /\ Accept(PHY, "accept_net")
AcceptNet == phase = "accept_net" /\ Accept(NET, "sample")

\* OdomCallback_, in the spinner's thread: the cache always takes the last
\* message, whatever its stamp.
Odometry(a, stamp) ==
  /\ ~Over
  /\ stamp # odom[a]
  /\ odom' = [odom EXCEPT ![a] = stamp]
  /\ UNCHANGED <<coordVars, request, reply, conn, netVars, phyVars, deaths>>

\* BuildAgentStatesGz_ and the request to the network.
AskNet ==
  /\ phase = "sample" /\ step < Steps
  /\ sample' = [a \in Agent |-> [stamp |-> odom[a], usable |-> Usable(odom[a])]]
  /\ request' = [request EXCEPT ![NET] = Append(@, Begin(sample', {}))]
  /\ phase' = NET
  /\ UNCHANGED <<step, odom, reply, conn, netVars, phyVars, deaths>>

\* Mutant: the states are sampled again for the physics connector.
AskPhyAfresh ==
  /\ phase = NET /\ reply[NET] # <<>>
  /\ reply' = [reply EXCEPT ![NET] = Tail(@)]
  /\ request' = [request EXCEPT ![PHY] = Append(@,
       Begin([a \in Agent |-> [stamp |-> odom[a], usable |-> Usable(odom[a])]],
             Head(reply[NET])))]
  /\ phase' = PHY
  /\ UNCHANGED <<step, sample, odom, conn, netVars, phyVars, deaths>>

\* The network's END, and the request to the physics connector.
AskPhy ==
  /\ phase = NET /\ reply[NET] # <<>>
  /\ reply' = [reply EXCEPT ![NET] = Tail(@)]
  /\ request' = [request EXCEPT ![PHY] = Append(@, Begin(sample, Head(reply[NET])))]
  /\ phase' = PHY
  /\ UNCHANGED <<step, sample, odom, conn, netVars, phyVars, deaths>>

\* Mutant: the coordinator does not wait for the physics connector.
AdvanceEarly ==
  /\ phase = PHY
  /\ reply' = [reply EXCEPT ![PHY] = <<>>]
  /\ step' = step + 1
  /\ phase' = "sample"
  /\ UNCHANGED <<sample, odom, request, conn, netVars, phyVars, deaths>>

\* The physics connector's END: the clock advances.
Advance ==
  /\ phase = PHY /\ reply[PHY] # <<>>
  /\ reply' = [reply EXCEPT ![PHY] = Tail(@)]
  /\ step' = step + 1
  /\ phase' = "sample"
  /\ UNCHANGED <<sample, odom, request, conn, netVars, phyVars, deaths>>

\* SendClose_ to both; sending to a dead connector may throw or not.
Finish ==
  /\ phase = "sample" /\ step = Steps
  /\ request' = [c \in Connector |-> Append(request[c], Close)]
  /\ phase' = "done"
  /\ UNCHANGED <<step, sample, odom, reply, conn, netVars, phyVars, deaths>>

\* receive_one_message throws in RoundTrip_, or send_one_message does: what
\* was sent before is lost.
PeerGone ==
  /\ \E c \in Connector :
       /\ phase = c /\ reply[c] = <<>>
       /\ conn[c] = "gone"
  /\ phase' = "failed"
  /\ UNCHANGED <<step, sample, odom, request, reply, conn, netVars, phyVars, deaths>>

-----------------------------------------------------------------------------
(* What the connectors share (Connector::Loop).                            *)

\* connect: twenty tries, then exit.
GiveUp(c) ==
  /\ conn[c] = "connecting"
  /\ conn' = [conn EXCEPT ![c] = "gone"]
  /\ UNCHANGED <<coordVars, odom, request, reply, netVars, phyVars, deaths>>

Serves(c) ==
  /\ conn[c] = "serving" /\ request[c] # <<>>
  /\ Head(request[c]).type = "BEGIN"

\* Mutant: the end of the stream goes unnoticed.
LeaveOnClose(c) ==
  /\ conn[c] = "serving"
  /\ request[c] # <<>> /\ Head(request[c]) = Close
  /\ conn' = [conn EXCEPT ![c] = "gone"]
  /\ UNCHANGED <<coordVars, odom, request, reply, netVars, phyVars, deaths>>

\* CLOSE, or the end of the stream once everything sent has been read.
Leave(c) ==
  /\ conn[c] = "serving"
  /\ \/ request[c] # <<>> /\ Head(request[c]) = Close
     \/ request[c] = <<>> /\ Over
  /\ conn' = [conn EXCEPT ![c] = "gone"]
  /\ UNCHANGED <<coordVars, odom, request, reply, netVars, phyVars, deaths>>

\* The process dies between two steps of its loop.
Die(c) ==
  /\ conn[c] = "serving" /\ ~Over /\ deaths < MaxDeaths
  /\ conn' = [conn EXCEPT ![c] = "gone"]
  /\ deaths' = deaths + 1
  /\ UNCHANGED <<coordVars, odom, request, reply, netVars, phyVars>>

-----------------------------------------------------------------------------
(* The network connector.                                                  *)

\* swarmTxBytesCallback, in the spinner's thread: queued for the next step.
Transmit(p) ==
  /\ conn[NET] = "serving" /\ stage[p] = "new"
  /\ stage' = [stage EXCEPT ![p] = "queued"]
  /\ UNCHANGED <<coordVars, odom, request, reply, conn, netIt, netPos, phyVars, deaths>>

InNetwork == {p \in Packet : stage[p] \in {"queued", "air"}}

\* UpdateAgentsPosition, and UpdateSnapshotsFromAgentStateBatch_ in the physics
\* connector: samples that are stale or not real are skipped.
Applied(states, pos) ==
  [a \in Agent |-> IF states[a].usable THEN states[a].stamp ELSE pos[a]]

\* StepSimulation: the queue is drained into ns-3, which runs for a window;
\* the packets heard in it go back with the reply.
NetStep(heard, lost, rx) ==
  /\ Serves(NET)
  /\ request' = [request EXCEPT ![NET] = Tail(@)]
  /\ netPos' = Applied(Head(request[NET]).states, netPos)
  /\ stage' = [p \in Packet |->
       IF p \in heard THEN "heard"
       ELSE IF p \in lost THEN "lost"
       ELSE IF p \in InNetwork THEN "air" ELSE stage[p]]
  /\ reply' = [reply EXCEPT ![NET] =
       Append(@, {[packet |-> p, rx |-> rx[p]] : p \in heard})]
  /\ netIt' = netIt + 1
  /\ UNCHANGED <<coordVars, odom, conn, phyVars, deaths>>

\* What becomes of each packet in the network is up to ns-3.
NetRun ==
  \E heard \in SUBSET InNetwork : \E lost \in SUBSET (InNetwork \ heard) :
    \E rx \in [heard -> WindowTimes] : NetStep(heard, lost, rx)

-----------------------------------------------------------------------------
(* The physics connector.                                                  *)

\* Mutant: the delay is left out.
DueAtOnce(S, end) == {x \in S : x.rx <= end}

\* Mutant: the comparison with the end of the step is the wrong way round.
DueReversed(S, end) == {x \in S : x.rx + Delay >= end}

Due(S, end) == {x \in S : x.rx + Delay <= end}

\* Mutant: the age counts to the end of the step after.
LateEarly(S, end) == {x \in S : Ttl > 0 /\ end + Step - x.rx > Ttl}

Late(S, end) == {x \in S : Ttl > 0 /\ end - x.rx > Ttl}

\* StepSimulation: IngestDeliveredSwarmPackets_, then
\* ReleaseDeliveredPacketsUpTo_ the end of the step.
PhyStep ==
  /\ Serves(PHY)
  /\ LET msg == Head(request[PHY])
         all == pending \cup msg.packets
         due == Due(all, StepEnd)
         late == Late(due, StepEnd)
     IN  /\ phyPos' = Applied(msg.states, phyPos)
         /\ pending' = all \ due
         /\ out' = out \cup {[packet |-> x.packet, rx |-> x.rx, at |-> StepEnd] :
                             x \in due \ late}
         /\ expired' = expired \cup {x.packet : x \in late}
  /\ request' = [request EXCEPT ![PHY] = Tail(@)]
  /\ reply' = [reply EXCEPT ![PHY] = Append(@, {})]
  /\ phyIt' = phyIt + 1
  /\ UNCHANGED <<coordVars, odom, conn, netVars, deaths>>

-----------------------------------------------------------------------------
LockStepNext ==
  \/ AcceptPhy \/ AcceptNet
  \/ AskNet \/ AskPhy \/ Advance \/ Finish \/ PeerGone

ConnectorNext ==
  \/ \E c \in Connector : Leave(c)
  \/ NetRun
  \/ PhyStep

\* A stamp is at most a little ahead of what counts as fresh.
Stamps == 0 .. Now + Tolerance + 1

Environment ==
  \/ \E a \in Agent, stamp \in Stamps : Odometry(a, stamp)
  \/ \E p \in Packet : Transmit(p)
  \/ \E c \in Connector : GiveUp(c) \/ Die(c)

Next == LockStepNext \/ ConnectorNext \/ Environment

Spec == Init /\ [][Next]_vars

-----------------------------------------------------------------------------
(* Properties.                                                             *)

Message == [type : {"BEGIN"}, states : Sample, packets : SUBSET Heard] \cup {Close}

\* Every variable holds what its C++ counterpart can, and a socket carries one
\* message at a time, in one direction: the buffers never fill (RoundTrip_).
TypeOK ==
  /\ phase \in Phase /\ step \in 0..Steps
  /\ odom \in [Agent -> Nat] /\ sample \in Sample
  /\ request \in [Connector -> Seq(Message)]
  /\ reply \in [Connector -> Seq(SUBSET Heard)]
  /\ \A c \in Connector : Len(request[c]) + Len(reply[c]) <= 1
  /\ conn \in [Connector -> {"connecting", "serving", "gone"}]
  /\ netIt \in Nat /\ netPos \in [Agent -> Nat]
  /\ stage \in [Packet -> {"new", "queued", "air", "heard", "lost"}]
  /\ phyIt \in Nat /\ phyPos \in [Agent -> Nat]
  /\ pending \subseteq Heard /\ out \subseteq Out /\ expired \subseteq Packet
  /\ deaths \in 0..MaxDeaths

\* The three clocks never drift apart by more than the step in progress, and
\* the network is never behind the physics (RunStrictLockstep_, the it of each
\* Loop): a window is simulated before it is handed over, once.
ClocksAgree == step <= phyIt /\ phyIt <= netIt /\ netIt <= step + 1

\* Between steps both connectors have every agent in the same place, although
\* odometry arrives while the step runs (one sample per step serves both).
SameWorld == phase = "sample" => netPos = phyPos

\* How much later than a packet was heard it may be handed out: a window, and
\* the delay or what the ns-3 clock has fallen behind by then.
FallenBehind == IF Shortfall > 0 THEN Shortfall * (Steps - 1) ELSE 0
Lateness == Step + IF Delay > FallenBehind THEN Delay ELSE FallenBehind

\* A packet is handed out when its processing delay is over, neither before
\* nor much later (ReleaseDeliveredPacketsUpTo_).
OnTime == \A x \in out : x.rx + Delay <= x.at /\ x.at <= x.rx + Lateness

\* No packet is handed out before one that was heard earlier, also when they
\* were heard in different windows (DeliveryOrder sorts within a step).
InOrder ==
  \A x \in out :
    /\ \A y \in out : x.rx < y.rx => x.at <= y.at
    /\ \A y \in pending : x.rx <= y.rx

\* The time to live is never the reason for a loss as long as it covers that
\* lateness: lock-step leaves no packet behind in the queue.
NothingExpires == Ttl >= Lateness => expired = {}

\* Packets come out of the three processes as if one window after the other
\* were simulated and handed over in one go.
Delivery == INSTANCE WindowedDelivery WITH
  RadioStep <- NetWindow, window <- phyIt, waiting <- pending
Implements == Delivery!Spec

-----------------------------------------------------------------------------
(* Every process keeps running its loop unless it blocks or dies.          *)

Fairness ==
  /\ WF_vars(AskNet) /\ WF_vars(AskPhy) /\ WF_vars(Advance) /\ WF_vars(Finish)
  /\ WF_vars(PeerGone)
  /\ \A c \in Connector : WF_vars(Leave(c))
  /\ WF_vars(NetRun) /\ WF_vars(PhyStep)

FairSpec == Spec /\ Fairness

\* Once both connectors are there, all three processes come to an end: when
\* the simulation is over, or when any one of them dies.
Stops ==
  (phase = "sample") ~> (Over /\ \A c \in Connector : conn[c] = "gone")
=============================================================================
