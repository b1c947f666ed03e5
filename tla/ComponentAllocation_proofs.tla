--------------------- MODULE ComponentAllocation_proofs ---------------------
(***************************************************************************)
(* The invariants of ComponentAllocation, for every set of drones, grids,  *)
(* coordinators and relays and every bound.                                *)
(***************************************************************************)
EXTENDS ComponentAllocation, CoordinatorOps_proofs

-----------------------------------------------------------------------------
(* Facts about the helpers.                                                *)

\* The smallest member of a set of drones is a drone; there is none if the
\* set is empty.
LEMMA MinimumType ==
  ASSUME NEW S \in SUBSET Drone
  PROVE  Minimum(S) \in DroneOrNone
BY DEF Minimum, IsMinimum, DroneOrNone

\* A transaction id is never 0, which the messages use for none
\* (next_allocation_request_txn_id_).
LEMMA NextTxnIdType ==
  ASSUME NEW n \in Nat \ {0}
  PROVE  NextTxnId(n) \in Nat \ {0}
<1>1. n % MaxTxn \in Nat
  BY BoundsAssumption
<1> QED
  BY <1>1 DEF NextTxnId

\* The kind of a message is told by its type.
LEMMA MessageKinds ==
  ASSUME NEW m \in Message
  PROVE  /\ m.type = "request" => m \in RequestMsg
         /\ m.type \in {"plan", "commit"} => m \in GrantMsg
         /\ m.type = "ack" => m \in AckMsg
         /\ m.type = "release" => m \in ReleaseMsg
BY DEF Message, RequestMsg, GrantMsg, AckMsg, ReleaseMsg

\* An explorer never misses what it holds itself (findUnallocated), and it
\* asks for nothing but what is missed, before a step and after it.
LEMMA MissedFacts ==
  ASSUME NEW d \in Drone
  PROVE  /\ Missed(d) \subseteq Grid
         /\ Missed(d)' \subseteq Grid
         /\ role[d] = Explorer => Missed(d) \cap Effective(d) = {}
         /\ role'[d] = Explorer => Missed(d)' \cap Effective(d)' = {}
<1>1. Missed(d) \subseteq Grid /\ Missed(d)' \subseteq Grid
  BY DEF Missed, Active
<1>2. ASSUME role[d] = Explorer PROVE Missed(d) \cap Effective(d) = {}
  BY <1>2 DEF Missed, Assignable, Held
<1>3. ASSUME role'[d] = Explorer PROVE Missed(d)' \cap Effective(d)' = {}
  BY <1>3 DEF Missed, Assignable, Held
<1> QED
  BY <1>1, <1>2, <1>3

\* tryClaimUnallocatedGrids takes nothing that is not missed.
LEMMA SharesFacts ==
  ASSUME NEW d \in Drone
  PROVE  /\ \A share \in Shares(d) : share \subseteq Missed(d)
         /\ \A share \in Shares(d)' : share \subseteq Missed(d)'
BY DEF Shares

\* publishAllocationRequest sends a well-formed request and counts it.
LEMMA PublishRequestType ==
  ASSUME TypeOK, NEW d \in Drone, NEW rec \in SUBSET Grid, NEW cl \in SUBSET Grid,
         NEW staged \in BOOLEAN, NEW sent \in SUBSET Message,
         PublishRequest(d, rec, cl, staged, sent)
  PROVE  net' \subseteq Message /\ nextTxn' \in [Drone -> Nat \ {0}]
<1>1. CASE InComponent(d) /\ rec \cup cl # {} /\ ~staged
  <2>1. leader[d] \in Drone
    BY <1>1 DEF TypeOK, InComponent, DroneOrNone
  <2>2. Request(d, epoch[d], leader[d], rec, cl) \in RequestMsg
    BY <2>1 DEF TypeOK, Request, RequestMsg
  <2>3. net' \subseteq Message
    BY <1>1, <2>2 DEF PublishRequest, Message
  <2>4. nextTxn' = [nextTxn EXCEPT ![d] = NextTxnId(nextTxn[d])]
    BY <1>1 DEF PublishRequest
  <2>5. nextTxn' \in [Drone -> Nat \ {0}]
    BY <2>4, NextTxnIdType DEF TypeOK
  <2> QED
    BY <2>3, <2>5
<1>2. CASE ~(InComponent(d) /\ rec \cup cl # {} /\ ~staged)
  BY <1>2 DEF PublishRequest, TypeOK
<1> QED
  BY <1>1, <1>2

\* publishReleaseRequest sends a well-formed release, if any.
LEMMA ReleaseType ==
  ASSUME TypeOK, NEW d \in Drone, NEW S \in SUBSET Grid
  PROVE  /\ InComponent(d) => Release(d, S) \in Message
         /\ ReleaseSent(d, S) \subseteq Message
<1>1. ASSUME InComponent(d) PROVE Release(d, S) \in ReleaseMsg
  <2>1. leader[d] \in Drone
    BY <1>1 DEF TypeOK, InComponent, DroneOrNone
  <2>2. \A g \in Grid : owners[d][g].version \in Nat
    BY DEF TypeOK, OwnershipRecord
  <2> QED
    BY <2>1, <2>2 DEF TypeOK, Release, ReleaseMsg
<1> QED
  BY <1>1 DEF ReleaseSent, Message

-----------------------------------------------------------------------------
(* Types and tables: the inductive invariant is TypeOK together with the   *)
(* soundness of every coordinator, because the types of a coordinator's    *)
(* table are kept by handlers that rely on it.                             *)

TableInv == TypeOK /\ CoordinatorsSound

\* The nodes start in a well-typed state with empty tables, cold or formed.
LEMMA TableInit == Init \/ FormedInit => TableInv
<1> SUFFICES ASSUME Init \/ FormedInit PROVE TableInv
  OBVIOUS
<1>1. CoordInit \in CoordState
  BY EmptyViewType, AgeFacts DEF CoordInit, DroneOrNone
<1>2. NeverSeen \in Peer /\ NoTxn \in Txn
  BY DEF NeverSeen, Peer, NoTxn, Txn, DroneOrNone
<1>3. Unowned \in OwnershipRecord
  BY DEF Unowned, OwnershipRecord, DroneOrNone
<1>4. NoSnapshot \in Snapshot
  BY <1>3, AgeFacts DEF NoSnapshot, Snapshot, DroneOrNone
<1>5. ASSUME Init PROVE TypeOK
  BY <1>1, <1>2, <1>3, <1>4, <1>5 DEF Init, TypeOK, Role, DroneOrNone
<1>6. ASSUME FormedInit PROVE TypeOK
  <2>1. Minimum(Drone) \in DroneOrNone
    BY MinimumType
  <2>2. [NeverSeen EXCEPT !.fresh = TRUE] \in Peer
    BY DEF NeverSeen, Peer
  <2>3. seen \in [Drone -> [Drone -> Peer]]
    BY <1>2, <1>6, <2>2 DEF FormedInit
  <2> QED
    BY <1>1, <1>2, <1>3, <1>4, <1>6, <2>1, <2>2, <2>3 DEF FormedInit, TypeOK, Role
<1>7. CoordinatorsSound
  BY EmptyViewSound, CoordAssumption DEF Init, FormedInit, CoordinatorsSound, CoordInit
<1> QED
  BY <1>5, <1>6, <1>7 DEF TableInv

\* droneStateTimerCallback.
LEMMA DroneStateTimerType ==
  ASSUME TypeOK, NEW d \in Drone, DroneStateTimer(d)
  PROVE  TypeOK' /\ coord' = coord
<1> DEFINE eff  == Effective(d)
           mem  == {a \in Drone : Visible(d, a) /\ Assignable(d, a)}
           ep   == IF members[d] \notin {Unknown, mem} THEN epoch[d] + 1 ELSE epoch[d]
           ld   == Minimum(mem)
           own  == [g \in Grid |-> Minimum({a \in mem : g \in Held(d, a)})]
           vers == [g \in Grid |->
                      IF own[g] = 0 THEN Unowned
                      ELSE [owner   |-> own[g],
                            version |-> IF owners[d][g].owner = 0 THEN 1
                                        ELSE IF owners[d][g].owner # own[g]
                                             THEN owners[d][g].version + 1
                                             ELSE owners[d][g].version]]
           snap == [known |-> TRUE, epoch |-> ep, leader |-> ld, owned |-> vers,
                    free |-> {g \in Active : own[g] = 0}, age |-> 0]
           peer == [grids |-> eff, explorer |-> role[d] = Explorer, fresh |-> TRUE]
<1>1. ep \in Nat
  BY DEF TypeOK
<1>2. mem \in SUBSET Drone /\ ld \in DroneOrNone
  BY MinimumType
<1>3. own \in [Grid -> DroneOrNone]
  BY MinimumType
<1> HIDE DEF own
<1>4. \A g \in Grid : owners[d][g].version \in Nat
  BY DEF TypeOK, OwnershipRecord
<1>5. vers \in [Grid -> OwnershipRecord]
  BY <1>3, <1>4 DEF OwnershipRecord, Unowned, DroneOrNone
<1> HIDE DEF vers, ep, ld
<1>6. snap \in Snapshot
  BY <1>1, <1>2, <1>5, AgeFacts DEF Snapshot, Active
<1>7. peer \in Peer
  BY DEF Peer, Effective, TypeOK
<1>8. Surviving(txn[d], ep, ld) \in Txn
  BY DEF Surviving, NoTxn, Txn, DroneOrNone, TypeOK
<1>9. /\ members' = [members EXCEPT ![d] = mem]
      /\ epoch' = [epoch EXCEPT ![d] = ep]
      /\ leader' = [leader EXCEPT ![d] = ld]
      /\ owners' = [owners EXCEPT ![d] = vers]
      /\ txn' = [txn EXCEPT ![d] = Surviving(@, ep, ld)]
      /\ radio' = [radio EXCEPT ![d] = peer]
      /\ state' = [c \in Coord |-> [state[c] EXCEPT ![d] = snap]]
      /\ due' = due \ {d}
      /\ UNCHANGED <<droneVars, nextTxn, seen, coord, net, commands, losses, releases>>
  BY DEF DroneStateTimer, own, vers, ep, ld
<1> HIDE DEF mem, snap, peer
<1>10. /\ members' \in [Drone -> {Unknown} \cup SUBSET Drone]
       /\ epoch' \in [Drone -> Nat]
       /\ leader' \in [Drone -> DroneOrNone]
       /\ owners' \in [Drone -> [Grid -> OwnershipRecord]]
  BY <1>1, <1>2, <1>5, <1>9 DEF TypeOK
<1>11. /\ txn' \in [Drone -> Txn]
       /\ radio' \in [Drone -> Peer]
       /\ state' \in [Coord -> [Drone -> Snapshot]]
       /\ due' \subseteq Drone
  BY <1>6, <1>7, <1>8, <1>9 DEF TypeOK
<1> QED
  BY <1>9, <1>10, <1>11 DEF TypeOK, droneVars

\* tryClaimUnallocatedGrids, by whatever callback.
LEMMA ClaimShareType ==
  ASSUME TypeOK, NEW d \in Drone, NEW share \in SUBSET Grid,
         NEW sent \in SUBSET Message, ClaimShare(d, share, sent)
  PROVE  /\ claim' \in [Drone -> SUBSET Grid]
         /\ net' \subseteq Message
         /\ nextTxn' \in [Drone -> Nat \ {0}]
<1>1. PublishRequest(d, recover[d], share, txn[d].active, sent)
  BY DEF ClaimShare
<1>2. recover[d] \in SUBSET Grid /\ txn[d].active \in BOOLEAN
  BY DEF TypeOK, Txn
<1>3. net' \subseteq Message /\ nextTxn' \in [Drone -> Nat \ {0}]
  BY <1>1, <1>2, PublishRequestType
<1>4. claim' \in [Drone -> SUBSET Grid]
  BY DEF ClaimShare, TypeOK
<1> QED
  BY <1>3, <1>4

\* optTimerCallback and the IDLE case of FSMCallback.
LEMMA OptTimerType ==
  ASSUME TypeOK, NEW d \in Drone, OptTimer(d)
  PROVE  TypeOK' /\ coord' = coord
<1>1. PICK share \in Shares(d) : ClaimShare(d, share, net)
  BY DEF OptTimer
<1>2. share \in SUBSET Grid
  BY SharesFacts, MissedFacts
<1>3. net \in SUBSET Message
  BY DEF TypeOK
<1>4. /\ claim' \in [Drone -> SUBSET Grid]
      /\ net' \subseteq Message
      /\ nextTxn' \in [Drone -> Nat \ {0}]
  BY <1>1, <1>2, <1>3, ClaimShareType
<1> QED
  BY <1>4 DEF OptTimer, TypeOK, viewVars, envVars

\* droneStateMsgCallback.
LEMMA PeerStateType ==
  ASSUME TypeOK, NEW d \in Drone, NEW p \in Drone, PeerState(d, p)
  PROVE  TypeOK' /\ coord' = coord
<1>1. seen' \in [Drone -> [Drone -> Peer]]
  BY DEF PeerState, TypeOK
<1>2. /\ claim' \in [Drone -> SUBSET Grid]
      /\ net' \subseteq Message
      /\ nextTxn' \in [Drone -> Nat \ {0}]
  <2>1. CASE \E share \in Shares(d)' : ClaimShare(d, share, net)
    <3>1. PICK share \in Shares(d)' : ClaimShare(d, share, net)
      BY <2>1
    <3>2. share \in SUBSET Grid /\ net \in SUBSET Message
      BY SharesFacts, MissedFacts DEF TypeOK
    <3> QED
      BY <3>1, <3>2, ClaimShareType
  <2>2. CASE UNCHANGED <<claim, net, nextTxn>>
    BY <2>2 DEF TypeOK
  <2> QED
    BY <2>1, <2>2 DEF PeerState
<1> QED
  BY <1>1, <1>2 DEF PeerState, TypeOK, viewVars, envVars

\* A peer's state grows old.
LEMMA PeerLostType ==
  ASSUME TypeOK, NEW d \in Drone, NEW p \in Drone, PeerLost(d, p)
  PROVE  TypeOK' /\ coord' = coord
<1>1. seen' \in [Drone -> [Drone -> Peer]]
  <2>1. [seen[d][p] EXCEPT !.fresh = FALSE] \in Peer
    <3>1. seen[d][p] \in Peer
      BY DEF TypeOK
    <3> QED
      BY <3>1 DEF Peer
  <2>2. seen' = [seen EXCEPT ![d] =
                  [seen[d] EXCEPT ![p] = [seen[d][p] EXCEPT !.fresh = FALSE]]]
    BY DEF PeerLost, TypeOK
  <2>3. [seen[d] EXCEPT ![p] = [seen[d][p] EXCEPT !.fresh = FALSE]] \in [Drone -> Peer]
    BY <2>1 DEF TypeOK
  <2> QED
    BY <2>2, <2>3 DEF TypeOK
<1> QED
  BY <1>1 DEF PeerLost, TypeOK, droneVars, txnVars, viewVars

\* The releases of an explorer.
LEMMA ReleasesType ==
  ASSUME TypeOK, NEW d \in Drone, NEW S \in SUBSET Grid,
         PlanFailureRelease(d, S) \/ MapInvalidation(d, S)
  PROVE  TypeOK' /\ coord' = coord
<1>1. /\ InComponent(d) => Release(d, S) \in Message
      /\ ReleaseSent(d, S) \subseteq Message
  BY ReleaseType
<1>2. CASE PlanFailureRelease(d, S)
  <2>1. net' \subseteq Message
    BY <1>1, <1>2 DEF PlanFailureRelease, TypeOK
  <2>2. hidden' \in [Drone -> SUBSET Grid]
    BY <1>2 DEF PlanFailureRelease, TypeOK
  <2> QED
    BY <1>2, <2>1, <2>2 DEF PlanFailureRelease, TypeOK, txnVars, viewVars
<1>3. CASE MapInvalidation(d, S)
  <2> DEFINE sent == net \cup ReleaseSent(d, S)
  <2>1. sent \in SUBSET Message
    BY <1>1 DEF TypeOK
  <2>2. hidden' \in [Drone -> SUBSET Grid]
    BY <1>3 DEF MapInvalidation, TypeOK
  <2>3. /\ claim' \in [Drone -> SUBSET Grid]
        /\ net' \subseteq Message
        /\ nextTxn' \in [Drone -> Nat \ {0}]
    <3>1. CASE net' = sent /\ UNCHANGED <<claim, nextTxn>>
      BY <2>1, <3>1 DEF TypeOK
    <3>2. CASE \E share \in Shares(d)' : ClaimShare(d, share, sent)
      <4>1. PICK share \in Shares(d)' : ClaimShare(d, share, sent)
        BY <3>2
      <4>2. share \in SUBSET Grid
        BY SharesFacts, MissedFacts
      <4> QED
        BY <2>1, <4>1, <4>2, ClaimShareType
    <3> QED
      BY <1>3, <3>1, <3>2 DEF MapInvalidation
  <2> QED
    BY <1>3, <2>2, <2>3 DEF MapInvalidation, TypeOK, viewVars
<1> QED
  BY <1>2, <1>3

\* relayRoleCmdCallback, both ways.
LEMMA EnterRelayType ==
  ASSUME TypeOK, NEW d \in Drone, EnterRelay(d)
  PROVE  TypeOK' /\ coord' = coord
<1>1. NoTxn \in Txn
  BY DEF NoTxn, Txn, DroneOrNone
<1>2. net' \subseteq Message
  <2>1. ReleaseSent(d, grids[d]) \subseteq Message
    BY ReleaseType DEF TypeOK
  <2> QED
    BY <2>1 DEF EnterRelay, TypeOK
<1>3. /\ role' \in [Drone -> Role]
      /\ grids' \in [Drone -> SUBSET Grid]
      /\ hidden' \in [Drone -> SUBSET Grid]
      /\ claim' \in [Drone -> SUBSET Grid]
      /\ recover' \in [Drone -> SUBSET Grid]
      /\ suspended' \in [Drone -> SUBSET Grid]
      /\ txn' \in [Drone -> Txn]
  BY <1>1 DEF EnterRelay, TypeOK, Role
<1> QED
  BY <1>2, <1>3 DEF EnterRelay, TypeOK, viewVars

\* relayRoleCmdCallback, leaving relay duty.
LEMMA LeaveRelayType ==
  ASSUME TypeOK, NEW d \in Drone, LeaveRelay(d)
  PROVE  TypeOK' /\ coord' = coord
<1> DEFINE back == suspended[d] \cap Missed(d)'
<1>1. /\ back \in SUBSET Grid
      /\ {} \in SUBSET Grid
      /\ claim[d] \in SUBSET Grid
      /\ net \in SUBSET Message
      /\ txn[d].active \in BOOLEAN
  BY DEF TypeOK, Txn
<1> HIDE DEF back
<1>2. PICK rec \in SUBSET Grid, cl \in SUBSET Grid :
        PublishRequest(d, rec, cl, txn[d].active, net)
  <2>1. ASSUME NEW share \in Shares(d)' PROVE share \in SUBSET Grid
    BY SharesFacts, MissedFacts
  <2> QED
    BY <1>1, <2>1 DEF LeaveRelay, back
<1>3. net' \subseteq Message /\ nextTxn' \in [Drone -> Nat \ {0}]
  BY <1>1, <1>2, PublishRequestType
<1>4. claim' \in [Drone -> SUBSET Grid]
  <2>1. ASSUME NEW share \in Shares(d)' PROVE share \in SUBSET Grid
    BY SharesFacts, MissedFacts
  <2>2. PICK new \in SUBSET Grid : claim' = [claim EXCEPT ![d] = new] \/ claim' = claim
    BY <1>1, <2>1 DEF LeaveRelay
  <2> QED
    BY <2>2 DEF TypeOK
<1>5. /\ role' \in [Drone -> Role]
      /\ recover' \in [Drone -> SUBSET Grid]
  BY <1>1 DEF LeaveRelay, TypeOK, Role, back
<1> QED
  BY <1>3, <1>4, <1>5 DEF LeaveRelay, TypeOK, viewVars

\* assignmentPlanCallback.
LEMMA RcvPlanType ==
  ASSUME TypeOK, NEW d \in Drone, NEW m, RcvPlan(d, m)
  PROVE  TypeOK' /\ coord' = coord
<1>1. m \in GrantMsg
  BY MessageKinds DEF RcvPlan, TypeOK
<1>2. \A ok \in BOOLEAN : Ack(m, ok) \in Message
  BY <1>1 DEF Ack, AckMsg, GrantMsg, Message
<1>3. TxnOf(m) \in Txn
  BY <1>1, GridAssumption DEF TxnOf, Txn, GrantMsg, DroneOrNone
<1>4. net' \subseteq Message
  <2>1. Rest(m) \subseteq Message
    BY DEF Rest, TypeOK
  <2>2. \/ net' = Rest(m)
        \/ net' = Rest(m) \cup {Ack(m, FALSE)}
        \/ net' = Rest(m) \cup {Ack(m, TRUE)}
    BY DEF RcvPlan
  <2> QED
    BY <1>2, <2>1, <2>2
<1>5. txn' \in [Drone -> Txn]
  BY <1>3, ZenonT(60) DEF RcvPlan, TypeOK
<1> QED
  BY <1>4, <1>5 DEF RcvPlan, TypeOK, droneVars, viewVars, envVars

\* assignmentCommitCallback.
LEMMA RcvCommitType ==
  ASSUME TypeOK, NEW d \in Drone, NEW m, RcvCommit(d, m)
  PROVE  TypeOK' /\ coord' = coord
<1>1. m.grid \in Grid
  BY MessageKinds DEF RcvCommit, TypeOK, GrantMsg
<1>2. Rest(m) \in SUBSET Message
  BY DEF Rest, TypeOK
<1>3. CASE ~Applies(d, m)
  <2>1. /\ net' = Rest(m)
        /\ UNCHANGED <<grids, hidden, claim, recover, txnVars>>
    BY <1>3 DEF RcvCommit
  <2> QED
    BY <1>2, <2>1 DEF RcvCommit, TypeOK, txnVars, viewVars, envVars
<1>4. CASE Applies(d, m)
  <2>1. /\ grids' = [grids EXCEPT ![d] = @ \cup {m.grid}]
        /\ hidden' = [hidden EXCEPT ![d] = @ \ {m.grid}]
        /\ claim' = [claim EXCEPT ![d] = @ \ {m.grid}]
        /\ recover' = [recover EXCEPT ![d] = @ \ {m.grid}]
        /\ txn' = [txn EXCEPT ![d] = NoTxn]
        /\ PublishRequest(d, recover[d] \ {m.grid}, claim[d] \ {m.grid},
                          FALSE, Rest(m))
    BY <1>4 DEF RcvCommit
  <2>2. recover[d] \ {m.grid} \in SUBSET Grid /\ claim[d] \ {m.grid} \in SUBSET Grid
    BY DEF TypeOK
  <2>3. net' \subseteq Message /\ nextTxn' \in [Drone -> Nat \ {0}]
    BY <1>2, <2>1, <2>2, PublishRequestType
  <2>4. txn' \in [Drone -> Txn]
    BY <2>1 DEF TypeOK, NoTxn, Txn, DroneOrNone
  <2>5. /\ grids' \in [Drone -> SUBSET Grid]
        /\ hidden' \in [Drone -> SUBSET Grid]
        /\ claim' \in [Drone -> SUBSET Grid]
        /\ recover' \in [Drone -> SUBSET Grid]
    BY <1>1, <2>1 DEF TypeOK
  <2> QED
    BY <2>3, <2>4, <2>5 DEF RcvCommit, TypeOK, viewVars, envVars
<1> QED
  BY <1>3, <1>4

\* What a coordinator's handler must establish for TableInv to hold after it.
LEMMA TableStep ==
  ASSUME TableInv, CoordUnchanged,
         NEW c \in Coord, NEW h, h \in CoordState, Sound(c, h),
         coord' = [coord EXCEPT ![c] = h],
         net' \subseteq Message, state' \in [Coord -> [Drone -> Snapshot]]
  PROVE  TableInv'
<1>1. coord' \in [Coord -> CoordState]
  BY DEF TableInv, TypeOK
<1>2. TypeOK'
  BY <1>1 DEF TableInv, TypeOK, CoordUnchanged, droneVars, txnVars, viewVars, envVars
<1>3. CoordinatorsSound'
  BY DEF TableInv, TypeOK, CoordinatorsSound
<1> QED
  BY <1>2, <1>3 DEF TableInv

\* A coordinator that drops a message.
LEMMA TableDrop ==
  ASSUME TableInv, CoordUnchanged, coord' = coord, state' = state,
         net' \subseteq Message
  PROVE  TableInv'
<1>1. TypeOK'
  BY DEF TableInv, TypeOK, CoordUnchanged, droneVars, txnVars, viewVars, envVars
<1>2. CoordinatorsSound'
  BY DEF TableInv, CoordinatorsSound
<1> QED
  BY <1>1, <1>2 DEF TableInv

\* What every coordinator handler finds.
LEMMA TableFacts ==
  ASSUME TableInv, NEW c \in Coord
  PROVE  c \in Drone /\ coord[c] \in CoordState /\ Sound(c, coord[c])
BY CoordAssumption DEF TableInv, TypeOK, CoordinatorsSound

\* componentStateCallback of any coordinator.
LEMMA RcvComponentStateTable ==
  ASSUME TableInv, NEW c \in Coord, NEW s \in Drone, RcvComponentState(c, s)
  PROVE  TableInv'
<1> DEFINE h == OnComponentState(coord[c], s, state[c][s])
<1>1. state[c][s] \in Snapshot
  BY DEF TableInv, TypeOK
<1>2. h \in CoordState /\ Sound(c, h)
  BY <1>1, TableFacts, OnComponentStateSafe
<1>3. coord' = [coord EXCEPT ![c] = h] /\ net' = net /\ CoordUnchanged
  BY DEF RcvComponentState
<1>4. state' \in [Coord -> [Drone -> Snapshot]]
  <2>1. NoSnapshot \in Snapshot
    BY AgeFacts DEF NoSnapshot, Snapshot, OwnershipRecord, Unowned, DroneOrNone
  <2> QED
    BY <2>1 DEF RcvComponentState, TableInv, TypeOK
<1>5. net' \subseteq Message
  BY <1>3 DEF TableInv, TypeOK
<1> HIDE DEF h
<1> QED
  BY <1>2, <1>3, <1>4, <1>5, TableStep

\* The answers of a coordinator are well-formed.
LEMMA AnswerType ==
  ASSUME TableInv, NEW c \in Coord, NEW p, p.owner \in Drone, p.txn \in Nat,
         p.grid \in Grid, p.version \in Nat, NEW type \in {"plan", "commit"}
  PROVE  Answer(type, c, p) \in Message
<1>1. c \in Drone /\ coord[c].epoch \in Nat
  BY TableFacts DEF CoordState
<1> QED
  BY <1>1 DEF Answer, GrantMsg, Message

\* allocationRequestCallback of any coordinator.
LEMMA RcvRequestTable ==
  ASSUME TableInv, NEW m \in net, RcvRequest(m)
  PROVE  TableInv'
<1> DEFINE c == m.leader
<1>1. m \in RequestMsg
  BY MessageKinds DEF RcvRequest, TableInv, TypeOK
<1>2. Rest(m) \subseteq Message
  BY DEF Rest, TableInv, TypeOK
<1>3. ASSUME c \in Coord, CanPlan(c, coord[c], m),
             NEW g \in Grantable(coord[c], m),
             coord' = [coord EXCEPT ![c] = OnRequest(@, m, g)],
             net' = Rest(m) \cup {Answer("plan", c, PlanFor(coord[c], m, g))}
      PROVE  TableInv'
  <2>1. c \in Drone /\ coord[c] \in CoordState /\ Sound(c, coord[c])
    BY <1>3, TableFacts
  <2>2. g \in Grid
    BY <2>1, <1>3 DEF Grantable, CoordState
  <2>3. m.drone \in Drone /\ m.txn \in Nat
    BY <1>1 DEF RequestMsg
  <2>4. OnRequest(coord[c], m, g) \in CoordState /\ Sound(c, OnRequest(coord[c], m, g))
    BY <1>3, <2>1, <2>2, <2>3, OnRequestSafe
  <2>5. coord[c].freeVer[g] + 1 \in Nat
    BY <2>1, <2>2 DEF CoordState
  <2>6. Answer("plan", c, PlanFor(coord[c], m, g)) \in Message
    <3> DEFINE p == PlanFor(coord[c], m, g)
    <3>1. p.owner \in Drone /\ p.txn \in Nat /\ p.grid \in Grid /\ p.version \in Nat
      BY <2>2, <2>3, <2>5 DEF PlanFor
    <3> HIDE DEF p
    <3> QED
      BY <1>3, <3>1, AnswerType DEF p
  <2>7. net' \subseteq Message
    BY <1>2, <1>3, <2>6
  <2>8. CoordUnchanged /\ state' \in [Coord -> [Drone -> Snapshot]]
    BY DEF RcvRequest, TableInv, TypeOK
  <2>9. coord' = [coord EXCEPT ![c] = OnRequest(coord[c], m, g)]
    BY <1>3
  <2> QED
    BY <1>3, <2>4, <2>7, <2>8, <2>9, TableStep
<1>4. ASSUME net' = Rest(m), coord' = coord
      PROVE  TableInv'
  BY <1>2, <1>4, TableDrop DEF RcvRequest
<1> QED
  BY <1>3, <1>4 DEF RcvRequest

\* assignmentAckCallback of any coordinator.
LEMMA RcvAckTable ==
  ASSUME TableInv, NEW m \in net, RcvAck(m)
  PROVE  TableInv'
<1> DEFINE c == m.leader
<1>1. m \in AckMsg
  BY MessageKinds DEF RcvAck, TableInv, TypeOK
<1>2. Rest(m) \subseteq Message
  BY DEF Rest, TableInv, TypeOK
<1>3. ASSUME c \in Coord, AckFits(c, coord[c], m),
             coord' = [coord EXCEPT ![c] = OnAck(@)],
             net' = Rest(m) \cup {Answer("commit", c, coord[c].plan)}
      PROVE  TableInv'
  <2>1. c \in Drone /\ coord[c] \in CoordState /\ Sound(c, coord[c])
    BY <1>3, TableFacts
  <2>2. m.drone \in Drone /\ m.grid \in Grid /\ m.txn \in Nat /\ m.version \in Nat
    BY <1>1 DEF AckMsg
  <2>3. OnAck(coord[c]) \in CoordState /\ Sound(c, OnAck(coord[c]))
    BY <1>3, <2>1, <2>2, OnAckSafe
  <2>4. Answer("commit", c, coord[c].plan) \in Message
    <3> DEFINE p == coord[c].plan
    <3>1. p.owner \in Drone /\ p.txn \in Nat /\ p.grid \in Grid /\ p.version \in Nat
      BY <1>3, <2>2 DEF AckFits
    <3> HIDE DEF p
    <3> QED
      BY <1>3, <3>1, AnswerType DEF p
  <2>5. net' \subseteq Message
    BY <1>2, <1>3, <2>4
  <2>6. CoordUnchanged /\ state' \in [Coord -> [Drone -> Snapshot]]
    BY DEF RcvAck, TableInv, TypeOK
  <2>7. coord' = [coord EXCEPT ![c] = OnAck(coord[c])]
    BY <1>3
  <2> QED
    BY <1>3, <2>3, <2>5, <2>6, <2>7, TableStep
<1>4. ASSUME net' = Rest(m), coord' = coord
      PROVE  TableInv'
  BY <1>2, <1>4, TableDrop DEF RcvAck
<1> QED
  BY <1>3, <1>4 DEF RcvAck

\* releaseRequestCallback of any coordinator.
LEMMA RcvReleaseTable ==
  ASSUME TableInv, NEW m \in net, RcvRelease(m)
  PROVE  TableInv'
<1> DEFINE c == m.leader
<1>1. m \in ReleaseMsg
  BY MessageKinds DEF RcvRelease, TableInv, TypeOK
<1>2. net' \subseteq Message
  BY DEF RcvRelease, Rest, TableInv, TypeOK
<1>3. CoordUnchanged /\ state' = state /\ state' \in [Coord -> [Drone -> Snapshot]]
  BY DEF RcvRelease, TableInv, TypeOK
<1>4. CASE c \in Coord
  <2>1. c \in Drone /\ coord[c] \in CoordState /\ Sound(c, coord[c])
    BY <1>4, TableFacts
  <2>2. m.grids \subseteq Grid /\ m.versions \in [Grid -> Nat]
    BY <1>1 DEF ReleaseMsg
  <2>3. OnRelease(c, coord[c], m) \in CoordState /\ Sound(c, OnRelease(c, coord[c], m))
    BY <2>1, <2>2, OnReleaseSafe
  <2>4. coord' = [coord EXCEPT ![c] = OnRelease(c, coord[c], m)]
    BY <1>4 DEF RcvRelease
  <2> QED
    BY <1>2, <1>3, <1>4, <2>3, <2>4, TableStep
<1>5. CASE c \notin Coord
  <2>1. coord' = coord
    BY <1>5 DEF RcvRelease
  <2> QED
    BY <1>2, <1>3, <2>1, TableDrop
<1> QED
  BY <1>4, <1>5

\* pendingPlanTimerCallback of any coordinator.
LEMMA CoordTimerTable ==
  ASSUME TableInv, NEW c \in Coord, CoordTimer(c)
  PROVE  TableInv'
<1>1. c \in Drone /\ coord[c] \in CoordState /\ Sound(c, coord[c])
  BY TableFacts
<1>2. OnTimer(coord[c]) \in CoordState /\ Sound(c, OnTimer(coord[c]))
  BY <1>1, OnTimerSafe
<1>3. /\ coord' = [coord EXCEPT ![c] = OnTimer(coord[c])]
      /\ CoordUnchanged /\ net' = net /\ state' = state
  BY DEF CoordTimer
<1>4. net' \subseteq Message /\ state' \in [Coord -> [Drone -> Snapshot]]
  BY <1>3 DEF TableInv, TypeOK
<1> QED
  BY <1>2, <1>3, <1>4, TableStep

\* Time passes for every coordinator at once.
LEMMA TickTable ==
  ASSUME TableInv, Tick
  PROVE  TableInv'
<1>1. ASSUME NEW c \in Coord
      PROVE  Aged(coord[c]) \in CoordState /\ Sound(c, Aged(coord[c]))
  BY TableFacts, AgedSafe
<1>2. NoSnapshot \in Snapshot
  BY AgeFacts DEF NoSnapshot, Snapshot, OwnershipRecord, Unowned, DroneOrNone
<1>3. \A s \in Snapshot : AgedSnapshot(s) \in Snapshot
  BY <1>2, AgeFacts DEF AgedSnapshot, Snapshot
<1>4. state' \in [Coord -> [Drone -> Snapshot]]
  BY <1>3 DEF Tick, TableInv, TypeOK
<1>5. coord' \in [Coord -> CoordState] /\ due' \subseteq Drone
  BY <1>1 DEF Tick, TableInv, TypeOK
<1>6. TypeOK'
  BY <1>4, <1>5 DEF Tick, TableInv, TypeOK, droneVars, txnVars, viewVars
<1>7. CoordinatorsSound'
  BY <1>1 DEF Tick, CoordinatorsSound
<1> QED
  BY <1>6, <1>7 DEF TableInv

\* Every step keeps the types and the tables.
LEMMA TableNext == TableInv /\ [Next]_vars => TableInv'
<1> SUFFICES ASSUME TableInv, [Next]_vars PROVE TableInv'
  OBVIOUS
<1>1. ASSUME TypeOK', coord' = coord PROVE TableInv'
  BY <1>1 DEF TableInv, CoordinatorsSound
<1>2. TypeOK
  BY DEF TableInv
<1>3. ASSUME NEW d \in Drone, DroneStateTimer(d) PROVE TableInv'
  BY <1>1, <1>2, <1>3, DroneStateTimerType
<1>4. ASSUME NEW d \in Drone, OptTimer(d) PROVE TableInv'
  BY <1>1, <1>2, <1>4, OptTimerType
<1>5. ASSUME NEW d \in Drone, EnterRelay(d) PROVE TableInv'
  BY <1>1, <1>2, <1>5, EnterRelayType
<1>6. ASSUME NEW d \in Drone, LeaveRelay(d) PROVE TableInv'
  BY <1>1, <1>2, <1>6, LeaveRelayType
<1>7. ASSUME NEW d \in Drone, NEW p \in Drone, PeerState(d, p) PROVE TableInv'
  BY <1>1, <1>2, <1>7, PeerStateType
<1>8. ASSUME NEW d \in Drone, NEW p \in Drone, PeerLost(d, p) PROVE TableInv'
  BY <1>1, <1>2, <1>8, PeerLostType
<1>9. ASSUME NEW d \in Drone, NEW S \in SUBSET Grid,
             PlanFailureRelease(d, S) \/ MapInvalidation(d, S)
      PROVE  TableInv'
  BY <1>1, <1>2, <1>9, ReleasesType
<1>10. ASSUME NEW d \in Drone, NEW m \in net, RcvPlan(d, m) PROVE TableInv'
  BY <1>1, <1>2, <1>10, RcvPlanType
<1>11. ASSUME NEW d \in Drone, NEW m \in net, RcvCommit(d, m) PROVE TableInv'
  BY <1>1, <1>2, <1>11, RcvCommitType
<1>12. ASSUME NEW c \in Coord, CoordTimer(c) PROVE TableInv'
  BY <1>12, CoordTimerTable
<1>13. ASSUME NEW c \in Coord, NEW s \in Drone, RcvComponentState(c, s) PROVE TableInv'
  BY <1>13, RcvComponentStateTable
<1>14. ASSUME NEW m \in net, RcvRequest(m) \/ RcvAck(m) \/ RcvRelease(m)
       PROVE  TableInv'
  BY <1>14, RcvRequestTable, RcvAckTable, RcvReleaseTable
<1>15. CASE Tick
  BY <1>15, TickTable
<1>16. CASE UNCHANGED vars
  <2>1. TypeOK'
    BY <1>2, <1>16 DEF TypeOK, vars, droneVars, txnVars, viewVars, envVars
  <2> QED
    BY <1>1, <1>16, <2>1 DEF vars
<1> QED
  BY <1>3, <1>4, <1>5, <1>6, <1>7, <1>8, <1>9, <1>10, <1>11, <1>12, <1>13,
     <1>14, <1>15, <1>16 DEF Next

\* TableInv is inductive, so it always holds.
LEMMA TableAlways ==
  /\ Spec => []TableInv
  /\ FormedSpec => []TableInv
BY TableInit, TableNext, PTL DEF Spec, FormedSpec

\* Every variable keeps its type, in every instance of the protocol.
THEOREM TypeCorrect ==
  /\ Spec => []TypeOK
  /\ FormedSpec => []TypeOK
<1>1. TableInv => TypeOK
  BY DEF TableInv
<1> QED
  BY <1>1, TableAlways, PTL

\* rebuildAggregatedState and the handlers of the coordinator keep each table
\* consistent: no grid both owned and free, no version forgotten, no decision
\* overruled, no plan without a leader.
THEOREM TablesConsistent ==
  /\ Spec => []CoordinatorsSound
  /\ FormedSpec => []CoordinatorsSound
<1>1. TableInv => CoordinatorsSound
  BY DEF TableInv
<1> QED
  BY <1>1, TableAlways, PTL

-----------------------------------------------------------------------------
(* What a drone has promised, asked for and holds.                         *)

PromiseInv == RelayHoldsNothing /\ StagedTxnIsCurrent

\* A commit that is applied is applied by an explorer.
LEMMA AppliesFacts ==
  ASSUME TypeOK, RelayHoldsNothing, NEW d \in Drone, NEW m, Applies(d, m)
  PROVE  role[d] = Explorer
<1>1. txn[d].active
  BY DEF Applies, TxnOf
<1> QED
  BY <1>1 DEF RelayHoldsNothing, TypeOK, Role

\* No step lets a relay, or a drone of another view, keep a promise.
LEMMA PromiseNext == TypeOK /\ PromiseInv /\ [Next]_vars => PromiseInv'
<1> SUFFICES ASSUME TypeOK, PromiseInv, [Next]_vars PROVE PromiseInv'
  OBVIOUS
<1>1. ASSUME UNCHANGED <<role, grids, txn, epoch, leader>> PROVE PromiseInv'
  BY <1>1 DEF PromiseInv, RelayHoldsNothing, StagedTxnIsCurrent
<1>2. ASSUME NEW d \in Drone, DroneStateTimer(d) PROVE PromiseInv'
  <2>1. PICK ep, ld : /\ epoch' = [epoch EXCEPT ![d] = ep]
                      /\ leader' = [leader EXCEPT ![d] = ld]
                      /\ txn' = [txn EXCEPT ![d] = Surviving(txn[d], ep, ld)]
    BY <1>2 DEF DroneStateTimer
  <2>2. UNCHANGED <<role, grids>>
    BY <1>2 DEF DroneStateTimer, droneVars
  <2>3. Surviving(txn[d], ep, ld).active =>
          txn[d].active /\ txn[d].epoch = ep /\ txn[d].leader = ld
                        /\ Surviving(txn[d], ep, ld) = txn[d]
    BY DEF Surviving, NoTxn
  <2>4. RelayHoldsNothing'
    BY <2>1, <2>2, <2>3 DEF PromiseInv, RelayHoldsNothing, TypeOK
  <2>5. StagedTxnIsCurrent'
    BY <2>1, <2>3 DEF PromiseInv, StagedTxnIsCurrent, TypeOK
  <2> QED
    BY <2>4, <2>5 DEF PromiseInv
<1>3. ASSUME NEW d \in Drone, EnterRelay(d) PROVE PromiseInv'
  <2>1. /\ role' = [role EXCEPT ![d] = Relay]
        /\ grids' = [grids EXCEPT ![d] = {}]
        /\ txn' = [txn EXCEPT ![d] = NoTxn]
        /\ UNCHANGED <<epoch, leader>>
    BY <1>3 DEF EnterRelay, viewVars
  <2>2. ~NoTxn.active
    BY DEF NoTxn
  <2> QED
    BY <2>1, <2>2 DEF PromiseInv, RelayHoldsNothing, StagedTxnIsCurrent, TypeOK
<1>4. ASSUME NEW d \in Drone, LeaveRelay(d) PROVE PromiseInv'
  <2>1. /\ role' = [role EXCEPT ![d] = Explorer]
        /\ UNCHANGED <<grids, txn, epoch, leader>>
    BY <1>4 DEF LeaveRelay, viewVars
  <2> QED
    BY <2>1 DEF PromiseInv, RelayHoldsNothing, StagedTxnIsCurrent, TypeOK,
                Explorer, Relay
<1>5. ASSUME NEW d \in Drone, NEW m \in net, RcvPlan(d, m) PROVE PromiseInv'
  <2>1. UNCHANGED <<role, grids, epoch, leader>>
    BY <1>5 DEF RcvPlan, droneVars, viewVars
  <2>2. CASE UNCHANGED txn
    BY <1>1, <2>1, <2>2
  <2>3. CASE InView(d, m) /\ role[d] = Explorer /\ txn' = [txn EXCEPT ![d] = TxnOf(m)]
    BY <2>1, <2>3 DEF PromiseInv, RelayHoldsNothing, StagedTxnIsCurrent, TypeOK,
                      InView, TxnOf, Explorer, Relay
  <2> QED
    BY <1>5, <2>2, <2>3 DEF RcvPlan
<1>6. ASSUME NEW d \in Drone, NEW m \in net, RcvCommit(d, m) PROVE PromiseInv'
  <2>1. UNCHANGED <<role, epoch, leader>>
    BY <1>6 DEF RcvCommit, viewVars
  <2>2. CASE ~Applies(d, m)
    BY <1>1, <1>6, <2>1, <2>2 DEF RcvCommit, txnVars
  <2>3. CASE Applies(d, m)
    <3>1. /\ grids' = [grids EXCEPT ![d] = @ \cup {m.grid}]
          /\ txn' = [txn EXCEPT ![d] = NoTxn]
      BY <1>6, <2>3 DEF RcvCommit
    <3>2. role[d] # Relay
      BY <2>3, AppliesFacts DEF PromiseInv, Explorer, Relay
    <3>3. ~NoTxn.active
      BY DEF NoTxn
    <3> QED
      BY <2>1, <3>1, <3>2, <3>3
      DEF PromiseInv, RelayHoldsNothing, StagedTxnIsCurrent, TypeOK
  <2> QED
    BY <2>2, <2>3
<1>7. ASSUME NEW d \in Drone, NEW p \in Drone, NEW S \in SUBSET Grid,
             \/ PeerState(d, p) \/ PeerLost(d, p)
             \/ PlanFailureRelease(d, S) \/ MapInvalidation(d, S)
      PROVE  PromiseInv'
  BY <1>1, <1>7 DEF PeerState, PeerLost, PlanFailureRelease, MapInvalidation,
                    droneVars, txnVars, viewVars
<1>8. ASSUME CoordUnchanged PROVE PromiseInv'
  BY <1>1, <1>8 DEF CoordUnchanged, droneVars, txnVars, viewVars
<1>9. CASE Tick
  BY <1>1, <1>9 DEF Tick, droneVars, txnVars, viewVars
<1>10. CASE UNCHANGED vars
  BY <1>1, <1>10 DEF vars, droneVars, txnVars, viewVars
<1>11. ASSUME NEW c \in Coord, CoordTimer(c) \/ \E s \in Drone : RcvComponentState(c, s)
       PROVE  PromiseInv'
  BY <1>8, <1>11 DEF CoordTimer, RcvComponentState
<1>12. ASSUME NEW m \in net, RcvRequest(m) \/ RcvAck(m) \/ RcvRelease(m)
       PROVE  PromiseInv'
  BY <1>8, <1>12 DEF RcvRequest, RcvAck, RcvRelease
<1>13. ASSUME NEW d \in Drone, OptTimer(d) PROVE PromiseInv'
  BY <1>1, <1>13 DEF OptTimer, viewVars
<1> QED
  BY <1>2, <1>3, <1>4, <1>5, <1>6, <1>7, <1>9, <1>10, <1>11, <1>12, <1>13 DEF Next

\* What d asks for is disjoint from what it holds.
Unasked(d) == (claim[d] \cup recover[d]) \cap Effective(d) = {}

\* tryClaimUnallocatedGrids, by whatever callback of an explorer.
LEMMA ClaimUnasked ==
  ASSUME TypeOK, CandidatesUnowned, NEW d \in Drone,
         NEW share \in Shares(d) \cup Shares(d)', NEW sent,
         ClaimShare(d, share, sent), role[d] = Explorer,
         UNCHANGED <<role, grids, recover>>,
         \/ share \in Shares(d) /\ hidden' = hidden
         \/ share \in Shares(d)' /\ hidden[d] \subseteq hidden'[d]
                                 /\ \A e \in Drone \ {d} : hidden'[e] = hidden[e]
  PROVE  CandidatesUnowned'
<1>1. /\ claim' = [claim EXCEPT ![d] = share]
      /\ Effective(d)' \subseteq Effective(d)
      /\ \A e \in Drone \ {d} : Effective(e)' = Effective(e)
  BY DEF ClaimShare, Effective, TypeOK
<1>2. share \cap Effective(d)' = {}
  <2>1. CASE share \in Shares(d)
    BY <1>1, <2>1, SharesFacts, MissedFacts
  <2>2. CASE share \in Shares(d)'
    <3>1. role'[d] = Explorer
      OBVIOUS
    <3> QED
      BY <2>2, <3>1, SharesFacts, MissedFacts
  <2> QED
    BY <2>1, <2>2
<1>3. \A e \in Drone : Unasked(e)
  BY DEF CandidatesUnowned, Unasked
<1>4. ASSUME NEW e \in Drone PROVE Unasked(e)'
  <2>1. CASE e = d
    BY <1>1, <1>2, <1>3, <2>1 DEF Unasked, TypeOK
  <2>2. CASE e # d
    BY <1>1, <1>3, <2>2 DEF Unasked, TypeOK
  <2> QED
    BY <2>1, <2>2
<1> QED
  BY <1>4 DEF CandidatesUnowned, Unasked

\* No step leaves a held grid in a staging list.
LEMMA CandidatesNext ==
  TypeOK /\ RelayHoldsNothing /\ CandidatesUnowned /\ [Next]_vars => CandidatesUnowned'
<1> SUFFICES ASSUME TypeOK, RelayHoldsNothing, CandidatesUnowned, [Next]_vars
             PROVE  CandidatesUnowned'
  OBVIOUS
\* Most steps ask for nothing new, and take nothing.
<1>1. ASSUME UNCHANGED <<role, grids, claim, recover>>,
             \A e \in Drone : hidden[e] \subseteq hidden'[e]
      PROVE  CandidatesUnowned'
  BY <1>1 DEF CandidatesUnowned, Effective
<1>2. ASSUME UNCHANGED <<role, grids, claim, recover, hidden>>
      PROVE  CandidatesUnowned'
  BY <1>1, <1>2
<1>3. ASSUME NEW d \in Drone, OptTimer(d) PROVE CandidatesUnowned'
  <2>1. PICK share \in Shares(d) : ClaimShare(d, share, net)
    BY <1>3 DEF OptTimer
  <2>2. role[d] = Explorer /\ UNCHANGED <<role, grids, hidden, recover>>
    BY <1>3 DEF OptTimer
  <2> QED
    BY <2>1, <2>2, ClaimUnasked
<1>4. ASSUME NEW d \in Drone, NEW p \in Drone, PeerState(d, p) PROVE CandidatesUnowned'
  <2>1. UNCHANGED <<role, grids, hidden, recover>>
    BY <1>4 DEF PeerState
  <2>2. CASE UNCHANGED <<claim, net, nextTxn>>
    BY <1>2, <2>1, <2>2
  <2>3. CASE role[d] = Explorer /\ \E share \in Shares(d)' : ClaimShare(d, share, net)
    BY <2>1, <2>3, ClaimUnasked
  <2> QED
    BY <1>4, <2>2, <2>3 DEF PeerState
<1>5. ASSUME NEW d \in Drone, NEW S \in SUBSET Grid, PlanFailureRelease(d, S)
      PROVE  CandidatesUnowned'
  BY <1>1, <1>5 DEF PlanFailureRelease, TypeOK
<1>6. ASSUME NEW d \in Drone, NEW S \in SUBSET Grid, MapInvalidation(d, S)
      PROVE  CandidatesUnowned'
  <2>1. /\ UNCHANGED <<role, grids, recover>>
        /\ role[d] = Explorer
        /\ hidden[d] \subseteq hidden'[d]
        /\ \A e \in Drone \ {d} : hidden'[e] = hidden[e]
    BY <1>6 DEF MapInvalidation, TypeOK
  <2>2. CASE UNCHANGED claim
    BY <1>1, <2>1, <2>2
  <2>3. CASE \E share \in Shares(d)' :
               ClaimShare(d, share, net \cup ReleaseSent(d, S))
    BY <2>1, <2>3, ClaimUnasked
  <2> QED
    BY <1>6, <2>2, <2>3 DEF MapInvalidation
<1>7. ASSUME NEW d \in Drone, EnterRelay(d) PROVE CandidatesUnowned'
  <2>1. /\ role' = [role EXCEPT ![d] = Relay]
        /\ claim' = [claim EXCEPT ![d] = {}]
        /\ recover' = [recover EXCEPT ![d] = {}]
        /\ grids' = [grids EXCEPT ![d] = {}]
        /\ hidden' = [hidden EXCEPT ![d] = hidden[d] \cup grids[d]]
    BY <1>7 DEF EnterRelay
  <2> QED
    BY <2>1 DEF CandidatesUnowned, Effective, TypeOK
<1>8. ASSUME NEW d \in Drone, LeaveRelay(d) PROVE CandidatesUnowned'
  <2>1. /\ role[d] = Relay
        /\ role' = [role EXCEPT ![d] = Explorer]
        /\ UNCHANGED <<grids, hidden>>
        /\ \A e \in Drone \ {d} : claim'[e] = claim[e] /\ recover'[e] = recover[e]
    BY <1>8 DEF LeaveRelay, TypeOK
  <2>2. grids[d] = {}
    BY <2>1 DEF RelayHoldsNothing
  <2>3. Effective(d)' = {}
    BY <2>1, <2>2 DEF Effective, TypeOK, Explorer, Relay
  <2>4. \A e \in Drone \ {d} : Effective(e)' = Effective(e)
    BY <2>1 DEF Effective, TypeOK
  <2> QED
    BY <2>1, <2>3, <2>4 DEF CandidatesUnowned
<1>9. ASSUME NEW d \in Drone, NEW m \in net, RcvCommit(d, m) PROVE CandidatesUnowned'
  <2>1. CASE ~Applies(d, m)
    BY <1>2, <1>9, <2>1 DEF RcvCommit
  <2>2. CASE Applies(d, m)
    <3>1. /\ grids' = [grids EXCEPT ![d] = grids[d] \cup {m.grid}]
          /\ hidden' = [hidden EXCEPT ![d] = hidden[d] \ {m.grid}]
          /\ claim' = [claim EXCEPT ![d] = claim[d] \ {m.grid}]
          /\ recover' = [recover EXCEPT ![d] = recover[d] \ {m.grid}]
          /\ role' = role
      BY <1>9, <2>2 DEF RcvCommit
    <3>2. /\ Effective(d)' \subseteq Effective(d) \cup {m.grid}
          /\ \A e \in Drone \ {d} : Effective(e)' = Effective(e)
      BY <3>1 DEF Effective, TypeOK
    <3>3. \A e \in Drone : Unasked(e)
      BY DEF CandidatesUnowned, Unasked
    <3>4. ASSUME NEW e \in Drone PROVE Unasked(e)'
      <4>1. CASE e = d
        BY <3>1, <3>2, <3>3, <4>1 DEF Unasked, TypeOK
      <4>2. CASE e # d
        BY <3>1, <3>2, <3>3, <4>2 DEF Unasked, TypeOK
      <4> QED
        BY <4>1, <4>2
    <3> QED
      BY <3>4 DEF CandidatesUnowned, Unasked
  <2> QED
    BY <2>1, <2>2
<1>10. ASSUME NEW d \in Drone, NEW m \in net, RcvPlan(d, m)
       PROVE  CandidatesUnowned'
  BY <1>2, <1>10 DEF RcvPlan, droneVars
<1>11. ASSUME CoordUnchanged PROVE CandidatesUnowned'
  BY <1>2, <1>11 DEF CoordUnchanged, droneVars
<1>12. ASSUME NEW c \in Coord, CoordTimer(c) \/ \E s \in Drone : RcvComponentState(c, s)
       PROVE  CandidatesUnowned'
  BY <1>11, <1>12 DEF CoordTimer, RcvComponentState
<1>13. ASSUME NEW m \in net, RcvRequest(m) \/ RcvAck(m) \/ RcvRelease(m)
       PROVE  CandidatesUnowned'
  BY <1>11, <1>13 DEF RcvRequest, RcvAck, RcvRelease
<1>14. ASSUME NEW d \in Drone, NEW p \in Drone, DroneStateTimer(d) \/ PeerLost(d, p)
       PROVE  CandidatesUnowned'
  BY <1>2, <1>14 DEF DroneStateTimer, PeerLost, droneVars
<1>15. CASE Tick \/ UNCHANGED vars
  BY <1>2, <1>15 DEF Tick, vars, droneVars
<1> QED
  BY <1>3, <1>4, <1>5, <1>6, <1>7, <1>8, <1>9, <1>10, <1>12, <1>13, <1>14, <1>15 DEF Next

\* The three invariants of the participants, and the types they rest on.
LEMMA ParticipantAlways ==
  /\ Spec => [](TypeOK /\ PromiseInv /\ CandidatesUnowned)
  /\ FormedSpec => [](TypeOK /\ PromiseInv /\ CandidatesUnowned)
<1>1. Init \/ FormedInit => PromiseInv /\ CandidatesUnowned
  BY DEF Init, FormedInit, PromiseInv, RelayHoldsNothing, StagedTxnIsCurrent, CandidatesUnowned,
         NoTxn, Explorer, Relay
<1>2. TableInv => TypeOK
  BY DEF TableInv
<1>3. PromiseInv => RelayHoldsNothing
  BY DEF PromiseInv
<1> QED
  BY <1>1, <1>2, <1>3, TableInit, TableNext, PromiseNext, CandidatesNext, PTL
  DEF Spec, FormedSpec

\* A relay holds no grid and can not come to hold one
\* (relayRoleCmdCallback, assignmentPlanCallback, assignmentCommitCallback).
THEOREM RelaysHoldNothing ==
  /\ Spec => []RelayHoldsNothing
  /\ FormedSpec => []RelayHoldsNothing
<1>1. PromiseInv => RelayHoldsNothing
  BY DEF PromiseInv
<1> QED
  BY <1>1, ParticipantAlways, PTL

\* A staged transaction never outlives the view it was staged in
\* (droneStateTimerCallback).
THEOREM StagedTxnsAreCurrent ==
  /\ Spec => []StagedTxnIsCurrent
  /\ FormedSpec => []StagedTxnIsCurrent
<1>1. PromiseInv => StagedTxnIsCurrent
  BY DEF PromiseInv
<1> QED
  BY <1>1, ParticipantAlways, PTL

\* No drone asks for what it holds (assignmentCommitCallback cleans the lists
\* from which publishAllocationRequest takes its candidates).
THEOREM NothingHeldIsAskedFor ==
  /\ Spec => []CandidatesUnowned
  /\ FormedSpec => []CandidatesUnowned
BY ParticipantAlways, PTL

-----------------------------------------------------------------------------
(* ComponentAllocation implements AssignmentGrant: every step is a step of *)
(* the abstract transaction or changes nothing it speaks of.               *)

\* Two messages of the same kind stand for the same grant only if they are
\* the same message, so that consuming one is consuming the grant.
LEMMA GrantInjective ==
  ASSUME TypeOK, NEW m \in net, NEW n \in net, GrantIn(m) = GrantIn(n),
         \/ m \in Promises /\ n \in Promises
         \/ m \in Decisions /\ n \in Decisions
  PROVE  m = n
<1>1. m \in Message /\ n \in Message
  BY DEF TypeOK
<1>2. CASE m \in Promises /\ n \in Promises
  <2>1. m \in AckMsg /\ n \in AckMsg /\ m.accept = n.accept
    BY <1>1, <1>2, MessageKinds DEF Promises, AckMsg
  <2> QED
    BY <2>1 DEF AckMsg, GrantIn
<1>3. CASE m \in Decisions /\ n \in Decisions
  <2>1. m \in GrantMsg /\ n \in GrantMsg /\ m.type = n.type
    BY <1>1, <1>3, MessageKinds DEF Decisions
  <2> QED
    BY <2>1 DEF GrantMsg, GrantIn
<1> QED
  BY <1>2, <1>3

\* The messages that count: other traffic changes nothing abstract.
Answers(msgs) == {m \in msgs : m.type \in {"ack", "commit"}}

\* Traffic other than acks and commits neither promises nor decides.
LEMMA OtherTraffic ==
  ASSUME Answers(net') = Answers(net)
  PROVE  AllPromised' = AllPromised /\ AllDecided' = AllDecided
<1>1. Promises = {m \in Answers(net) : m.type = "ack" /\ m.accept}
  BY DEF Promises, Answers
<1>2. Promises' = {m \in Answers(net') : m.type = "ack" /\ m.accept}
  BY DEF Promises, Answers
<1>3. Decisions = {m \in Answers(net) : m.type = "commit"}
  BY DEF Decisions, Answers
<1>4. Decisions' = {m \in Answers(net') : m.type = "commit"}
  BY DEF Decisions, Answers
<1> QED
  BY <1>1, <1>2, <1>3, <1>4 DEF AllPromised, AllDecided

\* Nothing of the abstract state changes.
LEMMA Stutter ==
  ASSUME UNCHANGED <<AllHeld, AllStaged, AllPromised, AllDecided>>
  PROVE  [Granting!Next]_Granting!vars
BY DEF Granting!vars

\* Nothing is held, staged or in flight at the start.
LEMMA RefineInit == Init \/ FormedInit => Granting!Init
<1> SUFFICES ASSUME Init \/ FormedInit PROVE Granting!Init
  OBVIOUS
<1>1. AllHeld = [d \in Drone |-> {}]
  BY DEF Init, FormedInit, AllHeld, Effective
<1>2. AllStaged = [d \in Drone |-> NoTxn]
  BY DEF Init, FormedInit, AllStaged, StagedBy, NoTxn
<1>3. AllPromised = {} /\ AllDecided = {}
  BY DEF Init, FormedInit, AllPromised, AllDecided, Promises, Decisions
<1> QED
  BY <1>1, <1>2, <1>3 DEF Granting!Init

\* A drone gives up grids or stops waiting, and no answer is consumed.
LEMMA RefineWithdraw ==
  ASSUME NEW d \in Drone, NEW S \in SUBSET Grid,
         AllHeld' = [AllHeld EXCEPT ![d] = @ \ S],
         \E x \in {AllStaged[d], NoTxn} : AllStaged' = [AllStaged EXCEPT ![d] = x],
         UNCHANGED <<AllPromised, AllDecided>>
  PROVE  [Granting!Next]_Granting!vars
<1>1. Granting!Withdraw(d, S)
  BY DEF Granting!Withdraw
<1> QED
  BY <1>1 DEF Granting!Next

\* AllHeld and AllStaged, one drone at a time.
LEMMA HeldSame ==
  ASSUME UNCHANGED <<role, grids, hidden>>
  PROVE  AllHeld' = AllHeld
BY DEF AllHeld, Effective

\* A drone whose staged transaction stays waits for the same grant.
LEMMA StagedSame ==
  ASSUME UNCHANGED txn
  PROVE  AllStaged' = AllStaged
BY DEF AllStaged, StagedBy

\* A callback of one drone changes what that drone waits for only.
LEMMA StagedChange ==
  ASSUME TypeOK, NEW d \in Drone, NEW t, txn' = [txn EXCEPT ![d] = t]
  PROVE  AllStaged' = [AllStaged EXCEPT ![d] = StagedBy(d)']
BY DEF AllStaged, StagedBy, TypeOK

\* The requests a callback publishes do not count.
LEMMA PublishTraffic ==
  ASSUME NEW d, NEW rec, NEW cl, NEW staged, NEW sent,
         PublishRequest(d, rec, cl, staged, sent)
  PROVE  Answers(net') = Answers(sent)
BY DEF PublishRequest, Request, Answers

\* A plan that is accepted is a promise.
LEMMA RefineRcvPlan ==
  ASSUME TypeOK, NEW d \in Drone, NEW m \in net, RcvPlan(d, m)
  PROVE  [Granting!Next]_Granting!vars
<1>1. /\ m.type = "plan" /\ m.drone = d
      /\ UNCHANGED <<role, grids, hidden>>
  BY DEF RcvPlan, droneVars
<1>2. m \in GrantMsg
  BY <1>1, MessageKinds DEF TypeOK
<1>3. AllHeld' = AllHeld
  BY <1>1, HeldSame
<1>4. CASE net' = Rest(m) /\ UNCHANGED txn
  <2>1. Answers(net') = Answers(net)
    BY <1>1, <1>4 DEF Rest, Answers
  <2>2. AllPromised' = AllPromised /\ AllDecided' = AllDecided
    BY <2>1, OtherTraffic
  <2> QED
    BY <1>3, <1>4, <2>2, StagedSame, Stutter
<1>5. CASE net' = Rest(m) \cup {Ack(m, FALSE)} /\ UNCHANGED txn
  <2>1. Promises' = Promises /\ Decisions' = Decisions
    BY <1>1, <1>5 DEF Rest, Ack, Promises, Decisions
  <2> QED
    BY <1>3, <1>5, <2>1, StagedSame, Stutter DEF AllPromised, AllDecided
<1>6. CASE /\ txn[d] \in {NoTxn, TxnOf(m)}
           /\ net' = Rest(m) \cup {Ack(m, TRUE)}
           /\ txn' = [txn EXCEPT ![d] = TxnOf(m)]
  <2> DEFINE x == GrantIn(m)
  <2>1. x \in Grant /\ x.drone = d
    BY <1>1, <1>2 DEF GrantIn, Grant, GrantMsg
  <2>2. Promises' = Promises \cup {Ack(m, TRUE)} /\ Decisions' = Decisions
    BY <1>1, <1>6 DEF Rest, Ack, Promises, Decisions
  <2>3. GrantIn(Ack(m, TRUE)) = x
    BY DEF GrantIn, Ack
  <2>4. AllPromised' = AllPromised \cup {x} /\ AllDecided' = AllDecided
    BY <2>2, <2>3 DEF AllPromised, AllDecided
  <2>5. StagedBy(d)' = x
    <3>1. txn'[d] = TxnOf(m)
      BY <1>6 DEF TypeOK
    <3> QED
      BY <1>1, <3>1 DEF StagedBy, TxnOf, GrantIn
  <2>6. AllStaged' = [AllStaged EXCEPT ![d] = x]
    BY <1>6, <2>5, StagedChange
  <2>7. AllStaged[d] \in {NoTxn, x}
    <3>1. AllStaged[d] = StagedBy(d)
      BY DEF AllStaged
    <3>2. CASE txn[d] = NoTxn
      BY <3>1, <3>2 DEF StagedBy, NoTxn
    <3>3. CASE txn[d] = TxnOf(m)
      BY <1>1, <3>1, <3>3 DEF StagedBy, TxnOf, GrantIn
    <3> QED
      BY <1>6, <3>2, <3>3
  <2> HIDE DEF x
  <2>8. Granting!Promise(x)
    BY <1>3, <2>1, <2>4, <2>6, <2>7 DEF Granting!Promise
  <2>9. x \in AllPromised'
    BY <2>4
  <2> QED
    BY <2>8, <2>9 DEF Granting!Next
<1> QED
  BY <1>4, <1>5, <1>6 DEF RcvPlan

\* A commit is taken by the drone that waits for it, or forgotten.
LEMMA RefineRcvCommit ==
  ASSUME TypeOK, RelayHoldsNothing, NEW d \in Drone, NEW m \in net, RcvCommit(d, m)
  PROVE  [Granting!Next]_Granting!vars
<1> DEFINE x == GrantIn(m)
<1>1. m.type = "commit" /\ m.drone = d /\ role' = role
  BY DEF RcvCommit
<1>2. m \in Decisions /\ m \notin Promises
  BY <1>1 DEF Decisions, Promises
<1>3. x \in AllDecided /\ x.drone = d /\ x.grid = m.grid
  BY <1>1, <1>2 DEF AllDecided, GrantIn
<1>4. ASSUME Answers(net') = Answers(Rest(m))
      PROVE  AllDecided' = AllDecided \ {x} /\ AllPromised' = AllPromised
  <2>1. Promises' = Promises /\ Decisions' = Decisions \ {m}
    <3>1. /\ Promises' = {n \in Answers(net') : n.type = "ack" /\ n.accept}
          /\ Decisions' = {n \in Answers(net') : n.type = "commit"}
      BY DEF Promises, Decisions, Answers
    <3>2. Answers(net') = Answers(net) \ {m}
      BY <1>4 DEF Answers, Rest
    <3> QED
      BY <1>2, <3>1, <3>2 DEF Promises, Decisions, Answers
  <2>2. \A n \in Decisions : GrantIn(n) = x => n = m
    BY <1>2, GrantInjective DEF Decisions
  <2>3. AllPromised' = AllPromised
    BY <2>1 DEF AllPromised
  <2>4. AllDecided' = AllDecided \ {x}
    BY <1>2, <2>1, <2>2 DEF AllDecided
  <2> QED
    BY <2>3, <2>4
<1>5. CASE ~Applies(d, m)
  <2>1. net' = Rest(m) /\ UNCHANGED <<role, grids, hidden, txn>>
    BY <1>1, <1>5 DEF RcvCommit, txnVars
  <2>2. AllDecided' = AllDecided \ {x} /\ AllPromised' = AllPromised
    BY <1>4, <2>1
  <2>3. AllHeld' = AllHeld /\ AllStaged' = AllStaged
    BY <2>1, HeldSame, StagedSame
  <2> HIDE DEF x
  <2>4. Granting!Forget(x)
    BY <2>2, <2>3 DEF Granting!Forget
  <2> QED
    BY <1>3, <2>4 DEF Granting!Next
<1>6. CASE Applies(d, m)
  <2>1. /\ grids' = [grids EXCEPT ![d] = grids[d] \cup {m.grid}]
        /\ hidden' = [hidden EXCEPT ![d] = hidden[d] \ {m.grid}]
        /\ txn' = [txn EXCEPT ![d] = NoTxn]
        /\ PublishRequest(d, recover[d] \ {m.grid}, claim[d] \ {m.grid},
                          FALSE, Rest(m))
    BY <1>6 DEF RcvCommit
  <2>2. AllDecided' = AllDecided \ {x} /\ AllPromised' = AllPromised
    BY <1>4, <2>1, PublishTraffic
  <2>3. role[d] = Explorer
    BY <1>6, AppliesFacts
  <2>4. Effective(d)' = Effective(d) \cup {m.grid}
    BY <1>1, <2>1, <2>3 DEF Effective, TypeOK, Explorer, Relay
  <2>5. \A e \in Drone \ {d} : Effective(e)' = Effective(e)
    BY <1>1, <2>1 DEF Effective, TypeOK
  <2>6. AllHeld' = [AllHeld EXCEPT ![d] = AllHeld[d] \cup {x.grid}]
    BY <1>3, <2>4, <2>5 DEF AllHeld
  <2>7. StagedBy(d)' = NoTxn
    <3>1. txn'[d] = NoTxn
      BY <2>1 DEF TypeOK
    <3> QED
      BY <3>1 DEF StagedBy, NoTxn
  <2>8. AllStaged' = [AllStaged EXCEPT ![d] = NoTxn]
    BY <2>1, <2>7, StagedChange
  <2>9. AllStaged[d] = x
    <3>1. AllStaged[d] = StagedBy(d)
      BY DEF AllStaged
    <3>2. txn[d] = TxnOf(m)
      BY <1>6 DEF Applies
    <3> QED
      BY <1>1, <3>1, <3>2 DEF StagedBy, TxnOf, GrantIn
  <2> HIDE DEF x
  <2>10. Granting!Take(x)
    BY <1>3, <2>2, <2>6, <2>8, <2>9 DEF Granting!Take
  <2> QED
    BY <1>3, <2>10 DEF Granting!Next
<1> QED
  BY <1>5, <1>6

\* A promise is decided upon once, or forgotten.
LEMMA RefineRcvAck ==
  ASSUME TypeOK, NEW m \in net, RcvAck(m)
  PROVE  [Granting!Next]_Granting!vars
<1> DEFINE x == GrantIn(m)
           c == m.leader
<1>1. m.type = "ack" /\ m \in AckMsg
  BY MessageKinds DEF RcvAck, TypeOK
<1>2. AllHeld' = AllHeld /\ AllStaged' = AllStaged
  BY HeldSame, StagedSame DEF RcvAck, CoordUnchanged, droneVars, txnVars
<1>3. m \notin Decisions
  BY <1>1 DEF Decisions
<1>4. ASSUME Promises' = Promises \ {m}, m \in Promises
      PROVE  AllPromised' = AllPromised \ {x}
  <2>1. \A n \in Promises : GrantIn(n) = x => n = m
    BY <1>4, GrantInjective DEF Promises
  <2> QED
    BY <1>4, <2>1 DEF AllPromised
<1>5. CASE /\ c \in Coord
           /\ AckFits(c, coord[c], m)
           /\ net' = Rest(m) \cup {Answer("commit", c, coord[c].plan)}
  <2> DEFINE n == Answer("commit", c, coord[c].plan)
  <2>1. m \in Promises
    BY <1>1, <1>5 DEF AckFits, Promises
  <2>2. n.type = "commit"
    BY DEF Answer
  <2>3. GrantIn(n) = x
    BY <1>5 DEF Answer, AckFits, SameView, GrantIn
  <2> HIDE DEF n
  <2>4. Promises' = Promises \ {m} /\ Decisions' = Decisions \cup {n}
    BY <1>1, <1>5, <2>2 DEF n, Rest, Promises, Decisions
  <2>5. AllPromised' = AllPromised \ {x}
    BY <1>4, <2>1, <2>4
  <2>6. AllDecided' = AllDecided \cup {x}
    BY <2>3, <2>4 DEF AllDecided
  <2>7. x \in AllPromised
    BY <2>1 DEF AllPromised
  <2> HIDE DEF x
  <2>8. Granting!Decide(x)
    BY <1>2, <2>5, <2>6, <2>7 DEF Granting!Decide
  <2> QED
    BY <2>7, <2>8 DEF Granting!Next
<1>6. CASE net' = Rest(m)
  <2>1. Promises' = Promises \ {m} /\ Decisions' = Decisions
    BY <1>3, <1>6 DEF Rest, Promises, Decisions
  <2>2. AllDecided' = AllDecided
    BY <2>1 DEF AllDecided
  <2>3. CASE m \in Promises
    <3>1. AllPromised' = AllPromised \ {x} /\ x \in AllPromised
      BY <1>4, <2>1, <2>3 DEF AllPromised
    <3> HIDE DEF x
    <3>2. Granting!Forget(x)
      BY <1>2, <2>2, <3>1 DEF Granting!Forget
    <3> QED
      BY <3>1, <3>2 DEF Granting!Next
  <2>4. CASE m \notin Promises
    <3>1. AllPromised' = AllPromised
      BY <2>1, <2>4 DEF AllPromised
    <3> QED
      BY <1>2, <2>2, <3>1, Stutter
  <2> QED
    BY <2>3, <2>4
<1> QED
  BY <1>5, <1>6 DEF RcvAck

\* A change of view may end the waiting.
LEMMA RefineDroneStateTimer ==
  ASSUME TypeOK, NEW d \in Drone, DroneStateTimer(d)
  PROVE  [Granting!Next]_Granting!vars
<1>1. PICK ep, ld : txn' = [txn EXCEPT ![d] = Surviving(txn[d], ep, ld)]
  BY DEF DroneStateTimer
<1>2. UNCHANGED <<role, grids, hidden, net>>
  BY DEF DroneStateTimer, droneVars
<1>3. AllPromised' = AllPromised /\ AllDecided' = AllDecided
  BY <1>2, OtherTraffic
<1>4. AllHeld' = AllHeld
  BY <1>2, HeldSame
<1>5. AllHeld' = [AllHeld EXCEPT ![d] = @ \ {}]
  BY <1>4 DEF AllHeld
<1>6. AllStaged' = [AllStaged EXCEPT ![d] = StagedBy(d)']
  BY <1>1, StagedChange
<1>7. StagedBy(d)' \in {AllStaged[d], NoTxn}
  <2>1. txn'[d] \in {txn[d], NoTxn}
    BY <1>1 DEF Surviving, TypeOK
  <2>2. AllStaged[d] = StagedBy(d)
    BY DEF AllStaged
  <2>3. CASE txn'[d] = txn[d]
    BY <2>2, <2>3 DEF StagedBy
  <2>4. CASE txn'[d] = NoTxn
    BY <2>4 DEF StagedBy, NoTxn
  <2> QED
    BY <2>1, <2>3, <2>4
<1>8. \E x \in {AllStaged[d], NoTxn} : AllStaged' = [AllStaged EXCEPT ![d] = x]
  BY <1>6, <1>7
<1>9. Granting!Withdraw(d, {})
  BY <1>3, <1>5, <1>8 DEF Granting!Withdraw
<1> QED
  BY <1>9 DEF Granting!Next

\* A drone hides grids, and goes on waiting for what it waits for.
LEMMA RefineHide ==
  ASSUME TypeOK, NEW d \in Drone, NEW S \in SUBSET Grid,
         PlanFailureRelease(d, S) \/ MapInvalidation(d, S)
  PROVE  [Granting!Next]_Granting!vars
<1>1. /\ UNCHANGED <<role, grids, txn>>
      /\ hidden' = [hidden EXCEPT ![d] = hidden[d] \cup S]
      /\ role[d] = Explorer
  <2>1. CASE PlanFailureRelease(d, S)
    BY <2>1 DEF PlanFailureRelease, txnVars
  <2>2. CASE MapInvalidation(d, S)
    BY <2>2 DEF MapInvalidation
  <2> QED
    BY <2>1, <2>2
<1>2. Answers(net') = Answers(net)
  <2>1. /\ Release(d, S).type = "release"
        /\ \A m \in ReleaseSent(d, S) : m.type = "release"
    BY DEF ReleaseSent, Release
  <2>2. Answers(net \cup ReleaseSent(d, S)) = Answers(net)
    BY <2>1 DEF Answers
  <2>3. CASE PlanFailureRelease(d, S)
    BY <2>1, <2>3 DEF PlanFailureRelease, Answers
  <2>4. CASE net' = net \cup ReleaseSent(d, S)
    BY <2>2, <2>4
  <2>5. ASSUME NEW share, ClaimShare(d, share, net \cup ReleaseSent(d, S))
        PROVE  Answers(net') = Answers(net)
    BY <2>2, <2>5, PublishTraffic DEF ClaimShare
  <2> QED
    BY <2>3, <2>4, <2>5 DEF MapInvalidation
<1>3. AllPromised' = AllPromised /\ AllDecided' = AllDecided
  BY <1>2, OtherTraffic
<1>4. Effective(d)' = Effective(d) \ S
  BY <1>1 DEF Effective, TypeOK, Explorer, Relay
<1>5. \A e \in Drone \ {d} : Effective(e)' = Effective(e)
  BY <1>1 DEF Effective, TypeOK
<1>6. AllHeld' = [AllHeld EXCEPT ![d] = AllHeld[d] \ S]
  BY <1>4, <1>5 DEF AllHeld
<1>7. AllStaged' = [AllStaged EXCEPT ![d] = AllStaged[d]]
  BY <1>1, StagedSame DEF AllStaged
<1> QED
  BY <1>3, <1>6, <1>7, RefineWithdraw

\* A drone that turns relay gives up everything.
LEMMA RefineEnterRelay ==
  ASSUME TypeOK, NEW d \in Drone, EnterRelay(d)
  PROVE  [Granting!Next]_Granting!vars
<1>1. /\ role' = [role EXCEPT ![d] = Relay]
      /\ grids' = [grids EXCEPT ![d] = {}]
      /\ hidden' = [hidden EXCEPT ![d] = hidden[d] \cup grids[d]]
      /\ txn' = [txn EXCEPT ![d] = NoTxn]
      /\ net' = net \cup ReleaseSent(d, grids[d])
  BY DEF EnterRelay
<1>2. Answers(net') = Answers(net)
  BY <1>1 DEF Answers, ReleaseSent, Release
<1>3. AllPromised' = AllPromised /\ AllDecided' = AllDecided
  BY <1>2, OtherTraffic
<1>4. Effective(d)' = Effective(d) \ Grid
  BY <1>1 DEF Effective, TypeOK
<1>5. \A e \in Drone \ {d} : Effective(e)' = Effective(e)
  BY <1>1 DEF Effective, TypeOK
<1>6. AllHeld' = [AllHeld EXCEPT ![d] = AllHeld[d] \ Grid]
  BY <1>4, <1>5 DEF AllHeld
<1>7. StagedBy(d)' = NoTxn
  <2>1. txn'[d] = NoTxn
    BY <1>1 DEF TypeOK
  <2> QED
    BY <2>1 DEF StagedBy, NoTxn
<1>8. AllStaged' = [AllStaged EXCEPT ![d] = NoTxn]
  BY <1>1, <1>7, StagedChange
<1> QED
  BY <1>3, <1>6, <1>8, RefineWithdraw

\* A drone that leaves relay duty holds nothing yet.
LEMMA RefineLeaveRelay ==
  ASSUME TypeOK, RelayHoldsNothing, NEW d \in Drone, LeaveRelay(d)
  PROVE  [Granting!Next]_Granting!vars
<1>1. /\ role[d] = Relay
      /\ role' = [role EXCEPT ![d] = Explorer]
      /\ UNCHANGED <<grids, hidden, txn>>
  BY DEF LeaveRelay
<1>2. Answers(net') = Answers(net)
  BY PublishTraffic DEF LeaveRelay
<1>3. AllPromised' = AllPromised /\ AllDecided' = AllDecided
  BY <1>2, OtherTraffic
<1>4. grids[d] = {}
  BY <1>1 DEF RelayHoldsNothing
<1>5. \A e \in Drone : Effective(e)' = Effective(e)
  BY <1>1, <1>4 DEF Effective, TypeOK
<1>6. AllHeld' = AllHeld /\ AllStaged' = AllStaged
  BY <1>1, <1>5, StagedSame DEF AllHeld
<1> QED
  BY <1>3, <1>6, Stutter

\* Claims are requests, which promise nothing.
LEMMA RefineClaims ==
  ASSUME NEW d \in Drone, OptTimer(d) \/ \E p \in Drone : PeerState(d, p)
  PROVE  [Granting!Next]_Granting!vars
<1>1. UNCHANGED <<role, grids, hidden, txn>>
  BY DEF OptTimer, PeerState
<1>2. \/ \E share : ClaimShare(d, share, net)
      \/ net' = net
  BY DEF OptTimer, PeerState
<1>3. Answers(net') = Answers(net)
  BY <1>2, PublishTraffic DEF ClaimShare
<1> QED
  BY <1>1, <1>3, HeldSame, StagedSame, OtherTraffic, Stutter

\* The other handlers of the coordinator send plans at most.
LEMMA RefineCoordinator ==
  ASSUME CoordUnchanged,
         \/ net' = net
         \/ \E m \in net : RcvRequest(m) \/ RcvRelease(m)
  PROVE  [Granting!Next]_Granting!vars
<1>1. UNCHANGED <<role, grids, hidden, txn>>
  BY DEF CoordUnchanged, droneVars, txnVars
<1>2. Answers(net') = Answers(net)
  BY DEF RcvRequest, RcvRelease, Rest, Answer, Answers
<1> QED
  BY <1>1, <1>2, HeldSame, StagedSame, OtherTraffic, Stutter

\* Every step of the protocol is a step of AssignmentGrant or none.
LEMMA RefineNext ==
  TypeOK /\ RelayHoldsNothing /\ [Next]_vars => [Granting!Next]_Granting!vars
<1> SUFFICES ASSUME TypeOK, RelayHoldsNothing, [Next]_vars
             PROVE  [Granting!Next]_Granting!vars
  OBVIOUS
<1>1. ASSUME UNCHANGED <<role, grids, hidden, txn, net>>
      PROVE  [Granting!Next]_Granting!vars
  BY <1>1, HeldSame, StagedSame, OtherTraffic, Stutter
<1>2. ASSUME NEW d \in Drone, NEW p \in Drone, PeerLost(d, p)
      PROVE  [Granting!Next]_Granting!vars
  BY <1>1, <1>2 DEF PeerLost, droneVars, txnVars
<1>3. CASE Tick \/ UNCHANGED vars
  BY <1>1, <1>3 DEF Tick, vars, droneVars, txnVars
<1>4. ASSUME NEW c \in Coord, CoordTimer(c) \/ \E s \in Drone : RcvComponentState(c, s)
      PROVE  [Granting!Next]_Granting!vars
  BY <1>4, RefineCoordinator DEF CoordTimer, RcvComponentState
<1>5. ASSUME NEW m \in net, RcvRequest(m) \/ RcvRelease(m)
      PROVE  [Granting!Next]_Granting!vars
  <2>1. CoordUnchanged
    BY <1>5 DEF RcvRequest, RcvRelease
  <2> QED
    BY <1>5, <2>1, RefineCoordinator
<1> QED
  BY <1>2, <1>3, <1>4, <1>5, RefineRcvPlan, RefineRcvCommit, RefineRcvAck,
     RefineDroneStateTimer, RefineHide, RefineEnterRelay, RefineLeaveRelay,
     RefineClaims DEF Next

\* Grids change hands only by the assignment transaction: the callbacks of
\* the drones and of the coordinators, in whatever order, implement
\* AssignmentGrant.
THEOREM AllocationGrants ==
  /\ Spec => Grants
  /\ FormedSpec => Grants
BY RefineInit, RefineNext, TypeCorrect, RelaysHoldNothing, PTL
DEF Spec, FormedSpec, Grants, Granting!Spec

=============================================================================
