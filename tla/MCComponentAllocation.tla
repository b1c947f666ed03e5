----------------------- MODULE MCComponentAllocation -----------------------
(***************************************************************************)
(* ComponentAllocation for TLC: what its scheduling makes happen.          *)
(***************************************************************************)
EXTENDS ComponentAllocation

-----------------------------------------------------------------------------
(* What the code's scheduling justifies: every timer fires and every       *)
(* message is handled.  Of the drones, some one finds itself nearest to a  *)
(* missed grid; which one is not said.                                     *)

Fairness ==
  /\ \A d \in Drone :
       /\ WF_vars(DroneStateTimer(d))
       /\ WF_vars(\E m \in net : RcvPlan(d, m))
       /\ WF_vars(\E m \in net : RcvCommit(d, m))
       /\ \A p \in Drone : WF_vars(PeerState(d, p))
  /\ WF_vars(\E d \in Drone : OptTimer(d))
  /\ \A c \in Coord :
       /\ WF_vars(CoordTimer(c))
       /\ \A s \in Drone : WF_vars(RcvComponentState(c, s))
  /\ WF_vars(\E m \in net : RcvRequest(m))
  /\ WF_vars(\E m \in net : RcvAck(m))
  /\ WF_vars(\E m \in net : RcvRelease(m))
  /\ WF_vars(Tick)

FairFormedSpec == FormedSpec /\ Fairness
FairSpec == Spec /\ Fairness

\* Every grid ends up with an explorer that works on it and keeps it: work
\* that a drone drops when it turns relay, or that nobody has yet, is found
\* by an explorer and given to it (optTimerCallback, findUnallocated).
AllGridsHeld ==
  <>[](\A g \in Grid : \E d \in Drone : g \in Effective(d))

=============================================================================
