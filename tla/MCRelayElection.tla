--------------------------- MODULE MCRelayElection --------------------------
(***************************************************************************)
(* Three drones: all in touch, the last one lost, in a row, the first one  *)
(* lost.  A controller favours the drones in this order and knows them all *)
(* to be spare, or favours them in the other, takes one for busy, knows    *)
(* nothing of the task of another and finds the sides flying apart.        *)
(***************************************************************************)
EXTENDS RelayElection

MCPhase == [d \in Drone |-> d]

MCRadio == { {{1, 2}, {2, 3}, {1, 3}}, {{1, 2}}, {{1, 2}, {2, 3}}, {{2, 3}} }

Up == [d \in Drone |-> d]
Down == [d \in Drone |-> 4 - d]

MCOpinions ==
  { [score |-> Up, task |-> [d \in Drone |-> "spare"], apart |-> FALSE],
    [score |-> Down, task |-> <<"untold", "spare", "busy">>, apart |-> TRUE] }
=============================================================================
