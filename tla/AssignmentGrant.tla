--------------------------- MODULE AssignmentGrant ---------------------------
(***************************************************************************)
(* What the assignment transaction promises, without its messages, timers  *)
(* and views: a drone takes a grid only when a coordinator decided on the  *)
(* very grant that the drone has promised to take and is still waiting     *)
(* for.  A drone may give grids up, and stop waiting, at any time; a       *)
(* promise or a decision may come to nothing.                              *)
(***************************************************************************)
CONSTANTS
  Drone,    \* the drones
  Grid,     \* the grids
  Grant,    \* the grants: records with a drone, a grid and whatever tells one
            \* transaction from another
  NoGrant   \* what a drone waits for when it waits for nothing

VARIABLES
  held,      \* the grids each drone works on
  staged,    \* the grant each drone waits for
  promised,  \* promises on their way to a coordinator
  decided    \* decisions on their way to a drone

vars == <<held, staged, promised, decided>>

Init ==
  /\ held = [d \in Drone |-> {}]
  /\ staged = [d \in Drone |-> NoGrant]
  /\ promised = {}
  /\ decided = {}

\* A drone waits for one grant at a time; it may repeat its promise.
Promise(x) ==
  /\ x \in Grant
  /\ staged[x.drone] \in {NoGrant, x}
  /\ staged' = [staged EXCEPT ![x.drone] = x]
  /\ promised' = promised \cup {x}
  /\ UNCHANGED <<held, decided>>

\* One promise is good for one decision.
Decide(x) ==
  /\ x \in promised
  /\ promised' = promised \ {x}
  /\ decided' = decided \cup {x}
  /\ UNCHANGED <<held, staged>>

Take(x) ==
  /\ x \in decided
  /\ staged[x.drone] = x
  /\ held' = [held EXCEPT ![x.drone] = @ \cup {x.grid}]
  /\ staged' = [staged EXCEPT ![x.drone] = NoGrant]
  /\ decided' = decided \ {x}
  /\ UNCHANGED promised

\* A drone gives up the grids in S, or stops waiting, or both.
Withdraw(d, S) ==
  /\ held' = [held EXCEPT ![d] = @ \ S]
  /\ \E x \in {staged[d], NoGrant} : staged' = [staged EXCEPT ![d] = x]
  /\ UNCHANGED <<promised, decided>>

\* A promise or a decision is not acted upon.
Forget(x) ==
  /\ \/ promised' = promised \ {x} /\ UNCHANGED decided
     \/ decided' = decided \ {x} /\ UNCHANGED promised
  /\ UNCHANGED <<held, staged>>

Next ==
  \/ \E x \in promised' : Promise(x)
  \/ \E x \in promised : Decide(x)
  \/ \E x \in decided : Take(x)
  \/ \E d \in Drone : \E S \in SUBSET Grid : Withdraw(d, S)
  \/ \E x \in promised \cup decided : Forget(x)

Spec == Init /\ [][Next]_vars

=============================================================================
