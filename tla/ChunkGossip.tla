----------------------------- MODULE ChunkGossip ----------------------------
(***************************************************************************)
(* What the exchange of map chunks promises: every drone knows a growing   *)
(* set of chunks of every map, none that its owner has not made.           *)
(***************************************************************************)
CONSTANTS Drone, Owner, Chunk

VARIABLE has    \* the chunks of each owner that each drone has

Init == has = [d \in Drone |-> [o \in Owner |-> {}]]

\* An owner never unmakes a chunk.
Make(o) ==
  /\ has' = [has EXCEPT ![o][o] = has'[o][o]]
  /\ has[o][o] \subseteq has'[o][o] /\ has'[o][o] \subseteq Chunk

\* Chunks of several owners may be taken over at once.
Learn(d) ==
  /\ \A e \in Drone \ {d} : has'[e] = has[e]
  /\ \A o \in Owner :
       /\ has[d][o] \subseteq has'[d][o]
       /\ has'[d][o] \subseteq has[d][o] \cup (IF o \in Drone THEN has[o][o] ELSE {})

Next == \E d \in Drone : Learn(d) \/ Make(d)

Spec == Init /\ [][Next]_has
=============================================================================
