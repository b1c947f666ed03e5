--------------------------- MODULE SwarmBroadcast ---------------------------
(***************************************************************************)
(* What the bridges promise together: a message that was sent may reach    *)
(* any drone, whatever the radio does to its copies, but each drone once.  *)
(***************************************************************************)
EXTENDS Naturals

CONSTANTS Drone, Message

VARIABLES
  sent,       \* the messages that were sent
  got         \* how often each drone was handed each message

vars == <<sent, got>>

Init ==
  /\ sent = {}
  /\ got = [d \in Drone |-> [m \in Message |-> 0]]

Send(m) == m \notin sent /\ sent' = sent \cup {m} /\ UNCHANGED got

HandOver(d, m) ==
  /\ m \in sent /\ got[d][m] = 0
  /\ got' = [got EXCEPT ![d][m] = 1]
  /\ UNCHANGED sent

Next == \E m \in Message : Send(m) \/ \E d \in Drone : HandOver(d, m)

Spec == Init /\ [][Next]_vars
=============================================================================
