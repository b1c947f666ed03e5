--------------------------- MODULE SwarmTransport ---------------------------
(***************************************************************************)
(* The bridges between the drones' topics and the radio:                   *)
(*                                                                         *)
(*   <topic>_send_<src> -> tx bridge -> radio -> rx bridge                 *)
(*                                        |        -> <topic>_recv_<dst>   *)
(*                                        +--> relay forwarder -> radio    *)
(*                                                                         *)
(* The tx bridge numbers the messages of each family and source, the rx    *)
(* bridge drops what it has delivered to that receiver before, and the     *)
(* forwarder sends on what an active relay heard.  Families do not         *)
(* interact: one is modelled.                                              *)
(*                                                                         *)
(* The radio is that of LockStep, seen from outside: each drone in range   *)
(* hears a broadcast within Transit ticks, or never.  What was heard for   *)
(* a drone is read by two nodes, bridge and forwarder, each at its own     *)
(* pace; a reading that comes late counts as transit.                      *)
(***************************************************************************)
EXTENDS Integers, FiniteSets

CONSTANTS
  Drone,
  Source,         \* the drones that have something to send
  Link,           \* pairs of drones that hear each other
  Lossy,          \* those of them on which copies may be lost
  Relay,          \* the drones that may be given relay duty
  OnDuty,         \* those of them that have it all the time
  MaxHops,        \* default_max_relay_hops
  Transit,        \* bound on the ticks a copy takes
  DedupeTtl,      \* dedupe_ttl_sec, in ticks
  ForwardTtl,     \* forward_cache_ttl_sec, in ticks
  MaxSends        \* bound on the messages of a source

ASSUME LinkAssumption ==
  /\ Source \subseteq Drone
  /\ Link \subseteq SUBSET Drone
  /\ Lossy \subseteq Link
  /\ OnDuty \subseteq Relay /\ Relay \subseteq Drone
ASSUME TimesAssumption ==
  /\ MaxHops \in Nat /\ Transit \in Nat /\ DedupeTtl \in Nat /\ ForwardTtl \in Nat
  /\ MaxSends \in Nat

\* The copies of a message reach a drone within this many ticks of each other.
Spread == (MaxHops + 1) * Transit

\* Both caches outlast that: they remember for 15 s and 20 s, a copy is on its
\* way for some windows of the co-simulation.
ASSUME CacheAssumption == DedupeTtl >= Spread /\ ForwardTtl >= Spread

VARIABLES
  nextSeq,    \* tx bridge: next_seq_
  active,     \* forwarder: relay_active_by_agent_
  forwarded,  \* forwarder: seen_forward_us_, as ages
  delivered,  \* rx bridge: delivered_cache_us_, as ages
  flight,     \* copies heard or to be heard that not both nodes have read
  sentOn,     \* forwarder: forwarded_msgs_, for each relay and message
  got         \* rx bridge: published_per_topic_, for each receiver and message

vars == <<nextSeq, active, forwarded, delivered, flight, sentOn, got>>

-----------------------------------------------------------------------------
(* Data.                                                                   *)

Message == [src : Source, seq : 0..MaxSends - 1]

Bridge == "bridge"
Forwarder == "forwarder"

Copy == [msg : Message, tx : Drone, hop : Nat, dst : Drone, age : Nat,
         todo : SUBSET {Bridge, Forwarder}]

\* Cache entries: an entry older than the time to live counts as none, which
\* is all that pruneDedupeCache and pruneSeenCache may remove.
Absent == -1

\* Mutant: nothing expires.
AgedForEver(age, ttl) == IF age = Absent THEN Absent ELSE age + 1

Aged(age, ttl) == IF age = Absent \/ age = ttl THEN Absent ELSE age + 1

\* A wrapper on the radio: one copy for each drone in range of the sender,
\* except for those that an unreliable link loses.
InRange(tx) == {d \in Drone \ {tx} : {tx, d} \in Link}
Losable(tx) == {d \in Drone \ {tx} : {tx, d} \in Lossy}
Copies(m, tx, hop, dsts) ==
  {[msg |-> m, tx |-> tx, hop |-> hop, dst |-> d, age |-> 0,
    todo |-> {Bridge, Forwarder}] : d \in dsts}

\* A node has read a copy; the copy goes when both have.
Read(c, node) ==
  LET rest == [c EXCEPT !.todo = @ \ {node}]
  IN  (flight \ {c}) \cup (IF rest.todo = {} THEN {} ELSE {rest})

-----------------------------------------------------------------------------
Init ==
  /\ nextSeq = [d \in Drone |-> 0]
  /\ active = [d \in Drone |-> d \in OnDuty]
  /\ forwarded = [r \in Drone |-> [m \in Message |-> Absent]]
  /\ delivered = [d \in Drone |-> [m \in Message |-> Absent]]
  /\ flight = {}
  /\ sentOn = [r \in Drone |-> [m \in Message |-> 0]]
  /\ got = [d \in Drone |-> [m \in Message |-> 0]]

\* Mutant: the number is not counted up.
NextSeqAgain(src) == nextSeq[src]

NextSeq(src) == nextSeq[src] + 1

\* messageCallback of the tx bridge: wrap, number, broadcast as src.
Send(src) ==
  /\ src \in Source /\ nextSeq[src] < MaxSends
  /\ \E lost \in SUBSET Losable(src) :
       flight' = flight \cup
         Copies([src |-> src, seq |-> nextSeq[src]], src, 0, InRange(src) \ lost)
  /\ nextSeq' = [nextSeq EXCEPT ![src] = NextSeq(src)]
  /\ UNCHANGED <<active, forwarded, delivered, sentOn, got>>

\* relayRoleCallback
Role(r) ==
  /\ r \in Relay \ OnDuty
  /\ active' = [active EXCEPT ![r] = ~@]
  /\ UNCHANGED <<nextSeq, forwarded, delivered, flight, sentOn, got>>

\* Mutant: the receiver is left out of the key.
IsDuplicateOfAny(c) == \E d \in Drone : delivered[d][c.msg] # Absent

\* Mutant: only what a relay sent on can be a duplicate.
IsRelayedDuplicate(c) == c.hop > 0 /\ delivered[c.dst][c.msg] # Absent

\* isDuplicateAndUpdate: known, and not too long ago.
IsDuplicate(c) == delivered[c.dst][c.msg] # Absent

\* bytesCallback of the rx bridge.  A duplicate refreshes its entry too.
Deliver(c) ==
  /\ Bridge \in c.todo
  /\ delivered' = [delivered EXCEPT ![c.dst][c.msg] = 0]
  /\ got' = IF IsDuplicate(c) THEN got ELSE [got EXCEPT ![c.dst][c.msg] = @ + 1]
  /\ flight' = Read(c, Bridge)
  /\ UNCHANGED <<nextSeq, active, forwarded, sentOn>>

\* What the forwarder looks at before its cache.
Forwardable(c) == active[c.dst] /\ c.hop < MaxHops /\ c.tx # c.dst

\* Mutant: the cache entry is not written when a message is sent on.
RememberedLate(c) ==
  IF forwarded[c.dst][c.msg] # Absent THEN [forwarded EXCEPT ![c.dst][c.msg] = 0]
  ELSE forwarded

\* seenAndRefresh, the writing half.
Remembered(c) == [forwarded EXCEPT ![c.dst][c.msg] = 0]

\* rxBytesCallback of the forwarder: broadcast as the relay, one hop further.
\* The cache remembers only what could be sent on.
Forward(c) ==
  LET relayed == Forwardable(c) /\ forwarded[c.dst][c.msg] = Absent
  IN  /\ Forwarder \in c.todo
      /\ \E lost \in SUBSET Losable(c.dst) :
           flight' = Read(c, Forwarder) \cup
             (IF relayed THEN Copies(c.msg, c.dst, c.hop + 1, InRange(c.dst) \ lost)
              ELSE {})
      /\ forwarded' = IF Forwardable(c) THEN Remembered(c) ELSE forwarded
      /\ sentOn' = IF relayed THEN [sentOn EXCEPT ![c.dst][c.msg] = @ + 1] ELSE sentOn
      /\ UNCHANGED <<nextSeq, active, delivered, got>>

\* Wall time.  No copy outstays its transit.
Tick ==
  /\ \A c \in flight : c.age < Transit
  /\ flight' = {[c EXCEPT !.age = @ + 1] : c \in flight}
  /\ forwarded' = [r \in Drone |-> [m \in Message |-> Aged(forwarded[r][m], ForwardTtl)]]
  /\ delivered' = [d \in Drone |-> [m \in Message |-> Aged(delivered[d][m], DedupeTtl)]]
  /\ UNCHANGED <<nextSeq, active, sentOn, got>>

Next ==
  \/ \E d \in Drone : Send(d) \/ Role(d)
  \/ \E c \in flight : Deliver(c) \/ Forward(c)
  \/ Tick

Spec == Init /\ [][Next]_vars

-----------------------------------------------------------------------------
(* Properties.                                                             *)

\* Every variable holds what its C++ counterpart can; a copy never has more
\* hops behind it than its wrapper allows, nor comes back to its sender.
TypeOK ==
  /\ nextSeq \in [Drone -> 0..MaxSends]
  /\ active \in [Drone -> BOOLEAN]
  /\ forwarded \in [Drone -> [Message -> Absent .. ForwardTtl]]
  /\ delivered \in [Drone -> [Message -> Absent .. DedupeTtl]]
  /\ flight \subseteq Copy
  /\ \A c \in flight : c.hop <= MaxHops /\ c.age <= Transit /\ c.tx # c.dst
  /\ sentOn \in [Drone -> [Message -> Nat]]
  /\ got \in [Drone -> [Message -> Nat]]

\* A relay sends each message on at most once, however many relays it hears it
\* from and although its duty may end and begin again in between: relays do
\* not wake each other up (seenAndRefresh of the forwarder).
ForwardedOnce == \A r \in Drone, m \in Message : sentOn[r][m] <= 1

\* No receiver is handed a message twice, when copies come over relays, late
\* and in any order (isDuplicateAndUpdate of the rx bridge).
DeliveredOnce == \A d \in Drone, m \in Message : got[d][m] <= 1

\* Seen from the topics, bridges, radio and relays are one broadcast that
\* hands each message over at most once, and only what was sent.
Sent == {m \in Message : m.seq < nextSeq[m.src]}
Channel == INSTANCE SwarmBroadcast WITH sent <- Sent
Implements == Channel!Spec

-----------------------------------------------------------------------------
(* Both nodes keep reading what the radio hands to them.                   *)

Fairness == WF_vars(\E c \in flight : Deliver(c) \/ Forward(c))

FairSpec == Spec /\ Fairness

Reliable(s, d) == {s, d} \in Link \ Lossy

\* Without loss every drone in range is handed a message, and so is every
\* drone that a relay on duty connects: no copy is taken for a duplicate of
\* another drone's or another message's.
Reached ==
  \A m \in Message, d \in Drone :
    (/\ d # m.src
     /\ \/ Reliable(m.src, d)
        \/ MaxHops > 0 /\ \E r \in OnDuty : Reliable(m.src, r) /\ Reliable(r, d))
    => (m \in Sent ~> got[d][m] > 0)
=============================================================================
