------------------------ MODULE SwarmTransport_proofs -----------------------
(***************************************************************************)
(* The invariants of SwarmTransport, for every set of drones, links and    *)
(* relays and every bound, and that it implements SwarmBroadcast.          *)
(*                                                                         *)
(* Nobody keeps the time a message was sent.  The argument bounds it from  *)
(* both sides: an entry of a cache is at most as old as the message, and   *)
(* the message at most as old as what the hops of any of its copies may    *)
(* have taken.  While a copy is on its way no entry for it has expired.    *)
(***************************************************************************)
EXTENDS SwarmTransport, TLAPS

-----------------------------------------------------------------------------
(* The inductive invariant.                                                *)

\* The most ticks a copy can be behind the sending of its message.
Behind(c) == c.hop * Transit + c.age

\* A message that was not sent has left no trace.
Unsent ==
  \A m \in Message \ Sent :
    /\ \A c \in flight : c.msg # m
    /\ \A d \in Drone : got[d][m] = 0 /\ sentOn[d][m] = 0

\* Who had a message has an entry for it as long as copies are on their way.
Known ==
  \A c \in flight, d \in Drone :
    /\ got[d][c.msg] > 0 => delivered[d][c.msg] \in 0..Behind(c)
    /\ sentOn[d][c.msg] > 0 => forwarded[d][c.msg] \in 0..Behind(c)

IInv == TypeOK /\ Unsent /\ Known /\ ForwardedOnce /\ DeliveredOnce

-----------------------------------------------------------------------------
(* Facts about the helpers.                                                *)

\* How far behind a copy can be, and that a hop further is no less.
LEMMA BehindFacts ==
  ASSUME NEW hop \in Nat, NEW age \in Nat, hop <= MaxHops, age <= Transit
  PROVE  /\ hop * Transit \in Nat
         /\ hop * Transit + age <= Spread
         /\ (hop + 1) * Transit = hop * Transit + Transit
         /\ Spread \in Nat
<1>1. Transit \in Nat /\ MaxHops \in Nat
  BY TimesAssumption
<1>2. hop * Transit \in Nat /\ MaxHops * Transit \in Nat
  BY <1>1
<1>3. (hop + 1) * Transit = hop * Transit + Transit
  BY <1>1
<1>4. (MaxHops + 1) * Transit = MaxHops * Transit + Transit
  BY <1>1
<1>5. PICK n \in Nat : MaxHops = hop + n
  <2>1. MaxHops - hop \in Nat /\ MaxHops = hop + (MaxHops - hop)
    BY <1>1
  <2> QED
    BY <2>1
<1>6. MaxHops * Transit = hop * Transit + n * Transit /\ n * Transit \in Nat
  BY <1>1, <1>5
<1> QED
  BY <1>1, <1>2, <1>3, <1>4, <1>6 DEF Spread

\* What is on the radio after a broadcast.
LEMMA CopiesType ==
  ASSUME NEW m \in Message, NEW tx \in Drone, NEW hop \in Nat, hop <= MaxHops,
         NEW dsts \in SUBSET InRange(tx)
  PROVE  /\ Copies(m, tx, hop, dsts) \subseteq Copy
         /\ \A c \in Copies(m, tx, hop, dsts) :
              /\ c.msg = m /\ c.tx = tx /\ c.tx # c.dst /\ c.hop = hop /\ c.age = 0
              /\ c.hop <= MaxHops /\ c.age <= Transit
<1>1. 0 \in Nat /\ 0 <= Transit
  BY TimesAssumption
<1>2. \A d \in dsts : d \in Drone /\ d # tx
  BY DEF InRange
<1> QED
  BY <1>1, <1>2 DEF Copies, Copy

\* Reading a copy leaves the others, and of this one at most what is to do.
LEMMA ReadFacts ==
  ASSUME NEW c \in flight, NEW node, flight \subseteq Copy
  PROVE  /\ Read(c, node) \subseteq Copy
         /\ \A b \in Read(c, node) : \E a \in flight :
              b.msg = a.msg /\ b.tx = a.tx /\ b.hop = a.hop /\ b.dst = a.dst /\ b.age = a.age
<1> DEFINE rest == [c EXCEPT !.todo = @ \ {node}]
<1>1. /\ rest \in Copy
      /\ rest.msg = c.msg /\ rest.tx = c.tx /\ rest.hop = c.hop
      /\ rest.dst = c.dst /\ rest.age = c.age
  BY DEF Copy
<1>2. \A b \in Read(c, node) : b \in flight \/ b = rest
  BY DEF Read
<1> HIDE DEF rest
<1> QED
  BY <1>1, <1>2

\* The facts about a copy that the steps below use.
LEMMA CopyFacts ==
  ASSUME NEW c \in Copy
  PROVE  /\ c.msg \in Message /\ c.tx \in Drone /\ c.dst \in Drone
         /\ c.hop \in Nat /\ c.age \in Nat
BY DEF Copy

-----------------------------------------------------------------------------
(* The steps.                                                              *)

\* Before the first message the invariant holds trivially.
LEMMA InitIInv == Init => IInv
<1> SUFFICES ASSUME Init PROVE IInv
  OBVIOUS
<1>1. TypeOK
  BY TimesAssumption DEF Init, TypeOK, Absent
<1>2. Unsent /\ Known /\ ForwardedOnce /\ DeliveredOnce
  BY DEF Init, Unsent, Known, ForwardedOnce, DeliveredOnce, Sent
<1> QED
  BY <1>1, <1>2 DEF IInv

\* The next number of a source was not used before, and is then (nextSeq).
LEMMA SendFacts ==
  ASSUME TypeOK, NEW src \in Drone, Send(src)
  PROVE  LET m == [src |-> src, seq |-> nextSeq[src]]
         IN  /\ m \in Message \ Sent
             /\ Sent' = Sent \cup {m}
             /\ UNCHANGED <<active, forwarded, delivered, sentOn, got>>
             /\ nextSeq' \in [Drone -> 0..MaxSends]
<1> DEFINE m == [src |-> src, seq |-> nextSeq[src]]
<1>1. /\ src \in Source /\ nextSeq[src] \in Nat /\ nextSeq[src] < MaxSends
      /\ nextSeq' = [nextSeq EXCEPT ![src] = nextSeq[src] + 1]
      /\ UNCHANGED <<active, forwarded, delivered, sentOn, got>>
  BY TimesAssumption DEF TypeOK, Send, NextSeq
<1>2. m \in Message /\ m \notin Sent
  BY <1>1, TimesAssumption DEF Message, Sent
<1>3. nextSeq' \in [Drone -> 0..MaxSends]
  BY <1>1, TimesAssumption DEF TypeOK
<1>4. \A n \in Message : n \in Sent' <=> n \in Sent \/ n = m
  <2> SUFFICES ASSUME NEW n \in Message PROVE n \in Sent' <=> n \in Sent \/ n = m
    OBVIOUS
  <2>1. /\ n.src \in Source /\ n.src \in Drone /\ n.seq \in Nat
        /\ n = [src |-> n.src, seq |-> n.seq]
    BY TimesAssumption, LinkAssumption DEF Message
  <2>2. n \in Sent' <=> n.seq < nextSeq'[n.src]
    BY DEF Sent
  <2>3. n \in Sent <=> n.seq < nextSeq[n.src]
    BY DEF Sent
  <2>4. CASE n.src = src
    <3>1. nextSeq'[n.src] = nextSeq[n.src] + 1 /\ nextSeq[n.src] \in Nat
      BY <2>4, <1>1 DEF TypeOK
    <3>2. n = m <=> n.seq = nextSeq[n.src]
      BY <2>1, <2>4
    <3> HIDE DEF m
    <3> QED
      BY <2>1, <2>2, <2>3, <3>1, <3>2
  <2>5. CASE n.src # src
    BY <2>1, <2>2, <2>3, <2>5, <1>1 DEF TypeOK
  <2> QED
    BY <2>4, <2>5
<1>5. Sent' \subseteq Message /\ Sent \subseteq Message
  BY DEF Sent, Message
<1>6. Sent' = Sent \cup {m}
  BY <1>2, <1>4, <1>5
<1> QED
  BY <1>1, <1>2, <1>3, <1>6

\* A message that is sent is new: no drone has an entry for it or needs one.
LEMMA SendIInv ==
  ASSUME IInv, NEW src \in Drone, Send(src)
  PROVE  IInv'
<1> DEFINE m == [src |-> src, seq |-> nextSeq[src]]
<1>1. /\ m \in Message /\ m \notin Sent
      /\ Sent' = Sent \cup {m}
      /\ UNCHANGED <<active, forwarded, delivered, sentOn, got>>
      /\ nextSeq' \in [Drone -> 0..MaxSends]
  BY SendFacts DEF IInv
<1>2. PICK lost \in SUBSET Losable(src) :
        flight' = flight \cup Copies(m, src, 0, InRange(src) \ lost)
  BY DEF Send
<1>3. /\ Copies(m, src, 0, InRange(src) \ lost) \subseteq Copy
      /\ \A c \in Copies(m, src, 0, InRange(src) \ lost) :
           c.msg = m /\ c.tx # c.dst /\ c.hop <= MaxHops /\ c.age <= Transit
  <2>1. 0 \in Nat /\ 0 <= MaxHops /\ InRange(src) \ lost \in SUBSET InRange(src)
    BY TimesAssumption
  <2> HIDE DEF m
  <2> QED
    BY <1>1, <2>1, CopiesType
<1>4. TypeOK'
  <2>1. flight' \subseteq Copy
    BY <1>2, <1>3 DEF IInv, TypeOK
  <2>2. \A c \in flight' : c.hop <= MaxHops /\ c.age <= Transit /\ c.tx # c.dst
    <3> SUFFICES ASSUME NEW c \in flight'
                 PROVE  c.hop <= MaxHops /\ c.age <= Transit /\ c.tx # c.dst
      OBVIOUS
    <3>1. c \in flight \/ c \in Copies(m, src, 0, InRange(src) \ lost)
      BY <1>2
    <3> QED
      BY <3>1, <1>3 DEF IInv, TypeOK
  <2> QED
    BY <1>1, <2>1, <2>2 DEF IInv, TypeOK
<1>5. Unsent'
  <2> HIDE DEF m
  <2> QED
    BY <1>1, <1>2, <1>3 DEF IInv, Unsent
<1>6. Known'
  <2> SUFFICES ASSUME NEW c \in flight', NEW d \in Drone
               PROVE  /\ got[d][c.msg] > 0 => delivered[d][c.msg] \in 0..Behind(c)
                      /\ sentOn[d][c.msg] > 0 => forwarded[d][c.msg] \in 0..Behind(c)
    BY <1>1 DEF Known, Behind
  <2>1. CASE c \in flight
    BY <2>1 DEF IInv, Known
  <2>2. CASE c \notin flight
    <3>1. c.msg = m
      BY <2>2, <1>2, <1>3
    <3>2. got[d][m] = 0 /\ sentOn[d][m] = 0
      BY <1>1 DEF IInv, Unsent
    <3> HIDE DEF m
    <3> QED
      BY <3>1, <3>2
  <2> QED
    BY <2>1, <2>2
<1>7. ForwardedOnce' /\ DeliveredOnce'
  BY <1>1 DEF IInv, ForwardedOnce, DeliveredOnce
<1> QED
  BY <1>4, <1>5, <1>6, <1>7 DEF IInv

\* Roles have no part in it (relayRoleCallback).
LEMMA RoleIInv ==
  ASSUME IInv, NEW r \in Drone, Role(r)
  PROVE  IInv'
<1>1. /\ UNCHANGED <<nextSeq, forwarded, delivered, flight, sentOn, got>>
      /\ active' = [active EXCEPT ![r] = ~@]
  BY DEF Role
<1>2. active' \in [Drone -> BOOLEAN]
  BY <1>1 DEF IInv, TypeOK
<1>3. TypeOK'
  BY <1>1, <1>2 DEF IInv, TypeOK
<1>4. Unsent' /\ Known' /\ ForwardedOnce' /\ DeliveredOnce'
  BY <1>1 DEF IInv, Unsent, Sent, Known, Behind, ForwardedOnce, DeliveredOnce
<1> QED
  BY <1>3, <1>4 DEF IInv

\* Who is handed a message had no entry and therefore did not have it; now the
\* entry is fresh (isDuplicateAndUpdate).
LEMMA DeliverIInv ==
  ASSUME IInv, NEW c \in flight, Deliver(c)
  PROVE  IInv'
<1> USE DEF IInv
<1>1. /\ UNCHANGED <<nextSeq, active, forwarded, sentOn>>
      /\ delivered' = [delivered EXCEPT ![c.dst][c.msg] = 0]
      /\ flight' = Read(c, Bridge)
      /\ got' = IF IsDuplicate(c) THEN got ELSE [got EXCEPT ![c.dst][c.msg] = @ + 1]
  BY DEF Deliver
<1>2. c \in Copy /\ c.msg \in Message /\ c.dst \in Drone
  BY CopyFacts DEF TypeOK
<1>3. /\ flight' \subseteq Copy
      /\ \A b \in flight' : \E a \in flight :
           b.msg = a.msg /\ b.tx = a.tx /\ b.hop = a.hop /\ b.dst = a.dst /\ b.age = a.age
  BY <1>1, ReadFacts DEF TypeOK
<1>4. /\ got' \in [Drone -> [Message -> Nat]]
      /\ delivered' \in [Drone -> [Message -> Absent .. DedupeTtl]]
  <2>1. 0 \in Absent .. DedupeTtl
    BY TimesAssumption DEF Absent
  <2> QED
    BY <1>1, <1>2, <2>1 DEF TypeOK
<1>5. TypeOK'
  <2>1. \A b \in flight' : b.hop <= MaxHops /\ b.age <= Transit /\ b.tx # b.dst
    BY <1>3 DEF TypeOK
  <2> QED
    BY <1>1, <1>3, <1>4, <2>1 DEF TypeOK
\* The entry says whether the receiver had it: the copy is still on its way.
<1>6. IsDuplicate(c) \/ got[c.dst][c.msg] = 0
  <2>1. got[c.dst][c.msg] \in Nat
    BY <1>2 DEF TypeOK
  <2>2. got[c.dst][c.msg] > 0 => delivered[c.dst][c.msg] \in 0..Behind(c)
    BY <1>2 DEF Known
  <2> QED
    BY <2>1, <2>2 DEF IsDuplicate, Absent
<1>7. DeliveredOnce' /\ ForwardedOnce'
  BY <1>1, <1>2, <1>6 DEF TypeOK, DeliveredOnce, ForwardedOnce
<1>8. c.msg \in Sent
  BY <1>2 DEF Unsent
<1>9. Unsent'
  <2>1. Sent' = Sent
    BY <1>1 DEF Sent
  <2>2. \A m \in Message \ Sent, d \in Drone : got'[d][m] = got[d][m]
    BY <1>1, <1>2, <1>8 DEF TypeOK
  <2> QED
    BY <1>1, <1>3, <2>1, <2>2 DEF Unsent
<1>10. Known'
  <2> SUFFICES ASSUME NEW b \in flight', NEW d \in Drone
               PROVE  /\ got'[d][b.msg] > 0 => delivered'[d][b.msg] \in 0..Behind(b)
                      /\ sentOn[d][b.msg] > 0 => forwarded[d][b.msg] \in 0..Behind(b)
    BY <1>1 DEF Known, Behind
  <2>1. PICK a \in flight : b.msg = a.msg /\ b.hop = a.hop /\ b.age = a.age
    BY <1>3
  <2>2. Behind(b) = Behind(a) /\ a \in Copy
    BY <2>1 DEF Behind, TypeOK
  <2>3. b.msg \in Message /\ b.hop \in Nat /\ b.age \in Nat /\ b.hop <= MaxHops
        /\ b.age <= Transit
    BY <2>1, <2>2, CopyFacts DEF TypeOK
  <2>4. Behind(b) \in Nat
    BY <2>3, BehindFacts DEF Behind
  <2>5. /\ got[d][b.msg] > 0 => delivered[d][b.msg] \in 0..Behind(b)
        /\ sentOn[d][b.msg] > 0 => forwarded[d][b.msg] \in 0..Behind(b)
    BY <2>1, <2>2 DEF Known
  <2>6. CASE d = c.dst /\ b.msg = c.msg
    <3>1. delivered'[d][b.msg] = 0
      BY <2>6, <1>1, <1>2 DEF TypeOK
    <3> QED
      BY <3>1, <2>4, <2>5
  <2>7. CASE ~(d = c.dst /\ b.msg = c.msg)
    <3>1. delivered'[d][b.msg] = delivered[d][b.msg] /\ got'[d][b.msg] = got[d][b.msg]
      BY <2>7, <1>1, <1>2, <2>3 DEF TypeOK
    <3> QED
      BY <3>1, <2>5
  <2> QED
    BY <2>6, <2>7
<1> QED
  BY <1>5, <1>7, <1>9, <1>10

\* Who sends a message on had no entry and therefore had not sent it on; the
\* copies it makes are a hop, that is at least a transit, further behind.
LEMMA ForwardIInv ==
  ASSUME IInv, NEW c \in flight, Forward(c)
  PROVE  IInv'
<1> USE DEF IInv
<1> DEFINE relayed == Forwardable(c) /\ forwarded[c.dst][c.msg] = Absent
           new == flight' \ Read(c, Forwarder)
<1>1. /\ UNCHANGED <<nextSeq, active, delivered, got>>
      /\ forwarded' = IF Forwardable(c) THEN Remembered(c) ELSE forwarded
      /\ sentOn' = IF relayed THEN [sentOn EXCEPT ![c.dst][c.msg] = @ + 1] ELSE sentOn
  BY DEF Forward
<1>2. /\ c \in Copy /\ c.msg \in Message /\ c.dst \in Drone
      /\ c.hop \in Nat /\ c.age \in Nat /\ c.hop <= MaxHops /\ c.age <= Transit
  BY CopyFacts DEF TypeOK
<1>3. /\ Read(c, Forwarder) \subseteq Copy
      /\ \A b \in Read(c, Forwarder) : \E a \in flight :
           b.msg = a.msg /\ b.tx = a.tx /\ b.hop = a.hop /\ b.dst = a.dst /\ b.age = a.age
  BY ReadFacts DEF TypeOK
<1>4. \A b \in new :
        /\ relayed /\ b \in Copy
        /\ b.msg = c.msg /\ b.hop = c.hop + 1 /\ b.age = 0
        /\ b.hop <= MaxHops /\ b.age <= Transit /\ b.tx # b.dst
  <2>1. PICK lost \in SUBSET Losable(c.dst) :
          flight' = Read(c, Forwarder) \cup
             (IF relayed THEN Copies(c.msg, c.dst, c.hop + 1, InRange(c.dst) \ lost)
              ELSE {})
    BY DEF Forward
  <2>2. SUFFICES ASSUME NEW b \in new
                 PROVE  /\ relayed /\ b \in Copy
                        /\ b.msg = c.msg /\ b.hop = c.hop + 1 /\ b.age = 0
                        /\ b.hop <= MaxHops /\ b.age <= Transit /\ b.tx # b.dst
    OBVIOUS
  <2>3. relayed /\ b \in Copies(c.msg, c.dst, c.hop + 1, InRange(c.dst) \ lost)
    BY <2>1, <2>2
  <2>4. c.hop + 1 \in Nat /\ c.hop + 1 <= MaxHops
    BY <2>3, <1>2, TimesAssumption DEF Forwardable
  <2>5. InRange(c.dst) \ lost \in SUBSET InRange(c.dst)
    OBVIOUS
  <2> QED
    BY <2>3, <2>4, <2>5, <1>2, CopiesType
<1>5. \A b \in flight' : \/ b \in Read(c, Forwarder)
                        \/ b \in new
  OBVIOUS
<1> HIDE DEF new
<1>6. /\ sentOn' \in [Drone -> [Message -> Nat]]
      /\ forwarded' \in [Drone -> [Message -> Absent .. ForwardTtl]]
  <2>1. 0 \in Absent .. ForwardTtl
    BY TimesAssumption DEF Absent
  <2> QED
    BY <1>1, <1>2, <2>1 DEF TypeOK, Remembered
<1>7. TypeOK'
  <2>1. flight' \subseteq Copy
    BY <1>3, <1>4, <1>5
  <2>2. \A b \in flight' : b.hop <= MaxHops /\ b.age <= Transit /\ b.tx # b.dst
    BY <1>3, <1>4, <1>5 DEF TypeOK
  <2> QED
    BY <1>1, <1>6, <2>1, <2>2 DEF TypeOK
\* The entry says whether the relay sent it on: the copy is still on its way.
<1>8. relayed => sentOn[c.dst][c.msg] = 0
  <2>1. sentOn[c.dst][c.msg] \in Nat
    BY <1>2 DEF TypeOK
  <2>2. sentOn[c.dst][c.msg] > 0 => forwarded[c.dst][c.msg] \in 0..Behind(c)
    BY <1>2 DEF Known
  <2> QED
    BY <2>1, <2>2 DEF Absent
<1>9. DeliveredOnce' /\ ForwardedOnce'
  BY <1>1, <1>2, <1>8 DEF TypeOK, DeliveredOnce, ForwardedOnce
<1>10. c.msg \in Sent
  BY <1>2 DEF Unsent
<1>11. Unsent'
  <2>1. Sent' = Sent
    BY <1>1 DEF Sent
  <2>2. \A m \in Message \ Sent, d \in Drone : sentOn'[d][m] = sentOn[d][m]
    BY <1>1, <1>2, <1>10 DEF TypeOK
  <2>3. \A m \in Message \ Sent, b \in flight' : b.msg # m
    BY <1>3, <1>4, <1>5, <1>10 DEF Unsent
  <2> QED
    BY <1>1, <2>1, <2>2, <2>3 DEF Unsent
<1>12. Known'
  <2> SUFFICES ASSUME NEW b \in flight', NEW d \in Drone
               PROVE  /\ got[d][b.msg] > 0 => delivered[d][b.msg] \in 0..Behind(b)
                      /\ sentOn'[d][b.msg] > 0 => forwarded'[d][b.msg] \in 0..Behind(b)
    BY <1>1 DEF Known, Behind
  <2>1. \E a \in flight : /\ a.msg = b.msg /\ Behind(a) \in Nat /\ Behind(b) \in Nat
                         /\ Behind(a) <= Behind(b)
    <3>1. CASE b \in Read(c, Forwarder)
      <4>1. PICK a \in flight : b.msg = a.msg /\ b.hop = a.hop /\ b.age = a.age
        BY <3>1, <1>3
      <4>2. a.hop \in Nat /\ a.age \in Nat /\ a.hop <= MaxHops /\ a.age <= Transit
        BY CopyFacts DEF TypeOK
      <4> QED
        BY <4>1, <4>2, BehindFacts DEF Behind
    <3>2. CASE b \in new
      <4>1. b.msg = c.msg /\ b.hop = c.hop + 1 /\ b.age = 0
        BY <3>2, <1>4
      <4>2. /\ c.hop * Transit \in Nat
            /\ (c.hop + 1) * Transit = c.hop * Transit + Transit
        BY <1>2, BehindFacts
      <4> QED
        BY <4>1, <4>2, <1>2, TimesAssumption DEF Behind
    <3> QED
      BY <3>1, <3>2, <1>5
  <2>2. PICK a \in flight : /\ a.msg = b.msg /\ Behind(a) \in Nat /\ Behind(b) \in Nat
                          /\ Behind(a) <= Behind(b)
    BY <2>1
  <2>3. b.msg \in Message
    BY <2>2, CopyFacts DEF TypeOK
  <2>4. /\ got[d][b.msg] > 0 => delivered[d][b.msg] \in 0..Behind(b)
        /\ sentOn[d][b.msg] > 0 => forwarded[d][b.msg] \in 0..Behind(b)
    BY <2>2, <2>3 DEF Known
  <2>5. CASE d = c.dst /\ b.msg = c.msg /\ Forwardable(c)
    <3>1. forwarded'[d][b.msg] = 0
      BY <2>5, <1>1, <1>2 DEF TypeOK, Remembered
    <3> QED
      BY <3>1, <2>2, <2>4
  <2>6. CASE ~(d = c.dst /\ b.msg = c.msg /\ Forwardable(c))
    <3>1. forwarded'[d][b.msg] = forwarded[d][b.msg] /\ sentOn'[d][b.msg] = sentOn[d][b.msg]
      BY <2>6, <1>1, <1>2, <2>3 DEF TypeOK, Remembered
    <3> QED
      BY <3>1, <2>4
  <2> QED
    BY <2>5, <2>6
<1> QED
  BY <1>7, <1>9, <1>11, <1>12

\* Time takes an entry and the copies it is for along together, and no entry
\* is as old as its time to live while such a copy is on its way.
LEMMA TickIInv ==
  ASSUME IInv, Tick
  PROVE  IInv'
<1> USE DEF IInv
<1>1. /\ \A c \in flight : c.age < Transit
      /\ flight' = {[c EXCEPT !.age = @ + 1] : c \in flight}
      /\ forwarded' = [r \in Drone |-> [m \in Message |-> Aged(forwarded[r][m], ForwardTtl)]]
      /\ delivered' = [d \in Drone |-> [m \in Message |-> Aged(delivered[d][m], DedupeTtl)]]
      /\ UNCHANGED <<nextSeq, active, sentOn, got>>
  BY DEF Tick
<1>2. \A b \in flight' : \E a \in flight :
        /\ b.msg = a.msg /\ b.hop = a.hop /\ b.tx = a.tx /\ b.dst = a.dst
        /\ b.age = a.age + 1 /\ b \in Copy
  <2> SUFFICES ASSUME NEW b \in flight'
               PROVE  \E a \in flight :
                        /\ b.msg = a.msg /\ b.hop = a.hop /\ b.tx = a.tx
                        /\ b.dst = a.dst /\ b.age = a.age + 1 /\ b \in Copy
    OBVIOUS
  <2>1. PICK a \in flight : b = [a EXCEPT !.age = @ + 1]
    BY <1>1
  <2>2. a \in Copy
    BY DEF TypeOK
  <2> QED
    BY <2>1, <2>2 DEF Copy
<1>3. ASSUME NEW ttl \in Nat, NEW age \in Absent .. ttl
      PROVE  /\ Aged(age, ttl) \in Absent .. ttl
             /\ age \in Nat /\ age < ttl => Aged(age, ttl) = age + 1
  BY <1>3 DEF Aged, Absent
<1>4. TypeOK'
  <2>1. flight' \subseteq Copy
    BY <1>2
  <2>2. \A b \in flight' : b.hop <= MaxHops /\ b.age <= Transit /\ b.tx # b.dst
    <3> SUFFICES ASSUME NEW b \in flight'
                 PROVE  b.hop <= MaxHops /\ b.age <= Transit /\ b.tx # b.dst
      OBVIOUS
    <3>1. PICK a \in flight : /\ b.hop = a.hop /\ b.tx = a.tx /\ b.dst = a.dst
                            /\ b.age = a.age + 1
      BY <1>2
    <3>2. a.age \in Nat /\ a.age < Transit
      BY <1>1, CopyFacts DEF TypeOK
    <3> QED
      BY <3>1, <3>2, TimesAssumption DEF TypeOK
  <2>3. /\ forwarded' \in [Drone -> [Message -> Absent .. ForwardTtl]]
        /\ delivered' \in [Drone -> [Message -> Absent .. DedupeTtl]]
    BY <1>1, <1>3, TimesAssumption DEF TypeOK
  <2> QED
    BY <1>1, <2>1, <2>2, <2>3 DEF TypeOK
<1>5. ForwardedOnce' /\ DeliveredOnce'
  BY <1>1 DEF ForwardedOnce, DeliveredOnce
<1>6. Unsent'
  <2>1. Sent' = Sent
    BY <1>1 DEF Sent
  <2> QED
    BY <1>1, <1>2, <2>1 DEF Unsent
<1>7. Known'
  <2> SUFFICES ASSUME NEW b \in flight', NEW d \in Drone
               PROVE  /\ got[d][b.msg] > 0 => delivered'[d][b.msg] \in 0..Behind(b)
                      /\ sentOn[d][b.msg] > 0 => forwarded'[d][b.msg] \in 0..Behind(b)
    BY <1>1 DEF Known, Behind
  <2>1. PICK a \in flight : b.msg = a.msg /\ b.hop = a.hop /\ b.age = a.age + 1
    BY <1>2
  <2>2. /\ a.msg \in Message /\ a.hop \in Nat /\ a.age \in Nat /\ a.hop <= MaxHops
        /\ a.age < Transit
    BY <1>1, CopyFacts DEF TypeOK
  <2>3. /\ Behind(a) \in Nat /\ Behind(b) = Behind(a) + 1
        /\ Behind(a) < DedupeTtl /\ Behind(a) < ForwardTtl
    <3>1. a.age + 1 \in Nat /\ a.age + 1 <= Transit
      BY <2>2, TimesAssumption
    <3>2. /\ a.hop * Transit \in Nat
          /\ a.hop * Transit + (a.age + 1) <= Spread /\ Spread \in Nat
      BY <2>2, <3>1, BehindFacts
    <3> QED
      BY <2>1, <2>2, <3>2, CacheAssumption, TimesAssumption DEF Behind
  <2>4. /\ got[d][b.msg] > 0 => delivered[d][b.msg] \in 0..Behind(a)
        /\ sentOn[d][b.msg] > 0 => forwarded[d][b.msg] \in 0..Behind(a)
    BY <2>1, <2>2 DEF Known
  <2>5. /\ delivered[d][b.msg] \in Absent .. DedupeTtl
        /\ forwarded[d][b.msg] \in Absent .. ForwardTtl
        /\ delivered'[d][b.msg] = Aged(delivered[d][b.msg], DedupeTtl)
        /\ forwarded'[d][b.msg] = Aged(forwarded[d][b.msg], ForwardTtl)
    BY <1>1, <2>1, <2>2 DEF TypeOK
  <2>6. got[d][b.msg] > 0 => delivered'[d][b.msg] = delivered[d][b.msg] + 1
    BY <2>3, <2>4, <2>5, <1>3, TimesAssumption
  <2>7. sentOn[d][b.msg] > 0 => forwarded'[d][b.msg] = forwarded[d][b.msg] + 1
    BY <2>3, <2>4, <2>5, <1>3, TimesAssumption
  <2> QED
    BY <2>3, <2>4, <2>6, <2>7
<1> QED
  BY <1>4, <1>5, <1>6, <1>7

-----------------------------------------------------------------------------
(* The theorems.                                                           *)

\* Every step preserves the invariant.
LEMMA NextIInv == IInv /\ [Next]_vars => IInv'
<1> SUFFICES ASSUME IInv, [Next]_vars PROVE IInv'
  OBVIOUS
<1>1. CASE UNCHANGED vars
  BY <1>1 DEF vars, IInv, TypeOK, Unsent, Sent, Known, Behind, ForwardedOnce, DeliveredOnce
<1>2. CASE \E d \in Drone : Send(d) \/ Role(d)
  BY <1>2, SendIInv, RoleIInv
<1>3. CASE \E c \in flight : Deliver(c) \/ Forward(c)
  BY <1>3, DeliverIInv, ForwardIInv
<1>4. CASE Tick
  BY <1>4, TickIInv
<1> QED
  BY <1>1, <1>2, <1>3, <1>4 DEF Next

\* The invariant holds of every state the bridges can reach.
THEOREM Invariance == Spec => []IInv
BY InitIInv, NextIInv, PTL DEF Spec

\* Every variable of the bridges holds what its C++ counterpart can.
THEOREM TypeCorrect == Spec => []TypeOK
BY Invariance, PTL DEF IInv

\* The forwarders never send a message on twice: relays do not wake each
\* other up, whatever their number (seenAndRefresh).
THEOREM ForwardsOnce == Spec => []ForwardedOnce
BY Invariance, PTL DEF IInv

\* The rx bridges never publish a message twice to a receiver, whatever way
\* its copies took (isDuplicateAndUpdate).
THEOREM DeliversOnce == Spec => []DeliveredOnce
BY Invariance, PTL DEF IInv

\* The bridges, the radio and the relays together are the broadcast of
\* SwarmBroadcast: at most once, and nothing that was not sent.
THEOREM ImplementsBroadcast == Spec => Implements
<1>1. Init => Channel!Init
  <2> SUFFICES ASSUME Init PROVE Channel!Init
    OBVIOUS
  <2>1. Sent = {}
    <3>1. \A m \in Message : m.src \in Drone /\ m.seq \in Nat
      BY TimesAssumption, LinkAssumption DEF Message
    <3>2. \A m \in Message : ~(m.seq < nextSeq[m.src])
      BY <3>1 DEF Init
    <3> QED
      BY <3>2 DEF Sent
  <2> QED
    BY <2>1 DEF Init, Channel!Init
<1>2. IInv /\ IInv' /\ [Next]_vars => [Channel!Next]_(Channel!vars)
  <2> SUFFICES ASSUME IInv, IInv', [Next]_vars PROVE [Channel!Next]_(Channel!vars)
    OBVIOUS
  <2>1. ASSUME UNCHANGED <<nextSeq, got>> PROVE UNCHANGED Channel!vars
    BY <2>1 DEF Channel!vars, Sent
  <2>2. CASE UNCHANGED vars
    BY <2>1, <2>2 DEF vars
  <2>3. ASSUME NEW src \in Drone, Send(src) PROVE Channel!Next
    <3> DEFINE m == [src |-> src, seq |-> nextSeq[src]]
    <3>1. m \in Message \ Sent /\ Sent' = Sent \cup {m} /\ got' = got
      BY <2>3, SendFacts DEF IInv
    <3>2. Channel!Send(m)
      BY <3>1 DEF Channel!Send
    <3> QED
      BY <3>1, <3>2 DEF Channel!Next
  <2>4. ASSUME NEW r \in Drone, Role(r) PROVE UNCHANGED Channel!vars
    BY <2>1, <2>4 DEF Role
  <2>5. ASSUME NEW c \in flight, Deliver(c) PROVE [Channel!Next]_(Channel!vars)
    <3>1. /\ c.msg \in Message /\ c.dst \in Drone /\ c.msg \in Sent
          /\ got[c.dst][c.msg] \in Nat
      BY CopyFacts DEF IInv, TypeOK, Unsent
    <3>2. /\ nextSeq' = nextSeq
          /\ got' = IF IsDuplicate(c) THEN got ELSE [got EXCEPT ![c.dst][c.msg] = @ + 1]
      BY <2>5 DEF Deliver
    <3>3. CASE IsDuplicate(c)
      BY <2>1, <3>2, <3>3
    <3>4. CASE ~IsDuplicate(c)
      <4>1. got' = [got EXCEPT ![c.dst][c.msg] = got[c.dst][c.msg] + 1]
        BY <3>2, <3>4
      <4>2. got'[c.dst][c.msg] = got[c.dst][c.msg] + 1 /\ got'[c.dst][c.msg] <= 1
        BY <3>1, <4>1 DEF IInv, TypeOK, DeliveredOnce
      <4>3. got[c.dst][c.msg] = 0
        BY <3>1, <4>2
      <4>4. Sent' = Sent
        BY <3>2 DEF Sent
      <4>5. Channel!HandOver(c.dst, c.msg)
        BY <3>1, <4>1, <4>3, <4>4 DEF Channel!HandOver
      <4> QED
        BY <3>1, <4>5 DEF Channel!Next
    <3> QED
      BY <3>3, <3>4
  <2>6. ASSUME NEW c \in flight, Forward(c) PROVE UNCHANGED Channel!vars
    BY <2>1, <2>6 DEF Forward
  <2>7. CASE Tick
    BY <2>1, <2>7 DEF Tick
  <2> QED
    BY <2>2, <2>3, <2>4, <2>5, <2>6, <2>7 DEF Next
<1> QED
  BY <1>1, <1>2, Invariance, PTL DEF Spec, Implements, Channel!Spec
=============================================================================
