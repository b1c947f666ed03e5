---------------------------- MODULE LockStep_proofs ----------------------------
(***************************************************************************)
(* The invariants of the lock-step, for any number of agents, packets and  *)
(* steps and any delays, and that it implements WindowedDelivery as long   *)
(* as the time to live covers the lateness.                                *)
(*                                                                         *)
(* A round is in one of five stages (Rest, NetAsked, NetAnswered,          *)
(* PhyAsked, PhyAnswered): where the one message is, which of the clocks   *)
(* have moved and which connector has the new positions.  Beside it goes   *)
(* what the physics connector knows about the packets it holds or has      *)
(* handed out (Kept): all were heard in windows that are over, and those   *)
(* that still wait were not due at the end of the last one.                *)
(***************************************************************************)
EXTENDS LockStep, TLAPS

LEMMA Singletons ==
  ASSUME NEW S, NEW m \in S
  PROVE  /\ Append(<<>>, m) = <<m>> /\ Head(<<m>>) = m /\ Tail(<<m>>) = <<>>
         /\ <<m>> # <<>> /\ <<m>> \in Seq(S) /\ Len(<<m>>) = 1
OBVIOUS

\* A message put on a free channel, and taken off it.
LEMMA Channel ==
  ASSUME NEW f, f = [c \in Connector |-> f[c]], NEW d \in Connector, NEW m
  PROVE  /\ f[d] = <<>> =>
              LET g == [f EXCEPT ![d] = Append(@, m)]
              IN  g[d] = <<m>> /\ \A c \in Connector \ {d} : g[c] = f[c]
         /\ f[d] = <<m>> =>
              LET g == [f EXCEPT ![d] = Tail(@)]
              IN  Head(f[d]) = m /\ g[d] = <<>> /\ \A c \in Connector \ {d} : g[c] = f[c]
<1>1. Append(<<>>, m) = <<m>> /\ Head(<<m>>) = m /\ Tail(<<m>>) = <<>>
  BY Singletons
<1> QED
  BY <1>1

LEMMA WindowFacts ==
  /\ NetWindow \in Nat \ {0}
  /\ \A n \in Nat :
       /\ n * NetWindow \in Nat /\ Step * n \in Nat
       /\ (n + 1) * NetWindow = n * NetWindow + NetWindow
       /\ Step * (n + 1) = Step * n + Step
       /\ n * NetWindow + Shortfall * n = Step * n
<1>1. NetWindow \in Nat \ {0}
  BY TimesAssumption DEF NetWindow
<1>2. ASSUME NEW n \in Nat
      PROVE  /\ n * NetWindow \in Nat /\ Step * n \in Nat /\ Shortfall * n \in Int
             /\ (n + 1) * NetWindow = n * NetWindow + NetWindow
             /\ Step * (n + 1) = Step * n + Step
             /\ n * NetWindow + Shortfall * n = Step * n
  BY TimesAssumption DEF NetWindow
<1> QED
  BY <1>1, <1>2

LEMMA FallenBehindFacts ==
  ASSUME NEW n \in Nat, n < Steps
  PROVE  Shortfall * n <= FallenBehind /\ FallenBehind \in Nat
<1>1. \A a, b, f \in Nat : a <= b => f * a <= f * b
  <2>1. ASSUME NEW a \in Nat, NEW b \in Nat, NEW f \in Nat, a <= b
        PROVE  f * a <= f * b
    <3>1. f * (b - a) \in Nat
      BY <2>1
    <3>2. f * (b - a) = f * b - f * a
      OBVIOUS
    <3> QED
      BY <3>1, <3>2
  <2> QED
    BY <2>1
<1>2. Steps - 1 \in Nat /\ n <= Steps - 1
  BY BoundsAssumption
<1>3. CASE Shortfall > 0
  <2>1. Shortfall \in Nat /\ Shortfall * (Steps - 1) \in Nat
    BY <1>2, <1>3, TimesAssumption
  <2> QED
    BY <1>1, <1>2, <1>3, <2>1 DEF FallenBehind
\* A clock that runs ahead is never behind.
<1>4. CASE ~(Shortfall > 0)
  <2>1. -Shortfall \in Nat /\ (-Shortfall) * n \in Nat
    BY <1>4, TimesAssumption
  <2>2. (-Shortfall) * n = -(Shortfall * n)
    BY TimesAssumption
  <2>3. Shortfall * n \in Int /\ Shortfall * n <= 0
    BY <2>1, <2>2, TimesAssumption
  <2> QED
    BY <1>4, <2>3 DEF FallenBehind
<1> QED
  BY <1>3, <1>4

\* So is Lateness at least a window and the delay, and a window and what ns-3
\* has fallen behind in any step of the run.
LEMMA LatenessFacts ==
  ASSUME NEW n \in Nat, n < Steps
  PROVE  Lateness \in Nat /\ Lateness >= Step + Delay /\ Lateness >= Step + Shortfall * n
BY FallenBehindFacts, TimesAssumption DEF Lateness

-----------------------------------------------------------------------------
(* The inductive invariant.                                                 *)

Types ==
  /\ phase \in Phase /\ step \in 0..Steps
  /\ odom \in [Agent -> Nat] /\ sample \in Sample
  /\ conn \in [Connector -> {"connecting", "serving", "gone"}]
  /\ netIt \in Nat /\ netPos \in [Agent -> Nat]
  /\ stage \in [Packet -> {"new", "queued", "air", "heard", "lost"}]
  /\ phyIt \in Nat /\ phyPos \in [Agent -> Nat]
  /\ pending \subseteq Heard /\ out \subseteq Out /\ expired \subseteq Packet
  /\ deaths \in 0..MaxDeaths
  /\ request = [c \in Connector |-> request[c]] /\ reply = [c \in Connector |-> reply[c]]

Empty(c) == request[c] = <<>> /\ reply[c] = <<>>

\* Packets heard in the window that the physics connector has not seen yet.
Arriving(P) ==
  /\ P \subseteq Heard
  /\ \A x \in P :
       /\ stage[x.packet] = "heard"
       /\ x.rx \in phyIt * NetWindow .. (phyIt + 1) * NetWindow
       /\ \A y \in pending \cup out : y.packet # x.packet

Rest == Empty(NET) /\ Empty(PHY) /\ netIt = step /\ phyIt = step /\ netPos = phyPos

NetAsked ==
  /\ request[NET] = <<Begin(sample, {})>> /\ reply[NET] = <<>> /\ Empty(PHY)
  /\ netIt = step /\ phyIt = step /\ netPos = phyPos

NetAnswered(P) ==
  /\ request[NET] = <<>> /\ reply[NET] = <<P>> /\ Empty(PHY)
  /\ netIt = step + 1 /\ phyIt = step /\ netPos = Applied(sample, phyPos)
  /\ Arriving(P)

PhyAsked(P) ==
  /\ Empty(NET) /\ request[PHY] = <<Begin(sample, P)>> /\ reply[PHY] = <<>>
  /\ netIt = step + 1 /\ phyIt = step /\ netPos = Applied(sample, phyPos)
  /\ Arriving(P)

PhyAnswered ==
  /\ Empty(NET) /\ request[PHY] = <<>> /\ reply[PHY] = <<{}>>
  /\ netIt = step + 1 /\ phyIt = step + 1 /\ netPos = phyPos

\* After the end no connector serves a request any more.
Ended ==
  /\ step <= phyIt /\ phyIt <= netIt /\ netIt <= step + 1
  /\ \A c \in Connector :
       /\ reply[c] = <<>>
       /\ \/ request[c] = <<>> \/ request[c] = <<Close>>
          \/ (\E P \in SUBSET Heard : request[c] = <<Begin(sample, P)>>) /\ conn[c] = "gone"

Round ==
  /\ phase \in {"accept_phy", "accept_net", "sample"} => Rest
  /\ phase = NET => step < Steps /\ (NetAsked \/ \E P \in SUBSET Heard : NetAnswered(P))
  /\ phase = PHY => step < Steps /\ ((\E P \in SUBSET Heard : PhyAsked(P)) \/ PhyAnswered)
  /\ Over => Ended

Kept ==
  /\ \A x \in pending :
       stage[x.packet] = "heard" /\ x.rx <= phyIt * NetWindow /\ x.rx + Delay > Step * phyIt
  /\ \A x \in out :
       stage[x.packet] = "heard" /\ x.rx <= phyIt * NetWindow /\ x.at <= Step * phyIt

IInv == Types /\ Round /\ Kept /\ OnTime /\ InOrder /\ NothingExpires

-----------------------------------------------------------------------------
\* A socket carries one message at a time.
Carries(c) ==
  \/ Empty(c)
  \/ reply[c] = <<>> /\ request[c] = <<Close>>
  \/ \E P \in SUBSET Heard : reply[c] = <<>> /\ request[c] = <<Begin(sample, P)>>
  \/ \E P \in SUBSET Heard : reply[c] = <<P>> /\ request[c] = <<>>

LEMMA RoundTypes ==
  ASSUME Types, Round
  PROVE  TypeOK /\ ClocksAgree /\ SameWorld
<1> USE DEF Connector, NET, PHY
<1>1. \A P \in SUBSET Heard : Begin(sample, P) \in Message
  BY DEF Types, Begin, Message
<1>2. {} \in SUBSET Heard /\ Close \in Message
  BY DEF Message
<1>3. \A c \in Connector :
        /\ request[c] \in Seq(Message) /\ reply[c] \in Seq(SUBSET Heard)
        /\ Len(request[c]) + Len(reply[c]) <= 1
  <2>1. <<>> \in Seq(Message) /\ <<>> \in Seq(SUBSET Heard) /\ Len(<<>>) = 0
    OBVIOUS
  <2>2. \A P \in SUBSET Heard :
          /\ <<P>> \in Seq(SUBSET Heard) /\ Len(<<P>>) = 1
          /\ <<Begin(sample, P)>> \in Seq(Message) /\ Len(<<Begin(sample, P)>>) = 1
    BY <1>1, Singletons
  <2>3. <<Close>> \in Seq(Message) /\ Len(<<Close>>) = 1
    BY <1>2, Singletons
  <2>4. ASSUME NEW c \in Connector, Carries(c)
        PROVE  /\ request[c] \in Seq(Message) /\ reply[c] \in Seq(SUBSET Heard)
               /\ Len(request[c]) + Len(reply[c]) <= 1
    <3>1. CASE Empty(c)
      BY <2>1, <3>1 DEF Empty
    <3>2. CASE reply[c] = <<>> /\ request[c] = <<Close>>
      BY <2>1, <2>3, <3>2
    <3>3. CASE \E P \in SUBSET Heard : reply[c] = <<>> /\ request[c] = <<Begin(sample, P)>>
      BY <2>1, <2>2, <3>3
    <3>4. CASE \E P \in SUBSET Heard : reply[c] = <<P>> /\ request[c] = <<>>
      BY <2>1, <2>2, <3>4
    <3> QED
      BY <2>4, <3>1, <3>2, <3>3, <3>4 DEF Carries
  <2>5. \A c \in Connector : Carries(c)
    BY <1>2 DEF Types, Phase, Over, Round, Ended, Rest, NetAsked, NetAnswered, PhyAsked,
                PhyAnswered, Carries, Empty
  <2> QED
    BY <2>4, <2>5
<1>4. ClocksAgree /\ SameWorld
  BY DEF Types, Round, Phase, Over, Rest, NetAsked, NetAnswered, PhyAsked, PhyAnswered,
         Ended, ClocksAgree, SameWorld
<1>5. request \in [Connector -> Seq(Message)] /\ reply \in [Connector -> Seq(SUBSET Heard)]
  BY <1>3 DEF Types
<1> QED
  BY <1>3, <1>4, <1>5 DEF Types, TypeOK

LEMMA InitIInv == Init => IInv
<1> SUFFICES ASSUME Init PROVE IInv
  OBVIOUS
<1>1. Types
  BY TimesAssumption, BoundsAssumption DEF Init, Types, Phase, Sample, Connector, NET, PHY
<1>2. Round
  BY DEF Init, Round, Rest, Empty, Over, Connector, NET, PHY
<1>3. Kept /\ OnTime /\ InOrder /\ NothingExpires
  BY DEF Init, Kept, OnTime, InOrder, NothingExpires
<1> QED
  BY <1>1, <1>2, <1>3 DEF IInv

\* What a step of the coordinator or of the loops leaves alone.
LEMMA KeptStep ==
  ASSUME IInv, UNCHANGED <<stage, phyIt, pending, out, expired>>
  PROVE  Kept' /\ OnTime' /\ InOrder' /\ NothingExpires'
BY DEF IInv, Kept, OnTime, InOrder, NothingExpires

LEMMA AcceptStep ==
  ASSUME IInv, AcceptPhy \/ AcceptNet
  PROVE  IInv'
<1>1. Kept' /\ OnTime' /\ InOrder' /\ NothingExpires'
  BY KeptStep DEF AcceptPhy, AcceptNet, Accept, netVars, phyVars
<1>2. Types'
  BY DEF IInv, Types, AcceptPhy, AcceptNet, Accept, netVars, phyVars, Phase
<1>3. Round'
  BY DEF IInv, Round, Rest, Empty, Over, AcceptPhy, AcceptNet, Accept, netVars, phyVars,
         NET, PHY
<1> QED
  BY <1>1, <1>2, <1>3 DEF IInv

\* The cache of the odometry, the connection of a connector and the budget of
\* deaths may change at any time.
LEMMA BesideStep ==
  ASSUME IInv, UNCHANGED <<phase, step, sample, request, reply, netVars, phyVars>>,
         odom' \in [Agent -> Nat], deaths' \in 0..MaxDeaths,
         conn' = conn \/ \E c \in Connector : conn' = [conn EXCEPT ![c] = "gone"]
  PROVE  IInv'
<1>1. Kept' /\ OnTime' /\ InOrder' /\ NothingExpires'
  BY KeptStep DEF netVars, phyVars
<1>2. /\ conn' \in [Connector -> {"connecting", "serving", "gone"}]
      /\ \A c \in Connector : conn[c] = "gone" => conn'[c] = "gone"
  BY DEF IInv, Types
<1>3. Types'
  BY <1>2 DEF IInv, Types, netVars, phyVars
<1>4. Over' = Over /\ Rest' = Rest /\ NetAsked' = NetAsked /\ PhyAnswered' = PhyAnswered
  BY DEF Over, Rest, NetAsked, PhyAnswered, Empty, netVars, phyVars
<1>5. \A P \in SUBSET Heard : NetAnswered(P)' = NetAnswered(P) /\ PhyAsked(P)' = PhyAsked(P)
  BY DEF NetAnswered, PhyAsked, Empty, Arriving, netVars, phyVars
<1>6. Ended => Ended'
  BY <1>2 DEF Ended, netVars, phyVars
<1>7. Round'
  BY <1>4, <1>5, <1>6 DEF IInv, Round
<1> QED
  BY <1>1, <1>3, <1>7 DEF IInv

LEMMA OdometryStep ==
  ASSUME IInv, NEW a \in Agent, NEW stamp \in Stamps, Odometry(a, stamp)
  PROVE  IInv'
<1>1. Now \in Nat
  BY TimesAssumption, BoundsAssumption DEF IInv, Types, Now
<1>2. stamp \in Nat
  BY <1>1, TimesAssumption DEF Stamps
<1>3. odom' \in [Agent -> Nat]
  BY <1>2 DEF Odometry, IInv, Types
<1> QED
  BY <1>3, BesideStep DEF Odometry, IInv, Types, coordVars

LEMMA GoneStep ==
  ASSUME IInv, NEW c \in Connector, GiveUp(c) \/ Leave(c) \/ Die(c)
  PROVE  IInv'
<1>1. deaths' \in 0..MaxDeaths
  BY BoundsAssumption DEF IInv, Types, GiveUp, Leave, Die
<1> QED
  BY <1>1, BesideStep DEF IInv, Types, GiveUp, Leave, Die, coordVars

LEMMA AskNetStep ==
  ASSUME IInv, AskNet
  PROVE  IInv'
<1>1. Kept' /\ OnTime' /\ InOrder' /\ NothingExpires'
  BY KeptStep DEF AskNet, netVars, phyVars
<1>2. sample' \in Sample
  <2>1. \A a \in Agent : odom[a] \in Nat /\ Usable(odom[a]) \in BOOLEAN
    BY DEF IInv, Types, Usable
  <2> QED
    BY <2>1 DEF AskNet, Sample
<1>3. Types'
  BY <1>2 DEF IInv, Types, AskNet, netVars, phyVars, Phase
<1>4. request'[NET] = <<Begin(sample, {})>>' /\ request'[PHY] = request[PHY]
  <2>1. request[NET] = <<>>
    BY DEF IInv, Round, AskNet, Rest, Empty
  <2>2. request' = [request EXCEPT ![NET] = Append(@, Begin(sample', {}))]
    BY DEF AskNet
  <2>3. Append(request[NET], Begin(sample', {})) = <<Begin(sample', {})>>
    BY <2>1
  <2> QED
    BY <2>2, <2>3 DEF IInv, Types, Connector, NET, PHY
<1>5. NetAsked'
  BY <1>4 DEF IInv, Round, AskNet, Rest, Empty, NetAsked, netVars, phyVars
<1>6. Round'
  BY <1>5 DEF IInv, Types, Round, AskNet, Over, NET, PHY
<1> QED
  BY <1>1, <1>3, <1>6 DEF IInv

LEMMA AskPhyStep ==
  ASSUME IInv, AskPhy
  PROVE  IInv'
<1>1. Kept' /\ OnTime' /\ InOrder' /\ NothingExpires'
  BY KeptStep DEF AskPhy, netVars, phyVars
<1>2. Types'
  BY DEF IInv, Types, AskPhy, netVars, phyVars, Phase
<1>3. PICK P \in SUBSET Heard : NetAnswered(P)
  BY DEF IInv, Round, AskPhy, NetAsked
<1>4. NET \in Connector /\ PHY \in Connector /\ NET # PHY
  BY DEF Connector, NET, PHY
<1>5. /\ request'[PHY] = <<Begin(sample, P)>> /\ request'[NET] = request[NET]
      /\ reply'[NET] = <<>> /\ reply'[PHY] = reply[PHY]
  <2>1. request[PHY] = <<>> /\ reply[NET] = <<P>>
    BY <1>3 DEF NetAnswered, Empty
  <2>2. Head(reply[NET]) = P /\ reply'[NET] = <<>> /\ reply'[PHY] = reply[PHY]
    <3>1. reply' = [reply EXCEPT ![NET] = Tail(@)] /\ reply = [c \in Connector |-> reply[c]]
      BY DEF AskPhy, IInv, Types
    <3> QED
      BY <1>4, <2>1, <3>1, Channel
  <2>3. request' = [request EXCEPT ![PHY] = Append(@, Begin(sample, P))]
    BY <2>2 DEF AskPhy
  <2> QED
    BY <1>4, <2>1, <2>2, <2>3, Channel DEF IInv, Types
<1>6. PhyAsked(P)'
  BY <1>3, <1>5 DEF AskPhy, NetAnswered, PhyAsked, Arriving, Empty, netVars, phyVars
<1>7. Round'
  BY <1>6 DEF IInv, Round, AskPhy, Over, NET, PHY
<1> QED
  BY <1>1, <1>2, <1>7 DEF IInv

LEMMA AdvanceStep ==
  ASSUME IInv, Advance
  PROVE  IInv'
<1>1. Kept' /\ OnTime' /\ InOrder' /\ NothingExpires'
  BY KeptStep DEF Advance, netVars, phyVars
<1>2. PhyAnswered /\ step < Steps
  BY DEF IInv, Round, Advance, PhyAsked
<1>3. Types'
  <2>1. step' \in 0..Steps
    BY <1>2, BoundsAssumption DEF IInv, Types, Advance
  <2>2. reply' = [c \in Connector |-> reply'[c]]
    BY DEF IInv, Types, Advance
  <2> QED
    BY <2>1, <2>2 DEF IInv, Types, Advance, netVars, phyVars, Phase
<1>4. reply'[PHY] = <<>> /\ reply'[NET] = reply[NET]
  <2>1. NET \in Connector /\ PHY \in Connector /\ NET # PHY
    BY DEF Connector, NET, PHY
  <2> QED
    BY <1>2, <2>1, Channel DEF Advance, PhyAnswered, IInv, Types
<1>5. Rest'
  BY <1>2, <1>4 DEF Advance, PhyAnswered, Rest, Empty, netVars, phyVars
<1>6. Round'
  BY <1>5 DEF Round, Advance, Over, NET, PHY
<1> QED
  BY <1>1, <1>3, <1>6 DEF IInv

LEMMA FinishStep ==
  ASSUME IInv, Finish
  PROVE  IInv'
<1>1. Kept' /\ OnTime' /\ InOrder' /\ NothingExpires'
  BY KeptStep DEF Finish, netVars, phyVars
<1>2. Types'
  BY DEF IInv, Types, Finish, netVars, phyVars, Phase
<1>3. Rest
  BY DEF IInv, Round, Finish
<1>4. \A c \in Connector : request'[c] = <<Close>> /\ reply'[c] = <<>>
  <2>1. Append(<<>>, Close) = <<Close>>
    BY Singletons
  <2> QED
    BY <1>3, <2>1 DEF Finish, Rest, Empty, Connector
<1>5. Ended'
  BY <1>3, <1>4 DEF Ended, Rest, Finish, netVars, phyVars, IInv, Types
<1>6. Round'
  BY <1>5 DEF Round, Finish, Over, NET, PHY
<1> QED
  BY <1>1, <1>2, <1>6 DEF IInv

LEMMA PeerGoneStep ==
  ASSUME IInv, PeerGone
  PROVE  IInv'
<1>1. Kept' /\ OnTime' /\ InOrder' /\ NothingExpires'
  BY KeptStep DEF PeerGone, netVars, phyVars
<1>2. Types'
  BY DEF IInv, Types, PeerGone, netVars, phyVars, Phase
<1>3. PICK c \in Connector : phase = c /\ reply[c] = <<>> /\ conn[c] = "gone"
  BY DEF PeerGone
<1>4. Ended'
  <2>1. CASE c = NET
    <3>1. NetAsked
      BY <1>3, <2>1, Singletons DEF IInv, Round, NetAnswered
    <3>2. {} \in SUBSET Heard /\ conn'[NET] = "gone"
      BY <1>3, <2>1 DEF PeerGone
    <3>3. /\ request'[NET] = <<Begin(sample, {})>>' /\ reply'[NET] = <<>>
          /\ request'[PHY] = <<>> /\ reply'[PHY] = <<>>
      BY <3>1 DEF NetAsked, Empty, PeerGone
    <3>4. step' <= phyIt' /\ phyIt' <= netIt' /\ netIt' <= step' + 1
      BY <3>1 DEF NetAsked, PeerGone, IInv, Types, netVars, phyVars
    <3> QED
      BY <3>2, <3>3, <3>4 DEF Ended, Connector
  <2>2. CASE c = PHY
    <3>1. PICK P \in SUBSET Heard : PhyAsked(P)
      BY <1>3, <2>2, Singletons DEF IInv, Round, PhyAnswered
    <3>2. conn'[PHY] = "gone"
      BY <1>3, <2>2 DEF PeerGone
    <3>3. /\ request'[PHY] = <<Begin(sample, P)>>' /\ reply'[PHY] = <<>>
          /\ request'[NET] = <<>> /\ reply'[NET] = <<>>
      BY <3>1 DEF PhyAsked, Empty, PeerGone
    <3>4. step' <= phyIt' /\ phyIt' <= netIt' /\ netIt' <= step' + 1
      BY <3>1 DEF PhyAsked, PeerGone, IInv, Types, netVars, phyVars
    <3> QED
      BY <3>2, <3>3, <3>4 DEF Ended, Connector
  <2> QED
    BY <2>1, <2>2 DEF Connector
<1>5. Round'
  BY <1>4 DEF Round, PeerGone, Over, NET, PHY
<1> QED
  BY <1>1, <1>2, <1>5 DEF IInv

\* A connector serves only the request of the round in progress.
LEMMA Serving ==
  ASSUME IInv
  PROVE  /\ Serves(NET) => phase = NET /\ NetAsked
         /\ Serves(PHY) => phase = PHY /\ \E P \in SUBSET Heard : PhyAsked(P)
<1>1. ASSUME NEW c \in Connector, Serves(c) PROVE ~Over
  <2>1. SUFFICES ASSUME Over PROVE FALSE
    OBVIOUS
  <2>2. request[c] = <<Close>>
    BY <1>1, <2>1 DEF IInv, Round, Ended, Serves
  <2> QED
    BY <1>1, <2>2 DEF Serves, Close
<1>2. /\ Serves(NET) => request[NET] # <<>>
      /\ Serves(PHY) => request[PHY] # <<>>
  BY DEF Serves
<1> QED
  BY <1>1, <1>2 DEF IInv, Types, Phase, Round, Over, Rest, NetAsked, NetAnswered, PhyAsked,
    PhyAnswered, Empty, Connector, NET, PHY

LEMMA TransmitStep ==
  ASSUME IInv, NEW p \in Packet, Transmit(p)
  PROVE  IInv'
<1>1. \A q \in Packet : stage[q] = "heard" => stage'[q] = "heard"
  BY DEF Transmit, IInv, Types
<1>2. pending \subseteq Heard /\ out \subseteq Out
  BY DEF IInv, Types
<1>3. Kept'
  BY <1>1, <1>2 DEF Transmit, IInv, Kept, phyVars, Heard, Out
<1>4. OnTime' /\ InOrder' /\ NothingExpires'
  BY DEF Transmit, IInv, OnTime, InOrder, NothingExpires, phyVars
<1>5. Types'
  BY DEF Transmit, IInv, Types, phyVars, coordVars
<1>6. Over' = Over /\ Rest' = Rest /\ NetAsked' = NetAsked /\ PhyAnswered' = PhyAnswered
      /\ Ended' = Ended
  BY DEF Transmit, Over, Rest, NetAsked, PhyAnswered, Ended, Empty, phyVars, coordVars
<1>7. ASSUME NEW P \in SUBSET Heard
      PROVE  (NetAnswered(P) => NetAnswered(P)') /\ (PhyAsked(P) => PhyAsked(P)')
  <2>1. Arriving(P) => Arriving(P)'
    BY <1>1 DEF Transmit, Arriving, phyVars, Heard
  <2> QED
    BY <2>1 DEF Transmit, NetAnswered, PhyAsked, Empty, phyVars, coordVars
<1>8. Round'
  BY <1>6, <1>7 DEF Transmit, IInv, Round, coordVars
<1> QED
  BY <1>3, <1>4, <1>5, <1>8 DEF IInv

LEMMA NetStepStep ==
  ASSUME IInv, NetRun
  PROVE  IInv'
<1>0. PICK heard \in SUBSET InNetwork :
        \E lost \in SUBSET (InNetwork \ heard) :
          \E rx \in [heard -> WindowTimes] : NetStep(heard, lost, rx)
  BY DEF NetRun
<1>1. PICK lost \in SUBSET (InNetwork \ heard), rx \in [heard -> WindowTimes] :
        NetStep(heard, lost, rx)
  BY <1>0
<1> DEFINE P == {[packet |-> p, rx |-> rx[p]] : p \in heard}
<1>2. phase = NET /\ step < Steps /\ NetAsked
  BY <1>1, Serving DEF NetStep, IInv, Round, NET, PHY
<1>3. netIt = phyIt /\ netIt \in Nat
  BY <1>2 DEF NetAsked, IInv, Types
<1>4. \A p \in heard : rx[p] \in Nat /\ rx[p] \in phyIt * NetWindow .. (phyIt + 1) * NetWindow
  <2>1. netIt * NetWindow \in Nat /\ (netIt + 1) * NetWindow \in Nat
    BY <1>3, WindowFacts
  <2>2. \A p \in heard : rx[p] \in netIt * NetWindow .. (netIt + 1) * NetWindow
    BY DEF WindowTimes
  <2> QED
    BY <1>3, <2>1, <2>2
<1>5. heard \subseteq Packet /\ P \subseteq Heard
  BY <1>4 DEF InNetwork, Heard
<1>6. \A q \in Packet :
        /\ q \in heard => stage[q] # "heard" /\ stage'[q] = "heard"
        /\ stage[q] = "heard" => stage'[q] = "heard"
        /\ stage'[q] \in {"new", "queued", "air", "heard", "lost"}
  <2>1. \A q \in Packet : stage'[q] =
          IF q \in heard THEN "heard" ELSE IF q \in lost THEN "lost"
          ELSE IF q \in InNetwork THEN "air" ELSE stage[q]
    BY <1>1 DEF NetStep
  <2>2. \A q \in Packet :
          /\ stage[q] \in {"new", "queued", "air", "heard", "lost"}
          /\ q \in InNetwork => stage[q] # "heard"
    BY DEF IInv, Types, InNetwork
  <2> QED
    BY <2>1, <2>2
<1>7. pending \subseteq Heard /\ out \subseteq Out
  BY DEF IInv, Types
<1>8. Kept'
  <2>1. UNCHANGED <<phyIt, pending, out>>
    BY <1>1 DEF NetStep, phyVars
  <2> QED
    BY <1>6, <1>7, <2>1 DEF IInv, Kept, Heard, Out
<1>9. OnTime' /\ InOrder' /\ NothingExpires'
  BY <1>1 DEF NetStep, IInv, OnTime, InOrder, NothingExpires, phyVars
<1>10. Types'
  <2>1. netPos' \in [Agent -> Nat]
    <3>1. Head(request[NET]).states = sample
      BY <1>2, Singletons DEF NetAsked, Begin
    <3>2. \A a \in Agent : sample[a].stamp \in Nat /\ netPos[a] \in Nat
      BY DEF IInv, Types, Sample
    <3> QED
      BY <1>1, <3>1, <3>2 DEF NetStep, Applied
  <2>2. stage' \in [Packet -> {"new", "queued", "air", "heard", "lost"}]
    BY <1>1, <1>6 DEF NetStep
  <2>3. netIt' \in Nat
    BY <1>1, <1>3 DEF NetStep
  <2>4. request' = [c \in Connector |-> request'[c]] /\ reply' = [c \in Connector |-> reply'[c]]
    BY <1>1 DEF NetStep, IInv, Types
  <2> QED
    BY <1>1, <2>1, <2>2, <2>3, <2>4 DEF NetStep, IInv, Types, coordVars, phyVars
<1>11. NetAnswered(P)'
  <2>1. NET \in Connector /\ PHY \in Connector /\ NET # PHY
    BY DEF Connector, NET, PHY
  <2>2. request' = [request EXCEPT ![NET] = Tail(@)] /\ request = [c \in Connector |-> request[c]]
    BY <1>1 DEF NetStep, IInv, Types
  <2>3. reply' = [reply EXCEPT ![NET] = Append(@, P)] /\ reply = [c \in Connector |-> reply[c]]
    BY <1>1 DEF NetStep, IInv, Types
  <2>4. request'[NET] = <<>> /\ request'[PHY] = <<>>
    BY <1>2, <2>1, <2>2, Channel DEF NetAsked, Empty
  <2>5. reply'[NET] = <<P>> /\ reply'[PHY] = <<>>
    BY <1>2, <2>1, <2>3, Channel DEF NetAsked, Empty
  <2>6. netPos' = Applied(sample, phyPos)'
    <3>1. Head(request[NET]).states = sample
      BY <1>2, Singletons DEF NetAsked, Begin
    <3> QED
      BY <1>1, <1>2, <3>1 DEF NetStep, NetAsked, Applied, coordVars, phyVars
  <2>7. Arriving(P)'
    <3>1. ASSUME NEW x \in P
          PROVE  /\ x.packet \in heard /\ x.rx = rx[x.packet]
                 /\ \A y \in pending \cup out : y.packet # x.packet
      <4>1. PICK p \in heard : x = [packet |-> p, rx |-> rx[p]]
        OBVIOUS
      <4>2. \A y \in pending \cup out : stage[y.packet] = "heard"
        BY DEF IInv, Kept
      <4> QED
        BY <1>5, <1>6, <4>1, <4>2
    <3>2. UNCHANGED <<phyIt, pending, out>>
      BY <1>1 DEF NetStep, phyVars
    <3>3. P' = P
      OBVIOUS
    <3> QED
      BY <1>4, <1>5, <1>6, <3>1, <3>2 DEF Arriving
  <2>8. netIt' = step' + 1 /\ phyIt' = step'
    BY <1>1, <1>2 DEF NetStep, NetAsked, coordVars, phyVars
  <2> QED
    BY <2>4, <2>5, <2>6, <2>7, <2>8 DEF NetAnswered, Empty
<1>12. Round'
  BY <1>1, <1>2, <1>5, <1>11 DEF NetStep, Round, Over, coordVars, NET, PHY
<1> QED
  BY <1>8, <1>9, <1>10, <1>12 DEF IInv

-----------------------------------------------------------------------------
(* The step of the physics connector.                                       *)

LEMMA PhyStepStep ==
  ASSUME IInv, PhyStep
  PROVE  IInv'
<1>1. PICK P \in SUBSET Heard : phase = PHY /\ step < Steps /\ PhyAsked(P)
  BY Serving DEF PhyStep, IInv, Round, NET, PHY
<1> DEFINE all == pending \cup P
           end == StepEnd
           due == Due(all, end)
           late == Late(due, end)
<1>2. /\ request[PHY] = <<Begin(sample, P)>>
      /\ Head(request[PHY]).states = sample /\ Head(request[PHY]).packets = P
  BY <1>1, Singletons DEF PhyAsked, Begin
<1>3. /\ phyPos' = Applied(sample, phyPos)
      /\ pending' = all \ due
      /\ out' = out \cup {[packet |-> x.packet, rx |-> x.rx, at |-> end] : x \in due \ late}
      /\ expired' = expired \cup {x.packet : x \in late}
      /\ phyIt' = phyIt + 1
      /\ UNCHANGED <<netPos, netIt, stage, step, sample, phase>>
  BY <1>2 DEF PhyStep, netVars, coordVars
<1>4. /\ phyIt \in Nat /\ phyIt = step /\ phyIt < Steps /\ netIt = phyIt + 1
      /\ end \in Nat /\ end = Step * (phyIt + 1) /\ end = Step * phyIt + Step
      /\ Step * phyIt \in Nat /\ Step * phyIt' = end
      /\ phyIt * NetWindow \in Nat /\ phyIt' * NetWindow = phyIt * NetWindow + NetWindow
      /\ phyIt * NetWindow + Shortfall * phyIt = Step * phyIt
      /\ NetWindow \in Nat
  BY <1>1, <1>3, WindowFacts DEF PhyAsked, IInv, Types, StepEnd
<1>5. Step \in Nat /\ Delay \in Nat /\ Ttl \in Nat /\ Shortfall \in Int
  BY TimesAssumption
<1>6. /\ Lateness \in Nat /\ Lateness >= Step + Delay
      /\ Lateness >= Step + Shortfall * phyIt /\ Shortfall * phyIt \in Int
  BY <1>4, <1>5, LatenessFacts
\* When a packet was heard, and how late it is now.
<1>7. ASSUME NEW x \in all
      PROVE  /\ x \in Heard /\ x.rx \in Nat /\ x.packet \in Packet
             /\ stage[x.packet] = "heard" /\ x.rx <= phyIt' * NetWindow
             /\ x.rx <= phyIt * NetWindow \/ x.rx >= phyIt * NetWindow
             /\ end <= x.rx + Lateness
  <2>1. x \in Heard /\ x.rx \in Nat /\ x.packet \in Packet
    BY DEF IInv, Types, Heard
  <2>2. CASE x \in pending
    <3>1. stage[x.packet] = "heard" /\ x.rx <= phyIt * NetWindow /\ x.rx + Delay > Step * phyIt
      BY <2>2 DEF IInv, Kept
    <3> QED
      BY <1>4, <1>5, <1>6, <2>1, <3>1
  <2>3. CASE x \in P
    <3>1. stage[x.packet] = "heard" /\ x.rx >= phyIt * NetWindow /\ x.rx <= (phyIt + 1) * NetWindow
      BY <1>1, <1>4, <2>1, <2>3 DEF PhyAsked, Arriving
    <3>2. x.rx <= phyIt' * NetWindow
      BY <1>3, <3>1
    <3> QED
      BY <1>4, <1>5, <1>6, <2>1, <3>1, <3>2
  <2> QED
    BY <2>2, <2>3
<1>8. \A x \in all : x \in due <=> x.rx + Delay <= end
  BY DEF Due
<1>9. due \subseteq all /\ late \subseteq due
  BY DEF Due, Late
\* What is handed out in this step.
<1>10. ASSUME NEW y \in out'
       PROVE  \/ y \in out
              \/ \E x \in due : y.packet = x.packet /\ y.rx = x.rx /\ y.at = end
  <2>1. CASE y \in out
    BY <2>1
  <2>2. CASE y \notin out
    <3>1. PICK x \in due \ late : y = [packet |-> x.packet, rx |-> x.rx, at |-> end]
      BY <1>3, <2>2
    <3> QED
      BY <3>1
  <2> QED
    BY <2>1, <2>2
<1>11. \A y \in out : y \in Out /\ y.rx \in Nat /\ y.at \in Nat
  BY DEF IInv, Types, Out
<1>12. Kept'
  <2>1. ASSUME NEW x \in pending'
        PROVE  /\ stage'[x.packet] = "heard" /\ x.rx <= phyIt' * NetWindow
               /\ x.rx + Delay > Step * phyIt'
    <3>1. x \in all /\ x \notin due
      BY <1>3
    <3> QED
      BY <1>3, <1>4, <1>5, <1>7, <1>8, <3>1
  <2>2. ASSUME NEW y \in out'
        PROVE  /\ stage'[y.packet] = "heard" /\ y.rx <= phyIt' * NetWindow
               /\ y.at <= Step * phyIt'
    <3>1. CASE y \in out
      BY <1>3, <1>4, <1>5, <1>11, <3>1 DEF IInv, Kept
    <3>2. CASE y \notin out
      <4>1. PICK x \in due : y.packet = x.packet /\ y.rx = x.rx /\ y.at = end
        BY <1>10, <3>2
      <4>2. x \in all
        BY <1>9
      <4> QED
        BY <1>3, <1>4, <1>7, <4>1, <4>2
    <3> QED
      BY <3>1, <3>2
  <2> QED
    BY <2>1, <2>2 DEF Kept
<1>13. OnTime'
  <2>1. ASSUME NEW y \in out' PROVE y.rx + Delay <= y.at /\ y.at <= y.rx + Lateness
    <3>1. CASE y \in out
      BY <3>1 DEF IInv, OnTime
    <3>2. CASE y \notin out
      BY <1>7, <1>8, <1>9, <1>10, <3>2
    <3> QED
      BY <3>1, <3>2
  <2> QED
    BY <2>1 DEF OnTime
\* Whatever is out already was heard before whatever comes in now.
<1>14. ASSUME NEW y \in out, NEW x \in all
       PROVE  y.rx <= x.rx
  <2>1. CASE x \in pending
    BY <2>1 DEF IInv, InOrder
  <2>2. CASE x \in P
    <3>1. x.rx >= phyIt * NetWindow /\ y.rx <= phyIt * NetWindow
      BY <1>1, <1>4, <1>7, <2>2 DEF PhyAsked, Arriving, IInv, Kept
    <3> QED
      BY <1>4, <1>7, <1>11, <3>1
  <2> QED
    BY <2>1, <2>2
<1>15. InOrder'
  <2>1. ASSUME NEW x \in out', NEW y \in out', x.rx < y.rx
        PROVE  x.at <= y.at
    <3>1. CASE x \in out /\ y \in out
      BY <2>1, <3>1 DEF IInv, InOrder
    <3>2. CASE x \in out /\ y \notin out
      <4>1. y.at = end
        BY <1>10, <3>2
      <4>2. x.at <= Step * phyIt
        BY <3>2 DEF IInv, Kept
      <4> QED
        BY <1>4, <1>5, <1>11, <3>2, <4>1, <4>2
    <3>3. CASE x \notin out /\ y \in out
      <4>1. PICK z \in due : x.rx = z.rx
        BY <1>10, <3>3
      <4>2. y.rx <= x.rx /\ x.rx \in Nat /\ y.rx \in Nat
        BY <1>7, <1>9, <1>11, <1>14, <3>3, <4>1
      <4> QED
        BY <2>1, <4>2
    <3>4. CASE x \notin out /\ y \notin out
      BY <1>4, <1>10, <3>4
    <3> QED
      BY <3>1, <3>2, <3>3, <3>4
  <2>2. ASSUME NEW x \in out', NEW y \in pending'
        PROVE  x.rx <= y.rx
    <3>1. y \in all /\ y \notin due
      BY <1>3
    <3>2. CASE x \in out
      BY <1>14, <3>1, <3>2
    <3>3. CASE x \notin out
      <4>1. PICK z \in due : x.rx = z.rx
        BY <1>10, <3>3
      <4>2. z.rx \in Nat /\ z.rx + Delay <= end
        BY <1>7, <1>8, <1>9
      <4>3. y.rx \in Nat /\ ~(y.rx + Delay <= end)
        BY <1>7, <1>8, <3>1
      <4> QED
        BY <1>4, <1>5, <4>1, <4>2, <4>3
    <3> QED
      BY <3>2, <3>3
  <2> QED
    BY <2>1, <2>2 DEF InOrder
<1>16. NothingExpires'
  <2>1. SUFFICES ASSUME Ttl >= Lateness PROVE late = {}
    BY <1>3 DEF IInv, NothingExpires
  <2>2. \A x \in due : ~(end - x.rx > Ttl)
    BY <1>4, <1>5, <1>6, <1>7, <1>9, <2>1
  <2> QED
    BY <2>2 DEF Late
<1>17. Types'
  <2>1. phyPos' \in [Agent -> Nat]
    <3>1. \A a \in Agent : sample[a].stamp \in Nat /\ phyPos[a] \in Nat
      BY DEF IInv, Types, Sample
    <3> QED
      BY <1>3, <3>1 DEF Applied
  <2>2. pending' \subseteq Heard /\ expired' \subseteq Packet
    <3>1. \A x \in late : x.packet \in Packet
      BY <1>7, <1>9
    <3>2. all \subseteq Heard /\ expired \subseteq Packet
      BY <1>7 DEF IInv, Types
    <3> QED
      BY <1>3, <3>1, <3>2
  <2>3. out' \subseteq Out
    <3>1. \A x \in due : [packet |-> x.packet, rx |-> x.rx, at |-> end] \in Out
      BY <1>4, <1>7, <1>9 DEF Out
    <3> QED
      BY <1>3, <3>1 DEF IInv, Types
  <2>4. request' = [c \in Connector |-> request'[c]] /\ reply' = [c \in Connector |-> reply'[c]]
    BY DEF PhyStep, IInv, Types
  <2> QED
    BY <1>3, <1>4, <2>1, <2>2, <2>3, <2>4 DEF PhyStep, IInv, Types, coordVars, netVars
<1>18. PhyAnswered'
  <2>1. NET \in Connector /\ PHY \in Connector /\ NET # PHY
    BY DEF Connector, NET, PHY
  <2>2. request' = [request EXCEPT ![PHY] = Tail(@)] /\ request = [c \in Connector |-> request[c]]
    BY DEF PhyStep, IInv, Types
  <2>3. reply' = [reply EXCEPT ![PHY] = Append(@, {})] /\ reply = [c \in Connector |-> reply[c]]
    BY DEF PhyStep, IInv, Types
  <2>4. request'[PHY] = <<>> /\ request'[NET] = <<>>
    BY <1>1, <1>2, <2>1, <2>2, Channel DEF PhyAsked, Empty
  <2>5. reply'[PHY] = <<{}>> /\ reply'[NET] = <<>>
    BY <1>1, <2>1, <2>3, Channel DEF PhyAsked, Empty
  <2>6. netPos' = phyPos'
    BY <1>1, <1>3 DEF PhyAsked
  <2> QED
    BY <1>3, <1>4, <2>4, <2>5, <2>6 DEF PhyAnswered, Empty
<1>19. Round'
  BY <1>1, <1>3, <1>18 DEF Round, Over, NET, PHY
<1> QED
  BY <1>12, <1>13, <1>15, <1>16, <1>17, <1>19 DEF IInv

-----------------------------------------------------------------------------
LEMMA StepIInv == IInv /\ [Next]_vars => IInv'
<1> SUFFICES ASSUME IInv, [Next]_vars PROVE IInv'
  OBVIOUS
<1>1. CASE UNCHANGED vars
  <2>1. deaths' \in 0..MaxDeaths /\ odom' \in [Agent -> Nat]
    BY <1>1 DEF IInv, Types, vars
  <2> QED
    BY <1>1, <2>1, BesideStep DEF vars, coordVars
<1>2. CASE LockStepNext
  BY <1>2, AcceptStep, AskNetStep, AskPhyStep, AdvanceStep, FinishStep, PeerGoneStep
  DEF LockStepNext
<1>3. CASE ConnectorNext
  BY <1>3, GoneStep, NetStepStep, PhyStepStep DEF ConnectorNext
<1>4. CASE Environment
  BY <1>4, OdometryStep, TransmitStep, GoneStep DEF Environment
<1> QED
  BY <1>1, <1>2, <1>3, <1>4 DEF Next

THEOREM Invariance == Spec => []IInv
BY InitIInv, StepIInv, PTL DEF Spec

\* The three processes keep to one message at a time between two of them, and
\* to what their variables can hold (RoundTrip_ and the Loop of a connector).
THEOREM TypeCorrect == Spec => []TypeOK
<1>1. IInv => TypeOK
  BY RoundTypes DEF IInv
<1> QED
  BY <1>1, Invariance, PTL

\* The clocks of the coordinator, the network and the physics connector stay
\* within a step of each other, however long the simulation and whoever dies.
THEOREM ClocksInStep == Spec => []ClocksAgree
<1>1. IInv => ClocksAgree
  BY RoundTypes DEF IInv
<1> QED
  BY <1>1, Invariance, PTL

\* Both connectors work on the same positions, although odometry comes in
\* while they do (one sample of the states per step).
THEOREM WorldShared == Spec => []SameWorld
<1>1. IInv => SameWorld
  BY RoundTypes DEF IInv
<1> QED
  BY <1>1, Invariance, PTL

\* A packet is handed out once its processing delay is over and no later than
\* Lateness after it was heard (ReleaseDeliveredPacketsUpTo_), whatever rounding
\* takes off the windows of ns-3.
THEOREM PacketsOnTime == Spec => []OnTime
<1>1. IInv => OnTime
  BY DEF IInv
<1> QED
  BY <1>1, Invariance, PTL

\* Packets are handed out in the order in which they were heard, across
\* windows (DeliveryOrder sorts those of one step only).
THEOREM PacketsInOrder == Spec => []InOrder
<1>1. IInv => InOrder
  BY DEF IInv
<1> QED
  BY <1>1, Invariance, PTL

\* A time to live that covers Lateness never drops a packet.
THEOREM PacketsKept == Spec => []NothingExpires
<1>1. IInv => NothingExpires
  BY DEF IInv
<1> QED
  BY <1>1, Invariance, PTL

-----------------------------------------------------------------------------
(* The lock-step implements WindowedDelivery.                               *)

LEMMA PhyStepRefines ==
  ASSUME IInv, IInv', PhyStep, Ttl = 0 \/ Ttl >= Lateness
  PROVE  Delivery!Next
<1>1. PICK P \in SUBSET Heard : PhyAsked(P)
  BY Serving DEF PhyStep
<1> DEFINE all == pending \cup P
           due == Due(all, StepEnd)
           Handed(x) == [packet |-> x.packet, rx |-> x.rx, at |-> StepEnd]
<1>2. phyIt \in Nat /\ phyIt' = phyIt + 1 /\ StepEnd = (phyIt + 1) * Step /\ StepEnd \in Nat
  BY TimesAssumption DEF PhyStep, IInv, Types, StepEnd
<1>3. Head(request[PHY]).packets = P
  BY <1>1, Singletons DEF PhyAsked, Begin
<1>4. Late(due, StepEnd) = {}
  <2>1. CASE Ttl = 0
    BY <2>1 DEF Late
  <2>2. CASE Ttl >= Lateness
    <3>1. {x.packet : x \in Late(due, StepEnd)} \subseteq expired'
      BY <1>3 DEF PhyStep
    <3> QED
      BY <2>2, <3>1 DEF IInv, NothingExpires
  <2> QED
    BY <2>1, <2>2
<1>5. pending' = all \ due /\ out' = out \cup {Handed(x) : x \in due}
  BY <1>3, <1>4 DEF PhyStep
<1>6. all \subseteq Heard
  BY DEF IInv, Types
<1>7. \A x \in P :
        /\ x.rx \in phyIt * NetWindow .. (phyIt + 1) * NetWindow
        /\ \A y \in pending \cup out : y.packet # x.packet
  BY <1>1 DEF PhyAsked, Arriving
\* None of them was out before: they come out at a later time.
<1>8. \A x \in due : Handed(x) \notin out
  <2>1. \A y \in out : y.at <= Step * phyIt
    BY DEF IInv, Kept
  <2>2. Step * phyIt \in Nat /\ Step * phyIt < StepEnd
    BY <1>2, WindowFacts, TimesAssumption DEF StepEnd
  <2> QED
    BY <1>2, <2>1, <2>2
<1>9. Delivery!NewlyOut = due
  <2>1. out' \ out = {Handed(x) : x \in due}
    BY <1>5, <1>8
  <2>2. \A x \in due : x = [packet |-> Handed(x).packet, rx |-> Handed(x).rx]
    BY <1>6 DEF Due, Heard
  <2>3. Delivery!NewlyOut = {[packet |-> y.packet, rx |-> y.rx] : y \in {Handed(x) : x \in due}}
    BY <2>1 DEF Delivery!NewlyOut
  <2>4. \A x \in due : Handed(x).packet = x.packet /\ Handed(x).rx = x.rx
    OBVIOUS
  <2> HIDE DEF Handed, due
  <2> QED
    BY <2>2, <2>3
<1>10. Delivery!Fresh = P
  <2>1. due \subseteq all
    BY DEF Due
  <2>2. P \cap pending = {}
    BY <1>7
  <2> QED
    BY <1>5, <1>9, <2>1, <2>2 DEF Delivery!Fresh
<1>11. \A x \in P : x.packet \notin Delivery!Names(pending) \cup Delivery!Names(out)
  BY <1>7 DEF Delivery!Names
<1>12. due = {x \in pending \cup P : x.rx + Delay <= (phyIt + 1) * Step}
  BY <1>2 DEF Due
<1> QED
  BY <1>2, <1>5, <1>7, <1>10, <1>11, <1>12 DEF Delivery!Next

LEMMA StepRefines ==
  ASSUME Ttl = 0 \/ Ttl >= Lateness
  PROVE  IInv /\ IInv' /\ [Next]_vars => [Delivery!Next]_(Delivery!vars)
<1> SUFFICES ASSUME IInv, IInv', [Next]_vars PROVE Delivery!Next \/ UNCHANGED Delivery!vars
  BY DEF Delivery!vars
<1>1. CASE PhyStep
  BY <1>1, PhyStepRefines
<1>2. CASE ~PhyStep
  <2>1. UNCHANGED <<phyIt, pending, out>>
    BY <1>2 DEF Next, vars, LockStepNext, ConnectorNext, Environment, AcceptPhy, AcceptNet,
      Accept, AskNet, AskPhy, Advance, Finish, PeerGone, Leave, NetRun, NetStep, Odometry,
      Transmit, GiveUp, Die, phyVars
  <2> QED
    BY <2>1 DEF Delivery!vars
<1> QED
  BY <1>1, <1>2

\* The three processes together are a simulation in which one window after the
\* other takes place and its packets are handed out in one go, unless the time
\* to live is too short for a window and the delay.
THEOREM ImplementsWindows ==
  ASSUME Ttl = 0 \/ Ttl >= Lateness
  PROVE  Spec => Implements
<1>1. Init => Delivery!Init
  BY DEF Init, Delivery!Init
<1> QED
  BY <1>1, Invariance, StepRefines, PTL DEF Spec, Implements, Delivery!Spec
=============================================================================
