------------------------ MODULE RelayElection_proofs ------------------------
(***************************************************************************)
(* For every number of drones, every radio, all opinions and timeouts: the *)
(* types of RelayElection, that a drone goes on duty only with enough      *)
(* votes cast lately enough, that every duty is bounded, and that a        *)
(* majority that lasts gets the relay it proposes.                         *)
(*                                                                         *)
(* A vote is a cache entry that names the drone.  It is no younger than    *)
(* the proposal it came from, on its way and in the cache, because its age *)
(* is that of the stamp.  A duty that goes on after a tick is one          *)
(* shouldExitRelay found no reason against, so that it has a period left.  *)
(* What is heard of a drone in reach is two periods old at most, and so    *)
(* says what it has gone on proposing; of the others no vote is left.      *)
(***************************************************************************)
EXTENDS RelayElection, FiniteSetTheorems, TLAPS

-----------------------------------------------------------------------------
(* The inductive invariant.                                                *)

\* A message is on its way for a period at most, and swept caches hold nothing
\* that is too old.
Recent ==
  /\ \A e, d \in Drone : air[e][d] # Nothing =>
       air[e][d].age <= IF e \in due THEN 1 ELSE 0
  /\ \A d \in Drone \ due, e \in Drone :
       heard[d][e] # Nothing => heard[d][e].age <= Retention

\* A vote, on its way or held, is no younger than its voter's last proposal of
\* the same candidate.
Cast(m, e) == m.cand # NoOne => nominated[e][m.cand] <= m.age
VotesStamped == \A d, e \in Drone : Cast(heard[d][e], e) /\ Cast(air[e][d], e)

\* After its tick a relay has a period left.
PeriodLeft ==
  \A d \in OnDuty :
    /\ duty[d].idle <= duty[d].held
    /\ d \notin due =>
         /\ MaxActive > 0 => duty[d].held < Tenure
         /\ NoImprove > 0 => duty[d].idle < Larger(NoImprove, MinHold)

IInv == TypeOK /\ Recent /\ VotesStamped /\ PeriodLeft /\ BoundedDuty

-----------------------------------------------------------------------------
(* Facts about the helpers.                                                *)

LEMMA DroneFacts ==
  /\ Cardinality(Drone) \in Nat
  /\ \A S \in SUBSET Drone : IsFiniteSet(S) /\ Cardinality(S) \in 0 .. Cardinality(Drone)
<1>1. Cardinality(Drone) \in Nat
  BY DroneAssumption, FS_CardinalityType
<1>2. ASSUME NEW S \in SUBSET Drone
      PROVE  IsFiniteSet(S) /\ Cardinality(S) \in 0 .. Cardinality(Drone)
  <2>1. IsFiniteSet(S) /\ Cardinality(S) <= Cardinality(Drone)
    BY DroneAssumption, FS_Subset
  <2>2. Cardinality(S) \in Nat
    BY <2>1, FS_CardinalityType
  <2> QED
    BY <1>1, <2>1, <2>2
<1> QED
  BY <1>1, <1>2

LEMMA LimitFacts ==
  /\ Tenure \in Nat /\ Term \in Nat /\ Settled \in Nat /\ Gone \in Nat
  /\ Lapsed \in Nat /\ Lapsed > VoteTimeout
  /\ Rounds \in Nat /\ ElectBy \in Nat
  /\ Tenure <= Term
  /\ Larger(NoImprove, MinHold) \in Nat /\ Larger(NoImprove, MinHold) <= Term
BY TimesAssumption DEF Tenure, Term, Settled, Gone, Lapsed, Rounds, ElectBy, Larger

LEMMA AgedType ==
  ASSUME NEW limit \in Nat
  PROVE  /\ \A age \in Ages(limit) : Aged(age, limit) \in Ages(limit)
         /\ \A age \in 0 .. limit + 1 :
              Aged(age, limit) \in 0 .. limit + 1 /\ Aged(age, limit) <= age + 1
         /\ \A a, b \in 0 .. limit + 1 : a <= b => Aged(a, limit) <= Aged(b, limit)
BY DEF Aged, Ages, Unset

LEMMA NothingFacts ==
  /\ Nothing \in Message /\ Nothing.cand = NoOne /\ Nothing.age = Gone
  /\ NoOne \notin Drone
BY LimitFacts, DroneAssumption DEF Nothing, Message, NoOne

LEMMA OffDutyType == OffDuty \in Duty /\ ~OffDuty.active
BY DroneFacts, LimitFacts DEF OffDuty, Duty

\* What a tick computes from the caches.
LEMMA ViewFacts ==
  ASSUME TypeOK, NEW d \in Drone
  PROVE  /\ FreshPeers(d) \in SUBSET Drone /\ StalePeers(d) \in SUBSET Drone
         /\ Proposed(d) \in Drone \cup {NoOne}
         /\ ViewValid(d) => Proposed(d) \in Drone
         /\ Winner(d) \in Electable(d) \cup {NoOne}
         /\ \A c \in Drone : Voters(d, c) \in SUBSET Drone
<1>1. FreshPeers(d) \in SUBSET Drone /\ StalePeers(d) \in SUBSET Drone
  BY DEF FreshPeers, StalePeers
<1>2. Preferred(d) \subseteq Drone
  BY <1>1 DEF Preferred, Candidates
<1>3. ViewValid(d) => Proposed(d) \in Drone
  BY <1>2 DEF Proposed, ViewValid
<1>4. Proposed(d) \in Drone \cup {NoOne}
  BY <1>3 DEF Proposed
<1>5. Winner(d) \in Electable(d) \cup {NoOne}
  <2>1. Leading(d) \subseteq Electable(d)
    BY DEF Leading
  <2> QED
    BY <2>1 DEF Winner
<1>6. \A c \in Drone : Voters(d, c) \in SUBSET Drone
  BY DEF Voters
<1> QED
  BY <1>1, <1>3, <1>4, <1>5, <1>6

LEMMA CountFacts ==
  ASSUME TypeOK, NEW d \in Drone
  PROVE  /\ Cardinality(FreshPeers(d)) \in 0 .. Cardinality(Drone)
         /\ Cardinality(StalePeers(d)) \in 0 .. Cardinality(Drone)
         /\ \A c \in Drone : Votes(d, c) \in 0 .. Cardinality(Drone)
BY ViewFacts, DroneFacts DEF Votes

LEMMA ActivatedType ==
  ASSUME TypeOK, NEW d \in Drone
  PROVE  /\ Activated(d) \in Duty /\ Activated(d).active
         /\ Activated(d).held = 0 /\ Activated(d).idle = 0
<1>1. 0 \in 0 .. Term + 1
  BY LimitFacts
<1> QED
  BY <1>1, CountFacts DEF Activated, Duty

LEMMA ProgressedType ==
  ASSUME TypeOK, NEW d \in Drone
  PROVE  /\ Progressed(d) \in Duty
         /\ Progressed(d).active = duty[d].active /\ Progressed(d).held = duty[d].held
         /\ Progressed(d).idle \in {0, duty[d].idle}
         /\ Progressed(d).stale <= Cardinality(StalePeers(d))
<1> DEFINE stale == Cardinality(StalePeers(d))
           fresh == Cardinality(FreshPeers(d))
           was == duty[d]
<1>1. was \in Duty /\ 0 \in 0 .. Term + 1
  BY LimitFacts DEF TypeOK
<1>2. /\ stale \in 0 .. Cardinality(Drone) /\ fresh \in 0 .. Cardinality(Drone)
      /\ Votes(d, d) \in 0 .. Cardinality(Drone) /\ Cardinality(Drone) \in Nat
  BY CountFacts, DroneFacts
<1>3. Progressed(d) =
        [active |-> was.active, held |-> was.held,
         idle |-> IF stale < was.stale \/ fresh > was.fresh THEN 0 ELSE was.idle,
         stale |-> IF stale < was.stale THEN stale ELSE was.stale,
         fresh |-> IF fresh > was.fresh THEN fresh ELSE was.fresh,
         support |-> IF Winner(d) = d THEN Votes(d, d) ELSE was.support]
  BY DEF Progressed
<1> HIDE DEF stale, fresh, was
<1>4. /\ was.stale \in 0 .. Cardinality(Drone) /\ was.fresh \in 0 .. Cardinality(Drone)
      /\ was.support \in 0 .. Cardinality(Drone)
      /\ was.idle \in 0 .. Term + 1 /\ was.held \in 0 .. Term + 1 /\ was.active \in BOOLEAN
  BY <1>1 DEF Duty
<1>5. Progressed(d) \in Duty
  BY <1>1, <1>2, <1>3, <1>4 DEF Duty
<1>6. Progressed(d).stale <= stale
  BY <1>2, <1>3, <1>4
<1> QED
  BY <1>3, <1>5, <1>6 DEF was, stale

\* What a tick makes of the drone's duty: nothing, the end, a new one, or the
\* same with its progress noted, found not to have ended.
LEMMA TickDuty ==
  ASSUME TypeOK, NEW d \in Drone, Tick(d)
  PROVE  /\ duty' \in [Drone -> Duty] /\ rested' \in [Drone -> Ages(Cooldown)]
         /\ \A x \in Drone \ {d} : duty'[x] = duty[x]
         /\ duty'[d].active =>
              \/ duty'[d].held = 0 /\ duty'[d].idle = 0
              \/ /\ duty[d].active /\ ~ShouldExit(d, Progressed(d))
                 /\ duty'[d] = Progressed(d)
         /\ ~duty[d].active /\ duty'[d].active => Winner(d) = d
<1> DEFINE now == IF duty[d].active THEN Progressed(d) ELSE duty[d]
           exits == duty[d].active /\ ShouldExit(d, now)
           rest == IF exits THEN 0 ELSE rested[d]
           after == IF exits THEN OffDuty ELSE now
           next == IF ~after.active /\ ShouldActivate(d, rest) THEN Activated(d) ELSE after
<1>1. duty' = [duty EXCEPT ![d] = next] /\ rested' = [rested EXCEPT ![d] = rest]
  BY DEF Tick
<1>2. duty \in [Drone -> Duty] /\ rested \in [Drone -> Ages(Cooldown)]
  BY DEF TypeOK
<1>3. rest \in Ages(Cooldown)
  BY <1>2, TimesAssumption DEF Ages
<1>4. now \in Duty /\ after \in Duty /\ next \in Duty
  BY <1>2, ProgressedType, OffDutyType, ActivatedType
<1>5. duty'[d] = next /\ \A x \in Drone \ {d} : duty'[x] = duty[x]
  BY <1>1, <1>2
<1>6. next.active =>
        \/ next.held = 0 /\ next.idle = 0
        \/ duty[d].active /\ ~ShouldExit(d, Progressed(d)) /\ next = Progressed(d)
  <2>1. CASE next = Activated(d)
    BY <2>1, ActivatedType
  <2>2. CASE next = after
    BY <2>2, OffDutyType
  <2> QED
    BY <2>1, <2>2
<1>7. ~duty[d].active /\ next.active => Winner(d) = d
  <2>1. SUFFICES ASSUME ~duty[d].active, next.active
                 PROVE  Winner(d) = d
    OBVIOUS
  <2>2. after = duty[d]
    BY <2>1
  <2>3. ShouldActivate(d, rest)
    BY <2>1, <2>2
  <2> QED
    BY <2>3 DEF ShouldActivate
<1> QED
  BY <1>1, <1>2, <1>3, <1>4, <1>5, <1>6, <1>7

LEMMA MessageFacts ==
  ASSUME TypeOK
  PROVE  /\ \A e, d \in Drone :
              /\ heard[d][e] \in Message /\ air[e][d] \in Message
              /\ \/ Received(e, d) = heard[d][e]
                 \/ Received(e, d) = air[e][d] /\ air[e][d] # Nothing
         /\ \A m \in Message : Pruned(m) = Nothing \/ (Pruned(m) = m /\ m.age <= Retention)
<1>1. \A m \in Message : Pruned(m) = Nothing \/ (Pruned(m) = m /\ m.age <= Retention)
  BY LimitFacts, TimesAssumption DEF Pruned, Message
<1> QED
  BY <1>1 DEF TypeOK, Received

LEMMA PublishedFacts ==
  ASSUME TypeOK, NEW d \in Drone, NEW relay \in BOOLEAN
  PROVE  /\ Published(d, relay) \in Message
         /\ Published(d, relay).age = 0 /\ Published(d, relay).cand = Proposed(d)
         /\ Published(d, relay).relay = relay /\ Published(d, relay) # Nothing
<1>1. opinion[d].score \in [Drone -> Nat]
  BY OpinionsAssumption DEF TypeOK
<1>2. ViewValid(d) => opinion[d].score[Proposed(d)] \in Nat
  BY <1>1, ViewFacts
<1>3. 0 \in 0 .. Gone /\ 0 \in Nat
  BY LimitFacts
<1> QED
  BY <1>2, <1>3, ViewFacts, NothingFacts, TimesAssumption DEF Published, Message, Gone

\* The caches and the air after a tick of d, entry by entry.
LEMMA TickMessages ==
  ASSUME TypeOK, NEW d \in Drone, Tick(d)
  PROVE  /\ heard' \in [Drone -> [Drone -> Message]]
         /\ air' \in [Drone -> [Drone -> Message]]
         /\ \A e \in Drone : heard'[d][e] = Pruned(heard[d][e])
         /\ \A r \in Drone \ {d}, e \in Drone :
              heard'[r][e] = IF e = d THEN Received(d, r) ELSE heard[r][e]
         /\ \A e \in Drone : air'[d][e] \in {Nothing, Published(d, duty'[d].active)}
         /\ \A e \in Drone \ {d}, r \in Drone : air'[e][r] = air[e][r]
<1>1. heard \in [Drone -> [Drone -> Message]] /\ air \in [Drone -> [Drone -> Message]]
  BY DEF TypeOK
<1>2. heard' = [r \in Drone |-> IF r = d THEN [e \in Drone |-> Pruned(heard[d][e])]
                                ELSE [heard[r] EXCEPT ![d] = Received(d, r)]]
  BY DEF Tick
<1>3. air' = [air EXCEPT ![d] = [e \in Drone |->
                IF e \in Neighbours(d) THEN Published(d, duty'[d].active) ELSE Nothing]]
  BY DEF Tick
<1>4. \A e \in Drone : heard'[d][e] = Pruned(heard[d][e])
  BY <1>2
<1>5. \A r \in Drone \ {d}, e \in Drone :
        heard'[r][e] = IF e = d THEN Received(d, r) ELSE heard[r][e]
  BY <1>1, <1>2
<1>6. heard' \in [Drone -> [Drone -> Message]]
  <2>1. [e \in Drone |-> Pruned(heard[d][e])] \in [Drone -> Message]
    BY MessageFacts, NothingFacts
  <2>2. \A r \in Drone : [heard[r] EXCEPT ![d] = Received(d, r)] \in [Drone -> Message]
    BY <1>1, MessageFacts
  <2> QED
    BY <1>2, <2>1, <2>2
<1>7. duty'[d].active \in BOOLEAN
  BY TickDuty DEF Duty
<1>8. air' \in [Drone -> [Drone -> Message]]
  <2>1. [e \in Drone |-> IF e \in Neighbours(d) THEN Published(d, duty'[d].active)
                         ELSE Nothing] \in [Drone -> Message]
    BY <1>7, PublishedFacts, NothingFacts
  <2> QED
    BY <1>1, <1>3, <2>1
<1>9. /\ \A e \in Drone : air'[d][e] \in {Nothing, Published(d, duty'[d].active)}
      /\ \A e \in Drone \ {d}, r \in Drone : air'[e][r] = air[e][r]
  BY <1>1, <1>3
<1> QED
  BY <1>4, <1>5, <1>6, <1>8, <1>9

\* A proposal only makes the last one of its voter younger.
LEMMA CastStays ==
  ASSUME TypeOK, NEW d \in Drone, Tick(d)
  PROVE  /\ nominated' \in [Drone -> [Drone -> 0 .. Lapsed]]
         /\ \A e, c \in Drone : nominated'[e][c] <= nominated[e][c]
         /\ \A c \in Drone : c = Proposed(d) => nominated'[d][c] = 0
         /\ \A e \in Drone \ {d}, c \in Drone : nominated'[e][c] = nominated[e][c]
         /\ \A m \in Message, e \in Drone : Cast(m, e) => Cast(m, e)'
<1>1. nominated \in [Drone -> [Drone -> 0 .. Lapsed]] /\ 0 \in 0 .. Lapsed
  BY LimitFacts DEF TypeOK
<1>2. nominated' = [nominated EXCEPT ![d] = [c \in Drone |->
                     IF c = Proposed(d) THEN 0 ELSE nominated[d][c]]]
  BY DEF Tick
<1>3. \A c \in Drone : nominated'[d][c] = IF c = Proposed(d) THEN 0 ELSE nominated[d][c]
  BY <1>1, <1>2
<1>4. \A e \in Drone \ {d}, c \in Drone : nominated'[e][c] = nominated[e][c]
  BY <1>1, <1>2
<1>5. nominated' \in [Drone -> [Drone -> 0 .. Lapsed]]
  <2>1. [c \in Drone |-> IF c = Proposed(d) THEN 0 ELSE nominated[d][c]]
          \in [Drone -> 0 .. Lapsed]
    BY <1>1
  <2> QED
    BY <1>1, <1>2, <2>1
<1>6. \A e, c \in Drone : nominated'[e][c] <= nominated[e][c]
  <2>1. \A e, c \in Drone : nominated[e][c] \in 0 .. Lapsed
    BY <1>1
  <2> QED
    BY <1>3, <1>4, <2>1, LimitFacts
<1>7. ASSUME NEW m \in Message, NEW e \in Drone, Cast(m, e), m.cand # NoOne
      PROVE  nominated'[e][m.cand] <= m.age
  <2>1. m.cand \in Drone /\ m.age \in 0 .. Gone
    BY <1>7 DEF Message
  <2>2. nominated[e][m.cand] <= m.age
    BY <1>7 DEF Cast
  <2>3. nominated[e][m.cand] \in 0 .. Lapsed /\ nominated'[e][m.cand] \in 0 .. Lapsed
    BY <1>1, <1>5, <2>1
  <2> QED
    BY <1>6, <2>1, <2>2, <2>3, LimitFacts
<1> QED
  BY <1>3, <1>4, <1>5, <1>6, <1>7 DEF Cast

-----------------------------------------------------------------------------
(* The initial states and the steps.                                       *)

LEMMA InitIInv == Init => IInv
<1> SUFFICES ASSUME Init PROVE IInv
  OBVIOUS
<1>1. /\ 0 \in 0 .. MaxChanges /\ 0 \in 0 .. ElectBy /\ 0 \in 0 .. Rounds
      /\ Lapsed \in 0 .. Lapsed /\ Gone \in 0 .. Gone /\ 0 \in 0 .. Grace
      /\ Unset \in Ages(Trigger) /\ Unset \in Ages(Recover) /\ Unset \in Ages(Settled)
      /\ Unset \in Ages(Cooldown)
  BY LimitFacts, TimesAssumption DEF Ages, Unset
<1>2. TypeOK
  BY <1>1, NothingFacts, OffDutyType DEF Init, TypeOK
<1>3. \A e, d \in Drone : air[e][d] = Nothing /\ heard[d][e] = Nothing
  BY DEF Init
<1>4. OnDuty = {}
  BY OffDutyType DEF Init, OnDuty
<1>5. Recent
  BY <1>3 DEF Recent
<1>6. VotesStamped
  BY <1>3, NothingFacts DEF VotesStamped, Cast
<1> QED
  BY <1>2, <1>4, <1>5, <1>6 DEF IInv, PeriodLeft, BoundedDuty

\* A tick of d counts another proposal of the same drone, or starts again.
LEMMA TickFavour ==
  ASSUME TypeOK, NEW d \in Drone, Tick(d)
  PROVE  /\ favour' \in [Drone -> [Drone -> 0 .. Rounds]]
         /\ \A e \in Drone \ {d}, c \in Drone : favour'[e][c] = favour[e][c]
         /\ \A c \in Drone : favour'[d][c] > 0 =>
              /\ c = Proposed(d)
              /\ favour'[d][c] = favour[d][c] + 1 \/ favour'[d][c] = Rounds
              /\ favour'[d][c] <= favour[d][c] + 1
<1> DEFINE next == [c \in Drone |-> IF c # Proposed(d) THEN 0
                    ELSE IF favour[d][c] < Rounds THEN favour[d][c] + 1 ELSE Rounds]
<1>1. favour \in [Drone -> [Drone -> 0 .. Rounds]] /\ Rounds \in Nat
  BY LimitFacts DEF TypeOK
<1>2. \A c \in Drone : favour[d][c] \in 0 .. Rounds
  BY <1>1
<1>3. next \in [Drone -> 0 .. Rounds]
  BY <1>1, <1>2
<1>4. favour' = [favour EXCEPT ![d] = next]
  BY DEF Tick
<1>5. favour'[d] = next /\ \A e \in Drone \ {d} : favour'[e] = favour[e]
  BY <1>1, <1>4
<1>6. favour' \in [Drone -> [Drone -> 0 .. Rounds]]
  BY <1>1, <1>3, <1>4
<1> QED
  BY <1>1, <1>2, <1>5, <1>6

LEMMA TickType ==
  ASSUME TypeOK, NEW d \in Drone, Tick(d)
  PROVE  TypeOK'
<1>1. /\ split \in [Drone -> Ages(Trigger)] /\ whole \in [Drone -> Ages(Recover)]
      /\ winner \in [Drone -> Drone \cup {NoOne}] /\ winning \in [Drone -> Ages(Settled)]
  BY DEF TypeOK
<1>2. \A limit \in Nat : 0 \in Ages(limit) /\ Unset \in Ages(limit)
  BY DEF Ages, Unset
<1>3. SplitNow(d) \in Ages(Trigger) /\ WholeNow(d) \in Ages(Recover)
  BY <1>1, <1>2, TimesAssumption DEF SplitNow, WholeNow
<1>4. Winner(d) \in Drone \cup {NoOne}
  BY ViewFacts DEF Electable
<1>5. WinningNow(d) \in Ages(Settled)
  BY <1>1, <1>2, LimitFacts DEF WinningNow
<1>6. /\ split' \in [Drone -> Ages(Trigger)] /\ whole' \in [Drone -> Ages(Recover)]
      /\ winner' \in [Drone -> Drone \cup {NoOne}] /\ winning' \in [Drone -> Ages(Settled)]
  BY <1>1, <1>3, <1>4, <1>5 DEF Tick
<1>7. due' \subseteq Drone /\ UNCHANGED <<link, opinion, changes, up, steady>>
  BY DEF Tick, TypeOK
<1> QED
  BY <1>6, <1>7, TickMessages, TickDuty, CastStays, TickFavour DEF TypeOK

LEMMA TickRecent ==
  ASSUME TypeOK, Recent, NEW d \in Drone, Tick(d)
  PROVE  Recent'
<1>1. due' = due \ {d} /\ d \in due
  BY DEF Tick, IsNext
<1>2. ASSUME NEW e \in Drone, NEW r \in Drone, air'[e][r] # Nothing
      PROVE  air'[e][r].age <= IF e \in due' THEN 1 ELSE 0
  <2>1. CASE e = d
    <3>1. duty'[d].active \in BOOLEAN
      BY TickDuty DEF Duty
    <3>2. air'[d][r].age = 0
      BY <1>2, <2>1, <3>1, TickMessages, PublishedFacts
    <3> QED
      BY <2>1, <3>2
  <2>2. CASE e # d
    <3>1. air'[e][r] = air[e][r] /\ (e \in due' <=> e \in due)
      BY <1>1, <2>2, TickMessages
    <3> QED
      BY <1>2, <3>1 DEF Recent
  <2> QED
    BY <2>1, <2>2
<1>3. ASSUME NEW r \in Drone \ due', NEW e \in Drone, heard'[r][e] # Nothing
      PROVE  heard'[r][e].age <= Retention
  <2>1. CASE r = d
    BY <1>3, <2>1, TickMessages, MessageFacts
  <2>2. CASE r # d
    <3>1. r \in Drone \ due
      BY <1>1, <1>3, <2>2
    <3>2. heard'[r][e] = heard[r][e] \/ (heard'[r][e] = air[d][r] /\ air[d][r] # Nothing)
      BY <2>2, TickMessages, MessageFacts
    <3>3. CASE heard'[r][e] = heard[r][e]
      BY <1>3, <3>1, <3>3 DEF Recent
    <3>4. CASE heard'[r][e] = air[d][r] /\ air[d][r] # Nothing
      <4>1. air[d][r].age <= 1 /\ air[d][r].age \in 0 .. Gone
        BY <1>1, <3>4, MessageFacts DEF Recent, Message
      <4> QED
        BY <3>4, <4>1, LimitFacts, TimesAssumption
    <3> QED
      BY <3>2, <3>3, <3>4
  <2> QED
    BY <2>1, <2>2
<1> QED
  BY <1>2, <1>3 DEF Recent

LEMMA TickStamped ==
  ASSUME TypeOK, VotesStamped, NEW d \in Drone, Tick(d)
  PROVE  VotesStamped'
<1>1. Cast(Nothing, d)' /\ \A e \in Drone : Cast(Nothing, e)'
  BY NothingFacts DEF Cast
<1>2. ASSUME NEW r \in Drone, NEW e \in Drone
      PROVE  Cast(heard[r][e], e)' /\ Cast(air[e][r], e)'
  <2>1. /\ \A x, y \in Drone : /\ heard[x][y] \in Message /\ Cast(heard[x][y], y)
                               /\ air[y][x] \in Message /\ Cast(air[y][x], y)
    BY MessageFacts DEF VotesStamped
  <2>2. heard'[r][e] \in {Nothing, heard[r][e], air[e][r]}
    BY TickMessages, MessageFacts
  <2>3. Cast(heard[r][e], e)'
    <3>1. \A m \in {Nothing, heard[r][e], air[e][r]} :
            m.cand # NoOne => nominated'[e][m.cand] <= m.age
      BY <1>1, <2>1, CastStays DEF Cast
    <3> QED
      BY <2>2, <3>1 DEF Cast
  <2>4. CASE e # d
    <3>1. air'[e][r] = air[e][r]
      BY <2>4, TickMessages
    <3>2. air[e][r].cand # NoOne => nominated'[e][air[e][r].cand] <= air[e][r].age
      BY <2>1, CastStays DEF Cast
    <3> QED
      BY <2>3, <3>1, <3>2 DEF Cast
  <2>5. CASE e = d
    <3>1. duty'[d].active \in BOOLEAN
      BY TickDuty DEF Duty
    <3>2. \/ air'[d][r] = Nothing
          \/ air'[d][r].age = 0 /\ air'[d][r].cand = Proposed(d)
      BY <3>1, TickMessages, PublishedFacts
    <3>3. Proposed(d) # NoOne => nominated'[d][Proposed(d)] = 0
      BY CastStays, ViewFacts
    <3>4. air'[d][r].cand # NoOne => nominated'[d][air'[d][r].cand] <= air'[d][r].age
      BY <3>2, <3>3, NothingFacts
    <3> QED
      BY <2>3, <2>5, <3>4 DEF Cast
  <2> QED
    BY <2>4, <2>5
<1> QED
  BY <1>2 DEF VotesStamped

\* A duty that goes on after a tick: shouldExitRelay found nothing against it.
LEMMA NoExitLeaves ==
  ASSUME TypeOK, NEW d \in Drone, duty[d].active, duty[d].idle <= duty[d].held,
         ~ShouldExit(d, Progressed(d))
  PROVE  LET now == Progressed(d)
         IN  /\ now.idle <= now.held
             /\ MaxActive > 0 => now.held < Tenure
             /\ NoImprove > 0 => now.idle < Larger(NoImprove, MinHold)
<1> DEFINE now == Progressed(d)
<1>1. /\ now.held \in Nat /\ now.idle \in Nat /\ now.stale \in Nat
      /\ now.held = duty[d].held /\ now.idle \in {0, duty[d].idle}
      /\ now.stale <= Cardinality(StalePeers(d)) /\ Cardinality(StalePeers(d)) \in Nat
  BY ProgressedType, CountFacts, LimitFacts DEF Duty
<1> HIDE DEF now
<1>2. now.idle <= now.held
  BY <1>1
<1>3. now.held < MinHold \/ (~NoImprovement(d, now) /\ ~(MaxActive > 0 /\ now.held >= MaxActive))
  BY <1>1, TimesAssumption DEF ShouldExit, now
<1>4. NoImprove > 0 => now.held < MinHold \/ now.idle < NoImprove
  BY <1>1, <1>3, TimesAssumption DEF NoImprovement
<1>5. MaxActive > 0 => now.held < Tenure
  BY <1>1, <1>3, TimesAssumption DEF Tenure, Larger
<1>6. NoImprove > 0 => now.idle < Larger(NoImprove, MinHold)
  BY <1>1, <1>2, <1>4, TimesAssumption DEF Larger
<1> QED
  BY <1>2, <1>5, <1>6 DEF now

LEMMA TickBounded ==
  ASSUME TypeOK, PeriodLeft, BoundedDuty, NEW d \in Drone, Tick(d)
  PROVE  PeriodLeft' /\ BoundedDuty'
<1>1. due' = due \ {d}
  BY DEF Tick
<1>2. ASSUME NEW x \in Drone \ {d}, duty'[x].active
      PROVE  /\ duty'[x] = duty[x] /\ x \in OnDuty /\ (x \in due' <=> x \in due)
  BY <1>1, <1>2, TickDuty DEF OnDuty
<1>3. ASSUME duty'[d].active
      PROVE  /\ duty'[d].idle <= duty'[d].held
             /\ MaxActive > 0 => duty'[d].held < Tenure
             /\ NoImprove > 0 => duty'[d].idle < Larger(NoImprove, MinHold)
  <2>1. CASE duty'[d].held = 0 /\ duty'[d].idle = 0
    BY <2>1, TimesAssumption DEF Tenure, Larger
  <2>2. CASE duty[d].active /\ ~ShouldExit(d, Progressed(d)) /\ duty'[d] = Progressed(d)
    <3>1. duty[d].idle <= duty[d].held
      BY <2>2 DEF PeriodLeft, OnDuty
    <3> QED
      BY <2>2, <3>1, NoExitLeaves
  <2> QED
    BY <1>3, <2>1, <2>2, TickDuty
<1>4. duty' \in [Drone -> Duty]
  BY TickDuty
<1>5. \A x \in Drone : duty'[x].held \in Nat /\ duty'[x].idle \in Nat
  BY <1>4, LimitFacts DEF Duty
<1>6. PeriodLeft'
  BY <1>2, <1>3 DEF PeriodLeft, OnDuty
<1>7. BoundedDuty'
  <2>1. ASSUME duty'[d].active
        PROVE  /\ MaxActive > 0 => duty'[d].held <= Tenure
               /\ NoImprove > 0 => duty'[d].idle <= Larger(NoImprove, MinHold)
    BY <1>3, <1>5, <2>1, LimitFacts
  <2> QED
    BY <1>2, <2>1 DEF BoundedDuty, OnDuty
<1> QED
  BY <1>6, <1>7

LEMMA DeliverStep ==
  ASSUME IInv, NEW e \in Drone, NEW d \in Drone, Deliver(e, d)
  PROVE  IInv'
<1>1. /\ heard \in [Drone -> [Drone -> Message]] /\ air \in [Drone -> [Drone -> Message]]
      /\ heard' = [heard EXCEPT ![d][e] = air[e][d]]
      /\ air' = [air EXCEPT ![e][d] = Nothing]
      /\ d \in due
  BY DEF IInv, TypeOK, Deliver, Received, IsNext
<1>2. UNCHANGED <<link, opinion, changes, due, up, split, whole, winner, winning, duty,
                  rested, steady, nominated, favour>>
  BY DEF Deliver
<1>3. /\ heard' \in [Drone -> [Drone -> Message]] /\ air' \in [Drone -> [Drone -> Message]]
  BY <1>1, NothingFacts
<1>4. \A x, y \in Drone :
        /\ heard'[x][y] = IF x = d /\ y = e THEN air[e][d] ELSE heard[x][y]
        /\ air'[y][x] = IF x = d /\ y = e THEN Nothing ELSE air[y][x]
  BY <1>1
<1>5. TypeOK'
  BY <1>2, <1>3 DEF IInv, TypeOK
<1>6. Recent'
  BY <1>1, <1>2, <1>4 DEF IInv, Recent
<1>7. VotesStamped'
  BY <1>2, <1>4, NothingFacts DEF IInv, VotesStamped, Cast
<1>8. PeriodLeft' /\ BoundedDuty'
  BY <1>2 DEF IInv, PeriodLeft, BoundedDuty, OnDuty
<1> QED
  BY <1>5, <1>6, <1>7, <1>8 DEF IInv

LEMMA MoveStep == IInv /\ Move => IInv'
<1> SUFFICES ASSUME IInv, Move PROVE IInv'
  OBVIOUS
<1>1. /\ UNCHANGED <<due, air, heard, up, split, whole, winner, winning, duty, rested,
                     nominated>>
      /\ UNCHANGED <<opinion, favour>>
      /\ link' \in Radio /\ changes' \in 0 .. MaxChanges /\ steady' \in 0 .. ElectBy
  BY LimitFacts, TimesAssumption DEF Move, IInv, TypeOK
<1>2. TypeOK'
  BY <1>1 DEF IInv, TypeOK
<1>3. Recent' /\ VotesStamped' /\ PeriodLeft' /\ BoundedDuty'
  BY <1>1 DEF IInv, Recent, VotesStamped, Cast, PeriodLeft, BoundedDuty, OnDuty
<1> QED
  BY <1>2, <1>3 DEF IInv

LEMMA ReconsiderStep ==
  ASSUME IInv, NEW d \in Drone, Reconsider(d)
  PROVE  IInv'
<1>1. /\ UNCHANGED <<link, due, air, heard, up, split, whole, winner, winning, duty,
                     rested, steady, nominated, favour>>
      /\ opinion' \in [Drone -> Opinions] /\ changes' \in 0 .. MaxChanges
  BY TimesAssumption DEF Reconsider, IInv, TypeOK
<1>2. TypeOK'
  BY <1>1 DEF IInv, TypeOK
<1>3. Recent' /\ VotesStamped' /\ PeriodLeft' /\ BoundedDuty'
  BY <1>1 DEF IInv, Recent, VotesStamped, Cast, PeriodLeft, BoundedDuty, OnDuty
<1> QED
  BY <1>2, <1>3 DEF IInv

LEMMA OlderFacts ==
  ASSUME NEW m \in Message, m # Nothing => m.age <= Retention
  PROVE  /\ Older(m) \in Message /\ Older(m).cand = m.cand
         /\ Older(m) = Nothing \/ Older(m).age = m.age + 1
<1>1. CASE m = Nothing
  BY <1>1, NothingFacts DEF Older
<1>2. CASE m # Nothing
  <2>1. Older(m) = [age |-> m.age + 1, cand |-> m.cand, score |-> m.score, relay |-> m.relay]
    BY <1>2 DEF Older, Message
  <2>2. m.age + 1 \in 0 .. Gone
    BY <1>2, TimesAssumption DEF Message, Gone
  <2> QED
    BY <2>1, <2>2 DEF Message
<1> QED
  BY <1>1, <1>2

\* A period later no type is left, and a relay has used up a period it had.
LEMMA PassDuty ==
  ASSUME IInv, Pass
  PROVE  duty' \in [Drone -> Duty] /\ PeriodLeft' /\ BoundedDuty'
<1>1. duty \in [Drone -> Duty] /\ due = {} /\ due' = Drone
  BY DEF IInv, TypeOK, Pass
<1>2. ASSUME NEW d \in Drone
      PROVE  /\ duty'[d] = IF ~duty[d].active THEN duty[d]
                           ELSE [duty[d] EXCEPT !.held = Aged(duty[d].held, Term),
                                                !.idle = Aged(duty[d].idle, Term)]
             /\ duty[d] \in Duty
  BY <1>1 DEF Pass
<1>3. ASSUME NEW d \in Drone
      PROVE  /\ duty'[d] \in Duty /\ duty'[d].active = duty[d].active
             /\ duty[d].active => /\ duty'[d].held = Aged(duty[d].held, Term)
                                  /\ duty'[d].idle = Aged(duty[d].idle, Term)
  <2>1. /\ duty[d].held \in 0 .. Term + 1 /\ duty[d].idle \in 0 .. Term + 1
        /\ duty[d] = [active |-> duty[d].active, held |-> duty[d].held, idle |-> duty[d].idle,
                      stale |-> duty[d].stale, fresh |-> duty[d].fresh,
                      support |-> duty[d].support]
    BY <1>2 DEF Duty
  <2>2. Aged(duty[d].held, Term) \in 0 .. Term + 1 /\ Aged(duty[d].idle, Term) \in 0 .. Term + 1
    BY <2>1, AgedType, LimitFacts
  <2> QED
    BY <1>2, <2>2 DEF Duty
<1>4. duty' \in [Drone -> Duty]
  <2>1. DOMAIN duty' = Drone /\ duty' = [d \in Drone |-> duty'[d]]
    BY DEF Pass
  <2> QED
    BY <1>3, <2>1
<1>5. ASSUME NEW d \in Drone, duty[d].active
      PROVE  /\ duty'[d].idle <= duty'[d].held
             /\ MaxActive > 0 => duty'[d].held <= Tenure
             /\ NoImprove > 0 => duty'[d].idle <= Larger(NoImprove, MinHold)
  <2>1. duty[d].held \in 0 .. Term + 1 /\ duty[d].idle \in 0 .. Term + 1
    BY <1>2 DEF Duty
  <2>2. /\ duty[d].idle <= duty[d].held
        /\ MaxActive > 0 => duty[d].held < Tenure
        /\ NoImprove > 0 => duty[d].idle < Larger(NoImprove, MinHold)
    BY <1>1, <1>5 DEF IInv, PeriodLeft, OnDuty
  <2>3. /\ Aged(duty[d].idle, Term) <= Aged(duty[d].held, Term)
        /\ Aged(duty[d].held, Term) \in 0 .. Term + 1
        /\ Aged(duty[d].idle, Term) \in 0 .. Term + 1
        /\ Aged(duty[d].held, Term) <= duty[d].held + 1
        /\ Aged(duty[d].idle, Term) <= duty[d].idle + 1
    BY <2>1, <2>2, AgedType, LimitFacts
  <2>4. /\ MaxActive > 0 => Aged(duty[d].held, Term) <= Tenure
        /\ NoImprove > 0 => Aged(duty[d].idle, Term) <= Larger(NoImprove, MinHold)
    BY <2>1, <2>2, <2>3, LimitFacts
  <2> QED
    BY <1>3, <1>5, <2>3, <2>4
<1>6. PeriodLeft'
  BY <1>1, <1>3, <1>5 DEF PeriodLeft, OnDuty
<1>7. BoundedDuty'
  BY <1>3, <1>5 DEF BoundedDuty, OnDuty
<1> QED
  BY <1>4, <1>6, <1>7

LEMMA PassStep == IInv /\ Pass => IInv'
<1> SUFFICES ASSUME IInv, Pass PROVE IInv'
  OBVIOUS
<1>1. /\ due = {} /\ due' = Drone /\ UNCHANGED <<link, opinion, changes, winner, favour>>
      /\ \A e, d \in Drone : air'[e][d] = Older(air[e][d]) /\ heard'[d][e] = Older(heard[d][e])
  BY DEF Pass
<1>2. \A e, d \in Drone :
        /\ air[e][d] \in Message /\ (air[e][d] # Nothing => air[e][d].age <= 0)
        /\ heard[d][e] \in Message /\ (heard[d][e] # Nothing => heard[d][e].age <= Retention)
  BY <1>1, MessageFacts DEF IInv, Recent
<1>3. \A e, d \in Drone :
        /\ air'[e][d] \in Message /\ air'[e][d].cand = air[e][d].cand
        /\ (air'[e][d] = Nothing \/ air'[e][d].age = air[e][d].age + 1)
        /\ heard'[d][e] \in Message /\ heard'[d][e].cand = heard[d][e].cand
        /\ (heard'[d][e] = Nothing \/ heard'[d][e].age = heard[d][e].age + 1)
  <2>1. \A e, d \in Drone : air[e][d] # Nothing => air[e][d].age <= Retention
    BY <1>2, TimesAssumption DEF Message
  <2> QED
    BY <1>1, <1>2, <2>1, OlderFacts
<1>4. TypeOK'
  <2>1. air' \in [Drone -> [Drone -> Message]] /\ heard' \in [Drone -> [Drone -> Message]]
    <3>1. /\ air' = [e \in Drone |-> [d \in Drone |-> Older(air[e][d])]]
          /\ heard' = [d \in Drone |-> [e \in Drone |-> Older(heard[d][e])]]
      BY DEF Pass
    <3>2. \A e, d \in Drone : Older(air[e][d]) \in Message /\ Older(heard[d][e]) \in Message
      BY <1>1, <1>3
    <3> QED
      BY <3>1, <3>2
  <2>2. up' \in [Drone -> 0 .. Grace] /\ steady' \in 0 .. ElectBy
    <3>1. \A d \in Drone : (IF up[d] < Grace THEN up[d] + 1 ELSE Grace) \in 0 .. Grace
      <4>1. \A d \in Drone : up[d] \in 0 .. Grace
        BY DEF IInv, TypeOK
      <4> QED
        BY <4>1, TimesAssumption
    <3>2. up' \in [Drone -> 0 .. Grace]
      BY <3>1 DEF Pass
    <3>3. steady \in 0 .. ElectBy
      BY DEF IInv, TypeOK
    <3>4. steady' = IF steady < ElectBy THEN steady + 1 ELSE ElectBy
      BY DEF Pass
    <3>5. steady' \in 0 .. ElectBy
      BY <3>3, <3>4, LimitFacts
    <3> QED
      BY <3>2, <3>5
  <2>3. /\ split' \in [Drone -> Ages(Trigger)] /\ whole' \in [Drone -> Ages(Recover)]
        /\ winning' \in [Drone -> Ages(Settled)] /\ rested' \in [Drone -> Ages(Cooldown)]
    BY AgedType, TimesAssumption, LimitFacts DEF IInv, TypeOK, Pass
  <2>4. nominated' \in [Drone -> [Drone -> 0 .. Lapsed]]
    <3>1. \A e, c \in Drone : nominated[e][c] \in 0 .. Lapsed
      BY DEF IInv, TypeOK
    <3>2. \A e, c \in Drone :
            (IF nominated[e][c] < Lapsed THEN nominated[e][c] + 1 ELSE Lapsed) \in 0 .. Lapsed
      BY <3>1, LimitFacts
    <3> QED
      BY <3>2 DEF Pass
  <2> QED
    BY <1>1, <2>1, <2>2, <2>3, <2>4, PassDuty DEF IInv, TypeOK
<1>5. Recent'
  <2>1. ASSUME NEW e \in Drone, NEW d \in Drone, air'[e][d] # Nothing
        PROVE  air'[e][d].age <= 1
    <3>1. air'[e][d] = Older(air[e][d]) /\ air[e][d] # Nothing
      BY <1>1, <2>1 DEF Older
    <3>2. air[e][d].age \in 0 .. Gone /\ air[e][d].age <= 0
      BY <1>2, <3>1 DEF Message
    <3> QED
      BY <1>3, <2>1, <3>2, LimitFacts
  <2> QED
    BY <1>1, <2>1 DEF Recent
<1>6. VotesStamped'
  <2>1. ASSUME NEW e \in Drone, NEW m \in Message, NEW n \in Message, Cast(m, e),
               n.cand = m.cand, n = Nothing \/ n.age = m.age + 1
        PROVE  n.cand # NoOne => nominated'[e][n.cand] <= n.age
    <3>1. SUFFICES ASSUME n.cand # NoOne PROVE nominated'[e][n.cand] <= n.age
      OBVIOUS
    <3>2. n.age = m.age + 1 /\ m.age \in 0 .. Gone /\ m.cand \in Drone
      BY <2>1, <3>1, NothingFacts DEF Message
    <3>3. nominated[e][m.cand] <= m.age /\ nominated[e][m.cand] \in 0 .. Lapsed
      BY <2>1, <3>1, <3>2 DEF Cast, IInv, TypeOK
    <3>4. nominated'[e][m.cand] =
            IF nominated[e][m.cand] < Lapsed THEN nominated[e][m.cand] + 1 ELSE Lapsed
      BY <3>2 DEF Pass
    <3> QED
      BY <2>1, <3>2, <3>3, <3>4, LimitFacts
  <2>2. \A e, d \in Drone :
          /\ heard'[d][e].cand # NoOne =>
               nominated'[e][heard'[d][e].cand] <= heard'[d][e].age
          /\ air'[e][d].cand # NoOne => nominated'[e][air'[e][d].cand] <= air'[e][d].age
    BY <1>2, <1>3, <2>1 DEF IInv, VotesStamped
  <2> QED
    BY <2>2 DEF VotesStamped, Cast
<1> QED
  BY <1>4, <1>5, <1>6, PassDuty DEF IInv

LEMMA StepIInv == IInv /\ [Next]_vars => IInv'
<1> SUFFICES ASSUME IInv, [Next]_vars PROVE IInv'
  OBVIOUS
<1>1. ASSUME NEW d \in Drone, Tick(d) PROVE IInv'
  BY <1>1, TickType, TickRecent, TickStamped, TickBounded DEF IInv
<1>2. ASSUME NEW e \in Drone, NEW d \in Drone, Deliver(e, d) PROVE IInv'
  BY <1>2, DeliverStep
<1>3. ASSUME NEW d \in Drone, Reconsider(d) PROVE IInv'
  BY <1>3, ReconsiderStep
<1>4. CASE UNCHANGED vars
  BY <1>4 DEF vars, IInv, TypeOK, Recent, VotesStamped, Cast, PeriodLeft, BoundedDuty, OnDuty
<1> QED
  BY <1>1, <1>2, <1>3, <1>4, MoveStep, PassStep DEF Next

\* A duty starts in a tick of its drone, which has won with these votes.
LEMMA StepBacked ==
  ASSUME IInv, [Next]_vars, NEW d \in Drone, ~duty[d].active, duty'[d].active
  PROVE  Cardinality({e \in Drone : nominated'[e][d] <= VoteTimeout}) >= MinVotes
<1> DEFINE backers == {e \in Drone : nominated'[e][d] <= VoteTimeout}
<1>1. Tick(d)
  <2>1. ASSUME NEW x \in Drone, Tick(x) PROVE x = d
    BY <2>1, TickDuty DEF IInv
  <2>2. ~Pass
    <3>1. Pass => duty'[d].active = duty[d].active
      BY DEF Pass
    <3> QED
      BY <3>1
  <2>3. duty' # duty
    OBVIOUS
  <2> QED
    BY <2>1, <2>2, <2>3 DEF Next, Deliver, Reconsider, Move, vars
<1>2. d \in Electable(d)
  <2>1. Winner(d) = d
    BY <1>1, TickDuty DEF IInv
  <2> QED
    BY <2>1, ViewFacts, NothingFacts DEF IInv
<1>3. Voters(d, d) \subseteq backers
  <2>1. ASSUME NEW e \in Voters(d, d) PROVE e \in backers
    <3>1. CASE e = d /\ Proposed(d) = d
      BY <1>1, <3>1, CastStays, TimesAssumption DEF IInv
    <3>2. CASE /\ e \in Drone \ {d} /\ heard[d][e].cand = d
               /\ heard[d][e].age <= VoteTimeout
      <4>1. nominated[e][d] <= heard[d][e].age /\ nominated'[e][d] = nominated[e][d]
        BY <1>1, <3>2, NothingFacts, CastStays DEF IInv, VotesStamped, Cast
      <4>2. nominated[e][d] \in 0 .. Lapsed /\ heard[d][e].age \in 0 .. Gone
        BY <3>2, MessageFacts DEF IInv, TypeOK, Message
      <4> QED
        BY <3>2, <4>1, <4>2, LimitFacts, TimesAssumption
    <3> QED
      BY <2>1, <3>1, <3>2 DEF Voters
  <2> QED
    BY <2>1
<1>4. Cardinality(Voters(d, d)) >= MinVotes
  BY <1>2 DEF Electable, Votes
<1>5. backers \in SUBSET Drone /\ IsFiniteSet(backers) /\ Cardinality(backers) \in Nat
  BY DroneFacts
<1>6. Cardinality(Voters(d, d)) <= Cardinality(backers) /\ Cardinality(Voters(d, d)) \in Nat
  BY <1>3, <1>5, FS_Subset, FS_CardinalityType
<1> QED
  BY <1>4, <1>5, <1>6, TimesAssumption

-----------------------------------------------------------------------------
(* The news.  What a drone has of another is as old as that one's ticks     *)
(* since the links last changed, and says what it has gone on proposing.    *)

Ticks(e) == IF e \in due THEN steady ELSE steady + 1
LastAge(e) == IF e \in due THEN 1 ELSE 0

OfOldPeriod ==
  \A e \in due, d \in Drone : heard[d][e].age >= 1 /\ air[e][d].age >= 1

Linked(d, e) == d # e /\ {d, e} \in link
Parted(d, e) == d # e /\ {d, e} \notin link

\* Whoever is not linked has last been heard before the links changed.
Silence ==
  \A d, e \in Drone : Parted(d, e) =>
    /\ heard[d][e].age > steady \/ heard[d][e].age = Gone
    /\ Ticks(e) >= 1 => air[e][d] = Nothing

\* Of who is linked, the last message is at hand, and the one before it is
\* held until then.
InTouch ==
  \A d, e \in Drone : Linked(d, e) =>
    /\ Ticks(e) >= 1 => Received(e, d).age = LastAge(e)
    /\ Ticks(e) >= 2 => heard[d][e].age <= LastAge(e) + 1

\* A message from the time its sender has gone on proposing c proposes c.
Says(m, run, last) == \A c \in Drone : m # Nothing /\ run[c] + last > m.age => m.cand = c
Faithful ==
  \A d, e \in Drone :
    /\ Says(heard[d][e], favour[e], LastAge(e))
    /\ Says(air[e][d], favour[e], LastAge(e))

\* A winner has won since some time.
Dated == \A d \in Drone : winner[d] # NoOne => winning[d] # Unset

NewsInv == OfOldPeriod /\ Dated /\ Silence /\ InTouch /\ Faithful

LEMMA TicksFacts ==
  ASSUME TypeOK, NEW e \in Drone
  PROVE  /\ steady \in Nat /\ Ticks(e) \in Nat /\ Ticks(e) >= steady
         /\ LastAge(e) \in {0, 1}
BY LimitFacts DEF TypeOK, Ticks, LastAge

\* What a tick sends.
LEMMA TickAir ==
  ASSUME TypeOK, NEW d \in Drone, Tick(d)
  PROVE  \A r \in Drone :
           /\ Linked(r, d) => /\ air'[d][r] # Nothing /\ air'[d][r].age = 0
                              /\ air'[d][r].cand = Proposed(d)
           /\ Parted(r, d) => air'[d][r] = Nothing
<1>1. air \in [Drone -> [Drone -> Message]]
  BY DEF TypeOK
<1>2. air' = [air EXCEPT ![d] = [e \in Drone |->
                IF e \in Neighbours(d) THEN Published(d, duty'[d].active) ELSE Nothing]]
  BY DEF Tick
<1>3. \A r \in Drone :
        air'[d][r] = IF r \in Neighbours(d) THEN Published(d, duty'[d].active) ELSE Nothing
  BY <1>1, <1>2
<1>4. duty'[d].active \in BOOLEAN
  BY TickDuty DEF Duty
<1>5. \A r \in Drone :
        /\ Linked(r, d) => r \in Neighbours(d)
        /\ Parted(r, d) => r \notin Neighbours(d)
  <2>1. \A r \in Drone : {r, d} = {d, r}
    OBVIOUS
  <2> QED
    BY <2>1 DEF Linked, Parted, Neighbours
<1>6. LET m == Published(d, duty'[d].active)
      IN  m # Nothing /\ m.age = 0 /\ m.cand = Proposed(d)
  BY <1>4, PublishedFacts
<1> QED
  BY <1>3, <1>5, <1>6

\* Nothing is older than its stamp in what a receiver has of a sender.
LEMMA TickNews ==
  ASSUME IInv, VoteTimeout >= 2, NewsInv, NEW d \in Drone, Tick(d)
  PROVE  NewsInv'
<1>1. /\ TypeOK /\ d \in due /\ due' = due \ {d} /\ UNCHANGED <<link, steady>>
  BY DEF IInv, Tick, IsNext
<1>2. /\ \A e \in Drone : heard'[d][e] = Pruned(heard[d][e])
      /\ \A r \in Drone \ {d}, e \in Drone :
           heard'[r][e] = IF e = d THEN Received(d, r) ELSE heard[r][e]
      /\ \A e \in Drone : air'[d][e] \in {Nothing, Published(d, duty'[d].active)}
      /\ \A e \in Drone \ {d}, r \in Drone : air'[e][r] = air[e][r]
  BY <1>1, TickMessages
<1>3. /\ \A e, r \in Drone : /\ heard[r][e] \in Message /\ air[e][r] \in Message
                             /\ Received(e, r) \in {heard[r][e], air[e][r]}
      /\ \A m \in Message : Pruned(m) = Nothing \/ (Pruned(m) = m /\ m.age <= Retention)
      /\ \A m \in Message : m.age <= Retention => Pruned(m) = m
  <2>1. \A m \in Message : m.age \in Int
    BY DEF Message
  <2>2. \A m \in Message : m.age <= Retention => Pruned(m) = m
    BY <2>1, TimesAssumption DEF Pruned
  <2> QED
    BY <1>1, <2>2, MessageFacts
<1>4. /\ Nothing.age = Gone
      /\ Gone \in Nat /\ Gone >= 2 /\ Retention >= 2
  BY TimesAssumption DEF Nothing, Gone
<1>5. /\ \A e \in Drone \ {d} : Ticks(e)' = Ticks(e) /\ LastAge(e)' = LastAge(e)
      /\ Ticks(d) = steady /\ Ticks(d)' = steady + 1 /\ LastAge(d) = 1 /\ LastAge(d)' = 0
  BY <1>1 DEF Ticks, LastAge
<1>6. /\ \A x, e \in Drone : Linked(x, e)' = Linked(x, e) /\ Parted(x, e)' = Parted(x, e)
      /\ steady \in Nat
  BY <1>1, TicksFacts DEF Linked, Parted
<1>7. OfOldPeriod'
  <2>1. ASSUME NEW e \in due', NEW r \in Drone
        PROVE  heard'[r][e].age >= 1 /\ air'[e][r].age >= 1
    <3>1. e \in due /\ e # d /\ e \in Drone
      BY <1>1 DEF TypeOK
    <3>2. heard[r][e].age >= 1 /\ air[e][r].age >= 1
      BY <3>1 DEF NewsInv, OfOldPeriod
    <3>3. CASE r = d
      <4>1. heard'[r][e] = Nothing \/ heard'[r][e] = heard[r][e]
        BY <1>2, <1>3, <3>1, <3>3
      <4>2. air'[e][r] = air[e][r]
        BY <1>2, <3>1
      <4>3. Nothing.age >= 1
        BY <1>4
      <4> QED
        BY <3>2, <4>1, <4>2, <4>3
    <3>4. CASE r # d
      BY <1>2, <3>1, <3>2, <3>4
    <3> QED
      BY <3>3, <3>4
  <2> QED
    BY <2>1 DEF OfOldPeriod
<1>8. Dated'
  <2>1. /\ winner' = [winner EXCEPT ![d] = Winner(d)]
        /\ winning' = [winning EXCEPT ![d] = WinningNow(d)]
        /\ winner \in [Drone -> Drone \cup {NoOne}] /\ winning \in [Drone -> Ages(Settled)]
    BY <1>1 DEF Tick, TypeOK
  <2>2. (WinningNow(d) = winning[d] /\ Winner(d) = winner[d]) \/ WinningNow(d) # Unset
    BY DEF WinningNow, Unset
  <2>3. ASSUME NEW x \in Drone, winner'[x] # NoOne PROVE winning'[x] # Unset
    BY <2>1, <2>2, <2>3 DEF NewsInv, Dated
  <2> QED
    BY <2>3 DEF Dated
<1>9. Silence'
  <2>1. ASSUME NEW x \in Drone, NEW e \in Drone, Parted(x, e)
        PROVE  /\ heard'[x][e].age > steady \/ heard'[x][e].age = Gone
               /\ Ticks(e)' >= 1 => air'[e][x] = Nothing
    <3>1. /\ heard[x][e].age > steady \/ heard[x][e].age = Gone
          /\ Ticks(e) >= 1 => air[e][x] = Nothing
          /\ x # e
      BY <2>1 DEF NewsInv, Silence, Parted
    <3>2. CASE e = d
      <4>1. heard'[x][e] = Received(e, x) /\ air'[e][x] = Nothing
        BY <1>1, <1>2, <2>1, <3>1, <3>2, TickAir
      <4>2. CASE air[e][x] = Nothing
        BY <3>1, <4>1, <4>2 DEF Received
      <4>3. CASE air[e][x] # Nothing
        <5>1. steady = 0
          BY <1>5, <1>6, <3>1, <3>2, <4>3
        <5>2. air[e][x].age >= 1
          BY <1>1, <3>2 DEF NewsInv, OfOldPeriod
        <5>3. Received(e, x) = air[e][x] /\ air[e][x].age \in Int
          BY <1>3, <4>3 DEF Received, Message
        <5> QED
          BY <4>1, <5>1, <5>2, <5>3
      <4> QED
        BY <4>2, <4>3
    <3>3. CASE e # d
      <4>1. /\ Ticks(e)' = Ticks(e) /\ air'[e][x] = air[e][x]
            /\ heard'[x][e] = heard[x][e] \/ heard'[x][e] = Nothing
        BY <1>2, <1>3, <1>5, <3>3
      <4> QED
        BY <1>4, <3>1, <4>1
    <3> QED
      BY <3>2, <3>3
  <2> QED
    BY <1>1, <1>6, <2>1 DEF Silence
<1>10. InTouch'
  <2>1. ASSUME NEW x \in Drone, NEW e \in Drone, Linked(x, e)
        PROVE  /\ Ticks(e)' >= 1 => Received(e, x)'.age = LastAge(e)'
               /\ Ticks(e)' >= 2 => heard'[x][e].age <= LastAge(e)' + 1
    <3>1. /\ Ticks(e) >= 1 => Received(e, x).age = LastAge(e)
          /\ Ticks(e) >= 2 => heard[x][e].age <= LastAge(e) + 1
          /\ x # e
      BY <2>1 DEF NewsInv, InTouch, Linked
    <3>2. CASE e = d
      <4>1. Received(e, x)'.age = 0
        BY <1>1, <2>1, <3>2, TickAir DEF Received
      <4>2. heard'[x][e] = Received(e, x)
        BY <1>2, <3>1, <3>2
      <4> QED
        BY <1>5, <1>6, <3>1, <3>2, <4>1, <4>2
    <3>3. CASE e # d
      <4>1. Ticks(e)' = Ticks(e) /\ LastAge(e)' = LastAge(e) /\ air'[e][x] = air[e][x]
        BY <1>2, <1>5, <3>3
      <4>2. CASE x # d
        <5>1. heard'[x][e] = heard[x][e]
          BY <1>2, <3>3, <4>2
        <5> QED
          BY <3>1, <4>1, <5>1 DEF Received
      <4>3. CASE x = d
        <5>1. heard'[x][e] = Pruned(heard[x][e])
          BY <1>2, <4>3
        <5>2. LastAge(e) \in {0, 1} /\ heard[x][e].age \in Int
          BY <1>1, <1>3, TicksFacts DEF Message
        <5>3. Ticks(e) >= 2 => heard'[x][e] = heard[x][e]
          BY <1>3, <1>4, <3>1, <5>1, <5>2, TimesAssumption
        <5>4. Ticks(e) >= 1 => Received(e, x)' = Received(e, x)
          <6>1. CASE air[e][x] # Nothing
            BY <4>1, <6>1 DEF Received
          <6>2. CASE air[e][x] = Nothing
            <7>1. Ticks(e) >= 1 => heard[x][e].age = LastAge(e)
              BY <3>1, <6>2 DEF Received
            <7>2. Ticks(e) >= 1 => heard'[x][e] = heard[x][e]
              BY <1>3, <1>4, <5>1, <5>2, <7>1, TimesAssumption
            <7> QED
              BY <4>1, <6>2, <7>2 DEF Received
          <6> QED
            BY <6>1, <6>2
        <5> QED
          BY <3>1, <4>1, <5>3, <5>4
      <4> QED
        BY <4>2, <4>3
    <3> QED
      BY <3>2, <3>3
  <2> QED
    BY <1>6, <2>1 DEF InTouch
<1>11. Faithful'
  <2>1. \A e \in Drone \ {d} : \A m : Says(m, favour[e], LastAge(e)) =>
          Says(m, favour'[e], LastAge(e)')
    BY <1>1, <1>5, TickFavour DEF Says
  <2>2. ASSUME NEW m \in Message, Says(m, favour[d], LastAge(d)), m.age >= 1
        PROVE  Says(m, favour'[d], LastAge(d)')
    <3>1. SUFFICES ASSUME NEW c \in Drone, m # Nothing, favour'[d][c] + LastAge(d)' > m.age
                   PROVE  m.cand = c
      BY DEF Says
    <3>2. /\ favour'[d][c] <= favour[d][c] + 1 \/ favour'[d][c] <= 0
          /\ favour'[d][c] \in Nat /\ favour[d][c] \in Nat /\ m.age \in Nat
      BY <1>1, TickFavour DEF TypeOK, Message
    <3>3. favour[d][c] + LastAge(d) > m.age
      BY <1>5, <2>2, <3>1, <3>2
    <3> QED
      BY <2>2, <3>1, <3>3 DEF Says
  <2>3. \A e \in Drone : Says(Nothing, favour'[e], LastAge(e)')
    BY DEF Says
  <2>4. duty'[d].active \in BOOLEAN
    BY <1>1, TickDuty DEF Duty
  <2>5. Says(Published(d, duty'[d].active), favour'[d], LastAge(d)')
    <3>1. \A c \in Drone : favour'[d][c] > 0 => c = Proposed(d)
      BY <1>1, TickFavour
    <3>2. /\ Published(d, duty'[d].active).cand = Proposed(d)
          /\ Published(d, duty'[d].active).age = 0 /\ LastAge(d)' = 0
      BY <1>1, <1>5, <2>4, PublishedFacts
    <3>3. \A c \in Drone : favour'[d][c] \in Nat
      BY <1>1, TickFavour
    <3> QED
      BY <3>1, <3>2, <3>3 DEF Says
  <2>6. ASSUME NEW r \in Drone, NEW e \in Drone
        PROVE  /\ Says(heard'[r][e], favour'[e], LastAge(e)')
               /\ Says(air'[e][r], favour'[e], LastAge(e)')
    <3>1. /\ Says(heard[r][e], favour[e], LastAge(e)) /\ Says(air[e][r], favour[e], LastAge(e))
          /\ heard[r][e] \in Message /\ air[e][r] \in Message
          /\ e = d => heard[r][e].age >= 1 /\ air[e][r].age >= 1
      BY <1>1, <1>3 DEF NewsInv, Faithful, OfOldPeriod
    <3>2. \A m \in {heard[r][e], air[e][r], Nothing} : Says(m, favour'[e], LastAge(e)')
      <4>1. CASE e = d
        BY <2>2, <2>3, <3>1, <4>1
      <4>2. CASE e # d
        BY <2>1, <2>3, <3>1, <4>2
      <4> QED
        BY <4>1, <4>2
    <3>3. heard'[r][e] \in {heard[r][e], air[e][r], Nothing}
      BY <1>2, <1>3
    <3>4. \/ air'[e][r] \in {air[e][r], Nothing}
          \/ e = d /\ air'[e][r] = Published(d, duty'[d].active)
      BY <1>2
    <3> QED
      BY <2>5, <3>2, <3>3, <3>4
  <2> QED
    BY <2>6 DEF Faithful
<1> QED
  BY <1>7, <1>8, <1>9, <1>10, <1>11 DEF NewsInv

LEMMA InitNews == Init => NewsInv
<1> SUFFICES ASSUME Init PROVE NewsInv
  OBVIOUS
<1>1. /\ \A e, d \in Drone : air[e][d] = Nothing /\ heard[d][e] = Nothing
      /\ steady = 0 /\ due = Drone
  BY DEF Init
<1>2. Nothing.age = Gone /\ Gone \in Nat /\ Gone >= 1
  BY TimesAssumption DEF Nothing, Gone
<1>3. \A e \in Drone : Ticks(e) = 0
  BY <1>1 DEF Ticks
<1>4. OfOldPeriod /\ Dated
  BY <1>1, <1>2 DEF OfOldPeriod, Dated, Init
<1>5. Silence /\ InTouch
  BY <1>1, <1>2, <1>3 DEF Silence, InTouch
<1>6. Faithful
  BY <1>1 DEF Faithful, Says
<1> QED
  BY <1>4, <1>5, <1>6 DEF NewsInv

\* What has arrived before a tick is not received again.
LEMMA DeliverMessages ==
  ASSUME TypeOK, NEW e \in Drone, NEW d \in Drone, Deliver(e, d)
  PROVE  /\ air[e][d] # Nothing
         /\ \A x, y \in Drone :
              /\ heard'[x][y] = IF x = d /\ y = e THEN air[e][d] ELSE heard[x][y]
              /\ air'[y][x] = IF x = d /\ y = e THEN Nothing ELSE air[y][x]
              /\ Received(y, x)' = Received(y, x)
<1>1. /\ heard \in [Drone -> [Drone -> Message]] /\ air \in [Drone -> [Drone -> Message]]
      /\ heard' = [heard EXCEPT ![d][e] = air[e][d]]
      /\ air' = [air EXCEPT ![e][d] = Nothing]
      /\ air[e][d] # Nothing
  BY DEF TypeOK, Deliver, Received
<1>2. \A x, y \in Drone :
        /\ heard'[x][y] = IF x = d /\ y = e THEN air[e][d] ELSE heard[x][y]
        /\ air'[y][x] = IF x = d /\ y = e THEN Nothing ELSE air[y][x]
  BY <1>1
<1>3. \A x, y \in Drone : Received(y, x)' = Received(y, x)
  BY <1>1, <1>2 DEF Received
<1> QED
  BY <1>1, <1>2, <1>3

LEMMA DeliverNews ==
  ASSUME IInv, NewsInv, NEW e \in Drone, NEW d \in Drone, Deliver(e, d)
  PROVE  NewsInv'
<1>1. TypeOK /\ UNCHANGED <<link, due, steady, winner, winning, favour>>
  BY DEF IInv, Deliver
<1>2. /\ air[e][d] # Nothing
      /\ \A x, y \in Drone :
           /\ heard'[x][y] = IF x = d /\ y = e THEN air[e][d] ELSE heard[x][y]
           /\ air'[y][x] = IF x = d /\ y = e THEN Nothing ELSE air[y][x]
           /\ Received(y, x)' = Received(y, x)
  BY <1>1, DeliverMessages
<1>3. Nothing.age = Gone /\ Gone \in Nat /\ Gone >= 1
  BY TimesAssumption DEF Nothing, Gone
<1>4. /\ \A x \in Drone : /\ Ticks(x)' = Ticks(x) /\ LastAge(x)' = LastAge(x)
      /\ \A x, y \in Drone : Linked(x, y)' = Linked(x, y) /\ Parted(x, y)' = Parted(x, y)
      /\ Dated' = Dated
  BY <1>1 DEF Ticks, LastAge, Linked, Parted, Dated
<1>5. OfOldPeriod'
  <2>1. \A y \in due, x \in Drone : heard[x][y].age >= 1 /\ air[y][x].age >= 1
    BY DEF NewsInv, OfOldPeriod
  <2>2. \A y \in due : y \in Drone
    BY <1>1 DEF TypeOK
  <2>3. \A y \in due, x \in Drone : heard'[x][y].age >= 1 /\ air'[y][x].age >= 1
    BY <1>2, <1>3, <2>1, <2>2
  <2> QED
    BY <1>1, <2>3 DEF OfOldPeriod
<1>6. Silence'
  <2>1. ASSUME NEW x \in Drone, NEW y \in Drone, Parted(x, y)
        PROVE  /\ heard'[x][y].age > steady \/ heard'[x][y].age = Gone
               /\ Ticks(y) >= 1 => air'[y][x] = Nothing
    <3>1. /\ heard[x][y].age > steady \/ heard[x][y].age = Gone
          /\ Ticks(y) >= 1 => air[y][x] = Nothing
      BY <2>1 DEF NewsInv, Silence
    <3>2. CASE x = d /\ y = e
      <4>1. Ticks(y) = 0 /\ y \in due /\ steady = 0
        BY <1>1, <1>2, <3>1, <3>2, TicksFacts DEF Ticks
      <4>2. air[y][x].age >= 1 /\ air[y][x].age \in Int
        BY <1>1, <4>1, MessageFacts DEF NewsInv, OfOldPeriod, Message
      <4> QED
        BY <1>2, <3>2, <4>1, <4>2
    <3>3. CASE ~(x = d /\ y = e)
      BY <1>2, <3>1, <3>3
    <3> QED
      BY <3>2, <3>3
  <2> QED
    BY <1>1, <1>4, <2>1 DEF Silence
<1>7. InTouch'
  <2>1. ASSUME NEW x \in Drone, NEW y \in Drone, Linked(x, y)
        PROVE  /\ Ticks(y) >= 1 => Received(y, x)'.age = LastAge(y)
               /\ Ticks(y) >= 2 => heard'[x][y].age <= LastAge(y) + 1
    <3>1. /\ Ticks(y) >= 1 => Received(y, x).age = LastAge(y)
          /\ Ticks(y) >= 2 => heard[x][y].age <= LastAge(y) + 1
          /\ LastAge(y) \in Int /\ Ticks(y) \in Int
      BY <1>1, <2>1, TicksFacts DEF NewsInv, InTouch
    <3>2. CASE x = d /\ y = e
      <4>1. heard'[x][y] = Received(y, x)
        BY <1>2, <3>2 DEF Received
      <4> QED
        BY <1>2, <3>1, <4>1
    <3>3. CASE ~(x = d /\ y = e)
      BY <1>2, <3>1, <3>3
    <3> QED
      BY <3>2, <3>3
  <2> QED
    BY <1>4, <2>1 DEF InTouch
<1>8. Faithful'
  <2>1. \A x, y \in Drone : /\ Says(heard'[x][y], favour[y], LastAge(y))
                            /\ Says(air'[y][x], favour[y], LastAge(y))
    BY <1>2 DEF NewsInv, Faithful, Says
  <2> QED
    BY <1>1, <1>4, <2>1 DEF Faithful
<1> QED
  BY <1>4, <1>5, <1>6, <1>7, <1>8 DEF NewsInv

LEMMA MoveNews == IInv /\ NewsInv /\ Move => NewsInv'
<1> SUFFICES ASSUME IInv, NewsInv, Move PROVE NewsInv'
  OBVIOUS
<1>1. /\ due = Drone /\ steady' = 0
      /\ UNCHANGED <<due, air, heard, winner, winning, favour>>
  BY DEF Move
<1>2. \A e \in Drone : Ticks(e)' = 0
  BY <1>1 DEF Ticks
<1>3. \A e, d \in Drone : heard[d][e].age >= 1 /\ heard[d][e].age \in Int
  BY <1>1, MessageFacts DEF IInv, NewsInv, OfOldPeriod, Message
<1>4. OfOldPeriod' /\ Dated'
  BY <1>1 DEF NewsInv, OfOldPeriod, Dated
<1>5. Faithful'
  BY <1>1 DEF NewsInv, Faithful, Says, LastAge
<1>6. Silence'
  BY <1>1, <1>2, <1>3 DEF Silence
<1>7. InTouch'
  BY <1>2 DEF InTouch
<1> QED
  BY <1>4, <1>5, <1>6, <1>7 DEF NewsInv

\* In a period every message gets older by one.
LEMMA PassMessages ==
  ASSUME IInv, Pass, NEW e \in Drone, NEW d \in Drone
  PROVE  /\ heard'[d][e] = Older(heard[d][e]) /\ air'[e][d] = Older(air[e][d])
         /\ Received(e, d)' = Older(Received(e, d))
         /\ \A m \in {heard[d][e], air[e][d], Received(e, d)} :
              /\ m \in Message /\ Older(m).cand = m.cand
              /\ m = Nothing => Older(m) = Nothing
              /\ m # Nothing => m.age <= Retention /\ Older(m).age = m.age + 1
<1>1. /\ heard'[d][e] = Older(heard[d][e]) /\ air'[e][d] = Older(air[e][d])
      /\ due = {} /\ TypeOK
  BY DEF Pass, IInv
<1>2. /\ heard[d][e] \in Message /\ air[e][d] \in Message
      /\ Received(e, d) \in {heard[d][e], air[e][d]}
  BY <1>1, MessageFacts
<1>3. /\ heard[d][e] # Nothing => heard[d][e].age <= Retention
      /\ air[e][d] # Nothing => air[e][d].age <= 0
  BY <1>1 DEF IInv, Recent
<1>4. air[e][d].age \in Int /\ heard[d][e].age \in Int
  BY <1>2 DEF Message
<1>5. air[e][d] # Nothing => air[e][d].age <= Retention
  BY <1>3, <1>4, TimesAssumption
<1>6. \A m \in Message :
        /\ m = Nothing => Older(m) = Nothing
        /\ m # Nothing => Older(m).age = m.age + 1
        /\ Older(m).cand = m.cand
  BY DEF Older, Message
<1>7. Received(e, d)' = Older(Received(e, d))
  <2>1. CASE air[e][d] = Nothing
    BY <1>1, <1>2, <1>6, <2>1 DEF Received
  <2>2. CASE air[e][d] # Nothing
    <3>1. air'[e][d].age <= 1 /\ Nothing.age = Gone /\ Gone >= 2 /\ Gone \in Int
          /\ air'[e][d].age \in Int
      BY <1>1, <1>2, <1>3, <1>4, <1>6, <2>2, TimesAssumption DEF Nothing, Gone
    <3>2. air'[e][d] # Nothing
      BY <3>1
    <3> QED
      BY <1>1, <2>2, <3>2 DEF Received
  <2> QED
    BY <2>1, <2>2
<1>8. \A m \in {heard[d][e], air[e][d], Received(e, d)} :
        m \in Message /\ (m # Nothing => m.age <= Retention)
  BY <1>2, <1>3, <1>5
<1> QED
  BY <1>1, <1>6, <1>7, <1>8

LEMMA PassTicks ==
  ASSUME IInv, Pass
  PROVE  /\ steady' \in Nat /\ steady \in Nat /\ steady' <= steady + 1
         /\ \A e \in Drone : /\ Ticks(e)' = steady' /\ Ticks(e) = steady + 1
                              /\ LastAge(e)' = 1 /\ LastAge(e) = 0
<1>1. steady \in 0 .. ElectBy /\ due = {} /\ due' = Drone
  BY DEF IInv, TypeOK, Pass
<1>2. steady' = IF steady < ElectBy THEN steady + 1 ELSE ElectBy
  BY DEF Pass
<1>3. steady' \in Nat /\ steady' <= steady + 1
  BY <1>1, <1>2, LimitFacts
<1> QED
  BY <1>1, <1>3 DEF Ticks, LastAge

LEMMA PassNews == IInv /\ NewsInv /\ Pass => NewsInv'
<1> SUFFICES ASSUME IInv, NewsInv, Pass PROVE NewsInv'
  OBVIOUS
<1>1. due = {} /\ due' = Drone /\ UNCHANGED <<link, favour>> /\ TypeOK
  BY DEF Pass, IInv
<1>2. /\ Nothing.age = Gone
      /\ Gone \in Nat /\ Gone = Retention + 1 /\ Retention >= 1 /\ Retention \in Nat
  BY TimesAssumption DEF Nothing, Gone
<1>3. steady' \in Nat /\ steady \in Nat /\ steady' <= steady + 1
  BY PassTicks
<1>4. ASSUME NEW e \in Drone, NEW d \in Drone
      PROVE  heard'[d][e].age >= 1 /\ air'[e][d].age >= 1
  <2>1. \A m \in Message : m.age \in Int /\ m.age >= 0
    BY DEF Message
  <2>2. \A m \in {heard[d][e], air[e][d]} :
          m.age >= 0 /\ m.age \in Int /\ (Older(m).age = Gone \/ Older(m).age = m.age + 1)
    BY <1>2, <2>1, PassMessages
  <2>3. \A m \in {heard[d][e], air[e][d]} : Older(m).age >= 1
    BY <1>2, <2>2
  <2> QED
    BY <2>3, PassMessages
<1>5. OfOldPeriod'
  BY <1>1, <1>4 DEF OfOldPeriod
<1>6. Dated'
  <2>1. ASSUME NEW d \in Drone, winner'[d] # NoOne PROVE winning'[d] # Unset
    <3>1. winner[d] # NoOne /\ winning'[d] = Aged(winning[d], Settled)
      BY <2>1 DEF Pass
    <3>2. winning[d] # Unset /\ winning[d] \in Ages(Settled)
      BY <1>1, <3>1 DEF NewsInv, Dated, TypeOK
    <3> QED
      BY <3>1, <3>2, LimitFacts DEF Aged, Ages, Unset
  <2> QED
    BY <2>1 DEF Dated
<1>7. Silence'
  <2>1. ASSUME NEW d \in Drone, NEW e \in Drone, Parted(d, e)
        PROVE  /\ heard'[d][e].age > steady' \/ heard'[d][e].age = Gone
               /\ steady' >= 1 => air'[e][d] = Nothing
    <3>1. /\ heard[d][e].age > steady \/ heard[d][e].age = Gone
          /\ air[e][d] = Nothing
      BY <1>3, <2>1, PassTicks DEF NewsInv, Silence
    <3>2. air'[e][d] = Nothing
      BY <3>1, PassMessages
    <3>3. CASE heard[d][e] = Nothing
      BY <1>2, <3>2, <3>3, PassMessages
    <3>4. CASE heard[d][e] # Nothing
      <4>1. /\ heard[d][e].age <= Retention /\ heard'[d][e].age = heard[d][e].age + 1
            /\ heard[d][e].age \in Int
        BY <3>4, PassMessages DEF Message
      <4> QED
        BY <1>2, <1>3, <3>1, <3>2, <4>1
    <3> QED
      BY <3>3, <3>4
  <2> QED
    BY <1>1, <2>1, PassTicks DEF Silence, Parted
<1>8. InTouch'
  <2>1. ASSUME NEW d \in Drone, NEW e \in Drone, Linked(d, e)
        PROVE  /\ steady' >= 1 => Received(e, d)'.age = 1
               /\ steady' >= 2 => heard'[d][e].age <= 2
    <3>1. /\ Received(e, d).age = 0
          /\ steady + 1 >= 2 => heard[d][e].age <= 1
      BY <1>3, <2>1, PassTicks DEF NewsInv, InTouch
    <3>2. Received(e, d)'.age = 1
      <4>1. Received(e, d) # Nothing
        BY <1>2, <3>1
      <4> QED
        BY <3>1, <4>1, PassMessages
    <3>3. ASSUME steady' >= 2 PROVE heard'[d][e].age <= 2
      <4>1. heard[d][e].age <= 1 /\ heard[d][e].age \in Int
        BY <1>3, <3>1, <3>3, PassMessages DEF Message
      <4>2. heard[d][e] # Nothing
        BY <1>2, <4>1
      <4>3. heard'[d][e].age = heard[d][e].age + 1
        BY <4>2, PassMessages
      <4> QED
        BY <4>1, <4>3
    <3> QED
      BY <3>2, <3>3
  <2> QED
    BY <1>1, <2>1, PassTicks DEF InTouch, Linked
<1>9. Faithful'
  <2>1. ASSUME NEW e \in Drone, NEW d \in Drone, NEW m \in {heard[d][e], air[e][d]}
        PROVE  Says(Older(m), favour[e], 1)
    <3>1. SUFFICES ASSUME NEW c \in Drone, Older(m) # Nothing,
                          favour[e][c] + 1 > Older(m).age
                   PROVE  Older(m).cand = c
      BY DEF Says
    <3>2. /\ m # Nothing /\ Older(m).age = m.age + 1 /\ Older(m).cand = m.cand
          /\ m.age \in Nat
      BY <3>1, PassMessages DEF Message
    <3>3. favour[e][c] + LastAge(e) > m.age
      <4>1. favour[e][c] \in Nat /\ LastAge(e) = 0
        BY <1>1, PassTicks DEF TypeOK
      <4> QED
        BY <3>1, <3>2, <4>1
    <3>4. Says(m, favour[e], LastAge(e))
      BY DEF NewsInv, Faithful
    <3> QED
      BY <3>2, <3>3, <3>4 DEF Says
  <2>2. \A e, d \in Drone : heard'[d][e] = Older(heard[d][e]) /\ air'[e][d] = Older(air[e][d])
    BY PassMessages
  <2>3. \A e, d \in Drone : /\ Says(heard'[d][e], favour[e], 1)
                            /\ Says(air'[e][d], favour[e], 1)
    BY <2>1, <2>2
  <2> QED
    BY <1>1, <2>3, PassTicks DEF Faithful
<1> QED
  BY <1>5, <1>6, <1>7, <1>8, <1>9 DEF NewsInv

-----------------------------------------------------------------------------
(* The election.  B is a majority of those in c's reach.  While it goes on  *)
(* proposing c, c wins at each of its ticks, from the time on that it hears *)
(* nothing else of B and nothing any more of the rest of the swarm.         *)

Majority(c, B) ==
  /\ B \subseteq Neighbours(c) \cup {c} /\ c \in B
  /\ Cardinality(B) >= MinVotes /\ 2 * Cardinality(B) > Cardinality(Neighbours(c)) + 1

\* So that c has won its last n + 1 ticks.
Carried(c, B, n) ==
  /\ Majority(c, B)
  /\ steady >= VoteTimeout + n + LastAge(c)
  /\ \A e \in B : favour[e][c] >= n + 3 + LastAge(c) - LastAge(e)

\* A drone proposes only while it sees a split.
SplitLong ==
  \A d, c \in Drone, n \in 0 .. Trigger : favour[d][c] > n => split[d] >= n + LastAge(d)

WonLong ==
  \A c \in Drone, B \in SUBSET Drone, n \in 0 .. Persist :
    Carried(c, B, n) => winner[c] = c /\ winning[c] >= n + LastAge(c)

Serving ==
  \A c \in Drone, B \in SUBSET Drone :
    /\ Carried(c, B, Persist) /\ favour[c][c] > Trigger
    /\ rested[c] = Unset \/ rested[c] >= Cooldown + LastAge(c)
    => duty[c].active

EInv == NewsInv /\ SplitLong /\ WonLong /\ Serving

LEMMA RoundFacts ==
  /\ Rounds \in Nat /\ Rounds >= Persist + 3 /\ Rounds > Trigger
  /\ ElectBy = VoteTimeout + Persist
  /\ Settled \in Nat /\ Settled >= Persist
BY TimesAssumption DEF Rounds, ElectBy, Settled, Larger

\* Whoever has proposed c twice in a row has a vote for c, and c's own is at hand;
\* of those out of reach no vote is left.
LEMMA VotesOfMajority ==
  ASSUME VoteTimeout >= 2, IInv, NewsInv, NEW c \in Drone, NEW B \in SUBSET Drone,
         Majority(c, B), steady >= VoteTimeout, Proposed(c) = c,
         \A e \in B \ {c} : favour[e][c] >= 2
  PROVE  /\ B \subseteq Voters(c, c)
         /\ \A b \in Drone \ {c} : Voters(c, b) \subseteq (Neighbours(c) \cup {c}) \ B
<1>1. TypeOK /\ steady \in Nat /\ Gone = Retention + 1 /\ Nothing.age = Gone
  BY TicksFacts DEF IInv, Gone, Nothing
<1>2. \A e \in Drone : heard[c][e].age \in Nat
  BY <1>1, MessageFacts DEF Message
<1>3. ASSUME NEW e \in B \ {c}
      PROVE  heard[c][e].cand = c /\ heard[c][e].age <= VoteTimeout
  <2>1. Linked(c, e) /\ e \in Drone
    BY <1>3 DEF Majority, Neighbours, Linked
  <2>2. Ticks(e) >= 2 /\ LastAge(e) \in {0, 1}
    BY <1>1, <2>1, TicksFacts, TimesAssumption
  <2>3. heard[c][e].age <= LastAge(e) + 1
    BY <2>1, <2>2 DEF NewsInv, InTouch
  <2>4. heard[c][e].age <= VoteTimeout /\ heard[c][e] # Nothing
    BY <1>1, <1>2, <2>1, <2>2, <2>3, TimesAssumption
  <2>5. favour[e][c] + LastAge(e) > heard[c][e].age
    <3>1. favour[e][c] >= 2 /\ favour[e][c] \in Nat
      BY <1>1, <1>3, <2>1, RoundFacts DEF TypeOK
    <3> QED
      BY <1>2, <2>1, <2>2, <2>3, <3>1
  <2>6. Says(heard[c][e], favour[e], LastAge(e))
    BY <2>1 DEF NewsInv, Faithful
  <2> QED
    BY <2>4, <2>5, <2>6 DEF Says
<1>4. B \subseteq Voters(c, c)
  BY <1>3 DEF Voters
<1>5. ASSUME NEW b \in Drone \ {c}, NEW e \in Voters(c, b)
      PROVE  e \in (Neighbours(c) \cup {c}) \ B
  <2>1. e \in Drone \ {c} /\ heard[c][e].cand = b /\ heard[c][e].age <= VoteTimeout
    BY <1>5 DEF Voters
  <2>2. ~Parted(c, e)
    <3>1. SUFFICES ASSUME Parted(c, e) PROVE FALSE
      OBVIOUS
    <3>2. heard[c][e].age > steady \/ heard[c][e].age = Gone
      BY <2>1, <3>1 DEF NewsInv, Silence
    <3> QED
      BY <1>1, <1>2, <2>1, <3>2, TimesAssumption
  <2>3. e \in Neighbours(c)
    BY <2>1, <2>2 DEF Parted, Neighbours
  <2>4. e \notin B
    BY <1>3, <2>1
  <2> QED
    BY <2>3, <2>4
<1> QED
  BY <1>4, <1>5

\* The majority's drone has more votes than any other.
LEMMA MajorityWins ==
  ASSUME VoteTimeout >= 2, IInv, NewsInv, NEW c \in Drone, NEW B \in SUBSET Drone,
         Majority(c, B), steady >= VoteTimeout, Proposed(c) = c,
         \A e \in B \ {c} : favour[e][c] >= 2
  PROVE  Winner(c) = c
<1> DEFINE reach == Neighbours(c) \cup {c}
<1>1. TypeOK /\ \A b \in Drone : Votes(c, b) \in Nat
  <2>1. TypeOK
    BY DEF IInv
  <2> QED
    BY <2>1, CountFacts
<1>2. /\ reach \in SUBSET Drone /\ Neighbours(c) \in SUBSET Drone /\ c \notin Neighbours(c)
      /\ IsFiniteSet(reach) /\ IsFiniteSet(Neighbours(c)) /\ IsFiniteSet(B)
  <2>1. reach \in SUBSET Drone /\ Neighbours(c) \in SUBSET Drone /\ c \notin Neighbours(c)
    BY DEF Neighbours
  <2> QED
    BY <2>1, DroneFacts
<1>3. Cardinality(reach) = Cardinality(Neighbours(c)) + 1
  BY <1>2, FS_AddElement
<1>4. Cardinality(reach \ B) = Cardinality(reach) - Cardinality(B)
  <2>1. reach \cap B = B
    BY DEF Majority
  <2> QED
    BY <1>2, <2>1, FS_Difference
<1>5. /\ Cardinality(reach) \in Nat /\ Cardinality(B) \in Nat /\ Cardinality(Neighbours(c)) \in Nat
      /\ IsFiniteSet(reach \ B) /\ Cardinality(reach \ B) \in Nat
  BY <1>2, FS_CardinalityType, FS_Difference
<1>6. Cardinality(B) <= Votes(c, c)
  <2>1. B \subseteq Voters(c, c)
    BY VotesOfMajority
  <2>2. Voters(c, c) \in SUBSET Drone
    BY <1>1, ViewFacts
  <2>3. IsFiniteSet(Voters(c, c))
    BY <2>2, DroneFacts
  <2> QED
    BY <2>1, <2>3, FS_Subset DEF Votes
<1>7. ASSUME NEW b \in Drone \ {c}
      PROVE  Votes(c, b) < Votes(c, c)
  <2>1. Voters(c, b) \subseteq reach \ B
    BY VotesOfMajority
  <2>2. Votes(c, b) <= Cardinality(reach \ B)
    BY <1>5, <2>1, FS_Subset DEF Votes
  <2>3. 2 * Cardinality(B) > Cardinality(reach)
    BY <1>3 DEF Majority
  <2>4. Votes(c, b) \in Nat /\ Votes(c, c) \in Nat
    BY <1>1
  <2> HIDE DEF reach
  <2> QED
    BY <1>4, <1>5, <1>6, <2>2, <2>3, <2>4
<1>8. c \in Electable(c)
  <2>1. Votes(c, c) >= MinVotes
    BY <1>1, <1>5, <1>6, TimesAssumption DEF Majority
  <2> QED
    BY <2>1 DEF Electable
<1>9. c \in Leading(c)
  <2>1. c \in Nat
    BY DroneAssumption
  <2>2. \A b \in Electable(c) : b \in Drone
    BY DEF Electable
  <2>3. \A b \in Electable(c) : b # c => Votes(c, c) > Votes(c, b)
    BY <1>1, <1>7, <2>2
  <2> QED
    BY <1>8, <2>1, <2>3 DEF Leading
<1>10. \A b \in Leading(c) : b = c
  <2>1. SUFFICES ASSUME NEW b \in Leading(c), b # c PROVE FALSE
    OBVIOUS
  <2>2. b \in Drone /\ (Votes(c, b) > Votes(c, c) \/ Votes(c, b) = Votes(c, c))
    BY <1>8, <2>1 DEF Leading, Electable
  <2> QED
    BY <1>1, <1>7, <2>1, <2>2
<1> QED
  BY <1>9, <1>10 DEF Winner

LEMMA TickActivates ==
  ASSUME TypeOK, NEW d \in Drone, Tick(d), ShouldActivate(d, rested'[d])
  PROVE  duty'[d].active
<1> DEFINE now == IF duty[d].active THEN Progressed(d) ELSE duty[d]
           exits == duty[d].active /\ ShouldExit(d, now)
           rest == IF exits THEN 0 ELSE rested[d]
           after == IF exits THEN OffDuty ELSE now
           next == IF ~after.active /\ ShouldActivate(d, rest) THEN Activated(d) ELSE after
<1>1. /\ duty' = [duty EXCEPT ![d] = next] /\ duty \in [Drone -> Duty]
      /\ rested' = [rested EXCEPT ![d] = rest] /\ rested \in [Drone -> Ages(Cooldown)]
  BY DEF Tick, TypeOK
<1>2. rest = rested'[d] /\ duty'[d] = next
  BY <1>1
<1>3. after.active \in BOOLEAN
  BY <1>1, ProgressedType, OffDutyType DEF Duty
<1>4. next.active
  <2>1. CASE after.active
    BY <2>1
  <2>2. CASE ~after.active
    BY <1>2, <2>2, ActivatedType
  <2> QED
    BY <2>1, <2>2
<1> QED
  BY <1>2, <1>4

LEMMA TickElection ==
  ASSUME VoteTimeout >= 2, IInv, EInv, NEW d \in Drone, Tick(d)
  PROVE  SplitLong' /\ WonLong' /\ Serving'
<1>1. /\ TypeOK /\ NewsInv /\ d \in due /\ due' = due \ {d} /\ UNCHANGED <<link, steady>>
      /\ steady \in Nat
  BY TicksFacts DEF IInv, EInv, Tick, IsNext
<1>2. /\ \A e \in Drone \ {d} : LastAge(e)' = LastAge(e)
      /\ \A e \in Drone : LastAge(e) \in {0, 1} /\ LastAge(e)' \in {0, 1}
      /\ LastAge(d) = 1 /\ LastAge(d)' = 0
      /\ \A c \in Drone, B \in SUBSET Drone : Majority(c, B)' = Majority(c, B)
  BY <1>1 DEF LastAge, Majority, Neighbours
<1>3. /\ split \in [Drone -> Ages(Trigger)] /\ winning \in [Drone -> Ages(Settled)]
      /\ \A e, c \in Drone : favour[e][c] \in Nat /\ favour'[e][c] \in Nat
      /\ \A e \in Drone \ {d}, c \in Drone : favour'[e][c] = favour[e][c]
      /\ \A c \in Drone : favour'[d][c] > 0 =>
           c = Proposed(d) /\ favour'[d][c] <= favour[d][c] + 1
  BY <1>1, TickFavour, RoundFacts DEF TypeOK
<1>4. /\ split'[d] = SplitNow(d) /\ winner'[d] = Winner(d) /\ winning'[d] = WinningNow(d)
      /\ \A x \in Drone \ {d} :
           /\ split'[x] = split[x] /\ winner'[x] = winner[x] /\ winning'[x] = winning[x]
           /\ duty'[x] = duty[x] /\ rested'[x] = rested[x]
  BY <1>1, TickDuty DEF Tick, TypeOK
<1>5. SplitLong'
  <2>1. SUFFICES ASSUME NEW x \in Drone, NEW c \in Drone, NEW n \in 0 .. Trigger,
                        favour'[x][c] > n
                 PROVE  split'[x] >= n + LastAge(x)'
    BY DEF SplitLong
  <2>2. CASE x # d
    BY <1>2, <1>3, <1>4, <2>1, <2>2 DEF EInv, SplitLong
  <2>3. CASE x = d
    <3>1. c = Proposed(d) /\ favour[d][c] >= n /\ favour[d][c] \in Nat
      BY <1>3, <2>1, <2>3
    <3>2. StalePeers(d) # {}
      BY <3>1, NothingFacts DEF Proposed, ViewValid
    <3>3. split[d] \in Ages(Trigger) /\ SplitNow(d) = IF split[d] = Unset THEN 0 ELSE split[d]
      BY <1>3, <3>2 DEF SplitNow
    <3>4. CASE n = 0
      BY <1>2, <1>4, <2>3, <3>3, <3>4 DEF Ages, Unset
    <3>5. CASE n > 0
      <4>1. n - 1 \in 0 .. Trigger /\ favour[d][c] > n - 1
        BY <3>1, <3>5, TimesAssumption
      <4>2. split[d] >= n - 1 + LastAge(d)
        BY <4>1 DEF EInv, SplitLong
      <4>3. split[d] >= n
        BY <1>2, <4>2
      <4> QED
        BY <1>2, <1>4, <2>3, <3>3, <3>5, <4>3 DEF Unset
    <3> QED
      BY <3>4, <3>5
  <2> QED
    BY <2>2, <2>3
\* What the majority has done since is enough for before, too.
<1>6. ASSUME NEW c \in Drone \ {d}, NEW B \in SUBSET Drone, NEW n \in 0 .. Persist,
             Carried(c, B, n)'
      PROVE  Carried(c, B, n)
  <2>1. ASSUME NEW e \in B PROVE favour[e][c] >= n + 3 + LastAge(c) - LastAge(e)
    <3>1. favour'[e][c] >= n + 3 + LastAge(c)' - LastAge(e)' /\ e \in Drone
      BY <1>6 DEF Carried
    <3>2. CASE e # d
      BY <1>2, <1>3, <3>1, <3>2
    <3>3. CASE e = d
      <4>1. favour'[d][c] >= n + 3 + LastAge(c)
        BY <1>2, <3>1, <3>3
      <4> QED
        BY <1>2, <1>3, <3>3, <4>1
    <3> QED
      BY <3>2, <3>3
  <2>2. steady >= VoteTimeout + n + LastAge(c)
    BY <1>1, <1>2, <1>6 DEF Carried
  <2>3. Majority(c, B)
    BY <1>2, <1>6 DEF Carried
  <2> QED
    BY <2>1, <2>2, <2>3 DEF Carried
<1>7. ASSUME NEW B \in SUBSET Drone, NEW n \in 0 .. Persist, Carried(d, B, n)'
      PROVE  /\ Winner(d) = d /\ Proposed(d) = d
             /\ winning'[d] >= n /\ winning'[d] # Unset
  <2>1. Majority(d, B) /\ steady >= VoteTimeout + n
    <3>1. Majority(d, B)' /\ steady >= VoteTimeout + n + LastAge(d)'
      BY <1>1, <1>7 DEF Carried
    <3> QED
      BY <1>1, <1>2, <3>1, TimesAssumption
  <2>2. \A e \in B \ {d} : favour[e][d] >= n + 3 - LastAge(e)
    <3>1. \A e \in B \ {d} : favour'[e][d] >= n + 3 + 0 - LastAge(e)'
      BY <1>2, <1>7 DEF Carried
    <3> QED
      BY <1>2, <1>3, <3>1
  <2>3. favour'[d][d] >= n + 3 /\ Proposed(d) = d /\ favour[d][d] >= n + 2
    <3>1. favour'[d][d] >= n + 3 + LastAge(d)' - LastAge(d)'
      BY <1>7 DEF Carried, Majority
    <3>2. favour'[d][d] >= n + 3
      BY <1>2, <3>1
    <3> QED
      BY <1>3, <3>2
  <2>4. Winner(d) = d
    <3>1. \A e \in B \ {d} : favour[e][d] >= 2
      BY <1>2, <1>3, <2>2
    <3>2. steady >= VoteTimeout
      BY <1>1, <2>1, TimesAssumption
    <3> QED
      BY <1>1, <2>1, <2>3, <3>1, <3>2, MajorityWins
  <2>5. winning[d] \in Ages(Settled) /\ (winner[d] = d => winning[d] # Unset)
    BY <1>1, <1>3, NothingFacts DEF NewsInv, Dated
  <2>6. n > 0 => winner[d] = d /\ winning[d] >= n
    <3>1. SUFFICES ASSUME n > 0 PROVE winner[d] = d /\ winning[d] >= n
      OBVIOUS
    <3>2. n - 1 \in 0 .. Persist
      BY <3>1, TimesAssumption
    <3>3. \A e \in B : favour[e][d] >= (n - 1) + 3 + 1 - LastAge(e)
      <4>1. \A e \in B \ {d} : favour[e][d] >= (n - 1) + 3 + 1 - LastAge(e)
        BY <1>2, <2>2
      <4>2. favour[d][d] >= (n - 1) + 3 + 1 - LastAge(d)
        BY <1>2, <2>3
      <4> QED
        BY <4>1, <4>2
    <3>4. Carried(d, B, n - 1)
      <4>1. steady >= VoteTimeout + (n - 1) + 1
        BY <1>1, <2>1, TimesAssumption
      <4> QED
        BY <1>2, <2>1, <3>3, <4>1 DEF Carried
    <3>5. winner[d] = d /\ winning[d] >= n - 1 + LastAge(d)
      BY <3>2, <3>4 DEF EInv, WonLong
    <3> QED
      BY <1>2, <3>5
  <2>7. winning'[d] = IF winner[d] = d THEN winning[d] ELSE 0
    BY <1>4, <2>4 DEF WinningNow
  <2>8. winning'[d] >= n /\ winning'[d] # Unset
    BY <2>5, <2>6, <2>7 DEF Ages, Unset
  <2> QED
    BY <2>3, <2>4, <2>8
<1>8. WonLong'
  <2>1. SUFFICES ASSUME NEW c \in Drone, NEW B \in SUBSET Drone, NEW n \in 0 .. Persist,
                        Carried(c, B, n)'
                 PROVE  winner'[c] = c /\ winning'[c] >= n + LastAge(c)'
    BY DEF WonLong
  <2>2. CASE c = d
    <3>1. winner'[d] = d /\ winning'[d] >= n
      BY <1>4, <1>7, <2>1, <2>2
    <3> QED
      BY <1>2, <2>2, <3>1
  <2>3. CASE c # d
    <3>1. Carried(c, B, n)
      BY <1>6, <2>1, <2>3
    <3>2. winner[c] = c /\ winning[c] >= n + LastAge(c)
      BY <3>1 DEF EInv, WonLong
    <3> QED
      BY <1>2, <1>4, <2>3, <3>2
  <2> QED
    BY <2>2, <2>3
<1>9. Serving'
  <2>1. SUFFICES ASSUME NEW c \in Drone, NEW B \in SUBSET Drone, Carried(c, B, Persist)',
                        favour'[c][c] > Trigger,
                        rested'[c] = Unset \/ rested'[c] >= Cooldown + LastAge(c)'
                 PROVE  duty'[c].active
    BY DEF Serving
  <2>2. Persist \in 0 .. Persist /\ Trigger \in 0 .. Trigger
    BY TimesAssumption
  <2>3. CASE c # d
    <3>1. Carried(c, B, Persist)
      BY <1>6, <2>1, <2>2, <2>3
    <3>2. favour[c][c] > Trigger /\ (rested[c] = Unset \/ rested[c] >= Cooldown + LastAge(c))
      BY <1>2, <1>3, <1>4, <2>1, <2>3
    <3> QED
      BY <1>4, <2>3, <3>1, <3>2 DEF EInv, Serving
  <2>4. CASE c = d
    <3>1. /\ Winner(d) = d /\ Proposed(d) = d
          /\ WinningNow(d) >= Persist /\ WinningNow(d) # Unset
      BY <1>4, <1>7, <2>1, <2>2, <2>4
    <3>2. ViewValid(d)
      BY <3>1, NothingFacts DEF Proposed
    <3>3. SplitNow(d) >= Trigger /\ SplitNow(d) # Unset
      <4>1. split'[d] >= Trigger + LastAge(d)'
        BY <1>5, <2>1, <2>2, <2>4 DEF SplitLong
      <4> QED
        BY <1>2, <1>4, <4>1, TimesAssumption DEF Unset
    <3>4. rested'[d] = Unset \/ rested'[d] >= Cooldown
      BY <1>2, <2>1, <2>4, TimesAssumption
    <3>5. ShouldActivate(d, rested'[d])
      BY <3>1, <3>2, <3>3, <3>4 DEF ShouldActivate, Reached
    <3> QED
      BY <1>1, <2>4, <3>5, TickActivates
  <2> QED
    BY <2>3, <2>4
<1> QED
  BY <1>5, <1>8, <1>9

LEMMA PassElection ==
  ASSUME VoteTimeout >= 2, IInv, EInv, Pass
  PROVE  SplitLong' /\ WonLong' /\ Serving'
<1>1. TypeOK /\ UNCHANGED <<link, winner, favour>>
  BY DEF IInv, Pass
<1>2. /\ \A e \in Drone : LastAge(e)' = 1 /\ LastAge(e) = 0
      /\ steady \in Nat /\ steady' \in Nat /\ steady' <= steady + 1
      /\ \A c \in Drone, B \in SUBSET Drone : Majority(c, B)' = Majority(c, B)
  BY <1>1, PassTicks DEF Majority, Neighbours
<1>3. \A d \in Drone :
        /\ split'[d] = Aged(split[d], Trigger) /\ split[d] \in Ages(Trigger)
        /\ winning'[d] = Aged(winning[d], Settled) /\ winning[d] \in Ages(Settled)
        /\ rested'[d] = Aged(rested[d], Cooldown) /\ rested[d] \in Ages(Cooldown)
        /\ duty'[d].active = duty[d].active
  <2>1. \A d \in Drone :
          /\ split'[d] = Aged(split[d], Trigger) /\ winning'[d] = Aged(winning[d], Settled)
          /\ rested'[d] = Aged(rested[d], Cooldown)
    BY DEF Pass
  <2>2. ASSUME NEW d \in Drone PROVE duty'[d].active = duty[d].active
    <3>1. /\ duty'[d] = IF ~duty[d].active THEN duty[d]
                        ELSE [duty[d] EXCEPT !.held = Aged(duty[d].held, Term),
                                             !.idle = Aged(duty[d].idle, Term)]
          /\ duty[d] \in Duty
      BY <1>1 DEF Pass, TypeOK
    <3> QED
      BY <3>1 DEF Duty
  <2> QED
    BY <1>1, <2>1, <2>2 DEF TypeOK
<1>4. SplitLong'
  <2>1. SUFFICES ASSUME NEW d \in Drone, NEW c \in Drone, NEW n \in 0 .. Trigger,
                        favour[d][c] > n
                 PROVE  Aged(split[d], Trigger) >= n + 1
    BY <1>1, <1>2, <1>3 DEF SplitLong
  <2>2. split[d] >= n
    BY <1>2, <1>3, <2>1 DEF EInv, SplitLong, Ages
  <2> QED
    BY <1>3, <2>2, TimesAssumption DEF Aged, Ages, Unset
<1>5. ASSUME NEW c \in Drone, NEW B \in SUBSET Drone, NEW n \in 0 .. Persist,
             Carried(c, B, n)'
      PROVE  Carried(c, B, n)
  <2>1. \A e \in B : favour[e][c] >= n + 3 + LastAge(c) - LastAge(e)
    <3>1. \A e \in B : favour[e][c] >= n + 3 + LastAge(c)' - LastAge(e)'
      BY <1>1, <1>5 DEF Carried
    <3> QED
      BY <1>2, <3>1
  <2>2. steady >= VoteTimeout + n + LastAge(c)
    BY <1>2, <1>5, TimesAssumption DEF Carried
  <2> QED
    BY <1>2, <1>5, <2>1, <2>2 DEF Carried
<1>6. WonLong'
  <2>1. SUFFICES ASSUME NEW c \in Drone, NEW B \in SUBSET Drone, NEW n \in 0 .. Persist,
                        Carried(c, B, n)'
                 PROVE  winner[c] = c /\ Aged(winning[c], Settled) >= n + 1
    BY <1>1, <1>2, <1>3 DEF WonLong
  <2>2. winner[c] = c /\ winning[c] >= n
    BY <1>2, <1>3, <1>5, <2>1 DEF EInv, WonLong, Ages
  <2> QED
    BY <1>3, <2>2, RoundFacts, TimesAssumption DEF Aged, Ages, Unset
<1>7. Serving'
  <2>1. SUFFICES ASSUME NEW c \in Drone, NEW B \in SUBSET Drone, Carried(c, B, Persist)',
                        favour[c][c] > Trigger,
                        Aged(rested[c], Cooldown) = Unset
                          \/ Aged(rested[c], Cooldown) >= Cooldown + 1
                 PROVE  duty[c].active
    BY <1>1, <1>2, <1>3 DEF Serving
  <2>2. rested[c] = Unset \/ rested[c] >= Cooldown + LastAge(c)
    BY <1>2, <1>3, <2>1, TimesAssumption DEF Aged, Ages, Unset
  <2>3. Carried(c, B, Persist)
    BY <1>5, <2>1, TimesAssumption
  <2> QED
    BY <2>1, <2>2, <2>3 DEF EInv, Serving
<1> QED
  BY <1>4, <1>6, <1>7

\* After a move nothing is said of a majority, for a while.
LEMMA MoveElection == VoteTimeout >= 2 /\ EInv /\ Move => SplitLong' /\ WonLong' /\ Serving'
<1> SUFFICES ASSUME VoteTimeout >= 2, EInv, Move PROVE SplitLong' /\ WonLong' /\ Serving'
  OBVIOUS
<1>1. steady' = 0 /\ UNCHANGED <<due, favour, split>>
  BY DEF Move
<1>2. SplitLong'
  BY <1>1 DEF EInv, SplitLong, LastAge
<1>3. ASSUME NEW c \in Drone, NEW B \in SUBSET Drone, NEW n \in Nat, Carried(c, B, n)'
      PROVE  FALSE
  <2>1. 0 >= VoteTimeout + n + LastAge(c)' /\ LastAge(c)' \in {0, 1}
    BY <1>1, <1>3 DEF Carried, LastAge
  <2> QED
    BY <2>1, TimesAssumption
<1>4. WonLong'
  BY <1>3 DEF WonLong
<1>5. Serving'
  BY <1>3, TimesAssumption DEF Serving
<1> QED
  BY <1>2, <1>4, <1>5

\* Nothing else touches what the election rests on.
LEMMA OtherElection ==
  ASSUME EInv, UNCHANGED <<link, due, split, winner, winning, duty, rested, steady, favour>>
  PROVE  SplitLong' /\ WonLong' /\ Serving'
<1>1. \A e \in Drone : LastAge(e)' = LastAge(e)
  BY DEF LastAge
<1>2. \A c \in Drone, B \in SUBSET Drone, n \in Nat : Carried(c, B, n)' = Carried(c, B, n)
  BY DEF Carried, Majority, Neighbours, LastAge
<1>3. SplitLong'
  BY <1>1 DEF EInv, SplitLong
<1>4. WonLong'
  BY <1>1, <1>2 DEF EInv, WonLong
<1>5. Serving'
  BY <1>1, <1>2, TimesAssumption DEF EInv, Serving
<1> QED
  BY <1>3, <1>4, <1>5

LEMMA SameNews ==
  ASSUME NewsInv, UNCHANGED <<link, due, air, heard, winner, winning, steady, favour>>
  PROVE  NewsInv'
<1>1. /\ \A e \in Drone : Ticks(e)' = Ticks(e) /\ LastAge(e)' = LastAge(e)
      /\ \A e, d \in Drone : Received(e, d)' = Received(e, d)
      /\ \A d, e \in Drone : Linked(d, e)' = Linked(d, e) /\ Parted(d, e)' = Parted(d, e)
  BY DEF Ticks, LastAge, Received, Linked, Parted
<1>2. OfOldPeriod' /\ Dated'
  BY DEF NewsInv, OfOldPeriod, Dated
<1>3. Silence' /\ InTouch'
  BY <1>1 DEF NewsInv, Silence, InTouch
<1>4. Faithful'
  BY <1>1 DEF NewsInv, Faithful
<1> QED
  BY <1>2, <1>3, <1>4 DEF NewsInv

LEMMA InitElection ==
  ASSUME VoteTimeout >= 2, Init
  PROVE  EInv
<1>1. /\ steady = 0 /\ \A e, c \in Drone : favour[e][c] = 0
      /\ \A c \in Drone : LastAge(c) = 1
  BY DEF Init, LastAge
<1>2. \A c \in Drone, B \in SUBSET Drone, n \in Nat : ~Carried(c, B, n)
  BY <1>1, TimesAssumption DEF Carried
<1>3. SplitLong
  BY <1>1 DEF SplitLong
<1> QED
  BY <1>2, <1>3, InitNews, TimesAssumption DEF EInv, WonLong, Serving

LEMMA StepElection ==
  ASSUME VoteTimeout >= 2, IInv, EInv, [Next]_vars
  PROVE  EInv'
<1>1. ASSUME NEW d \in Drone, Tick(d) PROVE EInv'
  BY <1>1, TickNews, TickElection DEF EInv
<1>2. ASSUME NEW e \in Drone, NEW d \in Drone, Deliver(e, d) PROVE EInv'
  <2>1. UNCHANGED <<link, due, split, winner, winning, duty, rested, steady, favour>>
    BY <1>2 DEF Deliver
  <2> QED
    BY <1>2, <2>1, DeliverNews, OtherElection DEF EInv
<1>3. CASE \/ \E d \in Drone : Reconsider(d)
           \/ UNCHANGED vars
  <2>1. /\ UNCHANGED <<link, due, air, heard, split, winner, winning, duty, rested>>
        /\ UNCHANGED <<steady, favour>>
    BY <1>3 DEF Reconsider, vars
  <2> QED
    BY <2>1, SameNews, OtherElection DEF EInv
<1>4. CASE Move
  BY <1>4, MoveNews, MoveElection DEF EInv
<1>5. CASE Pass
  BY <1>5, PassNews, PassElection DEF EInv
<1> QED
  BY <1>1, <1>2, <1>3, <1>4, <1>5 DEF Next

\* The drones that have proposed c for Rounds ticks have carried it long enough.
LEMMA ElectionElects == IInv /\ EInv => Elected
<1> SUFFICES ASSUME IInv, EInv, NEW c \in Drone \ due,
                    c \in Backers(c), Cardinality(Backers(c)) >= MinVotes,
                    2 * Cardinality(Backers(c)) > Cardinality(Neighbours(c)) + 1,
                    steady >= ElectBy, rested[c] = Unset \/ rested[c] >= Cooldown
             PROVE  c \in OnDuty
  BY DEF Elected
<1>1. /\ LastAge(c) = 0 /\ \A e \in Drone : LastAge(e) \in {0, 1}
  BY DEF LastAge
<1>2. /\ Backers(c) \in SUBSET Drone /\ Majority(c, Backers(c))
  BY DEF Backers, Neighbours, Majority
<1>3. \A e \in Backers(c) : favour[e][c] >= Rounds /\ favour[e][c] \in Nat
  BY <1>2, RoundFacts DEF Backers, IInv, TypeOK
<1>4. Carried(c, Backers(c), Persist)
  <2>1. steady >= VoteTimeout + Persist + LastAge(c)
    BY <1>1, RoundFacts, TimesAssumption
  <2>2. \A e \in Backers(c) : favour[e][c] >= Persist + 3 + LastAge(c) - LastAge(e)
    BY <1>1, <1>2, <1>3, RoundFacts, TimesAssumption
  <2> QED
    BY <1>2, <2>1, <2>2 DEF Carried
<1>5. favour[c][c] > Trigger
  BY <1>3, RoundFacts, TimesAssumption
<1>6. rested[c] = Unset \/ rested[c] >= Cooldown + LastAge(c)
  BY <1>1, TimesAssumption
<1>7. duty[c].active
  BY <1>2, <1>4, <1>5, <1>6 DEF EInv, Serving
<1> QED
  BY <1>7 DEF OnDuty

-----------------------------------------------------------------------------
(* The theorems.                                                           *)

\* Every reachable state satisfies the inductive invariant: messages and cache
\* entries are as old as their stamps say, and a relay that has just ticked has
\* a period left.
THEOREM Invariance == Spec => []IInv
<1> QED
  BY InitIInv, StepIInv, PTL DEF Spec

\* The types of a controller's caches, clocks and duty (the members of
\* RacerLocalRelayControllerNode).
THEOREM TypeCorrect == Spec => []TypeOK
<1>1. IInv => TypeOK
  BY DEF IInv
<1> QED
  BY <1>1, Invariance, PTL

\* shouldExitRelay ends every duty in time, whoever wins and whatever is heard.
THEOREM DutyBounded == Spec => []BoundedDuty
<1>1. IInv => BoundedDuty
  BY DEF IInv
<1> QED
  BY <1>1, Invariance, PTL

\* Who goes on duty was proposed by enough drones, lately enough.
THEOREM DutyBacked == Spec => Backed
<1>1. IInv /\ [Next]_vars =>
        [\A d \in Drone : ~duty[d].active /\ duty'[d].active =>
           Cardinality({e \in Drone : nominated'[e][d] <= VoteTimeout}) >= MinVotes]_vars
  BY StepBacked
<1> QED
  BY <1>1, Invariance, PTL DEF Spec, Backed

\* What a lasting majority of those in reach proposes comes about, each controller
\* deciding by its own caches, opinions and clocks (tick, selectWinningProposal,
\* updateWinnerHistory).  A proposal may be two periods old when it is read, and
\* must still count.
THEOREM MajorityElected ==
  ASSUME VoteTimeout >= 2
  PROVE  Spec => []Elected
<1>1. Init => IInv /\ EInv
  BY InitIInv, InitElection
<1>2. (IInv /\ EInv) /\ [Next]_vars => (IInv /\ EInv)'
  BY StepIInv, StepElection
<1>3. IInv /\ EInv => Elected
  BY ElectionElects
<1> QED
  BY <1>1, <1>2, <1>3, PTL DEF Spec
=============================================================================
