---------------------------- MODULE RelayElection ----------------------------
(***************************************************************************)
(* The distributed relay election: every drone's local relay controller.   *)
(*                                                                         *)
(* At each period a controller decides from what it has heard who is still *)
(* in touch, who was lost lately and who of its side should bridge the     *)
(* gap; it publishes that proposal, counts the proposals it holds and goes *)
(* on or off duty if they name it or somebody else for long enough.  No    *)
(* drone decides for another: all they share is last period's proposals.   *)
(* What they propose rests on each one's own caches and its own idea of    *)
(* where the relay should stand, so that two may see it differently.       *)
(*                                                                         *)
(* A unit of time is a control period: in each one every controller ticks  *)
(* once.  Timers of one period keep their phases, so the order is that of  *)
(* Phase.  The peer state, the proposal and the task state a drone         *)
(* publishes in a period travel as one message, which has arrived by the   *)
(* time the drone publishes the next one; it is handed over before a tick  *)
(* of the receiver, as nothing else reads what was received.  A message    *)
(* lost is a link that was down for a period.                              *)
(* A time is held as the age it has, and ages stop just above what they    *)
(* are compared with.                                                      *)
(***************************************************************************)
EXTENDS Integers, FiniteSets, FiniteSetsExt

CONSTANTS
  Drone,        \* drone_ids_, the same list in every controller
  Phase,        \* when in the period each drone's timer fires
  Radio,        \* what Move chooses from: sets of links
  Opinions,     \* what a controller may make of the others, and of itself
  MaxChanges,   \* bound on the changes of links and opinions
  Fresh,        \* peer_state_fresh_timeout_sec
  Retention,    \* peer_state_stale_retention_sec
  VoteTimeout,  \* proposal_timeout_sec
  Grace,        \* relay_startup_grace_period
  Trigger,      \* relay_trigger_persist_time
  Persist,      \* relay_winner_persist_time
  Recover,      \* relay_recover_time
  MinHold,      \* relay_min_hold_time
  Cooldown,     \* relay_reenter_cooldown
  NoImprove,    \* relay_no_improvement_timeout
  MaxActive,    \* relay_max_active_duration
  Handoff,      \* relay_handoff_persist_time
  Margin,       \* relay_handoff_min_vote_margin
  MinVotes,     \* relay_activation_min_votes
  MinStale,     \* relay_activation_min_stale_count
  MinSide       \* relay_balanced_min_component_size

ASSUME DroneAssumption == Drone \subseteq Nat \ {0} /\ IsFiniteSet(Drone)
ASSUME PhaseAssumption == Phase \in [Drone -> Nat]
ASSUME RadioAssumption == Radio \subseteq SUBSET SUBSET Drone
ASSUME OpinionsAssumption ==
  Opinions \subseteq [score : [Drone -> Nat],
                     task : [Drone -> {"spare", "busy", "untold"}], apart : BOOLEAN]
ASSUME TimesAssumption ==
  /\ Fresh \in Nat /\ Retention \in Nat \ {0} /\ VoteTimeout \in Nat
  /\ Grace \in Nat /\ Trigger \in Nat /\ Persist \in Nat /\ Recover \in Nat
  /\ MinHold \in Nat /\ Cooldown \in Nat /\ NoImprove \in Nat /\ MaxActive \in Nat
  /\ Handoff \in Nat /\ Margin \in Nat
  /\ MinVotes \in Nat \ {0} /\ MinStale \in Nat /\ MinSide \in Nat
  /\ MaxChanges \in Nat
  /\ Fresh <= VoteTimeout /\ VoteTimeout <= Retention

VARIABLES
  link,       \* the pairs of drones that hear each other
  opinion,    \* opinion[d]: how d's caches, anchor and clock rate each drone, what
              \* task state of it they hold, and whether the two sides fly apart
  changes,    \* of links and opinions so far
  due,        \* the drones whose tick of this period is still to come
  air,        \* air[e][d]: e's last message on its way to d
  heard,      \* heard[d][e]: peer_cache_, proposal_cache_, peer_task_cache_ of d
  up,         \* age of first_tick_time_, up to the grace period
  split,      \* age of fragmented_since_, or Unset
  whole,      \* age of connected_since_, or Unset
  winner,     \* stable_winner_id_ ...
  winning,    \* ... and the age of stable_winner_since_
  duty,       \* relay_active_ and what the controller keeps about the duty
  rested,     \* age of relay_exit_time_, or Unset
  steady,     \* not in the code: periods since the links last changed
  nominated,  \* not in the code: age of e's last proposal of c
  favour      \* not in the code: ticks that e has proposed c without a break

vars == <<link, opinion, changes, due, air, heard, up, split, whole, winner,
          winning, duty, rested, steady, nominated, favour>>

-----------------------------------------------------------------------------
Unset == -1
NoOne == 0
Gone == Retention + 1       \* the age of what the caches no longer hold
Lapsed == VoteTimeout + 1   \* the age of a proposal that counts no more

Ages(limit) == -1 .. limit + 1
Aged(age, limit) == IF age = Unset \/ age > limit THEN age ELSE age + 1
Reached(age, limit) == age # Unset /\ age >= limit

Larger(m, n) == IF m >= n THEN m ELSE n
Tenure == Larger(MinHold, MaxActive)
Term == Larger(Tenure, NoImprove)
Settled == Larger(Persist, Handoff)

\* Ticks of the same proposals after which the majority's drone is on duty, and the
\* periods until old votes are out of the way and it has won for long enough.
Rounds == Larger(Persist + 2, Trigger) + 1
ElectBy == VoteTimeout + Persist

Message == [age : 0 .. Gone, cand : Drone \cup {NoOne}, score : Nat, relay : BOOLEAN]
Nothing == [age |-> Gone, cand |-> NoOne, score |-> 0, relay |-> FALSE]

\* OffDuty is what deactivateRelay resets; most stands for numeric_limits::max().
Duty == [active : BOOLEAN, held : 0 .. Term + 1, idle : 0 .. Term + 1,
         stale : 0 .. Cardinality(Drone), fresh : 0 .. Cardinality(Drone),
         support : 0 .. Cardinality(Drone)]
OffDuty == [active |-> FALSE, held |-> 0, idle |-> 0, stale |-> Cardinality(Drone),
            fresh |-> 0, support |-> 0]

Together == \A d, e \in Drone : d # e => {d, e} \in link

\* The drones start side by side.
Init ==
  /\ link \in Radio /\ Together /\ steady = 0
  /\ opinion \in [Drone -> Opinions]
  /\ changes = 0
  /\ due = Drone
  /\ air = [e \in Drone |-> [d \in Drone |-> Nothing]]
  /\ heard = [d \in Drone |-> [e \in Drone |-> Nothing]]
  /\ up = [d \in Drone |-> 0]
  /\ split = [d \in Drone |-> Unset] /\ whole = [d \in Drone |-> Unset]
  /\ winner = [d \in Drone |-> NoOne] /\ winning = [d \in Drone |-> Unset]
  /\ duty = [d \in Drone |-> OffDuty] /\ rested = [d \in Drone |-> Unset]
  /\ nominated = [e \in Drone |-> [c \in Drone |-> Lapsed]]
  /\ favour = [e \in Drone |-> [c \in Drone |-> 0]]

-----------------------------------------------------------------------------
(* What a controller makes of its caches. *)

FreshPeers(d) == {e \in Drone \ {d} : heard[d][e].age <= Fresh}
StalePeers(d) == {e \in Drone \ {d} : heard[d][e].age \in Fresh + 1 .. Retention}

\* shouldCoordinateLocalSide: the side with the smallest id acts for both.
Coordinates(d) ==
  \E l \in FreshPeers(d) \cup {d} : \A r \in StalePeers(d) : l <= r

\* shouldSuppressBalancedSplit: two sides of a size that fly apart need no relay.
Balanced(d) ==
  /\ opinion[d].apart
  /\ Cardinality(FreshPeers(d) \cup {d}) >= MinSide
  /\ Cardinality(StalePeers(d)) >= MinSide

IsRelay(d, c) == IF c = d THEN duty[d].active ELSE heard[d][c].relay

\* computeCandidateScore refuses a drone if d holds a task state of it that is fresh
\* and says it is a relay, not assignable, or successful of late with more than one
\* grid.  Of a drone that d has no such state of, it takes no notice of these.
Candidates(d) ==
  {c \in FreshPeers(d) \cup {d} :
     \/ opinion[d].task[c] = "untold"
     \/ opinion[d].task[c] = "spare" /\ ~IsRelay(d, c)}

\* computeBestCandidate: the lowest score, then the lowest id; at most one.
Preferred(d) ==
  {c \in Candidates(d) : \A b \in Candidates(d) :
     \/ opinion[d].score[c] < opinion[d].score[b]
     \/ opinion[d].score[c] = opinion[d].score[b] /\ c <= b}

\* computeSelfProposal, its early returns in one condition.
ViewValid(d) ==
  /\ up[d] >= Grace
  /\ StalePeers(d) # {} /\ Cardinality(StalePeers(d)) >= MinStale
  /\ ~Balanced(d)
  /\ Coordinates(d)
  /\ Preferred(d) # {}

Proposed(d) == IF ViewValid(d) THEN CHOOSE c \in Preferred(d) : TRUE ELSE NoOne

\* Mutant: a proposal counts for as long as its sender is remembered.
VotersKept(d, c) ==
  {e \in Drone \ {d} : heard[d][e].cand = c /\ heard[d][e].age <= Retention}
    \cup {e \in {d} : Proposed(d) = c}

\* Mutant: a proposal as old as proposal_timeout_sec no longer counts.
VotersBefore(d, c) ==
  {e \in Drone \ {d} : heard[d][e].cand = c /\ heard[d][e].age < VoteTimeout}
    \cup {e \in {d} : Proposed(d) = c}

\* selectWinningProposal's aggregate of candidate c.
Voters(d, c) ==
  {e \in Drone \ {d} : heard[d][e].cand = c /\ heard[d][e].age <= VoteTimeout}
    \cup {e \in {d} : Proposed(d) = c}

Votes(d, c) == Cardinality(Voters(d, c))

\* The score that e gave its candidate.
ScoreOf(d, e) == IF e = d THEN opinion[d].score[Proposed(d)] ELSE heard[d][e].score

\* With the same votes the lower sum is the lower average.
Total(d, c) == MapThenSumSet(LAMBDA e : ScoreOf(d, e), Voters(d, c))

Electable(d) == {c \in Drone : Votes(d, c) >= MinVotes}

\* selectWinningProposal: most votes, then the best score, then the lowest id;
\* at most one.
Leading(d) ==
  {c \in Electable(d) : \A b \in Electable(d) :
     \/ Votes(d, c) > Votes(d, b)
     \/ Votes(d, c) = Votes(d, b) /\ Total(d, c) < Total(d, b)
     \/ Votes(d, c) = Votes(d, b) /\ Total(d, c) = Total(d, b) /\ c <= b}

Winner(d) == IF Leading(d) = {} THEN NoOne ELSE CHOOSE c \in Leading(d) : TRUE

-----------------------------------------------------------------------------
(* The parts of a tick, in the order the code takes them.  Each says what   *)
(* the tick makes of one thing the controller keeps.                        *)

\* Mutant: only what was never filled in is dropped.
PrunedNot(m) == m
Pruned(m) == IF m.age > Retention THEN Nothing ELSE m

\* updateFragmentationState
SplitNow(d) == IF StalePeers(d) = {} THEN Unset ELSE IF split[d] = Unset THEN 0 ELSE split[d]
WholeNow(d) == IF StalePeers(d) # {} THEN Unset ELSE IF whole[d] = Unset THEN 0 ELSE whole[d]

\* updateWinnerHistory
WinningNow(d) == IF Winner(d) = winner[d] THEN winning[d] ELSE 0

\* A relay counts its votes again only while it wins; noteRelayProgress.
Progressed(d) ==
  LET was == duty[d]
      stale == Cardinality(StalePeers(d))
      fresh == Cardinality(FreshPeers(d))
  IN  [active |-> was.active, held |-> was.held,
       idle |-> IF stale < was.stale \/ fresh > was.fresh THEN 0 ELSE was.idle,
       stale |-> IF stale < was.stale THEN stale ELSE was.stale,
       fresh |-> IF fresh > was.fresh THEN fresh ELSE was.fresh,
       support |-> IF Winner(d) = d THEN Votes(d, d) ELSE was.support]

\* shouldExitRelay, of the duty after noteRelayProgress.
Recovered(d) == StalePeers(d) = {} /\ Reached(WholeNow(d), Recover)
LostElection(d, now) ==
  /\ Winner(d) \notin {NoOne, d}
  /\ Reached(WinningNow(d), Handoff)
  /\ Votes(d, Winner(d)) >= Larger(1, now.support) + Margin
NoImprovement(d, now) ==
  /\ NoImprove > 0 /\ now.idle >= NoImprove
  /\ Cardinality(StalePeers(d)) >= now.stale

\* Mutant: a relay that others outvote waits for the hand-over, whatever else.
ShouldExitOutvoted(d, now) ==
  /\ now.held >= MinHold
  /\ IF Winner(d) \notin {NoOne, d} THEN LostElection(d, now)
     ELSE Recovered(d) \/ ~ViewValid(d) \/ NoImprovement(d, now)

\* Mutant: the view is looked at only where another drone has won.
ShouldExitForAnother(d, now) ==
  /\ now.held >= MinHold /\ Winner(d) \notin {NoOne, d}
  /\ ~ViewValid(d) \/ LostElection(d, now) \/ NoImprovement(d, now)

ShouldExit(d, now) ==
  /\ now.held >= MinHold
  /\ \/ Recovered(d)
     \/ ~ViewValid(d)
     \/ LostElection(d, now)
     \/ NoImprovement(d, now)
     \/ MaxActive > 0 /\ now.held >= MaxActive

ShouldActivate(d, rest) ==
  /\ ViewValid(d) /\ Winner(d) = d
  /\ Reached(SplitNow(d), Trigger)
  /\ Reached(WinningNow(d), Persist)
  /\ rest = Unset \/ rest >= Cooldown

Activated(d) ==
  [active |-> TRUE, held |-> 0, idle |-> 0, stale |-> Cardinality(StalePeers(d)),
   fresh |-> Cardinality(FreshPeers(d)), support |-> Votes(d, d)]

-----------------------------------------------------------------------------
\* peerStateCallback, proposalCallback, peerDroneStateCallback: the entry of the
\* sender is overwritten, and its age is that of the stamp in the header.
Received(e, d) == IF air[e][d] = Nothing THEN heard[d][e] ELSE air[e][d]

IsNext(d) == d \in due /\ \A e \in due : Phase[d] <= Phase[e]

Neighbours(d) == {e \in Drone \ {d} : {d, e} \in link}

\* What d publishes: its peer state and its proposal, and the task state its
\* planner publishes once it has the role command of this tick.
Published(d, relay) ==
  [age |-> 0, cand |-> Proposed(d),
   score |-> IF ViewValid(d) THEN opinion[d].score[Proposed(d)] ELSE 0, relay |-> relay]

Tick(d) ==
  /\ IsNext(d)
  /\ due' = due \ {d}
  /\ heard' = [r \in Drone |-> IF r = d THEN [e \in Drone |-> Pruned(heard[d][e])]
                              ELSE [heard[r] EXCEPT ![d] = Received(d, r)]]
  /\ split' = [split EXCEPT ![d] = SplitNow(d)]
  /\ whole' = [whole EXCEPT ![d] = WholeNow(d)]
  /\ winner' = [winner EXCEPT ![d] = Winner(d)]
  /\ winning' = [winning EXCEPT ![d] = WinningNow(d)]
  /\ LET now == IF duty[d].active THEN Progressed(d) ELSE duty[d]
         exits == duty[d].active /\ ShouldExit(d, now)
         rest == IF exits THEN 0 ELSE rested[d]
         after == IF exits THEN OffDuty ELSE now
     IN  /\ rested' = [rested EXCEPT ![d] = rest]
         /\ duty' = [duty EXCEPT ![d] =
                       IF ~after.active /\ ShouldActivate(d, rest) THEN Activated(d) ELSE after]
  /\ air' = [air EXCEPT ![d] = [e \in Drone |->
                IF e \in Neighbours(d) THEN Published(d, duty'[d].active) ELSE Nothing]]
  /\ nominated' = [nominated EXCEPT ![d] = [c \in Drone |->
                     IF c = Proposed(d) THEN 0 ELSE @[c]]]
  /\ favour' = [favour EXCEPT ![d] = [c \in Drone |->
                  IF c # Proposed(d) THEN 0 ELSE IF @[c] < Rounds THEN @[c] + 1 ELSE Rounds]]
  /\ UNCHANGED <<link, opinion, changes, up, steady>>

Deliver(e, d) ==
  /\ IsNext(d)
  /\ air[e][d] # Nothing
  /\ heard' = [heard EXCEPT ![d][e] = Received(e, d)]
  /\ air' = [air EXCEPT ![e][d] = Nothing]
  /\ UNCHANGED <<link, opinion, changes, due, up, split, whole, winner,
                 winning, duty, rested, steady, nominated, favour>>

\* d sees the others, or its own part, in another light: positions and velocities,
\* task states that come or are no longer fresh, penalties that fade with time, an
\* anchor that moves.  Nobody else need see the same.
Reconsider(d) ==
  /\ IsNext(d)
  /\ changes < MaxChanges
  /\ changes' = changes + 1
  /\ \E o \in Opinions \ {opinion[d]} : opinion' = [opinion EXCEPT ![d] = o]
  /\ UNCHANGED <<link, due, air, heard, up, split, whole, winner, winning,
                 duty, rested, steady, nominated, favour>>

\* The drones fly, the radio changes.
Move ==
  /\ due = Drone
  /\ changes < MaxChanges
  /\ changes' = changes + 1
  /\ link' \in Radio \ {link}
  /\ steady' = 0
  /\ UNCHANGED <<opinion, due, air, heard, up, split, whole, winner, winning,
                 duty, rested, nominated, favour>>

\* A period later.
Older(m) == IF m = Nothing THEN m ELSE [m EXCEPT !.age = @ + 1]

Pass ==
  /\ due = {}
  /\ due' = Drone
  /\ steady' = IF steady < ElectBy THEN steady + 1 ELSE ElectBy
  /\ air' = [e \in Drone |-> [d \in Drone |-> Older(air[e][d])]]
  /\ heard' = [d \in Drone |-> [e \in Drone |-> Older(heard[d][e])]]
  /\ up' = [d \in Drone |-> IF up[d] < Grace THEN up[d] + 1 ELSE Grace]
  /\ split' = [d \in Drone |-> Aged(split[d], Trigger)]
  /\ whole' = [d \in Drone |-> Aged(whole[d], Recover)]
  /\ winning' = [d \in Drone |-> Aged(winning[d], Settled)]
  /\ rested' = [d \in Drone |-> Aged(rested[d], Cooldown)]
  /\ duty' = [d \in Drone |-> IF ~duty[d].active THEN duty[d]
                ELSE [duty[d] EXCEPT !.held = Aged(@, Term), !.idle = Aged(@, Term)]]
  /\ nominated' = [e \in Drone |-> [c \in Drone |->
                     IF nominated[e][c] < Lapsed THEN nominated[e][c] + 1 ELSE Lapsed]]
  /\ UNCHANGED <<link, opinion, changes, winner, favour>>

Next ==
  \/ \E d \in Drone : Tick(d)
  \/ \E e, d \in Drone : Deliver(e, d)
  \/ \E d \in Drone : Reconsider(d)
  \/ Move
  \/ Pass

Spec == Init /\ [][Next]_vars

\* Every controller's timer goes on firing, and what is on its way arrives.
FairSpec == Spec /\ []<><<Pass>>_vars

-----------------------------------------------------------------------------
TypeOK ==
  /\ link \in Radio /\ opinion \in [Drone -> Opinions]
  /\ changes \in 0 .. MaxChanges /\ steady \in 0 .. ElectBy
  /\ due \subseteq Drone
  /\ air \in [Drone -> [Drone -> Message]]
  /\ heard \in [Drone -> [Drone -> Message]]
  /\ up \in [Drone -> 0 .. Grace]
  /\ split \in [Drone -> Ages(Trigger)] /\ whole \in [Drone -> Ages(Recover)]
  /\ winner \in [Drone -> Drone \cup {NoOne}] /\ winning \in [Drone -> Ages(Settled)]
  /\ duty \in [Drone -> Duty] /\ rested \in [Drone -> Ages(Cooldown)]
  /\ nominated \in [Drone -> [Drone -> 0 .. Lapsed]]
  /\ favour \in [Drone -> [Drone -> 0 .. Rounds]]

-----------------------------------------------------------------------------
OnDuty == {d \in Drone : duty[d].active}

\* A drone goes on duty only with the votes of relay_activation_min_votes drones
\* that proposed it within proposal_timeout_sec of their own decision, however
\* late their proposals came and whatever they propose since: votes are counted
\* from a cache, by the stamp of the sender (tick, selectWinningProposal).
Backed ==
  [][\A d \in Drone : ~duty[d].active /\ duty'[d].active =>
       Cardinality({e \in Drone : nominated'[e][d] <= VoteTimeout}) >= MinVotes]_vars

\* No duty outlasts relay_max_active_duration, and none goes on without progress
\* for longer than relay_no_improvement_timeout, but for the minimum hold:
\* shouldExitRelay has a way out at each tick, whoever wins meanwhile.
BoundedDuty ==
  \A d \in OnDuty :
    /\ MaxActive > 0 => duty[d].held <= Tenure
    /\ NoImprove > 0 => duty[d].idle <= Larger(NoImprove, MinHold)

\* The drones in c's reach, or c itself, that have gone on proposing c.
Backers(c) == {e \in Neighbours(c) \cup {c} : favour[e][c] >= Rounds}

\* What most of those in a drone's reach agree on comes about: a drone that proposes
\* itself, and that more than half of the drones it hears, itself counted, and
\* relay_activation_min_votes of them propose too, is on duty after Rounds ticks,
\* unless it has just left it.  Proposals come late, votes from before the split are
\* still in the caches, and the others may propose whom they like
\* (selectWinningProposal, updateWinnerHistory, shouldActivateRelay).
Elected ==
  \A c \in Drone \ due :
    /\ c \in Backers(c) /\ Cardinality(Backers(c)) >= MinVotes
    /\ 2 * Cardinality(Backers(c)) > Cardinality(Neighbours(c)) + 1
    /\ steady >= ElectBy
    /\ rested[c] = Unset \/ rested[c] >= Cooldown
    => c \in OnDuty

\* When all drones are in touch again for good, every relay goes back to work.
Reunited == <>[]Together => <>[](OnDuty = {})
=============================================================================
