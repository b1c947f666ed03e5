---------------------------- MODULE ChunkExchange ---------------------------
(***************************************************************************)
(* MultiMapManager (plan_env): the drones share their maps in chunks of    *)
(* voxels that became known.  Each drone numbers its own chunks from 1 and *)
(* tells the others every tenth of a second, as lists of intervals, which  *)
(* chunks of whose map it has; whoever hears that sends what is missing.   *)
(* Everything goes over the radio, which loses, delays and reorders: a     *)
(* chunk that is late is one that was lost here and sent once more, since  *)
(* its copies are all the same.                                            *)
(*                                                                         *)
(* A chunk is its owner and number: what it holds is fixed when its owner  *)
(* first sends it.                                                         *)
(***************************************************************************)
EXTENDS Integers, FiniteSets, SequencesExt

CONSTANTS
  Drone,          \* the drones that run
  MapNum,         \* drone_num, the length of the lists of every drone
  Link,           \* pairs of drones that hear each other
  Explorer,       \* the drones that see something new
  ChunkSize,      \* chunk_size: voxels in a chunk
  Batch,          \* how many voxels may become known at once
  MaxChunks,      \* bound on the chunks of a drone
  MaxStamping     \* bound on the drones whose stamps are on their way at a time

ASSUME DroneAssumption ==
  /\ MapNum \in Nat /\ Drone \subseteq 1..MapNum /\ Explorer \subseteq Drone
  /\ Link \subseteq SUBSET Drone
ASSUME SizeAssumption ==
  /\ ChunkSize \in Nat \ {0} /\ Batch \subseteq Nat
  /\ MaxChunks \in Nat /\ MaxStamping \in Nat \ {0}

VARIABLES
  up,         \* the process runs
  voxels,     \* adr_buffer_, its length
  filled,     \* multi_map_chunks_[..].chunks_: those that are not empty_
  idxList,    \* multi_map_chunks_[..].idx_list_, as a sequence of intervals
  buffer,     \* chunk_buffer_, with the keys of buffer_map_
  stamps      \* the ChunkStamps on their way, at most one on each link

vars == <<up, voxels, filled, idxList, buffer, stamps>>

-----------------------------------------------------------------------------
(* Lists of intervals.                                                     *)

Owner == 1..MapNum
Chunk == 1..MaxChunks

Interval == [lo : Nat, hi : Nat]
Single(n) == [lo |-> n, hi |-> n]
Ids(list) == UNION {list[j].lo .. list[j].hi : j \in 1..Len(list)}

Smaller(m, n) == IF m <= n THEN m ELSE n
Larger(m, n) == IF m <= n THEN n ELSE m

\* findIntersect
Meets(a, b) == Larger(a.lo, b.lo) <= Smaller(a.hi, b.hi)

\* Mutant: intervals that touch are joined only if they share a number.
JoinsShared(a, b) == a.hi >= b.lo

Joins(a, b) == a.hi >= b.lo - 1

\* An interval after the last of the output, or joined with it.
Joined(out, iv) ==
  IF out # <<>> /\ Joins(Last(out), iv)
  THEN Append(Front(out), [lo |-> Last(out).lo, hi |-> iv.hi])
  ELSE Append(out, iv)

\* Remove redundant idx: neighbours that overlap or touch become one.
Compact(list) ==
  LET out[n \in 0..Len(list)] == IF n = 0 THEN <<>> ELSE Joined(out[n-1], list[n])
  IN  out[Len(list)]

\* Mutant: what fits in a gap goes to the end.
InsertedLast(list, iv) ==
  IF \E j \in 1..Len(list) : Meets(list[j], iv)
  THEN [j \in 1..Len(list) |->
          IF Meets(list[j], iv)
          THEN [lo |-> Smaller(list[j].lo, iv.lo), hi |-> Larger(list[j].hi, iv.hi)]
          ELSE list[j]]
  ELSE Append(list, iv)

\* One interval of list2 into the output: all that it meets are widened, or it
\* goes to the front, to the end or into the gap it fits in.
Inserted(list, iv) ==
  IF \E j \in 1..Len(list) : Meets(list[j], iv)
  THEN [j \in 1..Len(list) |->
          IF Meets(list[j], iv)
          THEN [lo |-> Smaller(list[j].lo, iv.lo), hi |-> Larger(list[j].hi, iv.hi)]
          ELSE list[j]]
  ELSE LET before == {j \in 1..Len(list) : list[j].hi < iv.lo}
       IN  InsertAt(list, Cardinality(before) + 1, iv)

\* Mutant: the new list replaces the old one.
MergeNone(list1, list2) == IF list1 = <<>> THEN list2 ELSE list1

\* mergeChunkIds
Merge(list1, list2) ==
  LET out[n \in 0..Len(list2)] ==
        IF n = 0 THEN list1 ELSE Compact(Inserted(out[n-1], list2[n]))
  IN  IF list1 = <<>> THEN list2 ELSE out[Len(list2)]

\* The idx list of what is in a buffer (chunkTimerCallback): its numbers in
\* their order, each joined with the one before it.
ListOf(S) ==
  LET out[n \in 0..MaxChunks] ==
        IF n = 0 THEN <<>> ELSE IF n \in S THEN Joined(out[n-1], Single(n)) ELSE out[n-1]
  IN  out[MaxChunks]

Infinite == 2147483647

\* Mutant: the numbers before the first interval are forgotten.
GapsAfter(list) ==
  {[lo |-> list[j].hi + 1, hi |-> IF j = Len(list) THEN Infinite ELSE list[j+1].lo - 1] :
     j \in 1..Len(list)}

\* The numbers that are in no interval of a list (not_in_other).
Gaps(list) ==
  {[lo |-> IF j = 0 THEN 1 ELSE list[j].hi + 1,
    hi |-> IF j = Len(list) THEN Infinite ELSE list[j+1].lo - 1] : j \in 0..Len(list)}

\* findMissedChunkIds, as the set of numbers that sendChunks goes through.
Missed(mine, other) ==
  {n \in Ids(mine) : \E gap \in Gaps(other) : gap.lo <= n /\ n <= gap.hi}

-----------------------------------------------------------------------------
Init ==
  /\ up = [d \in Drone |-> TRUE]
  /\ voxels = [d \in Drone |-> 0]
  /\ filled = [d \in Drone |-> [o \in Owner |-> {}]]
  /\ idxList = [d \in Drone |-> [o \in Owner |-> <<>>]]
  /\ buffer = [d \in Drone |-> [o \in Owner |-> {}]]
  /\ stamps = {}

\* Mutant: one chunk at a time.
CutOne(n) == IF n > ChunkSize THEN 1 ELSE 0

\* How many chunks updateMapChunk makes of so many voxels: what is left may be
\* a whole chunk.
Cut(n) == IF n >= ChunkSize THEN (n - 1) \div ChunkSize ELSE 0

\* updateMapChunk: as many chunks as there are voxels for, and the list of the
\* drone's own chunks is set to the last of them.
Explore(d, n) ==
  LET known == filled[d][d]
      size  == voxels[d] + n
      last  == Cardinality(known) + Cut(size)
  IN  /\ up[d] /\ d \in Explorer
      /\ last > 0 \/ size < ChunkSize
      /\ last <= MaxChunks
      /\ filled' = [filled EXCEPT ![d][d] = known \cup 1..last]
      /\ idxList' =
           IF size < ChunkSize THEN idxList
           ELSE [idxList EXCEPT ![d][d] =
                   IF @ = <<>> THEN <<[lo |-> 1, hi |-> last]>>
                   ELSE Append(Front(@), [lo |-> Last(@).lo, hi |-> last])]
      /\ voxels' = [voxels EXCEPT ![d] = size - Cut(size) * ChunkSize]
      /\ UNCHANGED <<up, buffer, stamps>>

\* With just enough voxels for the first chunk none is made, and the last
\* element of the empty vector is read: the process dies.
Crash(d, n) ==
  /\ up[d] /\ d \in Explorer
  /\ voxels[d] + n = ChunkSize /\ filled[d][d] = {}
  /\ up' = [up EXCEPT ![d] = FALSE]
  /\ UNCHANGED <<voxels, filled, idxList, buffer, stamps>>

InRange(d) == {e \in Drone \ {d} : {d, e} \in Link}

\* stampTimerCallback, once the last one of the drone was heard or lost.
Stamp(d) ==
  /\ up[d]
  /\ \A s \in stamps : s.from # d
  /\ Cardinality({s.from : s \in stamps}) < MaxStamping
  /\ stamps' = stamps \cup {[from |-> d, to |-> e, lists |-> idxList[d]] : e \in InRange(d)}
  /\ UNCHANGED <<up, voxels, filled, idxList, buffer>>

\* "Ground node does not send chunk", nor does one that is gone.
Answers(d) == up[d] /\ d # MapNum

\* What a drone sends to one that has sent its stamps: of every map but that
\* one's own what it misses (sendChunks).
Answer(s) ==
  [o \in Owner |-> IF ~Answers(s.to) \/ o = s.from THEN {}
                   ELSE Missed(idxList[s.to][o], s.lists[o])]

\* Everyone in range hears it, apart from what the radio loses.
Sent(s) ==
  LET answer == Answer(s)
  IN  {r \in InRange(s.to) \X Owner \X Chunk : r[3] \in answer[r[2]]}

\* stampMsgCallback, and chunkCallback of everyone who hears what is sent,
\* whoever it is meant for.
HearStamp(s, lost) ==
  /\ stamps' = stamps \ {s}
  /\ LET answer == Answer(s)
     IN  buffer' = [e \in Drone |-> IF e \notin InRange(s.to) THEN buffer[e] ELSE
           [o \in Owner |-> buffer[e][o] \cup {n \in answer[o] : <<e, o, n>> \notin lost}]]
  /\ UNCHANGED <<up, voxels, filled, idxList>>

\* A stamp is lost, or comes less than 0.3 s after the one answered last.
DropStamp(s) ==
  /\ stamps' = stamps \ {s}
  /\ UNCHANGED <<up, voxels, filled, idxList, buffer>>

\* chunkTimerCallback
ChunkTimer(d) ==
  /\ up[d]
  /\ filled' = [filled EXCEPT ![d] = [o \in Owner |-> @[o] \cup buffer[d][o]]]
  /\ idxList' = [idxList EXCEPT ![d] = [o \in Owner |->
       IF buffer[d][o] = {} THEN @[o] ELSE Merge(ListOf(buffer[d][o]), @[o])]]
  /\ buffer' = [buffer EXCEPT ![d] = [o \in Owner |-> {}]]
  /\ UNCHANGED <<up, voxels, stamps>>

Next ==
  \/ \E d \in Drone :
       \/ \E n \in Batch : Explore(d, n) \/ Crash(d, n)
       \/ Stamp(d) \/ ChunkTimer(d)
  \/ \E s \in stamps : DropStamp(s) \/ \E lost \in SUBSET Sent(s) : HearStamp(s, lost)

Spec == Init /\ [][Next]_vars

-----------------------------------------------------------------------------
(* Properties.                                                             *)

\* Every variable holds what its C++ counterpart can.
TypeOK ==
  /\ up \in [Drone -> BOOLEAN]
  /\ voxels \in [Drone -> 0..ChunkSize]
  /\ filled \in [Drone -> [Owner -> SUBSET Chunk]]
  /\ idxList \in [Drone -> [Owner -> Seq(Interval)]]
  /\ buffer \in [Drone -> [Owner -> SUBSET Chunk]]
  /\ stamps \subseteq [from : Drone, to : Drone, lists : [Owner -> Seq(Interval)]]

\* A list names exactly the chunks that are there, whatever got lost and in
\* whatever order the rest arrived: sendChunks never reads a placeholder or
\* past the end, and nothing that is there is asked for again.
ListsExact ==
  \A d \in Drone, o \in Owner : Ids(idxList[d][o]) = filled[d][o]

\* The intervals of a list are in order with a gap between any two, which
\* mergeChunkIds and findMissedChunkIds rely on.
Tidy(list) ==
  /\ \A j \in 1..Len(list) : 1 <= list[j].lo /\ list[j].lo <= list[j].hi
  /\ \A j \in 1..Len(list)-1 : list[j].hi + 1 < list[j+1].lo

\* So are those of every drone, whatever was merged into them.
ListsTidy ==
  \A d \in Drone, o \in Owner : Tidy(idxList[d][o])

\* Going through the gaps of a stamp (findMissedChunkIds) finds just what there
\* is here and was not there when the stamp was sent: nothing that is missing
\* is passed over, however the list is cut up, and nothing is sent for no reason.
AnswersExact ==
  \A s \in stamps, o \in Owner :
    o # s.from /\ Answers(s.to) => Answer(s)[o] = filled[s.to][o] \ Ids(s.lists[o])

\* The lists are sets that only grow, of what their owners have made.
Gossip == INSTANCE ChunkGossip WITH
  has <- [d \in Drone |-> [o \in Owner |-> Ids(idxList[d][o])]]
Implements == Gossip!Spec

-----------------------------------------------------------------------------
(* The timers run as long as the process does, and of all the answers on a  *)
(* link some are heard in full.  For the chunk timer that is said of what  *)
(* it does, to empty the buffer: while there is something in it, the timer *)
(* is enabled, so that this is its weak fairness.                          *)

Processed(d) == up[d] => \A o \in Owner : buffer[d][o] = {}

Fairness ==
  /\ \A d \in Drone : SF_vars(Stamp(d)) /\ []<>Processed(d)
  /\ \A link \in Link : \A d \in link :
       SF_vars(\E s \in stamps : s.to = d /\ s.from \in link /\ HearStamp(s, {}))

FairSpec == Spec /\ Fairness

\* Once nothing new is seen all drones come to have the same chunks of every
\* map, whatever was lost, also of drones that they only hear of over others.
Shared ==
  <>[](\A o \in Explorer, d \in Drone :
         up[o] /\ up[d] => filled[d][o] = filled[o][o])
=============================================================================
