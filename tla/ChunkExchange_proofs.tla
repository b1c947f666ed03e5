------------------------ MODULE ChunkExchange_proofs -------------------------
(***************************************************************************)
(* What the lists of chunk numbers are, for any drones, chunks and radio:  *)
(* the operators on lists of intervals are shown to be what they are on    *)
(* the sets they stand for, by induction over the lists, and the exchange  *)
(* to be the gossip of sets that ChunkGossip promises.                     *)
(***************************************************************************)
EXTENDS ChunkExchange, WellFoundedInduction, FiniteSetTheorems, SequenceTheorems, TLAPS

-----------------------------------------------------------------------------
(* Induction over the numbers, as a fact about sets of them.               *)

LEMMA LeastNumber ==
  ASSUME NEW S \in SUBSET Nat, S # {}
  PROVE  \E n \in S : \A m \in S : n <= m
<1> DEFINE R == OpToRel(<, Nat)
<1>1. IsWellFoundedOn(R, Nat)
  BY NatLessThanWellFounded
<1>2. ASSUME NEW x \in Nat, NEW y \in Nat, <<x, y>> \notin R
      PROVE  y <= x
  BY <1>2 DEF OpToRel
<1> HIDE DEF R
<1>3. PICK n \in S : \A y \in S : <<y, n>> \notin R
  BY <1>1, WFMin
<1> QED
  BY <1>2, <1>3

LEMMA Induction ==
  ASSUME NEW S \in SUBSET Nat, 0 \in S, \A n \in S : n + 1 \in S
  PROVE  S = Nat
<1> SUFFICES ASSUME Nat \ S # {} PROVE FALSE
  OBVIOUS
<1>1. PICK n \in Nat \ S : \A m \in Nat \ S : n <= m
  BY LeastNumber
<1>2. n # 0 /\ n - 1 \in Nat
  OBVIOUS
<1>3. n - 1 \in S
  BY <1>1, <1>2
<1> QED
  BY <1>2, <1>3

\* The functions given by their first value and their steps: there is one.
Chains(S, base, step, n) ==
  {f \in [0..n -> S] : f[0] = base /\ \A i \in 1..n : f[i] = step[<<f[i-1], i>>]}

LEMMA Recursion ==
  ASSUME NEW S, NEW base, base \in S, NEW step, step \in [S \X Nat -> S], NEW n \in Nat
  PROVE  Chains(S, base, step, n) # {}
<1> DEFINE T == {k \in Nat : Chains(S, base, step, k) # {}}
<1>1. 0 \in T
  <2> DEFINE g == [i \in 0..0 |-> base]
  <2>1. g \in [0..0 -> S] /\ g[0] = base
    OBVIOUS
  <2>2. 1..0 = {}
    OBVIOUS
  <2>3. g \in Chains(S, base, step, 0)
    BY <2>1, <2>2 DEF Chains
  <2> QED
    BY <2>3
<1>2. ASSUME NEW k \in T PROVE k + 1 \in T
  <2>1. PICK f : f \in Chains(S, base, step, k)
    OBVIOUS
  <2>2. f \in [0..k -> S] /\ f[0] = base /\ \A i \in 1..k : f[i] = step[<<f[i-1], i>>]
    BY <2>1 DEF Chains
  <2> DEFINE g == [i \in 0..(k+1) |-> IF i = k + 1 THEN step[<<f[k], k+1>>] ELSE f[i]]
  <2>3. f[k] \in S /\ step[<<f[k], k+1>>] \in S
    BY <2>2
  <2>4. g \in [0..(k+1) -> S]
    BY <2>2, <2>3
  <2>5. g[0] = base
    BY <2>2
  <2>6. ASSUME NEW i \in 1..(k+1) PROVE g[i] = step[<<g[i-1], i>>]
    <3>1. CASE i = k + 1
      <4>1. i - 1 = k /\ k # k + 1 /\ k \in 0..(k+1)
        BY <3>1
      <4>2. g[k] = f[k]
        BY <4>1
      <4>3. g[i] = step[<<f[k], k+1>>]
        BY <3>1
      <4> QED
        BY <3>1, <4>1, <4>2, <4>3
    <3>2. CASE i # k + 1
      <4>1. i \in 1..k /\ i - 1 \in 0..k /\ i - 1 # k + 1
        BY <3>2
      <4>2. g[i] = f[i] /\ g[i-1] = f[i-1]
        BY <3>2, <4>1
      <4> QED
        BY <2>2, <4>1, <4>2
    <3> QED
      BY <3>1, <3>2
  <2> HIDE DEF g
  <2>7. g \in Chains(S, base, step, k+1)
    BY <2>4, <2>5, <2>6 DEF Chains
  <2> QED
    BY <2>7
<1> HIDE DEF T
<1>3. T = Nat
  <2>1. T \in SUBSET Nat
    BY DEF T
  <2> QED
    BY <1>1, <1>2, <2>1, Induction
<1> QED
  BY <1>3 DEF T

-----------------------------------------------------------------------------
(* Lists of intervals as sets of numbers.                                  *)

List == Seq(Interval)

LEMMA InList ==
  ASSUME NEW list \in List
  PROVE  /\ Len(list) \in Nat
         /\ \A j \in 1..Len(list) :
              /\ list[j] \in Interval /\ list[j].lo \in Nat /\ list[j].hi \in Nat
              /\ list[j] = [lo |-> list[j].lo, hi |-> list[j].hi]
<1>1. \A j \in 1..Len(list) : list[j] \in Interval
  BY DEF List
<1>2. \A r \in Interval : r.lo \in Nat /\ r.hi \in Nat /\ r = [lo |-> r.lo, hi |-> r.hi]
  BY DEF Interval
<1> QED
  BY <1>1, <1>2 DEF List

\* A part of a list, none of it if it starts after its end.
LEMMA SubList ==
  ASSUME NEW list \in List, NEW lo \in Nat \ {0}, NEW hi \in 0..Len(list), lo <= hi + 1
  PROVE  /\ SubSeq(list, lo, hi) \in List
         /\ Len(SubSeq(list, lo, hi)) = hi - lo + 1
         /\ \A j \in 1..(hi - lo + 1) : SubSeq(list, lo, hi)[j] = list[lo + j - 1]
<1>1. hi \in Int /\ lo \in Int /\ Len(list) \in Nat
  BY InList
<1>2. \A j \in lo..hi : list[j] \in Interval
  <2> TAKE j \in lo..hi
  <2>1. j \in 1..Len(list)
    BY <1>1
  <2> QED
    BY <2>1, InList
<1>3. /\ SubSeq(list, lo, hi) \in Seq(Interval)
      /\ Len(SubSeq(list, lo, hi)) = IF lo <= hi THEN hi - lo + 1 ELSE 0
      /\ \A j \in 1..(hi - lo + 1) : SubSeq(list, lo, hi)[j] = list[lo + j - 1]
  BY <1>1, <1>2, SubSeqProperties
<1> QED
  BY <1>1, <1>3 DEF List

LEMMA InIds ==
  ASSUME NEW list \in List, NEW x
  PROVE  x \in Ids(list) <=>
           /\ x \in Int
           /\ \E j \in 1..Len(list) : list[j].lo <= x /\ x <= list[j].hi
BY InList DEF Ids

\* The intervals neither end nor begin before the one before them does: that
\* is what Inserted leaves to Compact.
Stairs(list) ==
  /\ \A j \in 1..Len(list) : 1 <= list[j].lo /\ list[j].lo <= list[j].hi
  /\ \A j \in 1..Len(list)-1 : list[j].lo <= list[j+1].lo /\ list[j].hi <= list[j+1].hi

TidyList == {list \in List : Tidy(list)}

LEMMA InTidyList ==
  ASSUME NEW list \in TidyList
  PROVE  /\ list \in List /\ Tidy(list) /\ Len(list) \in Nat
         /\ \A j \in 1..Len(list) :
              /\ list[j].lo \in Nat /\ list[j].hi \in Nat
              /\ 1 <= list[j].lo /\ list[j].lo <= list[j].hi
BY InList DEF TidyList, Tidy

\* In a list that is tidy no interval is anywhere near a later one.
LEMMA TidyOrdered ==
  ASSUME NEW list \in TidyList, NEW i \in 1..Len(list), NEW j \in 1..Len(list), i < j
  PROVE  list[i].hi + 1 < list[j].lo
<1> DEFINE T == {k \in Nat : i + k + 1 <= Len(list) => list[i].hi + 1 < list[i+k+1].lo}
<1>1. list \in List /\ Tidy(list)
  BY DEF TidyList
<1>2. i + 1 <= Len(list) /\ i \in 1..Len(list) - 1
  BY <1>1, InList
<1>3. 0 \in T
  BY <1>1, <1>2 DEF Tidy
<1>4. ASSUME NEW k \in T PROVE k + 1 \in T
  <2> SUFFICES ASSUME i + (k + 1) + 1 <= Len(list)
               PROVE  list[i].hi + 1 < list[i+(k+1)+1].lo
    OBVIOUS
  <2>1. PICK m \in 1..Len(list)-1 : m = i + k + 1
    BY <1>1, InList
  <2>2. m + 1 = i + (k + 1) + 1 /\ m + 1 \in 1..Len(list) /\ m \in 1..Len(list)
    BY <2>1, <1>1, InList
  <2>3. /\ list[i].hi \in Nat /\ list[m].lo \in Nat /\ list[m].hi \in Nat
        /\ list[m+1].lo \in Nat
    BY <2>2, <1>1, InList
  <2>4. list[i].hi + 1 < list[m].lo
    BY <2>1, <2>2
  <2>5. list[m].lo <= list[m].hi /\ list[m].hi + 1 < list[m+1].lo
    BY <2>2, <1>1 DEF Tidy
  <2>6. list[i].hi + 1 < list[m+1].lo
    BY <2>3, <2>4, <2>5, SMTT(30)
  <2> QED
    BY <2>2, <2>6
<1> HIDE DEF T
<1>5. T = Nat
  <2>1. T \in SUBSET Nat
    BY DEF T
  <2> QED
    BY <1>3, <1>4, <2>1, Induction
<1>6. j - i - 1 \in Nat /\ i + (j - i - 1) + 1 = j /\ j <= Len(list)
  BY <1>1, InList
<1> QED
  BY <1>5, <1>6 DEF T

\* Whole numbers up to the last one are one interval.
LEMMA TidyPrefix ==
  ASSUME NEW list \in TidyList, NEW n \in Nat \ {0}, Ids(list) = 1..n
  PROVE  list = <<[lo |-> 1, hi |-> n]>>
<1>0. list \in List /\ Len(list) \in Nat
  BY InTidyList
<1>1. Len(list) # 0
  <2>1. 1 \in Ids(list)
    OBVIOUS
  <2> QED
    BY <2>1, <1>0, InIds
<1>2. /\ 1 \in 1..Len(list) /\ list[1].lo \in Nat /\ list[1].hi \in Nat
      /\ 1 <= list[1].lo /\ list[1].lo <= list[1].hi
  <2>1. 1 \in 1..Len(list)
    BY <1>0, <1>1
  <2> QED
    BY <2>1, InTidyList
<1>3. ASSUME Len(list) # 1 PROVE FALSE
  <2>1. /\ 2 \in 1..Len(list) /\ list[2].lo \in Nat /\ list[2].hi \in Nat
        /\ list[2].lo <= list[2].hi
    <3>1. 2 \in 1..Len(list)
      BY <1>0, <1>1, <1>3
    <3> QED
      BY <3>1, InTidyList
  <2>2. list[1].hi + 1 < list[2].lo
    BY <2>1, <1>2, TidyOrdered
  <2>3. list[2].lo \in Ids(list)
    BY <2>1, <1>0, InIds
  <2>4. list[1].hi + 1 \in Ids(list)
    BY <2>1, <2>2, <2>3, <1>2
  <2>5. PICK j \in 1..Len(list) : list[j].lo <= list[1].hi + 1 /\ list[1].hi + 1 <= list[j].hi
    BY <2>4, <1>0, InIds
  <2>6. j # 1
    BY <2>5, <1>2
  <2>7. list[1].hi + 1 < list[j].lo
    BY <2>6, <1>2, <1>0, TidyOrdered
  <2>8. list[j].lo \in Nat
    BY <1>0, InList
  <2> QED
    BY <2>5, <2>7, <2>8, <1>2
<1>4. Len(list) = 1
  BY <1>3
<1>5. \A x \in Int : x \in 1..n <=> list[1].lo <= x /\ x <= list[1].hi
  <2> TAKE x \in Int
  <2>1. x \in Ids(list) <=> \E j \in 1..Len(list) : list[j].lo <= x /\ x <= list[j].hi
    BY <1>0, InIds
  <2>2. 1..Len(list) = {1}
    BY <1>4
  <2> QED
    BY <2>1, <2>2
<1>6. list[1].lo = 1 /\ list[1].hi = n
  <2>1. list[1].lo \in 1..n /\ list[1].hi \in 1..n /\ 1 \in 1..n /\ n \in 1..n
    BY <1>2, <1>5
  <2> QED
    BY <2>1, <1>2, <1>5
<1>7. list[1] = [lo |-> 1, hi |-> n]
  BY <1>0, <1>2, <1>6, InList
<1> QED
  BY <1>0, <1>4, <1>7 DEF List
-----------------------------------------------------------------------------
(* The operators.                                                          *)

\* One more interval at the end: it ends the list, and the numbers are those
\* of both.
LEMMA JoinedList ==
  ASSUME NEW out \in TidyList, NEW iv \in Interval, 1 <= iv.lo, iv.lo <= iv.hi,
         out # <<>> => Last(out).lo <= iv.lo /\ Last(out).hi <= iv.hi
  PROVE  /\ Joined(out, iv) \in TidyList
         /\ Joined(out, iv) # <<>>
         /\ Last(Joined(out, iv)).lo <= iv.lo /\ Last(Joined(out, iv)).hi = iv.hi
         /\ \A x : x \in Ids(Joined(out, iv)) <=>
                     x \in Ids(out) \/ (x \in Int /\ iv.lo <= x /\ x <= iv.hi)
<1> DEFINE res == Joined(out, iv)
           m == Len(out)
<1>1. /\ out \in List /\ m \in Nat /\ iv.lo \in Nat /\ iv.hi \in Nat
  BY InTidyList DEF Interval
<1>2. CASE out # <<>> /\ Joins(Last(out), iv)
  <2> DEFINE a == out[m].lo
             b == [lo |-> a, hi |-> iv.hi]
  <2>1. /\ m \in 1..m /\ a \in Nat /\ out[m].hi \in Nat /\ 1 <= a /\ a <= out[m].hi
        /\ a <= iv.lo /\ out[m].hi <= iv.hi /\ iv.lo - 1 <= out[m].hi
    <3>1. m # 0
      BY <1>1, <1>2 DEF List
    <3>2. m \in 1..m
      BY <1>1, <3>1
    <3> QED
      BY <1>1, <1>2, <3>2, InTidyList DEF Last, Joins
  <2>2. b \in Interval
    BY <1>1, <2>1 DEF Interval
  <2>3. res = Append(SubSeq(out, 1, m-1), b)
    BY <1>2 DEF Joined, Front, Last
  <2> HIDE DEF a, b, res
  <2>4. /\ res \in List /\ Len(res) = m /\ res[m] = b
        /\ \A j \in 1..m-1 : res[j] = out[j]
    <3> DEFINE f == SubSeq(out, 1, m-1)
    <3>1. f \in List /\ Len(f) = m - 1 /\ \A j \in 1..m-1 : f[j] = out[j]
      <4>1. 1 \in Nat \ {0} /\ m - 1 \in 0..m /\ 1 <= (m - 1) + 1
        BY <1>1, <2>1
      <4>2. /\ f \in List /\ Len(f) = (m-1) - 1 + 1
            /\ \A j \in 1..((m-1) - 1 + 1) : f[j] = out[1 + j - 1]
        BY <4>1, <1>1, SubList
      <4> HIDE DEF f
      <4> QED
        BY <4>2, <1>1
    <3>2. res = Append(f, b)
      BY <2>3
    <3> HIDE DEF f
    <3> QED
      BY <1>1, <2>1, <2>2, <3>1, <3>2 DEF List
  <2>5. b.lo = a /\ b.hi = iv.hi
    BY DEF b
  <2>6. Tidy(res)
    <3>1. ASSUME NEW j \in 1..m PROVE 1 <= res[j].lo /\ res[j].lo <= res[j].hi
      <4>1. CASE j = m
        BY <4>1, <1>1, <2>1, <2>4, <2>5
      <4>2. CASE j # m
        <5>1. j \in 1..m-1
          BY <4>2, <1>1
        <5> QED
          BY <5>1, <2>4, InTidyList
      <4> QED
        BY <4>1, <4>2
    <3>2. ASSUME NEW j \in 1..m-1 PROVE res[j].hi + 1 < res[j+1].lo
      <4>1. out[j].hi + 1 < out[j+1].lo
        BY <1>1, InTidyList DEF Tidy
      <4> QED
        BY <1>1, <2>1, <2>4, <2>5, <4>1 DEF a
    <3> QED
      BY <3>1, <3>2, <2>4 DEF Tidy
  <2>7. ASSUME NEW x
        PROVE  x \in Ids(res) <=> x \in Ids(out) \/ (x \in Int /\ iv.lo <= x /\ x <= iv.hi)
    <3>1. x \in Ids(res) <=> x \in Int /\ \E j \in 1..m : res[j].lo <= x /\ x <= res[j].hi
      BY <2>4, InIds
    <3>2. x \in Ids(out) <=> x \in Int /\ \E j \in 1..m : out[j].lo <= x /\ x <= out[j].hi
      BY <1>1, InIds
    <3>3. x \in Int => (b.lo <= x /\ x <= b.hi <=>
             (out[m].lo <= x /\ x <= out[m].hi) \/ (iv.lo <= x /\ x <= iv.hi))
      BY <2>1, <2>5, <1>1 DEF a
    <3>4. \A j \in 1..m : j = m \/ j \in 1..m-1
      BY <1>1
    <3> QED
      BY <3>1, <3>2, <3>3, <3>4, <2>1, <2>4
  <2>8. res # <<>> /\ Last(res) = b
    BY <2>1, <2>4 DEF Last
  <2> QED
    BY <2>1, <2>4, <2>5, <2>6, <2>7, <2>8, <1>1 DEF TidyList, res
<1>3. CASE ~(out # <<>> /\ Joins(Last(out), iv))
  <2>1. res = Append(out, iv)
    BY <1>3 DEF Joined
  <2> HIDE DEF res
  <2>2. /\ res \in List /\ Len(res) = m + 1 /\ res[m+1] = iv
        /\ \A j \in 1..m : res[j] = out[j]
    BY <1>1, <2>1 DEF List
  <2>3. m # 0 => out[m].hi + 1 < iv.lo
    <3>1. ASSUME m # 0 PROVE out[m].hi + 1 < iv.lo
      <4>1. m \in 1..m /\ out # <<>>
        BY <1>1, <3>1
      <4>2. out[m].hi \in Nat
        BY <4>1, InTidyList
      <4> QED
        BY <1>1, <1>3, <4>1, <4>2 DEF Joins, Last
    <3> QED
      BY <3>1
  <2>4. Tidy(res)
    <3>1. ASSUME NEW j \in 1..m+1 PROVE 1 <= res[j].lo /\ res[j].lo <= res[j].hi
      <4>1. CASE j = m + 1
        BY <4>1, <2>2
      <4>2. CASE j # m + 1
        <5>1. j \in 1..m
          BY <4>2, <1>1
        <5> QED
          BY <5>1, <2>2, InTidyList
      <4> QED
        BY <4>1, <4>2
    <3>2. ASSUME NEW j \in 1..m PROVE res[j].hi + 1 < res[j+1].lo
      <4>1. CASE j = m
        BY <4>1, <2>2, <2>3, <1>1
      <4>2. CASE j # m
        <5>1. j \in 1..m-1 /\ j + 1 \in 1..m
          BY <4>2, <1>1
        <5>2. out[j].hi + 1 < out[j+1].lo
          BY <5>1, InTidyList DEF Tidy
        <5> QED
          BY <5>1, <5>2, <2>2
      <4> QED
        BY <4>1, <4>2
    <3> QED
      BY <3>1, <3>2, <2>2, <1>1 DEF Tidy
  <2>5. ASSUME NEW x
        PROVE  x \in Ids(res) <=> x \in Ids(out) \/ (x \in Int /\ iv.lo <= x /\ x <= iv.hi)
    <3>1. x \in Ids(res) <=> x \in Int /\ \E j \in 1..m+1 : res[j].lo <= x /\ x <= res[j].hi
      BY <2>2, InIds
    <3>2. x \in Ids(out) <=> x \in Int /\ \E j \in 1..m : out[j].lo <= x /\ x <= out[j].hi
      BY <1>1, InIds
    <3>3. \A j : j \in 1..m+1 <=> j = m + 1 \/ j \in 1..m
      BY <1>1
    <3> QED
      BY <3>1, <3>2, <3>3, <2>2
  <2>6. res # <<>> /\ Last(res) = iv
    BY <1>1, <2>2 DEF Last
  <2> QED
    BY <2>2, <2>4, <2>5, <2>6, <1>1 DEF TidyList, res
<1> QED
  BY <1>2, <1>3
\* Compact, of a list that went up: tidy, and the same numbers.
LEMMA CompactList ==
  ASSUME NEW list \in List, Stairs(list)
  PROVE  /\ Compact(list) \in TidyList
         /\ Ids(Compact(list)) = Ids(list)
         /\ list # <<>> => Compact(list) # <<>>
<1> DEFINE L == Len(list)
           step == [p \in List \X Nat |->
                      IF p[2] \in 1..L /\ Joined(p[1], list[p[2]]) \in List
                      THEN Joined(p[1], list[p[2]]) ELSE <<>>]
           F(f) == f = [n \in 0..L |-> IF n = 0 THEN <<>> ELSE Joined(f[n-1], list[n])]
           out == CHOOSE f : F(f)
           \* what the first n intervals have become
           Good(o, n) ==
             /\ o \in TidyList
             /\ n > 0 => o # <<>> /\ Last(o).lo <= list[n].lo /\ Last(o).hi = list[n].hi
             /\ n = 0 => o = <<>>
             /\ \A x : x \in Ids(o) <=>
                        x \in Int /\ \E j \in 1..n : list[j].lo <= x /\ x <= list[j].hi
<1>1. L \in Nat /\ <<>> \in List
  BY InList DEF List
<1>2. Good(<<>>, 0)
  <2>1. <<>> \in TidyList
    BY <1>1 DEF TidyList, Tidy
  <2>2. Ids(<<>>) = {}
    BY DEF Ids
  <2> QED
    BY <2>1, <2>2
<1>3. ASSUME NEW o, NEW n \in 1..L, Good(o, n-1)
      PROVE  Good(Joined(o, list[n]), n)
  <2> DEFINE iv == list[n]
  <2>1. iv \in Interval /\ iv.lo \in Nat /\ iv.hi \in Nat /\ 1 <= iv.lo /\ iv.lo <= iv.hi
    BY InList DEF Stairs
  <2>2. ASSUME o # <<>> PROVE Last(o).lo <= iv.lo /\ Last(o).hi <= iv.hi
    <3>1. n # 1 /\ n - 1 \in 1..L-1 /\ n - 1 \in 1..L /\ (n - 1) + 1 = n
      BY <1>1, <1>3, <2>2
    <3>2. list[n-1].lo <= iv.lo /\ list[n-1].hi <= iv.hi
      BY <3>1 DEF Stairs
    <3>3. list[n-1].lo \in Nat /\ list[n-1].hi \in Nat
      BY <3>1, InList
    <3>4. Last(o).lo <= list[n-1].lo /\ Last(o).hi = list[n-1].hi
      BY <1>3, <3>1
    <3>5. Last(o).lo \in Nat
      <4>1. Len(o) \in 1..Len(o)
        BY <1>3, <2>2, InTidyList DEF List
      <4> QED
        BY <4>1, <1>3, InTidyList DEF Last
    <3> QED
      BY <2>1, <3>2, <3>3, <3>4, <3>5
  <2> HIDE DEF iv
  <2>3. /\ Joined(o, iv) \in TidyList
        /\ Joined(o, iv) # <<>>
        /\ Last(Joined(o, iv)).lo <= iv.lo /\ Last(Joined(o, iv)).hi = iv.hi
        /\ \A x : x \in Ids(Joined(o, iv)) <=>
                    x \in Ids(o) \/ (x \in Int /\ iv.lo <= x /\ x <= iv.hi)
    BY <2>1, <2>2, <1>3, JoinedList
  <2>4. \A j : j \in 1..n <=> j \in 1..(n-1) \/ j = n
    BY <1>1
  <2> QED
    BY <1>3, <2>3, <2>4 DEF iv
<1> HIDE DEF Good
<1>4. ASSUME NEW g, g[0] = <<>>,
             \A n \in 1..L : Good(g[n-1], n-1) => g[n] = Joined(g[n-1], list[n])
      PROVE  \A n \in 0..L : Good(g[n], n)
  <2> DEFINE T == {n \in Nat : n <= L => Good(g[n], n)}
  <2>1. 0 \in T
    BY <1>2, <1>4
  <2>2. ASSUME NEW n \in T PROVE n + 1 \in T
    <3> SUFFICES ASSUME n + 1 <= L PROVE Good(g[n+1], n+1)
      OBVIOUS
    <3>1. n + 1 \in 1..L /\ (n + 1) - 1 = n /\ n <= L
      BY <1>1
    <3> QED
      BY <1>3, <1>4, <3>1
  <2> HIDE DEF T
  <2>3. T \in SUBSET Nat
    BY DEF T
  <2>4. T = Nat
    BY <2>1, <2>2, <2>3, Induction
  <2> QED
    BY <2>4, <1>1 DEF T
<1>5. step \in [List \X Nat -> List]
  BY <1>1
<1> HIDE DEF step
<1>6. PICK f : f[0] = <<>> /\ \A i \in 1..L : f[i] = step[<<f[i-1], i>>] /\ f[i-1] \in List
  <2>1. PICK f : f \in Chains(List, <<>>, step, L)
    BY <1>1, <1>5, Recursion
  <2>2. \A i \in 1..L : i - 1 \in 0..L
    BY <1>1
  <2> QED
    BY <2>1, <2>2 DEF Chains
<1>7. ASSUME NEW n \in 1..L, Good(f[n-1], n-1)
      PROVE  f[n] = Joined(f[n-1], list[n])
  <2>1. n - 1 \in 0..L /\ n \in Nat
    BY <1>1
  <2>2. Joined(f[n-1], list[n]) \in List
    BY <1>3, <1>7 DEF Good, TidyList
  <2> QED
    BY <1>6, <2>1, <2>2 DEF step
<1>8. F([n \in 0..L |-> f[n]])
  <2>1. \A n \in 0..L : n # 0 => n \in 1..L /\ n - 1 \in 0..L
    BY <1>1
  <2>2. \A n \in 0..L : Good(f[n], n)
    BY <1>4, <1>6, <1>7
  <2>3. \A n \in 1..L : n - 1 \in 0..L
    BY <1>1
  <2>4. \A n \in 1..L : f[n] = Joined(f[n-1], list[n])
    BY <1>7, <2>2, <2>3
  <2> QED
    BY <1>1, <1>6, <2>1, <2>4
<1>9. F(out)
  BY <1>8
<1>10. Good(out[L], L) /\ Compact(list) = out[L]
  <2>1. Compact(list) = out[L]
    BY DEF Compact
  <2> HIDE DEF out
  <2>2. out[0] = <<>>
    BY <1>1, <1>9
  <2>3. \A n \in 1..L : out[n] = Joined(out[n-1], list[n])
    BY <1>1, <1>9
  <2>4. \A n \in 0..L : Good(out[n], n)
    BY <1>4, <2>2, <2>3
  <2> QED
    BY <1>1, <2>1, <2>4
<1>11. \A x : x \in Ids(Compact(list)) <=> x \in Ids(list)
  BY <1>10, InIds DEF Good
<1>12. list # <<>> => L > 0
  BY <1>1 DEF List
<1> QED
  BY <1>10, <1>11, <1>12 DEF Good
\* How far into a list an interval goes that meets none of it.
LEMMA Place ==
  ASSUME NEW list \in TidyList, NEW iv \in Interval
  PROVE  \E k \in 0..Len(list) : {j \in 1..Len(list) : list[j].hi < iv.lo} = 1..k
<1> DEFINE m == Len(list)
           T == {n \in Nat : n \in 1..m + 1 /\ (n <= m => ~(list[n].hi < iv.lo))}
<1>1. m \in Nat /\ iv.lo \in Nat
  BY InTidyList DEF Interval
<1>2. m + 1 \in T
  BY <1>1
<1>3. T \in SUBSET Nat
  OBVIOUS
<1>4. PICK n \in T : \A i \in T : n <= i
  <2> HIDE DEF T
  <2> QED
    BY <1>2, <1>3, LeastNumber
<1>5. n \in 1..m + 1 /\ n - 1 \in 0..m
  BY <1>1
<1>6. ASSUME NEW j \in 1..m, j < n PROVE list[j].hi < iv.lo
  BY <1>1, <1>4, <1>6
<1>7. ASSUME NEW j \in 1..m, n <= j PROVE ~(list[j].hi < iv.lo)
  <2>1. n \in 1..m /\ ~(list[n].hi < iv.lo)
    BY <1>1, <1>5, <1>7
  <2>2. n # j => list[n].hi + 1 < list[j].lo
    BY <1>1, <1>7, <2>1, TidyOrdered
  <2>3. list[n].hi \in Nat /\ list[j].hi \in Nat /\ list[j].lo \in Nat /\ list[j].lo <= list[j].hi
    BY <2>1, InTidyList
  <2> QED
    BY <1>1, <2>1, <2>2, <2>3
<1>8. {j \in 1..m : list[j].hi < iv.lo} = 1..(n - 1)
  BY <1>1, <1>5, <1>6, <1>7
<1> QED
  BY <1>5, <1>8

\* An interval that goes into a gap of a list.
LEMMA InsertAtList ==
  ASSUME NEW list \in List, NEW iv \in Interval, NEW k \in 0..Len(list)
  PROVE  LET res == InsertAt(list, k + 1, iv)
         IN  /\ res \in List /\ Len(res) = Len(list) + 1 /\ res[k+1] = iv
             /\ \A j \in 1..k : res[j] = list[j]
             /\ \A j \in (k+1)..Len(list) : res[j+1] = list[j]
<1> DEFINE m == Len(list)
           s == SubSeq(list, 1, k)
           t == SubSeq(list, k + 1, m)
           o == <<iv>>
           so == s \o o
           res == so \o t
<1>1. m \in Nat /\ k \in Nat /\ k <= m
  BY InList
<1>2. s \in List /\ Len(s) = k /\ \A j \in 1..k : s[j] = list[j]
  <2>1. 1 \in Nat \ {0} /\ k \in 0..m /\ 1 <= k + 1 /\ k - 1 + 1 = k /\ \A j \in 1..k : 1 + j - 1 = j
    BY <1>1
  <2> HIDE DEF m
  <2> QED
    BY <2>1, SubList DEF m
<1>3. t \in List /\ Len(t) = m - k /\ \A j \in 1..(m-k) : t[j] = list[k + j]
  <2>1. k + 1 \in Nat \ {0} /\ m \in 0..m /\ k + 1 <= m + 1
    BY <1>1
  <2>2. /\ t \in List /\ Len(t) = m - (k+1) + 1
        /\ \A j \in 1..(m - (k+1) + 1) : t[j] = list[(k+1) + j - 1]
    BY <2>1, SubList
  <2>3. m - (k+1) + 1 = m - k /\ \A j \in 1..(m-k) : (k+1) + j - 1 = k + j
    BY <1>1
  <2> HIDE DEF t, m
  <2> QED
    BY <2>2, <2>3
<1>4. o \in List /\ Len(o) = 1 /\ o[1] = iv
  BY DEF List
<1> HIDE DEF s, t, o
<1>5. /\ so \in List /\ Len(so) = k + 1
      /\ \A j \in 1..k+1 : so[j] = IF j <= k THEN s[j] ELSE o[j-k]
  <2>1. /\ so \in Seq(Interval) /\ Len(so) = Len(s) + Len(o)
        /\ \A j \in 1..(Len(s) + Len(o)) : so[j] = IF j <= Len(s) THEN s[j] ELSE o[j-Len(s)]
    BY <1>2, <1>4, ConcatProperties DEF List
  <2>2. Len(s) + Len(o) = k + 1 /\ Len(s) = k
    BY <1>1, <1>2, <1>4
  <2> HIDE DEF so
  <2> QED
    BY <2>1, <2>2 DEF List
<1>6. so[k+1] = iv /\ \A j \in 1..k : so[j] = list[j]
  BY <1>1, <1>2, <1>4, <1>5
<1> HIDE DEF so
<1>7. /\ res \in List /\ Len(res) = m + 1
      /\ \A j \in 1..m+1 : res[j] = IF j <= k + 1 THEN so[j] ELSE t[j-(k+1)]
  <2>1. /\ res \in Seq(Interval) /\ Len(res) = Len(so) + Len(t)
        /\ \A j \in 1..(Len(so) + Len(t)) : res[j] = IF j <= Len(so) THEN so[j] ELSE t[j-Len(so)]
    BY <1>3, <1>5, ConcatProperties DEF List
  <2>2. Len(so) + Len(t) = m + 1 /\ Len(so) = k + 1
    BY <1>1, <1>3, <1>5
  <2> HIDE DEF res, m
  <2> QED
    BY <2>1, <2>2 DEF List
<1> HIDE DEF res
<1>8. ASSUME NEW j \in (k+1)..m PROVE res[j+1] = list[j]
  <2>1. j + 1 \in 1..m+1 /\ ~(j + 1 <= k + 1) /\ (j + 1) - (k + 1) \in 1..(m-k)
    BY <1>1
  <2>2. k + ((j + 1) - (k + 1)) = j
    BY <1>1
  <2> QED
    BY <1>3, <1>7, <2>1, <2>2
<1>9. res[k+1] = iv /\ \A j \in 1..k : res[j] = list[j]
  BY <1>1, <1>6, <1>7
<1>10. res = InsertAt(list, k + 1, iv)
  <2>1. (k + 1) - 1 = k
    BY <1>1
  <2> QED
    BY <2>1 DEF InsertAt, res, so, s, t, o
<1> QED
  BY <1>7, <1>8, <1>9, <1>10
\* Inserted: the intervals still go up, and the numbers are those of both.
LEMMA InsertedList ==
  ASSUME NEW list \in TidyList, NEW iv \in Interval, 1 <= iv.lo, iv.lo <= iv.hi
  PROVE  LET res == Inserted(list, iv)
         IN  /\ res \in List /\ Stairs(res) /\ res # <<>>
             /\ \A x : x \in Ids(res) <=>
                         x \in Ids(list) \/ (x \in Int /\ iv.lo <= x /\ x <= iv.hi)
<1> DEFINE m == Len(list)
           res == Inserted(list, iv)
<1>1. /\ list \in List /\ m \in Nat /\ iv.lo \in Nat /\ iv.hi \in Nat
      /\ \A j \in 1..m : /\ list[j].lo \in Nat /\ list[j].hi \in Nat
                         /\ 1 <= list[j].lo /\ list[j].lo <= list[j].hi
  BY InTidyList DEF Interval
<1>2. \A j \in 1..m : Meets(list[j], iv) <=> list[j].lo <= iv.hi /\ iv.lo <= list[j].hi
  BY <1>1 DEF Meets, Larger, Smaller
<1>3. \A j \in 1..m-1 : /\ j \in 1..m /\ j + 1 \in 1..m
                        /\ list[j].hi + 1 < list[j+1].lo
  BY <1>1, InTidyList DEF Tidy
<1>4. CASE \E j \in 1..m : Meets(list[j], iv)
  <2> DEFINE wide(j) == [lo |-> Smaller(list[j].lo, iv.lo), hi |-> Larger(list[j].hi, iv.hi)]
  <2>1. /\ Len(res) = m /\ DOMAIN res = 1..m
        /\ \A j \in 1..m : res[j] = IF Meets(list[j], iv) THEN wide(j) ELSE list[j]
        /\ res \in List
    <3>1. res = [j \in 1..m |-> IF Meets(list[j], iv) THEN wide(j) ELSE list[j]]
      BY <1>4 DEF Inserted
    <3>2. \A j \in 1..m : wide(j) \in Interval /\ list[j] \in Interval
      BY <1>1, InList DEF Interval, Smaller, Larger
    <3> HIDE DEF res, wide
    <3>3. res \in [1..m -> Interval]
      BY <3>1, <3>2
    <3>4. res \in List /\ Len(res) = m
      BY <1>1, <3>3 DEF List
    <3> QED
      BY <3>1, <3>3, <3>4
  <2>2. ASSUME NEW j \in 1..m
        PROVE  /\ list[j].lo <= iv.hi /\ iv.lo <= list[j].hi =>
                    /\ res[j].lo = IF list[j].lo <= iv.lo THEN list[j].lo ELSE iv.lo
                    /\ res[j].hi = IF list[j].hi <= iv.hi THEN iv.hi ELSE list[j].hi
               /\ ~(list[j].lo <= iv.hi /\ iv.lo <= list[j].hi) =>
                    res[j].lo = list[j].lo /\ res[j].hi = list[j].hi
    BY <1>2, <2>1 DEF Smaller, Larger
  <2> HIDE DEF res
  <2>3. \A j \in 1..m : 1 <= res[j].lo /\ res[j].lo <= res[j].hi
    BY <1>1, <2>2
  <2>4. ASSUME NEW j \in 1..m-1
        PROVE  res[j].lo <= res[j+1].lo /\ res[j].hi <= res[j+1].hi
    <3> DEFINE i == j + 1
    <3>1. j \in 1..m /\ i \in 1..m /\ list[j].hi + 1 < list[i].lo
      BY <1>3
    <3> SUFFICES res[j].lo <= res[i].lo /\ res[j].hi <= res[i].hi
      OBVIOUS
    <3> HIDE DEF i
    <3>2. /\ list[j].lo \in Nat /\ list[j].hi \in Nat /\ list[j].lo <= list[j].hi
          /\ list[i].lo \in Nat /\ list[i].hi \in Nat /\ list[i].lo <= list[i].hi
      BY <1>1, <3>1
    <3>3. CASE list[j].lo <= iv.hi /\ iv.lo <= list[j].hi
      <4>1. /\ res[j].lo = IF list[j].lo <= iv.lo THEN list[j].lo ELSE iv.lo
            /\ res[j].hi = IF list[j].hi <= iv.hi THEN iv.hi ELSE list[j].hi
        BY <2>2, <3>1, <3>3
      <4>2. CASE list[i].lo <= iv.hi
        <5>1. list[i].lo <= iv.hi /\ iv.lo <= list[i].hi
          BY <1>1, <3>1, <3>2, <3>3, <4>2
        <5>2. /\ res[i].lo = IF list[i].lo <= iv.lo THEN list[i].lo ELSE iv.lo
              /\ res[i].hi = IF list[i].hi <= iv.hi THEN iv.hi ELSE list[i].hi
          BY <2>2, <3>1, <5>1
        <5> QED
          BY <1>1, <3>1, <3>2, <4>1, <5>2, SMTT(30)
      <4>3. CASE ~(list[i].lo <= iv.hi)
        <5>1. res[i].lo = list[i].lo /\ res[i].hi = list[i].hi
          BY <2>2, <3>1, <4>3
        <5> QED
          BY <1>1, <3>1, <3>2, <3>3, <4>1, <4>3, <5>1, SMTT(30)
      <4> QED
        BY <4>2, <4>3
    <3>4. CASE ~(list[j].lo <= iv.hi /\ iv.lo <= list[j].hi)
      <4>1. res[j].lo = list[j].lo /\ res[j].hi = list[j].hi
        BY <2>2, <3>1, <3>4
      <4>2. CASE list[i].lo <= iv.hi /\ iv.lo <= list[i].hi
        <5>1. /\ res[i].lo = IF list[i].lo <= iv.lo THEN list[i].lo ELSE iv.lo
              /\ res[i].hi = IF list[i].hi <= iv.hi THEN iv.hi ELSE list[i].hi
          BY <2>2, <3>1, <4>2
        <5>2. list[j].hi < iv.lo
          BY <1>1, <3>1, <3>2, <3>4, <4>2
        <5> QED
          BY <1>1, <3>1, <3>2, <4>1, <5>1, <5>2
      <4>3. CASE ~(list[i].lo <= iv.hi /\ iv.lo <= list[i].hi)
        <5>1. res[i].lo = list[i].lo /\ res[i].hi = list[i].hi
          BY <2>2, <3>1, <4>3
        <5> QED
          BY <3>1, <3>2, <4>1, <5>1
      <4> QED
        BY <4>2, <4>3
    <3> QED
      BY <3>3, <3>4
  <2>5. ASSUME NEW x
        PROVE  x \in Ids(res) <=> x \in Ids(list) \/ (x \in Int /\ iv.lo <= x /\ x <= iv.hi)
    <3>1. x \in Ids(res) <=> x \in Int /\ \E j \in 1..m : res[j].lo <= x /\ x <= res[j].hi
      BY <2>1, InIds
    <3>2. x \in Ids(list) <=> x \in Int /\ \E j \in 1..m : list[j].lo <= x /\ x <= list[j].hi
      BY <1>1, InIds
    <3>3. PICK i \in 1..m : list[i].lo <= iv.hi /\ iv.lo <= list[i].hi
      BY <1>2, <1>4
    <3>4. ASSUME x \in Int, iv.lo <= x, x <= iv.hi
          PROVE  res[i].lo <= x /\ x <= res[i].hi
      BY <1>1, <2>2, <3>3, <3>4
    <3>5. ASSUME x \in Int, NEW j \in 1..m, list[j].lo <= x, x <= list[j].hi
          PROVE  res[j].lo <= x /\ x <= res[j].hi
      BY <1>1, <2>2, <3>5
    <3>6. ASSUME x \in Int, NEW j \in 1..m, res[j].lo <= x, x <= res[j].hi
          PROVE  (list[j].lo <= x /\ x <= list[j].hi) \/ (iv.lo <= x /\ x <= iv.hi)
      BY <1>1, <2>2, <3>6, SMTT(30)
    <3> QED
      BY <3>1, <3>2, <3>4, <3>5, <3>6
  <2>6. res # <<>>
    BY <1>1, <1>4, <2>1
  <2> QED
    BY <2>1, <2>3, <2>4, <2>5, <2>6 DEF Stairs, res
<1>5. CASE ~\E j \in 1..m : Meets(list[j], iv)
  <2>1. PICK k \in 0..m : {j \in 1..m : list[j].hi < iv.lo} = 1..k
    BY Place
  <2>2. res = InsertAt(list, k + 1, iv)
    <3>1. Cardinality(1..k) = k
      BY <1>1, FS_Interval
    <3> QED
      BY <1>5, <2>1, <3>1 DEF Inserted
  <2> HIDE DEF res
  <2>3. /\ res \in List /\ Len(res) = m + 1 /\ res[k+1] = iv
        /\ \A j \in 1..k : res[j] = list[j]
        /\ \A j \in (k+1)..m : res[j+1] = list[j]
    BY <1>1, <2>2, InsertAtList
  <2>4. \A j \in 1..k : j \in 1..m /\ list[j].hi < iv.lo
    BY <2>1
  <2>5. \A j \in (k+1)..m : j \in 1..m /\ iv.hi < list[j].lo
    <3> TAKE j \in (k+1)..m
    <3>1. j \in 1..m /\ j \notin 1..k
      BY <1>1
    <3> QED
      BY <1>1, <1>2, <1>5, <2>1, <3>1, SMTT(30)
  <2>6. ASSUME NEW j \in 1..m+1
        PROVE  \/ j \in 1..k
               \/ j = k + 1
               \/ j - 1 \in (k+1)..m /\ j = (j - 1) + 1
    BY <1>1
  <2>7. ASSUME NEW j \in 1..m+1 PROVE 1 <= res[j].lo /\ res[j].lo <= res[j].hi
    BY <1>1, <2>3, <2>4, <2>5, <2>6
  <2>8. ASSUME NEW j \in 1..m PROVE res[j].lo <= res[j+1].lo /\ res[j].hi <= res[j+1].hi
    <3>1. CASE j < k
      <4>1. j \in 1..k /\ j + 1 \in 1..k /\ j \in 1..m-1
        BY <1>1, <3>1
      <4>2. res[j] = list[j] /\ res[j+1] = list[j+1]
        BY <2>3, <4>1
      <4>3. list[j].hi + 1 < list[j+1].lo /\ j \in 1..m /\ j + 1 \in 1..m
        BY <1>3, <4>1
      <4> QED
        BY <1>1, <4>2, <4>3
    <3>2. CASE j = k
      BY <1>1, <2>3, <2>4, <3>2
    <3>3. CASE j = k + 1
      <4>1. j \in (k+1)..m
        BY <1>1, <3>3
      <4> QED
        BY <1>1, <2>3, <2>5, <3>3, <4>1
    <3>4. CASE j > k + 1
      <4>1. /\ j \in (k+1)..m /\ j - 1 \in (k+1)..m /\ j - 1 \in 1..m-1
            /\ (j - 1) + 1 = j
        BY <1>1, <3>4
      <4>2. res[j] = list[j-1] /\ res[j+1] = list[j]
        BY <2>3, <4>1
      <4>3. list[j-1].hi + 1 < list[j].lo /\ j - 1 \in 1..m
        BY <1>3, <4>1
      <4> QED
        BY <1>1, <4>2, <4>3
    <3> QED
      BY <1>1, <3>1, <3>2, <3>3, <3>4
  <2>9. ASSUME NEW x
        PROVE  x \in Ids(res) <=> x \in Ids(list) \/ (x \in Int /\ iv.lo <= x /\ x <= iv.hi)
    <3>1. x \in Ids(res) <=> x \in Int /\ \E j \in 1..m+1 : res[j].lo <= x /\ x <= res[j].hi
      BY <2>3, InIds
    <3>2. x \in Ids(list) <=> x \in Int /\ \E j \in 1..m : list[j].lo <= x /\ x <= list[j].hi
      BY <1>1, InIds
    <3>3. \A j \in 1..m : \/ j \in 1..k /\ j \in 1..m+1
                          \/ j \in (k+1)..m /\ j + 1 \in 1..m+1
      BY <1>1
    <3>4. k + 1 \in 1..m+1 /\ \A j \in 1..k : j \in 1..m
      BY <1>1
    <3> QED
      BY <2>3, <2>5, <2>6, <3>1, <3>2, <3>3, <3>4
  <2>10. (m + 1) - 1 = m /\ res # <<>>
    BY <1>1, <2>3
  <2> QED
    BY <2>3, <2>7, <2>8, <2>9, <2>10 DEF Stairs, res
<1> QED
  BY <1>4, <1>5
\* Merge, into a list that there is: tidy, and the numbers of both.
LEMMA MergeList ==
  ASSUME NEW list1 \in TidyList, list1 # <<>>, NEW list2 \in TidyList
  PROVE  /\ Merge(list1, list2) \in TidyList
         /\ Ids(Merge(list1, list2)) = Ids(list1) \cup Ids(list2)
<1> DEFINE L == Len(list2)
           Next1(o, n) == Compact(Inserted(o, list2[n]))
           step == [p \in TidyList \X Nat |->
                      IF p[2] \in 1..L /\ Next1(p[1], p[2]) \in TidyList
                      THEN Next1(p[1], p[2]) ELSE list1]
           F(f) == f = [n \in 0..L |-> IF n = 0 THEN list1 ELSE Next1(f[n-1], n)]
           out == CHOOSE f : F(f)
           Good(o, n) ==
             /\ o \in TidyList
             /\ \A x : x \in Ids(o) <=>
                        \/ x \in Ids(list1)
                        \/ x \in Int /\ \E j \in 1..n : list2[j].lo <= x /\ x <= list2[j].hi
<1>1. L \in Nat /\ list2 \in List
  BY InTidyList
<1>2. Good(list1, 0)
  <2>1. 1..0 = {}
    OBVIOUS
  <2> QED
    BY <2>1
<1>3. ASSUME NEW o, NEW n \in 1..L, Good(o, n-1)
      PROVE  Good(Next1(o, n), n)
  <2> DEFINE iv == list2[n]
             ins == Inserted(o, iv)
  <2>1. iv \in Interval /\ 1 <= iv.lo /\ iv.lo <= iv.hi
    BY <1>1, InList, InTidyList
  <2> HIDE DEF iv
  <2>2. /\ ins \in List /\ Stairs(ins)
        /\ \A x : x \in Ids(ins) <=> x \in Ids(o) \/ (x \in Int /\ iv.lo <= x /\ x <= iv.hi)
    BY <1>3, <2>1, InsertedList
  <2> HIDE DEF ins
  <2>3. Compact(ins) \in TidyList /\ Ids(Compact(ins)) = Ids(ins)
    BY <2>2, CompactList
  <2>4. \A j : j \in 1..n <=> j \in 1..(n-1) \/ j = n
    BY <1>1
  <2>5. Next1(o, n) = Compact(ins)
    BY DEF ins, iv
  <2> HIDE DEF Next1
  <2> QED
    BY <1>3, <2>2, <2>3, <2>4, <2>5 DEF iv
<1> HIDE DEF Good, Next1
<1>4. ASSUME NEW g, g[0] = list1,
             \A n \in 1..L : Good(g[n-1], n-1) => g[n] = Next1(g[n-1], n)
      PROVE  \A n \in 0..L : Good(g[n], n)
  <2> DEFINE T == {n \in Nat : n <= L => Good(g[n], n)}
  <2>1. 0 \in T
    BY <1>2, <1>4
  <2>2. ASSUME NEW n \in T PROVE n + 1 \in T
    <3> SUFFICES ASSUME n + 1 <= L PROVE Good(g[n+1], n+1)
      OBVIOUS
    <3>1. n + 1 \in 1..L /\ (n + 1) - 1 = n /\ n <= L
      BY <1>1
    <3> QED
      BY <1>3, <1>4, <3>1
  <2> HIDE DEF T
  <2>3. T \in SUBSET Nat
    BY DEF T
  <2>4. T = Nat
    BY <2>1, <2>2, <2>3, Induction
  <2> QED
    BY <2>4, <1>1 DEF T
<1>5. step \in [TidyList \X Nat -> TidyList]
  OBVIOUS
<1> HIDE DEF step
<1>6. PICK f : f[0] = list1 /\ \A i \in 1..L : f[i] = step[<<f[i-1], i>>] /\ f[i-1] \in TidyList
  <2>1. PICK f : f \in Chains(TidyList, list1, step, L)
    BY <1>1, <1>5, Recursion
  <2>2. \A i \in 1..L : i - 1 \in 0..L
    BY <1>1
  <2> QED
    BY <2>1, <2>2 DEF Chains
<1>7. ASSUME NEW n \in 1..L, Good(f[n-1], n-1)
      PROVE  f[n] = Next1(f[n-1], n)
  <2>1. n - 1 \in 0..L /\ n \in Nat
    BY <1>1
  <2>2. Next1(f[n-1], n) \in TidyList
    BY <1>3, <1>7 DEF Good
  <2> QED
    BY <1>6, <2>1, <2>2 DEF step
<1>8. F([n \in 0..L |-> f[n]])
  <2>1. \A n \in 0..L : n # 0 => n \in 1..L /\ n - 1 \in 0..L
    BY <1>1
  <2>2. \A n \in 0..L : Good(f[n], n)
    BY <1>4, <1>6, <1>7
  <2>3. \A n \in 1..L : n - 1 \in 0..L
    BY <1>1
  <2>4. \A n \in 1..L : f[n] = Next1(f[n-1], n)
    BY <1>7, <2>2, <2>3
  <2> QED
    BY <1>1, <1>6, <2>1, <2>4
<1>9. F(out)
  BY <1>8
<1>10. Good(out[L], L) /\ Merge(list1, list2) = out[L]
  <2>1. Merge(list1, list2) = out[L]
    BY DEF Merge, Next1
  <2> HIDE DEF out
  <2>2. out[0] = list1
    BY <1>1, <1>9
  <2>3. \A n \in 1..L : out[n] = Next1(out[n-1], n)
    BY <1>1, <1>9
  <2>4. \A n \in 0..L : Good(out[n], n)
    BY <1>4, <2>2, <2>3
  <2> QED
    BY <1>1, <2>1, <2>4
<1>11. \A x : x \in Ids(Merge(list1, list2)) <=> x \in Ids(list1) \cup Ids(list2)
  BY <1>1, <1>10, InIds DEF Good
<1> QED
  BY <1>10, <1>11 DEF Good

\* ListOf, of chunks: tidy, and just their numbers.
LEMMA ListOfSet ==
  ASSUME NEW S \in SUBSET Chunk
  PROVE  /\ ListOf(S) \in TidyList
         /\ Ids(ListOf(S)) = S
<1> DEFINE L == MaxChunks
           Next1(o, n) == IF n \in S THEN Joined(o, Single(n)) ELSE o
           step == [p \in TidyList \X Nat |->
                      IF p[2] \in 1..L /\ Next1(p[1], p[2]) \in TidyList
                      THEN Next1(p[1], p[2]) ELSE p[1]]
           F(f) == f = [n \in 0..L |-> IF n = 0 THEN <<>> ELSE Next1(f[n-1], n)]
           out == CHOOSE f : F(f)
           Good(o, n) ==
             /\ o \in TidyList
             /\ o # <<>> => Last(o).lo <= n /\ Last(o).hi <= n
             /\ \A x : x \in Ids(o) <=> x \in S /\ x <= n
<1>1. L \in Nat /\ \A x \in S : x \in Nat /\ 1 <= x /\ x <= L
  BY SizeAssumption DEF Chunk
<1>2. Good(<<>>, 0)
  <2>1. <<>> \in TidyList
    BY DEF TidyList, Tidy, List
  <2>2. Ids(<<>>) = {}
    BY DEF Ids
  <2> QED
    BY <1>1, <2>1, <2>2
<1>3. ASSUME NEW o, NEW n \in 1..L, Good(o, n-1)
      PROVE  Good(Next1(o, n), n)
  <2>1. o # <<>> => Last(o).lo \in Nat /\ Last(o).hi \in Nat
    <3>1. ASSUME o # <<>> PROVE Last(o).lo \in Nat /\ Last(o).hi \in Nat
      <4>1. Len(o) \in 1..Len(o)
        BY <1>3, <3>1, InTidyList DEF List
      <4> QED
        BY <4>1, <1>3, InTidyList DEF Last
    <3> QED
      BY <3>1
  <2>2. n - 1 \in Nat /\ n \in Nat
    BY <1>1
  <2>3. CASE n \in S
    <3> DEFINE iv == Single(n)
    <3>1. iv \in Interval /\ iv.lo = n /\ iv.hi = n /\ 1 <= n
      BY <1>1, <2>2 DEF Single, Interval
    <3> HIDE DEF iv
    <3>2. o # <<>> => Last(o).lo <= iv.lo /\ Last(o).hi <= iv.hi
      BY <1>3, <2>1, <2>2, <3>1
    <3>3. /\ Joined(o, iv) \in TidyList
          /\ Last(Joined(o, iv)).lo <= iv.lo /\ Last(Joined(o, iv)).hi = iv.hi
          /\ \A x : x \in Ids(Joined(o, iv)) <=>
                      x \in Ids(o) \/ (x \in Int /\ iv.lo <= x /\ x <= iv.hi)
      BY <1>3, <2>2, <3>1, <3>2, JoinedList
    <3>4. Next1(o, n) = Joined(o, iv)
      BY <2>3 DEF iv
    <3>5. ASSUME NEW x
          PROVE  x \in Ids(o) \/ (x \in Int /\ iv.lo <= x /\ x <= iv.hi) <=> x \in S /\ x <= n
      <4>1. x \in Ids(o) <=> x \in S /\ x <= n - 1
        BY <1>3
      <4>2. x \in S => x \in Nat
        BY <1>1
      <4>3. x \in Int /\ iv.lo <= x /\ x <= iv.hi <=> x = n
        BY <2>2, <3>1
      <4> QED
        BY <2>2, <2>3, <4>1, <4>2, <4>3
    <3> HIDE DEF Next1
    <3> QED
      BY <2>2, <3>1, <3>3, <3>4, <3>5
  <2>4. CASE n \notin S
    <3>1. \A x \in S : x <= n - 1 <=> x <= n
      BY <1>1, <2>2, <2>4
    <3>2. o # <<>> => Last(o).lo <= n /\ Last(o).hi <= n
      BY <1>3, <2>1, <2>2
    <3> QED
      BY <1>3, <2>4, <3>1, <3>2
  <2> QED
    BY <2>3, <2>4
<1> HIDE DEF Good, Next1
<1>4. ASSUME NEW g, g[0] = <<>>,
             \A n \in 1..L : Good(g[n-1], n-1) => g[n] = Next1(g[n-1], n)
      PROVE  \A n \in 0..L : Good(g[n], n)
  <2> DEFINE T == {n \in Nat : n <= L => Good(g[n], n)}
  <2>1. 0 \in T
    BY <1>2, <1>4
  <2>2. ASSUME NEW n \in T PROVE n + 1 \in T
    <3> SUFFICES ASSUME n + 1 <= L PROVE Good(g[n+1], n+1)
      OBVIOUS
    <3>1. n + 1 \in 1..L /\ (n + 1) - 1 = n /\ n <= L
      BY <1>1
    <3> QED
      BY <1>3, <1>4, <3>1
  <2> HIDE DEF T
  <2>3. T \in SUBSET Nat
    BY DEF T
  <2>4. T = Nat
    BY <2>1, <2>2, <2>3, Induction
  <2> QED
    BY <2>4, <1>1 DEF T
<1>5. step \in [TidyList \X Nat -> TidyList] /\ <<>> \in TidyList
  BY <1>2 DEF Good
<1> HIDE DEF step
<1>6. PICK f : f[0] = <<>> /\ \A i \in 1..L : f[i] = step[<<f[i-1], i>>] /\ f[i-1] \in TidyList
  <2>1. PICK f : f \in Chains(TidyList, <<>>, step, L)
    BY <1>1, <1>5, Recursion
  <2>2. \A i \in 1..L : i - 1 \in 0..L
    BY <1>1
  <2> QED
    BY <2>1, <2>2 DEF Chains
<1>7. ASSUME NEW n \in 1..L, Good(f[n-1], n-1)
      PROVE  f[n] = Next1(f[n-1], n)
  <2>1. n - 1 \in 0..L /\ n \in Nat
    BY <1>1
  <2>2. Next1(f[n-1], n) \in TidyList
    BY <1>3, <1>7 DEF Good
  <2> QED
    BY <1>6, <2>1, <2>2 DEF step
<1>8. F([n \in 0..L |-> f[n]])
  <2>1. \A n \in 0..L : n # 0 => n \in 1..L /\ n - 1 \in 0..L
    BY <1>1
  <2>2. \A n \in 0..L : Good(f[n], n)
    BY <1>4, <1>6, <1>7
  <2>3. \A n \in 1..L : n - 1 \in 0..L
    BY <1>1
  <2>4. \A n \in 1..L : f[n] = Next1(f[n-1], n)
    BY <1>7, <2>2, <2>3
  <2> QED
    BY <1>1, <1>6, <2>1, <2>4
<1>9. F(out)
  BY <1>8
<1>10. Good(out[L], L) /\ ListOf(S) = out[L]
  <2>1. ListOf(S) = out[L]
    BY DEF ListOf, Next1
  <2> HIDE DEF out
  <2>2. out[0] = <<>>
    BY <1>1, <1>9
  <2>3. \A n \in 1..L : out[n] = Next1(out[n-1], n)
    BY <1>1, <1>9
  <2>4. \A n \in 0..L : Good(out[n], n)
    BY <1>4, <2>2, <2>3
  <2> QED
    BY <1>1, <2>1, <2>4
<1>11. \A x : x \in Ids(ListOf(S)) <=> x \in S
  BY <1>1, <1>10 DEF Good
<1> QED
  BY <1>10, <1>11 DEF Good
\* What findMissedChunkIds finds is what there is here and not there.
LEMMA MissedList ==
  ASSUME MaxChunks <= Infinite,
         NEW mine \in List, Ids(mine) \subseteq Chunk, NEW other \in TidyList
  PROVE  Missed(mine, other) = Ids(mine) \ Ids(other)
<1> DEFINE m == Len(other)
           gap(j) == [lo |-> IF j = 0 THEN 1 ELSE other[j].hi + 1,
                      hi |-> IF j = m THEN Infinite ELSE other[j+1].lo - 1]
<1>1. /\ other \in List /\ m \in Nat
      /\ \A j \in 1..m : /\ other[j].lo \in Nat /\ other[j].hi \in Nat
                         /\ other[j].lo <= other[j].hi
  BY InTidyList
<1>2. \A n \in Ids(mine) : n \in Nat /\ 1 <= n /\ n <= Infinite
  BY SizeAssumption DEF Chunk, Infinite
<1>3. \A n : n \in Missed(mine, other) <=>
             n \in Ids(mine) /\ \E j \in 0..m : gap(j).lo <= n /\ n <= gap(j).hi
  BY DEF Missed, Gaps
<1>4. ASSUME NEW n \in Ids(mine), NEW j \in 0..m, gap(j).lo <= n, n <= gap(j).hi, n \in Ids(other)
      PROVE  FALSE
  <2>1. PICK i \in 1..m : other[i].lo <= n /\ n <= other[i].hi
    BY <1>1, <1>4, InIds
  <2>2. CASE i <= j
    <3>1. j \in 1..m /\ other[j].hi + 1 <= n
      BY <1>1, <1>4, <2>2
    <3>2. i # j => other[i].hi + 1 < other[j].lo
      BY <1>1, <2>2, <3>1, TidyOrdered
    <3> QED
      BY <1>1, <1>2, <2>1, <3>1, <3>2
  <2>3. CASE j < i
    <3>1. j # m /\ j + 1 \in 1..m
      BY <1>1, <2>3
    <3>2. n <= other[j+1].lo - 1
      BY <1>4, <3>1
    <3>3. i # j + 1 => other[j+1].hi + 1 < other[i].lo
      BY <1>1, <2>3, <3>1, TidyOrdered, SMTT(30)
    <3> QED
      BY <1>1, <1>2, <2>1, <3>1, <3>2, <3>3
  <2> QED
    BY <1>1, <2>2, <2>3
<1>5. ASSUME NEW n \in Ids(mine), n \notin Ids(other)
      PROVE  \E j \in 0..m : gap(j).lo <= n /\ n <= gap(j).hi
  <2> DEFINE iv == Single(n)
  <2>1. iv \in Interval /\ iv.lo = n
    BY <1>2 DEF Single, Interval
  <2> HIDE DEF iv
  <2>2. PICK k \in 0..m : {j \in 1..m : other[j].hi < n} = 1..k
    BY <2>1, Place
  <2>3. gap(k).lo <= n
    <3>1. CASE k = 0
      BY <1>2, <3>1
    <3>2. CASE k # 0
      <4>1. k \in 1..k /\ k \in 1..m
        BY <1>1, <3>2
      <4>2. other[k].hi < n
        BY <2>2, <4>1
      <4> QED
        BY <1>1, <1>2, <3>2, <4>1, <4>2
    <3> QED
      BY <3>1, <3>2
  <2>4. n <= gap(k).hi
    <3>1. CASE k = m
      BY <1>2, <3>1
    <3>2. CASE k # m
      <4>1. k + 1 \in 1..m /\ k + 1 \notin 1..k
        BY <1>1, <3>2
      <4>2. ~(other[k+1].hi < n)
        BY <2>2, <4>1
      <4>3. ~(other[k+1].lo <= n /\ n <= other[k+1].hi)
        BY <1>1, <1>2, <1>5, <4>1, InIds
      <4> QED
        BY <1>1, <1>2, <3>2, <4>1, <4>2, <4>3
    <3> QED
      BY <3>1, <3>2
  <2> QED
    BY <2>3, <2>4
<1> HIDE DEF gap
<1> QED
  BY <1>3, <1>4, <1>5
-----------------------------------------------------------------------------
(* The invariant.                                                          *)

\* What makes the properties inductive: the chunks of a drone's own map are the
\* first ones, what is anywhere is with its owner, and what was stamped is tidy.
Made(o) == IF o \in Drone THEN filled[o][o] ELSE {}
OwnFirst == \A d \in Drone : \E n \in Chunk \cup {0} : filled[d][d] = 1..n
AllMade == \A d \in Drone, o \in Owner : filled[d][o] \cup buffer[d][o] \subseteq Made(o)
StampsTidy == \A s \in stamps, o \in Owner : Tidy(s.lists[o])
ChunkInv ==
  TypeOK /\ ListsExact /\ ListsTidy /\ OwnFirst /\ AllMade /\ StampsTidy

LEMMA DroneOwns == Drone \subseteq Owner
BY DroneAssumption DEF Owner

LEMMA Division ==
  ASSUME NEW a \in Nat, NEW c \in Nat \ {0}
  PROVE  a \div c \in Nat /\ \E r \in 0..(c-1) : a = (a \div c) * c + r
OBVIOUS

\* What the voxels of a drone are cut into.
LEMMA CutSize ==
  ASSUME NEW n \in Nat
  PROVE  /\ Cut(n) \in Nat
         /\ n < ChunkSize => Cut(n) = 0
         /\ n - Cut(n) * ChunkSize \in 0..ChunkSize
<1>1. ChunkSize \in Nat \ {0}
  BY SizeAssumption
<1>2. CASE n >= ChunkSize
  <2> DEFINE a == n - 1
             q == a \div ChunkSize
  <2>1. a \in Nat
    BY <1>1, <1>2
  <2> HIDE DEF a
  <2>2. q \in Nat /\ \E r \in 0..(ChunkSize-1) : a = q * ChunkSize + r
    BY <1>1, <2>1, Division
  <2>3. Cut(n) = q
    BY <1>2 DEF Cut, a
  <2> HIDE DEF q
  <2>4. q * ChunkSize \in Nat
    BY <1>1, <2>2
  <2>5. n - q * ChunkSize \in 0..ChunkSize
    BY <1>1, <2>2, <2>4 DEF a
  <2> QED
    BY <1>1, <1>2, <2>2, <2>3, <2>5
<1>3. CASE ~(n >= ChunkSize)
  <2>1. Cut(n) = 0
    BY <1>3 DEF Cut
  <2> QED
    BY <1>1, <1>3, <2>1
<1> QED
  BY <1>2, <1>3

\* The parts of the invariant that are about lists, in one.
LEMMA ListsAre ==
  ASSUME TypeOK, ListsTidy, NEW d \in Drone, NEW o \in Owner
  PROVE  idxList[d][o] \in TidyList
BY DEF TypeOK, ListsTidy, TidyList, List

LEMMA InitInv == Init => ChunkInv
<1> SUFFICES ASSUME Init PROVE ChunkInv
  OBVIOUS
<1>1. <<>> \in Seq(Interval) /\ Tidy(<<>>) /\ Ids(<<>>) = {}
  BY DEF Tidy, Ids
<1>2. TypeOK
  BY <1>1, SizeAssumption DEF Init, TypeOK
<1>3. ListsExact /\ ListsTidy /\ AllMade /\ StampsTidy
  BY <1>1 DEF Init, ListsExact, ListsTidy, AllMade, StampsTidy
<1>4. OwnFirst
  <2>1. 1..0 = {}
    OBVIOUS
  <2> QED
    BY <2>1, DroneOwns DEF Init, OwnFirst
<1> QED
  BY <1>2, <1>3, <1>4 DEF ChunkInv

\* The list of a drone's own chunks is one interval from 1.
LEMMA OwnList ==
  ASSUME ChunkInv, NEW d \in Drone, NEW k \in Nat, filled[d][d] = 1..k
  PROVE  IF k = 0 THEN idxList[d][d] = <<>> ELSE idxList[d][d] = <<[lo |-> 1, hi |-> k]>>
<1> DEFINE list == idxList[d][d]
<1>1. list \in TidyList /\ Ids(list) = 1..k
  BY DroneOwns, ListsAre DEF ChunkInv, ListsExact
<1> HIDE DEF list
<1>2. CASE k = 0
  <2>1. ASSUME list # <<>> PROVE FALSE
    <3>1. 1 \in 1..Len(list) /\ list \in List
      BY <1>1, <2>1, InTidyList DEF List
    <3>2. list[1].lo \in Ids(list)
      BY <1>1, <3>1, InTidyList, InIds
    <3> QED
      BY <1>1, <1>2, <3>2
  <2> QED
    BY <1>2, <2>1 DEF list
<1>3. CASE k # 0
  BY <1>1, <1>3, TidyPrefix DEF list
<1> QED
  BY <1>2, <1>3

LEMMA ExploreInv ==
  ASSUME ChunkInv, NEW d \in Drone, NEW n \in Batch, Explore(d, n)
  PROVE  ChunkInv'
<1> DEFINE size == voxels[d] + n
           known == filled[d][d]
           last == Cardinality(known) + Cut(size)
<1>1. d \in Owner /\ TypeOK /\ n \in Nat /\ ChunkSize \in Nat \ {0} /\ MaxChunks \in Nat
  BY DroneOwns, SizeAssumption DEF ChunkInv
<1>2. size \in Nat
  BY <1>1 DEF TypeOK
<1>3. /\ Cut(size) \in Nat
      /\ size < ChunkSize => Cut(size) = 0
      /\ size - Cut(size) * ChunkSize \in 0..ChunkSize
  <2> HIDE DEF size
  <2> QED
    BY <1>2, CutSize
<1>4. PICK k \in Nat : known = 1..k
  BY DEF ChunkInv, OwnFirst, Chunk
<1>5. Cardinality(known) = k
  BY <1>4, FS_Interval
<1>6. /\ last \in 0..MaxChunks /\ k <= last
      /\ size < ChunkSize => last = k
      /\ ~(size < ChunkSize) => last # 0
  <2>1. last = k + Cut(size) /\ last <= MaxChunks /\ (last > 0 \/ size < ChunkSize)
    BY <1>5 DEF Explore
  <2>2. Cut(size) \in Nat /\ (size < ChunkSize => Cut(size) = 0)
    BY <1>3
  <2> HIDE DEF size, last
  <2>3. last \in Nat
    BY <2>1, <2>2
  <2> QED
    BY <1>1, <2>1, <2>2, <2>3
<1>7. /\ filled' = [filled EXCEPT ![d][d] = known \cup 1..last]
      /\ voxels' = [voxels EXCEPT ![d] = size - Cut(size) * ChunkSize]
      /\ UNCHANGED <<up, buffer, stamps>>
  BY DEF Explore
<1>8. known \cup 1..last = 1..last /\ 1..last \subseteq Chunk
  <2> HIDE DEF last, known
  <2> QED
    BY <1>1, <1>4, <1>6 DEF Chunk
<1>9. idxList' = [idxList EXCEPT ![d][d] = IF size < ChunkSize THEN @ ELSE <<[lo |-> 1, hi |-> last]>>]
  <2>1. CASE size < ChunkSize
    <3>1. idxList' = idxList
      BY <2>1 DEF Explore
    <3> QED
      BY <2>1, <3>1, <1>1 DEF TypeOK
  <2>2. CASE ~(size < ChunkSize)
    <3>1. idxList' = [idxList EXCEPT ![d][d] =
                        IF @ = <<>> THEN <<[lo |-> 1, hi |-> last]>>
                        ELSE Append(Front(@), [lo |-> Last(@).lo, hi |-> last])]
      BY <2>2 DEF Explore
    <3>2. idxList[d][d] = <<>> \/ idxList[d][d] = <<[lo |-> 1, hi |-> k]>>
      BY <1>4, OwnList
    <3>3. ASSUME NEW list, list = <<[lo |-> 1, hi |-> k]>>, NEW l
          PROVE  Append(Front(list), [lo |-> Last(list).lo, hi |-> l]) = <<[lo |-> 1, hi |-> l]>>
      <4>1. Len(list) = 1 /\ Last(list).lo = 1
        BY <3>3 DEF Last
      <4>2. Front(list) = <<>>
        BY <4>1, SubSeqEmpty DEF Front
      <4> QED
        BY <4>1, <4>2
    <3> QED
      BY <2>2, <3>1, <3>2, <3>3
  <2> QED
    BY <2>1, <2>2
<1>10. ASSUME ~(size < ChunkSize)
       PROVE  LET list == <<[lo |-> 1, hi |-> last]>>
              IN  list \in TidyList /\ Ids(list) = 1..last
  <2> DEFINE list == <<[lo |-> 1, hi |-> last]>>
  <2>1. last \in Nat /\ 1 <= last
    BY <1>6, <1>10, <1>1
  <2> HIDE DEF last
  <2>2. list \in List /\ Len(list) = 1 /\ list[1].lo = 1 /\ list[1].hi = last
    BY <2>1 DEF List, Interval
  <2> HIDE DEF list
  <2>3. 1..Len(list) = {1} /\ 1..Len(list)-1 = {}
    BY <2>2
  <2>4. Tidy(list)
    BY <2>1, <2>2, <2>3 DEF Tidy
  <2>5. \A x : x \in Ids(list) <=> x \in 1..last
    BY <2>1, <2>2, <2>3, InIds
  <2> QED
    BY <2>2, <2>4, <2>5 DEF TidyList, list
<1> HIDE DEF last, known, size
<1>11. TypeOK'
  <2>1. filled' \in [Drone -> [Owner -> SUBSET Chunk]]
    BY <1>1, <1>7, <1>8 DEF TypeOK
  <2>2. voxels' \in [Drone -> 0..ChunkSize]
    BY <1>1, <1>3, <1>7 DEF TypeOK
  <2>3. idxList' \in [Drone -> [Owner -> Seq(Interval)]]
    BY <1>1, <1>9, <1>10 DEF TypeOK, TidyList, List
  <2> QED
    BY <1>1, <1>7, <2>1, <2>2, <2>3 DEF TypeOK
<1>12. ASSUME NEW e \in Drone, NEW o \in Owner
       PROVE  /\ Ids(idxList'[e][o]) = filled'[e][o] /\ Tidy(idxList'[e][o])
              /\ filled[e][o] \subseteq filled'[e][o]
              /\ e # o => filled'[e][o] = filled[e][o]
  <2>1. /\ Ids(idxList[e][o]) = filled[e][o]
        /\ Tidy(idxList[e][o])
    BY DEF ChunkInv, ListsExact, ListsTidy
  <2>2. CASE e = d /\ o = d
    <3>1. filled'[d][d] = 1..last
      BY <1>1, <1>7, <1>8 DEF TypeOK
    <3>2. filled[d][d] \subseteq 1..last
      BY <1>8 DEF known
    <3>3. CASE size < ChunkSize
      <4>1. idxList'[d][d] = idxList[d][d] /\ 1..last = filled[d][d]
        BY <3>3, <1>1, <1>4, <1>6, <1>9 DEF TypeOK, known
      <4> QED
        BY <2>1, <2>2, <3>1, <4>1
    <3>4. CASE ~(size < ChunkSize)
      <4>1. idxList'[d][d] = <<[lo |-> 1, hi |-> last]>>
        BY <3>4, <1>1, <1>9 DEF TypeOK
      <4> QED
        BY <1>10, <2>2, <3>1, <3>2, <3>4, <4>1 DEF TidyList
    <3> QED
      BY <3>3, <3>4
  <2>3. CASE ~(e = d /\ o = d)
    <3>1. filled'[e][o] = filled[e][o] /\ idxList'[e][o] = idxList[e][o]
      BY <1>1, <1>7, <1>9, <2>3 DEF TypeOK
    <3> QED
      BY <2>1, <3>1
  <2> QED
    BY <2>2, <2>3
<1>13. OwnFirst'
  <2> SUFFICES ASSUME NEW e \in Drone PROVE \E i \in Chunk \cup {0} : filled'[e][e] = 1..i
    BY DEF OwnFirst
  <2>1. CASE e = d
    <3>1. filled'[d][d] = 1..last
      BY <1>1, <1>7, <1>8 DEF TypeOK
    <3>2. last \in Chunk \cup {0}
      BY <1>1, <1>6 DEF Chunk
    <3> QED
      BY <2>1, <3>1, <3>2
  <2>2. CASE e # d
    <3>1. filled'[e][e] = filled[e][e]
      BY <1>1, <1>7, <2>2 DEF TypeOK
    <3> QED
      BY <3>1 DEF ChunkInv, OwnFirst
  <2> QED
    BY <2>1, <2>2
<1>14. AllMade'
  <2> SUFFICES ASSUME NEW e \in Drone, NEW o \in Owner
               PROVE  filled'[e][o] \cup buffer'[e][o] \subseteq Made(o)'
    BY DEF AllMade
  <2>1. filled[e][o] \cup buffer[e][o] \subseteq Made(o)
    BY DEF ChunkInv, AllMade
  <2>2. o \notin Drone => Made(o)' = {} /\ Made(o) = {} /\ e # o
    BY DEF Made
  <2>3. o \in Drone => /\ Made(o)' = filled'[o][o] /\ Made(o) = filled[o][o]
                       /\ filled[o][o] \subseteq filled'[o][o]
    BY <1>12 DEF Made
  <2> QED
    BY <1>7, <1>12, <2>1, <2>2, <2>3
<1> QED
  BY <1>7, <1>11, <1>12, <1>13, <1>14 DEF ChunkInv, ListsExact, ListsTidy, StampsTidy
LEMMA StampInv ==
  ASSUME ChunkInv, NEW d \in Drone, Stamp(d)
  PROVE  ChunkInv'
<1>1. /\ stamps' = stamps \cup {[from |-> d, to |-> e, lists |-> idxList[d]] : e \in InRange(d)}
      /\ UNCHANGED <<up, voxels, filled, idxList, buffer>>
  BY DEF Stamp
<1>2. InRange(d) \subseteq Drone
  BY DEF InRange
<1>3. ASSUME NEW s \in stamps', s \notin stamps
      PROVE  s \in [from : Drone, to : Drone, lists : {idxList[d]}]
  BY <1>1, <1>2, <1>3
<1>4. TypeOK'
  <2>1. idxList[d] \in [Owner -> Seq(Interval)] /\ TypeOK
    BY DEF ChunkInv, TypeOK
  <2> QED
    BY <1>1, <1>3, <2>1 DEF TypeOK
<1>5. StampsTidy'
  <2> SUFFICES ASSUME NEW s \in stamps', NEW o \in Owner
               PROVE  Tidy(s.lists[o])
    BY DEF StampsTidy
  <2>1. CASE s \in stamps
    BY <2>1 DEF ChunkInv, StampsTidy
  <2>2. CASE s \notin stamps
    <3>1. s.lists = idxList[d]
      BY <1>3, <2>2
    <3> QED
      BY <3>1 DEF ChunkInv, ListsTidy
  <2> QED
    BY <2>1, <2>2
<1> QED
  BY <1>1, <1>4, <1>5 DEF ChunkInv, ListsExact, ListsTidy, OwnFirst, AllMade, Made

\* All that is answered has been made by its owner.
LEMMA AnswerMade ==
  ASSUME ChunkInv, NEW s \in stamps, NEW o \in Owner
  PROVE  Answer(s)[o] \subseteq Chunk /\ Answer(s)[o] \subseteq Made(o)
<1>1. s.to \in Drone
  BY DEF ChunkInv, TypeOK
<1>2. Ids(idxList[s.to][o]) = filled[s.to][o]
  BY <1>1 DEF ChunkInv, ListsExact
<1>3. filled[s.to][o] \subseteq Made(o) /\ filled[s.to][o] \subseteq Chunk
  BY <1>1 DEF ChunkInv, AllMade, TypeOK
<1>4. Missed(idxList[s.to][o], s.lists[o]) \subseteq Ids(idxList[s.to][o])
  BY DEF Missed
<1> QED
  BY <1>2, <1>3, <1>4 DEF Answer

LEMMA HearStampInv ==
  ASSUME ChunkInv, NEW s \in stamps, NEW lost, HearStamp(s, lost)
  PROVE  ChunkInv'
<1>1. /\ stamps' = stamps \ {s}
      /\ UNCHANGED <<up, voxels, filled, idxList>>
      /\ buffer' = [e \in Drone |-> IF e \notin InRange(s.to) THEN buffer[e] ELSE
           [o \in Owner |-> buffer[e][o] \cup {n \in Answer(s)[o] : <<e, o, n>> \notin lost}]]
  BY DEF HearStamp
<1>2. ASSUME NEW e \in Drone, NEW o \in Owner
      PROVE  /\ buffer'[e] \in [Owner -> SUBSET Chunk]
             /\ buffer'[e][o] \subseteq Made(o)
  <2>1. /\ buffer[e] \in [Owner -> SUBSET Chunk]
        /\ buffer[e][o] \subseteq Made(o)
    BY DEF ChunkInv, TypeOK, AllMade
  <2>2. \A i \in Owner : Answer(s)[i] \subseteq Chunk /\ Answer(s)[i] \subseteq Made(i)
    BY AnswerMade
  <2>3. CASE e \notin InRange(s.to)
    BY <1>1, <2>1, <2>3
  <2>4. CASE e \in InRange(s.to)
    <3>1. buffer'[e] = [i \in Owner |-> buffer[e][i] \cup {n \in Answer(s)[i] : <<e, i, n>> \notin lost}]
      BY <1>1, <2>4
    <3> QED
      BY <2>1, <2>2, <3>1
  <2> QED
    BY <2>3, <2>4
<1>3. TypeOK'
  <2>1. buffer' \in [Drone -> [Owner -> SUBSET Chunk]]
    <3>1. DOMAIN buffer' = Drone /\ buffer' = [e \in Drone |-> buffer'[e]]
      BY <1>1
    <3>2. \A e \in Drone : buffer'[e] \in [Owner -> SUBSET Chunk]
      <4> TAKE e \in Drone
      <4>1. e \in Owner
        BY DroneOwns
      <4> QED
        BY <1>2, <4>1
    <3> QED
      BY <3>1, <3>2
  <2> QED
    BY <1>1, <2>1 DEF ChunkInv, TypeOK
<1>4. AllMade'
  BY <1>1, <1>2 DEF ChunkInv, AllMade, Made
<1> QED
  BY <1>1, <1>3, <1>4 DEF ChunkInv, ListsExact, ListsTidy, OwnFirst, StampsTidy

LEMMA ChunkTimerInv ==
  ASSUME ChunkInv, NEW d \in Drone, ChunkTimer(d)
  PROVE  ChunkInv'
<1> DEFINE new(o) == IF buffer[d][o] = {} THEN idxList[d][o]
                     ELSE Merge(ListOf(buffer[d][o]), idxList[d][o])
<1>1. /\ filled' = [filled EXCEPT ![d] = [o \in Owner |-> filled[d][o] \cup buffer[d][o]]]
      /\ idxList' = [idxList EXCEPT ![d] = [o \in Owner |-> new(o)]]
      /\ buffer' = [buffer EXCEPT ![d] = [o \in Owner |-> {}]]
      /\ UNCHANGED <<up, voxels, stamps>>
  BY DEF ChunkTimer, ChunkInv, TypeOK
<1>2. TypeOK /\ ListsTidy /\ ListsExact
  BY DEF ChunkInv
<1>3. ASSUME NEW o \in Owner
      PROVE  new(o) \in TidyList /\ Ids(new(o)) = filled[d][o] \cup buffer[d][o]
  <2>1. idxList[d][o] \in TidyList /\ Ids(idxList[d][o]) = filled[d][o]
    BY <1>2, ListsAre DEF ListsExact
  <2>2. CASE buffer[d][o] = {}
    BY <2>1, <2>2
  <2>3. CASE buffer[d][o] # {}
    <3> DEFINE S == buffer[d][o]
               list1 == ListOf(S)
    <3>1. S \in SUBSET Chunk
      BY <1>2 DEF TypeOK
    <3>2. list1 \in TidyList /\ Ids(list1) = S
      BY <3>1, ListOfSet
    <3>3. Ids(<<>>) = {}
      BY DEF Ids
    <3>4. list1 # <<>>
      BY <2>3, <3>2, <3>3
    <3> HIDE DEF list1
    <3>5. /\ Merge(list1, idxList[d][o]) \in TidyList
          /\ Ids(Merge(list1, idxList[d][o])) = S \cup filled[d][o]
      BY <2>1, <3>2, <3>4, MergeList
    <3>6. new(o) = Merge(list1, idxList[d][o])
      BY <2>3 DEF list1
    <3> QED
      BY <3>5, <3>6
  <2> QED
    BY <2>2, <2>3
<1> HIDE DEF new
<1>4. ASSUME NEW e \in Drone, NEW o \in Owner
      PROVE  IF e = d
             THEN /\ filled'[e][o] = filled[d][o] \cup buffer[d][o]
                  /\ idxList'[e][o] = new(o) /\ buffer'[e][o] = {}
             ELSE /\ filled'[e][o] = filled[e][o]
                  /\ idxList'[e][o] = idxList[e][o] /\ buffer'[e][o] = buffer[e][o]
  BY <1>1, <1>2 DEF TypeOK
<1>5. TypeOK'
  <2>1. filled' \in [Drone -> [Owner -> SUBSET Chunk]]
    BY <1>1, <1>2 DEF TypeOK
  <2>2. buffer' \in [Drone -> [Owner -> SUBSET Chunk]]
    BY <1>1, <1>2 DEF TypeOK
  <2>3. idxList' \in [Drone -> [Owner -> Seq(Interval)]]
    BY <1>1, <1>2, <1>3 DEF TypeOK, TidyList, List
  <2> QED
    BY <1>1, <1>2, <2>1, <2>2, <2>3 DEF TypeOK
<1>6. ListsExact' /\ ListsTidy'
  <2>1. ASSUME NEW e \in Drone, NEW o \in Owner
        PROVE  Ids(idxList'[e][o]) = filled'[e][o] /\ Tidy(idxList'[e][o])
    <3>1. CASE e = d
      BY <1>3, <1>4, <3>1 DEF TidyList
    <3>2. CASE e # d
      BY <1>2, <1>4, <3>2 DEF ListsExact, ListsTidy
    <3> QED
      BY <3>1, <3>2
  <2> QED
    BY <2>1 DEF ListsExact, ListsTidy
<1>7. \A e \in Drone, o \in Owner : filled[e][o] \cup buffer[e][o] \subseteq Made(o)
  BY DEF ChunkInv, AllMade
<1>8. \A e \in Drone : filled'[e][e] = filled[e][e]
  <2> TAKE e \in Drone
  <2>1. e \in Owner /\ buffer[e][e] \subseteq filled[e][e]
    BY <1>7, DroneOwns DEF Made
  <2> QED
    BY <1>4, <2>1
<1>9. OwnFirst'
  BY <1>8 DEF ChunkInv, OwnFirst
<1>10. \A o \in Owner : Made(o)' = Made(o)
  BY <1>8 DEF Made
<1>11. AllMade'
  BY <1>4, <1>7, <1>10 DEF AllMade
<1> QED
  BY <1>1, <1>5, <1>6, <1>9, <1>11 DEF ChunkInv, StampsTidy

\* Every step of every drone keeps the lists what they are.
LEMMA NextInv == ChunkInv /\ [Next]_vars => ChunkInv'
<1> SUFFICES ASSUME ChunkInv, [Next]_vars PROVE ChunkInv'
  OBVIOUS
<1> USE DEF ChunkInv
<1>1. ASSUME NEW d \in Drone, NEW n \in Batch, Explore(d, n) PROVE ChunkInv'
  BY <1>1, ExploreInv
<1>2. ASSUME NEW d \in Drone, NEW n \in Batch, Crash(d, n) PROVE ChunkInv'
  <2>1. up' = [up EXCEPT ![d] = FALSE] /\ UNCHANGED <<voxels, filled, idxList, buffer, stamps>>
    BY <1>2 DEF Crash
  <2>2. TypeOK'
    BY <2>1 DEF TypeOK
  <2> QED
    BY <2>1, <2>2 DEF ListsExact, ListsTidy, OwnFirst, AllMade, Made, StampsTidy
<1>3. ASSUME NEW d \in Drone, Stamp(d) PROVE ChunkInv'
  BY <1>3, StampInv
<1>4. ASSUME NEW d \in Drone, ChunkTimer(d) PROVE ChunkInv'
  BY <1>4, ChunkTimerInv
<1>5. ASSUME NEW s \in stamps, DropStamp(s) PROVE ChunkInv'
  BY <1>5 DEF DropStamp, TypeOK, ListsExact, ListsTidy, OwnFirst, AllMade, Made, StampsTidy
<1>6. ASSUME NEW s \in stamps, NEW lost, HearStamp(s, lost) PROVE ChunkInv'
  BY <1>6, HearStampInv
<1>7. CASE UNCHANGED vars
  BY <1>7 DEF vars, TypeOK, ListsExact, ListsTidy, OwnFirst, AllMade, Made, StampsTidy
<1> QED
  BY <1>1, <1>2, <1>3, <1>4, <1>5, <1>6, <1>7 DEF Next

THEOREM Invariant == Spec => []ChunkInv
<1>1. Init => ChunkInv
  BY InitInv
<1>2. ChunkInv /\ [Next]_vars => ChunkInv'
  BY NextInv
<1> QED
  BY <1>1, <1>2, PTL DEF Spec
-----------------------------------------------------------------------------
(* What follows from it.                                                   *)

\* Every variable holds what its C++ counterpart can, the voxel buffer no more
\* than a chunk.
THEOREM Types == Spec => []TypeOK
<1>1. ChunkInv => TypeOK
  BY DEF ChunkInv
<1> QED
  BY <1>1, Invariant, PTL

\* The idx list of a map names exactly the chunks that are there
\* (chunkTimerCallback, mergeChunkIds, updateMapChunk).
THEOREM ExactLists == Spec => []ListsExact
<1>1. ChunkInv => ListsExact
  BY DEF ChunkInv
<1> QED
  BY <1>1, Invariant, PTL

\* Its intervals stay in order and apart, whatever mergeChunkIds puts in.
THEOREM TidyLists == Spec => []ListsTidy
<1>1. ChunkInv => ListsTidy
  BY DEF ChunkInv
<1> QED
  BY <1>1, Invariant, PTL

\* What findMissedChunkIds finds through the gaps of a stamp is what is here
\* and was not there, as long as the numbers stay below the largest int, where
\* the last gap ends.
THEOREM ExactAnswers ==
  ASSUME MaxChunks <= Infinite
  PROVE  Spec => []AnswersExact
<1>1. ChunkInv => AnswersExact
  <2> SUFFICES ASSUME ChunkInv, NEW s \in stamps, NEW o \in Owner, o # s.from, Answers(s.to)
               PROVE  Answer(s)[o] = filled[s.to][o] \ Ids(s.lists[o])
    BY DEF AnswersExact
  <2>1. s.to \in Drone /\ s.lists[o] \in List /\ Tidy(s.lists[o])
    BY DEF ChunkInv, TypeOK, StampsTidy, List
  <2>2. idxList[s.to][o] \in List /\ Ids(idxList[s.to][o]) = filled[s.to][o]
    BY <2>1 DEF ChunkInv, TypeOK, ListsExact, List
  <2>3. filled[s.to][o] \subseteq Chunk
    BY <2>1 DEF ChunkInv, TypeOK
  <2>4. Answer(s)[o] = Missed(idxList[s.to][o], s.lists[o])
    BY DEF Answer
  <2> QED
    BY <2>1, <2>2, <2>3, <2>4, MissedList DEF TidyList
<1> QED
  BY <1>1, Invariant, PTL

\* Everything the callbacks do is a step of the gossip: a drone makes chunks
\* of its own, or learns what their owners have made, and forgets nothing.
THEOREM GossipIsImplemented == Spec => Implements
<1> DEFINE has == [d \in Drone |-> [o \in Owner |-> Ids(idxList[d][o])]]
<1>1. Init => Gossip!Init
  <2>1. Ids(<<>>) = {}
    BY DEF Ids
  <2> QED
    BY <2>1 DEF Init, Gossip!Init
<1>2. ChunkInv /\ ChunkInv' /\ [Next]_vars => [Gossip!Next]_has
  <2> SUFFICES ASSUME ChunkInv, ChunkInv', [Next]_vars PROVE Gossip!Next \/ UNCHANGED has
    OBVIOUS
  <2>1. TypeOK /\ TypeOK'
    BY DEF ChunkInv
  <2>2. has = filled /\ has' = filled'
    <3>1. /\ has = [d \in Drone |-> [o \in Owner |-> filled[d][o]]]
          /\ has' = [d \in Drone |-> [o \in Owner |-> filled'[d][o]]]
      BY DEF ChunkInv, ListsExact
    <3> QED
      BY <2>1, <3>1 DEF TypeOK
  <2>3. ASSUME NEW d \in Drone, NEW n \in Batch, Explore(d, n) PROVE Gossip!Make(d)
    <3>1. PICK S : filled' = [filled EXCEPT ![d][d] = filled[d][d] \cup S]
      BY <2>3 DEF Explore
    <3>2. d \in Owner
      BY DroneOwns
    <3>3. filled' = [filled EXCEPT ![d][d] = filled'[d][d]]
      BY <2>1, <3>1, <3>2 DEF TypeOK
    <3>4. filled[d][d] \subseteq filled'[d][d] /\ filled'[d][d] \subseteq Chunk
      BY <2>1, <3>1, <3>2 DEF TypeOK
    <3> QED
      BY <2>2, <3>3, <3>4 DEF Gossip!Make
  <2>4. ASSUME NEW d \in Drone, ChunkTimer(d) PROVE Gossip!Learn(d)
    <3>1. filled' = [filled EXCEPT ![d] = [o \in Owner |-> filled[d][o] \cup buffer[d][o]]]
      BY <2>1, <2>4 DEF ChunkTimer, TypeOK
    <3>2. \A e \in Drone \ {d} : filled'[e] = filled[e]
      BY <2>1, <3>1 DEF TypeOK
    <3>3. ASSUME NEW o \in Owner
          PROVE  /\ filled[d][o] \subseteq filled'[d][o]
                 /\ filled'[d][o] \subseteq
                      filled[d][o] \cup (IF o \in Drone THEN filled[o][o] ELSE {})
      <4>1. filled'[d][o] = filled[d][o] \cup buffer[d][o]
        BY <2>1, <3>1 DEF TypeOK
      <4>2. buffer[d][o] \subseteq Made(o)
        BY DEF ChunkInv, AllMade
      <4> QED
        BY <4>1, <4>2 DEF Made
    <3> QED
      BY <2>2, <3>2, <3>3 DEF Gossip!Learn
  <2>5. ASSUME UNCHANGED filled PROVE UNCHANGED has
    BY <2>2, <2>5
  <2> QED
    BY <2>3, <2>4, <2>5
       DEF Next, vars, Gossip!Next, Crash, Stamp, DropStamp, HearStamp
<1>3. ChunkInv /\ [Next]_vars => ChunkInv'
  BY NextInv
<1> QED
  BY <1>1, <1>2, <1>3, Invariant, PTL DEF Spec, Implements, Gossip!Spec
=============================================================================
