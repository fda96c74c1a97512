------------------------- MODULE TrainingTableProofs -------------------------
(***************************************************************************)
(* The labelled rows of a dataset, for any recording, any lists of         *)
(* intervals, and any length and hop of the windows.                       *)
(***************************************************************************)
EXTENDS TrainingTable, FiniteSetTheorems, WellFoundedInduction, TLAPS

Interval == [start: Nat, end: Nat]

-----------------------------------------------------------------------------
\* Least and greatest.

\* What is said of some number is said of a least one: the form in which the
\* proofs below use induction.
LEMMA LeastNumber ==
  ASSUME NEW T \in SUBSET Nat, T # {}
  PROVE  \E m \in T : \A n \in T : m <= n
<1>1. PICK m \in T : \A n \in T : <<n, m>> \notin OpToRel(<, Nat)
  BY WFMin, NatLessThanWellFounded, Zenon
<1>2. \A n \in T : ~(n < m)
  BY <1>1, Zenon DEF OpToRel
<1> QED
  BY <1>2

LEMMA MinIs ==
  ASSUME NEW S \in SUBSET Nat, S # {}
  PROVE  Min(S) \in S /\ \A x \in S : Min(S) <= x
BY LeastNumber DEF Min

LEMMA GreatestNumber ==
  ASSUME NEW S \in SUBSET Nat, S # {}, IsFiniteSet(S)
  PROVE  \E m \in S : \A n \in S : n <= m
<1> DEFINE Bad == {k \in Nat : \E U \in SUBSET S : U # {} /\ Cardinality(U) = k /\ ~ \E m \in U : \A n \in U : n <= m}
<1>1. Cardinality(S) \in Nat
  BY FS_CardinalityType
<1>2. ASSUME Bad # {} PROVE FALSE
  <2>1. PICK k \in Bad : \A j \in Bad : k <= j
    BY <1>2, LeastNumber
  <2>2. PICK U \in SUBSET S : U # {} /\ Cardinality(U) = k /\ ~ \E m \in U : \A n \in U : n <= m
    BY <2>1
  <2>3. IsFiniteSet(U) /\ k \in Nat
    BY <2>1, FS_Subset
  <2>4. PICK x \in U : TRUE
    BY <2>2
  <2> DEFINE V == U \ {x}
  <2>5. Cardinality(V) = k - 1 /\ Cardinality(V) \in Nat /\ V \in SUBSET S
    BY <2>2, <2>3, <2>4, FS_RemoveElement, FS_CardinalityType
  <2>6. PICK y \in V : \A n \in V : n <= y
    <3>1. V # {}
      BY <2>2, <2>4
    <3>2. Cardinality(V) \notin Bad
      BY <2>1, <2>3, <2>5
    <3> QED
      BY <2>5, <3>1, <3>2
  <2>7. x \in Nat /\ y \in Nat /\ x \in U /\ y \in U
    BY <2>4, <2>6
  <2>8. CASE x <= y
    BY <2>2, <2>6, <2>7, <2>8
  <2>9. CASE y <= x
    BY <2>2, <2>6, <2>7, <2>9
  <2> QED
    BY <2>7, <2>8, <2>9
<1> QED
  BY <1>1, <1>2

LEMMA MaxIs ==
  ASSUME NEW S \in SUBSET Nat, S # {}, IsFiniteSet(S)
  PROVE  Max(S) \in S /\ \A x \in S : x <= Max(S)
BY GreatestNumber DEF Max

LEMMA MinOfTwo ==
  ASSUME NEW a \in Nat, NEW b \in Nat
  PROVE  Min({a, b}) = IF a <= b THEN a ELSE b
<1>1. Min({a, b}) \in {a, b} /\ \A x \in {a, b} : Min({a, b}) <= x
  BY MinIs
<1> QED
  BY <1>1

LEMMA MaxOfTwo ==
  ASSUME NEW a \in Nat, NEW b \in Nat
  PROVE  Max({a, b}) = IF a >= b THEN a ELSE b
<1>1. \E m \in {a, b} : \A n \in {a, b} : m >= n
  OBVIOUS
<1>2. Max({a, b}) \in {a, b} /\ \A x \in {a, b} : Max({a, b}) >= x
  BY <1>1 DEF Max
<1> QED
  BY <1>2

-----------------------------------------------------------------------------
\* Whose window it is.

LEMMA OverlapIs ==
  ASSUME NEW s \in Nat, NEW f \in Interval
  PROVE  /\ Overlap(s, f) \in Int
         /\ Overlap(s, f) = (IF s + Length <= f.end THEN s + Length ELSE f.end)
                              - (IF s >= f.start THEN s ELSE f.start)
<1>1. s + Length \in Nat /\ f.start \in Nat /\ f.end \in Nat
  BY SpecType DEF Interval
<1>2. Min({s + Length, f.end}) = IF s + Length <= f.end THEN s + Length ELSE f.end
  BY <1>1, MinOfTwo
<1>3. Max({s, f.start}) = IF s >= f.start THEN s ELSE f.start
  BY <1>1, MaxOfTwo
<1> QED
  BY <1>1, <1>2, <1>3 DEF Overlap

\* One turn of label_window's loop.
Turn(s, best, n) ==
  IF n = 0 THEN NoFault
  ELSE IF Overlap(s, intervals[n]) > Claim(s, best[n - 1]) THEN intervals[n] ELSE best[n - 1]

Loop(s, n, best) == best = [i \in 0..n |-> Turn(s, best, i)]

\* The loop computes something, however many intervals there are.
LEMMA LoopEnds ==
  ASSUME NEW s, NEW N \in Nat
  PROVE  \E best : Loop(s, N, best)
<1> DEFINE Bad == {n \in Nat : ~ \E best : Loop(s, n, best)}
<1>1. ASSUME Bad # {} PROVE FALSE
  <2>1. PICK n \in Bad : \A m \in Bad : n <= m
    BY <1>1, LeastNumber
  <2>2. n \in Nat /\ ~ \E best : Loop(s, n, best)
    BY <2>1
  <2>3. CASE n = 0
    <3> DEFINE b == [i \in 0..0 |-> NoFault]
    <3>1. \A i \in 0..0 : Turn(s, b, i) = NoFault
      BY DEF Turn
    <3>2. b = [i \in 0..0 |-> Turn(s, b, i)]
      BY <3>1
    <3> QED
      BY <2>2, <2>3, <3>2 DEF Loop
  <2>4. CASE n # 0
    <3>1. n - 1 \in Nat /\ n - 1 \notin Bad
      BY <2>1, <2>2, <2>4
    <3>2. PICK b : Loop(s, n - 1, b)
      BY <3>1
    <3> DEFINE c == [i \in 0..n |-> IF i = n THEN Turn(s, b, n) ELSE b[i]]
    <3>3. \A i \in 0..(n - 1) : c[i] = b[i] /\ b[i] = Turn(s, b, i)
      <4>1. \A i \in 0..(n - 1) : b[i] = Turn(s, b, i)
        BY <3>2, Zenon DEF Loop
      <4>2. \A i \in 0..(n - 1) : i \in 0..n /\ i # n
        BY <2>2
      <4> QED
        BY <4>1, <4>2
    <3>4. \A i \in 0..n : Turn(s, c, i) = Turn(s, b, i)
      <4>1. \A i \in 0..n : i # 0 => i - 1 \in 0..(n - 1)
        BY <2>2
      <4> QED
        BY <3>3, <4>1 DEF Turn
    <3>5. \A i \in 0..n : c[i] = Turn(s, c, i)
      <4>1. \A i \in 0..n : i = n \/ i \in 0..(n - 1)
        BY <2>2
      <4> QED
        BY <3>3, <3>4, <4>1
    <3>6. c = [i \in 0..n |-> Turn(s, c, i)]
      BY <3>5
    <3> QED
      BY <2>2, <3>6 DEF Loop
  <2> QED
    BY <2>3, <2>4
<1> QED
  BY <1>1

LEMMA OwnerIsLoops ==
  ASSUME NEW s, intervals \in Seq(Interval)
  PROVE  \E best : Loop(s, Len(intervals), best) /\ Owner(intervals, s) = best[Len(intervals)]
<1>1. \E best : Loop(s, Len(intervals), best)
  BY LoopEnds
<1> QED
  BY <1>1 DEF Loop, Turn, Owner

\* label_window's answer overlaps the window more than nothing, and no fault
\* overlaps it more.
LEMMA OwnerWins ==
  ASSUME NEW s \in Nat, intervals \in Seq(Interval)
  PROVE  /\ \A f \in Faults : Overlap(s, f) <= Claim(s, Owner(intervals, s))
         /\ Owner(intervals, s) # NoFault =>
              /\ Owner(intervals, s) \in Faults /\ Overlap(s, Owner(intervals, s)) > 0
              /\ \E k \in DOMAIN intervals :
                   /\ Owner(intervals, s) = intervals[k]
                   /\ \A m \in DOMAIN intervals :
                        m < k => Overlap(s, intervals[m]) < Overlap(s, Owner(intervals, s))
<1> DEFINE N == Len(intervals)
<1>1. PICK best : Loop(s, N, best) /\ Owner(intervals, s) = best[N]
  BY OwnerIsLoops
<1>2. N \in Nat /\ DOMAIN intervals = 1..N /\ \A i \in 1..N : intervals[i] \in Interval
  OBVIOUS
<1>3. \A i \in 0..N : best[i] = Turn(s, best, i)
  BY <1>1 DEF Loop
<1>4. \A i \in 1..N : Overlap(s, intervals[i]) \in Int
  BY <1>2, OverlapIs
<1> DEFINE First(i, n) ==
             /\ best[n] = intervals[i]
             /\ \A m \in 1..N : m < i => Overlap(s, intervals[m]) < Claim(s, best[n])
           Good(n) ==
             /\ Claim(s, best[n]) \in Int
             /\ Claim(s, best[n]) >= 0
             /\ best[n] # NoFault => Claim(s, best[n]) > 0 /\ \E i \in 1..N : First(i, n)
             /\ \A i \in 1..n : Overlap(s, intervals[i]) <= Claim(s, best[n])
           Bad == {n \in 0..N : ~Good(n)}
<1>5. ASSUME Bad # {} PROVE FALSE
  <2>1. Bad \in SUBSET Nat
    OBVIOUS
  <2>2. PICK n \in Bad : \A m \in Bad : n <= m
    BY <1>5, <2>1, LeastNumber
  <2>3. n \in 0..N /\ ~Good(n)
    BY <2>2
  <2>4. CASE n = 0
    <3>1. best[0] = NoFault
      BY <1>2, <1>3 DEF Turn
    <3> QED
      BY <2>3, <2>4, <3>1 DEF Claim
  <2>5. CASE n # 0
    <3>1. n \in 1..N /\ n - 1 \in 0..N /\ n - 1 \notin Bad
      BY <1>2, <2>2, <2>3, <2>5
    <3>2. Good(n - 1)
      BY <3>1
    <3>3. best[n] = IF Overlap(s, intervals[n]) > Claim(s, best[n - 1]) THEN intervals[n] ELSE best[n - 1]
      BY <1>3, <2>3, <2>5 DEF Turn
    <3>4. Overlap(s, intervals[n]) \in Int
      BY <1>4, <3>1
    <3>5. \A i \in 1..n : i = n \/ i \in 1..(n - 1)
      BY <2>3
    <3>6. CASE Overlap(s, intervals[n]) > Claim(s, best[n - 1])
      <4>1. best[n] = intervals[n]
        BY <3>3, <3>6
      <4>2. best[n] # NoFault
        <5>1. SUFFICES ASSUME intervals[n] = NoFault PROVE FALSE
          BY <4>1
        <5>2. intervals[n] \in Interval
          BY <1>2, <3>1
        <5>3. intervals[n].start = 0 /\ intervals[n].end = 0
          BY <5>1 DEF NoFault
        <5>4. ~(s + Length <= 0)
          BY SpecType
        <5>5. Overlap(s, intervals[n]) = 0 - (IF s >= 0 THEN s ELSE 0)
          BY <5>2, <5>3, <5>4, OverlapIs
        <5> QED
          BY <3>2, <3>4, <3>6, <5>5
      <4>3. Claim(s, best[n]) = Overlap(s, intervals[n])
        BY <4>1, <4>2 DEF Claim
      <4>4. \A i \in 1..n : Overlap(s, intervals[i]) <= Claim(s, best[n])
        <5>1. ASSUME NEW i \in 1..n PROVE Overlap(s, intervals[i]) <= Overlap(s, intervals[n])
          <6>1. CASE i = n
            BY <3>4, <6>1
          <6>2. CASE i \in 1..(n - 1)
            <7>1. Overlap(s, intervals[i]) <= Claim(s, best[n - 1]) /\ Claim(s, best[n - 1]) \in Int
              BY <3>2, <6>2
            <7>2. i \in 1..N
              BY <1>2, <3>1, <5>1
            <7> QED
              BY <1>4, <3>4, <3>6, <7>1, <7>2
          <6> QED
            BY <3>5, <6>1, <6>2
        <5> QED
          BY <4>3, <5>1
      <4> QED
        <5>1. Claim(s, best[n]) \in Int /\ Claim(s, best[n]) > 0 /\ Claim(s, best[n]) >= 0
          BY <3>2, <3>4, <3>6, <4>3
        <5>2. First(n, n)
          <6>1. ASSUME NEW m \in 1..N, m < n PROVE Overlap(s, intervals[m]) < Overlap(s, intervals[n])
            <7>1. m \in 1..(n - 1)
              BY <1>2, <3>1, <6>1
            <7>2. Overlap(s, intervals[m]) <= Claim(s, best[n - 1]) /\ Claim(s, best[n - 1]) \in Int
              BY <3>2, <7>1
            <7> QED
              BY <1>4, <3>4, <3>6, <6>1, <7>2
          <6> QED
            BY <4>1, <4>3, <6>1
        <5> QED
          BY <2>3, <3>1, <4>4, <5>1, <5>2
    <3>7. CASE ~(Overlap(s, intervals[n]) > Claim(s, best[n - 1]))
      <4>1. best[n] = best[n - 1]
        BY <3>3, <3>7
      <4>2. \A i \in 1..n : Overlap(s, intervals[i]) <= Claim(s, best[n])
        BY <3>2, <3>4, <3>5, <3>7, <4>1
      <4> QED
        BY <2>3, <3>2, <4>1, <4>2
    <3> QED
      BY <3>6, <3>7
  <2> QED
    BY <2>4, <2>5
<1>6. Good(N)
  BY <1>2, <1>5
<1> HIDE DEF N
<1> QED
  BY <1>1, <1>2, <1>6 DEF Faults, Claim

-----------------------------------------------------------------------------
\* How many samples a window should have.

Recording == stamps \in SUBSET Nat /\ IsFiniteSet(stamps)

LEMMA GapIs ==
  ASSUME Recording, NEW t \in Followed
  PROVE  Gap(t) \in Nat /\ Gap(t) >= 1
<1>1. t \in stamps /\ t # Max(stamps) /\ stamps \in SUBSET Nat /\ IsFiniteSet(stamps)
  BY DEF Recording, Followed
<1>2. Max(stamps) \in stamps /\ t <= Max(stamps)
  BY <1>1, MaxIs
<1> DEFINE Later == {u \in stamps : u > t}
<1>3. t \in Nat /\ Max(stamps) \in Nat
  BY <1>1, <1>2
<1>4. Later \in SUBSET Nat /\ Max(stamps) \in Later
  <2>1. Max(stamps) > t
    BY <1>1, <1>2, <1>3
  <2> QED
    BY <1>1, <1>2, <2>1
<1>5. Min(Later) \in Later
  <2> HIDE DEF Later
  <2> QED
    BY <1>4, MinIs
<1>6. Min(Later) \in Nat /\ Min(Later) > t
  BY <1>4, <1>5
<1>7. Min(Later) - t \in Nat /\ Min(Later) - t >= 1
  <2> HIDE DEF Later
  <2> QED
    BY <1>3, <1>6
<1> QED
  BY <1>7 DEF Gap

LEMMA FollowedIs ==
  ASSUME Recording, Cardinality(stamps) >= 2
  PROVE  IsFiniteSet(Followed) /\ Cardinality(Followed) \in Nat \ {0} /\ Followed # {}
<1>1. IsFiniteSet(stamps) /\ stamps \in SUBSET Nat /\ Cardinality(stamps) \in Nat
  BY FS_CardinalityType DEF Recording
<1>2. stamps # {}
  BY <1>1, FS_EmptySet
<1>3. Max(stamps) \in stamps
  BY <1>1, <1>2, MaxIs
<1>4. IsFiniteSet(Followed) /\ Cardinality(Followed) = Cardinality(stamps) - 1
  BY <1>1, <1>3, FS_RemoveElement DEF Followed
<1> QED
  BY <1>1, <1>4, FS_EmptySet

LEMMA RankIs ==
  ASSUME Recording, Cardinality(stamps) >= 2, NEW k \in Nat, k <= Cardinality(Followed)
  PROVE  GapRanked(k) \in Nat
<1> DEFINE gap == [t \in Followed |-> Gap(t)]
           Gaps == {Gap(t) : t \in Followed}
           High == {u \in Followed : Cardinality({v \in Followed : Gap(v) <= Gap(u)}) >= k}
           Above == {Gap(t) : t \in High}
<1>1. IsFiniteSet(Followed) /\ Followed # {}
  BY FollowedIs
<1>2. \A t \in Followed : Gap(t) \in Nat
  BY GapIs
<1>3. gap \in Surjection(Followed, Gaps)
  BY DEF Surjection
<1>4. IsFiniteSet(Gaps) /\ Gaps # {} /\ Gaps \in SUBSET Nat
  BY <1>1, <1>2, <1>3, FS_Surjection
<1>5. PICK u \in Followed : \A v \in Followed : Gap(v) <= Gap(u)
  BY <1>4, GreatestNumber
<1>6. {v \in Followed : Gap(v) <= Gap(u)} = Followed
  BY <1>5
<1>7. u \in High
  <2>1. Cardinality(Followed) >= k
    BY FollowedIs
  <2> QED
    BY <1>5, <1>6, <2>1
<1>8. Above # {} /\ Above \in SUBSET Nat
  BY <1>2, <1>7
<1>9. Min(Above) \in Nat
  BY <1>8, MinIs
<1> QED
  BY <1>9 DEF GapRanked

LEMMA MedianIs ==
  ASSUME Recording, Cardinality(stamps) >= 2
  PROVE  Median \in Nat /\ Max({Median, 1}) \in Nat \ {0}
<1> DEFINE n == Cardinality(Followed)
<1>1. n \in Nat \ {0}
  BY FollowedIs
<1>2. /\ (n + 1) \div 2 \in Nat /\ (n + 1) \div 2 <= n
      /\ n \div 2 + 1 \in Nat /\ n \div 2 + 1 <= n
  BY <1>1
<1>3. GapRanked((n + 1) \div 2) \in Nat /\ GapRanked(n \div 2 + 1) \in Nat
  BY <1>2, RankIs
<1>4. Median \in Nat
  BY <1>3 DEF Median
<1> QED
  BY <1>4, MaxOfTwo

-----------------------------------------------------------------------------
\* What the loop over the windows keeps.

\* The recording and the answer of the query stay what they are.
Inputs ==
  /\ stamps \subseteq Instants /\ IsFiniteSet(stamps)
  /\ intervals \in IntervalLists

\* A row says of its window what label_window and the count said of it, and no
\* window is made of less than two samples.
RowRight(r) ==
  /\ r \in Row
  /\ r.owner = Owner(intervals, r.start)
  /\ r.samples = Cardinality(Samples(r.start))
  /\ Kept(r.start)

RowsRight ==
  /\ rows \in Seq(Row) /\ \A i \in DOMAIN rows : RowRight(rows[i])
  /\ rows # <<>> => Cardinality(stamps) >= 2

\* A window that is kept is in the table.
Tabled(w) == Kept(w) => \E i \in DOMAIN rows : rows[i].start = w

\* Every instant before the next window lies in the hop of a window made, and
\* the window after that, if it was made, is looked after as well.
Made(t) ==
  \E w \in Nat :
    /\ Min(stamps) <= w /\ w <= t /\ t < w + Hop /\ w + Hop <= start
    /\ Tabled(w)
    /\ w + Hop < start => Tabled(w + Hop)

Grid ==
  /\ start \in Nat
  /\ stamps # {} =>
       /\ start = Min(stamps) \/ Min(stamps) + Hop <= start
       /\ \A t \in Nat : Min(stamps) <= t /\ t < start => Made(t)

TableInv == Inputs /\ RowsRight /\ Grid

LEMMA InputsAre ==
  ASSUME Inputs
  PROVE  /\ Recording /\ intervals \in Seq(Interval)
         /\ \A f \in Faults : f \in Interval
<1>1. Recording
  BY InstantsType DEF Inputs, Recording
<1>2. intervals \in Seq(Interval)
  BY IntervalsType DEF Inputs, Interval
<1> QED
  BY <1>1, <1>2 DEF Faults

LEMMA SameInputs ==
  ASSUME UNCHANGED <<stamps, intervals>>, NEW w
  PROVE  /\ Owner(intervals, w)' = Owner(intervals, w) /\ Samples(w)' = Samples(w) /\ (Kept(w)' <=> Kept(w))
         /\ Min(stamps)' = Min(stamps) /\ Median' = Median
<1>1. Owner(intervals, w)' = Owner(intervals, w)
  BY Zenon DEF Owner, Claim, Overlap, NoFault
<1>2. Samples(w)' = Samples(w)
  BY DEF Samples
<1>3. CoverageFloor' = CoverageFloor /\ Median' = Median
  BY DEF CoverageFloor, Median, GapRanked, Gap, Followed
<1> QED
  BY <1>1, <1>2, <1>3 DEF Kept, Keeps, NoFault

\* A window's row is of the type of a row.
LEMMA NewRow ==
  ASSUME Inputs, Grid, HasWindow, Kept(start)
  PROVE  /\ RowRight([start |-> start, owner |-> Owner(intervals, start), samples |-> Cardinality(Samples(start))])
         /\ Cardinality(stamps) >= 2
<1> DEFINE r == [start |-> start, owner |-> Owner(intervals, start), samples |-> Cardinality(Samples(start))]
<1>1. Recording /\ intervals \in Seq(Interval) /\ \A f \in Faults : f \in Interval
  BY InputsAre
<1>2. Owner(intervals, start) \in Interval
  BY <1>1, OwnerWins DEF NoFault, Interval, Grid
<1>3. Cardinality(Samples(start)) \in Nat
  <2>1. Samples(start) \in SUBSET stamps
    BY DEF Samples
  <2> QED
    BY <1>1, <2>1, FS_Subset, FS_CardinalityType DEF Recording
<1>4. Cardinality(stamps) >= 2
  <2>1. stamps # {} /\ stamps \in SUBSET Nat /\ IsFiniteSet(stamps)
    BY <1>1 DEF HasWindow, Recording
  <2>2. Min(stamps) \in stamps /\ Max(stamps) \in stamps
    BY <2>1, MinIs, MaxIs
  <2>3. Min(stamps) # Max(stamps)
    <3>1. PICK a \in Nat, b \in Nat : a = Min(stamps) /\ b = Max(stamps)
      BY <2>1, <2>2
    <3>2. (start = a \/ a + Hop <= start) /\ start + Length <= b /\ start \in Nat
      BY <2>1, <3>1 DEF HasWindow, Grid
    <3> QED
      BY <3>1, <3>2, SpecType
  <2>4. Cardinality({Min(stamps)} \union {Max(stamps)}) = 2
    <3>1. IsFiniteSet({Min(stamps)}) /\ Cardinality({Min(stamps)}) = 1
      BY FS_Singleton
    <3> QED
      BY <2>3, <3>1, FS_AddElement
  <2>5. {Min(stamps)} \union {Max(stamps)} \in SUBSET stamps
    BY <2>2
  <2>6. Cardinality({Min(stamps)} \union {Max(stamps)}) <= Cardinality(stamps)
    BY <2>1, <2>5, FS_Subset
  <2> QED
    BY <2>1, <2>4, <2>6, FS_CardinalityType
<1> QED
  BY <1>2, <1>3, <1>4 DEF RowRight, Row, Interval, Grid

LEMMA TableInit == Init => TableInv
<1> SUFFICES ASSUME Init PROVE TableInv
  OBVIOUS
<1>1. Inputs
  BY DEF Init, Inputs
<1>2. Recording /\ rows = <<>>
  BY <1>1, InputsAre DEF Init
<1>3. RowsRight
  BY <1>2 DEF RowsRight
<1>4. start \in Nat
  BY <1>2, MinIs DEF Init, Recording
<1>5. stamps # {} => start = Min(stamps)
  BY DEF Init
<1>6. Grid
  BY <1>4, <1>5 DEF Grid
<1> QED
  BY <1>1, <1>3, <1>6 DEF TableInv

\* What is said of the windows made is true after one more.
LEMMA GridNext ==
  ASSUME Inputs, RowsRight, Grid, NextWindow
  PROVE  Grid'
<1>1. /\ stamps # {} /\ stamps' = stamps /\ intervals' = intervals /\ start' = start + Hop
      /\ start \in Nat /\ Hop \in Nat \ {0} /\ start' \in Nat
  BY SpecType DEF NextWindow, HasWindow, Grid
<1>2. Min(stamps) \in Nat /\ Min(stamps') = Min(stamps)
  BY <1>1, InputsAre, MinIs DEF Recording
<1>3. Min(stamps) <= start
  BY <1>1, <1>2 DEF Grid
<1>4. \A w : Kept(w)' <=> Kept(w)
  BY <1>1, SameInputs
<1>5. /\ rows \in Seq(Row)
      /\ \A i \in DOMAIN rows : i \in DOMAIN rows' /\ rows'[i] = rows[i]
      /\ Kept(start) => \E i \in DOMAIN rows' : rows'[i].start = start
  <2> DEFINE r == [start |-> start, owner |-> Owner(intervals, start), samples |-> Cardinality(Samples(start))]
  <2>1. rows' = IF Kept(start) THEN Append(rows, r) ELSE rows
    BY DEF NextWindow
  <2>2. r.start = start
    OBVIOUS
  <2>3. rows \in Seq(Row)
    BY DEF RowsRight
  <2> HIDE DEF r
  <2>4. /\ \A i \in DOMAIN rows : i \in DOMAIN Append(rows, r) /\ Append(rows, r)[i] = rows[i]
        /\ Len(rows) + 1 \in DOMAIN Append(rows, r) /\ Append(rows, r)[Len(rows) + 1] = r
    BY <2>3
  <2> QED
    BY <2>1, <2>2, <2>3, <2>4
<1>6. ASSUME NEW w, w = start \/ Tabled(w) PROVE Tabled(w)'
  <2>1. CASE w = start
    BY <1>4, <1>5, <2>1 DEF Tabled
  <2>2. CASE Tabled(w)
    BY <1>4, <1>5, <2>2 DEF Tabled
  <2> QED
    BY <1>6, <2>1, <2>2
<1>7. ASSUME NEW t \in Nat, Min(stamps) <= t, t < start' PROVE Made(t)'
  <2>1. CASE t < start
    <3>1. Made(t)
      BY <1>1, <1>7, <2>1 DEF Grid
    <3>2. PICK w \in Nat :
            /\ Min(stamps) <= w /\ w <= t /\ t < w + Hop /\ w + Hop <= start
            /\ Tabled(w) /\ (w + Hop < start => Tabled(w + Hop))
      BY <3>1 DEF Made
    <3>3. Tabled(w)' /\ (w + Hop)' = w + Hop /\ w + Hop \in Nat /\ w + Hop <= start'
      BY <1>1, <1>6, <3>2
    <3>4. w + Hop < start' => Tabled(w + Hop)'
      <4>1. w + Hop = start \/ w + Hop < start
        BY <1>1, <3>2
      <4> QED
        BY <1>6, <3>2, <4>1
    <3> QED
      BY <1>1, <1>2, <3>2, <3>3, <3>4 DEF Made
  <2>2. CASE start <= t
    <3>1. PICK w \in Nat : w = start
      BY <1>1
    <3>2. Tabled(w)' /\ Min(stamps') <= w /\ w <= t /\ t < w + Hop /\ w + Hop <= start' /\ ~(w + Hop < start')
      BY <1>1, <1>2, <1>3, <1>6, <1>7, <2>2, <3>1
    <3> QED
      BY <3>2 DEF Made
  <2> QED
    BY <1>1, <1>7, <2>1, <2>2
<1>8. Min(stamps') + Hop <= start'
  BY <1>1, <1>2, <1>3
<1> QED
  BY <1>1, <1>2, <1>7, <1>8 DEF Grid

LEMMA TableNext == TableInv /\ [NextWindow]_vars => TableInv'
<1> SUFFICES ASSUME TableInv, [NextWindow]_vars PROVE TableInv'
  OBVIOUS
<1>1. Inputs /\ RowsRight /\ Grid
  BY DEF TableInv
<1>2. CASE NextWindow
  <2>1. UNCHANGED <<stamps, intervals>> /\ HasWindow /\ start \in Nat
    BY <1>1, <1>2 DEF NextWindow, Grid
  <2>2. Inputs'
    BY <1>1, <2>1 DEF Inputs
  <2>3. \A r : RowRight(r) => RowRight(r)'
    BY <2>1, SameInputs DEF RowRight, Row
  <2>4. RowsRight'
    <3>1. CASE ~Kept(start)
      <4>1. rows' = rows
        BY <1>2, <3>1 DEF NextWindow
      <4> QED
        BY <1>1, <2>1, <2>3, <4>1 DEF RowsRight
    <3>2. CASE Kept(start)
      <4> DEFINE r == [start |-> start, owner |-> Owner(intervals, start), samples |-> Cardinality(Samples(start))]
      <4>1. PICK row : rows' = Append(rows, row) /\ RowRight(row) /\ Cardinality(stamps) >= 2
        <5>1. rows' = Append(rows, r)
          BY <1>2, <3>2 DEF NextWindow
        <5> QED
          BY <1>1, <2>1, <3>2, <5>1, NewRow
      <4>3. RowRight(row)' /\ row \in Row
        BY <2>3, <4>1 DEF RowRight
      <4>4. rows \in Seq(Row) /\ \A i \in DOMAIN rows : RowRight(rows[i])
        BY <1>1 DEF RowsRight
      <4>5. \A i \in DOMAIN rows' : rows'[i] = row \/ (i \in DOMAIN rows /\ rows'[i] = rows[i])
        BY <4>1, <4>4
      <4>6. rows' \in Seq(Row)
        BY <4>1, <4>3, <4>4
      <4> QED
        BY <2>1, <2>3, <4>1, <4>3, <4>4, <4>5, <4>6 DEF RowsRight
    <3> QED
      BY <3>1, <3>2
  <2> QED
    BY <1>1, <1>2, <2>2, <2>4, GridNext DEF TableInv
<1>3. CASE UNCHANGED vars
  <2>1. UNCHANGED <<stamps, intervals, start, rows>>
    BY <1>3 DEF vars
  <2>2. \A w : Kept(w)' <=> Kept(w)
    BY <2>1, SameInputs
  <2>3. \A r : RowRight(r) => RowRight(r)'
    BY <2>1, SameInputs DEF RowRight, Row
  <2>4. \A w : Tabled(w) => Tabled(w)'
    BY <2>1, <2>2 DEF Tabled
  <2>5. \A t : Made(t) => Made(t)'
    BY <2>1, <2>4 DEF Made
  <2> QED
    BY <1>1, <2>1, <2>3, <2>5 DEF TableInv, Inputs, RowsRight, Grid
<1> QED
  BY <1>2, <1>3

LEMMA TableAlways == Spec => []TableInv
<1> QED
  BY TableInit, TableNext, PTL DEF Spec

-----------------------------------------------------------------------------
\* The table.

\* Every variable stays within its type, for any recording and any answer.
THEOREM TableTypes == Spec => []TypeOK
<1>1. TableInv => TypeOK
  BY InputsAre DEF TableInv, Inputs, RowsRight, Grid, TypeOK, Interval
<1> QED
  BY <1>1, TableAlways, PTL

\* "Greatest overlap wins", the first listed of equals: a row's label is a
\* fault that overlaps its window more than those listed before it and at
\* least as much as those after it, and a normal row's window meets no fault.
THEOREM LabelsAreRight == Spec => []LabelsRight
<1>1. ASSUME TableInv PROVE LabelsRight
  <2>1. intervals \in Seq(Interval) /\ \A i \in DOMAIN rows : RowRight(rows[i])
    BY <1>1, InputsAre DEF TableInv, RowsRight
  <2>2. ASSUME NEW i \in DOMAIN rows
        PROVE  \/ rows[i].owner = NoFault /\ \A f \in Faults : Overlap(rows[i].start, f) <= 0
               \/ \E n \in DOMAIN intervals :
                    /\ rows[i].owner = intervals[n] /\ Overlap(rows[i].start, rows[i].owner) > 0
                    /\ \A m \in DOMAIN intervals :
                         /\ m < n => Overlap(rows[i].start, intervals[m]) < Overlap(rows[i].start, rows[i].owner)
                         /\ m > n => Overlap(rows[i].start, intervals[m]) <= Overlap(rows[i].start, rows[i].owner)
    <3> DEFINE f == rows[i].owner
    <3>1. PICK w \in Nat : w = rows[i].start /\ f = rows[i].owner /\ f = Owner(intervals, w)
      BY <2>1 DEF RowRight, Row
    <3> HIDE DEF f
    <3>2. CASE f = NoFault
      <4>1. \A g \in Faults : Overlap(w, g) <= Claim(w, f)
        BY <2>1, <3>1, OwnerWins
      <4>2. Claim(w, f) = 0
        BY <3>2 DEF Claim
      <4> QED
        BY <3>1, <3>2, <4>1, <4>2
    <3>3. CASE f # NoFault
      <4>1. PICK k \in DOMAIN intervals :
              /\ f = intervals[k]
              /\ \A m \in DOMAIN intervals : m < k => Overlap(w, intervals[m]) < Overlap(w, f)
        BY <2>1, <3>1, <3>3, OwnerWins
      <4>2. Overlap(w, f) > 0
        BY <2>1, <3>1, <3>3, OwnerWins
      <4>3. \A m \in DOMAIN intervals : Overlap(w, intervals[m]) <= Overlap(w, f)
        <5>1. \A g \in Faults : Overlap(w, g) <= Claim(w, f)
          BY <2>1, <3>1, OwnerWins
        <5>2. Claim(w, f) = Overlap(w, f)
          BY <3>3 DEF Claim
        <5> QED
          BY <5>1, <5>2 DEF Faults
      <4> QED
        BY <3>1, <4>1, <4>2, <4>3
    <3> QED
      BY <3>2, <3>3
  <2> HIDE <1>1
  <2> QED
    BY <2>2, Zenon DEF LabelsRight
<1> QED
  BY <1>1, TableAlways, PTL

-----------------------------------------------------------------------------
\* Of numbers more than half of which are d, the median is d.
LEMMA MajorityRank ==
  ASSUME Recording, Cardinality(stamps) >= 2, NEW d \in Nat,
         2 * Cardinality({t \in Followed : Gap(t) = d}) > Cardinality(Followed),
         NEW k \in Nat, k <= Cardinality(Followed) \div 2 + 1, k >= (Cardinality(Followed) + 1) \div 2
  PROVE  GapRanked(k) = d
<1> DEFINE D == {t \in Followed : Gap(t) = d}
           UpTo(g) == {v \in Followed : Gap(v) <= g}
           High == {u \in Followed : Cardinality(UpTo(Gap(u))) >= k}
           Above == {Gap(t) : t \in High}
<1>1. IsFiniteSet(Followed) /\ Cardinality(Followed) \in Nat \ {0}
  BY FollowedIs
<1>2. \A t \in Followed : Gap(t) \in Nat
  BY GapIs
<1>3. IsFiniteSet(D) /\ Cardinality(D) \in Nat /\ Cardinality(D) <= Cardinality(Followed)
  BY <1>1, FS_Subset, FS_CardinalityType
<1>4. Cardinality(D) >= k /\ Cardinality(Followed) - Cardinality(D) < k
  <2>1. PICK n \in Nat, m \in Nat : n = Cardinality(Followed) /\ m = Cardinality(D)
    BY <1>1, <1>3
  <2>2. 2 * m > n /\ k <= n \div 2 + 1 /\ k >= (n + 1) \div 2
    BY <2>1
  <2>3. m >= k /\ n - m < k
    BY <2>2
  <2> QED
    BY <2>1, <2>3
<1>5. D # {}
  <2>1. Cardinality(D) # 0
    BY <1>1, <1>3
  <2> QED
    BY <2>1, FS_EmptySet
<1>6. PICK t \in Followed : Gap(t) = d
  BY <1>5
<1>7. t \in High
  <2>1. D \subseteq UpTo(Gap(t)) /\ UpTo(Gap(t)) \subseteq Followed
    BY <1>2, <1>6
  <2>2. IsFiniteSet(UpTo(Gap(t))) /\ Cardinality(UpTo(Gap(t))) \in Nat
    BY <1>1, <2>1, FS_Subset, FS_CardinalityType
  <2>3. Cardinality(D) <= Cardinality(UpTo(Gap(t)))
    BY <2>1, <2>2, FS_Subset
  <2> HIDE DEF D, UpTo
  <2>4. Cardinality(UpTo(Gap(t))) >= k
    BY <1>3, <1>4, <2>2, <2>3
  <2> QED
    BY <1>6, <2>4
<1>8. ASSUME NEW u \in High PROVE Gap(u) >= d
  <2>1. SUFFICES ASSUME Gap(u) < d PROVE FALSE
    BY <1>2
  <2>2. UpTo(Gap(u)) \subseteq Followed \ D
    BY <1>2, <2>1
  <2>3. IsFiniteSet(Followed \ D) /\ Cardinality(Followed \ D) = Cardinality(Followed) - Cardinality(D)
    <3>1. Followed \intersect D = D
      OBVIOUS
    <3> QED
      BY <1>1, <3>1, FS_Difference
  <2>4. Cardinality(UpTo(Gap(u))) <= Cardinality(Followed \ D)
    BY <2>2, <2>3, FS_Subset
  <2>5. Cardinality(UpTo(Gap(u))) \in Nat /\ Cardinality(UpTo(Gap(u))) >= k
    <3>1. IsFiniteSet(UpTo(Gap(u)))
      BY <2>2, <2>3, FS_Subset
    <3> QED
      BY <3>1, FS_CardinalityType
  <2> HIDE DEF D, UpTo, High
  <2> QED
    BY <1>1, <1>3, <1>4, <2>3, <2>4, <2>5
<1>9. Above \in SUBSET Nat /\ d \in Above
  BY <1>2, <1>6, <1>7
<1>10. \A g \in Above : d <= g
  BY <1>2, <1>8
<1>11. GapRanked(k) = Min(Above)
  BY DEF GapRanked
<1> HIDE DEF Above
<1>12. Min(Above) \in Nat /\ Min(Above) <= d /\ d <= Min(Above)
  BY <1>9, <1>10, MinIs
<1> QED
  BY <1>11, <1>12

LEMMA MajorityMedian ==
  ASSUME Recording, Cardinality(stamps) >= 2, NEW d \in Nat,
         2 * Cardinality({t \in Followed : Gap(t) = d}) > Cardinality(Followed)
  PROVE  Median = d
<1> DEFINE n == Cardinality(Followed)
<1>1. n \in Nat \ {0}
  BY FollowedIs
<1>2. /\ (n + 1) \div 2 \in Nat /\ n \div 2 + 1 \in Nat
      /\ (n + 1) \div 2 <= n \div 2 + 1
  BY <1>1
<1>3. GapRanked((n + 1) \div 2) = d /\ GapRanked(n \div 2 + 1) = d
  BY <1>1, <1>2, MajorityRank
<1>4. (d + d) \div 2 = d
  OBVIOUS
<1> QED
  BY <1>3, <1>4 DEF Median

\* If more than half of the samples are followed after d, every row called
\* normal has half of the samples that a window has at that distance,
\* whatever gaps the rest of the recording has.
THEOREM NormalsAreObserved == Spec => []NormalIsObserved
<1>1. ASSUME TableInv PROVE NormalIsObserved
  <2>1. ASSUME NEW i \in DOMAIN rows, rows[i].owner = NoFault, NEW t \in Followed,
               2 * Cardinality({u \in Followed : Gap(u) = Gap(t)}) > Cardinality(Followed)
        PROVE  rows[i].samples >= Length \div (2 * Gap(t))
    <3>1. RowRight(rows[i]) /\ Recording /\ Cardinality(stamps) >= 2
      BY <1>1, <2>1, InputsAre DEF TableInv, RowsRight
    <3>2. Gap(t) \in Nat /\ Gap(t) >= 1
      BY <3>1, GapIs
    <3>3. Median = Gap(t)
      BY <2>1, <3>1, <3>2, MajorityMedian
    <3>4. Max({Median, 1}) = Gap(t)
      BY <3>2, <3>3, MaxOfTwo
    <3>5. CoverageFloor = Length \div (2 * Gap(t))
      <4>1. Cardinality(stamps) \in Nat
        BY <3>1, FS_CardinalityType DEF Recording
      <4> QED
        BY <3>1, <3>4, <4>1 DEF CoverageFloor
    <3> QED
      BY <2>1, <3>1, <3>5 DEF RowRight, Kept, Keeps
  <2> QED
    BY <2>1 DEF NormalIsObserved
<1> QED
  BY <1>1, TableAlways, PTL

\* A window that a fault claims is kept, and its row is a fault's.
LEMMA ClaimedIsTabled ==
  ASSUME TableInv, NEW w \in Nat, Tabled(w), NEW f \in Faults, Overlap(w, f) > 0
  PROVE  \E i \in DOMAIN rows : rows[i].start = w /\ rows[i].owner = Owner(intervals, w) /\ Owner(intervals, w) # NoFault
<1>1. intervals \in Seq(Interval) /\ f \in Interval
  BY InputsAre DEF TableInv
<1>2. Overlap(w, f) <= Claim(w, Owner(intervals, w)) /\ Overlap(w, f) \in Int
  BY <1>1, OwnerWins, OverlapIs
<1>3. Owner(intervals, w) # NoFault
  BY <1>2 DEF Claim
<1>4. PICK i \in DOMAIN rows : rows[i].start = w
  BY <1>3 DEF Tabled, Kept, Keeps
<1> QED
  BY <1>3, <1>4 DEF TableInv, RowsRight, RowRight

\* What the windows made cover, from the first one's begin to the last one's end.
LEMMA CoveredIs ==
  ASSUME TableInv, NEW t \in Covered
  PROVE  /\ stamps # {} /\ Min(stamps) \in Nat /\ Min(stamps) < start /\ start \in Nat /\ t \in Nat
         /\ Min(stamps) <= t /\ t < start - Hop + Length
<1>1. Recording /\ start \in Nat
  BY InputsAre DEF TableInv, Grid
<1>2. /\ stamps # {} /\ start # Min(stamps) /\ t \in Min(stamps)..(start - Hop + Length - 1)
  BY DEF Covered
<1>3. PICK a \in Nat : a = Min(stamps)
  BY <1>1, <1>2, MinIs DEF Recording
<1>4. a + Hop <= start
  BY <1>2, <1>3 DEF TableInv, Grid
<1> QED
  BY <1>1, <1>2, <1>3, <1>4, SpecType

\* Once no window is left, only the last hop of the recording is not covered.
LEMMA ReachedIsCovered ==
  ASSUME TableInv
  PROVE  Reached \subseteq Covered
<1> SUFFICES ASSUME NEW t \in Reached PROVE t \in Covered
  OBVIOUS
<1>1. Recording /\ start \in Nat
  BY InputsAre DEF TableInv, Grid
<1>2. stamps # {} /\ ~HasWindow /\ ~(Min(stamps) + Length > Max(stamps)) /\ t \in Min(stamps)..(Max(stamps) - Hop)
  BY DEF Reached
<1>3. PICK a \in Nat, b \in Nat : a = Min(stamps) /\ b = Max(stamps)
  BY <1>1, <1>2, MinIs, MaxIs DEF Recording
<1>4. start + Length > b
  BY <1>1, <1>2, <1>3, SpecType DEF HasWindow
<1>5. start # a
  BY <1>2, <1>3, <1>4, SpecType
<1>6. t \in a..(start - Hop + Length - 1)
  BY <1>1, <1>2, <1>3, <1>4, SpecType
<1> QED
  BY <1>2, <1>3, <1>5, <1>6 DEF Covered

\* No instant of a fault that the windows cover is lost to the table, however
\* few samples the fault let through, and in the end they cover all but the
\* last hop of the recording.
THEOREM FaultTimeKept == Spec => []FaultTimeIsLabelled
<1>1. ASSUME TableInv, NEW f \in Faults, NEW t \in (Covered \union Reached) \intersect During(f)
      PROVE  \E i \in DOMAIN rows : rows[i].owner # NoFault /\ rows[i].start <= t /\ t < rows[i].start + Length
  <2>0. t \in Covered
    BY <1>1, ReachedIsCovered
  <2>1. f \in Interval /\ f.start \in Nat /\ f.end \in Nat /\ t \in Nat /\ f.start <= t /\ t < f.end
    BY <1>1, <2>0, InputsAre, CoveredIs DEF TableInv, During, Interval
  <2>2. /\ stamps # {} /\ start \in Nat /\ t < start - Hop + Length /\ Min(stamps) <= t
        /\ Min(stamps) \in Nat /\ Min(stamps) < start
    BY <1>1, <2>0, CoveredIs
  <2>3. PICK w \in Nat : Tabled(w) /\ w <= t /\ t < w + Length
    <3>1. CASE t < start
      <4>1. Made(t)
        BY <1>1, <2>1, <2>2, <3>1 DEF TableInv, Grid
      <4> QED
        BY <2>1, <4>1, SpecType DEF Made
    <3>2. CASE start <= t
      <4>1. start - 1 \in Nat /\ Min(stamps) <= start - 1 /\ start - 1 < start
        BY <2>2
      <4>2. Made(start - 1)
        BY <1>1, <2>2, <4>1 DEF TableInv, Grid
      <4>3. PICK w \in Nat : w <= start - 1 /\ start - 1 < w + Hop /\ w + Hop <= start /\ Tabled(w)
        BY <4>2 DEF Made
      <4>4. w + Hop = start
        BY <2>2, <4>3, SpecType
      <4> QED
        BY <2>1, <2>2, <3>2, <4>3, <4>4, SpecType
    <3> QED
      BY <2>1, <2>2, <3>1, <3>2
  <2>4. Overlap(w, f) > 0
    BY <2>1, <2>3, OverlapIs, SpecType
  <2> QED
    BY <1>1, <2>3, <2>4, ClaimedIsTabled
<1>2. TableInv => FaultTimeIsLabelled
  BY <1>1 DEF FaultTimeIsLabelled
<1> QED
  BY <1>2, TableAlways, PTL

-----------------------------------------------------------------------------
\* Faults that do not overlap each other, as fault_intervals_from_data has them.

Apart(list) ==
  \A i, j \in DOMAIN list : i # j => list[i].end <= list[j].start \/ list[j].end <= list[i].start

\* A fault that overlaps more than half of a window owns it.
LEMMA HalfOwns ==
  ASSUME Inputs, Apart(intervals), NEW w \in Nat, NEW f \in Faults, 2 * Overlap(w, f) > Length
  PROVE  Owner(intervals, w) = f
<1>1. intervals \in Seq(Interval) /\ Length \in Nat
  BY InputsAre, SpecType
<1>2. \A h \in Faults : h \in Interval /\ Overlap(w, h) \in Int
  BY <1>1, InputsAre, OverlapIs
<1>3. PICK g : g = Owner(intervals, w)
  OBVIOUS
<1>4. g \in Faults /\ Overlap(w, g) >= Overlap(w, f)
  <2>1. Overlap(w, f) > 0 /\ Overlap(w, f) <= Claim(w, g)
    BY <1>1, <1>2, <1>3, OwnerWins
  <2>2. g # NoFault
    BY <1>2, <2>1 DEF Claim
  <2>3. g \in Faults
    BY <1>1, <1>3, <2>2, OwnerWins
  <2> QED
    BY <1>2, <2>1, <2>2, <2>3 DEF Claim
<1>5. SUFFICES ASSUME g # f PROVE FALSE
  BY <1>3
<1>6. f.end <= g.start \/ g.end <= f.start
  <2>1. PICK i \in DOMAIN intervals, j \in DOMAIN intervals : f = intervals[i] /\ g = intervals[j]
    BY <1>4 DEF Faults
  <2> QED
    BY <1>5, <2>1 DEF Apart
<1>7. PICK a \in Nat, b \in Nat : a = f.start /\ b = f.end
  BY <1>2 DEF Interval
<1>8. PICK c \in Nat, d \in Nat : c = g.start /\ d = g.end
  BY <1>2, <1>4 DEF Interval
<1>9. /\ Overlap(w, f) <= b - w /\ Overlap(w, f) <= w + Length - a
      /\ Overlap(w, g) <= d - w /\ Overlap(w, g) <= w + Length - c
  <2>1. /\ Overlap(w, f) <= b - w /\ Overlap(w, f) <= w + Length - a
    <3>1. Overlap(w, f) = (IF w + Length <= b THEN w + Length ELSE b) - (IF w >= a THEN w ELSE a)
      BY <1>2, <1>7, OverlapIs
    <3> QED
      BY <1>1, <3>1
  <2>2. /\ Overlap(w, g) <= d - w /\ Overlap(w, g) <= w + Length - c
    <3>1. Overlap(w, g) = (IF w + Length <= d THEN w + Length ELSE d) - (IF w >= c THEN w ELSE c)
      BY <1>2, <1>4, <1>8, OverlapIs
    <3> QED
      BY <1>1, <3>1
  <2> QED
    BY <2>1, <2>2
<1>10. b <= c \/ d <= a
  BY <1>6, <1>7, <1>8
<1>11. PICK x \in Int, y \in Int : x = Overlap(w, f) /\ y = Overlap(w, g)
  BY <1>2, <1>4
<1>12. 2 * x > Length /\ y >= x
  BY <1>4, <1>11
<1> QED
  BY <1>1, <1>9, <1>10, <1>11, <1>12

\* A fault that lasts at least a window's length while windows cover it owns a
\* row, if windows overlap (WINDOW_HOP_NS is half of WINDOW_LENGTH_NS) and no
\* two faults share an instant. Of windows laid end to end it could share each
\* with a fault listed before it, and lose them all.
THEOREM LongFaultsOwnRows ==
  ASSUME Hop < Length, \A list \in IntervalLists : Apart(list)
  PROVE  Spec => []LongFaultsHaveRows
<1>1. ASSUME TableInv, NEW f \in Faults, f.end - f.start >= Length, During(f) \subseteq Covered
      PROVE  \E i \in DOMAIN rows : rows[i].owner = f
  <2>1. Inputs /\ Grid /\ Apart(intervals) /\ f \in Interval
    BY <1>1, InputsAre DEF TableInv, Inputs
  <2>2. PICK a \in Nat, b \in Nat : a = f.start /\ b = f.end /\ b - a >= Length
    BY <1>1, <2>1 DEF Interval
  <2>3. Length \in Nat \ {0} /\ Hop \in Nat \ {0}
    BY SpecType
  <2>4. a \in Covered /\ b - 1 \in Covered
    <3>1. a \in a..(b - 1) /\ b - 1 \in a..(b - 1)
      BY <2>2, <2>3
    <3> QED
      BY <1>1, <2>2, <3>1 DEF During
  <2>5. stamps # {} /\ start \in Nat /\ Min(stamps) <= a
    BY <1>1, <2>4, CoveredIs
  <2>6. b <= start - Hop + Length
    <3>1. b - 1 < start - Hop + Length
      BY <1>1, <2>4, CoveredIs
    <3> QED
      BY <2>2, <2>3, <2>5, <3>1
  <2>7. a + Hop <= start
    BY <2>2, <2>3, <2>5, <2>6
  <2>8. Made(a)
    BY <2>1, <2>3, <2>5, <2>7 DEF Grid
  <2>9. PICK w \in Nat :
          /\ w <= a /\ a < w + Hop /\ Tabled(w)
          /\ w + Hop < start => Tabled(w + Hop)
    BY <2>8 DEF Made
  <2>10. PICK v \in Nat : Tabled(v) /\ 2 * Overlap(v, f) > Length
    <3>1. CASE 2 * (w + Length - a) > Length
      <4>1. Overlap(w, f) = (IF w + Length <= b THEN w + Length ELSE b) - (IF w >= a THEN w ELSE a)
        BY <2>1, <2>2, OverlapIs
      <4>2. Overlap(w, f) = w + Length - a
        BY <2>2, <2>3, <2>9, <4>1
      <4> QED
        BY <2>9, <3>1, <4>2
    <3>2. CASE ~(2 * (w + Length - a) > Length)
      <4>1. PICK v \in Nat : v = w + Hop
        BY <2>3
      <4>2. w < a
        BY <2>3, <2>9, <3>2
      <4>3. v < start /\ v > a
        BY <2>3, <2>5, <2>7, <2>9, <4>1, <4>2
      <4>4. Overlap(v, f) = (IF v + Length <= b THEN v + Length ELSE b) - (IF v >= a THEN v ELSE a)
        BY <2>1, <2>2, OverlapIs
      <4>5. Overlap(v, f) = (IF v + Length <= b THEN v + Length ELSE b) - v
        BY <4>3, <4>4
      <4>6. 2 * Overlap(v, f) > Length
        <5>1. CASE v + Length <= b
          BY <2>3, <4>5, <5>1
        <5>2. CASE ~(v + Length <= b)
          <6>1. Overlap(v, f) = b - v
            BY <4>5, <5>2
          <6>2. 2 * (b - v) > Length
            BY <2>2, <2>3, <3>2, <4>1
          <6> QED
            BY <6>1, <6>2
        <5> QED
          BY <5>1, <5>2
      <4> QED
        BY <2>9, <4>1, <4>3, <4>6
    <3> QED
      BY <3>1, <3>2
  <2>11. Owner(intervals, v) = f
    BY <2>1, <2>10, HalfOwns
  <2>12. Overlap(v, f) > 0
    BY <2>1, <2>3, <2>10, OverlapIs
  <2> QED
    BY <1>1, <2>10, <2>11, <2>12, ClaimedIsTabled
<1>2. TableInv => LongFaultsHaveRows
  BY <1>1 DEF LongFaultsHaveRows
<1> QED
  BY <1>2, TableAlways, PTL

=============================================================================
