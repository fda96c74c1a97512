---------------------------- MODULE TrainingTable ----------------------------
(***************************************************************************)
(* From telemetry rows and fault intervals to the labelled rows of a       *)
(* dataset: make_windows (features/windows.py), label_window               *)
(* (features/labels.py) and the loop of build_table                        *)
(* (data_pipeline/build.py), one step per window.                          *)
(*                                                                         *)
(* Feature values are left out: what matters here is which windows become  *)
(* rows, and with which label.                                             *)
(***************************************************************************)
EXTENDS Integers, SequencesExt

CONSTANTS Length, Hop,    \* WINDOW_LENGTH_NS and WINDOW_HOP_NS, in clock units
          Instants,       \* the times at which a sample may have been taken
          IntervalLists   \* the lists of fault intervals a query may return

ASSUME SpecType == Length \in Nat \ {0} /\ Hop \in 1..Length
ASSUME InstantsType == Instants \subseteq Nat
ASSUME IntervalsType == IntervalLists \subseteq Seq([start: Nat, end: Nat])

VARIABLES
  stamps,     \* the times of the samples that have all their channels
  intervals,  \* the fault intervals, in the order of the query's answer
  start,      \* where the next window begins
  rows        \* the table so far

vars == <<stamps, intervals, start, rows>>

NoFault == [start |-> 0, end |-> 0]

Row == [start: Nat, owner: [start: Nat, end: Nat], samples: Nat]

TypeOK ==
  /\ stamps \subseteq Instants
  /\ intervals \in Seq([start: Nat, end: Nat])
  /\ start \in Nat
  /\ rows \in Seq(Row)

\* Mutant: the first window begins a hop before the first sample.
InitHopEarly ==
  /\ stamps \in {answer \in SUBSET Instants : IsFiniteSet(answer)}
  /\ intervals \in IntervalLists
  /\ start = IF stamps = {} THEN 0 ELSE Min(stamps) - Hop
  /\ rows = <<>>

\* fetch_windows_input keeps the samples none of whose channels was lost: any
\* set of them that a query can answer.
Init ==
  /\ stamps \in {answer \in SUBSET Instants : IsFiniteSet(answer)}
  /\ intervals \in IntervalLists
  /\ start = IF stamps = {} THEN 0 ELSE Min(stamps)
  /\ rows = <<>>

-----------------------------------------------------------------------------
Samples(s) == {t \in stamps : s <= t /\ t < s + Length}

Overlap(s, f) == Min({s + Length, f.end}) - Max({s, f.start})

\* What a fault must overlap the window by more than, to win it.
Claim(s, f) == IF f = NoFault THEN 0 ELSE Overlap(s, f)

\* Mutant: of faults that overlap the window alike the last listed owns it.
LastOfEquals(list, s) ==
  FoldLeft(LAMBDA best, f : IF Overlap(s, f) > 0 /\ Overlap(s, f) >= Claim(s, best) THEN f ELSE best,
           NoFault, list)

\* label_window: the fault that overlaps the window most, the first listed
\* of equals; NoFault if none does.
Owner(list, s) ==
  LET best[n \in 0..Len(list)] ==
        IF n = 0 THEN NoFault
        ELSE IF Overlap(s, list[n]) > Claim(s, best[n - 1]) THEN list[n] ELSE best[n - 1]
  IN  best[Len(list)]

\* The distance from a sample to the next one; their k-th smallest, and
\* their median (np.median, truncated).
Gap(t) == Min({u \in stamps : u > t}) - t

Followed == stamps \ {Max(stamps)}

GapRanked(k) ==
  Min({Gap(t) : t \in {u \in Followed : Cardinality({v \in Followed : Gap(v) <= Gap(u)}) >= k}})

\* Mutant: the mean distance, which the gaps between runs draw up.
MeanGap == (Max(stamps) - Min(stamps)) \div Cardinality(Followed)

Median ==
  LET n == Cardinality(Followed)
  IN  (GapRanked((n + 1) \div 2) + GapRanked(n \div 2 + 1)) \div 2

\* _coverage_floor: half of the samples that a window has at that distance.
CoverageFloor ==
  IF Cardinality(stamps) < 2 THEN 0 ELSE Length \div (2 * Max({Median, 1}))

\* There is another window, all of it inside the recorded time.
HasWindow == stamps # {} /\ start + Length <= Max(stamps)

\* Mutant: sparse windows are left out, whether a fault owns them or not.
KeptIfObserved(s) == Cardinality(Samples(s)) >= CoverageFloor

\* A sparse window is only kept as an observation of a fault.
Keeps(floor, count, owner) == count >= floor \/ owner # NoFault

Kept(s) == Keeps(CoverageFloor, Cardinality(Samples(s)), Owner(intervals, s))

\* Mutant: the loop ends at the first window that is left out.
NextWindowOrStop ==
  /\ HasWindow
  /\ IF Kept(start)
       THEN /\ rows' = Append(rows, [start |-> start, owner |-> Owner(intervals, start),
                                     samples |-> Cardinality(Samples(start))])
            /\ start' = start + Hop
       ELSE start' = Max(stamps) /\ UNCHANGED rows
  /\ UNCHANGED <<stamps, intervals>>

NextWindow ==
  /\ HasWindow
  /\ rows' = IF Kept(start)
               THEN Append(rows, [start |-> start, owner |-> Owner(intervals, start),
                                  samples |-> Cardinality(Samples(start))])
               ELSE rows
  /\ start' = start + Hop
  /\ UNCHANGED <<stamps, intervals>>

Spec == Init /\ [][NextWindow]_vars

-----------------------------------------------------------------------------
\* The table, as far as it has been built.

Faults == {intervals[i] : i \in DOMAIN intervals}

\* The time that the windows made so far cover.
Covered ==
  IF stamps = {} \/ start = Min(stamps) THEN {} ELSE Min(stamps)..(start - Hop + Length - 1)

\* The time that no tail is cut off from, once no window is left: all but the
\* last hop of a recording of at least one window.
Reached ==
  IF stamps = {} \/ HasWindow \/ Min(stamps) + Length > Max(stamps)
    THEN {} ELSE Min(stamps)..(Max(stamps) - Hop)

During(f) == f.start..(f.end - 1)

\* "Greatest overlap wins" (ADR-0003): a row's label is a fault that overlaps
\* its window more than those listed before it and at least as much as those
\* after it; normal rows touch no fault.  Of equals it is the first LISTED:
\* labels.py, ADR-0003 and a test say the earlier one, which is the first of
\* a list in order of time, but a query lists faults table by table.
LabelsRight ==
  \A i \in DOMAIN rows : LET r == rows[i] IN
    \/ r.owner = NoFault /\ \A f \in Faults : Overlap(r.start, f) <= 0
    \/ \E n \in DOMAIN intervals :
         /\ r.owner = intervals[n] /\ Overlap(r.start, r.owner) > 0
         /\ \A m \in DOMAIN intervals :
              /\ m < n => Overlap(r.start, intervals[m]) < Overlap(r.start, r.owner)
              /\ m > n => Overlap(r.start, intervals[m]) <= Overlap(r.start, r.owner)

\* "The median is robust to the big gaps ..., so it recovers the true sample
\* period regardless of how wide the query was" (build.py): if more than half
\* of the samples are followed after d, a row is only called normal if half
\* of the samples that a window has at that distance are there, whatever gaps
\* the rest of the recording has.
NormalIsObserved ==
  \A i \in DOMAIN rows : rows[i].owner = NoFault =>
    \A d \in {Gap(t) : t \in Followed} :
      2 * Cardinality({t \in Followed : Gap(t) = d}) > Cardinality(Followed)
        => rows[i].samples >= Length \div (2 * d)

\* No instant of a fault that the windows cover is lost to the table, however
\* few samples the fault let through: a drop-out is data, not a gap.  And in
\* the end they cover all but the last hop of the recording.
FaultTimeIsLabelled ==
  \A f \in Faults : \A t \in (Covered \union Reached) \intersect During(f) :
    \E i \in DOMAIN rows :
      rows[i].owner # NoFault /\ rows[i].start <= t /\ t < rows[i].start + Length

\* A fault that lasts at least a window's length while windows cover it owns a
\* row, whatever other fault comes before or after it.
LongFaultsHaveRows ==
  \A f \in Faults :
    f.end - f.start >= Length /\ During(f) \subseteq Covered
      => \E i \in DOMAIN rows : rows[i].owner = f
=============================================================================
