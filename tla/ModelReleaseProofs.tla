-------------------------- MODULE ModelReleaseProofs --------------------------
(***************************************************************************)
(* What becomes of a scripted run, for any schedule, any spans, and any    *)
(* number of datasets, trainings and restarts.                             *)
(***************************************************************************)
EXTENDS ModelRelease, FaultInjectorProofs, FiniteSetTheorems, WellFoundedInduction

-----------------------------------------------------------------------------
\* The files that notebook 02 saves, and who reads them.

Data == Spans \union {Nothing}

Pair == [model: Data, manifest: Data]

ReleaseTypes ==
  /\ dataset \in Data /\ trained \in Data
  /\ trainer \in [data: Data, saved: 0..3]
  /\ trainer.data = Nothing => trainer.saved = 0
  /\ pairs \in [{"rule", "forest"} -> Pair]
  /\ service \in {"down", "half", "up", "none"} /\ served \in Pair

\* After three files the served pair has the new model and the old manifest.
Midway == trainer.saved = 3

PairWhole == pairs["forest"].manifest = pairs["forest"].model

\* The served pair is whole unless its save is under way or was cut short, and
\* the service holds half of a whole pair unless a save came between.
ServedInv ==
  /\ Midway => pairs["forest"].model = trainer.data
  /\ Midway \/ cut \/ PairWhole
  /\ service = "half" => torn \/ (~Midway /\ ~cut /\ served.model = pairs["forest"].model)
  /\ service = "up" => torn \/ served.manifest = served.model

\* After a training that came to its end, all models are of its data.
TrainedInv ==
  /\ Training => trained = Nothing
  /\ trainer.saved >= 1 => pairs["rule"].model = trainer.data
  /\ trainer.saved >= 3 => pairs["forest"].model = trainer.data
  /\ trained # Nothing => \A stem \in DOMAIN pairs : pairs[stem].model = trained

\* Whose turn it is, read off the number of saved files.
LEMMA Turns ==
  ASSUME ReleaseTypes
  PROVE  /\ HalfSaved <=> trainer.saved \in {1, 3}
         /\ Current = IF trainer.saved \in {0, 1} THEN "rule" ELSE "forest"
         /\ "rule" # "forest"
<1> DEFINE n == trainer.saved
<1>1. n = 0 \/ n = 1 \/ n = 2 \/ n = 3
  BY DEF ReleaseTypes
<1>2. n % 2 = 1 <=> n \in {1, 3}
  BY <1>1
<1>3. n \div 2 + 1 = IF n \in {0, 1} THEN 1 ELSE 2
  BY <1>1
<1>4. Stems[1] = "rule" /\ Stems[2] = "forest"
  BY DEF Stems
<1> QED
  BY <1>2, <1>3, <1>4 DEF HalfSaved, Current

LEMMA StemsAre == {Stems[i] : i \in DOMAIN Stems} = {"rule", "forest"}
BY DEF Stems

LEMMA ReleaseStarts == ReleaseInit => ReleaseTypes /\ ServedInv /\ TrainedInv
<1> SUFFICES ASSUME ReleaseInit PROVE ReleaseTypes /\ ServedInv /\ TrainedInv
  OBVIOUS
<1>1. ReleaseTypes
  BY StemsAre DEF ReleaseInit, ReleaseTypes, Idle, NoPair, Data, Pair
<1>2. ServedInv
  BY StemsAre DEF ReleaseInit, ServedInv, Idle, NoPair, Midway, PairWhole
<1>3. TrainedInv
  BY DEF ReleaseInit, TrainedInv, Idle, Training
<1> QED
  BY <1>1, <1>2, <1>3

LEMMA TypesNext ==
  ASSUME ReleaseTypes, [ReleaseNext]_releaseVars
  PROVE  ReleaseTypes'
<1> USE DEF ReleaseTypes
<1>1. CASE UNCHANGED release
  BY <1>1 DEF release
<1>2. ASSUME NEW span \in Spans, BuildDataset(span) PROVE ReleaseTypes'
  BY <1>2 DEF BuildDataset, Data
<1>3. CASE StartTraining
  BY <1>3 DEF StartTraining, Data
<1>4. CASE SaveModel
  <2>1. trainer.saved \in 0..3 /\ trainer.saved \notin {1, 3} /\ trainer.data # Nothing /\ trainer.data \in Data
    BY <1>4, Turns DEF SaveModel, Training
  <2>2. trainer' \in [data: Data, saved: 0..3] /\ trainer'.data = trainer.data
    BY <1>4, <2>1 DEF SaveModel
  <2>3. pairs' \in [{"rule", "forest"} -> Pair]
    BY <1>4, <2>1, Turns DEF SaveModel, Pair
  <2> QED
    BY <1>4, <2>1, <2>2, <2>3 DEF SaveModel
<1>5. CASE SaveManifest
  <2>1. trainer.saved \in {1, 3} /\ trainer.data # Nothing /\ trainer.data \in Data
    BY <1>5, Turns DEF SaveManifest, Training
  <2>2. pairs' \in [{"rule", "forest"} -> Pair]
    BY <1>5, <2>1, Turns DEF SaveManifest, Pair
  <2>3. CASE trainer.saved = 1
    <3>1. trainer' = [trainer EXCEPT !.saved = @ + 1] /\ trained' = trained
      BY <1>5, <2>3, Turns DEF SaveManifest, AfterManifest
    <3> QED
      BY <1>5, <2>1, <2>2, <2>3, <3>1 DEF SaveManifest
  <2>4. CASE trainer.saved = 3
    <3>1. trainer' = Idle /\ trained' = trainer.data
      BY <1>5, <2>4, Turns DEF SaveManifest, AfterManifest
    <3> QED
      BY <1>5, <2>1, <2>2, <3>1 DEF SaveManifest, Idle, Data
  <2> QED
    BY <2>1, <2>3, <2>4
<1>6. CASE TrainingDies
  BY <1>6 DEF TrainingDies, Idle, Data
<1>7. CASE WriteReport
  BY <1>7 DEF WriteReport
<1>8. CASE ReadModel
  BY <1>8 DEF ReadModel, NoPair, Pair, Data
<1>9. CASE ReadManifest
  BY <1>9 DEF ReadManifest, Pair
<1>10. CASE ServiceRestarts
  BY <1>10 DEF ServiceRestarts, NoPair, Pair, Data
<1> QED
  BY <1>1, <1>2, <1>3, <1>4, <1>5, <1>6, <1>7, <1>8, <1>9, <1>10 DEF ReleaseNext, releaseVars

LEMMA ServedNext ==
  ASSUME ReleaseTypes, ServedInv, [ReleaseNext]_releaseVars
  PROVE  ServedInv'
<1> USE DEF ServedInv, Midway, PairWhole
<1>1. CASE UNCHANGED release
  BY <1>1 DEF release
<1>2. ASSUME NEW span \in Spans, BuildDataset(span) PROVE ServedInv'
  BY <1>2 DEF BuildDataset
<1>3. CASE StartTraining
  BY <1>3 DEF StartTraining, Idle
<1>4. CASE SaveModel
  <2>1. trainer.saved \in {0, 2}
    BY <1>4, Turns DEF SaveModel, ReleaseTypes
  <2>2. CASE trainer.saved = 0
    <3>1. Current = "rule"
      BY <2>2, Turns
    <3>2. trainer'.saved = 1 /\ pairs'["forest"] = pairs["forest"]
      BY <1>4, <2>2, <3>1, Turns DEF SaveModel, ReleaseTypes
    <3>3. (torn => torn') /\ (cut' <=> cut) /\ service' = service /\ served' = served
      BY <1>4, Zenon DEF SaveModel
    <3>4. 0 # 3 /\ 1 # 3
      OBVIOUS
    <3> QED
      BY <2>2, <3>2, <3>3, <3>4, Zenon
  <2>3. CASE trainer.saved = 2
    <3>1. Current = "forest"
      BY <2>3, Turns
    <3>2. /\ trainer'.saved = 3 /\ trainer'.data = trainer.data
          /\ pairs'["forest"].model = trainer.data
      BY <1>4, <2>3, <3>1 DEF SaveModel, ReleaseTypes, Pair
    <3>3. (service = "half" => torn') /\ (torn => torn')
      BY <1>4, <3>1, Zenon DEF SaveModel
    <3> QED
      BY <1>4, <2>3, <3>2, <3>3 DEF SaveModel
  <2> QED
    BY <2>1, <2>2, <2>3
<1>5. CASE SaveManifest
  <2>1. trainer.saved \in {1, 3}
    BY <1>5, Turns DEF SaveManifest
  <2>2. CASE trainer.saved = 1
    <3>1. Current = "rule" /\ Current # "forest"
      BY <2>2, Turns
    <3>2. trainer'.saved = 2 /\ pairs'["forest"] = pairs["forest"]
      BY <1>5, <2>2, <3>1 DEF SaveManifest, AfterManifest, ReleaseTypes
    <3>3. (cut' <=> cut) /\ (torn' <=> torn) /\ service' = service /\ served' = served
      BY <1>5, <3>1, Zenon DEF SaveManifest, AfterManifest
    <3>4. 1 # 3 /\ 2 # 3
      OBVIOUS
    <3> QED
      BY <2>2, <3>2, <3>3, <3>4, Zenon
  <2>3. CASE trainer.saved = 3
    <3>1. Current = "forest"
      BY <2>3, Turns
    <3>2. /\ trainer'.saved = 0
          /\ pairs'["forest"].manifest = trainer.data /\ pairs'["forest"].model = pairs["forest"].model
      BY <1>5, <2>3, <3>1 DEF SaveManifest, AfterManifest, ReleaseTypes, Pair, Idle
    <3>3. ~cut'
      BY <1>5, <3>1, Zenon DEF SaveManifest, AfterManifest
    <3> QED
      BY <1>5, <2>3, <3>2, <3>3 DEF SaveManifest
  <2> QED
    BY <2>1, <2>2, <2>3
<1>6. CASE TrainingDies
  <2>1. Midway => cut'
    <3>1. Midway => HalfSaved /\ Current = "forest"
      BY Turns
    <3> QED
      BY <1>6, <3>1, Zenon DEF TrainingDies
  <2>2. (cut => cut') /\ (Midway \/ cut \/ ~cut')
    <3>1. HalfSaved /\ Current = "forest" => Midway
      BY Turns DEF ReleaseTypes
    <3> QED
      BY <1>6, <3>1, Zenon DEF TrainingDies
  <2>3. trainer'.saved = 0
    BY <1>6 DEF TrainingDies, Idle
  <2> QED
    BY <1>6, <2>1, <2>2, <2>3 DEF TrainingDies
<1>7. CASE WriteReport
  BY <1>7 DEF WriteReport
<1>8. CASE ReadModel
  <2>1. service' \in {"none", "half"} /\ served'.model = pairs["forest"].model
    BY <1>8 DEF ReadModel, NoPair
  <2>2. torn' \/ (~Midway /\ ~cut)
    <3>1. Midway => Training /\ HalfSaved /\ Current = "forest"
      BY Turns DEF Training, ReleaseTypes
    <3> QED
      BY <1>8, <3>1, Zenon DEF ReadModel
  <2> QED
    BY <1>8, <2>1, <2>2 DEF ReadModel
<1>9. CASE ReadManifest
  BY <1>9 DEF ReadManifest, ReleaseTypes, Pair
<1>10. CASE ServiceRestarts
  BY <1>10 DEF ServiceRestarts
<1> QED
  BY <1>1, <1>2, <1>3, <1>4, <1>5, <1>6, <1>7, <1>8, <1>9, <1>10 DEF ReleaseNext, releaseVars

\* "Decided together but stored apart": the service never compares a model's
\* scores with the threshold of another training, whatever was trained, saved
\* and restarted before, unless it started around a save or after one that
\* was cut short.
THEOREM ServedPairsWhole == ReleaseSpec => []ServedPairWhole
<1>1. ReleaseTypes /\ ServedInv /\ [ReleaseNext]_releaseVars => ReleaseTypes' /\ ServedInv'
  BY TypesNext, ServedNext
<1>2. ServedInv => ServedPairWhole
  BY DEF ServedInv, ServedPairWhole
<1> QED
  BY <1>1, <1>2, ReleaseStarts, PTL DEF ReleaseSpec

-----------------------------------------------------------------------------
\* How long a schedule lasts.

\* What is said of some number is said of a least one: the form in which the
\* proofs below use induction.
LEMMA LeastOfAll ==
  ASSUME NEW T \in SUBSET Nat, T # {}
  PROVE  \E m \in T : \A n \in T : m <= n
<1>1. PICK m \in T : \A n \in T : <<n, m>> \notin OpToRel(<, Nat)
  BY WFMin, NatLessThanWellFounded, Zenon
<1>2. \A n \in T : ~(n < m)
  BY <1>1, Zenon DEF OpToRel
<1> QED
  BY <1>2

LEMMA GreatestOfAll ==
  ASSUME NEW S \in SUBSET Nat, S # {}, IsFiniteSet(S)
  PROVE  \E m \in S : \A n \in S : n <= m
<1> DEFINE Bad == {k \in Nat : \E U \in SUBSET S : U # {} /\ Cardinality(U) = k /\ ~ \E m \in U : \A n \in U : n <= m}
<1>1. Cardinality(S) \in Nat
  BY FS_CardinalityType
<1>2. ASSUME Bad # {} PROVE FALSE
  <2>1. PICK k \in Bad : \A j \in Bad : k <= j
    BY <1>2, LeastOfAll
  <2>2. PICK U \in SUBSET S : U # {} /\ Cardinality(U) = k /\ ~ \E m \in U : \A n \in U : n <= m
    BY <2>1
  <2>3. IsFiniteSet(U) /\ k \in Nat
    BY <2>1, FS_Subset
  <2>4. PICK x \in U : TRUE
    BY <2>2
  <2> DEFINE V == U \ {x}
  <2>5. Cardinality(V) = k - 1 /\ Cardinality(V) \in Nat /\ V \in SUBSET S
    BY <2>2, <2>3, <2>4, FS_RemoveElement, FS_CardinalityType
  <2>6. PICK y \in V : \A n \in V : n <= y
    <3>1. V # {}
      BY <2>2, <2>4
    <3>2. Cardinality(V) \notin Bad
      BY <2>1, <2>3, <2>5
    <3> QED
      BY <2>5, <3>1, <3>2
  <2>7. x \in Nat /\ y \in Nat /\ x \in U /\ y \in U
    BY <2>4, <2>6
  <2>8. CASE x <= y
    BY <2>2, <2>6, <2>7, <2>8
  <2>9. CASE y <= x
    BY <2>2, <2>6, <2>7, <2>9
  <2> QED
    BY <2>7, <2>8, <2>9
<1> QED
  BY <1>1, <1>2

Sum(upto, n) == IF n = 0 THEN 0 ELSE upto[n - 1] + 2 * Schedule[n].secs

Sums(N, upto) == upto = [n \in 0..N |-> Sum(upto, n)]

LEMMA SumsExist ==
  ASSUME NEW N \in Nat
  PROVE  \E upto : Sums(N, upto)
<1> DEFINE Bad == {n \in Nat : ~ \E upto : Sums(n, upto)}
<1>1. ASSUME Bad # {} PROVE FALSE
  <2>1. PICK n \in Bad : \A m \in Bad : n <= m
    BY <1>1, LeastOfAll
  <2>2. n \in Nat /\ ~ \E upto : Sums(n, upto)
    BY <2>1
  <2>3. CASE n = 0
    <3> DEFINE b == [i \in 0..0 |-> 0]
    <3>1. \A i \in 0..0 : Sum(b, i) = 0
      BY DEF Sum
    <3>2. b = [i \in 0..0 |-> Sum(b, i)]
      BY <3>1
    <3> QED
      BY <2>2, <2>3, <3>2 DEF Sums
  <2>4. CASE n # 0
    <3>1. n - 1 \in Nat /\ n - 1 \notin Bad
      BY <2>1, <2>2, <2>4
    <3>2. PICK b : Sums(n - 1, b)
      BY <3>1
    <3> DEFINE c == [i \in 0..n |-> IF i = n THEN Sum(b, n) ELSE b[i]]
    <3>3. \A i \in 0..(n - 1) : c[i] = b[i] /\ b[i] = Sum(b, i)
      <4>1. \A i \in 0..(n - 1) : b[i] = Sum(b, i)
        BY <3>2, Zenon DEF Sums
      <4>2. \A i \in 0..(n - 1) : i \in 0..n /\ i # n
        BY <2>2
      <4> QED
        BY <4>1, <4>2
    <3>4. \A i \in 0..n : Sum(c, i) = Sum(b, i)
      <4>1. \A i \in 0..n : i # 0 => i - 1 \in 0..(n - 1)
        BY <2>2
      <4> QED
        BY <3>3, <4>1 DEF Sum
    <3>5. \A i \in 0..n : c[i] = Sum(c, i)
      <4>1. \A i \in 0..n : i = n \/ i \in 0..(n - 1)
        BY <2>2
      <4> QED
        BY <3>3, <3>4, <4>1
    <3>6. c = [i \in 0..n |-> Sum(c, i)]
      BY <3>5
    <3> QED
      BY <2>2, <3>6 DEF Sums
  <2> QED
    BY <2>3, <2>4
<1> QED
  BY <1>1

\* A segment begins when the ones before it are over.
LEMMA ElapsedIs ==
  /\ Len(Schedule) \in Nat /\ DOMAIN Schedule = 1..Len(Schedule)
  /\ \A n \in 0..Len(Schedule) : Elapsed[n] \in Nat
  /\ Elapsed[0] = 0
  /\ \A n \in DOMAIN Schedule :
       Schedule[n].secs \in Nat \ {0} /\ Elapsed[n] = Elapsed[n - 1] + 2 * Schedule[n].secs
<1> DEFINE N == Len(Schedule)
<1>1. N \in Nat /\ DOMAIN Schedule = 1..N /\ \A n \in 1..N : Schedule[n].secs \in Nat \ {0}
  <2>1. ASSUME NEW S, Schedule \in Seq(S)
        PROVE  N \in Nat /\ DOMAIN Schedule = 1..N /\ \A n \in 1..N : Schedule[n] \in S
    BY <2>1
  <2>2. N \in Nat /\ DOMAIN Schedule = 1..N /\ \A n \in 1..N : Schedule[n] \in [kind: STRING, joint: STRING, secs: Nat \ {0}]
    BY ScheduleType, <2>1, Zenon
  <2> QED
    BY <2>2
<1>2. \E upto : Sums(N, upto)
  BY <1>1, SumsExist
<1>3. Sums(N, Elapsed)
  BY <1>2 DEF Sums, Sum, Elapsed
<1>4. \A n \in 0..N : Elapsed[n] = Sum(Elapsed, n)
  BY <1>3, Zenon DEF Sums
<1> DEFINE Bad == {n \in 0..N : Elapsed[n] \notin Nat}
<1>5. ASSUME Bad # {} PROVE FALSE
  <2>1. Bad \in SUBSET Nat
    OBVIOUS
  <2>2. PICK n \in Bad : \A m \in Bad : n <= m
    BY <1>5, <2>1, LeastOfAll
  <2>3. n \in 0..N /\ Elapsed[n] \notin Nat /\ Elapsed[n] = Sum(Elapsed, n)
    BY <1>4, <2>2
  <2>4. n # 0
    BY <2>3 DEF Sum
  <2>5. n \in 1..N /\ n - 1 \in 0..N /\ n - 1 \notin Bad
    BY <1>1, <2>2, <2>3, <2>4
  <2> QED
    BY <1>1, <2>3, <2>4, <2>5 DEF Sum
<1>6. \A n \in 1..N : n \in 0..N /\ n # 0
  BY <1>1
<1>7. 0 \in 0..N
  BY <1>1
<1> QED
  BY <1>1, <1>4, <1>5, <1>6, <1>7 DEF Sum

LEMMA TimesAre ==
  RunTime \in Nat /\ SensorEnd \in Nat /\ End \in Nat /\ SensorEnd <= End /\ Settle = 1
<1>1. RunTime \in Nat
  BY ElapsedIs DEF RunTime
<1> QED
  BY <1>1, TimesType DEF SensorEnd, End, Settle

-----------------------------------------------------------------------------
\* What the report was made of.

\* The rows of every span are known as soon as a dataset was built.
TableInv ==
  dataset # Nothing => \A span \in Spans : IsFiniteSet(Rows(span)) /\ Rows(span) \in SUBSET Nat

ReportInv ==
  report # Nothing =>
       /\ dataset # Nothing /\ report.data \in Spans
       /\ report.support = SupportByKind(report.data, EvalRows(report.data))
       /\ report.planned => \A stem \in DOMAIN pairs : report.models[stem] = report.data

LEMMA TrainedNext ==
  ASSUME ReleaseTypes, TrainedInv, [ReleaseNext]_releaseVars
  PROVE  TrainedInv'
<1> USE DEF TrainedInv, Training
<1>1. CASE UNCHANGED release
  BY <1>1 DEF release
<1>2. ASSUME NEW span \in Spans, BuildDataset(span) PROVE TrainedInv'
  BY <1>2 DEF BuildDataset
<1>3. CASE StartTraining
  BY <1>3 DEF StartTraining
<1>4. CASE SaveModel
  <2>1. trainer.saved \in {0, 2} /\ trained' = Nothing
    BY <1>4, Turns DEF SaveModel, ReleaseTypes
  <2>2. CASE trainer.saved = 0
    BY <1>4, <2>1, <2>2, Turns DEF SaveModel, ReleaseTypes, Pair
  <2>3. CASE trainer.saved = 2
    BY <1>4, <2>1, <2>3, Turns DEF SaveModel, ReleaseTypes, Pair
  <2> QED
    BY <2>1, <2>2, <2>3
<1>5. CASE SaveManifest
  <2>1. trainer.saved \in {1, 3}
    BY <1>5, Turns DEF SaveManifest
  <2>2. \A stem \in {"rule", "forest"} : pairs'[stem].model = pairs[stem].model
    BY <1>5, Turns DEF SaveManifest, ReleaseTypes, Pair
  <2>3. DOMAIN pairs = {"rule", "forest"} /\ DOMAIN pairs' = {"rule", "forest"}
    BY <1>5, Turns DEF SaveManifest, ReleaseTypes
  <2>4. CASE trainer.saved = 1
    <3>1. trainer'.saved = 2 /\ trainer'.data = trainer.data /\ trained' = trained
      BY <1>5, <2>4, Turns DEF SaveManifest, AfterManifest, ReleaseTypes
    <3> QED
      BY <1>5, <2>2, <2>3, <2>4, <3>1 DEF SaveManifest
  <2>5. CASE trainer.saved = 3
    <3>1. trainer' = Idle /\ trained' = trainer.data
      BY <1>5, <2>5, Turns DEF SaveManifest, AfterManifest
    <3> QED
      BY <2>2, <2>3, <2>5, <3>1 DEF Idle
  <2> QED
    BY <2>1, <2>4, <2>5
<1>6. CASE TrainingDies
  BY <1>6 DEF TrainingDies, Idle
<1>7. CASE WriteReport
  BY <1>7 DEF WriteReport
<1>8. CASE ReadModel
  BY <1>8 DEF ReadModel
<1>9. CASE ReadManifest
  BY <1>9 DEF ReadManifest
<1>10. CASE ServiceRestarts
  BY <1>10 DEF ServiceRestarts
<1> QED
  BY <1>1, <1>2, <1>3, <1>4, <1>5, <1>6, <1>7, <1>8, <1>9, <1>10 DEF ReleaseNext, releaseVars

\* The rows of a dataset are those of its table.
LEMMA SameRows ==
  ASSUME table' = table, NEW span
  PROVE  Rows(span)' = Rows(span) /\ EvalRows(span)' = EvalRows(span)
BY DEF Rows, EvalRows, FaultRows, Normals

LEMMA SameSupport ==
  ASSUME table' = table, NEW span, NEW rows
  PROVE  SupportByKind(span, rows)' = SupportByKind(span, rows)
BY DEF SupportByKind

LEMMA ReportNext ==
  ASSUME ReleaseTypes, TrainedInv, ReportInv, [ReleaseNext]_releaseVars
  PROVE  ReportInv'
<1>1. DOMAIN pairs' = DOMAIN pairs
  BY TypesNext DEF ReleaseTypes
<1>2. ASSUME table' = table, report' = report, dataset # Nothing => dataset' # Nothing
      PROVE  ReportInv'
  BY <1>1, <1>2, SameRows, SameSupport DEF ReportInv
<1>3. CASE WriteReport
  <2>1. /\ table' = table /\ dataset' = dataset /\ dataset # Nothing /\ pairs' = pairs
        /\ report' = [data |-> dataset, planned |-> trained = dataset,
                      support |-> SupportByKind(dataset, EvalRows(dataset)),
                      models |-> [stem \in DOMAIN pairs |-> pairs[stem].model]]
    BY <1>3 DEF WriteReport
  <2>2. report'.support = (SupportByKind(report.data, EvalRows(report.data)))'
    <3>1. report'.data = dataset /\ report'.support = SupportByKind(dataset, EvalRows(dataset))
      BY <2>1
    <3> QED
      BY <2>1, <3>1 DEF SupportByKind, EvalRows, FaultRows, Normals, Rows
  <2>3. report'.planned => \A stem \in DOMAIN pairs' : report'.models[stem] = report'.data
    <3>1. report'.planned => trained = dataset
      BY <2>1, Zenon
    <3>2. \A stem \in DOMAIN pairs : report'.models[stem] = pairs[stem].model
      BY <2>1
    <3> QED
      BY <2>1, <3>1, <3>2 DEF TrainedInv
  <2>4. dataset' # Nothing /\ report'.data \in Spans
    BY <2>1 DEF ReleaseTypes, Data
  <2> QED
    BY <2>2, <2>3, <2>4 DEF ReportInv
<1>4. ASSUME NEW span \in Spans, BuildDataset(span) PROVE ReportInv'
  <2>1. dataset' # Nothing /\ report' = report
    BY <1>4, SpansType DEF BuildDataset
  <2>2. CASE dataset = Nothing
    <3>1. report = Nothing
      BY <2>2 DEF ReportInv
    <3> QED
      BY <2>1, <3>1 DEF ReportInv
  <2>3. CASE dataset # Nothing
    <3>1. table' = table
      BY <1>4, <2>3 DEF BuildDataset
    <3> QED
      BY <1>2, <2>1, <3>1
  <2> QED
    BY <2>2, <2>3
<1>5. CASE UNCHANGED release
  BY <1>2, <1>5 DEF release
<1>6. CASE StartTraining \/ SaveModel \/ SaveManifest \/ TrainingDies \/ ReadModel \/ ReadManifest \/ ServiceRestarts
  <2>1. table' = table /\ report' = report /\ dataset' = dataset
    BY <1>6 DEF StartTraining, SaveModel, SaveManifest, TrainingDies, ReadModel, ReadManifest, ServiceRestarts
  <2> QED
    BY <1>2, <2>1
<1> QED
  BY <1>3, <1>4, <1>5, <1>6 DEF ReleaseNext, releaseVars

\* The split makes two of the rows, the same two in either notebook.
LEMMA SplitIsFair ==
  ASSUME NEW span, IsFiniteSet(Rows(span))
  PROVE  /\ Rows(span) \ TrainRows(span) = EvalRows(span)
         /\ SupportByKind(span, EvalRows(span)) = SupportByKind(span, Rows(span))
<1> DEFINE Upto(s) == {u \in Normals(span) : u <= s}
<1>1. IsFiniteSet(Normals(span)) /\ Normals(span) \in SUBSET Rows(span)
  BY FS_Subset DEF Normals
<1>2. Cardinality(Normals(span)) \in Nat /\ \A s : Cardinality(Upto(s)) \in Nat
  BY <1>1, FS_Subset, FS_CardinalityType
<1>3. \A s : ~(10 * Cardinality(Upto(s)) <= 7 * Cardinality(Normals(span)))
                <=> 10 * Cardinality(Upto(s)) > 7 * Cardinality(Normals(span))
  BY <1>2
<1>4. Rows(span) \ TrainRows(span) = EvalRows(span)
  BY <1>1, <1>3 DEF TrainRows, EvalRows, FaultRows
<1>5. {s \in EvalRows(span) : table[span][s] # None} = {s \in Rows(span) : table[span][s] # None}
  BY DEF EvalRows, FaultRows, Normals
<1>6. SupportByKind(span, EvalRows(span)) = SupportByKind(span, Rows(span))
  BY <1>5 DEF SupportByKind
<1> QED
  BY <1>4, <1>6

\* If there are normal rows, the last one is evaluated.
LEMMA SomeHeldOut ==
  ASSUME NEW span, IsFiniteSet(Rows(span)), Rows(span) \in SUBSET Nat, Normals(span) # {}
  PROVE  \E s \in EvalRows(span) : table[span][s] = None
<1> DEFINE N == Normals(span)
<1>1. IsFiniteSet(N) /\ N \in SUBSET Nat /\ N # {}
  BY FS_Subset DEF Normals
<1>2. PICK m \in N : \A u \in N : u <= m
  BY <1>1, GreatestOfAll
<1>3. {u \in N : u <= m} = N
  BY <1>2
<1>4. Cardinality(N) \in Nat /\ Cardinality(N) # 0
  BY <1>1, FS_CardinalityType, FS_EmptySet
<1>5. 10 * Cardinality(N) > 7 * Cardinality(N)
  BY <1>4
<1>6. m \in EvalRows(span) /\ table[span][m] = None
  BY <1>2, <1>3, <1>5 DEF EvalRows, Normals
<1> QED
  BY <1>6

\* A report is fair, whatever the run was like, if its dataset has a normal row.
LEMMA FairWithNormals ==
  ASSUME TableInv, ReportInv, report # Nothing => Normals(report.data) # {}
  PROVE  ReportIsFair
<1> DEFINE d == report.data
<1>1. SUFFICES ASSUME report # Nothing
               PROVE  /\ report.planned => \A stem \in DOMAIN pairs : report.models[stem] = d
                      /\ \A stem \in DOMAIN pairs :
                           report.models[stem] = d => Rows(d) \ TrainRows(report.models[stem]) = EvalRows(d)
                      /\ report.support = SupportByKind(d, Rows(d))
                      /\ \E s \in EvalRows(d) : table[d][s] = None
  BY Zenon DEF ReportIsFair
<1>2. /\ dataset # Nothing /\ d \in Spans
      /\ report.support = SupportByKind(d, EvalRows(d))
      /\ report.planned => \A stem \in DOMAIN pairs : report.models[stem] = d
  BY <1>1 DEF ReportInv
<1>3. IsFiniteSet(Rows(d)) /\ Rows(d) \in SUBSET Nat
  BY <1>2 DEF TableInv
<1>4. Rows(d) \ TrainRows(d) = EvalRows(d) /\ SupportByKind(d, EvalRows(d)) = SupportByKind(d, Rows(d))
  BY <1>3, SplitIsFair
<1>5. \E s \in EvalRows(d) : table[d][s] = None
  BY <1>1, <1>3, SomeHeldOut
<1> QED
  BY <1>2, <1>4, <1>5

-----------------------------------------------------------------------------
\* The scripted run: where each fault is in its life.

\* A segment's beginning, and the latest fault segment but for one normal one.
Pub(c) == Settle + Elapsed[c - 1]

Latest == IF segment \in FaultSegments THEN segment ELSE segment - 1

Resting == sent = {} /\ inbox = <<>> /\ ~Active(session)

\* The three stages of a fault's life.
Pending(c) ==
  /\ ~Active(session) /\ now <= Pub(c) + Latency
  /\ \/ sent = {[cmd |-> c, at |-> Pub(c)]} /\ inbox = <<>>
     \/ sent = {} /\ inbox = <<c>>
  /\ \A t \in DOMAIN samples : samples[t] # c

Running(c) ==
  /\ sent = {} /\ inbox = <<>> /\ session.command = c
  /\ Pub(c) <= session.started /\ session.started <= Pub(c) + Latency /\ session.started <= now
  /\ session.deadline = session.started + Duration[c]
  /\ beater.wake < session.deadline + Period
  /\ beater.at = "publishing" => now < session.deadline

Finished(c) ==
  /\ Resting /\ Pub(c) + Duration[c] <= now
  /\ \E j \in DOMAIN stream :
       stream[j].id = c /\ ~stream[j].active /\ stream[j].stamp < Pub(c) + Latency + Duration[c] + Period

Stage ==
  /\ \A c \in FaultSegments : c = Latest => Pending(c) \/ Running(c) \/ Finished(c)
  /\ Latest \notin FaultSegments => Resting

Clock ==
  /\ segment \in 0..(Len(Schedule) + 1) /\ start \in Nat
  /\ segment = 0 => now <= Settle
  /\ segment # 0 => start = Settle + Elapsed[segment - 1] /\ start <= now
  /\ segment \in DOMAIN Schedule => now <= start + 2 * Secs(segment)

Link ==
  /\ conn \in {"backoff", "up"}
  /\ conn = "backoff" => /\ now <= Settle /\ stream = <<>> /\ inbox = <<>> /\ ~Active(session)
                         /\ beater.at = "sleeping"
  /\ conn = "up" => now <= beater.wake
  /\ beater.wake <= now + Period
  /\ listener.at # "closing"
  /\ \A i \in DOMAIN stream : stream[i].stamp < now => i <= received

Closings ==
  \A i \in DOMAIN stream :
    ~stream[i].active =>
      stream[i].stamp - stream[i].started \in
        Duration[stream[i].id]..(Duration[stream[i].id] + Period)

Past ==
  \A d \in FaultSegments :
    d + 1 < segment => \E j \in 1..received : stream[j].id = d /\ ~stream[j].active

WindowOf(i) ==
  [kind |-> Schedule[i].kind, of |-> i, start |-> Settle + Elapsed[i - 1], end |-> Settle + Elapsed[i]]

Windows ==
  /\ windows \in Seq({WindowOf(i) : i \in DOMAIN Schedule})
  /\ Len(windows) = IF segment = 0 THEN 0 ELSE segment - 1
  /\ \A i \in DOMAIN windows : windows[i] = WindowOf(i)

SampleTimes ==
  /\ now < SensorEnd => Len(samples) <= now /\ now <= Len(samples) + 1
  /\ now >= SensorEnd => Len(samples) = SensorEnd - 1
  /\ Len(scores) <= now /\ now <= Len(scores) + 1

SampleFaults ==
  \A t \in DOMAIN samples :
    samples[t] # None =>
      /\ samples[t] \in FaultSegments /\ samples[t] <= segment
      /\ Pub(samples[t]) <= t
      /\ t + 1 < Pub(samples[t]) + Latency + Duration[samples[t]] + Period

FaultSamples ==
  \A c \in FaultSegments : \A t \in DOMAIN samples :
    Pub(c) <= t /\ t < Pub(c) + Duration[c] =>
      /\ Pub(c) + Latency <= t => samples[t] = c
      /\ \A u \in DOMAIN samples : u <= t /\ samples[u] = c => samples[t] = c

Scored == \A t \in DOMAIN scores : scores[t] = Held(t)

RunSpec == RunInit /\ [][RunNext]_runVars

LEMMA ReleaseRuns == ReleaseSpec => RunSpec
<1>1. ReleaseInit => RunInit
  BY DEF ReleaseInit
<1>2. [ReleaseNext]_releaseVars => [RunNext]_runVars
  BY DEF ReleaseNext, releaseVars, BuildDataset, StartTraining, SaveModel, SaveManifest,
         TrainingDies, WriteReport, ReadModel, ReadManifest, ServiceRestarts
<1> QED
  BY <1>1, <1>2, PTL DEF ReleaseSpec, RunSpec

\* Only commands are ever on their way.
OnlyCommands == \A s \in sent : s.cmd \in Commands

LEMMA OnlyCommandsSent ==
  /\ RunInit => OnlyCommands
  /\ OnlyCommands /\ [RunNext]_runVars => OnlyCommands'
<1>1. RunInit => OnlyCommands
  BY DEF RunInit, OnlyCommands
<1>2. ASSUME OnlyCommands, NextSegment PROVE OnlyCommands'
  BY <1>2, CommandsType DEF OnlyCommands, NextSegment
<1>3. ASSUME OnlyCommands, sent' \subseteq sent PROVE OnlyCommands'
  BY <1>3 DEF OnlyCommands
<1>4. [RunNext]_runVars => NextSegment \/ sent' \subseteq sent
  BY DEF RunNext, runVars, run, WorkerConnects, CommandArrives, InjectorRuns, SensorSamples, ScoreArrives, TimePasses
<1> QED
  BY <1>1, <1>2, <1>3, <1>4

\* A script is one of the injector's behaviours.
LEMMA RunIsInjectors == OnlyCommands /\ [RunNext]_runVars => [Next]_vars
<1>1. ASSUME OnlyCommands, CommandArrives PROVE \E m \in Messages : Deliver(m)
  <2>1. PICK s \in sent : Deliver(s.cmd)
    BY <1>1 DEF CommandArrives
  <2>2. s.cmd \in Messages
    BY <1>1 DEF OnlyCommands, Messages
  <2> QED
    BY <2>1, <2>2
<1> QED
  BY <1>1, Zenon DEF RunNext, runVars, WorkerConnects, NextSegment, InjectorRuns, SensorSamples, ScoreArrives,
         TimePasses, Next, Worker

LEMMA CommandIs ==
  ASSUME NEW c \in FaultSegments
  PROVE  /\ c \in DOMAIN Schedule /\ c \in Nat \ {0} /\ c <= Len(Schedule)
         /\ c \in Commands /\ c # None /\ c # Clear /\ c # Invalid
         /\ Duration[c] \in Nat \ {0} /\ Duration[c] = 2 * Schedule[c].secs
         /\ Pub(c) \in Nat /\ Pub(c) + Duration[c] = Settle + Elapsed[c]
<1>1. c \in DOMAIN Schedule /\ c \in Nat \ {0} /\ c <= Len(Schedule) /\ c - 1 \in 0..Len(Schedule)
  BY ElapsedIs DEF FaultSegments
<1>2. c \in Commands /\ c # None /\ c # Clear /\ c # Invalid /\ Duration[c] = 2 * Schedule[c].secs
  <2>1. c \in Commands
    BY CommandsType
  <2> QED
    BY <2>1, CommandsType, NoneIsNoCommand, MessagesDiffer
<1>3. PICK n \in Nat \ {0} : n = Schedule[c].secs
  BY <1>1, ElapsedIs
<1>4. PICK e \in Nat : e = Elapsed[c - 1]
  BY <1>1, ElapsedIs
<1>5. Elapsed[c] = e + 2 * n
  BY <1>1, <1>3, <1>4, ElapsedIs
<1> QED
  <2>1. Duration[c] = 2 * n /\ 2 * n \in Nat \ {0}
    BY <1>2, <1>3
  <2>2. Pub(c) = 1 + e /\ 1 + e \in Nat
    BY <1>4 DEF Pub, Settle
  <2>3. Pub(c) + Duration[c] = Settle + Elapsed[c]
    BY <1>5, <2>1, <2>2, <1>3, <1>4 DEF Settle
  <2> QED
    BY <1>1, <1>2, <2>1, <2>2, <2>3

LEMMA Quickly ==
  ASSUME WorkerConnects \/ CommandArrives \/ InjectorRuns \/ SensorSamples \/ ScoreArrives
  PROVE  UNCHANGED <<now, segment, start, windows>>
<1>1. InjectorRuns => UNCHANGED <<now, segment, start, windows>>
  BY DEF InjectorRuns, Listener, Beater, BrokerReceives, ListenerSkips, ListenerEndsFault,
         ListenerStartsFault, ListenerClosed, ListenerOpened, BeaterExpires, BeaterBeats, BeaterIdles,
         BeaterSleeps, run
<1>2. CommandArrives => UNCHANGED <<now, segment, start, windows>>
  BY DEF CommandArrives, Deliver
<1> QED
  BY <1>1, <1>2 DEF WorkerConnects, Connect, SensorSamples, ScoreArrives, vars, run

\* A segment ends when the seconds of all segments up to it are over.
LEMMA SegmentTime ==
  ASSUME Clock, now \in Nat, NextSegment
  PROVE  /\ segment \in 0..Len(Schedule) /\ segment' = segment + 1 /\ now' = now /\ start' = now
         /\ now = Settle + Elapsed[segment]
<1>1. segment \in 0..Len(Schedule) /\ segment' = segment + 1 /\ now' = now /\ start' = now /\ SegmentEnds
  BY ElapsedIs DEF NextSegment, Clock, vars
<1>2. CASE segment = 0
  <2>1. now >= Settle /\ now <= Settle /\ Elapsed[0] = 0
    BY <1>1, <1>2, ElapsedIs DEF SegmentEnds, Clock
  <2> QED
    BY <1>1, <1>2, <2>1 DEF Settle
<1>3. CASE segment # 0
  <2>1. segment \in DOMAIN Schedule
    BY <1>1, <1>3, ElapsedIs
  <2>2. PICK n \in Nat : n = Schedule[segment].secs /\ n = Secs(segment)
    BY <2>1, ElapsedIs DEF Secs
  <2>3. PICK e \in Nat : e = Elapsed[segment - 1] /\ Elapsed[segment] = e + 2 * n
    <3>1. segment - 1 \in 0..Len(Schedule)
      BY <2>1, ElapsedIs
    <3>2. Elapsed[segment - 1] \in Nat
      BY <3>1, ElapsedIs
    <3> QED
      BY <2>1, <2>2, <3>2, ElapsedIs
  <2>4. start = Settle + e /\ now <= start + 2 * n /\ now >= start + 2 * n
    BY <1>1, <1>3, <2>1, <2>2, <2>3 DEF Clock, SegmentEnds
  <2> QED
    BY <1>1, <2>3, <2>4 DEF Settle
<1> QED
  BY <1>2, <1>3

LEMMA ClockNext ==
  ASSUME Clock, now \in Nat, [RunNext]_runVars
  PROVE  Clock'
<1>1. CASE UNCHANGED <<now, segment, start>>
  BY <1>1 DEF Clock, Secs
<1>2. CASE NextSegment
  <2>1. /\ segment \in 0..Len(Schedule) /\ segment' = segment + 1 /\ now' = now /\ start' = now
        /\ now = Settle + Elapsed[segment]
    BY <1>2, SegmentTime
  <2>2. segment' \in 1..(Len(Schedule) + 1) /\ segment' - 1 = segment
    BY <2>1, ElapsedIs
  <2>3. segment' \in DOMAIN Schedule => Secs(segment)' \in Nat
    BY ElapsedIs DEF Secs
  <2> QED
    BY <2>1, <2>2, <2>3 DEF Clock
<1>3. CASE TimePasses
  <2>1. now' = now + 1 /\ UNCHANGED <<segment, start>> /\ ~(SegmentEnds /\ segment <= Len(Schedule))
    BY <1>3 DEF TimePasses, Tick, run, Quiet
  <2>2. segment \in DOMAIN Schedule => segment # 0 /\ segment <= Len(Schedule) /\ Secs(segment) \in Nat
    BY ElapsedIs DEF Secs
  <2>3. segment = 0 => now < Settle
    BY <2>1, ElapsedIs DEF SegmentEnds, Settle
  <2>4. segment \in DOMAIN Schedule => now < start + 2 * Secs(segment)
    <3>1. SUFFICES ASSUME segment \in DOMAIN Schedule PROVE now < start + 2 * Secs(segment)
      OBVIOUS
    <3>2. ~(now >= start + 2 * Secs(segment))
      BY <2>1, <2>2, <3>1 DEF SegmentEnds
    <3> QED
      BY <2>2, <3>1, <3>2 DEF Clock
  <2>5. Secs(segment)' = Secs(segment)
    BY <2>1 DEF Secs
  <2>6. segment' # 0 => start' <= now'
    BY <2>1 DEF Clock
  <2>7. segment' = 0 => now' <= Settle
    BY <2>1, <2>3 DEF Settle
  <2>8. segment' \in DOMAIN Schedule => now' <= start' + 2 * Secs(segment)'
    BY <2>1, <2>2, <2>4, <2>5 DEF Clock
  <2> QED
    BY <2>1, <2>6, <2>7, <2>8 DEF Clock
<1>4. CASE UNCHANGED runVars
  BY <1>1, <1>4 DEF runVars, vars, run
<1> QED
  BY <1>1, <1>2, <1>3, <1>4, Quickly DEF RunNext

LEMMA WindowsNext ==
  ASSUME Clock, Windows, now \in Nat, [RunNext]_runVars
  PROVE  Windows'
<1>1. CASE UNCHANGED <<segment, windows>>
  BY <1>1 DEF Windows
<1>2. CASE NextSegment
  <2>1. /\ segment \in 0..Len(Schedule) /\ segment' = segment + 1 /\ now = Settle + Elapsed[segment]
        /\ windows' = windows \o Ended
    BY <1>2, SegmentTime DEF NextSegment
  <2> DEFINE W == {WindowOf(i) : i \in DOMAIN Schedule}
  <2>2. windows \in Seq(W) /\ \A i \in DOMAIN windows : windows[i] = WindowOf(i)
    BY DEF Windows
  <2>3. CASE segment = 0
    <3>1. windows = <<>> /\ windows' = <<>>
      BY <2>1, <2>2, <2>3 DEF Windows, Ended
    <3> QED
      BY <2>1, <2>3, <3>1 DEF Windows
  <2>4. CASE segment # 0
    <3>1. segment \in DOMAIN Schedule
      BY <2>1, <2>4, ElapsedIs
    <3>2. PICK w : w = WindowOf(segment)
      OBVIOUS
    <3>3. Ended = <<w>> /\ w \in W
      BY <2>1, <2>4, <3>1, <3>2 DEF Ended, WindowOf, Clock
    <3> HIDE DEF W
    <3>4. windows' \in Seq(W) /\ Len(windows') = Len(windows) + 1 /\ Len(windows) + 1 = segment
      BY <2>1, <2>2, <2>4, <3>3, ElapsedIs DEF Windows
    <3>5. \A i \in DOMAIN windows' : windows'[i] = WindowOf(i)
      BY <2>1, <2>2, <3>2, <3>3, <3>4
    <3> QED
      BY <2>1, <3>4, <3>5, ElapsedIs DEF Windows, W
  <2> QED
    BY <2>3, <2>4
<1>3. [RunNext]_runVars => NextSegment \/ UNCHANGED <<segment, windows>>
  BY Quickly DEF RunNext, TimePasses, runVars, run
<1> QED
  BY <1>1, <1>2, <1>3

Core == Link /\ Stage /\ Closings /\ Past

\* A label more, with the others in place.
Grows(l) ==
  /\ stream' = Append(stream, l) /\ received' = received /\ now' = now /\ segment' = segment
  /\ l \in Label /\ l.stamp = now

LEMMA Grown ==
  ASSUME TypeOK, NEW l, Grows(l)
  PROVE  /\ Len(stream) \in Nat /\ Len(stream') = Len(stream) + 1
         /\ DOMAIN stream = 1..Len(stream) /\ DOMAIN stream' = 1..(Len(stream) + 1)
         /\ \A i \in DOMAIN stream : i \in DOMAIN stream' /\ stream'[i] = stream[i]
         /\ stream'[Len(stream) + 1] = l
         /\ \A i \in DOMAIN stream' : i \in DOMAIN stream \/ i = Len(stream) + 1
BY DEF TypeOK, Grows

\* What is said of the stream in the stages is true of a longer one.
LEMMA GrownCore ==
  ASSUME TypeOK, Core, NEW l, Grows(l),
         ~l.active => l.stamp - l.started \in Duration[l.id]..(Duration[l.id] + Period)
  PROVE  /\ \A i \in DOMAIN stream' : stream'[i].stamp < now' => i <= received'
         /\ Closings' /\ Past'
<1>1. received \in 0..Len(stream) /\ now \in Nat /\ Len(stream) \in Nat
  BY DEF TypeOK
<1>2. ASSUME NEW i \in DOMAIN stream', stream'[i].stamp < now' PROVE i <= received'
  BY <1>1, <1>2, Grown DEF Core, Link, Grows
<1>3. Closings'
  BY Grown DEF Core, Closings
<1>4. Past'
  <2>1. \A j \in 1..received : j \in DOMAIN stream /\ stream'[j] = stream[j]
    BY <1>1, Grown
  <2> QED
    BY <1>1, <2>1 DEF Core, Past, Grows
<1> QED
  BY <1>2, <1>3, <1>4

LEMMA SameCore ==
  ASSUME TypeOK, Core, UNCHANGED <<now, stream, received, segment>>
  PROVE  /\ \A i \in DOMAIN stream' : stream'[i].stamp < now' => i <= received'
         /\ Closings' /\ Past'
BY DEF Core, Link, Closings, Past

LEMMA LatestIs ==
  ASSUME segment' = segment
  PROVE  Latest' = Latest
BY DEF Latest

\* The latest fault's segment has begun, and its successor when it was over.
LEMMA LatestBegan ==
  ASSUME Clock, now \in Nat, NEW c \in FaultSegments, c = Latest
  PROVE  /\ Pub(c) <= now /\ segment \in {c, c + 1}
         /\ segment = c => start = Pub(c)
         /\ segment = c + 1 => start = Pub(c) + Duration[c]
<1>1. segment \in {c, c + 1} /\ c \in Nat \ {0} /\ segment # 0
  <2>1. c \in Nat \ {0} /\ segment \in Int
    BY CommandIs, ElapsedIs DEF Clock
  <2> QED
    BY <2>1 DEF Latest
<1>2. start = Settle + Elapsed[segment - 1] /\ start <= now /\ start \in Nat
  BY <1>1 DEF Clock
<1>3. Pub(c) \in Nat /\ Duration[c] \in Nat /\ Pub(c) + Duration[c] = Settle + Elapsed[c]
  BY CommandIs
<1>4. CASE segment = c
  BY <1>1, <1>2, <1>4 DEF Pub
<1>5. CASE segment = c + 1
  <2>1. segment - 1 = c
    BY <1>1, <1>5
  <2>2. start = Pub(c) + Duration[c]
    BY <1>2, <1>3, <2>1
  <2> QED
    BY <1>1, <1>2, <1>3, <1>5, <2>2
<1> QED
  BY <1>1, <1>4, <1>5

LEMMA ConnectsCore ==
  ASSUME TypeOK, Core, WorkerConnects
  PROVE  Core'
<1>1. /\ conn = "backoff" /\ conn' = "up" /\ beater' = SleepingBeater(now) /\ now \in Nat /\ Period \in Nat \ {0}
      /\ UNCHANGED <<now, session, listener, inbox, stream, received, run>>
  BY PeriodType DEF WorkerConnects, Connect, TypeOK
<1>2. ~Active(session) /\ listener.at # "closing"
  BY <1>1 DEF Core, Link
<1>3. beater'.wake = now + Period /\ now <= now + Period
  BY <1>1 DEF SleepingBeater
<1>4. UNCHANGED <<now, stream, received, segment, sent, samples>>
  BY <1>1 DEF run
<1>5. Link'
  BY <1>1, <1>2, <1>3, <1>4, SameCore DEF Link
<1>6. Stage'
  <2>1. ASSUME NEW c \in FaultSegments, c = Latest PROVE Pending(c)' \/ Finished(c)'
    <3>1. Pending(c) \/ Finished(c)
      BY <1>2, <2>1, CommandIs DEF Core, Stage, Running, Active
    <3> QED
      BY <1>1, <1>4, <3>1 DEF Pending, Finished, Resting, Active
  <2>2. Latest \notin FaultSegments => Resting'
    BY <1>1, <1>4 DEF Core, Stage, Resting, Active
  <2> QED
    BY <1>4, <2>1, <2>2, LatestIs DEF Stage
<1> QED
  BY <1>4, <1>5, <1>6, SameCore DEF Core

LEMMA ArrivesCore ==
  ASSUME TypeOK, Core, CommandArrives
  PROVE  Core'
<1>1. PICK s \in sent : Deliver(s.cmd) /\ sent' = sent \ {s} /\ UNCHANGED <<segment, samples>>
  BY DEF CommandArrives
<1>2. /\ conn = "up" /\ inbox' = Append(inbox, s.cmd)
      /\ UNCHANGED <<now, session, conn, listener, beater, stream, received>>
  BY <1>1 DEF Deliver
<1>3. PICK c \in FaultSegments : c = Latest /\ (Pending(c) \/ Running(c) \/ Finished(c))
  BY <1>1 DEF Core, Stage, Resting
<1>4. Pending(c) /\ sent = {[cmd |-> c, at |-> Pub(c)]} /\ inbox = <<>>
  BY <1>1, <1>3 DEF Pending, Running, Finished, Resting
<1>5. sent' = {} /\ inbox' = <<c>>
  BY <1>1, <1>2, <1>4
<1>6. Pending(c)'
  BY <1>1, <1>2, <1>4, <1>5 DEF Pending, Active
<1>7. Link'
  BY <1>1, <1>2, SameCore DEF Core, Link, Active
<1>8. Latest' = c
  BY <1>1, <1>3, LatestIs
<1> QED
  BY <1>1, <1>2, <1>3, <1>6, <1>7, <1>8, SameCore DEF Core, Stage

\* A fault begins: it is the latest one, and its command had arrived.
LEMMA StartsCore ==
  ASSUME TypeOK, Clock, Core, ListenerStartsFault, UNCHANGED run
  PROVE  Core'
<1>1. UNCHANGED <<now, conn, beater, received, segment, sent, samples>> /\ conn # "backoff"
  BY DEF ListenerStartsFault, run, Serving
<1>2. PICK c \in FaultSegments : c = Latest /\ (Pending(c) \/ Running(c) \/ Finished(c))
  BY DEF Core, Stage, Resting, ListenerStartsFault
<1>3. Pending(c) /\ sent = {} /\ inbox = <<c>>
  BY <1>2 DEF Pending, Running, Finished, Resting, ListenerStartsFault
<1>4. /\ c \in Commands /\ c # None /\ c # Clear /\ Duration[c] \in Nat \ {0} /\ Pub(c) \in Nat
      /\ now \in Nat /\ Period \in Nat \ {0} /\ beater.wake \in Nat
  BY CommandIs, PeriodType DEF TypeOK
<1>5. StartFault(c) /\ inbox' = <<>>
  BY <1>3 DEF ListenerStartsFault
<1>6. conn = "up"
  BY <1>1 DEF Core, Link
<1> DEFINE s == Activated(session, c, now)
           l == ActiveLabel(s, now)
<1>7. /\ session' = s /\ stream' = Append(stream, l) /\ listener'.at = "opening"
  BY <1>4, <1>5, <1>6 DEF StartFault, Publish
<1>8. s.command = c /\ s.started = now /\ s.deadline = now + Duration[c]
  BY DEF Activated
<1>9. l.active /\ Grows(l)
  <2>1. l \in Label /\ l.stamp = now /\ l.active
    BY <1>4, <1>8 DEF ActiveLabel, Label
  <2> HIDE DEF l, s
  <2> QED
    BY <1>1, <1>7, <2>1 DEF Grows
<1>10. Running(c)'
  <2>1. Pub(c) <= now /\ now <= Pub(c) + Latency
    <3>1. now <= Pub(c) + Latency
      BY <1>3 DEF Pending
    <3> QED
      BY <1>2, <1>4, <3>1, LatestBegan
  <2>2. beater.wake <= now + Period
    BY DEF Core, Link
  <2>3. beater.wake < now + Duration[c] + Period /\ now < now + Duration[c] /\ now <= now
    BY <1>4, <2>2
  <2>4. session'.command = c /\ session'.started = now /\ session'.deadline = now + Duration[c]
    BY <1>7, <1>8
  <2> HIDE DEF l, s
  <2> QED
    BY <1>1, <1>3, <1>5, <2>1, <2>3, <2>4 DEF Running
<1>11. Link'
  BY <1>1, <1>6, <1>7, <1>9, GrownCore DEF Core, Link
<1>12. Latest' = c
  BY <1>1, <1>2, LatestIs
<1> QED
  BY <1>2, <1>9, <1>10, <1>11, <1>12, GrownCore DEF Core, Stage

\* The latest fault is the one that runs.
LEMMA RunningIs ==
  ASSUME Core, Active(session)
  PROVE  \E c \in FaultSegments : c = Latest /\ Running(c)
BY DEF Core, Stage, Resting, Pending, Finished, Active

LEMMA ExpiresCore ==
  ASSUME TypeOK, Clock, Core, BeaterExpires, UNCHANGED run
  PROVE  Core'
<1>1. /\ UNCHANGED <<now, conn, listener, inbox, received, segment, sent, samples>> /\ conn # "backoff"
      /\ now >= session.deadline /\ Active(session)
      /\ session' = Cleared(session) /\ Publish(ClosingLabel(session, now)) /\ beater' = BeaterPublishing
  BY DEF BeaterExpires, run, BeaterWakes, Serving, Due
<1>2. PICK c \in FaultSegments : c = Latest /\ Running(c)
  BY <1>1, RunningIs
<1>3. conn = "up" /\ now <= beater.wake
  BY <1>1 DEF Core, Link
<1>4. /\ c \in Commands /\ Duration[c] \in Nat \ {0} /\ Pub(c) \in Nat /\ c # None
      /\ now \in Nat /\ Period \in Nat \ {0} /\ beater.wake \in Nat /\ session.started \in Nat
      /\ Latency \in Nat
  BY CommandIs, PeriodType, TimesType DEF TypeOK, Session
<1> DEFINE l == ClosingLabel(session, now)
<1>5. /\ l \in Label /\ l.stamp = now /\ ~l.active /\ l.id = c /\ l.started = session.started
  <2>1. session.started <= now /\ session.command = c
    BY <1>2 DEF Running
  <2> QED
    BY <1>4, <2>1 DEF ClosingLabel, Label
<1>6. Grows(l) /\ ~Active(session)'
  <2>1. stream' = Append(stream, l)
    BY <1>1, <1>3 DEF Publish
  <2>2. ~Active(session)'
    BY <1>1, <1>4 DEF Cleared, Active, TypeOK, Session
  <2> HIDE DEF l
  <2> QED
    BY <1>1, <1>5, <2>1, <2>2 DEF Grows
<1>7. /\ session.started + Duration[c] <= now /\ now < session.started + Duration[c] + Period
      /\ Pub(c) <= session.started /\ session.started <= Pub(c) + Latency
  BY <1>1, <1>2, <1>3, <1>4 DEF Running
<1>8. Finished(c)'
  <2>1. Resting'
    BY <1>1, <1>2, <1>6 DEF Running, Resting
  <2>2. Pub(c) + Duration[c] <= now /\ now < Pub(c) + Latency + Duration[c] + Period
    BY <1>4, <1>7
  <2>3. \E j \in DOMAIN stream' :
          stream'[j].id = c /\ ~stream'[j].active /\ stream'[j].stamp < Pub(c) + Latency + Duration[c] + Period
    <3> HIDE DEF l
    <3>1. Len(stream) + 1 \in DOMAIN stream' /\ stream'[Len(stream) + 1] = l
      BY <1>6, Grown
    <3> QED
      BY <1>5, <2>2, <3>1
  <2> QED
    BY <1>1, <2>1, <2>2, <2>3 DEF Finished
<1>9. l.stamp - l.started \in Duration[l.id]..(Duration[l.id] + Period)
  <2> HIDE DEF l
  <2> QED
    BY <1>4, <1>5, <1>7
<1> HIDE DEF l
<1>10. beater'.wake = beater.wake
  BY <1>1 DEF BeaterPublishing
<1>11. Link'
  BY <1>1, <1>3, <1>6, <1>9, <1>10, GrownCore DEF Core, Link
<1>12. Latest' = c
  BY <1>1, <1>2, LatestIs
<1> QED
  BY <1>2, <1>6, <1>8, <1>9, <1>11, <1>12, GrownCore DEF Core, Stage

LEMMA BeatsCore ==
  ASSUME TypeOK, Core, BeaterBeats, UNCHANGED run
  PROVE  Core'
<1>1. /\ UNCHANGED <<now, session, conn, listener, inbox, received, segment, sent, samples>> /\ conn # "backoff"
      /\ ~(now >= session.deadline) /\ Active(session)
      /\ Publish(ActiveLabel(session, now)) /\ beater' = BeaterPublishing
  BY DEF BeaterBeats, run, BeaterWakes, Serving, Due
<1>2. PICK c \in FaultSegments : c = Latest /\ Running(c)
  BY <1>1, RunningIs
<1>3. conn = "up"
  BY <1>1 DEF Core, Link
<1>4. /\ c \in Commands /\ now \in Nat /\ session.started \in Nat /\ session.deadline \in Nat
  BY CommandIs DEF TypeOK, Session
<1> DEFINE l == ActiveLabel(session, now)
<1>5. l \in Label /\ l.stamp = now /\ l.active
  BY <1>2, <1>4 DEF Running, ActiveLabel, Label
<1>6. Grows(l)
  <2>1. stream' = Append(stream, l)
    BY <1>1, <1>3 DEF Publish
  <2> HIDE DEF l
  <2> QED
    BY <1>1, <1>5, <2>1 DEF Grows
<1> HIDE DEF l
<1>7. beater'.wake = beater.wake /\ now < session.deadline
  BY <1>1, <1>4 DEF BeaterPublishing
<1>8. Running(c)'
  BY <1>1, <1>2, <1>7 DEF Running
<1>9. Link'
  BY <1>1, <1>3, <1>5, <1>6, <1>7, GrownCore DEF Core, Link
<1>10. Latest' = c
  BY <1>1, <1>2, LatestIs
<1> QED
  BY <1>2, <1>5, <1>6, <1>8, <1>9, <1>10, GrownCore DEF Core, Stage

\* The heartbeat goes back to sleep, with or without a fault.
LEMMA SleepsCore ==
  ASSUME TypeOK, Core, BeaterIdles \/ BeaterSleeps, UNCHANGED run
  PROVE  Core'
<1>1. /\ UNCHANGED <<now, session, conn, listener, inbox, stream, received, segment, sent, samples>>
      /\ beater' = SleepingBeater(now) /\ conn # "backoff"
      /\ Active(session) => beater.at = "publishing"
  BY DEF BeaterIdles, BeaterSleeps, BeaterWakes, Serving, Acked, run
<1>2. now \in Nat /\ Period \in Nat \ {0} /\ session.deadline \in Nat
  BY PeriodType DEF TypeOK, Session
<1>3. beater'.wake = now + Period /\ beater'.at = "sleeping"
  BY <1>1 DEF SleepingBeater
<1>4. Link'
  <2>1. now <= now + Period /\ now + Period <= now + Period
    BY <1>2
  <2> QED
    BY <1>1, <1>3, <2>1, SameCore DEF Core, Link, Active
<1>5. Stage'
  <2>1. ASSUME NEW c \in FaultSegments, Pending(c) \/ Running(c) \/ Finished(c)
        PROVE  Pending(c)' \/ Running(c)' \/ Finished(c)'
    <3>1. CASE Pending(c)
      BY <1>1, <3>1 DEF Pending, Active
    <3>2. CASE Finished(c)
      BY <1>1, <3>2 DEF Finished, Resting, Active
    <3>3. CASE Running(c)
      <4>1. Active(session) /\ beater.at = "publishing" /\ now < session.deadline
        BY <1>1, <3>3, CommandIs DEF Running, Active
      <4>2. now + Period < session.deadline + Period
        BY <1>2, <4>1
      <4> QED
        BY <1>1, <1>3, <3>3, <4>2 DEF Running
    <3> QED
      BY <2>1, <3>1, <3>2, <3>3
  <2>2. Latest \notin FaultSegments => Resting'
    BY <1>1 DEF Core, Stage, Resting, Active
  <2> QED
    BY <1>1, <2>1, <2>2, LatestIs DEF Core, Stage
<1> QED
  BY <1>1, <1>4, <1>5, SameCore DEF Core

\* Steps that leave the session and the clock alone.
LEMMA OpenedCore ==
  ASSUME TypeOK, Core, ListenerOpened, UNCHANGED run
  PROVE  Core'
<1>1. /\ UNCHANGED <<now, session, conn, beater, inbox, stream, received, segment, sent, samples>>
      /\ listener' = WaitingListener
  BY DEF ListenerOpened, run
<1>2. Link'
  BY <1>1, SameCore DEF Core, Link, WaitingListener, Active
<1>3. Stage'
  BY <1>1, LatestIs DEF Core, Stage, Pending, Running, Finished, Resting, Active
<1> QED
  BY <1>1, <1>2, <1>3, SameCore DEF Core

LEMMA ReceivesCore ==
  ASSUME TypeOK, Core, BrokerReceives, UNCHANGED run
  PROVE  Core'
<1>1. /\ UNCHANGED <<now, session, conn, listener, beater, inbox, stream, segment, sent, samples>>
      /\ received' = received + 1 /\ received \in Nat
  BY DEF BrokerReceives, run, TypeOK
<1>2. \A i \in DOMAIN stream : i <= received => i <= received'
  BY <1>1 DEF TypeOK
<1>3. Link'
  BY <1>1, <1>2 DEF Core, Link, Active
<1>4. Stage'
  BY <1>1, LatestIs DEF Core, Stage, Pending, Running, Finished, Resting, Active
<1>5. Past'
  <2>1. 1..received \subseteq 1..received'
    BY <1>1
  <2> QED
    BY <1>1, <2>1 DEF Core, Past
<1>6. Closings'
  BY <1>1 DEF Core, Closings
<1> QED
  BY <1>3, <1>4, <1>5, <1>6 DEF Core

LEMMA InjectorCore ==
  ASSUME TypeOK, Clock, Core, InjectorRuns
  PROVE  Core'
<1>1. UNCHANGED run
  BY DEF InjectorRuns
<1>2. ~ListenerClosed
  BY DEF Core, Link, ListenerClosed
<1>3. ASSUME inbox # <<>>
      PROVE  ~Active(session) /\ Head(inbox) \in Commands /\ Head(inbox) # Invalid
  <2>1. PICK c \in FaultSegments : Pending(c) /\ inbox = <<c>>
    BY <1>3 DEF Core, Stage, Resting, Pending, Running, Finished
  <2> QED
    BY <2>1, CommandIs DEF Pending
<1>4. ~ListenerSkips /\ ~ListenerEndsFault
  BY <1>3 DEF ListenerSkips, ListenerEndsFault
<1> QED
  BY <1>1, <1>2, <1>4, StartsCore, ExpiresCore, BeatsCore, SleepsCore, OpenedCore, ReceivesCore, Zenon
  DEF InjectorRuns, Listener, Beater

LEMMA TimeCore ==
  ASSUME TypeOK, Core, TimePasses
  PROVE  Core'
<1>1. /\ now' = now + 1
      /\ UNCHANGED <<session, conn, listener, beater, inbox, stream, received, segment, sent, samples>>
  BY DEF TimePasses, Tick, run
<1>2. /\ now >= Settle => conn = "up"
      /\ \A s \in sent : now < s.at + Latency
      /\ inbox = <<>> /\ beater.at = "sleeping" /\ (conn = "up" => now < beater.wake)
      /\ received = Len(stream)
  BY DEF TimePasses, Quiet
<1>3. /\ now \in Nat /\ Period \in Nat \ {0} /\ beater.wake \in Nat /\ Latency \in Nat /\ Settle = 1
      /\ \A i \in DOMAIN stream : i <= received
  BY <1>2, PeriodType, TimesType DEF TypeOK, Settle
<1>4. Link'
  <2>1. conn' = "backoff" => now' <= Settle
    BY <1>1, <1>2, <1>3
  <2>2. conn' = "up" => now' <= beater'.wake
    BY <1>1, <1>2, <1>3
  <2>3. beater'.wake <= now' + Period
    BY <1>1, <1>3 DEF Core, Link
  <2> QED
    BY <1>1, <1>2, <1>3, <2>1, <2>2, <2>3 DEF Core, Link, Active
<1>5. ASSUME NEW c \in FaultSegments, Pending(c) \/ Running(c) \/ Finished(c)
      PROVE  Pending(c)' \/ Running(c)' \/ Finished(c)'
  <2>1. Pub(c) \in Nat /\ Duration[c] \in Nat /\ c # None
    BY CommandIs
  <2>2. CASE Pending(c)
    <3>1. sent = {[cmd |-> c, at |-> Pub(c)]}
      BY <1>2, <2>2 DEF Pending
    <3>2. [cmd |-> c, at |-> Pub(c)].at = Pub(c) /\ [cmd |-> c, at |-> Pub(c)] \in sent
      BY <3>1
    <3>3. now < Pub(c) + Latency
      BY <1>2, <3>2
    <3>4. now' <= Pub(c) + Latency
      BY <1>1, <1>3, <2>1, <3>3
    <3> QED
      BY <1>1, <2>2, <3>4 DEF Pending, Active
  <2>3. CASE Running(c)
    <3>1. session.started \in Nat /\ (session.started <= now => session.started <= now')
      BY <1>1, <1>3 DEF TypeOK, Session
    <3> QED
      BY <1>1, <1>2, <2>3, <3>1 DEF Running
  <2>4. CASE Finished(c)
    <3>1. Pub(c) + Duration[c] <= now'
      BY <1>1, <1>3, <2>1, <2>4 DEF Finished
    <3> QED
      BY <1>1, <2>4, <3>1 DEF Finished, Resting, Active
  <2> QED
    BY <1>5, <2>2, <2>3, <2>4
<1>6. Stage'
  <2>1. Resting => Resting'
    BY <1>1 DEF Resting, Active
  <2> QED
    BY <1>1, <1>5, <2>1, LatestIs DEF Core, Stage
<1>7. Closings' /\ Past'
  BY <1>1 DEF Core, Closings, Past
<1> QED
  BY <1>4, <1>6, <1>7 DEF Core

LEMMA SamplesCore ==
  ASSUME TypeOK, Core, samples \in Seq(Commands \union {None}), SensorSamples
  PROVE  Core' /\ samples' \in Seq(Commands \union {None})
<1>1. /\ UNCHANGED <<now, session, conn, listener, beater, inbox, stream, received, segment, sent>>
      /\ samples' = Append(samples, session.command) /\ session.command \in Commands \union {None}
  BY DEF SensorSamples, vars, TypeOK, Session
<1>2. samples' \in Seq(Commands \union {None})
  BY <1>1
<1>3. Link'
  BY <1>1, SameCore DEF Core, Link, Active
<1>4. ASSUME NEW c \in FaultSegments, Pending(c) \/ Running(c) \/ Finished(c)
      PROVE  Pending(c)' \/ Running(c)' \/ Finished(c)'
  <2>1. CASE Pending(c)
    <3>1. session.command # c
      BY <2>1, CommandIs DEF Pending, Active
    <3>2. \A t \in DOMAIN samples' : (t \in DOMAIN samples /\ samples'[t] = samples[t]) \/ samples'[t] = session.command
      BY <1>1
    <3> QED
      BY <1>1, <2>1, <3>1, <3>2 DEF Pending, Active
  <2>2. CASE Running(c)
    BY <1>1, <2>2 DEF Running
  <2>3. CASE Finished(c)
    BY <1>1, <2>3 DEF Finished, Resting, Active
  <2> QED
    BY <1>4, <2>1, <2>2, <2>3
<1>5. Stage'
  <2>1. Resting => Resting'
    BY <1>1 DEF Resting, Active
  <2> QED
    BY <1>1, <1>4, <2>1, LatestIs DEF Core, Stage
<1> QED
  BY <1>1, <1>2, <1>3, <1>5, SameCore DEF Core

\* Nothing that the stages speak of has changed.
LEMMA StillCore ==
  ASSUME Core, UNCHANGED <<now, session, conn, listener, beater, inbox, stream, received, segment, sent, samples>>
  PROVE  Core'
<1>1. Link' /\ Closings' /\ Past'
  BY DEF Core, Link, Closings, Past, Active
<1>2. \A c : (Pending(c) => Pending(c)') /\ (Running(c) => Running(c)') /\ (Finished(c) => Finished(c)')
  BY DEF Pending, Running, Finished, Resting, Active
<1>3. Resting => Resting'
  BY DEF Resting, Active
<1>4. Stage'
  BY <1>2, <1>3, LatestIs DEF Core, Stage
<1> QED
  BY <1>1, <1>4 DEF Core

\* When a normal segment's time is up, the fault before it is over, and the
\* broker knows: this is what the normal segments are long enough for.
LEMMA FaultIsOver ==
  ASSUME TypeOK, Core, WellSpaced(Schedule), NEW d \in FaultSegments, d + 1 = segment,
         now >= Settle + Elapsed[segment]
  PROVE  /\ d = Latest /\ Finished(d)
         /\ \E j \in 1..received : stream[j].id = d /\ ~stream[j].active
<1>1. /\ now \in Nat /\ received \in Nat /\ DOMAIN stream = 1..Len(stream) /\ Len(stream) \in Nat
      /\ \A i \in DOMAIN stream : stream[i].stamp \in Nat
  <2>1. stream \in Seq(Label)
    BY DEF TypeOK
  <2>2. \A i \in DOMAIN stream : stream[i] \in Label
    BY <2>1
  <2> QED
    BY <2>1, <2>2 DEF TypeOK, Label
<1>2. /\ d \in Nat \ {0} /\ d # None /\ Duration[d] \in Nat /\ Pub(d) \in Nat
      /\ Pub(d) + Duration[d] = Settle + Elapsed[d]
  BY CommandIs
<1>3. /\ segment \in DOMAIN Schedule /\ Schedule[segment].kind = "none"
      /\ 2 * Schedule[segment].secs > Latency + Period + Length
  BY DEF WellSpaced, FaultSegments
<1>4. d = Latest
  BY <1>2, <1>3 DEF Latest, FaultSegments
<1>5. now > Pub(d) + Duration[d] + Latency + Period
  <2>1. PICK n \in Nat : n = Schedule[segment].secs
    BY <1>3, ElapsedIs
  <2>2. PICK e \in Nat : e = Elapsed[d] /\ Elapsed[segment] = e + 2 * n
    <3>1. segment - 1 = d /\ d \in 0..Len(Schedule)
      BY <1>2, <1>3, ElapsedIs
    <3> QED
      BY <1>3, <2>1, <3>1, ElapsedIs
  <2>3. now >= Settle + (e + 2 * n)
    BY <2>2
  <2>4. 2 * n > Latency + Period + Length /\ Pub(d) + Duration[d] = Settle + e
    BY <1>2, <1>3, <2>1, <2>2
  <2>5. PICK p \in Nat, t \in Nat : p = Pub(d) /\ t = Duration[d]
    BY <1>2
  <2> QED
    BY <1>1, <2>3, <2>4, <2>5, PeriodType, TimesType DEF Settle
<1>6. ~Pending(d)
  <2>1. ~(now <= Pub(d) + Latency)
    BY <1>1, <1>2, <1>5, PeriodType, TimesType
  <2> QED
    BY <2>1 DEF Pending
<1>7. ~Running(d)
  <2>1. SUFFICES ASSUME Running(d) PROVE FALSE
    OBVIOUS
  <2>2. conn = "up"
    BY <1>2, <2>1 DEF Core, Link, Running, Active
  <2>3. now <= beater.wake /\ beater.wake \in Nat /\ session.started \in Nat /\ session.deadline \in Nat
    BY <2>2 DEF Core, Link, TypeOK, Session
  <2>4. session.started <= Pub(d) + Latency /\ session.deadline = session.started + Duration[d]
        /\ beater.wake < session.deadline + Period
    BY <2>1 DEF Running
  <2> QED
    <3>1. PICK w \in Nat, b \in Nat, e \in Nat :
            w = beater.wake /\ b = session.started /\ e = session.deadline
      BY <2>3
    <3>2. PICK p \in Nat, t \in Nat : p = Pub(d) /\ t = Duration[d]
      BY <1>2
    <3>3. now <= w /\ b <= p + Latency /\ e = b + t /\ w < e + Period /\ now > p + t + Latency + Period
      BY <1>5, <2>3, <2>4, <3>1, <3>2
    <3> QED
      BY <1>1, <3>3, PeriodType, TimesType
<1>8. Finished(d)
  BY <1>4, <1>6, <1>7 DEF Core, Stage
<1>9. PICK j \in DOMAIN stream :
        stream[j].id = d /\ ~stream[j].active /\ stream[j].stamp < Pub(d) + Latency + Duration[d] + Period
  BY <1>8 DEF Finished
<1>10. stream[j].stamp < now
  BY <1>1, <1>2, <1>5, <1>9, PeriodType, TimesType
<1>11. j \in 1..received
  BY <1>1, <1>9, <1>10 DEF Core, Link
<1> QED
  BY <1>4, <1>8, <1>9, <1>11

LEMMA SegmentCore ==
  ASSUME TypeOK, Clock, Core, SampleFaults, WellSpaced(Schedule), NextSegment
  PROVE  Core'
<1>1. /\ UNCHANGED <<now, session, conn, listener, beater, inbox, stream, received, samples>>
      /\ sent' = sent \union {[cmd |-> c, at |-> now] : c \in {segment + 1} \intersect FaultSegments}
  BY DEF NextSegment, vars
<1>2. /\ segment \in 0..Len(Schedule) /\ segment' = segment + 1 /\ segment \in Nat /\ Len(Schedule) \in Nat
      /\ now = Settle + Elapsed[segment] /\ now \in Nat /\ Latency \in Nat
  BY SegmentTime, ElapsedIs, TimesType DEF TypeOK
<1>0. now >= Settle + Elapsed[segment]
  <2>1. PICK x \in Nat : x = Settle + Elapsed[segment]
    BY <1>2
  <2> QED
    BY <1>2, <2>1
<1>3. \A d \in FaultSegments : d \in Nat \ {0} /\ d # None /\ d + 1 \notin FaultSegments
  BY CommandIs DEF WellSpaced, FaultSegments
<1>4. Link' /\ Closings'
  BY <1>1 DEF Core, Link, Closings, Active
<1>5. Past'
  <2>1. ASSUME NEW d \in FaultSegments, d + 1 < segment + 1
        PROVE  \E j \in 1..received : stream[j].id = d /\ ~stream[j].active
    <3>1. d + 1 = segment \/ d + 1 < segment
      BY <1>2, <1>3, <2>1
    <3> QED
      BY <1>0, <2>1, <3>1, FaultIsOver DEF Core, Past
  <2> QED
    BY <1>1, <1>2, <2>1 DEF Past
<1>6. ASSUME segment \notin FaultSegments PROVE Resting
  <2>1. Latest = segment - 1
    BY <1>6 DEF Latest
  <2>2. CASE Latest \in FaultSegments
    <3>1. Latest + 1 = segment
      BY <1>2, <2>1
    <3>2. Finished(Latest)
      BY <1>0, <2>2, <3>1, FaultIsOver
    <3> QED
      BY <3>2 DEF Finished
  <2> QED
    BY <2>2 DEF Core, Stage
<1>7. Stage'
  <2>1. CASE segment + 1 \in FaultSegments
    <3>1. PICK c \in FaultSegments : c = segment + 1
      BY <2>1
    <3>2. Resting /\ Latest' = c
      BY <1>2, <1>3, <1>6, <3>1 DEF Latest
    <3>3. Pub(c) = now
      <4>1. c - 1 = segment
        BY <1>2, <3>1
      <4> QED
        BY <1>2, <4>1 DEF Pub
    <3>4. sent' = {[cmd |-> c, at |-> Pub(c)]} /\ inbox' = <<>> /\ ~Active(session)'
      BY <1>1, <3>1, <3>2, <3>3 DEF Resting, Active
    <3>5. \A t \in DOMAIN samples : samples[t] # c
      <4>1. ~(c <= segment)
        BY <1>2, <3>1
      <4> QED
        BY <1>3, <4>1 DEF SampleFaults
    <3>6. now <= Pub(c) + Latency
      BY <1>2, <3>3
    <3>7. Pending(c)'
      BY <1>1, <3>4, <3>5, <3>6 DEF Pending
    <3> QED
      BY <3>1, <3>2, <3>7 DEF Stage
  <2>2. CASE segment + 1 \notin FaultSegments
    <3>1. sent' = sent /\ Latest' = segment
      BY <1>1, <1>2, <2>2 DEF Latest
    <3>2. CASE segment \in FaultSegments
      <4>1. PICK c \in FaultSegments : c = segment
        BY <3>2
      <4>2. Latest = c /\ Latest' = c
        BY <3>1, <4>1 DEF Latest
      <4>3. (Pending(c) => Pending(c)') /\ (Running(c) => Running(c)') /\ (Finished(c) => Finished(c)')
        BY <1>1, <3>1 DEF Pending, Running, Finished, Resting, Active
      <4> QED
        BY <4>2, <4>3 DEF Core, Stage
    <3>3. CASE segment \notin FaultSegments
      <4>1. Resting'
        BY <1>1, <1>6, <3>1, <3>3 DEF Resting, Active
      <4> QED
        BY <3>1, <3>3, <4>1 DEF Stage
    <3> QED
      BY <3>2, <3>3
  <2> QED
    BY <2>1, <2>2
<1> QED
  BY <1>4, <1>5, <1>7 DEF Core

-----------------------------------------------------------------------------
\* The scripted run: what is sampled and what is scored.

Recorder == samples \in Seq(Commands \union {None}) /\ scores \in Seq(SUBSET Int)

\* Later segments begin later.
LEMMA ElapsedGrows ==
  ASSUME NEW i \in 0..Len(Schedule), NEW j \in 0..Len(Schedule), i <= j
  PROVE  Elapsed[i] <= Elapsed[j]
<1> DEFINE N == Len(Schedule)
           Bad == {k \in 0..N : i <= k /\ ~(Elapsed[i] <= Elapsed[k])}
<1>1. ASSUME Bad # {} PROVE FALSE
  <2>1. N \in Nat /\ Bad \in SUBSET Nat
    BY ElapsedIs
  <2>2. PICK k \in Bad : \A m \in Bad : k <= m
    BY <1>1, <2>1, LeastOfAll
  <2>3. k \in 0..N /\ i <= k /\ ~(Elapsed[i] <= Elapsed[k]) /\ Elapsed[i] \in Nat
    BY <2>2, ElapsedIs
  <2>4. k # i
    BY <2>3
  <2>5. k \in DOMAIN Schedule /\ k - 1 \in 0..N /\ i <= k - 1 /\ k - 1 \notin Bad
    BY <2>1, <2>2, <2>3, <2>4, ElapsedIs
  <2>6. Elapsed[i] <= Elapsed[k - 1] /\ Elapsed[k - 1] \in Nat
    BY <2>5, ElapsedIs
  <2>7. PICK n \in Nat : n = Schedule[k].secs /\ Elapsed[k] = Elapsed[k - 1] + 2 * n
    BY <2>5, ElapsedIs
  <2> QED
    BY <2>3, <2>6, <2>7
<1> QED
  BY <1>1

LEMMA SampleTimesNext ==
  ASSUME Recorder, SampleTimes, now \in Nat, [RunNext]_runVars
  PROVE  SampleTimes'
<1>1. SensorEnd \in Nat \ {0} /\ Settle = 1 /\ Len(samples) \in Nat /\ Len(scores) \in Nat
  BY TimesAre, TimesType DEF Recorder, SensorEnd
<1>2. CASE UNCHANGED <<now, samples, scores>>
  BY <1>2 DEF SampleTimes
<1>3. CASE SensorSamples
  <2>1. /\ now' = now /\ now < SensorEnd /\ Len(samples) < now /\ Len(samples') = Len(samples) + 1
        /\ scores' = scores
    BY <1>3 DEF SensorSamples, vars, Recorder
  <2> QED
    BY <1>1, <2>1 DEF SampleTimes
<1>4. CASE ScoreArrives
  <2>1. now' = now /\ samples' = samples /\ Len(scores) < now /\ Len(scores') = Len(scores) + 1
    BY <1>4 DEF ScoreArrives, vars, Recorder
  <2> QED
    BY <1>1, <2>1 DEF SampleTimes
<1>5. CASE TimePasses
  <2>1. /\ now' = now + 1 /\ UNCHANGED <<samples, scores>> /\ Len(scores) = now
        /\ now \in Settle..(SensorEnd - 1) => Len(samples) = now
    BY <1>5 DEF TimePasses, Tick, run
  <2>2. CASE now + 1 < SensorEnd
    BY <1>1, <2>1, <2>2 DEF SampleTimes
  <2>3. CASE now + 1 = SensorEnd
    BY <1>1, <2>1, <2>3 DEF SampleTimes
  <2>4. CASE now >= SensorEnd
    BY <1>1, <2>1, <2>4 DEF SampleTimes
  <2> QED
    BY <1>1, <2>2, <2>3, <2>4
<1>6. NextSegment \/ CommandArrives \/ InjectorRuns \/ WorkerConnects \/ UNCHANGED runVars
        => UNCHANGED <<now, samples, scores>>
  BY Quickly DEF NextSegment, CommandArrives, InjectorRuns, WorkerConnects, runVars, run, vars
<1> QED
  BY <1>2, <1>3, <1>4, <1>5, <1>6 DEF RunNext

\* A sample is the unit's own.
LEMMA SampleTaken ==
  ASSUME Recorder, SampleTimes, now \in Nat, SensorSamples
  PROVE  /\ Len(samples) + 1 = now /\ Len(samples) \in Nat
         /\ DOMAIN samples = 1..(now - 1) /\ DOMAIN samples' = 1..now
         /\ \A t \in DOMAIN samples : samples'[t] = samples[t]
         /\ samples'[now] = session.command
<1>1. /\ Len(samples) < now /\ now < SensorEnd /\ samples' = Append(samples, session.command)
      /\ Len(samples) \in Nat /\ DOMAIN samples = 1..Len(samples)
  BY DEF SensorSamples, Recorder
<1>2. Len(samples) + 1 = now
  BY <1>1 DEF SampleTimes
<1>3. samples \in Seq(Commands \union {None})
  BY DEF Recorder
<1> QED
  BY <1>1, <1>2, <1>3

LEMMA RecorderNext ==
  ASSUME TypeOK, Recorder, [RunNext]_runVars
  PROVE  Recorder'
<1>1. CASE SensorSamples
  BY <1>1 DEF Recorder, SensorSamples, TypeOK, Session
<1>2. CASE ScoreArrives
  <2>1. scores' = Append(scores, Held(now)) /\ samples' = samples
    BY <1>2 DEF ScoreArrives
  <2>2. Held(now) \in SUBSET Int
    <3>1. now - Length \in Int /\ now - 1 \in Int
      BY TimesType DEF TypeOK
    <3> QED
      BY <3>1 DEF Held
  <2> QED
    BY <2>1, <2>2 DEF Recorder
<1>3. NextSegment \/ CommandArrives \/ InjectorRuns \/ WorkerConnects \/ TimePasses \/ UNCHANGED runVars
        => UNCHANGED <<samples, scores>>
  BY DEF NextSegment, CommandArrives, InjectorRuns, WorkerConnects, TimePasses, runVars, run
<1> QED
  BY <1>1, <1>2, <1>3 DEF RunNext, Recorder

LEMMA SampleFaultsNext ==
  ASSUME TypeOK, Recorder, Clock, Core, SampleTimes, SampleFaults, [RunNext]_runVars
  PROVE  SampleFaults'
<1>1. now \in Nat /\ segment \in Nat
  BY ElapsedIs DEF TypeOK, Clock
<1>2. CASE UNCHANGED <<segment, samples>>
  BY <1>2 DEF SampleFaults
<1>3. CASE NextSegment
  <2>1. segment' = segment + 1 /\ samples' = samples
    BY <1>3 DEF NextSegment
  <2>2. \A c \in FaultSegments : c <= segment => c <= segment + 1
    BY <1>1, CommandIs
  <2> QED
    BY <2>1, <2>2 DEF SampleFaults
<1>4. CASE SensorSamples
  <2>1. /\ segment' = segment /\ DOMAIN samples = 1..(now - 1) /\ DOMAIN samples' = 1..now
        /\ \A t \in DOMAIN samples : samples'[t] = samples[t]
        /\ samples'[now] = session.command
    BY <1>1, <1>4, SampleTaken DEF SensorSamples
  <2>2. ASSUME session.command # None
        PROVE  /\ session.command \in FaultSegments /\ session.command <= segment
               /\ Pub(session.command) <= now
               /\ now + 1 < Pub(session.command) + Latency + Duration[session.command] + Period
    <3>1. PICK c \in FaultSegments : c = Latest /\ Running(c)
      BY <2>2, RunningIs DEF Active
    <3>2. session.command = c /\ conn = "up"
      BY <2>2, <3>1 DEF Running, Core, Link, Active
    <3>3. now < beater.wake
      BY <1>4, <3>2 DEF SensorSamples, Quiet
    <3>4. c <= segment
      BY <1>1, <3>1, CommandIs DEF Latest
    <3>5. PICK w \in Nat, b \in Nat, e \in Nat : w = beater.wake /\ b = session.started /\ e = session.deadline
      BY DEF TypeOK, Session
    <3>6. PICK p \in Nat, d \in Nat : p = Pub(c) /\ d = Duration[c]
      BY CommandIs
    <3>7. p <= b /\ b <= p + Latency /\ b <= now /\ e = b + d /\ w < e + Period /\ now < w
      BY <3>1, <3>3, <3>5, <3>6 DEF Running
    <3>8. p <= now /\ now + 1 < p + Latency + d + Period
      BY <1>1, <3>7, PeriodType, TimesType
    <3> QED
      BY <3>2, <3>4, <3>6, <3>8
  <2>3. \A t \in DOMAIN samples' : t \in DOMAIN samples \/ t = now
    BY <1>1, <2>1
  <2> QED
    BY <2>1, <2>2, <2>3 DEF SampleFaults
<1>5. CommandArrives \/ InjectorRuns \/ WorkerConnects \/ ScoreArrives \/ TimePasses \/ UNCHANGED runVars
        => UNCHANGED <<segment, samples>>
  BY DEF CommandArrives, InjectorRuns, WorkerConnects, ScoreArrives, TimePasses, runVars, run
<1> QED
  BY <1>2, <1>3, <1>4, <1>5 DEF RunNext

\* When a sample is taken, it is in the segment whose time it is.
LEMMA SampledSegment ==
  ASSUME Clock, now \in Nat, SensorSamples, NEW c \in FaultSegments, Pub(c) <= now, now < Pub(c) + Duration[c]
  PROVE  segment = c
<1> DEFINE N == Len(Schedule)
<1>1. /\ now >= Settle /\ ~(SegmentEnds /\ segment <= N) /\ segment \in 0..(N + 1) /\ N \in Nat
  BY ElapsedIs DEF SensorSamples, Quiet, Clock
<1>2. segment # 0
  BY <1>1 DEF SegmentEnds
<1>3. start = Settle + Elapsed[segment - 1] /\ start <= now /\ segment - 1 \in 0..N
  BY <1>1, <1>2 DEF Clock
<1>4. /\ c \in Nat \ {0} /\ c <= N /\ c \in 0..N /\ c - 1 \in 0..N
      /\ Pub(c) = Settle + Elapsed[c - 1] /\ Pub(c) + Duration[c] = Settle + Elapsed[c]
  BY <1>1, CommandIs DEF Pub
<1>5. \A i \in 0..N : Elapsed[i] \in Nat
  BY ElapsedIs
<1>6. CASE c < segment
  <2>1. c <= segment - 1
    BY <1>1, <1>4, <1>6
  <2>2. Elapsed[c] <= Elapsed[segment - 1]
    BY <1>3, <1>4, <2>1, ElapsedGrows
  <2> QED
    BY <1>3, <1>4, <1>5, <2>2 DEF Settle
<1>7. CASE c > segment
  <2>1. segment \in DOMAIN Schedule /\ segment \in 0..N /\ segment <= c - 1 /\ segment <= N
    BY <1>1, <1>2, <1>4, <1>7, ElapsedIs
  <2>2. Elapsed[segment] <= Elapsed[c - 1]
    BY <1>4, <2>1, ElapsedGrows
  <2>3. PICK n \in Nat : n = Secs(segment) /\ Elapsed[segment] = Elapsed[segment - 1] + 2 * n
    BY <2>1, ElapsedIs DEF Secs
  <2>4. ~(now >= start + 2 * n)
    BY <1>1, <1>2, <2>1, <2>3 DEF SegmentEnds
  <2> QED
    <3>1. PICK x \in Nat, y \in Nat : x = Elapsed[segment - 1] /\ y = Elapsed[c - 1]
      BY <1>3, <1>4, <1>5
    <3>2. now >= Settle + y /\ start = Settle + x /\ x + 2 * n <= y
      BY <1>3, <1>4, <2>2, <2>3, <3>1
    <3> QED
      BY <2>4, <3>1, <3>2 DEF Settle
<1> QED
  BY <1>1, <1>4, <1>6, <1>7

LEMMA FaultSamplesNext ==
  ASSUME TypeOK, Recorder, Clock, Core, SampleTimes, FaultSamples, [RunNext]_runVars
  PROVE  FaultSamples'
<1>1. CASE UNCHANGED samples
  BY <1>1 DEF FaultSamples
<1>2. CASE SensorSamples
  <2>1. /\ now \in Nat /\ DOMAIN samples = 1..(now - 1) /\ DOMAIN samples' = 1..now
        /\ \A t \in DOMAIN samples : samples'[t] = samples[t]
        /\ samples'[now] = session.command
    BY <1>2, SampleTaken DEF TypeOK
  <2>2. ASSUME NEW c \in FaultSegments, Pub(c) <= now, now < Pub(c) + Duration[c],
               Pub(c) + Latency <= now \/ \E u \in DOMAIN samples : samples[u] = c
        PROVE  session.command = c
    <3>1. Latest = c
      BY <2>1, <1>2, <2>2, SampledSegment DEF Latest
    <3>2. Pub(c) \in Nat /\ Duration[c] \in Nat /\ inbox = <<>> /\ \A s \in sent : now < s.at + Latency
      BY <1>2, CommandIs DEF SensorSamples, Quiet
    <3>3. ~Pending(c)
      <4>1. SUFFICES ASSUME Pending(c) PROVE FALSE
        OBVIOUS
      <4>2. sent = {[cmd |-> c, at |-> Pub(c)]} /\ Pub(c) + Latency <= now
        BY <2>2, <3>2, <4>1 DEF Pending
      <4>3. now < [cmd |-> c, at |-> Pub(c)].at + Latency
        BY <3>2, <4>2
      <4> QED
        BY <2>1, <3>2, <4>2, <4>3, TimesType
    <3>4. ~Finished(c)
      BY <2>1, <2>2, <3>2 DEF Finished
    <3> QED
      BY <3>1, <3>3, <3>4 DEF Core, Stage, Running
  <2>3. ASSUME NEW c \in FaultSegments, NEW t \in DOMAIN samples', Pub(c) <= t, t < Pub(c) + Duration[c]
        PROVE  /\ Pub(c) + Latency <= t => samples'[t] = c
               /\ \A u \in DOMAIN samples' : u <= t /\ samples'[u] = c => samples'[t] = c
    <3>1. CASE t \in DOMAIN samples
      <4>1. \A u \in DOMAIN samples' : u <= t => u \in DOMAIN samples
        BY <2>1, <3>1
      <4> QED
        BY <2>1, <2>3, <3>1, <4>1 DEF FaultSamples
    <3>2. CASE t = now
      <4>1. \A u \in DOMAIN samples' : u = now \/ u \in DOMAIN samples
        BY <2>1
      <4> QED
        BY <2>1, <2>2, <2>3, <3>2, <4>1
    <3> QED
      BY <2>1, <3>1, <3>2
  <2> QED
    BY <2>3 DEF FaultSamples
<1>3. NextSegment \/ CommandArrives \/ InjectorRuns \/ WorkerConnects \/ ScoreArrives \/ TimePasses
        \/ UNCHANGED runVars => UNCHANGED samples
  BY DEF NextSegment, CommandArrives, InjectorRuns, WorkerConnects, ScoreArrives, TimePasses, runVars, run
<1> QED
  BY <1>1, <1>2, <1>3 DEF RunNext

\* What was in the window of a score stays in it.
LEMMA WindowStays ==
  ASSUME Recorder, SampleTimes, now \in Nat, SensorSamples, NEW t \in Nat, t <= now
  PROVE  Held(t)' = Held(t)
<1>1. /\ DOMAIN samples = 1..(now - 1) /\ DOMAIN samples' = 1..now
      /\ \A u \in DOMAIN samples : samples'[u] = samples[u]
  BY SampleTaken
<1>2. Length \in Nat \ {0}
  BY TimesType
<1>3. \A u \in (t - Length)..(t - 1) : u \in DOMAIN samples' <=> u \in DOMAIN samples
  BY <1>1, <1>2
<1> QED
  BY <1>1, <1>3 DEF Held, Through

LEMMA ScoredNext ==
  ASSUME Recorder, SampleTimes, Scored, now \in Nat, [RunNext]_runVars
  PROVE  Scored'
<1>1. scores \in Seq(SUBSET Int) /\ Len(scores) \in Nat /\ DOMAIN scores = 1..Len(scores)
  BY DEF Recorder
<1>2. CASE SensorSamples
  <2>1. scores' = scores /\ \A t \in DOMAIN scores : t \in Nat /\ t <= now
    BY <1>1, <1>2 DEF SensorSamples, SampleTimes
  <2>2. \A t \in DOMAIN scores : Held(t)' = Held(t)
    BY <1>2, <2>1, WindowStays
  <2> QED
    BY <2>1, <2>2 DEF Scored
<1>3. CASE ScoreArrives
  <2>1. scores' = Append(scores, Held(now))
    BY <1>3 DEF ScoreArrives
  <2>2. Len(scores) + 1 = now /\ UNCHANGED <<now, samples>>
    BY <1>1, <1>3 DEF ScoreArrives, SampleTimes, vars
  <2>3. \A t : Held(t)' = Held(t)
    BY <2>2 DEF Held, Through
  <2>4. \A t \in DOMAIN scores' :
          (t \in DOMAIN scores /\ scores'[t] = scores[t]) \/ (t = now /\ scores'[t] = Held(now))
    BY <1>1, <2>1, <2>2
  <2> QED
    BY <2>3, <2>4 DEF Scored
<1>4. CASE UNCHANGED <<samples, scores>>
  <2>1. \A t : Held(t)' = Held(t)
    BY <1>4 DEF Held, Through
  <2> QED
    BY <1>4, <2>1 DEF Scored
<1>5. NextSegment \/ CommandArrives \/ InjectorRuns \/ WorkerConnects \/ TimePasses \/ UNCHANGED runVars
        => UNCHANGED <<samples, scores>>
  BY DEF NextSegment, CommandArrives, InjectorRuns, WorkerConnects, TimePasses, runVars, run
<1> QED
  BY <1>2, <1>3, <1>4, <1>5 DEF RunNext

-----------------------------------------------------------------------------
\* The samples and the labels: who went through a fault, and who says so.

\* Once a unit's sample is taken no task has anything to do in it.
Sampled == Settle <= now /\ Len(samples) = now => Quiet

\* The running fault has its first label, and all samples since.
Spoken ==
  Active(session) =>
    /\ \E j \in DOMAIN stream :
         stream[j].id = session.command /\ stream[j].active /\ stream[j].started = session.started
    /\ \A t \in DOMAIN samples : session.started <= t => samples[t] = session.command

\* The running fault has a label that is not older than a period, or than the
\* heartbeat that is due.
SpokenLately ==
  Active(session) =>
    \E j \in DOMAIN stream :
      /\ stream[j].id = session.command /\ stream[j].active
      /\ \/ stream[j].stamp = now
         \/ beater.at = "sleeping" /\ beater.wake <= stream[j].stamp + Period

\* A sample's fault has a label of the same period, and began no later.
Heard ==
  \A t \in DOMAIN samples : samples[t] # None =>
    \E j \in DOMAIN stream :
      /\ stream[j].id = samples[t] /\ stream[j].active
      /\ stream[j].started <= t /\ stream[j].stamp <= t /\ t < stream[j].stamp + Period

\* A fault that is over had the samples between its times, and none later.
Framed ==
  \A j \in DOMAIN stream : ~stream[j].active =>
    \A t \in DOMAIN samples :
      /\ samples[t] = stream[j].id => t < stream[j].stamp
      /\ stream[j].started <= t /\ t < stream[j].stamp => samples[t] = stream[j].id

LEMMA QuietRests ==
  ASSUME TypeOK, Quiet, Settle <= now
  PROVE  ~InjectorRuns /\ ~WorkerConnects /\ ~(NextSegment)
<1>1. /\ conn = "up" /\ inbox = <<>> /\ listener.at = "waiting" /\ beater.at = "sleeping"
      /\ now < beater.wake /\ received = Len(stream) /\ ~(SegmentEnds /\ segment <= Len(Schedule))
  BY TimesAre DEF Quiet, TypeOK
<1>2. now \in Nat /\ beater.wake \in Nat /\ Len(stream) \in Nat
  BY DEF TypeOK
<1>3. ~(now >= beater.wake) /\ ~(received < Len(stream))
  BY <1>1, <1>2
<1>4. ~Listener /\ ~Beater /\ ~BrokerReceives
  BY <1>1, <1>3 DEF Listener, ListenerSkips, ListenerEndsFault, ListenerStartsFault, ListenerClosed,
     ListenerOpened, Beater, BeaterExpires, BeaterBeats, BeaterIdles, BeaterSleeps, BeaterWakes, BrokerReceives
<1> QED
  BY <1>1, <1>4 DEF InjectorRuns, WorkerConnects, Connect, NextSegment

LEMMA SampledNext ==
  ASSUME TypeOK, Recorder, SampleTimes, Sampled, [RunNext]_runVars
  PROVE  Sampled'
<1>1. now \in Nat /\ Len(samples) \in Nat
  BY DEF TypeOK, Recorder
<1>2. CASE SensorSamples
  <2>1. Quiet /\ UNCHANGED <<vars, segment, start, sent>>
    BY <1>2 DEF SensorSamples
  <2> QED
    BY <2>1 DEF Sampled, Quiet, SegmentEnds, vars
<1>3. CASE ScoreArrives \/ UNCHANGED runVars
  <2>1. UNCHANGED <<vars, segment, start, sent, samples>>
    BY <1>3 DEF ScoreArrives, runVars, run
  <2> QED
    BY <2>1 DEF Sampled, Quiet, SegmentEnds, vars
<1>4. CASE TimePasses
  <2>1. now' = now + 1 /\ samples' = samples /\ now < End
    BY <1>4 DEF TimePasses, Tick, run
  <2>2. Len(samples) <= now
    BY <1>1, TimesAre DEF SampleTimes
  <2> QED
    BY <1>1, <2>1, <2>2 DEF Sampled
<1>5. CASE NextSegment \/ InjectorRuns \/ WorkerConnects
  <2>1. now' = now /\ samples' = samples
    BY <1>5, Quickly DEF NextSegment, InjectorRuns, WorkerConnects, vars, run
  <2>2. ~(Settle <= now /\ Len(samples) = now)
    BY <1>5, QuietRests DEF Sampled
  <2> QED
    BY <2>1, <2>2 DEF Sampled
<1>6. CASE CommandArrives
  <2>1. now' = now /\ samples' = samples /\ Len(samples) < now
    BY <1>6 DEF CommandArrives, Deliver
  <2> QED
    BY <1>1, <2>1 DEF Sampled
<1> QED
  BY <1>2, <1>3, <1>4, <1>5, <1>6 DEF RunNext

\* What the tasks do to the session, and say of it.
LEMMA TasksSay ==
  ASSUME TypeOK, Clock, Core, Recorder, SampleTimes, Sampled, InjectorRuns
  PROVE  /\ \A t \in DOMAIN samples : t \in Nat /\ t < now
         /\ UNCHANGED <<now, samples>>
         /\ \/ UNCHANGED <<session, stream>>
            \/ \E c \in Commands :
                 /\ session' = Activated(session, c, now)
                 /\ stream' = Append(stream, ActiveLabel(session', now))
            \/ /\ Active(session) /\ session' = session
               /\ stream' = Append(stream, ActiveLabel(session, now))
            \/ /\ Active(session) /\ session' = Cleared(session)
               /\ stream' = Append(stream, ClosingLabel(session, now))
<1>1. UNCHANGED <<now, samples>>
  BY Quickly DEF InjectorRuns, run
<1>2. now \in Nat /\ Len(samples) \in Nat /\ DOMAIN samples = 1..Len(samples)
  BY DEF TypeOK, Recorder
<1>3. \A t \in DOMAIN samples : t \in Nat /\ t < now
  <2>1. SUFFICES ASSUME NEW t \in DOMAIN samples PROVE t < now
    BY <1>2
  <2>2. t \in Nat /\ 1 <= t /\ t <= Len(samples) /\ Len(samples) <= now
    <3>1. now >= SensorEnd => Len(samples) = SensorEnd - 1
      BY DEF SampleTimes
    <3>2. now < SensorEnd => Len(samples) <= now
      BY DEF SampleTimes
    <3> QED
      BY <1>2, <3>1, <3>2, TimesAre
  <2>3. Settle <= now => Len(samples) # now
    BY QuietRests DEF Sampled
  <2>4. PICK n \in Nat : n = Len(samples)
    BY <1>2
  <2>5. t <= n /\ n <= now /\ 1 <= t /\ (1 <= now => n # now)
    BY <2>2, <2>3, <2>4, TimesAre
  <2> QED
    BY <1>2, <2>2, <2>5
<1>4. ASSUME inbox # <<>>
      PROVE  ~Active(session) /\ Head(inbox) \in Commands /\ Head(inbox) # Invalid
  <2>1. PICK c \in FaultSegments : Pending(c) /\ inbox = <<c>>
    BY <1>4 DEF Core, Stage, Resting, Pending, Running, Finished
  <2> QED
    BY <2>1, CommandIs DEF Pending
<1>5. ~ListenerClosed /\ ~ListenerSkips /\ ~ListenerEndsFault
  BY <1>4 DEF Core, Link, ListenerClosed, ListenerSkips, ListenerEndsFault
<1>6. CASE ListenerStartsFault
  <2>1. PICK c \in Commands : c = Head(inbox)
    BY <1>4, <1>6 DEF ListenerStartsFault
  <2>2. StartFault(c) /\ conn = "up"
    BY <1>6, <2>1 DEF ListenerStartsFault, Serving, Core, Link
  <2>3. c # Clear
    BY MessagesDiffer
  <2>4. session' = Activated(session, c, now) /\ stream' = Append(stream, ActiveLabel(session', now))
    BY <2>2, <2>3 DEF StartFault, Publish
  <2> QED
    BY <1>1, <1>3, <2>4
<1>7. CASE BeaterBeats
  <2>1. Active(session) /\ session' = session /\ stream' = Append(stream, ActiveLabel(session, now))
    BY <1>7 DEF BeaterBeats, BeaterWakes, Serving, Core, Link, Publish
  <2> QED
    BY <1>1, <1>3, <2>1
<1>8. CASE BeaterExpires
  <2>1. Active(session) /\ session' = Cleared(session) /\ stream' = Append(stream, ClosingLabel(session, now))
    BY <1>8 DEF BeaterExpires, BeaterWakes, Serving, Core, Link, Publish, Due
  <2> QED
    BY <1>1, <1>3, <2>1
<1>9. CASE ListenerOpened \/ BeaterIdles \/ BeaterSleeps \/ BrokerReceives
  <2>1. UNCHANGED <<session, stream>>
    BY <1>9 DEF ListenerOpened, BeaterIdles, BeaterSleeps, BrokerReceives
  <2> QED
    BY <1>1, <1>3, <2>1
<1> QED
  BY <1>5, <1>6, <1>7, <1>8, <1>9, Zenon DEF InjectorRuns, Listener, Beater

LEMMA Appended ==
  ASSUME stream \in Seq(Label), NEW l \in Label, stream' = Append(stream, l)
  PROVE  /\ \A j \in DOMAIN stream : j \in DOMAIN stream' /\ stream'[j] = stream[j]
         /\ \A j \in DOMAIN stream' : (j \in DOMAIN stream /\ stream'[j] = stream[j]) \/ stream'[j] = l
         /\ \E j \in DOMAIN stream' : stream'[j] = l
<1>1. /\ DOMAIN stream = 1..Len(stream) /\ Len(stream) \in Nat
      /\ DOMAIN stream' = 1..(Len(stream) + 1) /\ stream'[Len(stream) + 1] = l
      /\ \A j \in DOMAIN stream : stream'[j] = stream[j]
  OBVIOUS
<1> QED
  BY <1>1

\* Time passes only while the heartbeat sleeps, and it never sleeps for longer
\* than a period.
LEMMA SpokenLatelyNext ==
  ASSUME TypeOK, Clock, Core, Recorder, SampleTimes, Sampled, SpokenLately, [RunNext]_runVars
  PROVE  SpokenLately'
<1>1. /\ now \in Nat /\ beater.wake \in Nat /\ stream \in Seq(Label) /\ session \in Session
      /\ \A j \in DOMAIN stream : stream[j] \in Label /\ stream[j].stamp \in Nat
  <2>1. stream \in Seq(Label)
    BY DEF TypeOK
  <2>2. \A j \in DOMAIN stream : stream[j] \in Label
    BY <2>1
  <2> QED
    BY <2>1, <2>2 DEF TypeOK, Label
<1>2. CASE UNCHANGED <<now, session, stream, beater>>
  BY <1>2 DEF SpokenLately, Active
<1>3. CASE WorkerConnects
  <2>1. ~Active(session) /\ session' = session
    BY <1>3 DEF WorkerConnects, Connect, Core, Link
  <2> QED
    BY <2>1 DEF SpokenLately, Active
<1>4. CASE TimePasses
  <2>1. now' = now + 1 /\ UNCHANGED <<session, stream, beater>> /\ beater.at = "sleeping"
    BY <1>4 DEF TimePasses, Tick, Quiet
  <2>2. beater.wake <= now + Period
    BY DEF Core, Link
  <2> QED
    BY <2>1, <2>2 DEF SpokenLately, Active
<1>5. CASE InjectorRuns
  <2>1. UNCHANGED now
    BY <1>5, TasksSay
  <2>2. ASSUME NEW l \in Label, stream' = Append(stream, l), l.active, l.stamp = now, l.id = session'.command
        PROVE  SpokenLately'
    BY <1>1, <2>1, <2>2, Appended DEF SpokenLately
  <2>3. ASSUME NEW c \in Commands, session' = Activated(session, c, now),
               stream' = Append(stream, ActiveLabel(session', now))
        PROVE  SpokenLately'
    <3>1. PICK l : l = ActiveLabel(session', now)
      OBVIOUS
    <3>2. l \in Label /\ l.active /\ l.stamp = now /\ l.id = session'.command
      BY <1>1, <2>3, <3>1 DEF ActiveLabel, Activated, Label
    <3> QED
      BY <2>2, <2>3, <3>1, <3>2
  <2>4. ASSUME Active(session), session' = session, stream' = Append(stream, ActiveLabel(session, now))
        PROVE  SpokenLately'
    <3>1. PICK l : l = ActiveLabel(session, now)
      OBVIOUS
    <3>2. l \in Label /\ l.active /\ l.stamp = now /\ l.id = session'.command
      BY <1>1, <2>4, <3>1 DEF ActiveLabel, Label, Active, Session
    <3> QED
      BY <2>2, <2>4, <3>1, <3>2
  <2>5. ASSUME session' = Cleared(session)
        PROVE  SpokenLately'
    BY <2>5 DEF SpokenLately, Cleared, Active
  <2>6. CASE Listener \/ BrokerReceives
    <3>1. UNCHANGED beater
      BY <2>6 DEF Listener, ListenerSkips, ListenerEndsFault, ListenerStartsFault, ListenerClosed, ListenerOpened,
         BrokerReceives
    <3>2. CASE UNCHANGED <<session, stream>>
      BY <1>2, <2>1, <3>1, <3>2
    <3> QED
      BY <1>5, <2>3, <2>4, <2>5, <3>2, TasksSay, Zenon
  <2>7. CASE BeaterExpires
    BY <2>5, <2>7 DEF BeaterExpires
  <2>8. CASE BeaterBeats
    <3>1. Active(session) /\ session' = session /\ stream' = Append(stream, ActiveLabel(session, now))
      BY <2>8 DEF BeaterBeats, BeaterWakes, Serving, Core, Link, Publish
    <3> QED
      BY <2>4, <3>1
  <2>9. CASE BeaterIdles
    BY <2>9 DEF BeaterIdles, SpokenLately, Active
  <2>10. CASE BeaterSleeps
    <3>1. UNCHANGED <<session, stream>> /\ beater.at = "publishing" /\ beater' = SleepingBeater(now)
      BY <2>10 DEF BeaterSleeps
    <3>2. beater.at # "sleeping" /\ beater'.at = "sleeping" /\ beater'.wake = now + Period
      BY <3>1 DEF SleepingBeater
    <3> QED
      BY <1>1, <2>1, <3>1, <3>2 DEF SpokenLately, Active
  <2> QED
    BY <1>5, <2>6, <2>7, <2>8, <2>9, <2>10 DEF InjectorRuns, Beater
<1>6. NextSegment \/ CommandArrives \/ SensorSamples \/ ScoreArrives \/ UNCHANGED runVars
        => UNCHANGED <<now, session, stream, beater>>
  BY DEF NextSegment, CommandArrives, Deliver, SensorSamples, ScoreArrives, runVars, run, vars
<1> QED
  BY <1>2, <1>3, <1>4, <1>5, <1>6 DEF RunNext

\* The samples and the labels agree after whatever the tasks say.
LEMMA SaidIsSo ==
  ASSUME TypeOK, Clock, Core, Recorder, SampleTimes, Sampled, Spoken, Heard, Framed, InjectorRuns
  PROVE  Spoken' /\ Heard' /\ Framed'
<1>1. /\ \A t \in DOMAIN samples : t \in Nat /\ t < now
      /\ UNCHANGED <<now, samples>> /\ now \in Nat
  BY TasksSay DEF TypeOK
<1>2. stream \in Seq(Label) /\ session \in Session
  BY DEF TypeOK
<1>3. CASE UNCHANGED <<session, stream>>
  BY <1>1, <1>3 DEF Spoken, Heard, Framed, Active
<1>4. ASSUME NEW c \in Commands, session' = Activated(session, c, now),
             stream' = Append(stream, ActiveLabel(session', now))
      PROVE  Spoken' /\ Heard' /\ Framed'
  <2>1. PICK l : l = ActiveLabel(session', now)
    OBVIOUS
  <2>2. l \in Label /\ l.id = c /\ l.active /\ l.started = now
    BY <1>1, <1>4, <2>1 DEF ActiveLabel, Activated, Label
  <2>3. stream' = Append(stream, l) /\ session'.command = c /\ session'.started = now
    BY <1>4, <2>1 DEF Activated
  <2>4. Spoken'
    <3>1. \A t \in DOMAIN samples : ~(now <= t)
      BY <1>1
    <3> QED
      BY <1>1, <1>2, <2>2, <2>3, <3>1, Appended DEF Spoken
  <2>5. Heard'
    BY <1>1, <1>2, <2>2, <2>3, Appended DEF Heard
  <2>6. Framed'
    BY <1>1, <1>2, <2>2, <2>3, Appended DEF Framed
  <2> QED
    BY <2>4, <2>5, <2>6
<1>5. ASSUME Active(session), session' = session, stream' = Append(stream, ActiveLabel(session, now))
      PROVE  Spoken' /\ Heard' /\ Framed'
  <2>1. PICK l : l = ActiveLabel(session, now)
    OBVIOUS
  <2>2. l \in Label /\ l.active
    BY <1>1, <1>2, <1>5, <2>1 DEF ActiveLabel, Label, Active, Session
  <2>3. stream' = Append(stream, l)
    BY <1>5, <2>1
  <2>4. Spoken'
    BY <1>1, <1>2, <1>5, <2>2, <2>3, Appended DEF Spoken
  <2>5. Heard'
    BY <1>1, <1>2, <2>2, <2>3, Appended DEF Heard
  <2>6. Framed'
    BY <1>1, <1>2, <2>2, <2>3, Appended DEF Framed
  <2> QED
    BY <2>4, <2>5, <2>6
<1>6. ASSUME Active(session), session' = Cleared(session), stream' = Append(stream, ClosingLabel(session, now))
      PROVE  Spoken' /\ Heard' /\ Framed'
  <2>1. PICK l : l = ClosingLabel(session, now)
    OBVIOUS
  <2>2. l \in Label /\ ~l.active /\ l.id = session.command /\ l.started = session.started /\ l.stamp = now
    BY <1>1, <1>2, <1>6, <2>1 DEF ClosingLabel, Label, Active, Session
  <2>3. stream' = Append(stream, l)
    BY <1>6, <2>1
  <2>4. Spoken'
    BY <1>2, <1>6 DEF Spoken, Cleared, Active, Session
  <2>5. Heard'
    BY <1>1, <1>2, <2>2, <2>3, Appended DEF Heard
  <2>6. Framed'
    <3>1. \A t \in DOMAIN samples : t < now /\ (session.started <= t => samples[t] = session.command)
      BY <1>1, <1>6 DEF Spoken
    <3> QED
      BY <1>1, <1>2, <2>2, <2>3, <3>1, Appended DEF Framed
  <2> QED
    BY <2>4, <2>5, <2>6
<1> QED
  BY <1>3, <1>4, <1>5, <1>6, TasksSay

\* A sample goes through the fault that runs, if any.
LEMMA SampleAgrees ==
  ASSUME IInv, Recorder, SampleTimes, Spoken, SpokenLately, Heard, Framed, SensorSamples
  PROVE  Spoken' /\ Heard' /\ Framed'
<1>1. /\ now \in Nat /\ UNCHANGED <<now, session, stream>>
      /\ stream \in Seq(Label) /\ session \in Session
  BY DEF IInv, TypeOK, SensorSamples, vars
<1>2. /\ DOMAIN samples = 1..(now - 1) /\ DOMAIN samples' = 1..now
      /\ \A t \in DOMAIN samples : samples'[t] = samples[t]
      /\ samples'[now] = session.command
  BY <1>1, SampleTaken
<1>3. \A t \in DOMAIN samples' : (t \in DOMAIN samples /\ samples'[t] = samples[t]) \/ t = now
  BY <1>1, <1>2
<1>4. \A j \in DOMAIN stream : stream[j].started <= now /\ stream[j].stamp <= now
  <2>1. \A j \in DOMAIN stream : stream[j] \in Label
    BY <1>1
  <2>2. \A j \in DOMAIN stream : stream[j].started \in Nat /\ stream[j].stamp \in Nat
    BY <2>1 DEF Label
  <2>3. \A j \in DOMAIN stream : stream[j].started <= stream[j].stamp /\ stream[j].stamp <= now
    BY DEF IInv, LabelsArePast, WellFormed, StartIsFact
  <2> QED
    BY <1>1, <2>2, <2>3
<1>5. Spoken'
  BY <1>1, <1>2, <1>3 DEF Spoken, Active
<1>6. Heard'
  <2>1. session.command # None =>
          \E j \in DOMAIN stream :
            /\ stream[j].id = session.command /\ stream[j].active
            /\ stream[j].started <= now /\ stream[j].stamp <= now /\ now < stream[j].stamp + Period
    <3>1. now < beater.wake /\ beater.wake \in Nat
      BY DEF SensorSamples, Quiet, IInv, TypeOK
    <3>2. \A j \in DOMAIN stream : stream[j].stamp \in Nat
      <4>1. \A j \in DOMAIN stream : stream[j] \in Label
        BY <1>1
      <4> QED
        BY <4>1 DEF Label
    <3>3. SUFFICES ASSUME session.command # None
                   PROVE  \E j \in DOMAIN stream :
                            /\ stream[j].id = session.command /\ stream[j].active
                            /\ stream[j].started <= now /\ stream[j].stamp <= now /\ now < stream[j].stamp + Period
      OBVIOUS
    <3>4. PICK j \in DOMAIN stream :
             /\ stream[j].id = session.command /\ stream[j].active
             /\ stream[j].stamp = now \/ beater.wake <= stream[j].stamp + Period
      BY <3>3 DEF SpokenLately, Active
    <3>5. now < stream[j].stamp + Period
      BY <1>1, <3>1, <3>2, <3>4, PeriodType
    <3> QED
      BY <1>4, <3>4, <3>5
  <2> QED
    BY <1>1, <1>2, <1>3, <2>1 DEF Heard
<1>7. Framed'
  <2>1. SUFFICES ASSUME NEW j \in DOMAIN stream, ~stream[j].active, NEW t \in DOMAIN samples'
                 PROVE  /\ samples'[t] = stream[j].id => t < stream[j].stamp
                        /\ stream[j].started <= t /\ t < stream[j].stamp => samples'[t] = stream[j].id
    BY <1>1 DEF Framed
  <2>2. CASE t \in DOMAIN samples /\ samples'[t] = samples[t]
    BY <2>1, <2>2 DEF Framed
  <2>3. CASE t = now
    <3>1. stream[j].id # session.command
      <4>1. stream[j] \in Label
        BY <1>1
      <4>2. stream[j].id # None
        BY <4>1, NoneIsNoCommand DEF Label
      <4>3. Active(session) => Fits(stream, ActiveLabel(session, now))
        BY DEF IInv, SessionFits
      <4>4. Active(session) => stream[j].id # session.command
        BY <2>1, <4>3 DEF Fits, ActiveLabel
      <4> QED
        BY <4>2, <4>4 DEF Active
    <3>2. ~(now < stream[j].stamp)
      <4>1. stream[j] \in Label
        BY <1>1
      <4>2. stream[j].stamp \in Nat /\ stream[j].stamp <= now
        BY <1>4, <4>1 DEF Label
      <4> QED
        BY <1>1, <4>2
    <3> QED
      BY <1>2, <2>3, <3>1, <3>2
  <2> QED
    BY <1>3, <2>2, <2>3
<1> QED
  BY <1>5, <1>6, <1>7

LEMMA AgreementNext ==
  ASSUME IInv, Clock, Core, Recorder, SampleTimes, Sampled, Spoken, SpokenLately, Heard, Framed, [RunNext]_runVars
  PROVE  Spoken' /\ Heard' /\ Framed'
<1>1. TypeOK
  BY DEF IInv
<1>2. CASE UNCHANGED <<session, stream, samples>>
  BY <1>2 DEF Spoken, Heard, Framed, Active
<1>3. NextSegment \/ CommandArrives \/ WorkerConnects \/ ScoreArrives \/ TimePasses \/ UNCHANGED runVars
        => UNCHANGED <<session, stream, samples>>
  BY DEF NextSegment, CommandArrives, Deliver, WorkerConnects, Connect, ScoreArrives, TimePasses, Tick,
         runVars, run, vars
<1> QED
  BY <1>1, <1>2, <1>3, SaidIsSo, SampleAgrees DEF RunNext

-----------------------------------------------------------------------------
\* What is true of every scripted run whose schedule leaves its faults room.

RunInv ==
  /\ IInv /\ OnlyCommands
  /\ Clock /\ Core /\ Windows
  /\ Recorder /\ SampleTimes /\ SampleFaults /\ FaultSamples /\ Scored
  /\ Sampled /\ Spoken /\ SpokenLately /\ Heard /\ Framed

LEMMA RunStarts == RunInit => RunInv
<1> SUFFICES ASSUME RunInit PROVE RunInv
  OBVIOUS
<1>1. /\ Init /\ segment = 0 /\ start = 0 /\ sent = {} /\ windows = <<>> /\ samples = <<>> /\ scores = <<>>
      /\ now = 0 /\ conn = "backoff" /\ inbox = <<>> /\ stream = <<>> /\ listener.at = "waiting"
      /\ beater.at = "sleeping" /\ beater.wake = 0 + Period /\ ~Active(session)
  BY DEF RunInit, Init, WaitingListener, SleepingBeater, NewSession, Active
<1>2. IInv /\ OnlyCommands
  BY <1>1, InitIInv, OnlyCommandsSent
<1>3. Clock
  BY <1>1, ElapsedIs DEF Clock, Settle
<1>4. Latest \notin FaultSegments
  <2>1. \A c \in FaultSegments : c # 0 /\ c # 0 - 1
    BY CommandIs
  <2> QED
    BY <1>1, <2>1 DEF Latest
<1>5. Core
  <2>1. Link
    BY <1>1, PeriodType DEF Link, Settle
  <2>2. Stage
    BY <1>1, <1>4 DEF Stage, Resting
  <2>3. Closings
    BY <1>1 DEF Closings
  <2>4. Past
    <3>1. \A d \in FaultSegments : ~(d + 1 < segment)
      BY <1>1, CommandIs
    <3> QED
      BY <3>1 DEF Past
  <2> QED
    BY <2>1, <2>2, <2>3, <2>4 DEF Core
<1>6. Windows /\ Recorder
  BY <1>1 DEF Windows, Recorder
<1>7. SampleTimes
  BY <1>1, TimesAre, TimesType DEF SampleTimes, SensorEnd
<1>8. SampleFaults /\ FaultSamples /\ Scored
  BY <1>1 DEF SampleFaults, FaultSamples, Scored
<1>9. Sampled /\ Spoken /\ SpokenLately /\ Heard /\ Framed
  <2>1. ~(Settle <= now)
    BY <1>1, TimesAre
  <2> QED
    BY <1>1, <2>1 DEF Sampled, Spoken, SpokenLately, Heard, Framed
<1> QED
  BY <1>2, <1>3, <1>5, <1>6, <1>7, <1>8, <1>9 DEF RunInv

LEMMA CoreNext ==
  ASSUME WellSpaced(Schedule), RunInv, [RunNext]_runVars
  PROVE  Core'
<1>1. TypeOK /\ Clock /\ Core /\ SampleFaults /\ samples \in Seq(Commands \union {None})
  BY DEF RunInv, IInv, Recorder
<1>2. CASE ScoreArrives \/ UNCHANGED runVars
  <2>1. UNCHANGED <<now, session, conn, listener, beater, inbox, stream, received, segment, sent, samples>>
    BY <1>2 DEF ScoreArrives, runVars, vars, run
  <2> QED
    BY <1>1, <2>1, StillCore
<1> QED
  BY <1>1, <1>2, ConnectsCore, ArrivesCore, InjectorCore, TimeCore, SamplesCore, SegmentCore DEF RunNext

LEMMA RunAlways ==
  ASSUME WellSpaced(Schedule)
  PROVE  ReleaseSpec => []RunInv
<1>1. ASSUME RunInv, [RunNext]_runVars PROVE RunInv'
  <2>1. TypeOK /\ now \in Nat
    BY <1>1 DEF RunInv, IInv, TypeOK
  <2>2. IInv'
    <3>1. [Next]_vars
      BY <1>1, RunIsInjectors DEF RunInv
    <3> QED
      BY <1>1, <3>1, NextIInv DEF RunInv
  <2>3. Clock' /\ Windows' /\ Core'
    BY <1>1, <2>1, ClockNext, WindowsNext, CoreNext DEF RunInv
  <2>4. Recorder' /\ SampleTimes' /\ SampleFaults' /\ FaultSamples' /\ Scored' /\ OnlyCommands'
    BY <1>1, <2>1, RecorderNext, SampleTimesNext, SampleFaultsNext, FaultSamplesNext, ScoredNext, OnlyCommandsSent
    DEF RunInv
  <2>5. Sampled' /\ Spoken' /\ SpokenLately' /\ Heard' /\ Framed'
    BY <1>1, <2>1, SampledNext, SpokenLatelyNext, AgreementNext DEF RunInv
  <2> QED
    BY <2>2, <2>3, <2>4, <2>5 DEF RunInv
<1>2. RunInv /\ [RunNext]_runVars => RunInv'
  BY <1>1
<1> QED
  BY <1>2, RunStarts, ReleaseRuns, PTL DEF RunSpec

\* A fault runs its course in every script whose normal segments outlast the
\* command's delay, the heartbeat that ends the fault, and a window: it is
\* ended by the heartbeat after its time, not by its successor, and the broker
\* knows before the next fault is published.
THEOREM CoursesAreRun ==
  ASSUME WellSpaced(Schedule)
  PROVE  ReleaseSpec => []FaultsRunTheirCourse
<1>1. ASSUME RunInv PROVE FaultsRunTheirCourse
  <2>1. Closings /\ Past /\ Windows /\ received \in 0..Len(stream) /\ stream \in Seq(Label) /\ segment \in Nat
    BY <1>1, ElapsedIs DEF RunInv, Core, IInv, TypeOK, Clock
  <2>2. ASSUME NEW i \in DOMAIN windows, windows[i].of \in FaultSegments, i < Len(windows)
        PROVE  \E j \in DOMAIN Wire : Wire[j].id = windows[i].of /\ ~Wire[j].active
    <3>1. windows[i].of = i /\ Len(windows) \in Nat
      BY <2>1 DEF Windows, WindowOf
    <3>2. i \in Nat /\ i + 1 < segment
      BY <2>1, <2>2, <3>1, CommandIs DEF Windows
    <3>3. PICK j \in 1..received : stream[j].id = i /\ ~stream[j].active
      BY <2>1, <2>2, <3>1, <3>2 DEF Past
    <3>4. j \in DOMAIN Wire /\ Wire[j] = stream[j]
      BY <2>1 DEF Wire
    <3> QED
      BY <3>1, <3>3, <3>4
  <2> QED
    BY <2>1, <2>2 DEF FaultsRunTheirCourse, Closings
<1>2. RunInv => FaultsRunTheirCourse
  BY <1>1
<1>3. ReleaseSpec => []RunInv
  BY RunAlways
<1> QED
  BY <1>2, <1>3, PTL

-----------------------------------------------------------------------------
\* What the scripts' evaluation finds when a run is over.

\* A fault's segment ends long before any later one but the next does.
LEMMA FaultsApart ==
  ASSUME WellSpaced(Schedule), NEW d \in FaultSegments, NEW e \in 0..Len(Schedule), d < e
  PROVE  Elapsed[d] \in Nat /\ Elapsed[e] \in Nat /\ Elapsed[d] + Latency + Period + Length < Elapsed[e]
<1>1. d \in Nat \ {0} /\ d \in DOMAIN Schedule /\ Schedule[d].kind # "none"
  BY CommandIs DEF FaultSegments
<1>2. d + 1 \in DOMAIN Schedule /\ 2 * Schedule[d + 1].secs > Latency + Period + Length
  BY <1>1 DEF WellSpaced
<1>3. /\ d \in 0..Len(Schedule) /\ d + 1 \in 0..Len(Schedule) /\ d + 1 <= e /\ (d + 1) - 1 = d
      /\ Schedule[d + 1].secs \in Nat
  BY <1>1, <1>2, ElapsedIs
<1>4. PICK a \in Nat : a = Elapsed[d]
  BY <1>3, ElapsedIs
<1>5. PICK b \in Nat : b = Elapsed[d + 1]
  BY <1>3, ElapsedIs
<1>6. PICK x \in Nat : x = Elapsed[e]
  BY ElapsedIs
<1>7. PICK n \in Nat : n = Schedule[d + 1].secs
  BY <1>3
<1>8. b = a + 2 * n /\ 2 * n > Latency + Period + Length
  BY <1>2, <1>3, <1>4, <1>5, <1>7, ElapsedIs
<1>9. b <= x
  BY <1>3, <1>5, <1>6, ElapsedGrows
<1>10. a + Latency + Period + Length < x
  BY <1>8, <1>9, TimesType, PeriodType
<1> QED
  BY <1>4, <1>6, <1>10

LEMMA WindowsAre ==
  ASSUME RunInv, NEW i \in DOMAIN windows
  PROVE  windows[i] = WindowOf(i) /\ i \in DOMAIN Schedule
<1>1. windows \in Seq({WindowOf(j) : j \in DOMAIN Schedule}) /\ windows[i] = WindowOf(i)
  BY DEF RunInv, Windows
<1>2. windows[i] \in {WindowOf(j) : j \in DOMAIN Schedule}
  BY <1>1
<1> QED
  BY <1>1, <1>2 DEF WindowOf

\* A sample went through a fault while, or not long after, its segment lasted.
LEMMA SampleIsNear ==
  ASSUME WellSpaced(Schedule), RunInv, NEW u \in DOMAIN samples, samples[u] # None,
         NEW i \in DOMAIN Schedule, Settle + Elapsed[i - 1] <= u, u < Settle + Elapsed[i]
  PROVE  /\ samples[u] \in FaultSegments
         /\ samples[u] = i \/ samples[u] = i - 1
         /\ samples[u] = i - 1 => u + 1 < Settle + Elapsed[i - 1] + Latency + Period
<1>1. PICK d : d = samples[u]
  OBVIOUS
<1>2. /\ d \in FaultSegments /\ Pub(d) <= u /\ u + 1 < Pub(d) + Latency + Duration[d] + Period
      /\ u \in Nat
  <2>1. u \in Nat
    BY DEF RunInv, Recorder
  <2> QED
    BY <1>1, <2>1 DEF RunInv, SampleFaults
<1>3. /\ d \in Nat \ {0} /\ d \in 0..Len(Schedule) /\ d - 1 \in 0..Len(Schedule)
      /\ Pub(d) + Duration[d] = Settle + Elapsed[d] /\ Duration[d] \in Nat /\ Pub(d) \in Nat
  BY <1>2, CommandIs, ElapsedIs
<1>4. i \in Nat \ {0} /\ i \in 0..Len(Schedule) /\ i - 1 \in 0..Len(Schedule)
  BY ElapsedIs
<1>5. PICK a \in Nat : a = Elapsed[i - 1]
  BY <1>4, ElapsedIs
<1>6. PICK b \in Nat : b = Elapsed[i]
  BY <1>4, ElapsedIs
<1>7. u + 1 < Settle + Elapsed[d] + Latency + Period
  <2>1. PICK p \in Nat : p = Pub(d)
    BY <1>3
  <2>2. PICK n \in Nat : n = Duration[d]
    BY <1>3
  <2>3. PICK x \in Nat : x = Elapsed[d]
    BY <1>3, ElapsedIs
  <2>4. p + n = Settle + x /\ u + 1 < p + Latency + n + Period
    BY <1>2, <1>3, <2>1, <2>2, <2>3
  <2>5. u + 1 < Settle + x + Latency + Period
    BY <1>2, <2>4, TimesType, PeriodType, TimesAre
  <2> QED
    BY <2>3, <2>5
<1>8. ~(d > i)
  <2>1. SUFFICES ASSUME d > i PROVE FALSE
    OBVIOUS
  <2>2. i <= d - 1
    BY <1>3, <1>4, <2>1
  <2>3. PICK x \in Nat : x = Elapsed[d - 1]
    BY <1>3, ElapsedIs
  <2>4. b <= x
    BY <1>3, <1>4, <1>6, <2>2, <2>3, ElapsedGrows
  <2>5. Settle + x <= u
    BY <1>2, <2>3 DEF Pub
  <2> QED
    BY <1>2, <1>6, <2>4, <2>5, TimesAre
<1>9. ~(d < i - 1)
  <2>1. SUFFICES ASSUME d < i - 1 PROVE FALSE
    OBVIOUS
  <2>2. Elapsed[d] \in Nat /\ Elapsed[d] + Latency + Period + Length < a
    BY <1>2, <1>4, <1>5, <2>1, FaultsApart
  <2>3. PICK x \in Nat : x = Elapsed[d]
    BY <2>2
  <2>4. u + 1 < Settle + x + Latency + Period
    BY <1>7, <2>3
  <2>5. x + Latency + Period + Length < a
    BY <2>2, <2>3
  <2>6. Settle + a <= u
    BY <1>5
  <2> QED
    BY <1>2, <2>4, <2>5, <2>6, TimesType, PeriodType, TimesAre
<1>10. d = i \/ d = i - 1
  BY <1>3, <1>4, <1>8, <1>9
<1>11. d = i - 1 => u + 1 < Settle + Elapsed[i - 1] + Latency + Period
  BY <1>7
<1> QED
  BY <1>1, <1>2, <1>10, <1>11

LEMMA AtTheEnd ==
  ASSUME RunInv, Over
  PROVE  /\ DOMAIN samples = 1..(SensorEnd - 1)
         /\ \A t \in 1..(End - 1) : t \in DOMAIN scores
         /\ \A t \in DOMAIN scores : scores[t] = Held(t)
<1>1. now = End /\ now >= SensorEnd /\ now \in Nat /\ SensorEnd \in Nat /\ End \in Nat
  BY TimesAre DEF Over
<1>2. Len(samples) = SensorEnd - 1 /\ Len(scores) <= now /\ now <= Len(scores) + 1
  BY <1>1 DEF RunInv, SampleTimes
<1>3. DOMAIN samples = 1..Len(samples) /\ DOMAIN scores = 1..Len(scores) /\ Len(scores) \in Nat
  BY DEF RunInv, Recorder
<1>4. \A t \in 1..(End - 1) : t \in DOMAIN scores
  BY <1>1, <1>2, <1>3
<1> QED
  BY <1>2, <1>3, <1>4 DEF RunInv, Scored

\* All segments end while the sensor still samples and the scores come in.
LEMMA SegmentInRun ==
  ASSUME NEW i \in DOMAIN Schedule
  PROVE  /\ Elapsed[i - 1] \in Nat /\ Elapsed[i] \in Nat
         /\ Elapsed[i] = Elapsed[i - 1] + 2 * Schedule[i].secs /\ Schedule[i].secs \in Nat \ {0}
         /\ Settle + Elapsed[i] + Trail <= SensorEnd /\ SensorEnd + 1 <= End
<1>1. i \in 0..Len(Schedule) /\ i - 1 \in 0..Len(Schedule) /\ Len(Schedule) \in 0..Len(Schedule)
  BY ElapsedIs
<1>2. PICK x \in Nat : x = Elapsed[i]
  BY <1>1, ElapsedIs
<1>3. x <= RunTime
  BY <1>1, <1>2, ElapsedIs, ElapsedGrows DEF RunTime
<1>4. Settle + x + Trail <= SensorEnd /\ SensorEnd + 1 <= End
  BY <1>2, <1>3, TimesAre, TimesType DEF SensorEnd, End
<1> QED
  BY <1>1, <1>2, <1>4, ElapsedIs

LEMMA WholeWindow ==
  ASSUME NEW t \in Nat
  PROVE  /\ IsFiniteSet((t - Length)..(t - 1)) /\ Cardinality((t - Length)..(t - 1)) = Length
         /\ (t - Length)..(t - 1) # {}
<1>1. Length \in Nat \ {0}
  BY TimesType
<1> DEFINE a == t - Length
           b == t - 1
<1>2. a \in Int /\ b \in Int /\ a <= b /\ b - a + 1 = Length /\ b \in a..b
  BY <1>1
<1> HIDE DEF a, b
<1>3. IsFiniteSet(a..b) /\ Cardinality(a..b) = b - a + 1
  BY <1>2, FS_Interval
<1>4. IsFiniteSet(a..b) /\ Cardinality(a..b) = Length /\ a..b # {}
  BY <1>2, <1>3
<1> QED
  BY <1>4 DEF a, b

\* A window of normal time is judged clean, or holds data of the fault before
\* it, which outlives its segment by the command's delay and up to a heartbeat.
THEOREM NormalsAreJudgedClean ==
  ASSUME WellSpaced(Schedule)
  PROVE  ReleaseSpec => []NormalsJudgedClean
<1>1. ASSUME RunInv, Over, NEW i \in DOMAIN Schedule, Schedule[i].kind = "none", NEW t \in Judged(WindowOf(i))
      PROVE  \/ Lost(t) = {} /\ \A u \in WindowAt(t) : samples[u] = None
             \/ /\ t < Settle + Elapsed[i - 1] + Latency + Period + Length - 1
                /\ \A u \in WindowAt(t) : samples[u] \in {None, i - 1}
  <2>1. PICK a \in Nat : a = Elapsed[i - 1]
    BY <1>1, SegmentInRun
  <2>2. PICK b \in Nat : b = Elapsed[i]
    BY <1>1, SegmentInRun
  <2>3. t \in (Settle + a + Length)..(Settle + b)
    BY <1>1, <2>1, <2>2 DEF Judged, WindowOf
  <2>4. t \in Nat \ {0} /\ Settle + b <= SensorEnd /\ SensorEnd + 1 <= End /\ SensorEnd \in Nat /\ End \in Nat
    BY <1>1, <2>1, <2>2, <2>3, SegmentInRun, TimesAre, TimesType
  <2>5. scores[t] = Held(t)
    <3>1. t \in 1..(End - 1)
      BY <2>1, <2>2, <2>3, <2>4, TimesAre, TimesType
    <3> QED
      BY <1>1, <3>1, AtTheEnd
  <2>6. ASSUME NEW u \in WindowAt(t)
        PROVE  /\ u \in DOMAIN samples
               /\ samples[u] = None \/
                    (samples[u] = i - 1 /\ t < Settle + a + Latency + Period + Length - 1)
    <3>1. u \in Nat /\ Settle + a <= u /\ u < Settle + b /\ u \in 1..(SensorEnd - 1) /\ t <= u + Length
      BY <2>1, <2>2, <2>3, <2>4, <2>6, TimesAre, TimesType DEF WindowAt
    <3>2. u \in DOMAIN samples
      BY <1>1, <3>1, AtTheEnd
    <3>3. CASE samples[u] # None
      <4>1. /\ samples[u] = i \/ samples[u] = i - 1
            /\ samples[u] \in FaultSegments
            /\ samples[u] = i - 1 => u + 1 < Settle + a + Latency + Period
        BY <1>1, <2>1, <2>2, <3>1, <3>2, <3>3, SampleIsNear
      <4>2. samples[u] = i - 1
        BY <1>1, <4>1 DEF FaultSegments
      <4> QED
        BY <2>1, <2>4, <3>1, <3>2, <4>1, <4>2, TimesAre, TimesType, PeriodType
    <3> QED
      BY <3>2, <3>3
  <2>7. CASE \A u \in WindowAt(t) : samples[u] = None
    <3>1. Held(t) = WindowAt(t)
      BY <2>6, <2>7 DEF Held, WindowAt, Through
    <3> QED
      BY <2>5, <2>7, <3>1 DEF Lost
  <2>8. CASE \E u \in WindowAt(t) : samples[u] # None
    <3>1. t < Settle + a + Latency + Period + Length - 1
      BY <2>6, <2>8
    <3> QED
      BY <2>1, <2>6, <3>1
  <2> QED
    BY <2>7, <2>8
<1>2. ASSUME RunInv PROVE NormalsJudgedClean
  <2>1. SUFFICES ASSUME Over, NEW i \in DOMAIN windows, windows[i].kind = "none", NEW t \in Judged(windows[i])
                 PROVE  \/ Lost(t) = {} /\ \A u \in WindowAt(t) : samples[u] = None
                        \/ /\ t < windows[i].start + Latency + Period + Length - 1
                           /\ \A u \in WindowAt(t) : samples[u] \in {None, windows[i].of - 1}
    BY DEF NormalsJudgedClean, Segments
  <2>2. windows[i] = WindowOf(i) /\ i \in DOMAIN Schedule
    BY <1>2, WindowsAre
  <2>3. Schedule[i].kind = "none" /\ windows[i].of = i /\ windows[i].start = Settle + Elapsed[i - 1]
    BY <2>1, <2>2 DEF WindowOf
  <2> QED
    BY <1>1, <1>2, <2>1, <2>2, <2>3
<1>3. RunInv => NormalsJudgedClean
  BY <1>2
<1>4. ReleaseSpec => []RunInv
  BY RunAlways
<1> QED
  BY <1>3, <1>4, PTL

-----------------------------------------------------------------------------
\* What the demo claims of every fault.

\* A drop-out is felt as soon as half of a window is missing: that takes a
\* window of two samples.
LEMMA HalfWindow ==
  ASSUME Length >= 2
  PROVE  Length \div 2 \in Nat \ {0} /\ 2 * (Length \div 2) <= Length
<1>1. PICK n \in Nat : n = Length
  BY TimesType
<1>2. n \div 2 \in Nat \ {0} /\ 2 * (n \div 2) <= n
  BY <1>1
<1> QED
  BY <1>1, <1>2

LEMMA FaultHasRoom ==
  ASSUME WellSpaced(Schedule), Roomy(Schedule), NEW c \in FaultSegments
  PROVE  /\ c - 1 \in 0..Len(Schedule) /\ c - 1 \notin FaultSegments /\ c - 1 >= 1
         /\ Pub(c) \in Nat /\ Duration[c] \in Nat /\ Pub(c) >= Settle + Length
         /\ Duration[c] >= Latency + Length
         /\ Pub(c) + Duration[c] = Settle + Elapsed[c] /\ Pub(c) + Duration[c] <= SensorEnd
<1>1. /\ c \in DOMAIN Schedule /\ c \in Nat \ {0} /\ c <= Len(Schedule) /\ Schedule[c].kind # "none"
      /\ Duration[c] \in Nat /\ Duration[c] = 2 * Schedule[c].secs
      /\ Pub(c) \in Nat /\ Pub(c) + Duration[c] = Settle + Elapsed[c]
  BY CommandIs DEF FaultSegments
<1>2. c > 1 /\ Duration[c] >= Latency + Length
  BY <1>1 DEF Roomy
<1>3. 1 \in DOMAIN Schedule /\ 1 \in 0..Len(Schedule) /\ c - 1 \in 0..Len(Schedule) /\ 1 <= c - 1
  BY <1>1, <1>2, ElapsedIs
<1>4. c - 1 \notin FaultSegments
  <2>1. SUFFICES ASSUME c - 1 \in FaultSegments PROVE FALSE
    OBVIOUS
  <2>2. c - 1 \in DOMAIN Schedule /\ Schedule[c - 1].kind # "none" /\ (c - 1) + 1 = c
    BY <1>1, <2>1 DEF FaultSegments
  <2> QED
    BY <1>1, <2>2 DEF WellSpaced
<1>5. Pub(c) >= Settle + Length
  <2>1. PICK n \in Nat : n = Schedule[1].secs
    BY <1>3, ElapsedIs
  <2>2. PICK x \in Nat : x = Elapsed[1]
    BY <1>3, ElapsedIs
  <2>3. PICK y \in Nat : y = Elapsed[c - 1]
    BY <1>3, ElapsedIs
  <2>4. x = 0 + 2 * n
    <3>1. Elapsed[1] = Elapsed[1 - 1] + 2 * Schedule[1].secs
      BY <1>3, ElapsedIs, Zenon
    <3>2. 1 - 1 = 0 /\ Elapsed[0] = 0
      BY ElapsedIs
    <3> QED
      BY <2>1, <2>2, <3>1, <3>2
  <2>5. 2 * n >= Length
    BY <1>3, <2>1, TimesType DEF Roomy
  <2>6. x <= y
    BY <1>3, <2>2, <2>3, ElapsedGrows
  <2>7. y >= Length
    BY <2>4, <2>5, <2>6, TimesType
  <2> QED
    BY <2>3, <2>7, TimesType, TimesAre DEF Pub
<1>6. Pub(c) + Duration[c] <= SensorEnd
  <2>1. PICK x \in Nat : x = Elapsed[c]
    BY <1>1, SegmentInRun
  <2>2. Settle + x + Trail <= SensorEnd /\ SensorEnd \in Nat
    BY <1>1, <2>1, SegmentInRun, TimesAre
  <2> QED
    BY <1>1, <2>1, <2>2, TimesType, TimesAre
<1> QED
  BY <1>1, <1>2, <1>3, <1>4, <1>5, <1>6

\* For a window before a fault's first sample nothing was wrong.
LEMMA CleanBefore ==
  ASSUME WellSpaced(Schedule), Roomy(Schedule), RunInv, NEW c \in FaultSegments,
         NEW u \in DOMAIN samples, Pub(c) - Length <= u, u < Pub(c) + Duration[c], samples[u] # c
  PROVE  samples[u] = None
<1>1. SUFFICES ASSUME samples[u] # None PROVE FALSE
  OBVIOUS
<1>2. PICK d : d = samples[u]
  OBVIOUS
<1>3. d \in FaultSegments /\ Pub(d) <= u /\ u + 1 < Pub(d) + Latency + Duration[d] + Period /\ u \in Nat
  <2>1. u \in Nat
    BY DEF RunInv, Recorder
  <2> QED
    BY <1>1, <1>2, <2>1 DEF RunInv, SampleFaults
<1>4. /\ d \in Nat \ {0} /\ d \in 0..Len(Schedule) /\ d - 1 \in 0..Len(Schedule) /\ d # c
      /\ Pub(d) + Duration[d] = Settle + Elapsed[d] /\ Duration[d] \in Nat /\ Pub(d) \in Nat
  BY <1>2, <1>3, CommandIs, ElapsedIs
<1>5. c \in Nat \ {0} /\ c \in 0..Len(Schedule) /\ c - 1 \in 0..Len(Schedule) /\ c - 1 \notin FaultSegments
  BY CommandIs, ElapsedIs, FaultHasRoom
<1>6. PICK p \in Nat : p = Pub(c)
  BY CommandIs
<1>7. PICK y \in Nat : y = Elapsed[c - 1]
  BY <1>5, ElapsedIs
<1>8. p = Settle + y /\ p - Length <= u
  BY <1>6, <1>7 DEF Pub
<1>9. CASE d > c
  <2>1. PICK x \in Nat : x = Elapsed[c]
    BY <1>5, ElapsedIs
  <2>2. PICK z \in Nat : z = Elapsed[d - 1]
    BY <1>4, ElapsedIs
  <2>3. c <= d - 1
    BY <1>4, <1>5, <1>9
  <2>4. x <= z
    BY <1>4, <1>5, <2>1, <2>2, <2>3, ElapsedGrows
  <2>5. Settle + z <= u /\ u < Settle + x
    BY <1>3, <2>1, <2>2, CommandIs DEF Pub
  <2> QED
    BY <1>3, <2>1, <2>2, <2>4, <2>5, TimesAre
<1>10. CASE d < c
  <2>1. d < c - 1
    BY <1>3, <1>4, <1>5, <1>10
  <2>2. PICK x \in Nat : x = Elapsed[d]
    BY <1>4, ElapsedIs
  <2>3. x + Latency + Period + Length < y
    BY <1>3, <1>5, <1>7, <2>1, <2>2, FaultsApart
  <2>4. PICK q \in Nat : q = Pub(d)
    BY <1>4
  <2>5. PICK n \in Nat : n = Duration[d]
    BY <1>4
  <2>6. u + 1 < q + Latency + n + Period /\ q + n = Settle + x
    BY <1>3, <1>4, <2>2, <2>4, <2>5
  <2> QED
    BY <1>3, <1>8, <2>3, <2>6, TimesAre, TimesType, PeriodType
<1> QED
  BY <1>4, <1>5, <1>9, <1>10

\* The window that ends a window's length after a command has surely arrived.
LEMMA FullyPerturbed ==
  ASSUME WellSpaced(Schedule), Roomy(Schedule), RunInv, Over,
         NEW c \in FaultSegments, Schedule[c].kind # "dropout",
         NEW t \in Nat, t = Pub(c) + Latency + Length
  PROVE  Held(t) = WindowAt(t) /\ Held(t) # {} /\ \A u \in WindowAt(t) : samples[u] = c
<1> DEFINE W == (t - Length)..(t - 1)
<1>1. PICK p \in Nat : p = Pub(c)
  BY CommandIs
<1>2. PICK n \in Nat : n = Duration[c]
  BY CommandIs
<1>3. p >= Settle + Length /\ n >= Latency + Length /\ p + n <= SensorEnd /\ c # None
  BY <1>1, <1>2, FaultHasRoom, CommandIs
<1>4. \A u \in W : u \in 1..(SensorEnd - 1) /\ p + Latency <= u /\ p <= u /\ u < p + n
  BY <1>1, <1>3, TimesType, TimesAre
<1>5. \A u \in W : u \in DOMAIN samples /\ samples[u] = c
  BY <1>1, <1>2, <1>4, AtTheEnd DEF RunInv, FaultSamples
<1>6. Held(t) = W
  BY <1>5 DEF Held, Through
<1>7. W # {}
  BY WholeWindow
<1> QED
  BY <1>5, <1>6, <1>7 DEF WindowAt

\* The window whose later half, or more, a drop-out took.
LEMMA HalfEmpty ==
  ASSUME WellSpaced(Schedule), Roomy(Schedule), Length >= 2, RunInv, Over,
         NEW c \in FaultSegments, Schedule[c].kind = "dropout"
  PROVE  \E t \in Nat :
           /\ Pub(c) <= t /\ t < Pub(c) + Duration[c]
           /\ Held(t) # {}
           /\ 2 * Cardinality(WindowAt(t) \ Held(t)) >= Length
           /\ \A u \in WindowAt(t) \ Held(t) : samples[u] = c
<1>1. PICK p \in Nat : p = Pub(c)
  BY CommandIs
<1>2. PICK n \in Nat : n = Duration[c]
  BY CommandIs
<1>3. PICK h \in Nat \ {0} : h = Length \div 2
  BY HalfWindow
<1>4. /\ p >= Settle + Length /\ n >= Latency + Length /\ p + n <= SensorEnd /\ 2 * h <= Length
      /\ c # None
  BY <1>1, <1>2, <1>3, FaultHasRoom, HalfWindow, CommandIs
<1> DEFINE T == {u \in DOMAIN samples : samples[u] = c}
<1>5. p + Latency \in T
  <2>1. PICK u \in Nat : u = p + Latency
    BY TimesType
  <2>2. u \in 1..(SensorEnd - 1) /\ u < p + n /\ p <= u /\ p + Latency <= u
    BY <1>4, <2>1, TimesType, TimesAre
  <2>3. u \in DOMAIN samples
    BY <2>2, AtTheEnd
  <2>4. samples[u] = c
    BY <1>1, <1>2, <2>2, <2>3 DEF RunInv, FaultSamples
  <2> QED
    BY <2>1, <2>3, <2>4
<1>6. T \in SUBSET Nat /\ \A u \in DOMAIN samples : u \in Nat
  BY AtTheEnd, TimesAre
<1>7. PICK s \in T : \A u \in T : s <= u
  BY <1>5, <1>6, LeastOfAll
<1>8. s \in Nat /\ s \in DOMAIN samples /\ samples[s] = c /\ p <= s /\ s <= p + Latency
  <2>1. s \in DOMAIN samples /\ samples[s] = c /\ s \in Nat /\ s <= p + Latency
    BY <1>5, <1>6, <1>7
  <2> QED
    BY <1>1, <1>4, <2>1 DEF RunInv, SampleFaults
<1>9. PICK t \in Nat : t = s + Length - h
  BY <1>4, <1>8, TimesType
<1>10. p <= t /\ t < p + n /\ t - Length = s - h /\ s < t /\ t - Length <= s
  BY <1>4, <1>8, <1>9, TimesType
<1> DEFINE H == (s - h)..(s - 1)
<1>11. ASSUME NEW u \in (t - Length)..(t - 1)
       PROVE  u \in DOMAIN samples /\ (Through(u) <=> u \in H) /\ (u \notin H => samples[u] = c)
  <2>1. u \in Nat /\ u \in DOMAIN samples /\ u < p + n /\ p - Length <= u
    <3>1. u \in 1..(SensorEnd - 1) /\ u < p + n /\ p - Length <= u
      BY <1>4, <1>8, <1>10, TimesType, TimesAre
    <3> QED
      BY <3>1, AtTheEnd
  <2>2. CASE u < s
    <3>1. u \in H
      BY <1>8, <1>10, <2>1, <2>2
    <3>2. samples[u] # c
      BY <1>7, <1>8, <2>1, <2>2
    <3>3. samples[u] = None
      BY <1>1, <1>2, <2>1, <3>2, CleanBefore
    <3> QED
      BY <2>1, <3>1, <3>3 DEF Through
  <2>3. CASE s <= u
    <3>1. u \notin H /\ p <= u
      BY <1>8, <2>1, <2>3
    <3>2. samples[u] = c
      BY <1>1, <1>2, <1>8, <2>1, <2>3, <3>1 DEF RunInv, FaultSamples
    <3> QED
      BY <1>4, <2>1, <3>1, <3>2 DEF Through
  <2> QED
    BY <1>8, <2>1, <2>2, <2>3
<1>12. Held(t) = H
  <2>1. \A u \in H : u \in (t - Length)..(t - 1)
    BY <1>8, <1>10
  <2> QED
    BY <1>11, <2>1 DEF Held
<1>13. s - h \in H
  BY <1>8
<1>14. WindowAt(t) \ Held(t) = s..(t - 1)
  <2>1. \A u \in (t - Length)..(t - 1) : u \in s..(t - 1) <=> u \notin H
    BY <1>8, <1>9, <1>10
  <2>2. \A u \in s..(t - 1) : u \in (t - Length)..(t - 1)
    BY <1>8, <1>9, <1>10, TimesType
  <2> QED
    BY <1>12, <2>1, <2>2 DEF WindowAt
<1>15. 2 * Cardinality(s..(t - 1)) >= Length
  <2> DEFINE b == t - 1
  <2>1. s \in Int /\ b \in Int /\ s <= b /\ b - s + 1 = Length - h
    BY <1>4, <1>8, <1>9, <1>10, TimesType
  <2> HIDE DEF b
  <2>2. Cardinality(s..b) = Length - h
    BY <2>1, FS_Interval
  <2>3. 2 * Cardinality(s..b) >= Length
    BY <1>4, <2>2, TimesType
  <2> QED
    BY <2>3 DEF b
<1>16. \A u \in WindowAt(t) \ Held(t) : samples[u] = c
  BY <1>11, <1>12 DEF WindowAt
<1> QED
  BY <1>1, <1>2, <1>10, <1>12, <1>13, <1>14, <1>15, <1>16

\* "A window must fill with fault data before it can show it": each fault gets
\* a score, among those judged for it, of a window that is all its own, and a
\* drop-out one of a window that it has emptied by half.  The schedule must
\* leave each fault room for a window, and a window must be of two samples or
\* more.
THEOREM FaultsAreShown ==
  ASSUME WellSpaced(Schedule), Roomy(Schedule), Length >= 2
  PROVE  ReleaseSpec => []FaultsShow
<1> DEFINE Shows(c, t) ==
             IF Schedule[c].kind = "dropout"
               THEN 2 * Cardinality(Lost(t)) >= Length /\ \A u \in Lost(t) : samples[u] = c
               ELSE Lost(t) = {} /\ \A u \in WindowAt(t) : samples[u] = c
<1>1. ASSUME RunInv, Over, NEW c \in FaultSegments
      PROVE  \E t \in Judged(WindowOf(c)) : Shows(c, t)
  <2>1. PICK p \in Nat : p = Pub(c)
    BY CommandIs
  <2>2. PICK n \in Nat : n = Duration[c]
    BY CommandIs
  <2>3. /\ p >= Settle + Length /\ n >= Latency + Length /\ p + n <= SensorEnd
        /\ c \in DOMAIN Schedule /\ Schedule[c].kind # "none" /\ SensorEnd < End
    BY <2>1, <2>2, FaultHasRoom, CommandIs, SegmentInRun, TimesAre DEF FaultSegments
  <2>4. ASSUME NEW t \in Nat, p <= t, t <= p + n, Held(t) # {}
        PROVE  t \in Judged(WindowOf(c)) /\ scores[t] = Held(t)
    <3>1. t \in 1..(End - 1)
      BY <2>3, <2>4, TimesAre, TimesType
    <3>2. scores[t] = Held(t)
      BY <1>1, <3>1, AtTheEnd
    <3>3. WindowOf(c).kind # "none" /\ WindowOf(c).start = p /\ WindowOf(c).end = p + n
      BY <2>1, <2>2, <2>3, CommandIs DEF WindowOf, Pub
    <3>4. t \in p..((p + n) + Length)
      BY <2>4, TimesType
    <3> QED
      BY <2>4, <3>2, <3>3, <3>4 DEF Judged
  <2>5. CASE Schedule[c].kind # "dropout"
    <3>1. PICK t \in Nat : t = p + Latency + Length
      BY TimesType
    <3>2. Held(t) = WindowAt(t) /\ Held(t) # {} /\ \A u \in WindowAt(t) : samples[u] = c
      BY <1>1, <2>1, <2>5, <3>1, FullyPerturbed
    <3>3. p <= t /\ t <= p + n
      BY <2>3, <3>1, TimesType
    <3>4. t \in Judged(WindowOf(c)) /\ Lost(t) = {}
      BY <2>4, <3>2, <3>3 DEF Lost
    <3> QED
      BY <2>5, <3>2, <3>4
  <2>6. CASE Schedule[c].kind = "dropout"
    <3>1. PICK t \in Nat :
            /\ p <= t /\ t < p + n
            /\ Held(t) # {}
            /\ 2 * Cardinality(WindowAt(t) \ Held(t)) >= Length
            /\ \A u \in WindowAt(t) \ Held(t) : samples[u] = c
      BY <1>1, <2>1, <2>2, <2>6, HalfEmpty
    <3>2. t \in Judged(WindowOf(c)) /\ Lost(t) = WindowAt(t) \ Held(t)
      BY <2>4, <3>1 DEF Lost
    <3> QED
      BY <2>6, <3>1, <3>2
  <2> QED
    BY <2>5, <2>6
<1>2. ASSUME RunInv PROVE FaultsShow
  <2>1. SUFFICES ASSUME Over, NEW i \in DOMAIN windows, windows[i].kind # "none"
                 PROVE  \E t \in Judged(windows[i]) :
                          IF windows[i].kind = "dropout"
                            THEN 2 * Cardinality(Lost(t)) >= Length /\ \A u \in Lost(t) : samples[u] = windows[i].of
                            ELSE Lost(t) = {} /\ \A u \in WindowAt(t) : samples[u] = windows[i].of
    BY DEF FaultsShow, Segments
  <2>2. /\ windows[i] = WindowOf(i) /\ i \in FaultSegments /\ WindowOf(i).of = i
        /\ WindowOf(i).kind = Schedule[i].kind
    BY <1>2, <2>1, WindowsAre DEF WindowOf, FaultSegments
  <2>3. PICK t \in Judged(WindowOf(i)) : Shows(i, t)
    BY <1>1, <1>2, <2>1, <2>2
  <2> QED
    BY <2>2, <2>3
<1>3. RunInv => FaultsShow
  BY <1>2
<1>4. ReleaseSpec => []RunInv
  BY RunAlways
<1> QED
  BY <1>3, <1>4, PTL

-----------------------------------------------------------------------------
\* What the query makes of the labels of a run.

\* The elements of a finite set, one after the other.
LEMMA Listed ==
  ASSUME NEW S, IsFiniteSet(S)
  PROVE  /\ Cardinality(S) \in Nat /\ Len(SetToSeq(S)) = Cardinality(S)
         /\ \A i \in 1..Cardinality(S) : SetToSeq(S)[i] \in S
         /\ \A x \in S : \E i \in 1..Cardinality(S) : SetToSeq(S)[i] = x
<1> DEFINE n == Cardinality(S)
<1>1. n \in Nat /\ ExistsBijection(1..n, S)
  BY FS_CardinalityType
<1>2. \E f \in [1..n -> S] : IsInjective(f)
  BY <1>1 DEF ExistsBijection, Bijection, Injection
<1>3. SetToSeq(S) \in [1..n -> S] /\ IsInjective(SetToSeq(S))
  BY <1>2 DEF SetToSeq
<1>4. PICK f \in [1..n -> S] : f = SetToSeq(S) /\ IsInjective(f)
  BY <1>3
<1>5. f \in Injection(1..n, S)
  BY <1>4 DEF Injection
<1>6. Cardinality(1..n) = n /\ IsFiniteSet(1..n)
  BY <1>1, FS_Interval
<1>7. f \in Surjection(1..n, S)
  BY <1>5, <1>6, FS_Injection
<1>8. \A x \in S : \E i \in 1..n : f[i] = x
  BY <1>7 DEF Surjection
<1>9. Len(f) = n
  BY <1>1, <1>4
<1> QED
  BY <1>1, <1>4, <1>8, <1>9

\* An image of the commands is finite.
LEMMA CommandsImage ==
  ASSUME NEW f, NEW C \in SUBSET Commands
  PROVE  IsFiniteSet({f[c] : c \in C})
<1>1. IsFiniteSet(C)
  <2>1. Commands \in SUBSET (1..Len(Schedule))
    BY CommandsType, ElapsedIs DEF FaultSegments
  <2>2. IsFiniteSet(1..Len(Schedule))
    <3>1. PICK n \in Nat : n = Len(Schedule)
      BY ElapsedIs
    <3>2. 1 \in Int /\ n \in Int
      BY <3>1
    <3> QED
      BY <3>1, <3>2, FS_Interval
  <2> QED
    BY <2>1, <2>2, FS_Subset
<1> DEFINE T == {f[c] : c \in C}
           g == [c \in C |-> f[c]]
<1>2. g \in Surjection(C, T)
  <2>1. g \in [C -> T]
    OBVIOUS
  <2>2. \A t \in T : \E c \in C : g[c] = t
    OBVIOUS
  <2> QED
    BY <2>1, <2>2 DEF Surjection
<1> QED
  BY <1>1, <1>2, FS_Surjection

ClosingTag == [joint |-> "all", kind |-> "none"]

FaultTag(c) == [joint |-> Schedule[c].joint, kind |-> Schedule[c].kind]

\* In whatever order the tables come, it is an order.
LEMMA RanksAre ==
  /\ \A t \in Archive!AllTags : Rank[t] \in Nat
  /\ \A t, u \in Archive!AllTags : Rank[t] = Rank[u] => t = u
  /\ ClosingTag \in Archive!AllTags
  /\ \A c \in Commands : FaultTag(c) \in Archive!AllTags /\ FaultTag(c) # ClosingTag
<1> DEFINE Tag == [c \in Commands |-> FaultTag(c)]
           Rest == {Tag[c] : c \in Commands}
           All == {ClosingTag} \union Rest
<1>1. Archive!AllTags = All
  <2>1. \A c \in Commands : Tag[c] = [joint |-> Schedule[c].joint, kind |-> Schedule[c].kind]
    BY DEF FaultTag
  <2> QED
    BY <2>1 DEF Archive!AllTags, ClosingTag
<1>2. \A c \in Commands : FaultTag(c) \in All /\ FaultTag(c) # ClosingTag
  <2>1. \A c \in Commands : FaultTag(c) = Tag[c] /\ Schedule[c].kind # "none"
    BY CommandsType DEF FaultSegments
  <2> QED
    BY <2>1 DEF FaultTag, ClosingTag
<1>3. IsFiniteSet(Rest)
  BY CommandsImage
<1> HIDE DEF Rest
<1>4. Archive!Cardinality(All) \in Nat
  <2>1. IsFiniteSet(Rest \union {ClosingTag}) /\ Rest \union {ClosingTag} = All
    BY <1>3, FS_AddElement
  <2>2. Cardinality(All) \in Nat
    BY <2>1, FS_CardinalityType
  <2>3. Archive!Cardinality(All) = Cardinality(All)
    BY Zenon DEF Archive!Cardinality, Cardinality
  <2> QED
    BY <2>2, <2>3
<1> HIDE DEF All
<1>5. PICK n \in Nat : n = Archive!Cardinality(All)
  BY <1>4
<1>6. /\ Rank \in [All -> 1..n]
      /\ \A t, u \in All : Rank[t] = Rank[u] => t = u
  BY <1>1, <1>5, RankType DEF Archive!TableOrders
<1>7. \A t \in All : Rank[t] \in Nat
  BY <1>5, <1>6
<1> QED
  BY <1>1, <1>2, <1>6, <1>7 DEF All

\* When the sensor stops, each fault is over and the broker knows.
LEMMA ClosedAtEnd ==
  ASSUME WellSpaced(Schedule), RunInv, now >= SensorEnd, NEW c \in FaultSegments
  PROVE  \E k \in 1..received : stream[k].id = c /\ ~stream[k].active
<1>1. TypeOK /\ Core /\ Clock /\ now \in Nat
  BY DEF RunInv, IInv, TypeOK
<1> DEFINE N == Len(Schedule)
<1>2. /\ N \in Nat /\ c \in Nat \ {0} /\ c + 1 \in DOMAIN Schedule /\ c + 1 <= N /\ segment \in 0..(N + 1)
  BY <1>1, CommandIs, ElapsedIs DEF WellSpaced, FaultSegments, Clock
<1>3. CASE c + 1 < segment
  BY <1>1, <1>3 DEF Core, Past
<1>4. CASE segment = c + 1
  <2>1. PICK x \in Nat : x = Elapsed[segment]
    BY <1>2, <1>4, SegmentInRun
  <2>2. Settle + x + Trail <= SensorEnd /\ SensorEnd \in Nat
    BY <1>2, <1>4, <2>1, SegmentInRun, TimesAre
  <2>3. now >= Settle + x
    BY <1>1, <2>1, <2>2, TimesType, TimesAre
  <2> QED
    BY <1>1, <1>4, <2>1, <2>3, FaultIsOver
<1>5. CASE segment = 0
  <2>1. now <= 1
    BY <1>1, <1>5, TimesAre DEF Clock
  <2>2. PICK x \in Nat, y \in Nat, n \in Nat \ {0} :
          x = Elapsed[c] /\ y = Elapsed[(c + 1) - 1] /\ n = Schedule[c + 1].secs /\ Elapsed[c + 1] = y + 2 * n
    <3>1. (c + 1) - 1 = c
      BY <1>2
    <3> QED
      BY <1>2, <3>1, SegmentInRun
  <2>3. Settle + (y + 2 * n) + Trail <= SensorEnd
    BY <1>2, <2>2, SegmentInRun
  <2> QED
    BY <1>1, <2>1, <2>2, <2>3, TimesType, TimesAre
<1>6. CASE segment # 0 /\ segment < c + 1
  <2>1. segment \in DOMAIN Schedule /\ segment \in 0..N /\ c \in 0..N /\ segment <= c
    BY <1>2, <1>6, ElapsedIs
  <2>2. PICK x \in Nat, y \in Nat, z \in Nat, n \in Nat \ {0} :
          /\ x = Elapsed[segment] /\ y = Elapsed[c]
          /\ z = Elapsed[c + 1] /\ n = Schedule[c + 1].secs /\ z = y + 2 * n
    <3>1. (c + 1) - 1 = c
      BY <1>2
    <3>2. Elapsed[segment] \in Nat
      BY <2>1, SegmentInRun
    <3> QED
      BY <1>2, <3>2, <3>1, SegmentInRun
  <2>3. x <= y
    BY <2>1, <2>2, ElapsedGrows
  <2>4. Settle + z + Trail <= SensorEnd
    BY <1>2, <2>2, SegmentInRun
  <2>5. now <= Settle + x
    <3>1. PICK e \in Nat : e = Elapsed[segment - 1]
      BY <2>1, SegmentInRun
    <3>2. PICK q \in Nat : q = Schedule[segment].secs /\ x = e + 2 * q
      BY <2>1, <2>2, <3>1, SegmentInRun
    <3>3. Secs(segment) = q /\ start = Settle + e /\ now <= start + 2 * Secs(segment)
      BY <1>1, <1>6, <2>1, <3>1, <3>2 DEF Secs, Clock
    <3> QED
      BY <1>1, <3>2, <3>3, TimesAre
  <2> QED
    BY <1>1, <2>2, <2>3, <2>4, <2>5, TimesType, TimesAre
<1> QED
  BY <1>2, <1>3, <1>4, <1>5, <1>6

\* The rows of the labels that the broker has.
Received == {Wire[i] : i \in DOMAIN Wire}

LEMMA RowsAre ==
  ASSUME TypeOK
  PROVE  /\ received \in Nat /\ 1..received \in SUBSET DOMAIN stream
         /\ \A i \in DOMAIN stream : stream[i] \in Label
         /\ Received = {stream[i] : i \in 1..received}
<1>1. stream \in Seq(Label) /\ received \in 0..Len(stream)
  BY DEF TypeOK
<1>2. /\ \A i \in DOMAIN stream : stream[i] \in Label
      /\ DOMAIN stream = 1..Len(stream) /\ Len(stream) \in Nat
  BY <1>1
<1>3. received \in Nat /\ 1..received \in SUBSET DOMAIN stream
  BY <1>1, <1>2
<1>4. DOMAIN Wire = 1..received /\ \A i \in 1..received : Wire[i] = stream[i]
  BY <1>1, <1>2, <1>3 DEF Wire
<1> QED
  BY <1>2, <1>3, <1>4 DEF Received

\* The rows of a fault in a span.
LEMMA RowsOfFault ==
  ASSUME RunInv, NEW c \in Commands, NEW until
  PROVE  LET R == Archive!RowsOf(Stored(until), c) IN
         /\ \A l \in R : l \in Label /\ l.id = c /\ l.active \in BOOLEAN /\ l.stamp \in Nat /\ l.started \in Nat
         /\ \A l \in R : \E i \in 1..received : l = stream[i] /\ stream[i].stamp < until
         /\ \A i \in 1..received : stream[i].id = c /\ stream[i].stamp < until => stream[i] \in R
         /\ \A l, m \in R : l.started = m.started
         /\ \A l, m \in R : ~l.active /\ ~m.active => l = m
         /\ \A l, m \in R : l.active /\ m.active /\ l.stamp = m.stamp => l = m
         /\ \A l \in R : Archive!Tags(l) = IF l.active THEN FaultTag(c) ELSE ClosingTag
<1> DEFINE R == Archive!RowsOf(Stored(until), c)
<1>1. /\ received \in Nat /\ 1..received \in SUBSET DOMAIN stream
      /\ \A i \in DOMAIN stream : stream[i] \in Label
      /\ Received = {stream[i] : i \in 1..received}
  BY RowsAre DEF RunInv, IInv
<1>2. StartIsFact(stream) /\ ClosedForGood(stream)
  BY DEF RunInv, IInv, WellFormed
<1>3. R = {l \in Received : l.stamp < until /\ l.id = c}
  BY DEF Archive!RowsOf, Stored, Received
<1>4. \A l \in R : \E i \in 1..received : l = stream[i] /\ stream[i].stamp < until /\ stream[i].id = c
  BY <1>1, <1>3
<1>5. \A i \in 1..received : stream[i].id = c /\ stream[i].stamp < until => stream[i] \in R
  BY <1>1, <1>3
<1> HIDE DEF R
<1>6. \A l \in R : l \in Label /\ l.id = c
  BY <1>1, <1>4
<1>7. \A l \in R : l.active \in BOOLEAN /\ l.stamp \in Nat /\ l.started \in Nat
  BY <1>6 DEF Label
<1>8. \A l, m \in R : l.started = m.started
  <2>1. \A i, k \in 1..received : stream[i].id = stream[k].id => stream[i].started = stream[k].started
    BY <1>1, <1>2 DEF StartIsFact
  <2> QED
    BY <1>4, <2>1
<1>9. \A l, m \in R : ~l.active /\ ~m.active => l = m
  <2>1. SUFFICES ASSUME NEW i \in 1..received, NEW k \in 1..received, stream[i].id = c, stream[k].id = c,
                        ~stream[i].active, ~stream[k].active
                 PROVE  i = k
    BY <1>4
  <2>2. i \in DOMAIN stream /\ k \in DOMAIN stream /\ i \in Nat /\ k \in Nat
    BY <1>1
  <2>3. ~(i < k) /\ ~(k < i)
    BY <1>2, <2>1, <2>2 DEF ClosedForGood
  <2> QED
    BY <2>2, <2>3
<1>10. \A l, m \in R : l.active /\ m.active /\ l.stamp = m.stamp => l = m
  <2>1. SUFFICES ASSUME NEW l \in R, NEW m \in R, l.active, m.active, l.stamp = m.stamp PROVE l = m
    OBVIOUS
  <2>2. /\ l \in [id: Commands, active: BOOLEAN, started: Nat, stamp: Nat]
        /\ m \in [id: Commands, active: BOOLEAN, started: Nat, stamp: Nat]
    BY <1>6 DEF Label
  <2>3. l.id = m.id /\ l.active = m.active /\ l.started = m.started
    <3>1. l.active = TRUE /\ m.active = TRUE
      BY <1>7, <2>1
    <3>2. l.id = m.id /\ l.started = m.started
      BY <1>6, <1>8
    <3> QED
      BY <3>1, <3>2
  <2> QED
    BY <2>1, <2>2, <2>3
<1>11. ASSUME NEW l \in R PROVE Archive!Tags(l) = IF l.active THEN FaultTag(c) ELSE ClosingTag
  <2>1. l.id = c
    BY <1>6
  <2>2. CASE ~l.active
    BY <2>2 DEF Archive!Tags, ClosingTag
  <2>3. CASE l.active
    <3>1. /\ [d \in Commands |-> Schedule[d].joint][l.id] = Schedule[c].joint
          /\ [d \in Commands |-> Schedule[d].kind][l.id] = Schedule[c].kind
      BY <2>1
    <3>2. Archive!Tags(l) = [joint |-> [d \in Commands |-> Schedule[d].joint][l.id],
                             kind |-> [d \in Commands |-> Schedule[d].kind][l.id]]
      BY <2>3 DEF Archive!Tags
    <3> QED
      BY <2>3, <3>1, <3>2 DEF FaultTag
  <2> QED
    BY <2>2, <2>3
<1>12. \A l \in R : \E i \in 1..received : l = stream[i] /\ stream[i].stamp < until
  BY <1>4
<1> QED
  BY <1>5, <1>6, <1>7, <1>8, <1>9, <1>10, <1>11, <1>12 DEF R

\* The query finds a first and a last row of each fault that a span has a
\* heartbeat of.  If the last one is a heartbeat, it is the latest of all, and
\* a closing label that the span has, too, comes in an earlier table.
LEMMA EndsOfFault ==
  ASSUME RunInv, NEW until, NEW j \in 1..received, stream[j].active, stream[j].stamp < until,
         NEW c \in Commands, c = stream[j].id
  PROVE  LET R == Archive!RowsOf(Stored(until), c)
             last == Archive!LastRow(Stored(until), Rank, c)
         IN  /\ Archive!FirstRow(Stored(until), Rank, c) \in R
             /\ last \in R
             /\ last.active =>
                  \A m \in R : IF m.active THEN m.stamp <= last.stamp ELSE Rank[ClosingTag] < Rank[FaultTag(c)]
<1> DEFINE R == Archive!RowsOf(Stored(until), c)
           first == Archive!FirstRow(Stored(until), Rank, c)
           last == Archive!LastRow(Stored(until), Rank, c)
           Beats == {l \in R : l.active}
           Stamps == {l.stamp : l \in Beats}
<1>1. /\ \A l \in R : l.active \in BOOLEAN /\ l.stamp \in Nat
      /\ \A l \in R : \E i \in 1..received : l = stream[i] /\ stream[i].stamp < until
      /\ stream[j] \in R
      /\ \A l, m \in R : ~l.active /\ ~m.active => l = m
      /\ \A l, m \in R : l.active /\ m.active /\ l.stamp = m.stamp => l = m
      /\ \A l \in R : Archive!Tags(l) = IF l.active THEN FaultTag(c) ELSE ClosingTag
  BY RowsOfFault
<1>2. PICK a \in Nat, b \in Nat : a = Rank[FaultTag(c)] /\ b = Rank[ClosingTag] /\ a # b
  BY RanksAre
<1>3. FaultTag(c) # ClosingTag
  BY RanksAre
<1>4. /\ first = CHOOSE l \in R : \A m \in R \ {l} : Archive!Before(Rank, l, m)
      /\ last = CHOOSE l \in R : \A m \in R \ {l} : Archive!Before(Rank, m, l)
  BY DEF Archive!FirstRow, Archive!LastRow
<1> HIDE DEF R, first, last
<1>5. \A l, m \in R : Archive!Before(Rank, l, m) <=>
         IF l.active THEN IF m.active THEN l.stamp < m.stamp ELSE a < b
                     ELSE (m.active /\ b < a) \/ (~m.active /\ l.stamp < m.stamp)
  <2>1. SUFFICES ASSUME NEW l \in R, NEW m \in R
                 PROVE  Archive!Before(Rank, l, m) <=>
                          IF l.active THEN IF m.active THEN l.stamp < m.stamp ELSE a < b
                                      ELSE (m.active /\ b < a) \/ (~m.active /\ l.stamp < m.stamp)
    OBVIOUS
  <2>2. Archive!Before(Rank, l, m) <=>
          \/ Rank[Archive!Tags(l)] < Rank[Archive!Tags(m)]
          \/ Archive!Tags(l) = Archive!Tags(m) /\ l.stamp < m.stamp
    BY DEF Archive!Before
  <2>3. CASE l.active /\ m.active
    BY <1>1, <1>2, <2>2, <2>3
  <2>4. CASE l.active /\ ~m.active
    BY <1>1, <1>2, <1>3, <2>2, <2>4
  <2>5. CASE ~l.active /\ m.active
    BY <1>1, <1>2, <1>3, <2>2, <2>5
  <2>6. CASE ~l.active /\ ~m.active
    BY <1>1, <1>2, <2>2, <2>6
  <2> QED
    BY <2>3, <2>4, <2>5, <2>6
<1>6. Stamps \in SUBSET Nat /\ Stamps # {} /\ IsFiniteSet(Stamps)
  <2>1. stream[j] \in Beats
    BY <1>1
  <2>2. \A s \in Stamps : s \in Nat
    BY <1>1
  <2> DEFINE f == [i \in 1..received |-> stream[i].stamp]
             T == {f[i] : i \in 1..received}
  <2>3. IsFiniteSet(1..received)
    <3>1. received \in Nat
      BY RowsAre DEF RunInv, IInv
    <3>2. PICK n \in Nat : n = received
      BY <3>1
    <3>3. 1 \in Int /\ n \in Int
      BY <3>2
    <3> QED
      BY <3>2, <3>3, FS_Interval
  <2>4. f \in Surjection(1..received, T)
    <3>1. f \in [1..received -> T] /\ \A t \in T : \E i \in 1..received : f[i] = t
      OBVIOUS
    <3> QED
      BY <3>1 DEF Surjection
  <2>5. IsFiniteSet(T)
    BY <2>3, <2>4, FS_Surjection
  <2>6. Stamps \in SUBSET T
    BY <1>1
  <2> QED
    BY <2>1, <2>2, <2>5, <2>6, FS_Subset
<1>7. \E l \in R : \A m \in R \ {l} : Archive!Before(Rank, m, l)
  <2>1. CASE a < b /\ \E l \in R : ~l.active
    <3>1. PICK l \in R : ~l.active
      BY <2>1
    <3>2. \A m \in R \ {l} : m.active
      BY <1>1, <3>1
    <3> QED
      BY <1>5, <2>1, <3>1, <3>2
  <2>2. CASE ~(a < b /\ \E l \in R : ~l.active)
    <3>1. PICK s \in Stamps : \A t \in Stamps : t <= s
      BY <1>6, GreatestOfAll
    <3>2. PICK l \in R : l.active /\ l.stamp = s
      BY <3>1
    <3>3. ASSUME NEW m \in R \ {l} PROVE Archive!Before(Rank, m, l)
      <4>1. CASE m.active
        <5>1. m.stamp <= l.stamp /\ m.stamp # l.stamp
          BY <1>1, <3>1, <3>2, <4>1
        <5>2. m.stamp < l.stamp
          BY <1>1, <3>2, <5>1
        <5> QED
          BY <1>5, <3>2, <4>1, <5>2
      <4>2. CASE ~m.active
        <5>1. b < a
          BY <1>2, <2>2, <4>2
        <5> QED
          BY <1>5, <3>2, <4>2, <5>1
      <4> QED
        BY <4>1, <4>2
    <3> QED
      BY <3>2, <3>3
  <2> QED
    BY <2>1, <2>2
<1>8. \E l \in R : \A m \in R \ {l} : Archive!Before(Rank, l, m)
  <2>1. CASE b < a /\ \E l \in R : ~l.active
    <3>1. PICK l \in R : ~l.active
      BY <2>1
    <3>2. \A m \in R \ {l} : m.active
      BY <1>1, <3>1
    <3> QED
      BY <1>5, <2>1, <3>1, <3>2
  <2>2. CASE ~(b < a /\ \E l \in R : ~l.active)
    <3>1. PICK s \in Stamps : \A t \in Stamps : s <= t
      BY <1>6, LeastOfAll
    <3>2. PICK l \in R : l.active /\ l.stamp = s
      BY <3>1
    <3>3. ASSUME NEW m \in R \ {l} PROVE Archive!Before(Rank, l, m)
      <4>1. CASE m.active
        <5>1. l.stamp <= m.stamp /\ m.stamp # l.stamp
          BY <1>1, <3>1, <3>2, <4>1
        <5>2. l.stamp < m.stamp
          BY <1>1, <3>2, <5>1
        <5> QED
          BY <1>5, <3>2, <4>1, <5>2
      <4>2. CASE ~m.active
        <5>1. a < b
          BY <1>2, <2>2, <4>2
        <5> QED
          BY <1>5, <3>2, <4>2, <5>1
      <4> QED
        BY <4>1, <4>2
    <3> QED
      BY <3>2, <3>3
  <2> QED
    BY <2>1, <2>2
<1>9. first \in R
  BY <1>4, <1>8
<1>10. last \in R /\ \A m \in R \ {last} : Archive!Before(Rank, m, last)
  BY <1>4, <1>7
<1>11. ASSUME last.active, NEW m \in R
       PROVE  IF m.active THEN m.stamp <= last.stamp ELSE b < a
  <2>1. CASE m = last
    BY <1>1, <1>10, <1>11, <2>1
  <2>2. CASE m # last
    <3>1. Archive!Before(Rank, m, last)
      BY <1>10, <2>2
    <3> QED
      BY <1>1, <1>5, <1>10, <1>11, <3>1
  <2> QED
    BY <2>1, <2>2
<1> QED
  BY <1>2, <1>9, <1>10, <1>11 DEF R, first, last

\* The interval of a fault in a span's dataset.
SpanOf(until, c) ==
  [id    |-> c,
   start |-> Archive!FirstRow(Stored(until), Rank, c).started,
   end   |-> Archive!LastRow(Stored(until), Rank, c).stamp]

\* The query answers one interval for each fault that a span has a heartbeat of.
LEMMA IntervalsAre ==
  ASSUME RunInv, NEW until
  PROVE  /\ Len(Intervals(until)) \in Nat
         /\ \A n \in 1..Len(Intervals(until)) :
              \E j \in 1..received :
                stream[j].active /\ stream[j].stamp < until /\ Intervals(until)[n] = SpanOf(until, stream[j].id)
         /\ \A j \in 1..received :
              stream[j].active /\ stream[j].stamp < until =>
                \E n \in 1..Len(Intervals(until)) : Intervals(until)[n] = SpanOf(until, stream[j].id)
<1>1. /\ received \in Nat /\ 1..received \in SUBSET DOMAIN stream
      /\ \A i \in DOMAIN stream : stream[i] \in Label
      /\ Received = {stream[i] : i \in 1..received}
  BY RowsAre DEF RunInv, IInv
<1> DEFINE C == {l.id : l \in {m \in Stored(until) : m.active}}
           F == [c \in Commands |-> SpanOf(until, c)]
           S == {F[c] : c \in C}
<1>2. C = {stream[j].id : j \in {i \in 1..received : stream[i].active /\ stream[i].stamp < until}}
  BY <1>1 DEF Stored, Received
<1>3. C \in SUBSET Commands
  BY <1>1, <1>2 DEF Label
<1>4. Archive!FaultIntervals(Stored(until), Rank) = S
  <2>1. \A c \in C : F[c] = [id    |-> c,
                             start |-> Archive!FirstRow(Stored(until), Rank, c).started,
                             end   |-> Archive!LastRow(Stored(until), Rank, c).stamp]
    BY <1>3 DEF SpanOf
  <2> HIDE DEF F
  <2> QED
    BY <2>1 DEF Archive!FaultIntervals, Whole
<1>5. IsFiniteSet(S)
  <2> HIDE DEF C, F
  <2> QED
    BY <1>3, CommandsImage
<1>6. Intervals(until) = SetToSeq(S)
  BY <1>4 DEF Intervals
<1>7. /\ \A x \in S : \E j \in 1..received :
            stream[j].active /\ stream[j].stamp < until /\ x = SpanOf(until, stream[j].id)
      /\ \A j \in 1..received : stream[j].active /\ stream[j].stamp < until => SpanOf(until, stream[j].id) \in S
  <2>1. \A c \in C : F[c] = SpanOf(until, c)
    BY <1>3
  <2> HIDE DEF F
  <2> QED
    BY <1>2, <2>1
<1> HIDE DEF S
<1>8. /\ Len(Intervals(until)) \in Nat
      /\ \A n \in 1..Len(Intervals(until)) : Intervals(until)[n] \in S
      /\ \A x \in S : \E n \in 1..Len(Intervals(until)) : Intervals(until)[n] = x
  BY <1>5, <1>6, Listed
<1> QED
  BY <1>7, <1>8

LEMMA OverlapOfSpan ==
  ASSUME NEW s \in Nat, NEW f, f.start \in Nat, f.end \in Nat
  PROVE  /\ Corpus!Overlap(s, f) = (IF s + Length <= f.end THEN s + Length ELSE f.end)
                                     - (IF s >= f.start THEN s ELSE f.start)
         /\ Corpus!Overlap(s, f) \in Int
         /\ Corpus!Overlap(s, f) > 0 => f # Corpus!NoFault
<1>1. ASSUME NEW a \in Nat, NEW b \in Nat
      PROVE  /\ Corpus!Min({a, b}) = IF a <= b THEN a ELSE b
             /\ Corpus!Max({a, b}) = IF a >= b THEN a ELSE b
  <2>1. (\E m \in {a, b} : \A n \in {a, b} : m <= n) /\ \E m \in {a, b} : \A n \in {a, b} : m >= n
    OBVIOUS
  <2>2. /\ Corpus!Min({a, b}) \in {a, b} /\ \A x \in {a, b} : Corpus!Min({a, b}) <= x
        /\ Corpus!Max({a, b}) \in {a, b} /\ \A x \in {a, b} : Corpus!Max({a, b}) >= x
    BY <2>1 DEF Corpus!Min, Corpus!Max
  <2> QED
    BY <2>2
<1>2. PICK e \in Nat, b \in Nat, w \in Nat \ {0} : e = f.end /\ b = f.start /\ w = Length
  BY TimesType
<1>3. /\ Corpus!Min({s + Length, f.end}) = IF s + w <= e THEN s + w ELSE e
      /\ Corpus!Max({s, f.start}) = IF s >= b THEN s ELSE b
  <2>1. PICK h \in Nat : h = s + w
    BY <1>2
  <2>2. /\ Corpus!Min({h, e}) = IF h <= e THEN h ELSE e
        /\ Corpus!Max({s, b}) = IF s >= b THEN s ELSE b
    BY <1>1
  <2> QED
    BY <1>2, <2>1, <2>2
<1>4. Corpus!Overlap(s, f) = (IF s + w <= e THEN s + w ELSE e) - (IF s >= b THEN s ELSE b)
  BY <1>3 DEF Corpus!Overlap
<1>5. f = Corpus!NoFault => e = 0
  BY <1>2 DEF Corpus!NoFault
<1> QED
  BY <1>2, <1>4, <1>5

\* One turn of label_window's loop over a list of intervals.
RunTurn(list, s, best, n) ==
  IF n = 0 THEN Corpus!NoFault
  ELSE IF Corpus!Overlap(s, list[n]) > Corpus!Claim(s, best[n - 1]) THEN list[n] ELSE best[n - 1]

RunLoop(list, s, n, best) == best = [i \in 0..n |-> RunTurn(list, s, best, i)]

\* The loop computes something, however many faults there were.
LEMMA RunLoopEnds ==
  ASSUME NEW list, NEW s, NEW N \in Nat
  PROVE  \E best : RunLoop(list, s, N, best)
<1> DEFINE Bad == {n \in Nat : ~ \E best : RunLoop(list, s, n, best)}
<1>1. ASSUME Bad # {} PROVE FALSE
  <2>1. PICK n \in Bad : \A m \in Bad : n <= m
    BY <1>1, LeastOfAll
  <2>2. n \in Nat /\ ~ \E best : RunLoop(list, s, n, best)
    BY <2>1
  <2>3. CASE n = 0
    <3> DEFINE b == [i \in 0..0 |-> Corpus!NoFault]
    <3>1. \A i \in 0..0 : RunTurn(list, s, b, i) = Corpus!NoFault
      BY DEF RunTurn
    <3>2. b = [i \in 0..0 |-> RunTurn(list, s, b, i)]
      BY <3>1
    <3> QED
      BY <2>2, <2>3, <3>2 DEF RunLoop
  <2>4. CASE n # 0
    <3>1. n - 1 \in Nat /\ n - 1 \notin Bad
      BY <2>1, <2>2, <2>4
    <3>2. PICK b : RunLoop(list, s, n - 1, b)
      BY <3>1
    <3> DEFINE c == [i \in 0..n |-> IF i = n THEN RunTurn(list, s, b, n) ELSE b[i]]
    <3>3. \A i \in 0..(n - 1) : c[i] = b[i] /\ b[i] = RunTurn(list, s, b, i)
      <4>1. \A i \in 0..(n - 1) : b[i] = RunTurn(list, s, b, i)
        BY <3>2, Zenon DEF RunLoop
      <4>2. \A i \in 0..(n - 1) : i \in 0..n /\ i # n
        BY <2>2
      <4> QED
        BY <4>1, <4>2
    <3>4. \A i \in 0..n : RunTurn(list, s, c, i) = RunTurn(list, s, b, i)
      <4>1. \A i \in 0..n : i # 0 => i - 1 \in 0..(n - 1)
        BY <2>2
      <4> QED
        BY <3>3, <4>1 DEF RunTurn
    <3>5. \A i \in 0..n : c[i] = RunTurn(list, s, c, i)
      <4>1. \A i \in 0..n : i = n \/ i \in 0..(n - 1)
        BY <2>2
      <4> QED
        BY <3>3, <3>4, <4>1
    <3>6. c = [i \in 0..n |-> RunTurn(list, s, c, i)]
      BY <3>5
    <3> QED
      BY <2>2, <3>6 DEF RunLoop
  <2> QED
    BY <2>3, <2>4
<1> QED
  BY <1>1

\* A row without a fault overlaps no interval, and one with a fault overlaps
\* that fault's.
LEMMA RowOwner ==
  ASSUME NEW list, NEW s \in Nat, Len(list) \in Nat,
         \A n \in 1..Len(list) : list[n].start \in Nat /\ list[n].end \in Nat
  PROVE  \/ Corpus!Owner(list, s) = Corpus!NoFault /\ \A n \in 1..Len(list) : ~(Corpus!Overlap(s, list[n]) > 0)
         \/ \E n \in 1..Len(list) :
              /\ Corpus!Owner(list, s) = list[n] /\ list[n] # Corpus!NoFault
              /\ Corpus!Overlap(s, list[n]) > 0
<1> DEFINE N == Len(list)
<1>1. PICK best : RunLoop(list, s, N, best) /\ Corpus!Owner(list, s) = best[N]
  <2>1. \E best : RunLoop(list, s, N, best)
    BY RunLoopEnds
  <2> QED
    BY <2>1 DEF RunLoop, RunTurn, Corpus!Owner
<1>2. \A n \in 0..N : best[n] = RunTurn(list, s, best, n)
  BY <1>1, Zenon DEF RunLoop
<1>3. \A n \in 1..N : /\ Corpus!Overlap(s, list[n]) \in Int
                      /\ Corpus!Overlap(s, list[n]) > 0 => list[n] # Corpus!NoFault
  BY OverlapOfSpan
<1> DEFINE Good(n) ==
             \/ best[n] = Corpus!NoFault /\ \A m \in 1..n : ~(Corpus!Overlap(s, list[m]) > 0)
             \/ \E m \in 1..n :
                  /\ best[n] = list[m] /\ list[m] # Corpus!NoFault
                  /\ Corpus!Overlap(s, list[m]) > 0
           Bad == {n \in 0..N : ~Good(n)}
<1>4. ASSUME Bad # {} PROVE FALSE
  <2>1. Bad \in SUBSET Nat
    OBVIOUS
  <2>2. PICK n \in Bad : \A m \in Bad : n <= m
    BY <1>4, <2>1, LeastOfAll
  <2>3. n \in 0..N /\ ~Good(n)
    BY <2>2
  <2>4. CASE n = 0
    <3>1. best[0] = Corpus!NoFault
      BY <1>2 DEF RunTurn
    <3> QED
      BY <2>3, <2>4, <3>1
  <2>5. CASE n # 0
    <3>1. n \in 1..N /\ n - 1 \in 0..N /\ n - 1 \notin Bad
      BY <2>2, <2>3, <2>5
    <3>2. Good(n - 1)
      BY <3>1
    <3>3. best[n] = IF Corpus!Overlap(s, list[n]) > Corpus!Claim(s, best[n - 1])
                      THEN list[n] ELSE best[n - 1]
      BY <1>2, <2>3, <2>5 DEF RunTurn
    <3>4. PICK o \in Int : o = Corpus!Overlap(s, list[n])
      BY <1>3, <3>1
    <3>5. \A i \in 1..n : i = n \/ i \in 1..(n - 1)
      BY <3>1
    <3>6. n \in 1..n /\ \A i \in 1..(n - 1) : i \in 1..n /\ i \in 1..N
      BY <3>1
    <3>7. CASE best[n - 1] = Corpus!NoFault /\ \A m \in 1..(n - 1) : ~(Corpus!Overlap(s, list[m]) > 0)
      <4>1. Corpus!Claim(s, best[n - 1]) = 0
        BY <3>7 DEF Corpus!Claim
      <4>2. CASE o > 0
        <5>1. best[n] = list[n] /\ list[n] # Corpus!NoFault
          BY <1>3, <3>1, <3>3, <3>4, <4>1, <4>2
        <5> QED
          BY <2>3, <3>4, <3>6, <4>2, <5>1
      <4>3. CASE ~(o > 0)
        <5>1. best[n] = Corpus!NoFault
          BY <3>3, <3>4, <3>7, <4>1, <4>3
        <5> QED
          BY <2>3, <3>4, <3>5, <3>7, <4>3, <5>1
      <4> QED
        BY <4>2, <4>3
    <3>8. ASSUME NEW m \in 1..(n - 1), best[n - 1] = list[m], list[m] # Corpus!NoFault,
                 Corpus!Overlap(s, list[m]) > 0
          PROVE  FALSE
      <4>1. PICK q \in Int : q = Corpus!Overlap(s, list[m]) /\ q > 0
        BY <1>3, <3>6, <3>8
      <4>2. Corpus!Claim(s, best[n - 1]) = q
        BY <3>8, <4>1 DEF Corpus!Claim
      <4>3. CASE o > q
        <5>1. best[n] = list[n] /\ o > 0
          BY <3>3, <3>4, <4>1, <4>2, <4>3
        <5>2. list[n] # Corpus!NoFault
          BY <1>3, <3>1, <3>4, <5>1
        <5> QED
          BY <2>3, <3>4, <3>6, <5>1, <5>2
      <4>4. CASE ~(o > q)
        <5>1. best[n] = list[m]
          BY <3>3, <3>4, <3>8, <4>2, <4>4
        <5> QED
          BY <2>3, <3>6, <3>8, <5>1
      <4> QED
        BY <4>3, <4>4
    <3> QED
      BY <3>2, <3>7, <3>8
  <2> QED
    BY <2>4, <2>5
<1>5. Good(N)
  BY <1>4
<1> QED
  BY <1>1, <1>5

\* What a row's label says of the samples in its window.
LEMMA RowInSpan ==
  ASSUME RunInv, NEW until, NEW s \in RowStarts(until)
  PROVE  /\ s \in Nat \ {0}
         /\ \A t \in s..(s + Length - 1) : t \in Nat /\ t \in DOMAIN samples
         /\ \E e \in Nat : s + Length <= e /\ e < until /\ e \in DOMAIN samples
<1> DEFINE seen == Telemetry(until)
<1>1. samples \in Seq(Commands \union {None})
  BY DEF RunInv, Recorder
<1>2. PICK n \in Nat : n = Len(samples) /\ DOMAIN samples = 1..n
  BY <1>1
<1>3. seen \in SUBSET (1..n) /\ \A t \in seen : t < until
  BY <1>2 DEF Telemetry
<1>4. seen # {} /\ s \in Min(seen)..(Max(seen) - Length)
  BY DEF RowStarts
<1> HIDE DEF seen
<1>5. seen \in SUBSET Nat /\ IsFiniteSet(seen)
  <2>1. IsFiniteSet(1..n)
    <3>1. 1 \in Int /\ n \in Int
      BY <1>2
    <3> QED
      BY <3>1, FS_Interval
  <2>2. seen \in SUBSET (1..n)
    BY <1>3
  <2>3. IsFiniteSet(seen)
    BY <2>1, <2>2, FS_Subset
  <2>4. \A t \in 1..n : t \in Nat
    BY <1>2
  <2> QED
    BY <2>2, <2>3, <2>4
<1>6. Min(seen) \in seen
  <2>1. \E m \in seen : \A k \in seen : m <= k
    BY <1>4, <1>5, LeastOfAll
  <2> QED
    BY <2>1 DEF Min
<1>7. Max(seen) \in seen
  <2>1. \E m \in seen : \A k \in seen : m >= k
    <3>1. PICK m \in seen : \A k \in seen : k <= m
      BY <1>4, <1>5, GreatestOfAll
    <3>2. \A k \in seen : m >= k
      BY <1>5, <3>1
    <3> QED
      BY <3>2
  <2> QED
    BY <2>1 DEF Max
<1>8. PICK a \in 1..n, e \in 1..n : a = Min(seen) /\ e = Max(seen) /\ e < until
  BY <1>3, <1>6, <1>7
<1>9. PICK w \in Nat \ {0} : w = Length
  BY TimesType
<1>10. s \in a..(e - w)
  BY <1>4, <1>8, <1>9
<1>11. s \in Nat \ {0} /\ s + w <= e /\ \A t \in s..(s + w - 1) : t \in 1..n
  BY <1>2, <1>8, <1>9, <1>10
<1> QED
  BY <1>2, <1>8, <1>9, <1>11

LEMMA RowLabels ==
  ASSUME WellSpaced(Schedule), RunInv, now >= SensorEnd, NEW until \in Nat, NEW s \in RowStarts(until)
  PROVE  IF LabelOf(Intervals(until), s) = None
           THEN \A t \in s..(s + Length - 1) : samples[t] # None => Outlived(until, samples[t], t)
           ELSE \E t \in s..(s + Length - 1) : samples[t] = LabelOf(Intervals(until), s)
<1> DEFINE list == Intervals(until)
           label == LabelOf(list, s)
<1>1. PICK w \in Nat \ {0} : w = Length
  BY TimesType
<1>2. s \in Nat /\ \A t \in s..(s + w - 1) : t \in Nat /\ t \in DOMAIN samples /\ t < until
  <2>1. /\ s \in Nat
        /\ \A t \in s..(s + w - 1) : t \in Nat /\ t \in DOMAIN samples
    BY <1>1, RowInSpan
  <2>2. PICK e \in Nat : s + w <= e /\ e < until
    BY <1>1, RowInSpan
  <2> QED
    BY <1>1, <2>1, <2>2
<1>3. /\ received \in Nat /\ 1..received \in SUBSET DOMAIN stream
      /\ \A i \in DOMAIN stream : stream[i] \in Label
      /\ stream \in Seq(Label)
  BY RowsAre DEF RunInv, IInv, TypeOK
<1>4. StartIsFact(stream) /\ StampsOrdered(stream) /\ ClosedForGood(stream) /\ Heard /\ Framed
  BY DEF RunInv, IInv, WellFormed
<1>5. /\ Len(list) \in Nat
      /\ \A n \in 1..Len(list) :
           \E j \in 1..received : stream[j].active /\ stream[j].stamp < until /\ list[n] = SpanOf(until, stream[j].id)
      /\ \A j \in 1..received : stream[j].active /\ stream[j].stamp < until =>
           \E n \in 1..Len(list) : list[n] = SpanOf(until, stream[j].id)
  BY IntervalsAre
<1> HIDE DEF list
<1>6. ASSUME NEW j \in 1..received, stream[j].active, stream[j].stamp < until
      PROVE  /\ stream[j].id \in Commands /\ stream[j].id \in FaultSegments /\ stream[j].id # None
             /\ SpanOf(until, stream[j].id).id = stream[j].id
             /\ SpanOf(until, stream[j].id).start = stream[j].started /\ stream[j].started \in Nat
             /\ SpanOf(until, stream[j].id).end = Archive!LastRow(Stored(until), Rank, stream[j].id).stamp
             /\ SpanOf(until, stream[j].id).end \in Nat
  <2>1. stream[j] \in Label
    BY <1>3
  <2>2. PICK c \in Commands : c = stream[j].id
    BY <2>1 DEF Label
  <2> DEFINE R == Archive!RowsOf(Stored(until), c)
             first == Archive!FirstRow(Stored(until), Rank, c)
             last == Archive!LastRow(Stored(until), Rank, c)
  <2>3. first \in R /\ last \in R
    BY <1>6, <2>2, EndsOfFault
  <2>4. /\ \A l \in R : l.stamp \in Nat /\ l.started \in Nat
        /\ \A l, m \in R : l.started = m.started
        /\ stream[j] \in R
    BY <1>6, <2>2, RowsOfFault
  <2>5. SpanOf(until, c).id = c /\ SpanOf(until, c).start = first.started /\ SpanOf(until, c).end = last.stamp
    BY DEF SpanOf
  <2> HIDE DEF R, first, last
  <2>6. first.started = stream[j].started /\ stream[j].started \in Nat /\ last.stamp \in Nat
    BY <2>3, <2>4
  <2>7. c \in FaultSegments /\ c # None
    BY CommandsType, NoneIsNoCommand
  <2> QED
    BY <2>2, <2>5, <2>6, <2>7 DEF last
<1>7. \A n \in 1..Len(list) : list[n].start \in Nat /\ list[n].end \in Nat
  BY <1>5, <1>6
<1>8. ASSUME NEW n \in 1..Len(list), Corpus!Owner(list, s) = list[n], list[n] # Corpus!NoFault,
             Corpus!Overlap(s, list[n]) > 0
      PROVE  /\ label # None
             /\ \E t \in s..(s + w - 1) : samples[t] = label
  <2>1. PICK j \in 1..received :
          stream[j].active /\ stream[j].stamp < until /\ list[n] = SpanOf(until, stream[j].id)
    BY <1>5
  <2>2. PICK c \in Commands : c = stream[j].id /\ c \in FaultSegments /\ c # None
    BY <1>6, <2>1
  <2>3. label = c
    BY <1>6, <1>8, <2>1, <2>2 DEF LabelOf
  <2>4. PICK k \in 1..received : stream[k].id = c /\ ~stream[k].active
    BY <2>2, ClosedAtEnd
  <2> DEFINE R == Archive!RowsOf(Stored(until), c)
             last == Archive!LastRow(Stored(until), Rank, c)
  <2>5. last \in R
    BY <2>1, <2>2, EndsOfFault
  <2>6. PICK i \in 1..received : last = stream[i] /\ stream[i].id = c
    BY <2>5, RowsOfFault
  <2> HIDE DEF R, last
  <2>7. i \in DOMAIN stream /\ k \in DOMAIN stream /\ j \in DOMAIN stream /\ i \in Nat /\ k \in Nat
    BY <1>3
  <2>8. stream[i].stamp <= stream[k].stamp
    <3>1. stream[i] \in Label /\ stream[k] \in Label
      BY <1>3, <2>7
    <3>2. stream[i].stamp \in Nat /\ stream[k].stamp \in Nat
      BY <3>1 DEF Label
    <3>3. ~(k < i)
      BY <1>4, <2>4, <2>6, <2>7 DEF ClosedForGood
    <3>4. CASE i = k
      BY <3>2, <3>4
    <3>5. CASE i < k
      BY <1>4, <2>7, <3>5 DEF StampsOrdered
    <3> QED
      BY <2>7, <3>3, <3>4, <3>5
  <2>9. PICK a \in Nat, b \in Nat, d \in Nat :
          /\ a = list[n].start /\ b = list[n].end /\ d = stream[k].stamp
          /\ a = stream[j].started /\ b = stream[i].stamp
    <3>1. stream[k] \in Label
      BY <1>3, <2>7
    <3>2. stream[k].stamp \in Nat
      BY <3>1 DEF Label
    <3> QED
      BY <1>6, <2>1, <2>2, <2>6, <3>2 DEF last
  <2>10. (IF s + w <= b THEN s + w ELSE b) - (IF s >= a THEN s ELSE a) > 0
    <3>1. s \in Nat /\ list[n].start \in Nat /\ list[n].end \in Nat
      BY <1>2, <1>7
    <3>2. Corpus!Overlap(s, list[n]) = (IF s + Length <= list[n].end THEN s + Length ELSE list[n].end)
                                         - (IF s >= list[n].start THEN s ELSE list[n].start)
      BY <3>1, OverlapOfSpan
    <3> QED
      BY <1>1, <1>8, <2>9, <3>2
  <2>11. PICK t \in Nat : t = IF s >= a THEN s ELSE a
    BY <1>2
  <2>12. t \in s..(s + w - 1) /\ a <= t /\ t < b
    BY <1>1, <1>2, <2>10, <2>11
  <2>13. stream[k].started = a /\ t < d
    <3>1. stream[k].started = stream[j].started
      BY <1>4, <2>2, <2>4, <2>7 DEF StartIsFact
    <3>2. b <= d
      BY <2>8, <2>9
    <3> QED
      BY <2>9, <2>12, <3>1, <3>2
  <2>14. samples[t] = c
    <3>1. t \in DOMAIN samples
      BY <1>2, <2>12
    <3> QED
      BY <1>4, <2>4, <2>7, <2>9, <2>12, <2>13, <3>1 DEF Framed
  <2> QED
    BY <2>2, <2>3, <2>12, <2>14
<1>9. ASSUME \A n \in 1..Len(list) : ~(Corpus!Overlap(s, list[n]) > 0),
             NEW t \in s..(s + w - 1), samples[t] # None
      PROVE  Outlived(until, samples[t], t)
  <2>1. t \in Nat /\ t \in DOMAIN samples /\ t < until
    BY <1>2, <1>9
  <2>2. PICK j \in DOMAIN stream :
           /\ stream[j].id = samples[t] /\ stream[j].active
           /\ stream[j].started <= t /\ stream[j].stamp <= t /\ t < stream[j].stamp + Period
    BY <1>4, <1>9, <2>1 DEF Heard
  <2>3. PICK c \in Commands : c = samples[t] /\ c \in FaultSegments /\ stream[j].stamp \in Nat
    <3>1. stream[j] \in Label
      BY <1>3, <2>2
    <3> QED
      BY <2>2, <3>1, CommandsType DEF Label
  <2>4. PICK i \in 1..received : stream[i].id = c /\ ~stream[i].active
    BY <2>3, ClosedAtEnd
  <2>5. j \in 1..received /\ stream[j].stamp < until
    <3>1. i \in DOMAIN stream /\ i \in Nat /\ j \in Nat /\ j >= 1
      BY <1>3, <2>2, <2>4
    <3>2. ~(i < j)
      BY <1>4, <2>2, <2>3, <2>4, <3>1 DEF ClosedForGood
    <3> QED
      BY <1>3, <2>1, <2>2, <2>3, <2>4, <3>1, <3>2
  <2> DEFINE R == Archive!RowsOf(Stored(until), c)
             last == Archive!LastRow(Stored(until), Rank, c)
  <2>6. /\ last \in R
        /\ last.active =>
             \A m \in R : IF m.active THEN m.stamp <= last.stamp ELSE Rank[ClosingTag] < Rank[FaultTag(c)]
    BY <2>2, <2>3, <2>5, EndsOfFault
  <2>7. /\ \A l \in R : l.stamp \in Nat /\ Archive!Tags(l) = IF l.active THEN FaultTag(c) ELSE ClosingTag
        /\ \A l \in R : \E k \in 1..received : l = stream[k] /\ stream[k].id = c
        /\ stream[j] \in R
    BY <2>2, <2>3, <2>5, RowsOfFault
  <2>8. R = {l \in Stored(until) : l.id = c}
    BY DEF Archive!RowsOf
  <2>9. PICK n \in 1..Len(list) : list[n] = SpanOf(until, c)
    BY <1>5, <2>2, <2>3, <2>5
  <2>10. list[n].start = stream[j].started /\ list[n].end = last.stamp /\ stream[j].started \in Nat
    BY <1>6, <2>2, <2>3, <2>5, <2>9
  <2> HIDE DEF R, last
  <2>11. last.stamp <= t
    <3>1. PICK a \in Nat, b \in Nat : a = stream[j].started /\ b = last.stamp
      BY <2>6, <2>7, <2>10
    <3>2. SUFFICES ASSUME t < b PROVE FALSE
      BY <2>1, <3>1
    <3>3. a <= t
      BY <2>2, <3>1
    <3>4. (IF s + w <= b THEN s + w ELSE b) - (IF s >= a THEN s ELSE a) > 0
      BY <1>1, <1>2, <2>1, <3>2, <3>3
    <3>5. Corpus!Overlap(s, list[n]) > 0
      <4>1. s \in Nat /\ list[n].start \in Nat /\ list[n].end \in Nat
        BY <1>2, <1>7
      <4>2. Corpus!Overlap(s, list[n]) = (IF s + Length <= list[n].end THEN s + Length ELSE list[n].end)
                                           - (IF s >= list[n].start THEN s ELSE list[n].start)
        BY <4>1, OverlapOfSpan
      <4> QED
        BY <1>1, <2>10, <3>1, <3>4, <4>2
    <3> QED
      BY <1>9, <3>5
  <2>12. last.active
    <3>1. SUFFICES ASSUME ~last.active PROVE FALSE
      OBVIOUS
    <3>2. PICK k \in 1..received : last = stream[k] /\ stream[k].id = c
      BY <2>6, <2>7
    <3>3. t < stream[k].stamp
      BY <1>3, <1>4, <2>1, <2>3, <3>1, <3>2 DEF Framed
    <3>4. last.stamp \in Nat
      BY <2>6, <2>7
    <3> QED
      BY <2>1, <2>11, <3>2, <3>3, <3>4
  <2>13. ASSUME NEW l \in R
         PROVE  IF l.active THEN l.stamp <= t
                ELSE Rank[Archive!Tags(l)] < Rank[[joint |-> Schedule[c].joint, kind |-> Schedule[c].kind]]
    <3>1. CASE l.active
      <4>1. l.stamp <= last.stamp /\ l.stamp \in Nat /\ last.stamp \in Nat
        BY <2>6, <2>7, <2>12, <3>1
      <4> QED
        BY <2>1, <2>11, <3>1, <4>1
    <3>2. CASE ~l.active
      BY <2>6, <2>7, <2>12, <3>2 DEF FaultTag
    <3> QED
      BY <3>1, <3>2
  <2>14. \E l \in R : l.active /\ t < l.stamp + Period
    BY <2>2, <2>7
  <2> QED
    BY <2>3, <2>8, <2>13, <2>14 DEF Outlived
<1>10. CASE Corpus!Owner(list, s) = Corpus!NoFault /\ \A n \in 1..Len(list) : ~(Corpus!Overlap(s, list[n]) > 0)
  <2>1. label = None
    BY <1>10 DEF LabelOf
  <2> QED
    BY <1>1, <1>9, <1>10, <2>1 DEF list
<1> QED
  BY <1>1, <1>2, <1>5, <1>7, <1>8, <1>10, RowOwner DEF list

\* The dataset of a run is honest (data_pipeline/build.py over a run of
\* collect.py or demo.py), over any span and whatever the order of the
\* query's tables: a row labelled with a fault has a sample that went through
\* that fault, and a row labelled normal has none that went through a fault,
\* but for what a fault does after its last heartbeat where its closing label
\* does not count.
THEOREM RowsAreHonest ==
  ASSUME WellSpaced(Schedule)
  PROVE  ReleaseSpec => []RowsHonest
<1>1. ASSUME RunInv, now = SensorEnd, NEW until \in 1..SensorEnd, NEW s \in RowStarts(until)
      PROVE  IF LabelOf(Intervals(until), s) = None
               THEN \A t \in s..(s + Length - 1) : samples[t] # None => Outlived(until, samples[t], t)
               ELSE \E t \in s..(s + Length - 1) : samples[t] = LabelOf(Intervals(until), s)
  <2>1. now >= SensorEnd /\ until \in Nat
    BY <1>1, TimesAre
  <2> QED
    BY <1>1, <2>1, RowLabels
<1>2. RunInv => RowsHonest
  BY <1>1, Zenon DEF RowsHonest
<1>3. ReleaseSpec => []RunInv
  BY RunAlways
<1> QED
  BY <1>2, <1>3, PTL

-----------------------------------------------------------------------------
\* Reports of a run.

\* The first row of every span is a normal one.
HeadInv ==
  dataset # Nothing =>
    \A span \in Spans : Settle + Length < span => Settle \in Rows(span) /\ table[span][Settle] = None

LEMMA RowsFinite ==
  ASSUME RunInv, NEW span
  PROVE  IsFiniteSet(RowStarts(span)) /\ RowStarts(span) \in SUBSET Nat
<1>1. samples \in Seq(Commands \union {None})
  BY DEF RunInv, Recorder
<1>2. PICK n \in Nat : n = Len(samples) /\ DOMAIN samples = 1..n
  BY <1>1
<1>3. IsFiniteSet(1..n)
  <2>1. 1 \in Int /\ n \in Int
    BY <1>2
  <2> QED
    BY <2>1, FS_Interval
<1>4. ASSUME NEW s \in RowStarts(span) PROVE s \in 1..n
  <2>1. s \in Nat \ {0} /\ \E e \in Nat : s + Length <= e /\ e \in DOMAIN samples
    BY RowInSpan
  <2> QED
    BY <1>2, <2>1, TimesType
<1> QED
  BY <1>2, <1>3, <1>4, FS_Subset

\* A script that begins with more than a window of normal time makes a normal
\* row of it.
LEMMA HeadRow ==
  ASSUME WellSpaced(Schedule), Roomy(Schedule), RunInv, now >= SensorEnd,
         NEW span \in 1..SensorEnd, Settle + Length < span
  PROVE  Settle \in RowStarts(span) /\ LabelOf(Intervals(span), Settle) = None
<1>1. PICK w \in Nat \ {0} : w = Length
  BY TimesType
<1>2. PICK e \in Nat : e = SensorEnd /\ 1 + w < span /\ span <= e /\ span \in Nat /\ Settle = 1
  BY <1>1, TimesAre
<1>3. DOMAIN samples = 1..(e - 1)
  <2>1. Len(samples) = e - 1 /\ samples \in Seq(Commands \union {None})
    BY <1>2 DEF RunInv, SampleTimes, Recorder
  <2> QED
    BY <2>1
<1>4. \A t \in 1..(w + 1) : t \in DOMAIN samples /\ samples[t] = None
  <2>1. SUFFICES ASSUME NEW t \in 1..(w + 1), samples[t] # None PROVE FALSE
    BY <1>1, <1>2, <1>3
  <2>2. t \in DOMAIN samples /\ t \in Nat
    BY <1>1, <1>2, <1>3
  <2>3. PICK c \in FaultSegments : c = samples[t] /\ Pub(c) <= t
    BY <2>1, <2>2 DEF RunInv, SampleFaults
  <2>4. c \in DOMAIN Schedule /\ c > 1 /\ c \in Nat
    BY ElapsedIs DEF Roomy, FaultSegments
  <2>5. 1 \in DOMAIN Schedule /\ c - 1 \in 0..Len(Schedule) /\ 1 \in 0..Len(Schedule) /\ 1 <= c - 1
    BY <2>4, ElapsedIs
  <2>6. PICK x \in Nat, y \in Nat, n \in Nat : x = Elapsed[1] /\ y = Elapsed[c - 1] /\ n = Schedule[1].secs
    BY <2>5, ElapsedIs
  <2>7. x <= y
    BY <2>5, <2>6, ElapsedGrows
  <2>8. x = 2 * n
    <3>1. Elapsed[1] = Elapsed[1 - 1] + 2 * n /\ 1 - 1 = 0
      BY <2>5, <2>6, ElapsedIs
    <3>2. Elapsed[1 - 1] = 0
      BY <3>1, ElapsedIs
    <3> QED
      BY <2>6, <3>1, <3>2
  <2>9. 2 * n > w
    BY <1>1, <2>5, <2>6 DEF Roomy
  <2>10. 1 + y <= t
    BY <1>2, <2>3, <2>6 DEF Pub
  <2> QED
    BY <1>1, <2>1, <2>7, <2>8, <2>9, <2>10
<1> DEFINE seen == Telemetry(span)
<1>5. /\ \A t \in 1..(w + 1) : t \in seen
      /\ seen \in SUBSET (1..(e - 1))
  BY <1>1, <1>2, <1>3, <1>4 DEF Telemetry, Through
<1> HIDE DEF seen
<1>6. /\ 1 \in seen /\ w + 1 \in seen /\ seen # {} /\ seen \in SUBSET Nat
      /\ IsFiniteSet(seen)
  <2>1. 1 \in seen /\ w + 1 \in seen /\ seen \in SUBSET Nat
    BY <1>1, <1>2, <1>5
  <2>2. IsFiniteSet(1..(e - 1))
    <3>1. 1 \in Int /\ e - 1 \in Int
      BY <1>2
    <3> QED
      BY <3>1, FS_Interval
  <2> QED
    BY <1>5, <2>1, <2>2, FS_Subset
<1>7. Min(seen) = 1
  <2>1. \A k \in seen : 1 <= k
    BY <1>2, <1>5
  <2>2. Min(seen) \in seen /\ \A k \in seen : Min(seen) <= k
    BY <1>6, <2>1 DEF Min
  <2>3. PICK m \in Nat : m = Min(seen)
    BY <1>6, <2>2
  <2>4. 1 <= m /\ m <= 1
    BY <1>6, <2>1, <2>2, <2>3
  <2>5. m = 1
    BY <2>4
  <2> QED
    BY <2>3, <2>5
<1>8. Max(seen) \in Nat /\ w + 1 <= Max(seen)
  <2>1. \E m \in seen : \A k \in seen : m >= k
    <3>1. PICK m \in seen : \A k \in seen : k <= m
      BY <1>6, GreatestOfAll
    <3>2. \A k \in seen : m >= k
      BY <1>6, <3>1
    <3> QED
      BY <3>2
  <2>2. Max(seen) \in seen /\ \A k \in seen : Max(seen) >= k
    BY <2>1 DEF Max
  <2> QED
    BY <1>6, <2>2
<1>9. Settle \in Min(seen)..(Max(seen) - Length)
  BY <1>1, <1>2, <1>7, <1>8
<1>10. \A o : Corpus!Keeps(Length \div 2, Cardinality({t \in Settle..(Settle + Length - 1) : t \in seen}), o)
  <2>1. {t \in Settle..(Settle + Length - 1) : t \in seen} = 1..w
    BY <1>1, <1>2, <1>5
  <2>2. Cardinality(1..w) = w
    <3>1. 1 \in Int /\ w \in Int /\ 1 <= w
      BY <1>1
    <3>2. Cardinality(1..w) = w - 1 + 1
      BY <3>1, FS_Interval
    <3> QED
      BY <1>1, <3>2
  <2>3. w >= w \div 2
    BY <1>1
  <2> QED
    BY <1>1, <2>1, <2>2, <2>3 DEF Corpus!Keeps
<1>11. Settle \in RowStarts(span)
  BY <1>6, <1>9, <1>10 DEF RowStarts, seen
<1>12. LabelOf(Intervals(span), Settle) = None
  <2>1. SUFFICES ASSUME LabelOf(Intervals(span), Settle) # None PROVE FALSE
    OBVIOUS
  <2>2. PICK t \in Settle..(Settle + Length - 1) : samples[t] = LabelOf(Intervals(span), Settle)
    BY <1>2, <1>11, <2>1, RowLabels
  <2>3. t \in 1..(w + 1)
    BY <1>1, <1>2, <2>2
  <2> QED
    BY <1>4, <2>1, <2>2, <2>3
<1> QED
  BY <1>11, <1>12

LEMMA TablesNext ==
  ASSUME WellSpaced(Schedule), Roomy(Schedule), RunInv, TableInv, HeadInv, [ReleaseNext]_releaseVars
  PROVE  TableInv' /\ HeadInv'
<1>1. ASSUME table' = table, dataset # Nothing \/ dataset' = dataset PROVE TableInv' /\ HeadInv'
  BY <1>1, SameRows DEF TableInv, HeadInv
<1>2. ASSUME NEW until \in Spans, BuildDataset(until) PROVE TableInv' /\ HeadInv'
  <2>1. CASE dataset # Nothing
    BY <1>1, <1>2, <2>1 DEF BuildDataset
  <2>2. CASE dataset = Nothing
    <3>1. table' = [span \in Spans |-> LabelledRows(span)] /\ now >= SensorEnd
      BY <1>2, <2>2, TimesAre DEF BuildDataset, Over
    <3>2. ASSUME NEW span \in Spans
          PROVE  /\ DOMAIN (table'[span]) = RowStarts(span)
                 /\ \A s \in RowStarts(span) : table'[span][s] = LabelOf(Intervals(span), s)
      BY <3>1 DEF LabelledRows
    <3>3. TableInv'
      <4>1. \A span \in Spans : Rows(span)' = RowStarts(span)
        BY <3>2 DEF Rows
      <4> QED
        BY <4>1, RowsFinite DEF TableInv
    <3>4. HeadInv'
      <4>1. ASSUME NEW span \in Spans, Settle + Length < span
            PROVE  Settle \in DOMAIN (table'[span]) /\ table'[span][Settle] = None
        <5>1. span \in 1..SensorEnd
          BY SpansType
        <5> QED
          BY <3>1, <3>2, <4>1, <5>1, HeadRow
      <4> QED
        BY <4>1 DEF HeadInv, Rows
    <3> QED
      BY <3>3, <3>4
  <2> QED
    BY <2>1, <2>2
<1> QED
  BY <1>1, <1>2
  DEF ReleaseNext, releaseVars, release, StartTraining, SaveModel, SaveManifest, TrainingDies, WriteReport,
      ReadModel, ReadManifest, ServiceRestarts

\* "Both detectors fit on the same normal-train windows and score the same
\* evaluation set" (notebook 04): they do if notebook 02 came to its end on the
\* dataset that notebook 04 reads; and a detector that was trained on that
\* dataset is evaluated on every row that it was not trained on and on no
\* other, among them normal ones and every row of every kind of fault.  The
\* script has to begin with more than a window of normal time, and the spans
\* to hold it.
THEOREM ReportsAreFair ==
  ASSUME WellSpaced(Schedule), Roomy(Schedule), \A span \in Spans : Settle + Length < span
  PROVE  ReleaseSpec => []ReportIsFair
<1> DEFINE Inv == ReleaseTypes /\ TrainedInv /\ ReportInv /\ TableInv /\ HeadInv
<1>1. ReleaseInit => Inv
  BY ReleaseStarts DEF ReleaseInit, ReportInv, TableInv, HeadInv
<1>2. RunInv /\ Inv /\ [ReleaseNext]_releaseVars => Inv'
  BY TypesNext, TrainedNext, ReportNext, TablesNext
<1>3. ASSUME Inv PROVE ReportIsFair
  <2>1. report # Nothing => Normals(report.data) # {}
    <3>1. SUFFICES ASSUME report # Nothing PROVE Normals(report.data) # {}
      OBVIOUS
    <3>2. PICK d \in Spans : d = report.data /\ dataset # Nothing
      BY <1>3, <3>1 DEF ReportInv
    <3>3. Settle \in Rows(d) /\ table[d][Settle] = None
      BY <1>3, <3>2 DEF HeadInv
    <3> QED
      BY <3>2, <3>3 DEF Normals
  <2> QED
    BY <1>3, <2>1, FairWithNormals
<1>4. Inv => ReportIsFair
  BY <1>3
<1>5. ReleaseSpec => []RunInv
  BY RunAlways
<1> QED
  BY <1>1, <1>2, <1>4, <1>5, PTL DEF ReleaseSpec

=============================================================================
