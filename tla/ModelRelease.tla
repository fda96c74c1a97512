---------------------------- MODULE ModelRelease ----------------------------
(***************************************************************************)
(* What becomes of a run: `just dataset` (data_pipeline/cli.py) makes a    *)
(* parquet file of it, notebook 02 trains the two detectors and saves each *)
(* as a pair of files, notebook 04 reports on the pairs, and anomaly_svc   *)
(* loads the served pair when it starts.                                   *)
(*                                                                         *)
(* Notebooks run from top to bottom, one at a time.  The dataset may be    *)
(* built anew over another span at any time, notebook 02 may die anywhere, *)
(* and the service starts whenever it likes, also between two files.       *)
(* Training is deterministic (a fixed seed, a split by time), so the span  *)
(* that a dataset was made of stands for the dataset, for the model that   *)
(* is trained on it and for the threshold that is chosen on it.            *)
(***************************************************************************)
EXTENDS ScriptedRun

CONSTANTS Spans,          \* the ends (--until) of the spans a dataset may be made of
          MaxBuilds,      \* bound: datasets built
          MaxDeaths,      \* bound: deaths of notebook 02
          Nothing         \* no file, nothing loaded

ASSUME SpansType == Spans \subseteq 1..SensorEnd /\ Nothing \notin Spans

\* Notebook 02 saves the rule first.
Stems == <<"rule", "forest">>

\* The files of a detector: <stem>.joblib and <stem>.json.
NoPair == [model |-> Nothing, manifest |-> Nothing]

VARIABLES
  table,      \* by span: the labels of its rows, by the starts of their windows
  dataset,    \* train-<version>.parquet
  builds,     \* how often it was built
  trainer,    \* notebook 02: its data, and how many files it has saved
  pairs,      \* models/: the files of each detector
  report,     \* EVALUATION.md: what it was made of
  service,    \* anomaly_svc: "down", "half" (the model is read), "up", or "none"
  served,     \* the pair it has read
  deaths,     \* how often notebook 02 died
  trained,    \* history: the data of notebook 02's last run, if it came to its end
  cut,        \* history: a death left the served pair half saved
  torn        \* history: the service read the pair while it was being saved, or cut

release == <<table, dataset, builds, trainer, pairs, report, service, served, deaths, trained, cut, torn>>

releaseVars == <<runVars, release>>

Idle == [data |-> Nothing, saved |-> 0]

ReleaseInit ==
  /\ RunInit
  /\ table = <<>>
  /\ dataset = Nothing
  /\ builds = 0
  /\ trainer = Idle
  /\ pairs = [stem \in {Stems[i] : i \in DOMAIN Stems} |-> NoPair]
  /\ report = Nothing
  /\ service = "down"
  /\ served = NoPair
  /\ deaths = 0
  /\ trained = Nothing
  /\ cut = FALSE
  /\ torn = FALSE

-----------------------------------------------------------------------------
\* The rows of a dataset.

Rows(span) == DOMAIN table[span]

Normals(span) == {s \in Rows(span) : table[span][s] = None}

FaultRows(span) == Rows(span) \ Normals(span)

\* Mutant: notebook 02 rounds its share up.
TrainRowsRoundedUp(span) ==
  LET normal == Normals(span)
  IN  {s \in normal : 10 * Cardinality({u \in normal : u < s}) <= 7 * Cardinality(normal)}

\* The earliest 70 % of the normal rows: what notebook 02 trains on.
TrainRows(span) ==
  LET normal == Normals(span)
  IN  {s \in normal : 10 * Cardinality({u \in normal : u <= s}) <= 7 * Cardinality(normal)}

\* Mutant: notebook 04 evaluates the last fifth of the normal rows.
EvalRowsOfFifth(span) ==
  LET normal == Normals(span)
  IN  FaultRows(span) \union
        {s \in normal : 10 * Cardinality({u \in normal : u <= s}) > 8 * Cardinality(normal)}

\* Notebook 04 makes the split anew: the other normal rows and all faults.
EvalRows(span) ==
  LET normal == Normals(span)
  IN  FaultRows(span) \union
        {s \in normal : 10 * Cardinality({u \in normal : u <= s}) > 7 * Cardinality(normal)}

\* evaluate(): the faulty rows of each kind, the denominators of the recall.
SupportByKind(span, rows) ==
  LET KindOf(s) == Schedule[table[span][s]].kind
      faulty == {s \in rows : table[span][s] # None}
  IN  [k \in {KindOf(s) : s \in faulty} |-> Cardinality({s \in faulty : KindOf(s) = k})]

\* build_table: the rows of a span, each with its label.
LabelledRows(span) ==
  LET faults == Intervals(span)
  IN  [s \in RowStarts(span) |-> LabelOf(faults, s)]

-----------------------------------------------------------------------------
\* `just dataset`: writes over the file of an earlier span, unless there is
\* no telemetry in its own.  With the run over, the rows of every span are fixed.
BuildDataset(span) ==
  /\ Over /\ builds < MaxBuilds
  /\ Telemetry(span) # {}
  /\ table' = IF dataset = Nothing THEN [t \in Spans |-> LabelledRows(t)] ELSE table
  /\ dataset' = span
  /\ builds' = builds + 1
  /\ UNCHANGED <<runVars, trainer, pairs, report, service, served, deaths, trained, cut, torn>>

\* Notebook 02 begins: it reads the dataset, and splits it.
StartTraining ==
  /\ dataset # Nothing /\ trainer = Idle
  /\ trainer' = [data |-> dataset, saved |-> 0]
  /\ trained' = Nothing
  /\ UNCHANGED <<runVars, table, dataset, builds, pairs, report, service, served, deaths, cut, torn>>

Training == trainer.data # Nothing

\* The detector whose turn it is, and whether its model is saved already.
Current == Stems[trainer.saved \div 2 + 1]

HalfSaved == trainer.saved % 2 = 1

\* save_detector: a fitted model, and then its manifest with the threshold
\* that was chosen on the held-out normal rows.
SaveModel ==
  /\ Training /\ ~HalfSaved
  /\ pairs' = [pairs EXCEPT ![Current].model = trainer.data]
  /\ trainer' = [trainer EXCEPT !.saved = @ + 1]
  /\ torn' = (torn \/ (service = "half" /\ Current = "forest"))
  /\ UNCHANGED <<runVars, table, dataset, builds, report, service, served, deaths, trained, cut>>

\* After the last manifest the notebook is at its end.
AfterManifest ==
  /\ trainer' = IF Current = "forest" THEN Idle ELSE [trainer EXCEPT !.saved = @ + 1]
  /\ trained' = IF Current = "forest" THEN trainer.data ELSE trained
  /\ cut' = (cut /\ Current # "forest")

\* Mutant: a manifest that is there already is kept.
SaveManifestOnce ==
  /\ Training /\ HalfSaved
  /\ pairs' = [pairs EXCEPT ![Current].manifest = IF @ = Nothing THEN trainer.data ELSE @]
  /\ AfterManifest
  /\ UNCHANGED <<runVars, table, dataset, builds, report, service, served, deaths, torn>>

SaveManifest ==
  /\ Training /\ HalfSaved
  /\ pairs' = [pairs EXCEPT ![Current].manifest = trainer.data]
  /\ AfterManifest
  /\ UNCHANGED <<runVars, table, dataset, builds, report, service, served, deaths, torn>>

TrainingDies ==
  /\ Training /\ deaths < MaxDeaths
  /\ deaths' = deaths + 1
  /\ trainer' = Idle
  /\ cut' = (cut \/ (HalfSaved /\ Current = "forest"))
  /\ UNCHANGED <<runVars, table, dataset, builds, pairs, report, service, served, trained, torn>>

\* Notebook 04 reads the dataset and both pairs, and writes the comparison.
WriteReport ==
  /\ dataset # Nothing /\ ~Training
  /\ \A stem \in DOMAIN pairs : Nothing \notin {pairs[stem].model, pairs[stem].manifest}
  /\ report' = [data |-> dataset, planned |-> trained = dataset,
                support |-> SupportByKind(dataset, EvalRows(dataset)),
                models |-> [stem \in DOMAIN pairs |-> pairs[stem].model]]
  /\ UNCHANGED <<runVars, table, dataset, builds, trainer, pairs, service, served, deaths, trained, cut, torn>>

-----------------------------------------------------------------------------
\* anomaly_svc (load_scorer): a missing file leaves it up, without a model.
ReadModel ==
  /\ Over /\ service = "down"
  /\ service' = IF pairs["forest"].model = Nothing THEN "none" ELSE "half"
  /\ served' = [NoPair EXCEPT !.model = pairs["forest"].model]
  /\ torn' = (cut \/ (Training /\ HalfSaved /\ Current = "forest"))
  /\ UNCHANGED <<runVars, table, dataset, builds, trainer, pairs, report, deaths, trained, cut>>

ReadManifest ==
  /\ service = "half"
  /\ service' = IF pairs["forest"].manifest = Nothing THEN "none" ELSE "up"
  /\ served' = [served EXCEPT !.manifest = pairs["forest"].manifest]
  /\ UNCHANGED <<runVars, table, dataset, builds, trainer, pairs, report, deaths, trained, cut, torn>>

ServiceRestarts ==
  /\ service # "down"
  /\ service' = "down"
  /\ served' = NoPair
  /\ UNCHANGED <<runVars, table, dataset, builds, trainer, pairs, report, deaths, trained, cut, torn>>

ReleaseNext ==
  \/ RunNext /\ UNCHANGED release
  \/ \E span \in Spans : BuildDataset(span)
  \/ StartTraining
  \/ SaveModel
  \/ SaveManifest
  \/ TrainingDies
  \/ WriteReport
  \/ ReadModel
  \/ ReadManifest
  \/ ServiceRestarts

ReleaseSpec == ReleaseInit /\ [][ReleaseNext]_releaseVars

-----------------------------------------------------------------------------
\* A model and its operating point "are decided together but stored apart"
\* (base.py): the service never compares a model's scores with the threshold
\* of another training, whatever was trained, saved and restarted before,
\* unless it started around a save, or after one that was cut short; saving
\* again and starting again heals that.
ServedPairWhole == service = "up" /\ ~torn => served.manifest = served.model

\* "Both detectors fit on the same normal-train windows and score the same
\* evaluation set" (notebook 04): it does hold if notebook 02 came to its end
\* on the dataset that notebook 04 reads, whatever else was built and trained
\* before.  And a detector that was trained on that dataset is evaluated on
\* every row it was not trained on and on no other, among them normal ones and
\* every row of every kind of fault, although two notebooks make the split,
\* each for itself, and nothing checks the fingerprint.
ReportIsFair ==
  report # Nothing =>
    LET evaluated == EvalRows(report.data) IN
    /\ report.planned => \A stem \in DOMAIN pairs : report.models[stem] = report.data
    /\ \A stem \in DOMAIN pairs :
         report.models[stem] = report.data => Rows(report.data) \ TrainRows(report.models[stem]) = evaluated
    /\ report.support = SupportByKind(report.data, Rows(report.data))
    /\ \E s \in evaluated : table[report.data][s] = None

\* Built anew between the notebooks, over a span that is no shorter, a dataset
\* evaluates no row that a detector was trained on, although labels that the
\* first span cut off change rows of it.  Over a shorter span it may, and
\* notebook 04 would say of it what it says of every other.
LongerDataUnseen ==
  report # Nothing =>
    \A stem \in DOMAIN pairs :
      report.models[stem] <= report.data
        => TrainRows(report.models[stem]) \intersect EvalRows(report.data) = {}
=============================================================================
