----------------------------- MODULE ScriptedRun -----------------------------
(***************************************************************************)
(* scripts/collect.py and scripts/demo.py: a scripted schedule of faults   *)
(* against the real fault_worker.  A schedule loop publishes a command at  *)
(* each fault's segment, a sensor loop passes samples through the session, *)
(* and anomaly_svc scores what is left of them; the demo then judges the   *)
(* scores segment by segment.  What a detector makes of a window is left   *)
(* out (it misses faults and flags clean windows, as EVALUATION.md counts  *)
(* them): the model says of what data the scores are that are judged.      *)
(*                                                                         *)
(* The clock unit is half a second: WINDOW_HOP_NS, and one sample stands   *)
(* for a unit's.  The scripts neither expect nor handle a failure, so the  *)
(* injector is FaultInjector without failures, and every task does within  *)
(* a unit what it has to do in it.  A unit's sample is taken last: what    *)
(* begins in the unit perturbs it, and what ends in the unit does not.  It *)
(* reaches the service within its unit, so that pruning by arrival is      *)
(* pruning by time.                                                        *)
(***************************************************************************)
EXTENDS FaultInjector, SequencesExt

CONSTANTS Schedule,       \* SCHEDULE: a fault or "none", its joint or "all", its seconds
          Latency,        \* bound: units from a command's publication to its arrival
          Length,         \* WINDOW_LENGTH_NS, the demo's LAG_S
          Trail,          \* how long the sensor outlasts the schedule
          Drain,          \* how long the script then waits for the last scores
          Rank            \* the order in which the database answers its tables

Settle == 1               \* "let the worker subscribe before the first command"

FaultSegments == {i \in DOMAIN Schedule : Schedule[i].kind # "none"}

ASSUME ScheduleType == Schedule \in Seq([kind: STRING, joint: STRING, secs: Nat \ {0}])
ASSUME TimesType == Latency \in Nat /\ Length \in Nat \ {0} /\ Trail \in Nat /\ Drain \in Nat \ {0}

\* A command is named by the number of its segment.
ASSUME CommandsType ==
  /\ Commands = FaultSegments
  /\ \A c \in Commands : Duration[c] = 2 * Schedule[c].secs

\* A fault is followed by a normal stretch that outlasts the command's delay
\* and the heartbeat that ends the fault.
WellSpaced(schedule) ==
  \A i \in DOMAIN schedule :
    schedule[i].kind # "none" =>
      /\ i + 1 \in DOMAIN schedule /\ schedule[i + 1].kind = "none"
      /\ 2 * schedule[i + 1].secs > Latency + Period + Length

\* The script begins with more than a window of normal time, and each fault
\* outlasts the command's delay by a window.
Roomy(schedule) ==
  \A i \in DOMAIN schedule :
    /\ i = 1 => 2 * schedule[i].secs > Length
    /\ schedule[i].kind # "none" => i > 1 /\ 2 * schedule[i].secs >= Latency + Length

\* An entry of a schedule.
Seg(kind, joint, secs) == [kind |-> kind, joint |-> joint, secs |-> secs]

CollectSchedule == <<
  Seg("none", "all", 8),     Seg("friction", "all", 8),
  Seg("none", "all", 5),     Seg("encoder", "elbow_joint", 8),
  Seg("none", "all", 5),     Seg("stuck", "elbow_joint", 8),
  Seg("none", "all", 5),     Seg("dropout", "all", 6),
  Seg("none", "all", 6),     Seg("friction", "elbow_joint", 7),
  Seg("none", "all", 5),     Seg("encoder", "all", 7),
  Seg("none", "all", 5),     Seg("stuck", "wrist_1_joint", 7),
  Seg("none", "all", 5),     Seg("dropout", "all", 5),
  Seg("none", "all", 8) >>

DemoSchedule == <<
  Seg("none", "all", 7),     Seg("friction", "all", 7),
  Seg("none", "all", 6),     Seg("encoder", "all", 8),
  Seg("none", "all", 6),     Seg("stuck", "elbow_joint", 7),
  Seg("none", "all", 6),     Seg("dropout", "all", 6),
  Seg("none", "all", 7) >>

ASSUME SchedulesAreSpaced ==
  \A schedule \in {CollectSchedule, DemoSchedule} : WellSpaced(schedule) /\ Roomy(schedule)

VARIABLES
  segment,    \* the segment the schedule loop is in; 0 before it starts
  start,      \* when the segment began
  sent,       \* the commands on their way to the injector
  windows,    \* the segments that are over
  samples,    \* by time: the command whose fault the sample went through
  scores      \* by time: the samples of the window scored, none if it was not

run == <<segment, start, sent, windows, samples, scores>>

runVars == <<vars, run>>

RunInit ==
  /\ Init
  /\ segment = 0
  /\ start = 0
  /\ sent = {}
  /\ windows = <<>>
  /\ samples = <<>>
  /\ scores = <<>>

-----------------------------------------------------------------------------
\* The schedule.

Secs(i) == IF i \in DOMAIN Schedule THEN Schedule[i].secs ELSE 0

\* The time of the first n segments.
Elapsed ==
  LET upto[n \in 0..Len(Schedule)] == IF n = 0 THEN 0 ELSE upto[n - 1] + 2 * Schedule[n].secs
  IN  upto

RunTime == Elapsed[Len(Schedule)]

SensorEnd == Settle + RunTime + Trail

End == SensorEnd + Drain

SegmentEnds == now >= (IF segment = 0 THEN Settle ELSE start + 2 * Secs(segment))

\* The segment that is over, if one was begun.
Ended == IF segment = 0 THEN <<>>
         ELSE <<[kind |-> Schedule[segment].kind, of |-> segment, start |-> start, end |-> now]>>

\* Mutant: only faults are waited for.
NextSegmentAfterFault ==
  /\ segment <= Len(Schedule)
  /\ IF segment \in FaultSegments \union {0} THEN SegmentEnds ELSE now > start
  /\ windows' = windows \o Ended
  /\ segment' = segment + 1
  /\ start' = now
  /\ sent' = sent \union {[cmd |-> c, at |-> now] : c \in {segment + 1} \intersect FaultSegments}
  /\ UNCHANGED <<vars, samples, scores>>

\* schedule_loop: the end of a segment's sleep and, without a pause, the
\* beginning of the next segment.
NextSegment ==
  /\ segment <= Len(Schedule) /\ SegmentEnds
  /\ windows' = windows \o Ended
  /\ segment' = segment + 1
  /\ start' = now
  /\ sent' = sent \union {[cmd |-> c, at |-> now] : c \in {segment + 1} \intersect FaultSegments}
  /\ UNCHANGED <<vars, samples, scores>>

\* After the unit's sample it is the next unit's business.
CommandArrives ==
  \E s \in sent :
    /\ Len(samples) < now
    /\ Deliver(s.cmd)
    /\ sent' = sent \ {s}
    /\ UNCHANGED <<segment, start, windows, samples, scores>>

WorkerConnects == Connect /\ UNCHANGED run

InjectorRuns == (Listener \/ Beater \/ BrokerReceives) /\ UNCHANGED run

\* No task has anything left to do in this unit.
Quiet ==
  /\ ~(SegmentEnds /\ segment <= Len(Schedule))
  /\ now >= Settle => conn = "up"
  /\ \A s \in sent : now < s.at + Latency
  /\ inbox = <<>> /\ listener.at = "waiting"
  /\ beater.at = "sleeping" /\ (conn = "up" => now < beater.wake)
  /\ received = Len(stream)

-----------------------------------------------------------------------------
\* Samples and scores.

\* sensor_loop takes a sample; a drop-out lets none through.
SensorSamples ==
  /\ Settle <= now /\ now < SensorEnd /\ Quiet
  /\ Len(samples) < now
  /\ samples' = Append(samples, session.command)
  /\ UNCHANGED <<vars, segment, start, sent, windows, scores>>

Through(t) == samples[t] = None \/ Schedule[samples[t]].kind # "dropout"

Held(t) == {u \in (t - Length)..(t - 1) : u \in DOMAIN samples /\ Through(u)}

\* Mutant: a window with a sample missing is not scored.
ScoreArrivesWhenFull ==
  /\ Quiet /\ Len(scores) < now /\ now < End
  /\ scores' = Append(scores, IF Cardinality(Held(now)) = Length THEN Held(now) ELSE {})
  /\ UNCHANGED <<vars, segment, start, sent, windows, samples>>

\* collect_scores: the score of a hop arrives, unless its window was empty.
ScoreArrives ==
  /\ Quiet /\ Len(scores) < now /\ now < End
  /\ scores' = Append(scores, Held(now))
  /\ UNCHANGED <<vars, segment, start, sent, windows, samples>>

TimePasses ==
  /\ Quiet /\ now < End
  /\ Len(scores) = now
  /\ now \in Settle..(SensorEnd - 1) => Len(samples) = now
  /\ Tick
  /\ UNCHANGED run

RunNext ==
  \/ WorkerConnects
  \/ NextSegment
  \/ CommandArrives
  \/ InjectorRuns
  \/ SensorSamples
  \/ ScoreArrives
  \/ TimePasses

\* main() has cancelled its tasks.
Over == now = End

-----------------------------------------------------------------------------
\* A fault runs its course: it is ended by the heartbeat after its time, not
\* by its successor, and the broker knows before the next fault is published.
\* The scripts never wait for that, they count on the normal segments.
FaultsRunTheirCourse ==
  /\ \A i \in DOMAIN stream :
       ~stream[i].active =>
         stream[i].stamp - stream[i].started \in
           Duration[stream[i].id]..(Duration[stream[i].id] + Period)
  /\ \A i \in DOMAIN windows :
       windows[i].of \in FaultSegments /\ i < Len(windows) =>
         \E j \in DOMAIN Wire : Wire[j].id = windows[i].of /\ ~Wire[j].active

\* Mutant: a normal segment's tail is included too.
JudgedWithTail(w) ==
  LET from == IF w.kind = "none" THEN w.start + Length ELSE w.start
  IN  {t \in from..(w.end + Length) : scores[t] # {}}

\* evaluate(): the scores that count for a segment.  A normal segment's head
\* is skipped and a fault's tail is included.
Judged(w) ==
  LET from == IF w.kind = "none" THEN w.start + Length ELSE w.start
      to   == IF w.kind = "none" THEN w.end ELSE w.end + Length
  IN  {t \in from..to : scores[t] # {}}

Segments == {windows[i] : i \in DOMAIN windows}

\* The samples that the window before t should have, and those it lacks.
WindowAt(t) == (t - Length)..(t - 1)

Lost(t) == WindowAt(t) \ scores[t]

\* "A window must fill with fault data before it can show it" (demo.py): each
\* fault gets a score, among those judged for it, of a window that is all its
\* own; a drop-out one of a window that it has half emptied at least, though
\* most of its windows are never scored, and that lacks nothing else.
FaultsShow ==
  Over => \A w \in Segments : w.kind # "none" =>
    \E t \in Judged(w) :
      IF w.kind = "dropout"
        THEN 2 * Cardinality(Lost(t)) >= Length /\ \A u \in Lost(t) : samples[u] = w.of
        ELSE Lost(t) = {} /\ \A u \in WindowAt(t) : samples[u] = w.of

\* A window judged for a normal segment is clean, or it holds data of the fault
\* before and of no other, which outlives its segment by the command's delay
\* and up to a heartbeat.  "Skip the post-fault lag at the segment head, where
\* the window still holds the previous fault's data" (demo.py): the head that
\* is skipped is too short for that by as much, and by no more.
NormalsJudgedClean ==
  Over => \A w \in Segments : w.kind = "none" =>
    \A t \in Judged(w) :
      \/ Lost(t) = {} /\ \A u \in WindowAt(t) : samples[u] = None
      \/ /\ t < w.start + Latency + Period + Length - 1
         /\ \A u \in WindowAt(t) : samples[u] \in {None, w.of - 1}

-----------------------------------------------------------------------------
\* The dataset of the run (`just dataset` over its span).

\* Half a second outlasts the digits that the query cuts off.
Whole(t) == t

Archive ==
  INSTANCE FaultDataset WITH
    Joint <- [c \in Commands |-> Schedule[c].joint], AllJoints <- "all",
    Kind <- [c \in Commands |-> Schedule[c].kind], NoKind <- "none",
    ToNs <- Whole

ASSUME RankType == Rank \in Archive!TableOrders

\* What the database has of the labels before a time: the scripts lose none.
Stored(until) == {l \in {Wire[i] : i \in DOMAIN Wire} : l.stamp < until}

\* The intervals of a span, in an order of the query's own.
Intervals(until) == SetToSeq(Archive!FaultIntervals(Stored(until), Rank))

Corpus ==
  INSTANCE TrainingTable WITH
    Hop <- 1, Instants <- Nat, IntervalLists <- {},
    stamps <- {}, intervals <- <<>>, start <- 0, rows <- <<>>

\* The samples of a span.
Telemetry(until) == {t \in DOMAIN samples : t < until /\ Through(t)}

\* The rows of a span's dataset, by their windows' starts: the last window
\* ends at the last sample recorded.  The median distance of the samples is
\* one unit: most are followed at once.
RowStarts(until) ==
  LET seen == Telemetry(until)
      faults == Intervals(until)
  IN  IF seen = {} THEN {}
      ELSE {s \in Min(seen)..(Max(seen) - Length) :
              Corpus!Keeps(Length \div 2, Cardinality({t \in s..(s + Length - 1) : t \in seen}),
                           Corpus!Owner(faults, s))}

\* The id of the fault that a list of faults labels a row with.
LabelOf(faults, s) ==
  LET owner == Corpus!Owner(faults, s)
  IN  IF owner = Corpus!NoFault THEN None ELSE owner.id

\* Fault c's data at time t is after all that a span's labels say of it: the
\* last of them is a heartbeat, less than a period before.  The closing label
\* was cut off with the span, or its table is read before the fault's own.
Outlived(until, c, t) ==
  LET said == {l \in Stored(until) : l.id = c} IN
  /\ \A l \in said : IF l.active THEN l.stamp <= t
                     ELSE Rank[Archive!Tags(l)] < Rank[[joint |-> Schedule[c].joint, kind |-> Schedule[c].kind]]
  /\ \E l \in said : l.active /\ t < l.stamp + Period

\* How honest the corpus is, whatever span it is made of and whatever order
\* the tables come in: a row labelled with a fault has a sample that went
\* through that fault, or was dropped by it; and a row labelled normal has all
\* its samples ("so the only empty windows are the labelled drop-outs",
\* collect.py) and none went through a fault, except for what a fault does
\* after its last heartbeat where its closing label does not count.  The label
\* is read off times that the injector's tasks took, the samples off the
\* sensor loop's.
RowsHonest ==
  now = SensorEnd => \A until \in 1..SensorEnd : \A s \in RowStarts(until) :
    LET span  == s..(s + Length - 1)
        label == LabelOf(Intervals(until), s)
    IN  IF label = None
          THEN \A t \in span : samples[t] # None => Outlived(until, samples[t], t)
          ELSE \E t \in span : samples[t] = label
=============================================================================
