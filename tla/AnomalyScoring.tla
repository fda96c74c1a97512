--------------------------- MODULE AnomalyScoring ---------------------------
(***************************************************************************)
(* anomaly_svc: telemetry folds into a rolling window (window.py) as it is *)
(* read, and a second task scores the window once per hop and publishes    *)
(* the score (consumer.py).  The tasks share the window, which outlives    *)
(* their connection; a TaskGroup ends both when one of them fails.         *)
(*                                                                         *)
(* The bridge sends a sample as one QoS 0 message per channel, sample      *)
(* after sample: a message may be lost or late, none overtakes another.    *)
(***************************************************************************)
EXTENDS Naturals, FiniteSetsExt, Functions

CONSTANTS Channels,       \* 1..n, in the order the bridge sends them
          Stamps,         \* 1..n, the samples taken, named by their stamps
          Length,         \* WINDOW_LENGTH_NS
          Hop,            \* WINDOW_HOP_NS
          NoScore,        \* nothing published yet
          MaxFailures,    \* bound: lost connections and restarts
          Horizon         \* bound: the clock stops here

ASSUME TelemetryType == Channels \subseteq Nat \ {0} /\ Channels # {} /\ Stamps \subseteq Nat \ {0}
ASSUME TimesType == Length \in Nat /\ Hop \in Nat \ {0} /\ Horizon \in Nat
ASSUME FailuresType == MaxFailures \in Nat

VARIABLES
  now,        \* the clock
  scorer,     \* the artefact: "none", "mismatch" of features version, or "match"
  conn,       \* "backoff", "up", or "dead": lost, and no task knows it yet
  mqtt,       \* what readiness() says of the broker
  lastRead,   \* the last message read
  samples,    \* _samples: the channels held, by stamp
  recv,       \* _recv_ns: when the first of them was read
  wake,       \* the score loop sleeps until then
  score,      \* the last score published
  heard,      \* history: every channel read since the start, and when the first was
  failures    \* failures so far

vars == <<now, scorer, conn, mqtt, lastRead, samples, recv, wake, score, heard, failures>>

\* One field of one joint (its topic) at one instant.
Message == [stamp: Stamps, channel: Channels]

NothingRead == [stamp |-> 0, channel |-> 0]

\* A score names the samples of its window, where the window ends, and the
\* artefact: whether it was trained on the features it is used with.
Scores == [stamps: (SUBSET Stamps) \ {{}}, end: Nat \ {0}, by: {"mismatch", "match"}]

TypeOK ==
  /\ now \in 0..Horizon
  /\ scorer \in {"none", "mismatch", "match"}
  /\ conn \in {"backoff", "up", "dead"}
  /\ mqtt \in BOOLEAN
  /\ lastRead \in Message \union {NothingRead}
  /\ DOMAIN samples \subseteq Stamps /\ \A s \in DOMAIN samples : samples[s] \subseteq Channels
  /\ recv \in [DOMAIN samples -> 0..Horizon]
  /\ wake \in Nat
  /\ score \in Scores \union {NoScore}
  /\ heard \in [Stamps -> [got: SUBSET Channels, first: 0..Horizon]]
  /\ failures \in 0..MaxFailures

\* A window that holds nothing.
Empty == <<>>

NothingHeard == [s \in Stamps |-> [got |-> {}, first |-> 0]]

\* The artefact is loaded once; a service without one stays up (load_scorer).
Init ==
  /\ now = 0
  /\ scorer \in {"none", "mismatch", "match"}
  /\ conn = "backoff"
  /\ mqtt = FALSE
  /\ lastRead = NothingRead
  /\ samples = Empty
  /\ recv = Empty
  /\ wake = 0
  /\ score = NoScore
  /\ heard = NothingHeard
  /\ failures = 0

Tick ==
  /\ now < Horizon
  /\ now' = now + 1
  /\ UNCHANGED <<scorer, conn, mqtt, lastRead, samples, recv, wake, score, heard, failures>>

-----------------------------------------------------------------------------
\* AnomalyWindow

\* Mutant: pruning by telemetry time, a sample per clock unit.
FreshByStamp(held) == {s \in DOMAIN held : s + Length >= Max(DOMAIN held)}

\* _prune keeps what began to arrive a window's length ago at most.
Fresh(held) == {s \in DOMAIN held : held[s] + Length >= now}

Put(f, s, v) == [x \in DOMAIN f \union {s} |-> IF x = s THEN v ELSE f[x]]

\* Mutant: a sample is as young as its last channel.
ObserveAsLatest(m) ==
  LET held == Put(recv, m.stamp, now)
      got  == IF m.stamp \in DOMAIN samples THEN samples[m.stamp] ELSE {}
  IN  /\ samples' = Restrict(Put(samples, m.stamp, got \union {m.channel}), Fresh(held))
      /\ recv' = Restrict(held, Fresh(held))

Observe(m) ==
  LET held == IF m.stamp \in DOMAIN recv THEN recv ELSE Put(recv, m.stamp, now)
      got  == IF m.stamp \in DOMAIN samples THEN samples[m.stamp] ELSE {}
  IN  /\ samples' = Restrict(Put(samples, m.stamp, got \union {m.channel}), Fresh(held))
      /\ recv' = Restrict(held, Fresh(held))

Prune ==
  /\ samples' = Restrict(samples, Fresh(recv))
  /\ recv' = Restrict(recv, Fresh(recv))

\* to_window: the samples that are fresh and have all their channels.
ToWindow == {s \in Fresh(recv) : samples[s] = Channels}

-----------------------------------------------------------------------------
\* Consumer

Comes(m) ==
  \/ m.stamp > lastRead.stamp
  \/ m.stamp = lastRead.stamp /\ m.channel > lastRead.channel

\* _read, _observe: the next message that was not lost.
Read(m) ==
  /\ conn # "backoff"
  /\ Comes(m)
  /\ lastRead' = m
  /\ Observe(m)
  /\ heard' = [heard EXCEPT ![m.stamp] =
                 [got |-> @.got \union {m.channel}, first |-> IF @.got = {} THEN now ELSE @.first]]
  /\ UNCHANGED <<now, scorer, conn, mqtt, wake, score, failures>>

\* score_window: the end is dated to the last sample of which something came.
ScoreOf(held) == [stamps |-> held, end |-> lastRead.stamp + 1, by |-> scorer]

LoopWakes == conn # "backoff" /\ now >= wake

\* Nothing to score, or nothing to score it with.
LoopSkips ==
  /\ LoopWakes
  /\ scorer = "none" \/ ToWindow = {}
  /\ IF scorer = "none" THEN UNCHANGED <<samples, recv>> ELSE Prune
  /\ wake' = now + Hop
  /\ UNCHANGED <<now, scorer, conn, mqtt, lastRead, score, heard, failures>>

\* Mutant: an empty window is scored as well.
LoopScoresAll ==
  /\ LoopWakes /\ conn = "up"
  /\ scorer # "none"
  /\ Prune
  /\ score' = ScoreOf(ToWindow)
  /\ wake' = now + Hop
  /\ UNCHANGED <<now, scorer, conn, mqtt, lastRead, heard, failures>>

\* _score_loop publishes the score of the window, dated to its end.
LoopScores ==
  /\ LoopWakes /\ conn = "up"
  /\ scorer # "none" /\ ToWindow # {}
  /\ Prune
  /\ score' = ScoreOf(ToWindow)
  /\ wake' = now + Hop
  /\ UNCHANGED <<now, scorer, conn, mqtt, lastRead, heard, failures>>

Connect ==
  /\ conn = "backoff"
  /\ conn' = "up"
  /\ mqtt' = TRUE
  /\ wake' = now + Hop
  /\ UNCHANGED <<now, scorer, lastRead, samples, recv, score, heard, failures>>

\* Mutant: the reader's messages end without an exception.
ReaderEnds == FALSE /\ UNCHANGED vars

\* The reader finds the connection lost once it has read what had arrived:
\* its exception ends both tasks, and run() connects again.
ReaderFails ==
  /\ conn = "dead"
  /\ conn' = "backoff"
  /\ mqtt' = FALSE
  /\ UNCHANGED <<now, scorer, lastRead, samples, recv, wake, score, heard, failures>>

\* The score loop finds it lost when it has a score to publish.
LoopFails ==
  /\ LoopWakes /\ conn = "dead"
  /\ scorer # "none" /\ ToWindow # {}
  /\ Prune
  /\ conn' = "backoff"
  /\ mqtt' = FALSE
  /\ UNCHANGED <<now, scorer, lastRead, wake, score, heard, failures>>

CountFailure == failures < MaxFailures /\ failures' = failures + 1

LinkLost ==
  /\ conn = "up" /\ CountFailure
  /\ conn' = "dead"
  /\ UNCHANGED <<now, scorer, mqtt, lastRead, samples, recv, wake, score, heard>>

\* A restart loads the artefact again, or another one that was put in its
\* place, and begins with an empty window.
Restart ==
  /\ CountFailure
  /\ conn' = "backoff"
  /\ mqtt' = FALSE
  /\ samples' = Empty
  /\ recv' = Empty
  /\ heard' = NothingHeard
  /\ scorer' \in {"none", "mismatch", "match"}
  /\ UNCHANGED <<now, lastRead, wake, score>>

-----------------------------------------------------------------------------
\* What readiness says of the model: present, and of our features version.
ModelReady == scorer = "match"

\* /healthz/ready answers 200.
Ready == mqtt /\ ModelReady

-----------------------------------------------------------------------------
Next ==
  \/ Tick
  \/ \E m \in Message : Read(m)
  \/ LoopSkips
  \/ LoopScores
  \/ Connect
  \/ ReaderFails
  \/ LoopFails
  \/ LinkLost
  \/ Restart

Spec == Init /\ [][Next]_vars

\* The event loop runs the tasks that can run.
FairSpec == Spec /\ WF_vars(LoopSkips \/ LoopScores) /\ WF_vars(Connect)
            /\ WF_vars(ReaderFails) /\ WF_vars(LoopFails)

-----------------------------------------------------------------------------
\* Safety.

\* What is scored next is exactly the samples of which every channel arrived
\* and the first at most a window's length ago, whatever was lost, late or
\* read around an outage: "a silent stream ages the window toward empty".
WindowExact == ToWindow = {s \in Stamps : heard[s].got = Channels /\ heard[s].first + Length >= now}

\* A service with an artefact of another features version "stays alive but
\* not ready - it never serves silently-wrong scores" (main.py).
OnlyReadyScores == score # NoScore => score.by = "match"

-----------------------------------------------------------------------------
\* Liveness.

\* A lost broker shows in /healthz/ready, whichever task finds out.
BrokerLossShows == conn = "dead" ~> ~Ready
=============================================================================
