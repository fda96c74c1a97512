# Verification of twin-anomaly

TLA+ specifications, TLC runs and TLAPS proofs for twin-anomaly, a digital
twin of a robot arm whose sensor path can be perturbed on purpose, so that the
perturbations can be recorded as ground truth, learned from, and detected.

* [The system](#the-system): inventory of components, and what makes each right
* [The modules](#the-modules): what each one models and how it maps to the code
* [The runs](#the-runs): what is checked, with which bounds and fairness
* [The proofs](#the-proofs): what is proved, and along which argument
* [Disagreements found](#disagreements-found)
* [Not modelled](#not-modelled)
* [Plan](#plan)

## The system

```
 ROS sim --/joint_states--> fault injector --ROS--> bridge --MQTT--+--> telemetry-svc -> InfluxDB
                               ^    |                  ^           |                        |
              inject CLI ------+    +--- fault/state --|-----------+                  data pipeline
              (fault/cmd)                              |           |                        |
                                          command-svc -+           +--> state-svc       detector
                                          (REST)                   |      | gRPC            |
                                                                   |    viz-svc -> browser  | model
                                                                   +--> anomaly-svc <-------+
                                                                          | scores (MQTT)
```

Every process is Python; each service is one asyncio event loop, so its tasks
interleave only where they await. Two processes add a thread: the injector and
the bridge run a ROS node beside the loop. Processes communicate by MQTT
(clean sessions, no retained messages; labels and commands QoS 1, the rest QoS
0), gRPC and HTTP. Services run under docker compose with
`restart: unless-stopped`; the injector is started by hand.

| Component (directory) | State | Operations | Hard behaviour | What makes it right |
|---|---|---|---|---|
| fault injector, label path (`fault-injector`: `session.py`, `main.py`) | the session: active command, start, deadline; the MQTT connection and the two tasks on it | take a command, clear, activate, heartbeat, expire, reconnect | two tasks publish around suspended publications; the session outlives connections, a restart does not keep it | each experiment's labels are contiguous, closed once, disjoint from the others'; a fault ends |
| fault injector, sensor path (`transforms.py`, ROS thread) | the transform in place, the frozen sample, the noise generator | apply to each sample | thread against event loop without a lock; an exception of a transform ends the thread | no sample is perturbed outside its labelled interval |
| inject CLI (`cli.py`) | none | publish one command, or a clear | broker away: it gives up | one fresh id per command |
| bridge (`bridge`) | a subscription of ten samples, a bounded queue of them, two connections, the ROS publisher | ROS callback, publish telemetry, forward commands | thread to loop hand-over, full queue during an outage, commands of several clients over outages | samples in order, commands forwarded in the order of their receipts |
| telemetry-svc (`services/telemetry-svc`) | readiness flags, the connection's queue, the database | connect, consume, validate, write | writes fail or half fail, labels missed while away | what is stored was said; readiness follows; the loop never dies |
| data pipeline (`data-pipeline`, `features`) | none kept | fetch rows, intervals, windows; build the table | row order, boundaries, ties, gaps | one interval per experiment, one label per window |
| detector (`detector`), notebooks 02 and 04, `just dataset` | a dataset, two files per detector, a report | build, split, fit, save, evaluate, load | two files saved one after the other, beside a service that loads them; two notebooks that must agree | a model is used with its own threshold; no row is both trained on and evaluated |
| `scripts/collect.py`, `demo.py`, `chaos.py` | a schedule, scores | inject by the clock, sample, judge; stop a service and wait for it | nothing waits for the injector | a fault is over before its successor; what is judged for a segment is of that segment's data; labels tell what the samples went through |
| anomaly-svc | samples under assembly and their arrivals, the scorer, readiness | observe, prune, score every hop, publish | lost and late channels, a window that outlives its connection, two tasks on one connection | what is scored is exactly what arrived complete and in time |
| state-svc | the latest sample per joint, subscribers' mailboxes | observe, broadcast, subscribe | torn snapshots, slow subscribers | states in order, the latest not lost |
| viz-svc | the upstream gRPC stream | one stream per browser | reconnects, clients that leave | frames in order |
| command-svc | the broker connection, requests waiting for their acknowledgement | POST /command, connect, readiness | requests that outlive a connection, late time-outs | 202 only for a published command, an answer for each request |
| contracts | none | validation | | what is on the wire is valid |

`PROJECT.json` lists the components with their sources and status, the hazards
line by line, and every property that watches over one.

## The modules

| Module | Models | From |
|---|---|---|
| `FaultLabels` | labels, and what makes a sequence of them readable | `contracts/detection.py` |
| `LabelStream` | the promise of the injector to whoever records its labels | abstract |
| `FaultSession` | the session's methods | `fault_injector/session.py` |
| `FaultInjector` | the listener, the heartbeat loop and the worker; implements `LabelStream` | `fault_injector/main.py` |
| `FaultDataset` | rows of labels, and the fold that turns them into intervals | `ingest.py` `_fault_point`, `query.py` `fetch_fault_intervals` |
| `LabelArchive` | telemetry-svc's loop, fed by any stream `LabelStream` allows | `telemetry_svc/ingest.py` |
| `CommandPublisher` | command-svc: the connection task and concurrent requests | `command_svc/publisher.py`, `api.py` |
| `CommandPath` | `CommandPublisher`, the broker, and the bridge's command worker | `bridge/main.py` |
| `TrainingTable` | windows, their labels and the rows that are kept, one step per window | `features/windows.py`, `features/labels.py`, `data_pipeline/build.py` |
| `AnomalyScoring` | anomaly-svc: the rolling window, its reader and the score loop | `anomaly_svc/window.py`, `consumer.py`, `main.py` |
| `StateStream` | state-svc: the latest values, the broadcast loop, the mailboxes of its calls | `state_svc/window.py`, `consumer.py`, `grpc_server.py` |
| `Viewer` | viz-svc and its pages on top of `StateStream` | `viz_svc/stream.py`, `app.py`, `main.py`, `frontend/src/useTwinState.ts` |
| `SignalPath` | a sample's way: the injector's ROS thread beside its loop, the bridge's ROS thread, queue and publisher | `fault_injector/main.py`, `session.py`, `transforms.py`, `bridge/main.py` |
| `ScriptedRun` | a scripted schedule against `FaultInjector`, what it makes of the samples, of the windows that are scored and judged, and of the rows of a dataset | `scripts/collect.py`, `scripts/demo.py` |
| `ModelRelease` | what becomes of such a run: datasets, training, reports, the model that is served | `data_pipeline/cli.py`, notebooks 02 and 04, `detector/artefact.py`, `anomaly_svc/main.py` |
| `FaultInjectorProofs`, `LabelArchiveProofs`, `CommandPathProofs`, `SignalPathProofs`, `AnomalyScoringProofs`, `ViewerProofs`, `TrainingTableProofs`, `ModelReleaseProofs` | theorems | |
| `MC*` | values of the constants for TLC | |

How they are composed: `FaultInjector` implements `LabelStream`, `LabelArchive`
is fed by any `LabelStream`; `CommandPath` extends `CommandPublisher`, `Viewer`
extends `StateStream`; `ScriptedRun` extends `FaultInjector` and reads its
labels through instances of `FaultDataset` and `TrainingTable`, and
`ModelRelease` extends `ScriptedRun`. `Ready` (in `StateStream` and `Viewer`
`SvcReady` and `VizReady`) is what `/healthz/ready` of the service answers.

Operators whose comment starts with *Mutant* are not part of a model: each is
a plausible bug, and putting it in the place of the operator it follows from
makes the property it is named with in `PROJECT.json` fail.

### FaultInjector

*State.* `session` is the `FaultSession` object; `listener` and `beater` say
where each task is suspended (`listener.cmd` is the command that
`command_listener` holds while the closing label of its predecessor awaits its
acknowledgement); `conn` is the MQTT connection as `fault_worker` sees it;
`inbox` the client's queue of messages; `stream` the labels handed to the
client and not lost, of which the broker has received the first `received`;
`issued` remembers the commands, whose ids are fresh (`uuid4`).

*Steps.* asyncio runs a task from one suspension to the next without
interruption, so one action is the code between two awaits.
`client.publish` hands the message to the client before it suspends, and the
client sends in order, so a label's place in `stream` is decided by the step
that creates it. On a connection known to be lost it raises at once. A label
that the broker has not received when the connection ends is lost: sessions
are clean and a label is never published twice. The heartbeat loop's
`sleep(1)`, the duration and the clock are multiples of one unit; `Tick` is
free to run ahead of the tasks, so a heartbeat may be late.

*Restarts.* The injector persists nothing: `Restart` forgets the session. The
labels that the broker has received are history and stay in `stream`.

### LabelArchive and FaultDataset

The wire is any stream `LabelStream` allows, so the results hold for the
injector by refinement. Telemetry and scores are one `Reading`: they compete
with labels for the queue and the loop, and their writes fail like any other.
`FaultDataset` keeps of a row what distinguishes it: InfluxDB replaces points
of equal series and time (`Written`), and answers a query with one table per
set of tags, in an order of its choice (`TableOrders`), each sorted by time. The
query reads a row's time by way of a float datetime (`_to_ns`), which cuts it to
microseconds: `ToNs` is a constant operator that puts a time back by less than
`Grain` (`ReadBack`), and TLC reads the clock in twos. The start of an interval
is a field of the row and stays exact, so an interval of which only the opening
label is stored ends before it starts, by less than the grain. A failed write
shows in readiness and the next one that succeeds ends that; that
the database is away shows in nothing but a write.

### CommandPublisher

Connections are numbered as `run()` opens them; `client` is `_client`. A
request captures the number it publishes on. A request refused because its
acknowledgement was late may still reach the broker. `SlowBroker` allows a
time-out on a connection that is alive.

### CommandPath

A request stands for the commands its client posts one after the other
(`PostAgain`); `after[r]` is history, the requests that had their 202 when `r`
was posted. The broker delivers what it receives to the bridge if that is
listening, and otherwise to nobody. `bridge = "dead"` is a connection that is
lost while messages of it are still queued: aiomqtt yields those first. A
message is taken, validated and forwarded without a suspension, so that is one
action; `told` are the commands the robot has been sent. A restart of the
bridge (`BridgeRestarts`) loses what was queued. Values of setpoints are left
out: `Valid` stands for `JointCommand`'s validation.

### TrainingTable

`build_table` is a loop over `make_windows`; a step is one window, and the
initial states are every recording (`stamps`: the samples none of whose
channels was lost) with every list of intervals a query may return. The
intervals are apart from each other, which is what `DatasetSound` says of the
archive, and in either order, since the database orders them. Feature values
are left out: they decide nothing here. An interval may end one instant before
it starts, as the archive's may.

### AnomalyScoring

`samples` and `recv` are the two dictionaries of `AnomalyWindow`; `to_window`
prunes, so every path of the score loop that reaches it does too. A message is
one channel of one sample. The bridge publishes them in order with QoS 0:
`Read` takes the next one that was not lost. `conn = "dead"` is a connection
that is lost while neither task knows: the reader may still take what had
arrived (`Read`), then raises; the score loop raises when it publishes. Either
way the TaskGroup ends both. `heard` is history, against which `WindowExact`
compares the service's bookkeeping. `POST /score` keeps nothing and is left out.

### StateStream and Viewer

`latest`, `dirty` and `mqtt` are state-svc's window, `_dirty` and
`_mqtt_connected`; `hub` is `StateHub`'s latest state, and `stream[c]` what one
`StreamState` generator holds: its queue of one (`mailbox`) and whether
`last_sent` is set. A value is named by the stamp of its sample, so a state is
a function from channels to stamps and may mix two samples, as the code's may.
`min_interval` is compared with a monotonic clock; a call with a maximal rate
may therefore skip any state but its first (`Skip`). `rpc` and `ws` are what
HTTP/2 and the WebSocket hold, at most `Flow` each: a sender waits beyond that.
`GetState` changes nothing and the RMS history decides nothing; both are left
out.

`Viewer` adds one `StreamState` call per page. `chan` is the gRPC channel and
`known` what `run()` saw of it; they differ until `run()` is woken. `page` is
what the page shows. A page that left (`Leave`) keeps its call until a frame
comes for it, as in `ws_state`. `SvcCrash` breaks the calls, and what was
under way arrives before the error; `VizCrash` closes the sockets. Telemetry
comes in order with losses, which `SignalPath` gives while the bridge's
queue has room (`OrderKept`).

### SignalPath

`transform` and `label` are the parts of the session that the two threads
share. `activate` takes the start, then swaps the transform in; `clear` swaps
it out, then the end is taken: four steps, and `Apply` on the ROS thread comes
between any two. `given` is what the closure in place remembers: `from_command`
makes a new one (`SwapIn`), and `Shown` tells of which samples its answer is
made, which is what the numbers are abstracted to. `apply` reads the transform
once. A transform may index past the end of a field of a malformed sample
(`Breaks`, which a drop-out never does): nothing catches what it raises, so
`rclpy.spin` ends and the node is `down` for good (`Raise`), while the loop goes
on. What `apply` returns is dropped (`Drop`) or published (`Forward`) to a
subscription that keeps `Depth` samples, ten in the code, and forgets the oldest
of more (`overrun`).

The bridge's ROS thread leaves out what `JointStateMessage` refuses
(`ReceiveInvalid`) and schedules a `put` of the rest (`Receive`, `puts`); a
`put` on a full `asyncio.Queue` is suspended (`waiting`) until a `get` wakes it
(`woken`), and looks at the queue again when it runs, with no place kept for
it. The worker holds one sample across its publications, one message per
channel. Telemetry is QoS 0: a `publish` succeeds when the client takes the
message. `conn = "cut"` is a connection that carries nothing any more; until a
publication fails on it (`PublishFails`), samples are given to it in vain.
`fates` is history: whether a sample that left was `carried`, given in part or
whole to such a connection (`wasted`), or the one whose publication failed.

`ros.at` is the time at which a sample is perturbed. The stamp in its header,
by which the pipeline joins it with the labels, is older by the sample's way to
the injector, and must come from a clock set like the injector's; that delay is
not modelled.

### ScriptedRun

`collect.py` and `demo.py` run `fault_worker` in their own process, beside a
schedule loop that publishes a command at the start of each fault's segment
and a sensor loop that passes samples through the session. The clock's unit is
half a second, the hop of the windows: a heartbeat is two units, a window two
samples. A unit's sample is taken last in it, so a fault that begins in a unit
perturbs its sample and one that ends in it does not. A command is under way
for up to `Latency` units. The scripts expect no failure and handle none, so
the injector is `FaultInjector` without failures, and within a unit every task
does what is due (`Quiet`); the delays that remain are those of commands and of
the heartbeat that ends a fault. Samples reach the service in the unit they are
taken in, so that its pruning by arrival is pruning by time.

What a detector makes of a window is left out: EVALUATION.md counts recalls
between 0.20 and 0.93 and its threshold flags some normal windows by
construction, so neither an alarm nor silence is a property of this code.
`scores` keeps of each score the samples its window held; the properties say of
what data the scores are that the demo judges for a segment.

`Intervals`, `RowStarts` and `LabelOf` are the data pipeline's, on the samples
and labels of a span (`Telemetry`, `Stored`): both end with `--until`. The
windows end at the last sample in the span, which may be long before its end.
`Rank` is the order in which the database answers its tables, any order; the
query then lists the intervals in an order of its own, so `Intervals` is some
order of them. Half a second outlasts the digits that `_to_ns` cuts (`Whole`).

### ModelRelease

A dataset, a model and a threshold are named by the span of the dataset they
are made of: training is deterministic. `table` holds the labelled rows of each
span once the run is over (`LabelledRows`): it is a cache of what
`build_table` would compute, filled by the first `BuildDataset`. A span without
telemetry builds nothing. `save_detector` writes two files, and `load_detector`
reads two, one action each; a file is written at once. Notebook 02 may die at
any point; notebooks run from top to bottom, one at a time. The service may
start at any time, also between two files. The fingerprint that pins a model to
its data is written and never compared by the code, and is left out, as are the
numbers of the report except its supports.

## The runs

| Run | Question | Bounds | Fairness |
|---|---|---|---|
| `injector` | are the published labels readable under any interleaving, an outage and a restart, and is an interval only left open by one of those? does a fault end whatever fails, and is every command recorded if nothing does? | two faults of 2 and 1 units, heartbeat every unit, inbox 1, one failure, one restart, clock to 2 and until the faults end | tasks, clock, broker |
| `injector_open_interval` | is no interval ever left open? No. | one failure | |
| `archive` | is the dataset sound, whatever is lost? does a lost broker show, and is the service ready again? | two commands with different tags, three instants read in twos, four labels, queue 1, one failure of any kind | the service's loop |
| `archive_end` | does an interval end at its closing label, if that is in the database? No. | no failure | |
| `command` | answers and acknowledgements; does the robot follow the receipts, and is what reaches the bridge carried out? | two clients that post again and again, two lost connections of the service, slow broker, one outage or restart of the bridge, one message that is no command waiting at a time | tasks, broker |
| `command_ready` | is the service ready again by itself? No. | three requests, two lost connections, prompt broker | tasks, broker |
| `table` | are rows labelled right, and is nothing of a fault lost? | any samples of eight instants, any two faults apart from each other, windows of 4 every 2 | |
| `anomaly` | is the window scored exactly what arrived complete and in time, and does a lost broker show? | three samples of two channels, windows of 2 scored every unit, one lost connection or restart, clock to 5 | tasks |
| `viewer` | does a page or client ever see the arm go back? does it see the latest, and live again after an outage? is a page that left forgotten? | one page, one client, two samples of two channels, two restarts of either service in any order, one state under way | tasks, channel, sockets, timers |
| `signal` | is every perturbed sample labelled, and made only of samples of its own fault? is every sample accounted for, what does an outage cost, when is order kept? | four samples (one malformed, one invalid), two faults (a drop-out and a lagging joint, which the malformed sample breaks), subscription and queue of one, messages of two channels, one lost connection, clock to 1 | ROS threads, loop |
| `release` | is a scripted fault over before its successor? of what data are the scores judged for it, and for the normal segment after it? how honest are the rows of a span? does the served model go with its threshold, and is the report fair? | the demo's last five segments in its own times, commands up to one unit late, three spans (two end in a fault), the closing labels' table before one fault's and after the other's, two builds, one death of notebook 02 | none needed |
| `anomaly_version` | are only scores of a fitting model published? No. | no failure at all | |

TLC checks the type invariant of `FaultInjector`. Those of `SignalPath`,
`CommandPath`, `AnomalyScoring`, `LabelArchive` and `Viewer` are proved for
every instance and not checked again.

*Why the bounds are enough.* Two faults are the fewest that can overlap or
replace each other; an inbox of one lets a further command wait while the
listener holds the replacement of a running fault; the long fault lives through
a heartbeat and the short one expires at its first; one failure and one restart
can be combined in either order at any point of both tasks. The proofs remove
these bounds for safety. In `command`, two clients are the fewest whose
commands can be ordered by a receipt; two lost connections let a request
outlive its own and time out on its successor's; a stray message can stand
before a command, on a connection of the bridge that is lost, or not. In the
archive, four labels give one experiment an opening, a heartbeat and a closing
label with another's opening beside them, and three tables can be answered in
any order. Eight instants hold three overlapping windows, a tail, and gaps
longer than a window, among them a recording whose median distance is not its
mean; two faults are the fewest that compete for one. In
`anomaly` the clock outlives two windows, so a sample can be complete, stale
and gone, on either side of an outage. In `viewer` two samples of two channels
give states that mix samples; with two restarts, either service can fail again
while the other's failure is being repaired. In `signal`, a subscription and a
queue of one and four samples let a sample be driven out, and a `put` be
suspended, woken, overtaken and suspended again, before, during and after an
outage; the second fault remembers what it meets, so what the first left behind
would show in it, and the malformed sample passes, is dropped, or ends the node,
depending on which fault it meets; with two instants an interval may lie within
one, fill both, or begin after a sample. `release` has the two faults that
differ most in what they do to a window (one perturbs every sample, the other
lets none through) and in their tables (that of closing labels is answered after
one's and before the other's), a normal stretch before, between and after them;
of its three spans one ends in the middle of either fault, the drop-out included,
where a span's last window ends before the span; two builds and a death give a
model of one span beside a threshold, or a report, of another, longer or
shorter.
`SchedulesAreSpaced`, which TLC evaluates, says of the whole schedules of both
scripts what the proofs ask of any: a fault is followed by a normal stretch
that outlasts the command's delay, a heartbeat and a window (`WellSpaced`), the
script begins with a window of normal time, and each fault outlasts the
command's delay by a window (`Roomy`).

*Fairness.* Weak fairness of the tasks is what an event loop gives a task that
can run; of `Tick`, that time passes; of `BrokerReceives`, that a connection
that is up transports. Losses, time-outs and restarts have no fairness: they
may never happen, and their number is bounded. Reconnecting is fair because
every service's worker retries for ever, gRPC's channel and the page's timer
too; `FaultEnds` therefore reads: once connections stop failing.

## The proofs

*FaultInjectorProofs* proves for every set of commands, durations, heartbeat
period, inbox, and number of failures and restarts, that `Spec => []IInv`.
`WellFormed(stream)` alone is not inductive: it says nothing of the next label.
`SessionFits` does: the label that either task would publish now for the
running fault `Fits` everything in `stream`. It is kept by the clock (stamps
only grow), by publishing (the label just appended is the one that fitted), and
by losing labels (what fits a stream fits its prefixes, `PrefixFits`). It is
established when a fault starts because nothing pending has ever been mentioned
(`CommandsAreNew`) and all labels are past (`LabelsArePast`). Type correctness,
`NothingAfterClosing` and `ExperimentsDisjoint` follow from `IInv`, and each
step of the injector maps to a `Receive` of `LabelStream` or to a stutter
because `Fits` on the part that the broker has implies `Admissible`
(`AdmissibleFits`).

`ClosedWithoutFailure` proves what is left of the promise that no interval
stays open (disagreement 1): while no connection failed, no acknowledgement
timed out and nothing restarted, every mentioned experiment but the running one
has its closing label. Its invariant, `ClosedInv`, adds that the connection is
not dead, so that no label is dropped. `EndingCloses`, `RunningStaysOpen` and
`StartingKeepsClosed` say what each kind of step does to the stream.

*LabelArchiveProofs* takes that contract up. Every stream that `LabelStream`
allows is well formed, so a subscriber may rely on it (`StreamIsReadable`), and
the wire of the archive is such a stream (`ArchiveHearsStream`, a refinement):
with `InjectorImplementsLabelStream`, the two halves meet in one specification.
For any number of faults, labels, failures and any queue follow `ArchiveSound`
(`DatasetSound`) and `ClosingEnds` (`EndIsClosingWhenLast`). `ArchiveInv` says that the wire is well formed, that
whatever is queued, being written or stored was published, and `Sortable`:
in any order of tables, a set of rows that is not empty has a first and a last
one. That is kept by each write (the new row is compared with the first and
last of the others), so no induction over the database is needed. With it the
first and last row of an experiment are labels of it, and what `WellFormed`
says of labels carries over to the interval.

*CommandPathProofs* proves the two safety properties of command-svc for any
number of requests and losses; `Budget` is the one strengthening there: an
unused loss is left while there is no connection. `PathIsPublisher` proves that
the path implements `CommandPublisher`, so both hold of the composition. On top
of that `ReceiptsAreFollowed` proves the action property `FollowsReceipts`,
from `AcceptedAreAhead`: what was accepted before `r` was posted was received
before it, so it has been told, was lost, or waits ahead of `r`.

*SignalPathProofs* proves the types, `PerturbedIsLabelled`,
`FaultsStartAfresh`, `LossBounded`, `OrderKept` and `NothingVanishes`, for any
number of samples, faults, outages, any capacity of the queue and depth of the
subscription, and any samples that are malformed, invalid or break a fault. `PerturbedIsLabelled` looks at
the sample in the callback; what makes it inductive is `SessionInv`: whenever a
transform is in place, the start of its fault has been taken and the end has
not (the order of `activate`'s and `clear`'s statements), and a fault without a
start has no end. `GivenInv` says that what the closure remembers met its own
fault, which `ApplyGives` carries over to the sample that is published.
`LossInv` counts a connection that carries nothing as a failure still to come,
and says that what it was given last is wasted. `LineInv` puts the samples in a
line: while no put has met a full queue, what left, what the worker holds, the
queue, the puts, the topic and the callback's sample follow each other, each
ascending. That order is gone once a put had to wait, so `NothingVanishes` rests
on `PlaceInv`: each sample is somewhere, and there are at most as many places
taken as there are samples. Each step moves one sample from an end of a sequence
to an end of another, so neither asks where the others are; that no sample is
in two places, and the equation itself, follow by counting (`PlacesEnough`).

*AnomalyScoringProofs* proves the types and `WindowExact`, for any channels,
samples, window, hop and outages. `WindowInv` compares the service's
bookkeeping with what was heard: a channel that was heard does not come again
(`HeardOnce`); an entry holds what was heard of its sample, and when first
(`HeldAsHeard`); and whatever is fresh is held (`FreshIsHeld`), which is what
pruning must keep.

*ViewerProofs* proves the types and `NeverBack`, for any number of channels,
samples, pages, clients and restarts. `WayInv` lines up what is on its way to a
subscriber, from what it was shown over the frames and the states sent to its
mailbox: each is at least what is ahead of it. All of them are at most the
service's latest values, as far as it has read any since it was started, and at
most the last stamp that came (`Fits`): so what a restarted service reads is at
least what its predecessor sent.

*TrainingTableProofs* proves the types and the four properties of
`TrainingTable`, for every finite recording, any lists of intervals, any length
and hop. The owner of a window is the value of a recursive function, the loop
of `label_window`; what it computes is proved by taking a least turn at which
the claim fails (`LeastNumber`), the form in which induction needs no operator
as a parameter: `OwnerWins` says that no interval overlaps the window more than
its owner, and that only an interval that overlaps it owns it. `TableInv` says
what every row says of its window (`RowsRight`), and that every instant behind
`start` lies in a window that was made and is in the table if it is kept
(`Grid`). `NormalsAreObserved` is about the median: if more than half of the
distances are `d`, fewer than half lie on either side of it, so either of the
middle ones is `d` (`MajorityRank`, `MajorityMedian`), and the coverage floor is
half of what a window holds at that distance. `LongFaultsOwnRows` asks for
intervals that do not overlap, which `ArchiveSound` gives, and a hop shorter than
the window: with windows that do not share samples a fault could be tied in both
it reaches into.

*ModelReleaseProofs* proves six of the seven properties of the run and its
release for any schedule, spans, order of tables, delay, window, heartbeat,
builds and deaths, where TLC checks five segments of one schedule.

- `ServedPairsWhole`: the two files are whole together unless their save is
  under way or was cut (`ServedInv`), whatever else happens in between.
- `CoursesAreRun`, `NormalsAreJudgedClean`, `FaultsAreShown`: `RunInv` follows
  each fault from the command on its way (`Pending`) over the session that is
  perturbed (`Running`) to the closing label (`Finished`), with bounds of time
  for each stage; `Clock` ties the segment to the time and `Core` says that only
  the latest fault is not `Finished`. `SampleFaults` and `FaultSamples` say
  when a sample may and must have met a fault, and `Scored` of which samples a
  score is. `WellSpaced` is what the proofs take as a hypothesis: it is what
  makes `FaultIsOver` true, that the next fault never replaces one. For
  `FaultsAreShown`, `Roomy` and a window of at least two hops as well.
- `RowsAreHonest`: for every window of every span, from `Heard` (the fault of a
  sample has a label of the same period, and was injected no later) and
  `Framed` (between the injection and the closing label all samples met the
  fault, and none later): the two say that the injector's labels and the sensor
  loop's samples agree, which neither task checks. `Heard` rests on
  `SpokenLately`, that the running fault's last label is not older than the
  heartbeat that is due. `EndsOfFault` and `IntervalsAre` read the fold of the
  query on the labels of a span, in whatever order the tables come, and
  `RowOwner` and `RowLabels` the loop over the intervals.
- `ReportsAreFair`: `TrainedInv` says that a training that came to its end left
  models of its own data, whatever was built since; `HeadInv` that the first row
  of every span is a normal one (`HeadRow`: `Roomy` scripts begin with more than
  a window of normal time), so the evaluation holds normal rows. That takes
  spans that hold the first window.

Assumptions are the named `ASSUME`s of the modules, which TLC evaluates in
every run: durations and bounds are naturals, samples, faults and channels are
numbered, clocks read naturals, the payloads that are not fault commands (or
labels) differ from those that are, and there are finitely many commands
(`CommandsFinite`), as many as were ever issued.

`WellSpaced` and `Roomy` are hypotheses of theorems and not assumptions of
`ScriptedRun`; `SchedulesAreSpaced` states them of the schedules in the code.
`InstanceIsSpaced` states them, and the hypotheses on the spans, of the instance
that `release` checks, so the theorems speak of that run too.

*Only model-checked.* Liveness (`FaultEnds`, `EveryCommandRecorded`,
`EveryRequestAnswered`, `DeliveredIsTold`, `LossShows`, `BrokerLossShows`,
`Recovers`, `LatestArrives`, `LeftIsForgotten`, `EverySampleLeaves`): it rests
on fairness, which TLAPS does not reason about. And `LongerDataUnseen`, which
compares the rows of two spans and would need to know how far the labels of the
longer one change the shorter one's: 30 % of held-out rows leave more room than
that takes in the instance, not in every schedule. Every other property that a
passing run checks is proved.

## Disagreements found

1. `injector_open_interval`: the documentation promises that no interval is
   left open; the code clears the session before it publishes the closing
   label and drops a label it cannot publish.
2. `archive_end`: the end of an interval depends on the order in which the
   database answers its tables, because `ends` takes the last row *read*.
3. `command_ready`: a time-out of a request that was sent on an earlier
   connection resets the client of the current one, and nothing sets it again
   until the next disconnection.
4. `anomaly_version`: a model of another features version is announced as not
   ready and refused by `POST /score`, but the live loop publishes its scores.

Further ones are stated in the properties that hold, or follow from the models,
without a run of their own:

5. Of faults that overlap a window alike the first *listed* owns it
   (`LabelsRight`). `features/labels.py:6`, ADR-0003 (lines 59-60) and
   `test_labels.py:32` say the earlier one; the list is in the order of the
   database's tables.
6. A row may be both empty and normal where the coverage floor is zero, which a
   median distance above half a window's length makes it: two samples further
   apart than a window are enough. `data-pipeline/tests/test_build.py:78-79` says
   that no row is.
7. `demo.py:140-141` says that the head it skips in a normal segment is where the
   window still holds the previous fault's data. The windows after it hold some
   too: the fault outlives its segment by the command's delay and up to a
   heartbeat (`NormalsJudgedClean`, whose bound is the least one: TLC refutes it
   with one unit less). Two of a segment's eleven judged windows (18 %) may be
   such, while the demo tolerates 15 % of false alarms.
8. Where the closing label is cut off with the span, or its table is read before
   the fault's own, samples after the last heartbeat that met the fault are in
   rows labelled normal (the exception in `RowsHonest`). The faults of a single
   joint in both scripts name joints that sort after `all`; ADR-0003 (line 58)
   labels a window that touches any part of a fault.
9. `useTwinState.ts:27-30` promises a page instead of a silently frozen arm for
   every failure. When telemetry stops, or state-svc loses the broker, its calls
   stay open and its pages stay "live" (`grpc_server.py:114`,
   `consumer.py:66-69`).
10. Built anew over a *shorter* span between the notebooks, a dataset evaluates
    rows that a detector was trained on (`LongerDataUnseen` without its
    antecedent is violated), and notebook 04 (lines 99-101) still says that both
    were fitted on the same windows.
11. An exception of a transform, which a malformed sample causes under friction,
    encoder or stuck faults, ends the injector's ROS thread (`Raise`). No document
    speaks of it; the bridge's callback, in the same place, has "the bridge must
    not die on bad msgs".

## Not modelled

* `features/compute.py`, the fitting, scores and metrics of `detector`, and the
  numbers in the notebooks' reports: numpy and scikit-learn on arrays, without
  control of their own. No property speaks of a verdict; a model is named by its
  data (`ModelRelease`).
* `state_svc/kinematics.py` and the velocity history behind the RMS: floating
  point over values that decide nothing. `GetState` and `POST /score` read and
  keep nothing.
* The noise of the encoder fault, and of the other transforms everything but
  the samples they are made of.
* How old a sample is when it reaches the injector, and how the simulation's
  clock is set against the injector's: nothing in the code bounds either
  (the hazard at `fault_injector/main.py:118`).
* That a caller with a maximal rate may never be shown the last state: the code
  says that it relies on a continuous feed (the hazard at
  `grpc_server.py:116`).
* `Scene.tsx` (rendering), `sim/scripts/sine_trajectory.py` (a source of
  motion outside the product), notebooks 01 and 03 (plots, and an experiment no
  other part uses), `contracts/gen` (generated), configuration, logging,
  metrics and dashboards.
* `chaos.py` beyond its condition: that it stops containers is the restarts
  of the models, and how long recovery takes depends on time-outs in seconds.

Wire formats are abstracted to what the properties tell apart.

## Plan

Modelled: the labels, whose soundness everything downstream rests on, their
archive, the training table, the commands up to the robot, the live scores,
the state streams, the path of a sample, a scripted run, and what is made of it
up to the model that is served. What could be added:

1. Proofs of what liveness rests on: that a step is possible whenever one is
   due (a suspended task has something it waits for), as invariants.
2. An abstract, lossy channel of samples that keeps order, implemented by
   `SignalPath` while its queue is never full, in the place of `Comes` in
   `StateStream` and `AnomalyScoring`.
3. The age of samples in `SignalPath`, once the code says what it may be.
