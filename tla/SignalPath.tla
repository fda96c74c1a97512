----------------------------- MODULE SignalPath -----------------------------
(***************************************************************************)
(* The path of a sample: the injector's ROS thread applies the session's   *)
(* transform (transforms.py) while its event loop activates and clears     *)
(* faults (main.py, session.py), and publishes what comes out on a topic;  *)
(* the bridge's ROS thread takes it from there and hands it to its loop,   *)
(* through a bounded queue, to the broker (bridge/main.py).                *)
(*                                                                         *)
(* The threads of the injector share the session without a lock: activate  *)
(* and clear are split where the other thread can come in between.  On the *)
(* bridge's loop any coroutine that can run may run next, but the puts     *)
(* start in the order of their samples.                                    *)
(***************************************************************************)
EXTENDS Naturals, SequencesExt

CONSTANTS Samples,        \* 1..n, in the order the injector's node is given them
          Faults,         \* 1..n, in the order they are injected
          Kind,           \* what each of them does: "friction", "encoder", "stuck", or "dropout"
          Malformed,      \* the samples whose fields differ in length
          Breaks,         \* of each fault, those of them that its transform cannot index
          Invalid,        \* the samples without a name, or with a time below 0
          Depth,          \* the samples the bridge's subscription keeps
          Channels,       \* the number of messages of a sample
          MaxQueue,       \* the capacity of the queue
          MaxFailures,    \* bound: lost connections
          Horizon         \* bound: the clock stops here

ASSUME SamplesType == Samples \subseteq Nat \ {0} /\ Malformed \subseteq Samples /\ Invalid \subseteq Samples
ASSUME FaultsType == Faults \subseteq Nat \ {0} /\ Kind \in [Faults -> {"friction", "encoder", "stuck", "dropout"}]
ASSUME BreaksType ==
  /\ Breaks \in [Faults -> SUBSET Malformed]
  /\ \A f \in Faults : Kind[f] = "dropout" => Breaks[f] = {}
ASSUME CountsType == Depth \in Nat \ {0} /\ Channels \in Nat \ {0} /\ MaxQueue \in Nat \ {0}
ASSUME BoundsType == MaxFailures \in Nat /\ Horizon \in Nat

VARIABLES
  now,        \* the clock
  transform,  \* the session's transform: a fault's, or 0 for passthrough
  label,      \* of each fault the times its labels say, as far as they are taken
  doing,      \* the fault being activated or cleared, and how far
  node,       \* the injector's ROS thread: "spinning" or "down"
  given,      \* the samples the transform in place was given
  taken,      \* the last sample the injector's node was given
  by,         \* history: of each sample the transform it met
  ros,        \* the sample its callback has, what became of it, and when
  topic,      \* the samples published to the bridge that it has not taken
  overrun,    \* the samples that later ones drove out of there
  puts,       \* samples whose put() has been scheduled and has not run
  waiting,    \* put() suspended on a full queue, first to be woken first
  woken,      \* put() woken since, and not run again
  queue,      \* the bridge's queue
  overflowed, \* history: the queue has been full for a put()
  conn,       \* the connection: "backoff", "up", or "cut" where it carries nothing any more
  worker,     \* the sample telemetry_worker publishes, the messages left of it, and what became of the others
  out,        \* the samples it is through with, in order
  fates,      \* of each of them, whether it was carried, given to the MQTT client in vain, or failed
  failures,   \* lost connections so far
  refused     \* the samples that a fault dropped or broke on, or the bridge found invalid or malformed

sessionVars == <<transform, label, doing>>
nodeVars == <<node, given, taken, by, ros>>
injectorVars == <<sessionVars, nodeVars>>
topicVars == <<topic, overrun>>
handOverVars == <<puts, waiting, woken, queue, overflowed>>
workerVars == <<conn, worker, out, fates, failures>>
vars == <<now, injectorVars, topicVars, handOverVars, workerVars, refused>>

Unknown == Horizon + 1    \* a time that no label says yet

Idle == [fault |-> 0, at |-> "idle"]
NoSample == [sample |-> 0, of |-> {}, at |-> 0]
Fates == {"carried", "wasted", "failed"}
NoWork == [sample |-> 0, left |-> 0, fate |-> "carried"]

InjectorTypeOK ==
  /\ now \in 0..Horizon
  /\ transform \in Faults \union {0}
  /\ label \in [Faults -> [start: 0..Unknown, end: 0..Unknown]]
  /\ doing \in [fault: Faults, at: {"activate", "active", "clear"}] \union {Idle}
  /\ node \in {"spinning", "down"}
  /\ given \in Seq(Samples)
  /\ taken \in Samples \union {0}
  /\ by \in [Samples -> Faults \union {0}]
  /\ ros \in [sample: Samples, of: SUBSET Samples, at: 0..Horizon] \union {NoSample}

HandOverTypeOK ==
  /\ topic \in Seq(Samples) /\ Len(topic) <= Depth
  /\ puts \in Seq(Samples)
  /\ waiting \in Seq(Samples)
  /\ woken \in Seq(Samples)
  /\ queue \in Seq(Samples) /\ Len(queue) <= MaxQueue
  /\ overflowed \in BOOLEAN
  /\ refused \subseteq Samples /\ overrun \subseteq Samples

WorkerTypeOK ==
  /\ conn \in {"backoff", "up", "cut"}
  /\ worker \in [sample: Samples, left: 1..Channels, fate: {"carried", "wasted"}] \union {NoWork}
  /\ out \in Seq(Samples)
  /\ fates \in Seq(Fates)
  /\ failures \in 0..MaxFailures

TypeOK == InjectorTypeOK /\ HandOverTypeOK /\ WorkerTypeOK

Init ==
  /\ now = 0
  /\ transform = 0
  /\ label = [f \in Faults |-> [start |-> Unknown, end |-> Unknown]]
  /\ doing = Idle
  /\ node = "spinning"
  /\ given = <<>>
  /\ taken = 0
  /\ by = [s \in Samples |-> 0]
  /\ ros = NoSample
  /\ topic = <<>> /\ overrun = {}
  /\ puts = <<>> /\ waiting = <<>> /\ woken = <<>> /\ queue = <<>>
  /\ overflowed = FALSE
  /\ conn = "backoff"
  /\ worker = NoWork
  /\ out = <<>> /\ fates = <<>> /\ refused = {}
  /\ failures = 0

Tick ==
  /\ now < Horizon
  /\ now' = now + 1
  /\ UNCHANGED <<injectorVars, topicVars, handOverVars, workerVars, refused>>

-----------------------------------------------------------------------------
\* The session, on the injector's event loop.

Fresh(f) == doing = Idle /\ label[f].start = Unknown /\ \A g \in Faults : g < f => label[g].end # Unknown

\* activate: the start of the interval is taken first,
Activate(f) ==
  /\ Fresh(f)
  /\ label' = [label EXCEPT ![f].start = now]
  /\ doing' = [fault |-> f, at |-> "activate"]
  /\ UNCHANGED <<now, transform, nodeVars, topicVars, handOverVars, workerVars, refused>>

\* Mutant: the transform remembers what its predecessor was given.
SwapInAsLeft ==
  /\ doing.at = "activate"
  /\ transform' = doing.fault
  /\ doing' = [doing EXCEPT !.at = "active"]
  /\ UNCHANGED <<now, label, nodeVars, topicVars, handOverVars, workerVars, refused>>

\* then the transform is swapped in, new and with no memory.
SwapIn ==
  /\ doing.at = "activate"
  /\ transform' = doing.fault
  /\ given' = <<>>
  /\ doing' = [doing EXCEPT !.at = "active"]
  /\ UNCHANGED <<now, label, node, taken, by, ros, topicVars, handOverVars, workerVars, refused>>

\* Mutant: the transform stays.
SwapOutForgotten ==
  /\ doing.at = "active"
  /\ doing' = [doing EXCEPT !.at = "clear"]
  /\ UNCHANGED <<now, transform, label, nodeVars, topicVars, handOverVars, workerVars, refused>>

\* clear: the transform is swapped out,
SwapOut ==
  /\ doing.at = "active"
  /\ transform' = 0
  /\ doing' = [doing EXCEPT !.at = "clear"]
  /\ UNCHANGED <<now, label, nodeVars, topicVars, handOverVars, workerVars, refused>>

\* then the end of the interval is taken.
Clear ==
  /\ doing.at = "clear"
  /\ label' = [label EXCEPT ![doing.fault].end = now]
  /\ doing' = Idle
  /\ UNCHANGED <<now, transform, nodeVars, topicVars, handOverVars, workerVars, refused>>

-----------------------------------------------------------------------------
\* The injector's ROS thread.

\* The samples of which, at most, a transform makes its positions, the last
\* being the one it is given: a lagging joint shows something of all it was
\* given, a stuck one the first.  A sample that is dropped shows nothing.
Shown(f, samples) ==
  IF f = 0
    THEN {Last(samples)}
    ELSE CASE Kind[f] = "encoder" -> {Last(samples)}
           [] Kind[f] = "friction" -> ToSet(samples)
           [] Kind[f] = "stuck" -> {Head(samples)}
           [] Kind[f] = "dropout" -> {}

\* The transform in place indexes past the end of a field of the sample.
Raises(s) == transform # 0 /\ s \in Breaks[transform]

\* _on_msg, apply: one read of the transform decides what becomes of a sample.
Apply ==
  LET s == taken + 1
      samples == IF transform = 0 THEN <<s>> ELSE Append(given, s)
  IN /\ node = "spinning" /\ ros = NoSample
     /\ s \in Samples /\ ~Raises(s)
     /\ taken' = s
     /\ given' = IF transform = 0 THEN given ELSE samples
     /\ by' = [by EXCEPT ![s] = transform]
     /\ ros' = [sample |-> s, of |-> Shown(transform, samples), at |-> now]
     /\ UNCHANGED <<now, sessionVars, node, topicVars, handOverVars, workerVars, refused>>

\* What the transform raises leaves rclpy.spin: the node takes no sample any
\* more, while the faults and their labels go on.
Raise ==
  LET s == taken + 1
  IN /\ node = "spinning" /\ ros = NoSample
     /\ s \in Samples /\ Raises(s)
     /\ taken' = s
     /\ by' = [by EXCEPT ![s] = transform]
     /\ refused' = refused \union {s}
     /\ node' = "down"
     /\ UNCHANGED <<now, sessionVars, given, ros, topicVars, handOverVars, workerVars>>

\* A fault drops the sample.
Drop ==
  /\ ros # NoSample /\ ros.of = {}
  /\ refused' = refused \union {ros.sample}
  /\ ros' = NoSample
  /\ UNCHANGED <<now, sessionVars, node, given, taken, by, topicVars, handOverVars, workerVars>>

\* The sample is published; a subscription that lags keeps the last ones.
Forward ==
  /\ ros # NoSample /\ ros.of # {}
  /\ ros' = NoSample
  /\ IF Len(topic) < Depth
       THEN topic' = Append(topic, ros.sample) /\ UNCHANGED overrun
       ELSE topic' = Append(Tail(topic), ros.sample) /\ overrun' = overrun \union {Head(topic)}
  /\ UNCHANGED <<now, sessionVars, node, given, taken, by, handOverVars, workerVars, refused>>

-----------------------------------------------------------------------------
\* The bridge's ROS thread: a sample that cannot be validated is left out, any
\* other is handed to the loop.

ReceiveInvalid ==
  /\ topic # <<>> /\ Head(topic) \in Invalid
  /\ refused' = refused \union {Head(topic)}
  /\ topic' = Tail(topic)
  /\ UNCHANGED <<now, injectorVars, overrun, handOverVars, workerVars>>

Receive ==
  /\ topic # <<>> /\ Head(topic) \notin Invalid
  /\ puts' = Append(puts, Head(topic))
  /\ topic' = Tail(topic)
  /\ UNCHANGED <<now, injectorVars, overrun, waiting, woken, queue, overflowed, workerVars, refused>>

-----------------------------------------------------------------------------
\* The bridge's queue: an asyncio.Queue does not keep a place for a put that
\* it wakes.

\* put(sample) goes into the queue, or is suspended while that is full.
PutOf(s) ==
  IF Len(queue) < MaxQueue
    THEN queue' = Append(queue, s) /\ UNCHANGED <<waiting, overflowed>>
    ELSE waiting' = Append(waiting, s) /\ overflowed' = TRUE /\ UNCHANGED queue

\* Mutant: a sample for which there is no room is dropped.
PutOrDrop ==
  /\ puts # <<>>
  /\ queue' = IF Len(queue) < MaxQueue THEN Append(queue, Head(puts)) ELSE queue
  /\ puts' = Tail(puts)
  /\ UNCHANGED <<now, injectorVars, topicVars, waiting, woken, overflowed, workerVars, refused>>

Put ==
  /\ puts # <<>>
  /\ PutOf(Head(puts))
  /\ puts' = Tail(puts)
  /\ UNCHANGED <<now, injectorVars, topicVars, woken, workerVars, refused>>

\* A put that was woken looks again, and is suspended again if it was overtaken.
PutAgain ==
  /\ woken # <<>>
  /\ PutOf(Head(woken))
  /\ woken' = Tail(woken)
  /\ UNCHANGED <<now, injectorVars, topicVars, puts, workerVars, refused>>

-----------------------------------------------------------------------------
\* telemetry_worker.

Connect ==
  /\ conn = "backoff"
  /\ conn' = "up"
  /\ UNCHANGED <<now, injectorVars, topicVars, handOverVars, worker, out, fates, failures, refused>>

\* Taking a sample makes room and wakes the put that waits longest.
Get ==
  /\ conn # "backoff" /\ worker = NoWork
  /\ queue # <<>>
  /\ worker' = [sample |-> Head(queue), left |-> Channels, fate |-> "carried"]
  /\ queue' = Tail(queue)
  /\ IF waiting = <<>> THEN UNCHANGED <<waiting, woken>>
                       ELSE waiting' = Tail(waiting) /\ woken' = Append(woken, Head(waiting))
  /\ UNCHANGED <<now, injectorVars, topicVars, puts, overflowed, conn, out, fates, failures, refused>>

\* field_lengths_match
Aligned(s) == s \notin Malformed

\* publish_joint_states, one message after the other: at QoS 0 the client takes
\* a message and says nothing of whether the connection still carries it.
Publish ==
  LET fate == IF conn = "up" THEN worker.fate ELSE "wasted"
  IN /\ conn \in {"up", "cut"} /\ worker # NoWork /\ Aligned(worker.sample)
     /\ IF worker.left > 1
          THEN /\ worker' = [worker EXCEPT !.left = @ - 1, !.fate = fate]
               /\ UNCHANGED <<out, fates>>
          ELSE /\ worker' = NoWork
               /\ out' = Append(out, worker.sample)
               /\ fates' = Append(fates, fate)
     /\ UNCHANGED <<now, injectorVars, topicVars, handOverVars, conn, failures, refused>>

\* A malformed sample is not published at all, whatever the connection.
Refuse ==
  /\ worker # NoWork /\ ~Aligned(worker.sample)
  /\ refused' = refused \union {worker.sample}
  /\ worker' = NoWork
  /\ UNCHANGED <<now, injectorVars, topicVars, handOverVars, conn, out, fates, failures>>

\* The sample whose publication failed.
Fails ==
  /\ conn = "cut" /\ worker # NoWork /\ Aligned(worker.sample)
  /\ out' = Append(out, worker.sample)
  /\ fates' = Append(fates, "failed")
  /\ worker' = NoWork

\* Mutant: the failure is not caught, and the worker ends.
PublishDies ==
  /\ Fails
  /\ conn' = "ended"
  /\ UNCHANGED <<now, injectorVars, topicVars, handOverVars, failures, refused>>

\* Mutant: what the queue holds fails with the sample.
PublishFailsAll ==
  /\ conn = "cut" /\ worker # NoWork /\ Aligned(worker.sample)
  /\ out' = Append(out, worker.sample) \o queue
  /\ fates' = fates \o [i \in 1..(Len(queue) + 1) |-> "failed"]
  /\ queue' = <<>>
  /\ worker' = NoWork
  /\ conn' = "backoff"
  /\ UNCHANGED <<now, injectorVars, topicVars, puts, waiting, woken, overflowed, failures, refused>>

\* Mutant: the sample that failed is put again.
PublishRetries ==
  /\ conn = "cut" /\ worker # NoWork /\ Aligned(worker.sample)
  /\ puts' = Append(puts, worker.sample)
  /\ fates' = Append(fates, "failed")
  /\ worker' = NoWork
  /\ conn' = "backoff"
  /\ UNCHANGED <<now, injectorVars, topicVars, waiting, woken, queue, overflowed, out, failures, refused>>

\* That the connection carries nothing is only noticed by publishing: the
\* sample is gone, or what is left of it, and the worker connects anew.
PublishFails ==
  /\ Fails
  /\ conn' = "backoff"
  /\ UNCHANGED <<now, injectorVars, topicVars, handOverVars, failures, refused>>

\* What the client takes from here on does not arrive.
LinkLost ==
  /\ conn = "up" /\ failures < MaxFailures
  /\ conn' = "cut"
  /\ failures' = failures + 1
  /\ UNCHANGED <<now, injectorVars, topicVars, handOverVars, worker, out, fates, refused>>

-----------------------------------------------------------------------------
Next ==
  \/ Tick
  \/ \E f \in Faults : Activate(f)
  \/ SwapIn \/ SwapOut \/ Clear
  \/ Apply \/ Raise \/ Drop \/ Forward
  \/ ReceiveInvalid \/ Receive
  \/ Put \/ PutAgain
  \/ Connect \/ Get \/ Publish \/ Refuse \/ PublishFails
  \/ LinkLost

Spec == Init /\ [][Next]_vars

\* The threads run, and so does every coroutine of the loop that can.
FairSpec ==
  /\ Spec
  /\ WF_vars(Drop) /\ WF_vars(Forward) /\ WF_vars(ReceiveInvalid) /\ WF_vars(Receive)
  /\ WF_vars(Put) /\ WF_vars(PutAgain)
  /\ WF_vars(Connect) /\ WF_vars(Get) /\ WF_vars(Publish) /\ WF_vars(Refuse)

-----------------------------------------------------------------------------
\* Safety.

\* "Labels are ground truth by construction" (ADR-0002): whichever way the
\* threads interleave, a sample was only perturbed or dropped by a fault at a
\* time that the labels of this fault contain.  The time is the injector's: the
\* stamp in the sample's header is older by its way there.
PerturbedIsLabelled ==
  LET f == IF ros = NoSample THEN 0 ELSE by[ros.sample]
  IN f # 0 => label[f].start <= ros.at /\ ros.at <= label[f].end

\* "Deterministic for a given command and input sequence" (transforms.py): what
\* a sample shows is of samples that met the same fault, and a sample that met
\* none shows itself.  Nothing is left of an earlier fault, wherever the swap
\* of the transforms came between two samples.
FaultsStartAfresh ==
  ros # NoSample =>
    /\ \A s \in ros.of : by[s] = by[ros.sample]
    /\ by[ros.sample] = 0 => ros.of = {ros.sample}

InHand == (IF ros = NoSample THEN {} ELSE {ros.sample}) \union (IF worker = NoWork THEN {} ELSE {worker.sample})

Somewhere ==
  InHand \union refused \union overrun \union ToSet(topic)
    \union ToSet(puts) \union ToSet(waiting) \union ToSet(woken) \union ToSet(queue) \union ToSet(out)

\* Every sample the injector's node was given is in one place: the queue is
\* bounded but drops nothing, no put is forgotten or done twice, however often
\* it is suspended, and only the topic is overrun.
NothingVanishes ==
  /\ Somewhere = 1..taken
  /\ taken = Cardinality(InHand) + Cardinality(refused) + Cardinality(overrun) + Len(topic)
               + Len(puts) + Len(waiting) + Len(woken) + Len(queue) + Len(out)

Failed == {i \in DOMAIN fates : fates[i] = "failed"}

\* What an outage costs of the samples the bridge took: those the worker gave to
\* a connection that carried nothing, and the one whose publication found it out.
\* The samples that wait in the queue meanwhile are carried: the loss ends with
\* the failure, and no outage has two.
LossBounded ==
  /\ Cardinality(Failed) <= failures
  /\ \A i \in DOMAIN fates :
       fates[i] = "wasted" => IF i = Len(fates) THEN conn = "cut" ELSE fates[i + 1] # "carried"

\* Samples leave in the order they came, as long as there was room for each:
\* a put that was suspended may be overtaken by a later one.
OrderKept ==
  ~overflowed => \A i, j \in DOMAIN out : i < j => out[i] < out[j]

-----------------------------------------------------------------------------
\* Liveness.

\* Every sample leaves once connections stop failing, overtaken or not: no put
\* stays suspended beside a queue with room.
EverySampleLeaves ==
  \A s \in Samples : s \in Somewhere ~> s \in ToSet(out) \union refused \union overrun
=============================================================================
