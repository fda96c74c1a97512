---------------------------- MODULE FaultInjector ----------------------------
(***************************************************************************)
(* fault_injector/main.py: the label side of the fault injector.           *)
(*                                                                         *)
(* Two asyncio tasks share the session and one broker connection.  The     *)
(* command listener ends the running fault and starts the next one; the    *)
(* heartbeat loop repeats the active label and ends a fault whose duration *)
(* lapsed.  Publishing hands the label to the MQTT client at once (the     *)
(* client sends in order) and then suspends the task until the broker's    *)
(* acknowledgement.  Both tasks live in a TaskGroup that fault_worker      *)
(* re-creates, with a new connection and a clean MQTT session, whenever    *)
(* one of them fails.                                                      *)
(***************************************************************************)
EXTENDS FaultSession

CONSTANTS Clear,          \* a valid command of kind NONE
          Invalid,        \* a payload FaultCommand's validation rejects
          Period,         \* HEARTBEAT_S
          MaxInbox,       \* bound: messages waiting for the listener
          MaxFailures,    \* bound: lost connections and time-outs
          MaxRestarts,    \* bound: restarts of the process
          Horizon         \* bound: the clock stops here unless a fault is active

ASSUME PeriodType == Period \in Nat \ {0}
ASSUME BoundsType == /\ MaxInbox \in Nat /\ Horizon \in Nat
                     /\ MaxFailures \in Nat /\ MaxRestarts \in Nat
ASSUME MessagesDiffer == {Clear, Invalid} \intersect (Commands \union {None}) = {}

VARIABLES
  now,        \* the clock both tasks read
  session,    \* the FaultSession
  conn,       \* "backoff", "up", or "dead": lost, and no task knows it yet
  listener,   \* command_listener: where it is suspended, with which command
  beater,     \* heartbeat_loop: where it is suspended
  inbox,      \* messages received from the broker, not yet taken
  issued,     \* fault commands that have reached the injector, each just once
  stream,     \* labels handed to the MQTT client and not lost, oldest first
  received,   \* how many labels of stream the broker has received
  failures,   \* connections lost or timed out so far
  restarts    \* restarts so far

vars == <<now, session, conn, listener, beater, inbox, issued, stream, received, failures, restarts>>

Messages == Commands \union {Clear, Invalid}

\* The labels the broker has received.
Wire == SubSeq(stream, 1, received)

\* A task's label is number seq of the stream; 0 when none is being published.
WaitingListener == [at |-> "waiting", cmd |-> None, seq |-> 0]
SleepingBeater(t) == [at |-> "sleeping", wake |-> t + Period, seq |-> 0]

TypeOK ==
  /\ now \in Nat
  /\ session \in Session
  /\ conn \in {"backoff", "up", "dead"}
  /\ listener \in [at: {"waiting", "closing", "opening"},
                   cmd: Messages \union {None}, seq: Nat]
  /\ beater \in [at: {"sleeping", "publishing"}, wake: Nat, seq: Nat]
  /\ inbox \in Seq(Messages)
  /\ issued \subseteq Commands
  /\ stream \in Seq(Label)
  /\ received \in 0..Len(stream)
  /\ failures \in 0..MaxFailures
  /\ restarts \in 0..MaxRestarts

Init ==
  /\ now = 0
  /\ session = NewSession
  /\ conn = "backoff"
  /\ listener = WaitingListener
  /\ beater = SleepingBeater(0)
  /\ inbox = <<>>
  /\ issued = {}
  /\ stream = <<>>
  /\ received = 0
  /\ failures = 0
  /\ restarts = 0

-----------------------------------------------------------------------------
\* The environment: time, the operator and the broker.

\* The clock is bounded by Horizon, but always lets an active fault run out.
Tick ==
  /\ \/ now < Horizon
     \/ Active(session) /\ (now < session.deadline \/ now < beater.wake)
  /\ now' = now + 1
  /\ UNCHANGED <<session, conn, listener, beater, inbox, issued, stream, received, failures, restarts>>

\* The CLI publishes a fault command, with an id of its own, or a clear, and
\* the broker delivers it; somebody else may publish a payload that is not valid.
Deliver(m) ==
  /\ conn = "up"
  /\ Len(inbox) < MaxInbox
  /\ m \notin issued
  /\ inbox' = Append(inbox, m)
  /\ issued' = IF m \in Commands THEN issued \union {m} ELSE issued
  /\ UNCHANGED <<now, session, conn, listener, beater, stream, received, failures, restarts>>

\* The broker receives the next label that is on its way.
BrokerReceives ==
  /\ conn = "up"
  /\ received < Len(stream)
  /\ received' = received + 1
  /\ UNCHANGED <<now, session, conn, listener, beater, inbox, issued, stream, failures, restarts>>

-----------------------------------------------------------------------------
\* _publish_state: hands label l to the client.  On a lost connection the
\* publication fails, and the label with it.
Publish(l) == stream' = IF conn = "up" THEN Append(stream, l) ELSE stream

\* The acknowledgement of label number seq is in.
Acked(seq) == conn = "up" /\ seq <= received

Serving == conn # "backoff"

\* command_listener skips a payload that is not a valid command.
ListenerSkips ==
  /\ Serving /\ listener.at = "waiting"
  /\ inbox # <<>> /\ Head(inbox) = Invalid
  /\ inbox' = Tail(inbox)
  /\ UNCHANGED <<now, session, conn, listener, beater, issued, stream, received, failures, restarts>>

\* Mutant: the replacement is announced before the fault it replaces is over.
ListenerAnnouncesFirst ==
  /\ Serving /\ listener.at = "waiting"
  /\ inbox # <<>> /\ Head(inbox) \in Commands
  /\ Active(session) /\ conn = "up"
  /\ inbox' = Tail(inbox)
  /\ session' = Activated(session, Head(inbox), now)
  /\ stream' = stream \o <<ActiveLabel(session', now), ClosingLabel(session, now)>>
  /\ listener' = [at |-> "opening", cmd |-> Head(inbox), seq |-> Len(stream')]
  /\ UNCHANGED <<now, conn, beater, issued, received, failures, restarts>>

\* It ends the running fault first, and publishes the closing label.
ListenerEndsFault ==
  /\ Serving /\ listener.at = "waiting"
  /\ inbox # <<>> /\ Head(inbox) # Invalid
  /\ Active(session)
  /\ inbox' = Tail(inbox)
  /\ session' = Cleared(session)
  /\ Publish(ClosingLabel(session, now))
  /\ listener' = [at |-> "closing", cmd |-> Head(inbox), seq |-> Len(stream) + 1]
  /\ UNCHANGED <<now, conn, beater, issued, received, failures, restarts>>

\* The rest of the handler, with no fault running: nothing more to do for a
\* clear; otherwise activate the fault and publish its first label.
StartFault(cmd) ==
  IF cmd = Clear
    THEN /\ listener' = WaitingListener
         /\ UNCHANGED <<session, stream>>
    ELSE /\ session' = Activated(session, cmd, now)
         /\ Publish(ActiveLabel(Activated(session, cmd, now), now))
         /\ listener' = [at |-> "opening", cmd |-> cmd, seq |-> Len(stream) + 1]

\* Mutant: a command is activated over the running fault.
ListenerStartsOver ==
  /\ Serving /\ listener.at = "waiting"
  /\ inbox # <<>> /\ Head(inbox) # Invalid
  /\ inbox' = Tail(inbox)
  /\ StartFault(Head(inbox))
  /\ UNCHANGED <<now, conn, beater, issued, received, failures, restarts>>

ListenerStartsFault ==
  /\ Serving /\ listener.at = "waiting"
  /\ inbox # <<>> /\ Head(inbox) # Invalid
  /\ ~Active(session)
  /\ inbox' = Tail(inbox)
  /\ StartFault(Head(inbox))
  /\ UNCHANGED <<now, conn, beater, issued, received, failures, restarts>>

\* Mutant: the command that ended the fault is not applied.
ListenerForgetsCommand ==
  /\ listener.at = "closing" /\ Acked(listener.seq)
  /\ listener' = WaitingListener
  /\ UNCHANGED <<now, session, conn, beater, inbox, issued, stream, received, failures, restarts>>

\* The closing label is acknowledged: go on with the command held meanwhile.
ListenerClosed ==
  /\ listener.at = "closing" /\ Acked(listener.seq)
  /\ StartFault(listener.cmd)
  /\ UNCHANGED <<now, conn, beater, inbox, issued, received, failures, restarts>>

ListenerOpened ==
  /\ listener.at = "opening" /\ Acked(listener.seq)
  /\ listener' = WaitingListener
  /\ UNCHANGED <<now, session, conn, beater, inbox, issued, stream, received, failures, restarts>>

Listener == ListenerSkips \/ ListenerEndsFault \/ ListenerStartsFault
              \/ ListenerClosed \/ ListenerOpened

-----------------------------------------------------------------------------
BeaterWakes == Serving /\ beater.at = "sleeping" /\ now >= beater.wake

BeaterPublishing ==
  [at |-> "publishing", wake |-> beater.wake, seq |-> Len(stream) + 1]

\* heartbeat_loop: the duration has lapsed, so end the fault.
BeaterExpires ==
  /\ BeaterWakes /\ Due(session, now)
  /\ session' = Cleared(session)
  /\ Publish(ClosingLabel(session, now))
  /\ beater' = BeaterPublishing
  /\ UNCHANGED <<now, conn, listener, inbox, issued, received, failures, restarts>>

\* Mutant: the heartbeat does not ask whether a fault is active.
BeaterBeatsAlways ==
  /\ BeaterWakes /\ ~Due(session, now)
  /\ Publish(ActiveLabel(session, now))
  /\ beater' = BeaterPublishing
  /\ UNCHANGED <<now, session, conn, listener, inbox, issued, received, failures, restarts>>

BeaterBeats ==
  /\ BeaterWakes /\ Active(session) /\ ~Due(session, now)
  /\ Publish(ActiveLabel(session, now))
  /\ beater' = BeaterPublishing
  /\ UNCHANGED <<now, session, conn, listener, inbox, issued, received, failures, restarts>>

BeaterIdles ==
  /\ BeaterWakes /\ ~Active(session)
  /\ beater' = SleepingBeater(now)
  /\ UNCHANGED <<now, session, conn, listener, inbox, issued, stream, received, failures, restarts>>

BeaterSleeps ==
  /\ beater.at = "publishing" /\ Acked(beater.seq)
  /\ beater' = SleepingBeater(now)
  /\ UNCHANGED <<now, session, conn, listener, inbox, issued, stream, received, failures, restarts>>

Beater == BeaterExpires \/ BeaterBeats \/ BeaterIdles \/ BeaterSleeps

-----------------------------------------------------------------------------
\* fault_worker: the connection's life.

\* A label that was still on its way when the connection ends is lost.
LoseUnsent == stream' = Wire

CountFailure == failures < MaxFailures /\ failures' = failures + 1

\* Both tasks are cancelled where they are suspended; the next connection
\* starts with an empty queue of messages.
CancelTasks ==
  /\ inbox' = <<>>
  /\ listener' = WaitingListener
  /\ beater' = SleepingBeater(now)

\* The connection breaks; the tasks will find out.
LinkLost ==
  /\ conn = "up" /\ CountFailure
  /\ conn' = "dead"
  /\ LoseUnsent
  /\ UNCHANGED <<now, session, listener, beater, inbox, issued, received, restarts>>

\* Mutant: the loss of the connection is never noticed.
TasksNeverFail == FALSE /\ UNCHANGED vars

\* A task notices: its publication fails, or its iteration of messages ends.
TasksFail ==
  /\ conn = "dead"
  /\ conn' = "backoff"
  /\ CancelTasks
  /\ UNCHANGED <<now, session, issued, stream, received, failures, restarts>>

\* An acknowledgement takes too long on a connection that is alive.
PublishTimesOut ==
  /\ conn = "up" /\ CountFailure
  /\ listener.at # "waiting" \/ beater.at = "publishing"
  /\ conn' = "backoff"
  /\ CancelTasks
  /\ LoseUnsent
  /\ UNCHANGED <<now, session, issued, received, restarts>>

\* Connect, subscribe and start the two tasks.
Connect ==
  /\ conn = "backoff"
  /\ conn' = "up"
  /\ beater' = SleepingBeater(now)
  /\ UNCHANGED <<now, session, listener, inbox, issued, stream, received, failures, restarts>>

\* The process is stopped or dies, and is started again: the session is lost.
Restart ==
  /\ restarts < MaxRestarts
  /\ restarts' = restarts + 1
  /\ conn' = "backoff"
  /\ session' = NewSession
  /\ CancelTasks
  /\ LoseUnsent
  /\ UNCHANGED <<now, issued, received, failures>>

Worker == TasksFail \/ Connect

Next ==
  \/ Tick
  \/ \E m \in Messages : Deliver(m)
  \/ BrokerReceives
  \/ Listener
  \/ Beater
  \/ Worker
  \/ LinkLost
  \/ PublishTimesOut
  \/ Restart

Spec == Init /\ [][Next]_vars

\* Time passes, the broker reads what it is sent, and the event loop runs
\* every task that can run.  Nothing obliges a failure or a command to happen.
FairSpec ==
  /\ Spec
  /\ WF_vars(Tick)
  /\ WF_vars(BrokerReceives)
  /\ WF_vars(Listener)
  /\ WF_vars(Beater)
  /\ WF_vars(Worker)

-----------------------------------------------------------------------------
\* Safety.

\* Two tasks publish labels, each suspended between changing the session and
\* hearing from the broker.  Whatever their order, an experiment is closed at
\* most once and no late heartbeat follows its closing label.
NothingAfterClosing == ClosedForGood(stream)

\* A replacement ends the old fault before it starts the new one, also when
\* the closing label's acknowledgement is slow or never comes: labelled
\* intervals, lost labels and restarts included, never overlap.
ExperimentsDisjoint ==
  StampsOrdered(stream) /\ StartIsFact(stream) /\ IntervalsDisjoint(stream)

\* "Every labelled interval is closed" (session.py, ADR-0002): an experiment
\* that was opened and no longer runs has its closing label.
NoIntervalLeftOpen ==
  \A i \in DOMAIN stream :
    stream[i].active /\ stream[i].id # session.command
      => \E j \in DOMAIN stream : stream[j].id = stream[i].id /\ ~stream[j].active

\* It is so as long as nothing has failed, whatever the two tasks do: each
\* end of a fault, by clear, replacement or expiry, has published its label.
ClosedUnlessFailure == failures = 0 /\ restarts = 0 => NoIntervalLeftOpen

\* The broker sees what LabelStream describes.
LS == INSTANCE LabelStream WITH wire <- Wire
ImplementsLabelStream == LS!Spec

-----------------------------------------------------------------------------
\* The inductive invariant behind the safety properties.

\* No label, not even of the running fault, mentions command c.
Fresh(c) == c \in issued /\ c # session.command /\ c \notin Ids(stream)

LabelsArePast ==
  \A i \in DOMAIN stream : stream[i].stamp <= now /\ stream[i].id \in issued

\* Whichever task speaks for the running fault next, its label fits.
SessionFits ==
  Active(session) =>
    session.command \in issued /\ Fits(stream, ActiveLabel(session, now))

\* The commands waiting for their turn, in the inbox or with the listener,
\* differ from each other and from every command that had its turn.
CommandsAreNew ==
  /\ \A i \in DOMAIN inbox :
       inbox[i] \in Commands =>
         Fresh(inbox[i]) /\ \A j \in DOMAIN inbox : inbox[j] = inbox[i] => j = i
  /\ listener.at = "closing" =>
       /\ ~Active(session)
       /\ listener.cmd \in Commands \union {Clear}
       /\ listener.cmd \in Commands =>
            Fresh(listener.cmd) /\ \A i \in DOMAIN inbox : inbox[i] # listener.cmd

\* A fault only ever starts on an idle session and with a command nobody has
\* heard of, and all that was said before is no later than now: what makes
\* any interleaving of the two tasks publish a readable stream.
IInv ==
  /\ TypeOK
  /\ WellFormed(stream)
  /\ LabelsArePast
  /\ SessionFits
  /\ CommandsAreNew

-----------------------------------------------------------------------------
\* Liveness.

\* No fault outlives its duration for ever, even when it lapses during an
\* outage that also cancels the task that would have ended it.
FaultEnds == \A c \in Commands : session.command = c ~> session.command # c

Recorded(c) ==
  {TRUE, FALSE} \subseteq {Wire[i].active : i \in {j \in DOMAIN Wire : Wire[j].id = c}}

\* As long as nothing fails, every fault command that reaches the injector
\* is injected and ended, and the broker has both labels: none is forgotten
\* behind a replacement that waits for an acknowledgement.
EveryCommandRecorded ==
  \A c \in Commands : c \in issued ~> (Recorded(c) \/ failures > 0 \/ restarts > 0)
=============================================================================
