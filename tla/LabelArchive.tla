---------------------------- MODULE LabelArchive ----------------------------
(***************************************************************************)
(* telemetry_svc/ingest.py: the sole writer of the database, seen from the *)
(* fault labels it subscribes to.  Labels reach it from any injector that  *)
(* implements LabelStream; telemetry and scores share its queue and its    *)
(* one-write-at-a-time loop.  A write that fails is counted and dropped.   *)
(***************************************************************************)
EXTENDS FaultDataset

CONSTANTS Reading,        \* a telemetry or score message
          Malformed,      \* a message that fails its contract
          Nothing,        \* no write in progress
          Grain,          \* by how much, at most, ToNs puts a time back
          Times,          \* bound: the clock readings labels may carry
          MaxLabels,      \* bound: labels published
          MaxQueue,       \* bound: messages waiting for the loop
          MaxFailures     \* bound: lost connections, failed writes and restarts

ASSUME MessagesType == {Reading, Malformed, Nothing} \intersect Label = {} /\ Nothing # Reading
ASSUME TimesType == Times \subseteq Nat
ASSUME GrainType == Grain \in Nat \ {0}
ASSUME ReadBack == \A t \in Times : ToNs(t) \in Nat /\ ToNs(t) <= t /\ t < ToNs(t) + Grain
ASSUME FailuresType == MaxFailures \in Nat

VARIABLES
  wire,       \* the labels the broker has received
  conn,       \* "backoff", "up", or "dead": lost, but messages are still queued
  queue,      \* messages received and not yet handled
  writing,    \* the message whose write the loop awaits
  db,         \* the rows of fault_state
  ready,      \* what readiness() reports of each dependency
  failures    \* failures so far

vars == <<wire, conn, queue, writing, db, ready, failures>>

Message == Label \union {Reading, Malformed}

TypeOK ==
  /\ wire \in Seq(Label)
  /\ conn \in {"backoff", "up", "dead"}
  /\ queue \in Seq(Message)
  /\ writing \in Label \union {Reading, Nothing}
  /\ db \subseteq Label
  /\ ready \in [mqtt: BOOLEAN, influxdb: BOOLEAN]
  /\ failures \in 0..MaxFailures

Init ==
  /\ wire = <<>>
  /\ conn = "backoff"
  /\ queue = <<>>
  /\ writing = Nothing
  /\ db = {}
  /\ ready = [mqtt |-> FALSE, influxdb |-> FALSE]
  /\ failures = 0

CountFailure == failures < MaxFailures /\ failures' = failures + 1

\* The subscription delivers m, if there is one: the broker keeps nothing
\* for a clean session that is not connected.
Delivered(m) == queue' = IF conn = "up" THEN Append(queue, m) ELSE queue

\* The broker receives a label the injector may send next.
Publish(l) ==
  /\ Len(wire) < MaxLabels /\ Len(queue) < MaxQueue
  /\ Admissible(wire, l)
  /\ wire' = Append(wire, l)
  /\ Delivered(l)
  /\ UNCHANGED <<conn, writing, db, ready, failures>>

\* Any other message: a reading to be written or one to be rejected.
Arrive(m) ==
  /\ conn = "up" /\ Len(queue) < MaxQueue
  /\ Delivered(m)
  /\ UNCHANGED <<wire, conn, writing, db, ready, failures>>

\* _consume: connect, ping the database, subscribe.
Connect(ping) ==
  /\ conn = "backoff"
  /\ conn' = "up"
  /\ ready' = [mqtt |-> TRUE, influxdb |-> ping]
  /\ UNCHANGED <<wire, queue, writing, db, failures>>

Idle == conn # "backoff" /\ writing = Nothing

\* Mutant: a message is written without being validated.
TakeUnvalidated ==
  /\ Idle /\ queue # <<>>
  /\ queue' = Tail(queue)
  /\ writing' = Head(queue)
  /\ UNCHANGED <<wire, conn, db, ready, failures>>

\* Take the next message; a valid one has its write awaited.
Take ==
  /\ Idle /\ queue # <<>>
  /\ queue' = Tail(queue)
  /\ writing' = IF Head(queue) = Malformed THEN Nothing ELSE Head(queue)
  /\ UNCHANGED <<wire, conn, db, ready, failures>>

Store == db' = IF writing \in Label THEN Written(db, writing) ELSE db

WriteSucceeds ==
  /\ writing # Nothing
  /\ Store
  /\ writing' = Nothing
  /\ ready' = [ready EXCEPT !.influxdb = TRUE]
  /\ UNCHANGED <<wire, conn, queue, failures>>

\* Mutant: the exception of a failed write ends the loop.
WriteFailureEndsLoop ==
  /\ writing # Nothing /\ CountFailure
  /\ conn' = "ended"
  /\ UNCHANGED <<wire, queue, writing, db, ready>>

\* The write raises; the database may have stored the row all the same.
WriteFails ==
  /\ writing # Nothing /\ CountFailure
  /\ Store \/ UNCHANGED db
  /\ writing' = Nothing
  /\ ready' = [ready EXCEPT !.influxdb = FALSE]
  /\ UNCHANGED <<wire, conn, queue>>

\* The connection breaks; the messages it has delivered are still queued.
LinkLost ==
  /\ conn = "up" /\ CountFailure
  /\ conn' = "dead"
  /\ UNCHANGED <<wire, queue, writing, db, ready>>

\* Mutant: the loss of the broker is not recorded.
DisconnectedSilently ==
  /\ conn = "dead" /\ Idle /\ queue = <<>>
  /\ conn' = "backoff"
  /\ UNCHANGED <<wire, queue, writing, db, ready, failures>>

\* The iteration of messages has nothing left to give, and raises.
Disconnected ==
  /\ conn = "dead" /\ Idle /\ queue = <<>>
  /\ conn' = "backoff"
  /\ ready' = [ready EXCEPT !.mqtt = FALSE]
  /\ UNCHANGED <<wire, queue, writing, db, failures>>

\* The process dies and is started again, its last write done or not.
Restart ==
  /\ CountFailure
  /\ conn' = "backoff"
  /\ queue' = <<>>
  /\ Store \/ UNCHANGED db
  /\ writing' = Nothing
  /\ ready' = [mqtt |-> FALSE, influxdb |-> FALSE]
  /\ UNCHANGED wire

Loop == (\E ping \in BOOLEAN : Connect(ping)) \/ Take \/ WriteSucceeds \/ Disconnected

Next ==
  \/ \E l \in [id: Commands, active: BOOLEAN, started: Times, stamp: Times] : Publish(l)
  \/ \E m \in {Reading, Malformed} : Arrive(m)
  \/ Loop
  \/ WriteFails
  \/ LinkLost
  \/ Restart

Spec == Init /\ [][Next]_vars

\* The event loop runs the service; writes end, one way or the other.
FairSpec == Spec /\ WF_vars(Loop)

-----------------------------------------------------------------------------
\* Safety.

\* Whatever labels are lost on the way, whatever order the database answers
\* in, an interval of the dataset is made of what the injector said of that
\* fault: it starts at the injection and ends at the time of one of its
\* labels as the query reads it, which may put the end before the start (if
\* no label but the opening is stored) but by less than the grain.  And two
\* faults never claim the same time.
DatasetSound ==
  \A rank \in TableOrders : \A f \in FaultIntervals(db, rank) :
    /\ \E i \in DOMAIN wire :
         wire[i].id = f.id /\ f.start = wire[i].started /\ f.end = ToNs(wire[i].stamp)
    /\ f.start < f.end + Grain
    /\ \A g \in FaultIntervals(db, rank) : f.id # g.id => f.end <= g.start \/ g.end <= f.start

ClosingRows(c) == {l \in RowsOf(db, c) : ~l.active}

\* "One interval per experiment" (query.py): a fault whose closing label is
\* in the database ends at that label.
EndIsClosing ==
  \A rank \in TableOrders : \A f \in FaultIntervals(db, rank) :
    \A l \in ClosingRows(f.id) : f.end = ToNs(l.stamp)

\* It does if the table of closing labels is the last to be read: then the
\* labels lost before it, the opening included, do not matter.
EndIsClosingWhenLast ==
  \A rank \in TableOrders :
    (\A t \in AllTags : rank[t] <= rank[[joint |-> AllJoints, kind |-> NoKind]])
      => \A f \in FaultIntervals(db, rank) : \A l \in ClosingRows(f.id) : f.end = ToNs(l.stamp)

-----------------------------------------------------------------------------
\* Liveness.

\* /healthz/ready answers 200.
Ready == ready.mqtt /\ ready.influxdb

\* A lost broker shows in readiness, after the queue it left has drained.
BrokerLossShows == conn = "dead" ~> ~ready.mqtt

\* "Recovery needs no manual step" (ingest.py): the service is always
\* connected again, with nothing left half done.  It is ready again, too, if
\* telemetry keeps coming: that the database is back shows in a write only.
Recovers ==
  /\ []<>(conn = "up" /\ ready.mqtt /\ writing = Nothing)
  /\ []<><<Arrive(Reading)>>_vars => []<>Ready
=============================================================================
