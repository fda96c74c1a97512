----------------------------- MODULE StateStream -----------------------------
(***************************************************************************)
(* state_svc: telemetry folds into the latest value of each channel        *)
(* (window.py) as it is read, a second task publishes a state whenever     *)
(* something was read since the last one (consumer.py), and each           *)
(* StreamState call has a mailbox of one (grpc_server.py).                 *)
(*                                                                         *)
(* Values are named by the stamp of the sample they are of, so a state     *)
(* tells which sample each of its channels shows.  Kinematics and the RMS  *)
(* are computed from those values and left out.                            *)
(***************************************************************************)
EXTENDS Naturals, Sequences

CONSTANTS Channels,       \* 1..n, in the order the bridge sends them
          Stamps,         \* the samples taken, named by their stamps
          Subscribers,    \* the callers of StreamState
          Limited,        \* those of them that ask for a maximal rate
          Flow,           \* bound: states on their way to one subscriber
          MaxFailures     \* bound: restarts

ASSUME TelemetryType == Channels \subseteq Nat \ {0} /\ Channels # {} /\ Stamps \subseteq Nat \ {0}
ASSUME SubscribersType == Limited \subseteq Subscribers
ASSUME BoundsType == Flow \in Nat \ {0} /\ MaxFailures \in Nat

VARIABLES
  mqtt,       \* _mqtt_connected
  lastRead,   \* the last message read
  latest,     \* _latest: of each channel the stamp it was last read with, or 0
  dirty,      \* _dirty: something was read since the last state
  hub,        \* the hub's latest state
  call,       \* each subscriber's call: "none", "open", or "broken"
  stream,     \* whether the service serves it, its mailbox, and what it was sent
  rpc,        \* the states on their way to it
  failures    \* restarts so far

svcVars == <<mqtt, lastRead, latest, dirty, hub>>

streamVars == <<call, stream, rpc>>

\* The topic of a message names its channel.
Message == [stamp: Stamps, channel: Channels]

NothingRead == [stamp |-> 0, channel |-> 0]

\* A state shows a sample of every channel (the fields of each joint).
State == [Channels -> Stamps]

NoState == [c \in Channels |-> 0]

AtLeast(s, t) == \A c \in Channels : t[c] <= s[c]

Mailbox == {<<>>} \union {<<s>> : s \in State}

NotServed == [served |-> FALSE, mailbox |-> <<>>, sent |-> FALSE]

StreamTypeOK ==
  /\ mqtt \in BOOLEAN
  /\ lastRead \in Message \union {NothingRead}
  /\ latest \in [Channels -> Stamps \union {0}]
  /\ dirty \in BOOLEAN
  /\ hub \in State \union {NoState}
  /\ call \in [Subscribers -> {"none", "open", "broken"}]
  /\ stream \in [Subscribers -> [served: BOOLEAN, mailbox: Mailbox, sent: BOOLEAN]]
  /\ rpc \in [Subscribers -> Seq(State)] /\ \A c \in Subscribers : Len(rpc[c]) <= Flow
  /\ failures \in 0..MaxFailures

StreamInit ==
  /\ mqtt = FALSE
  /\ lastRead = NothingRead
  /\ latest = NoState
  /\ dirty = FALSE
  /\ hub = NoState
  /\ call = [c \in Subscribers |-> "none"]
  /\ stream = [c \in Subscribers |-> NotServed]
  /\ rpc = [c \in Subscribers |-> <<>>]
  /\ failures = 0

-----------------------------------------------------------------------------
\* Consumer: telemetry, QoS 0, in order and with losses.

Connect ==
  /\ ~mqtt
  /\ mqtt' = TRUE
  /\ UNCHANGED <<lastRead, latest, dirty, hub, streamVars, failures>>

Disconnected ==
  /\ mqtt
  /\ mqtt' = FALSE
  /\ UNCHANGED <<lastRead, latest, dirty, hub, streamVars, failures>>

Comes(m) ==
  \/ m.stamp > lastRead.stamp
  \/ m.stamp = lastRead.stamp /\ m.channel > lastRead.channel

\* RollingWindow.observe keeps the last value of each channel.
Folded(m) == [latest EXCEPT ![m.channel] = m.stamp]

Observe(m) ==
  /\ mqtt
  /\ Comes(m)
  /\ lastRead' = m
  /\ latest' = Folded(m)
  /\ dirty' = TRUE
  /\ UNCHANGED <<mqtt, hub, streamVars, failures>>

Complete == \A c \in Channels : latest[c] # 0

\* Mutant: states are queued for a subscriber that lags.
Queued(s) ==
  [c \in Subscribers |-> IF stream[c].served THEN [stream[c] EXCEPT !.mailbox = Append(@, s)]
                                             ELSE stream[c]]

\* Mutant: a full mailbox keeps the state it holds.
Kept(s) ==
  [c \in Subscribers |-> IF stream[c].served /\ stream[c].mailbox = <<>>
                           THEN [stream[c] EXCEPT !.mailbox = <<s>>]
                           ELSE stream[c]]

\* StateHub.publish: the latest state takes the place of what a mailbox holds.
Mailed(s) ==
  [c \in Subscribers |-> IF stream[c].served THEN [stream[c] EXCEPT !.mailbox = <<s>>]
                                             ELSE stream[c]]

\* Mutant: a state is built of the channels that have arrived.
BroadcastPartial ==
  /\ dirty
  /\ dirty' = FALSE
  /\ hub' = latest /\ stream' = Mailed(latest)
  /\ UNCHANGED <<mqtt, lastRead, latest, call, rpc, failures>>

\* _broadcast_forever: nothing is published before every channel has arrived.
Broadcast ==
  /\ dirty
  /\ dirty' = FALSE
  /\ IF Complete THEN hub' = latest /\ stream' = Mailed(latest)
                 ELSE UNCHANGED <<hub, stream>>
  /\ UNCHANGED <<mqtt, lastRead, latest, call, rpc, failures>>

\* /healthz/ready of state-svc answers 200.
SvcReady == mqtt

-----------------------------------------------------------------------------
\* StreamState.

\* A call is served from when its generator runs; it starts with no state.
Subscribe(c) ==
  /\ call[c] = "open" /\ ~stream[c].served
  /\ stream' = [stream EXCEPT ![c] = [NotServed EXCEPT !.served = TRUE]]
  /\ UNCHANGED <<svcVars, call, rpc, failures>>

\* The next state is taken when the one before has gone out.
Send(c) ==
  /\ stream[c].mailbox # <<>>
  /\ Len(rpc[c]) < Flow
  /\ rpc' = [rpc EXCEPT ![c] = Append(@, Head(stream[c].mailbox))]
  /\ stream' = [stream EXCEPT ![c].mailbox = <<>>, ![c].sent = TRUE]
  /\ UNCHANGED <<svcVars, call, failures>>

\* A state that comes too soon after the last one sent is dropped.
Skip(c) ==
  /\ c \in Limited /\ stream[c].sent
  /\ stream[c].mailbox # <<>>
  /\ Len(rpc[c]) < Flow
  /\ stream' = [stream EXCEPT ![c].mailbox = <<>>]
  /\ UNCHANGED <<svcVars, call, rpc, failures>>

\* A caller calls, and is done with its call: cancelled or broken.
CallOpens(c) == call' = [call EXCEPT ![c] = "open"]

CallsEnd(cs) ==
  /\ call' = [c \in Subscribers |-> IF c \in cs THEN "none" ELSE call[c]]
  /\ stream' = [c \in Subscribers |-> IF c \in cs THEN NotServed ELSE stream[c]]
  /\ rpc' = [c \in Subscribers |-> IF c \in cs THEN <<>> ELSE rpc[c]]

\* The service restarts with nothing; every call it served breaks.
Crash ==
  /\ failures < MaxFailures /\ failures' = failures + 1
  /\ mqtt' = FALSE
  /\ latest' = NoState
  /\ dirty' = FALSE
  /\ hub' = NoState
  /\ call' = [c \in Subscribers |-> IF stream[c].served THEN "broken" ELSE call[c]]
  /\ stream' = [c \in Subscribers |-> NotServed]
  /\ UNCHANGED <<lastRead, rpc>>
=============================================================================
