------------------------------ MODULE CommandPath ------------------------------
(***************************************************************************)
(* A setpoint's way from POST /command to the robot: CommandPublisher, the *)
(* broker, and the bridge's command_worker (bridge/main.py), which hands   *)
(* each valid command to the ROS node that publishes the trajectory.       *)
(*                                                                         *)
(* The broker delivers a command to the bridge when it receives it, if the *)
(* bridge is connected then: its session is clean, nothing is kept for it. *)
(* A lost connection ends the iteration of messages when those that had    *)
(* arrived have been taken.                                                *)
(***************************************************************************)
EXTENDS CommandPublisher, Sequences

CONSTANTS Stray,          \* a message on the topic that is not a valid command
          MaxOutages,     \* bound: connections the bridge loses, and restarts of it
          MaxWaiting      \* bound: messages waiting when another stray one comes

ASSUME StrayIsNoRequest == Stray \notin Requests
ASSUME PathBoundsType == MaxOutages \in Nat /\ MaxWaiting \in Nat

VARIABLES
  bridge,     \* command_worker: "backoff", "listening", or "dead": its connection is lost
  inbox,      \* messages delivered to it and not yet taken
  told,       \* the requests whose command the robot has been sent
  after,      \* history: of each request those accepted before it was posted
  outages,    \* outages of the bridge so far
  restarted   \* history: one of them was a restart

bridgeVars == <<bridge, inbox, told, after, outages, restarted>>

pathVars == <<vars, bridgeVars>>

PathTypeOK ==
  /\ TypeOK
  /\ bridge \in {"backoff", "listening", "dead"}
  /\ inbox \in Seq(Requests \union {Stray})
  /\ told \subseteq Requests
  /\ after \in [Requests -> SUBSET Requests]
  /\ outages \in 0..MaxOutages
  /\ restarted \in BOOLEAN

PathInit ==
  /\ Init
  /\ bridge = "backoff"
  /\ inbox = <<>>
  /\ told = {}
  /\ after = [r \in Requests |-> {}]
  /\ outages = 0
  /\ restarted = FALSE

-----------------------------------------------------------------------------
\* command-svc and its clients.

Publisher == (Connect \/ Disconnected \/ LinkLost \/ \E r \in Requests : Serve(r)) /\ UNCHANGED bridgeVars

Waiting(r) == \E i \in DOMAIN inbox : inbox[i] = r

\* Posting again makes another command of r.  (Bound: one at a time waits for
\* the bridge.)
PostAgain(r) ==
  /\ Post(r)
  /\ ~Waiting(r)
  /\ told' = told \ {r}
  /\ after' = [q \in Requests |->
                 IF q = r THEN {p \in Requests \ {r} : request[p].at = "accepted"} ELSE after[q] \ {r}]
  /\ UNCHANGED <<bridge, inbox, outages, restarted>>

Delivered(m) == inbox' = IF bridge = "listening" THEN Append(inbox, m) ELSE inbox

\* The broker receives a command, and passes it on.
BrokerPasses(r) ==
  /\ BrokerReceives(r)
  /\ r \notin received
  /\ Delivered(r)
  /\ UNCHANGED <<bridge, told, after, outages, restarted>>

\* Somebody else publishes on the topic.
StrayComes ==
  /\ bridge = "listening" /\ Len(inbox) < MaxWaiting
  /\ Delivered(Stray)
  /\ UNCHANGED <<vars, bridge, told, after, outages, restarted>>

-----------------------------------------------------------------------------
\* command_worker

BridgeConnects ==
  /\ bridge = "backoff"
  /\ bridge' = "listening"
  /\ UNCHANGED <<vars, inbox, told, after, outages, restarted>>

\* A setpoint that passes JointCommand's validation.
Valid(m) == m # Stray

Iterating == bridge \in {"listening", "dead"}

\* publish_command sends the robot a trajectory: home, or the joints named.
Tell(r) == told' = told \union {r}

\* Mutant: the newest of the commands waiting is forwarded.
ForwardNewest ==
  /\ Iterating /\ inbox # <<>> /\ Valid(inbox[Len(inbox)])
  /\ inbox' = SubSeq(inbox, 1, Len(inbox) - 1)
  /\ Tell(inbox[Len(inbox)])
  /\ UNCHANGED <<vars, bridge, after, outages, restarted>>

\* Messages are taken in the order they came, and forwarded at once.
Forward ==
  /\ Iterating /\ inbox # <<>> /\ Valid(Head(inbox))
  /\ inbox' = Tail(inbox)
  /\ Tell(Head(inbox))
  /\ UNCHANGED <<vars, bridge, after, outages, restarted>>

\* Mutant: the exception of a message that is not valid ends the worker.
SkipEndsWorker ==
  /\ Iterating /\ inbox # <<>> /\ ~Valid(Head(inbox))
  /\ bridge' = "ended"
  /\ UNCHANGED <<vars, inbox, told, after, outages, restarted>>

\* A message that is not a valid command is skipped.
SkipStray ==
  /\ Iterating /\ inbox # <<>> /\ ~Valid(Head(inbox))
  /\ inbox' = Tail(inbox)
  /\ UNCHANGED <<vars, bridge, told, after, outages, restarted>>

BridgeDisconnected ==
  /\ bridge = "dead" /\ inbox = <<>>
  /\ bridge' = "backoff"
  /\ UNCHANGED <<vars, inbox, told, after, outages, restarted>>

CountOutage == outages < MaxOutages /\ outages' = outages + 1

BridgeLinkLost ==
  /\ bridge = "listening" /\ CountOutage
  /\ bridge' = "dead"
  /\ UNCHANGED <<vars, inbox, told, after, restarted>>

\* The bridge is stopped, with whatever it had not forwarded, and started.
BridgeRestarts ==
  /\ CountOutage
  /\ bridge' = "backoff"
  /\ inbox' = <<>>
  /\ restarted' = TRUE
  /\ UNCHANGED <<vars, told, after>>

Worker == BridgeConnects \/ Forward \/ SkipStray \/ BridgeDisconnected

PathNext ==
  \/ Publisher
  \/ \E r \in Requests : PostAgain(r) \/ BrokerPasses(r)
  \/ StrayComes
  \/ Worker
  \/ BridgeLinkLost
  \/ BridgeRestarts

PathSpec == PathInit /\ [][PathNext]_pathVars

\* As in CommandPublisher, and the bridge's event loop runs its worker.
FairPathSpec ==
  /\ PathSpec
  /\ WF_pathVars(Connect /\ UNCHANGED bridgeVars)
  /\ WF_pathVars(Disconnected /\ UNCHANGED bridgeVars)
  /\ \A r \in Requests : WF_pathVars(Serve(r) /\ UNCHANGED bridgeVars) /\ WF_pathVars(BrokerPasses(r))
  /\ WF_pathVars(Worker)

-----------------------------------------------------------------------------
\* Safety.

\* The robot never moves to a setpoint that was accepted before one it has
\* already been sent was posted: a client that waits for each receipt is
\* followed in its order, over outages of either service and with any number
\* of other clients.
FollowsReceipts ==
  [][\A q, r \in Requests : q \in told' \ told /\ q \in after[r] => r \notin told]_pathVars

\* The inductive invariant behind it.  What was accepted before r was posted
\* was received before it: it is told by now, lost, or waits before r does.
AcceptedAreAhead ==
  \A r \in Requests : \A q \in after[r] :
    /\ q # r /\ request[q].at = "accepted" /\ q \in received
    /\ Waiting(q) => r \notin told
    /\ \A i, j \in DOMAIN inbox : inbox[i] = q /\ inbox[j] = r => i < j

-----------------------------------------------------------------------------
\* Liveness.

\* "Losing a setpoint is a missing robot motion" (publisher.py): what reaches
\* the bridge is carried out, whatever else is sent on the topic and even if
\* the connection is lost meanwhile; only a restart of the bridge may drop it.
DeliveredIsTold ==
  \A r \in Requests : Waiting(r) ~> (r \in told \/ restarted)
=============================================================================
