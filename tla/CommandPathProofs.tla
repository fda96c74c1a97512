-------------------------- MODULE CommandPathProofs --------------------------
(***************************************************************************)
(* The safety of command_svc and of a setpoint's way to the robot, for any *)
(* number of requests, of lost connections and of outages, whether or not  *)
(* the broker is slow.                                                     *)
(***************************************************************************)
EXTENDS CommandPath, TLAPS

-----------------------------------------------------------------------------
\* CommandPublisher

LEMMA ConnectionsAreNumbers == Connections \subseteq Nat /\ \A k \in Connections : k <= MaxLosses + 1
  BY BoundsType DEF Connections

\* A connection is lost before the next is opened, and run() can only lose
\* MaxLosses of them: the last one stays.
Budget == (run = "backoff" \/ link = "dead") => cur <= MaxLosses

TypeInv == TypeOK /\ Budget

LEMMA TypeInit == Init => TypeInv
  BY BoundsType DEF Init, TypeInv, TypeOK, Budget

LEMMA TypeNext == TypeInv /\ [Next]_vars => TypeInv'
<1> USE BoundsType DEF TypeInv, TypeOK, Budget, Connections
<1> SUFFICES ASSUME TypeInv, [Next]_vars PROVE TypeInv'
  OBVIOUS
<1>1. CASE Connect
  BY <1>1 DEF Connect
<1>2. CASE Disconnected
  BY <1>2 DEF Disconnected
<1>3. CASE LinkLost
  BY <1>3 DEF LinkLost
<1>4. ASSUME NEW r \in Requests, Post(r) PROVE TypeInv'
  BY <1>4 DEF Post
<1>5. ASSUME NEW r \in Requests, Refuse(r) PROVE TypeInv'
  BY <1>5 DEF Refuse, Answer
<1>6. ASSUME NEW r \in Requests, Send(r) PROVE TypeInv'
  BY <1>6 DEF Send
<1>7. ASSUME NEW r \in Requests, PublishFails(r) PROVE TypeInv'
  BY <1>7 DEF PublishFails, Answer
<1>8. ASSUME NEW r \in Requests, BrokerReceives(r) PROVE TypeInv'
  BY <1>8 DEF BrokerReceives
<1>9. ASSUME NEW r \in Requests, Acknowledged(r) PROVE TypeInv'
  BY <1>9 DEF Acknowledged, Answer
<1>10. CASE UNCHANGED vars
  BY <1>10 DEF vars
<1> QED
  BY <1>1, <1>2, <1>3, <1>4, <1>5, <1>6, <1>7, <1>8, <1>9, <1>10 DEF Next, Serve

\* Every variable stays within its type, whatever the losses and the answers.
THEOREM CommandTypes == Spec => []TypeOK
<1>1. Spec => []TypeInv
  BY TypeInit, TypeNext, PTL DEF Spec
<1> QED
  BY <1>1, PTL DEF TypeInv

-----------------------------------------------------------------------------
\* A 202 is only ever given for a command that the broker has received.
THEOREM AcceptedIsReceived == Spec => []AcceptedWasReceived
<1>1. Init => AcceptedWasReceived
  BY DEF Init, AcceptedWasReceived
<1>2. TypeOK /\ AcceptedWasReceived /\ [Next]_vars => AcceptedWasReceived'
  <2> USE DEF TypeOK, AcceptedWasReceived
  <2> SUFFICES ASSUME TypeOK, AcceptedWasReceived, [Next]_vars PROVE AcceptedWasReceived'
    OBVIOUS
  <2>1. CASE Connect \/ Disconnected \/ LinkLost \/ UNCHANGED vars
    BY <2>1 DEF Connect, Disconnected, LinkLost, vars
  <2>2. ASSUME NEW r \in Requests, Post(r) PROVE AcceptedWasReceived'
    BY <2>2 DEF Post
  <2>3. ASSUME NEW r \in Requests, Serve(r) PROVE AcceptedWasReceived'
    BY <2>3 DEF Serve, Refuse, Send, PublishFails, Acknowledged, Answer
  <2>4. ASSUME NEW r \in Requests, BrokerReceives(r) PROVE AcceptedWasReceived'
    BY <2>4 DEF BrokerReceives
  <2> QED
    BY <2>1, <2>2, <2>3, <2>4 DEF Next
<1> QED
  BY <1>1, <1>2, CommandTypes, PTL DEF Spec

\* No request is ever sent on a connection that run() has given up.
THEOREM SentOnCurrent == Spec => []ClientIsCurrent
<1>1. Init => ClientIsCurrent
  BY DEF Init, ClientIsCurrent
<1>2. ClientIsCurrent /\ [Next]_vars => ClientIsCurrent'
  <2> USE DEF ClientIsCurrent
  <2> SUFFICES ASSUME ClientIsCurrent, [Next]_vars PROVE ClientIsCurrent'
    OBVIOUS
  <2>1. CASE Connect \/ Disconnected \/ LinkLost \/ UNCHANGED vars
    BY <2>1 DEF Connect, Disconnected, LinkLost, vars
  <2>2. ASSUME NEW r \in Requests, Post(r) \/ Serve(r) \/ BrokerReceives(r)
        PROVE  ClientIsCurrent'
    BY <2>2 DEF Post, Serve, Refuse, Send, PublishFails, Acknowledged, BrokerReceives
  <2> QED
    BY <2>1, <2>2 DEF Next
<1> QED
  BY <1>1, <1>2, PTL DEF Spec

-----------------------------------------------------------------------------
\* CommandPath

\* A step of the path is a step of command_svc, or none.
LEMMA PathStep == [PathNext]_pathVars => [Next]_vars
<1> SUFFICES ASSUME [PathNext]_pathVars PROVE [Next]_vars
  OBVIOUS
<1>1. CASE Publisher
  BY <1>1 DEF Publisher, Next
<1>2. ASSUME NEW r \in Requests, PostAgain(r) \/ BrokerPasses(r) PROVE Next
  BY <1>2 DEF PostAgain, BrokerPasses, Next
<1>3. CASE StrayComes
  BY <1>3 DEF StrayComes, vars
<1>4. CASE Worker
  BY <1>4, Zenon DEF Worker, BridgeConnects, Forward, SkipStray, BridgeDisconnected, vars
<1>5. CASE BridgeLinkLost \/ BridgeRestarts
  BY <1>5, Zenon DEF BridgeLinkLost, BridgeRestarts, vars
<1>6. CASE UNCHANGED pathVars
  BY <1>6 DEF pathVars
<1> QED
  BY <1>1, <1>2, <1>3, <1>4, <1>5, <1>6 DEF PathNext

\* The path implements command_svc alone: what is proved of it holds here too,
\* whatever the bridge, and whoever else is on the topic, does.
THEOREM PathIsPublisher == PathSpec => Spec
<1>1. PathInit => Init
  BY DEF PathInit
<1> QED
  BY <1>1, PathStep, PTL DEF PathSpec, Spec

-----------------------------------------------------------------------------
LEMMA PathTypeNext == PathTypeOK /\ TypeOK' /\ [PathNext]_pathVars => PathTypeOK'
<1> SUFFICES ASSUME PathTypeOK, TypeOK', [PathNext]_pathVars PROVE PathTypeOK'
  OBVIOUS
<1> USE PathBoundsType DEF PathTypeOK
<1>1. CASE Publisher \/ UNCHANGED pathVars
  BY <1>1 DEF Publisher, bridgeVars, pathVars
<1>2. ASSUME NEW r \in Requests, PostAgain(r) PROVE PathTypeOK'
  <2>1. /\ after' \in [Requests -> SUBSET Requests]
        /\ UNCHANGED <<bridge, inbox, outages>> /\ told' \subseteq Requests
    BY <1>2 DEF PostAgain
  <2>2. (restarted \in BOOLEAN)'
    BY <1>2, Zenon DEF PostAgain
  <2> QED
    BY <2>1, <2>2
<1>3. ASSUME NEW r \in Requests, BrokerPasses(r) PROVE PathTypeOK'
  BY <1>3 DEF BrokerPasses, Delivered
<1>4. CASE StrayComes
  BY <1>4 DEF StrayComes, Delivered
<1>5. CASE Forward
  <2>1. Head(inbox) \in Requests /\ Tail(inbox) \in Seq(Requests \union {Stray})
    BY <1>5 DEF Forward, Valid
  <2> QED
    BY <1>5, <2>1 DEF Forward, Tell
<1>6. CASE SkipStray
  BY <1>6 DEF SkipStray
<1>7. CASE BridgeConnects \/ BridgeDisconnected
  BY <1>7 DEF BridgeConnects, BridgeDisconnected
<1>8. CASE BridgeLinkLost
  BY <1>8 DEF BridgeLinkLost, CountOutage
<1>9. CASE BridgeRestarts
  <2>1. (restarted \in BOOLEAN)'
    BY <1>9, Zenon DEF BridgeRestarts
  <2> QED
    BY <1>9, <2>1 DEF BridgeRestarts, CountOutage
<1> QED
  BY <1>1, <1>2, <1>3, <1>4, <1>5, <1>6, <1>7, <1>8, <1>9 DEF PathNext, Worker

\* Every variable of the path stays within its type.
THEOREM PathTypes == PathSpec => []PathTypeOK
<1>1. PathInit => PathTypeOK
  <2> SUFFICES ASSUME PathInit PROVE PathTypeOK
    OBVIOUS
  <2>1. TypeOK
    BY TypeInit DEF PathInit, TypeInv
  <2>2. (restarted \in BOOLEAN) /\ bridge = "backoff"
    BY Zenon DEF PathInit
  <2>3. /\ inbox \in Seq(Requests \union {Stray}) /\ told \subseteq Requests
        /\ after \in [Requests -> SUBSET Requests] /\ outages \in 0..MaxOutages
    BY PathBoundsType DEF PathInit
  <2> QED
    BY <2>1, <2>2, <2>3 DEF PathTypeOK
<1>2. PathSpec => []TypeOK
  BY PathIsPublisher, CommandTypes, PTL
<1> QED
  BY <1>1, <1>2, PathTypeNext, PTL DEF PathSpec

-----------------------------------------------------------------------------
\* The part of the path's type invariant that the order rests on.
InboxType == inbox \in Seq(Requests \union {Stray}) /\ after \in [Requests -> SUBSET Requests]

OrderInv == InboxType /\ AcceptedAreAhead

LEMMA OrderInit == PathInit => OrderInv
BY DEF PathInit, OrderInv, InboxType, AcceptedAreAhead, Waiting

\* What AcceptedAreAhead says of r and of q, accepted before r was posted.
LEMMA AheadOf ==
  ASSUME AcceptedAreAhead, NEW r \in Requests, NEW q \in after[r]
  PROVE  /\ q # r /\ request[q].at = "accepted" /\ q \in received
         /\ \A i \in DOMAIN inbox : inbox[i] = q => r \notin told
         /\ \A i, j \in DOMAIN inbox : inbox[i] = q /\ inbox[j] = r => i < j
BY DEF AcceptedAreAhead, Waiting

\* Requests that were accepted are neither served nor received again.
LEMMA OrderPublisher ==
  ASSUME TypeOK, OrderInv, UNCHANGED <<inbox, told, after>>,
         received' = received,
         \A q \in Requests : request[q].at = "accepted" => request'[q].at = "accepted"
  PROVE  OrderInv'
BY DEF OrderInv, InboxType, AcceptedAreAhead, Waiting

LEMMA ServeKeepsAccepted ==
  ASSUME TypeOK, NEW r \in Requests, Serve(r)
  PROVE  /\ received' = received
         /\ \A q \in Requests : request[q].at = "accepted" => request'[q].at = "accepted"
BY DEF TypeOK, Serve, Refuse, Send, PublishFails, Acknowledged, Answer

\* A request that is posted again is behind all that are accepted.
LEMMA OrderPost ==
  ASSUME TypeOK, AcceptedWasReceived, OrderInv, NEW p \in Requests, PostAgain(p)
  PROVE  OrderInv'
<1> USE DEF OrderInv
<1>1. /\ inbox' = inbox /\ told' = told \ {p} /\ received' = received \ {p}
      /\ \A q \in Requests : q # p => request'[q] = request[q]
      /\ \A i \in DOMAIN inbox : inbox[i] # p
  BY DEF PostAgain, Post, Waiting, TypeOK
<1>2. \A r \in Requests :
        after'[r] = IF r = p THEN {q \in Requests \ {p} : request[q].at = "accepted"} ELSE after[r] \ {p}
  BY DEF PostAgain
<1>3. InboxType'
  BY <1>1, <1>2 DEF InboxType, PostAgain
<1>4. ASSUME NEW r \in Requests, NEW q \in after'[r]
      PROVE  /\ q # r /\ request'[q].at = "accepted" /\ q \in received'
             /\ \A i \in DOMAIN inbox' : inbox'[i] = q => r \notin told'
             /\ \A i, j \in DOMAIN inbox' : inbox'[i] = q /\ inbox'[j] = r => i < j
  <2>1. CASE r = p
    BY <2>1, <1>1, <1>2, <1>4 DEF AcceptedWasReceived
  <2>2. CASE r # p
    <3>1. q \in after[r] /\ q # p /\ q \in Requests
      BY <2>2, <1>2, <1>4 DEF InboxType
    <3> QED
      BY <3>1, <1>1, AheadOf
  <2> QED
    BY <2>1, <2>2
<1>5. AcceptedAreAhead'
  BY <1>4 DEF AcceptedAreAhead, Waiting
<1> QED
  BY <1>3, <1>5

\* What comes is put behind all that waits, and was not accepted before.
LEMMA OrderDelivered ==
  ASSUME TypeOK, OrderInv, NEW m \in Requests \union {Stray}, m \notin received \/ m = Stray,
         Delivered(m), UNCHANGED <<request, told, after>>, received \subseteq received'
  PROVE  OrderInv'
<1> USE DEF OrderInv
<1>1. inbox' \in Seq(Requests \union {Stray}) /\ InboxType'
  BY DEF InboxType, Delivered
<1>2. inbox' = inbox \/ inbox' = Append(inbox, m)
  BY DEF Delivered
<1>3. \A i \in DOMAIN inbox' : \/ i \in DOMAIN inbox /\ inbox'[i] = inbox[i]
                               \/ i = Len(inbox) + 1 /\ inbox'[i] = m
  BY <1>2 DEF InboxType
<1>4. \A i \in DOMAIN inbox : i \in Nat /\ i < Len(inbox) + 1
  BY DEF InboxType
<1>5. ASSUME NEW r \in Requests, NEW q \in after'[r]
      PROVE  /\ q # r /\ request'[q].at = "accepted" /\ q \in received'
             /\ \A i \in DOMAIN inbox' : inbox'[i] = q => r \notin told'
             /\ \A i, j \in DOMAIN inbox' : inbox'[i] = q /\ inbox'[j] = r => i < j
  <2>1. q \in after[r] /\ q \in Requests
    BY <1>5 DEF InboxType
  <2>2. /\ q # r /\ request[q].at = "accepted" /\ q \in received
        /\ \A i \in DOMAIN inbox : inbox[i] = q => r \notin told
        /\ \A i, j \in DOMAIN inbox : inbox[i] = q /\ inbox[j] = r => i < j
    BY <2>1, AheadOf
  <2>3. q # m
    BY <2>1, <2>2, StrayIsNoRequest
  <2> QED
    BY <2>2, <2>3, <1>3, <1>4
<1>6. AcceptedAreAhead'
  BY <1>5 DEF AcceptedAreAhead, Waiting
<1> QED
  BY <1>1, <1>6

\* Taking the first of the messages that wait, to forward it or to skip it.
LEMMA OrderTaken ==
  ASSUME TypeOK, OrderInv, inbox # <<>>, inbox' = Tail(inbox), UNCHANGED <<request, received, after>>,
         told' = told \/ told' = told \union {Head(inbox)}
  PROVE  OrderInv'
<1> USE DEF OrderInv
<1>1. inbox' \in Seq(Requests \union {Stray}) /\ InboxType'
  BY DEF InboxType
<1>2. /\ 1 \in DOMAIN inbox /\ inbox[1] = Head(inbox)
      /\ \A i \in DOMAIN inbox' : i \in Nat /\ i > 0 /\ i + 1 \in DOMAIN inbox /\ inbox'[i] = inbox[i + 1]
  BY DEF InboxType
<1>3. ASSUME NEW r \in Requests, NEW q \in after'[r]
      PROVE  /\ q # r /\ request'[q].at = "accepted" /\ q \in received'
             /\ \A i \in DOMAIN inbox' : inbox'[i] = q => r \notin told'
             /\ \A i, j \in DOMAIN inbox' : inbox'[i] = q /\ inbox'[j] = r => i < j
  <2>1. /\ q # r /\ request[q].at = "accepted" /\ q \in received
        /\ \A i \in DOMAIN inbox : inbox[i] = q => r \notin told
        /\ \A i, j \in DOMAIN inbox : inbox[i] = q /\ inbox[j] = r => i < j
    BY <1>3, AheadOf
  <2>2. ASSUME NEW i \in DOMAIN inbox', inbox'[i] = q PROVE r \notin told'
    <3>1. r \notin told /\ i + 1 \in DOMAIN inbox /\ inbox[i + 1] = q /\ i \in Nat /\ i > 0
      BY <2>1, <2>2, <1>2
    <3>2. r # Head(inbox)
      BY <3>1, <2>1, <1>2
    <3> QED
      BY <3>1, <3>2
  <2>3. ASSUME NEW i \in DOMAIN inbox', NEW j \in DOMAIN inbox', inbox'[i] = q, inbox'[j] = r
        PROVE  i < j
    <3>1. i \in Nat /\ j \in Nat /\ i + 1 < j + 1
      BY <2>1, <2>3, <1>2
    <3> QED
      BY <3>1
  <2> QED
    BY <2>1, <2>2, <2>3
<1>4. AcceptedAreAhead'
  BY <1>3 DEF AcceptedAreAhead, Waiting
<1> QED
  BY <1>1, <1>4

LEMMA OrderNext ==
  TypeOK /\ AcceptedWasReceived /\ OrderInv /\ [PathNext]_pathVars => OrderInv'
<1> SUFFICES ASSUME TypeOK, AcceptedWasReceived, OrderInv, [PathNext]_pathVars PROVE OrderInv'
  OBVIOUS
<1>1. CASE Publisher
  <2>1. CASE Connect \/ Disconnected \/ LinkLost
    BY <1>1, <2>1, OrderPublisher DEF Publisher, bridgeVars, Connect, Disconnected, LinkLost
  <2>2. ASSUME NEW r \in Requests, Serve(r) PROVE OrderInv'
    BY <1>1, <2>2, ServeKeepsAccepted, OrderPublisher DEF Publisher, bridgeVars
  <2> QED
    BY <1>1, <2>1, <2>2 DEF Publisher
<1>2. ASSUME NEW r \in Requests, PostAgain(r) PROVE OrderInv'
  BY <1>2, OrderPost
<1>3. ASSUME NEW r \in Requests, BrokerPasses(r) PROVE OrderInv'
  BY <1>3, OrderDelivered DEF BrokerPasses, BrokerReceives
<1>4. CASE StrayComes
  BY <1>4, OrderDelivered DEF StrayComes, vars
<1>5. CASE Forward
  BY <1>5, OrderTaken DEF Forward, Tell, vars
<1>6. CASE SkipStray
  BY <1>6, OrderTaken DEF SkipStray, vars
<1>7. CASE BridgeConnects \/ BridgeDisconnected \/ BridgeLinkLost
  BY <1>7, OrderPublisher DEF BridgeConnects, BridgeDisconnected, BridgeLinkLost, vars
<1>8. CASE BridgeRestarts
  BY <1>8 DEF BridgeRestarts, vars, OrderInv, InboxType, AcceptedAreAhead, Waiting
<1>9. CASE UNCHANGED pathVars
  BY <1>9, OrderPublisher DEF pathVars, vars, bridgeVars
<1> QED
  BY <1>1, <1>2, <1>3, <1>4, <1>5, <1>6, <1>7, <1>8, <1>9 DEF PathNext, Worker

\* The one step that sends the robot a command forwards the first that waits.
LEMMA OnlyForwardTells ==
  ASSUME OrderInv, [PathNext]_pathVars, NEW q \in told' \ told
  PROVE  1 \in DOMAIN inbox /\ inbox[1] = q
<1>1. CASE Forward
  BY <1>1 DEF Forward, Tell, OrderInv, InboxType
<1>2. CASE UNCHANGED told
  BY <1>2
<1>3. CASE \E r \in Requests : PostAgain(r)
  BY <1>3 DEF PostAgain
<1> QED
  BY <1>1, <1>2, <1>3 DEF PathNext, Publisher, BrokerPasses, StrayComes, Worker, BridgeConnects,
     SkipStray, BridgeDisconnected, BridgeLinkLost, BridgeRestarts, bridgeVars, pathVars

\* A client that waits for each receipt is followed in its order.
THEOREM ReceiptsAreFollowed == PathSpec => FollowsReceipts
<1>1. PathSpec => [](TypeOK /\ AcceptedWasReceived)
  BY PathIsPublisher, CommandTypes, AcceptedIsReceived, PTL
<1>2. PathSpec => []OrderInv
  BY <1>1, OrderInit, OrderNext, PTL DEF PathSpec
<1>3. OrderInv /\ [PathNext]_pathVars
      => [\A q, r \in Requests : q \in told' \ told /\ q \in after[r] => r \notin told]_pathVars
  <2> SUFFICES ASSUME OrderInv, [PathNext]_pathVars,
                      NEW q \in Requests, NEW r \in Requests, q \in told' \ told, q \in after[r]
               PROVE  r \notin told
    OBVIOUS
  <2> QED
    BY OnlyForwardTells, AheadOf DEF OrderInv
<1> QED
  BY <1>2, <1>3, PTL DEF PathSpec, FollowsReceipts
=============================================================================
