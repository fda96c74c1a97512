--------------------------- MODULE CommandPublisher ---------------------------
(***************************************************************************)
(* command_svc: REST requests published through one broker connection that *)
(* a background task (Publisher.run) keeps open.  Requests and that task   *)
(* share _client, which says whether there is a connection to publish on.  *)
(***************************************************************************)
EXTENDS Naturals

CONSTANTS Requests,       \* POST /command requests that pass validation
          MaxLosses,      \* bound: connections lost
          SlowBroker      \* may a broker that is reachable let a publication time out?

ASSUME BoundsType == MaxLosses \in Nat /\ SlowBroker \in BOOLEAN

VARIABLES
  cur,        \* number of the connection run() opened last; 0: none yet
  run,        \* run(): "backoff", or "iterating" the connection's messages
  link,       \* the connection cur is "up" or "dead"
  client,     \* _client: the number of a connection; 0 for None
  request,    \* each request: where it is, and the connection it captured
  received    \* the requests whose command the broker has received

vars == <<cur, run, link, client, request, received>>

Connections == 1..(MaxLosses + 1)

TypeOK ==
  /\ cur \in Connections \union {0}
  /\ run \in {"backoff", "iterating"}
  /\ link \in {"up", "dead"}
  /\ client \in Connections \union {0}
  /\ request \in [Requests -> [at: {"new", "waiting", "accepted", "refused"},
                               via: Connections \union {0}]]
  /\ received \subseteq Requests

Init ==
  /\ cur = 0
  /\ run = "backoff"
  /\ link = "dead"
  /\ client = 0
  /\ request = [r \in Requests |-> [at |-> "new", via |-> 0]]
  /\ received = {}

-----------------------------------------------------------------------------
\* run()

Connect ==
  /\ run = "backoff"
  /\ cur' = cur + 1
  /\ run' = "iterating"
  /\ link' = "up"
  /\ client' = cur'
  /\ UNCHANGED <<request, received>>

\* Mutant: run() does not iterate over messages, and never learns of a loss.
NeverDisconnected == FALSE /\ UNCHANGED vars

\* Mutant: the except clause does not reset _client.
DisconnectedKeepsClient ==
  /\ run = "iterating" /\ link = "dead"
  /\ run' = "backoff"
  /\ UNCHANGED <<cur, link, client, request, received>>

\* The iteration of messages raises on a connection that is lost.  (A failed
\* attempt to connect raises too, and leaves everything as it is.)
Disconnected ==
  /\ run = "iterating" /\ link = "dead"
  /\ run' = "backoff"
  /\ client' = 0
  /\ UNCHANGED <<cur, link, request, received>>

LinkLost ==
  /\ link = "up" /\ cur <= MaxLosses
  /\ link' = "dead"
  /\ UNCHANGED <<cur, run, client, request, received>>

\* /healthz/ready answers 200.
Ready == client # 0

-----------------------------------------------------------------------------
\* publish(), on behalf of request r

\* Mutant: every answer looks the same.
AnswerAlike(r, how) == request' = [request EXCEPT ![r].at = "answered"]

Answer(r, how) == request' = [request EXCEPT ![r].at = how]

\* A REST client posts again once it has an answer.
Post(r) ==
  /\ request[r].at \in {"accepted", "refused"}
  /\ request' = [request EXCEPT ![r] = [at |-> "new", via |-> 0]]
  /\ received' = received \ {r}
  /\ UNCHANGED <<cur, run, link, client>>

\* No client: 503 without trying.
Refuse(r) ==
  /\ request[r].at = "new" /\ client = 0
  /\ Answer(r, "refused")
  /\ UNCHANGED <<cur, run, link, client, received>>

\* The command is handed to the connection; the request awaits its PUBACK.
Send(r) ==
  /\ request[r].at = "new" /\ client # 0
  /\ request' = [request EXCEPT ![r] = [at |-> "waiting", via |-> client]]
  /\ UNCHANGED <<cur, run, link, client, received>>

Alive(k) == k = cur /\ link = "up"

\* Mutant: publish() waits for the PUBACK without a time limit.
PublishNeverTimesOut(r) ==
  /\ request[r].at = "new" /\ client # 0 /\ ~Alive(client)
  /\ client' = 0
  /\ Answer(r, "refused")
  /\ UNCHANGED <<cur, run, link, received>>

\* publish() raises: at once on a connection known to be lost, or when no
\* PUBACK comes in time.  503, and nobody has a client any more.
PublishFails(r) ==
  /\ \/ request[r].at = "new" /\ client # 0 /\ ~Alive(client)
     \/ request[r].at = "waiting" /\ (SlowBroker \/ ~Alive(request[r].via))
  /\ client' = 0
  /\ Answer(r, "refused")
  /\ UNCHANGED <<cur, run, link, received>>

\* The broker may also read a command whose request was refused too early.
BrokerReceives(r) ==
  /\ request[r].at \in {"waiting", "refused"} /\ Alive(request[r].via)
  /\ received' = received \union {r}
  /\ UNCHANGED <<cur, run, link, client, request>>

\* Mutant: a command is published with QoS 0.
AcceptedUnacknowledged(r) ==
  /\ request[r].at = "waiting" /\ Alive(request[r].via)
  /\ Answer(r, "accepted")
  /\ UNCHANGED <<cur, run, link, client, received>>

\* The PUBACK arrives: 202.
Acknowledged(r) ==
  /\ request[r].at = "waiting" /\ Alive(request[r].via) /\ r \in received
  /\ Answer(r, "accepted")
  /\ UNCHANGED <<cur, run, link, client, received>>

Serve(r) == Refuse(r) \/ Send(r) \/ PublishFails(r) \/ Acknowledged(r)

Next ==
  \/ Connect
  \/ Disconnected
  \/ LinkLost
  \/ \E r \in Requests : Post(r) \/ Serve(r) \/ BrokerReceives(r)

Spec == Init /\ [][Next]_vars

\* Tasks that can run do; the broker reads what reaches it.
FairSpec ==
  /\ Spec
  /\ WF_vars(Connect)
  /\ WF_vars(Disconnected)
  /\ \A r \in Requests : WF_vars(Serve(r)) /\ WF_vars(BrokerReceives(r))

-----------------------------------------------------------------------------
\* Safety.

\* "An accepted command that silently goes nowhere would be a lie": a 202
\* is only given for a command the broker has.
AcceptedWasReceived == \A r \in Requests : request[r].at = "accepted" => r \in received

\* Requests may outlive the connection they were sent on, but no request is
\* ever sent on a connection that run() has given up.
ClientIsCurrent == client # 0 => client = cur /\ run = "iterating"

-----------------------------------------------------------------------------
\* Liveness.

\* Every request gets its answer, across any loss of the connection.
EveryRequestAnswered ==
  \A r \in Requests : request[r].at = "new" ~> request[r].at \in {"accepted", "refused"}

\* A lost connection shows in readiness: the client goes, or is a new one.
LossShows == \A k \in Connections : cur = k /\ link = "dead" ~> client # k

\* "Recovery must need no manual step inside the service" (chaos.py): when
\* connections stop being lost, the service is ready again.
ReadyAgain == []<>Ready
=============================================================================
