------------------------------- MODULE Viewer -------------------------------
(***************************************************************************)
(* viz_svc and its pages, on top of StateStream: each page has a WebSocket *)
(* to viz-svc, which holds one StreamState call for it (stream.py, app.py) *)
(* and the page reconnects on a timer (useTwinState.ts).  Other clients    *)
(* call StreamState themselves, without a maximal rate.                    *)
(*                                                                         *)
(* viz-svc's channel to state-svc reconnects by itself; the service only   *)
(* watches it, for readiness.                                              *)
(***************************************************************************)
EXTENDS StateStream

CONSTANTS Pages, Clients

ASSUME CallersType == Subscribers = Pages \union Clients /\ Pages \intersect Clients = {} /\ Limited = Pages

VARIABLES
  chan,       \* the channel of viz-svc: "READY" or "DOWN"
  known,      \* the connectivity that run() saw last
  page,       \* what a page shows: "connecting", "live", "reconnecting", or "gone"
  socket,     \* its WebSocket: "none", "open", or "closing"
  ws,         \* the frames on their way to it
  seen        \* the last state a page shows, or a client received

vizVars == <<chan, known, page, socket, ws>>

vars == <<svcVars, streamVars, failures, vizVars, seen>>

Shown == State \union {NoState}

TypeOK ==
  /\ StreamTypeOK
  /\ chan \in {"READY", "DOWN"} /\ known \in {"READY", "DOWN"}
  /\ page \in [Pages -> {"connecting", "live", "reconnecting", "gone"}]
  /\ socket \in [Pages -> {"none", "open", "closing"}]
  /\ ws \in [Pages -> Seq(State)] /\ \A p \in Pages : Len(ws[p]) <= Flow
  /\ seen \in [Subscribers -> Shown]

\* A page begins without a socket and without a state to show.
PagesInit ==
  /\ page = [p \in Pages |-> "connecting"]
  /\ socket = [p \in Pages |-> "none"]
  /\ ws = [p \in Pages |-> <<>>]
  /\ seen = [c \in Subscribers |-> NoState]

Init ==
  /\ StreamInit
  /\ chan = "DOWN" /\ known = "DOWN"
  /\ PagesInit

-----------------------------------------------------------------------------
\* state-svc.

Svc == (Connect \/ Disconnected \/ Broadcast \/ \E m \in Message : Observe(m)) /\ UNCHANGED <<vizVars, seen>>

\* viz-svc's calls wait until its channel is ready.
Begin(c) == (c \in Pages => chan = "READY") /\ Subscribe(c) /\ UNCHANGED <<vizVars, seen>>

SendOrSkip(c) == (Send(c) \/ Skip(c)) /\ UNCHANGED <<vizVars, seen>>

SvcCrash ==
  /\ Crash
  /\ chan' = "DOWN"
  /\ UNCHANGED <<known, page, socket, ws, seen>>

-----------------------------------------------------------------------------
\* Clients of gRPC.

ClientCalls(c) ==
  /\ call[c] = "none"
  /\ CallOpens(c)
  /\ UNCHANGED <<svcVars, stream, rpc, failures, vizVars, seen>>

ClientReceives(c) ==
  /\ rpc[c] # <<>>
  /\ seen' = [seen EXCEPT ![c] = Head(rpc[c])]
  /\ rpc' = [rpc EXCEPT ![c] = Tail(@)]
  /\ UNCHANGED <<svcVars, call, stream, failures, vizVars>>

ClientFails(c) ==
  /\ call[c] = "broken"
  /\ CallsEnd({c})
  /\ UNCHANGED <<svcVars, failures, vizVars, seen>>

-----------------------------------------------------------------------------
\* viz-svc.

ChannelReady ==
  /\ chan = "DOWN"
  /\ chan' = "READY"
  /\ UNCHANGED <<svcVars, streamVars, failures, known, page, socket, ws, seen>>

\* Mutant: the service stops being ready, and is never ready again.
WatchLosses ==
  /\ known = "READY" /\ chan = "DOWN"
  /\ known' = chan
  /\ UNCHANGED <<svcVars, streamVars, failures, chan, page, socket, ws, seen>>

\* run(): woken when the connectivity is not what it saw last.
Watch ==
  /\ known # chan
  /\ known' = chan
  /\ UNCHANGED <<svcVars, streamVars, failures, chan, page, socket, ws, seen>>

\* /healthz/ready of viz-svc answers 200.
VizReady == known = "READY"

\* What chaos.py waits for after it has killed a service and started it.
AllReady == SvcReady /\ VizReady

\* ws_state accepts, and frames() calls StreamState.
PageConnects(p) ==
  /\ page[p] \in {"connecting", "reconnecting"}
  /\ socket[p] = "none"
  /\ socket' = [socket EXCEPT ![p] = "open"]
  /\ page' = [page EXCEPT ![p] = "live"]
  /\ CallOpens(p)
  /\ UNCHANGED <<svcVars, stream, rpc, failures, chan, known, ws, seen>>

\* A call on a channel that is down may fail at once.
CallRefused(p) ==
  /\ call[p] = "open" /\ ~stream[p].served /\ chan = "DOWN"
  /\ call' = [call EXCEPT ![p] = "broken"]
  /\ UNCHANGED <<svcVars, stream, rpc, failures, vizVars, seen>>

\* Mutant: a frame for a page that left is dropped.
ForwardRegardless(p) ==
  /\ rpc[p] # <<>> /\ Len(ws[p]) < Flow
  /\ rpc' = [rpc EXCEPT ![p] = Tail(@)]
  /\ ws' = IF page[p] = "gone" THEN ws ELSE [ws EXCEPT ![p] = Append(@, Head(rpc[p]))]
  /\ UNCHANGED <<svcVars, call, stream, failures, chan, known, page, socket, seen>>

\* A frame is sent on the page's socket; if the page left, that ends the call.
Forward(p) ==
  /\ rpc[p] # <<>> /\ Len(ws[p]) < Flow
  /\ IF page[p] = "gone"
       THEN CallsEnd({p}) /\ UNCHANGED ws
       ELSE /\ rpc' = [rpc EXCEPT ![p] = Tail(@)]
            /\ ws' = [ws EXCEPT ![p] = Append(@, Head(rpc[p]))]
            /\ UNCHANGED <<call, stream>>
  /\ UNCHANGED <<svcVars, failures, chan, known, page, socket, seen>>

\* AioRpcError: the handler closes the socket.
CallFails(p) ==
  /\ call[p] = "broken"
  /\ CallsEnd({p})
  /\ socket' = [socket EXCEPT ![p] = IF page[p] = "gone" THEN "none" ELSE "closing"]
  /\ UNCHANGED <<svcVars, failures, chan, known, page, ws, seen>>

\* viz-svc restarts: its sockets close, with frames that may have gone out
\* before, and its calls are cancelled.
VizCrash ==
  /\ failures < MaxFailures /\ failures' = failures + 1
  /\ CallsEnd(Pages)
  /\ socket' = [p \in Pages |-> IF socket[p] = "open" THEN "closing" ELSE socket[p]]
  /\ ws' \in {ws, [p \in Pages |-> <<>>]}
  /\ chan' = "DOWN" /\ known' = "DOWN"
  /\ UNCHANGED <<svcVars, page, seen>>

-----------------------------------------------------------------------------
\* The page.

OnMessage(p) ==
  /\ ws[p] # <<>>
  /\ seen' = [seen EXCEPT ![p] = Head(ws[p])]
  /\ ws' = [ws EXCEPT ![p] = Tail(@)]
  /\ UNCHANGED <<svcVars, streamVars, failures, chan, known, page, socket>>

OnClose(p) ==
  /\ socket[p] = "closing" /\ ws[p] = <<>>
  /\ socket' = [socket EXCEPT ![p] = "none"]
  /\ page' = [page EXCEPT ![p] = "reconnecting"]
  /\ UNCHANGED <<svcVars, streamVars, failures, chan, known, ws, seen>>

\* The page is closed: its socket goes with it, viz-svc does not know yet.
Leave(p) ==
  /\ page[p] # "gone"
  /\ page' = [page EXCEPT ![p] = "gone"]
  /\ socket' = [socket EXCEPT ![p] = "none"]
  /\ ws' = [ws EXCEPT ![p] = <<>>]
  /\ UNCHANGED <<svcVars, streamVars, failures, chan, known, seen>>

-----------------------------------------------------------------------------
VizStep(p) == CallRefused(p) \/ Forward(p) \/ CallFails(p)

PageStep(p) == PageConnects(p) \/ OnMessage(p) \/ OnClose(p)

ClientStep(c) == ClientCalls(c) \/ ClientReceives(c) \/ ClientFails(c)

Next ==
  \/ Svc
  \/ \E c \in Subscribers : Begin(c) \/ SendOrSkip(c)
  \/ \E c \in Clients : ClientStep(c)
  \/ ChannelReady \/ Watch
  \/ \E p \in Pages : VizStep(p) \/ PageStep(p) \/ Leave(p)
  \/ SvcCrash \/ VizCrash

Spec == Init /\ [][Next]_vars

\* The tasks run, channels and sockets transport, pages retry.  Nothing says
\* that there is telemetry, that pages leave, or that anything fails.
FairSpec ==
  /\ Spec
  /\ WF_vars(Connect /\ UNCHANGED <<vizVars, seen>>)
  /\ WF_vars(Broadcast /\ UNCHANGED <<vizVars, seen>>)
  /\ WF_vars(ChannelReady) /\ WF_vars(Watch)
  /\ \A c \in Subscribers : WF_vars(Begin(c)) /\ WF_vars(SendOrSkip(c))
  /\ \A c \in Clients : WF_vars(ClientStep(c))
  /\ \A p \in Pages : WF_vars(VizStep(p)) /\ WF_vars(PageStep(p))

-----------------------------------------------------------------------------
\* Safety.

\* What a page or a client is shown never goes back in any channel, not even
\* over restarts of either service and reconnections: states may be skipped
\* ("drop, don't buffer") and may mix two samples, but are never reordered.
NeverBack == [][\A c \in Subscribers : AtLeast(seen'[c], seen[c])]_vars

-----------------------------------------------------------------------------
\* Liveness.

\* "Latest wins": what has been read and makes a state, a client without a
\* maximal rate is shown, or something later, however slow it is and however
\* many states replace each other in its mailbox.
LatestArrives ==
  \A c \in Clients, s \in State :
    (stream[c].served /\ dirty /\ latest = s) ~> (AtLeast(seen[c], s) \/ call[c] # "open")

\* "Recovery must need no manual step inside the service" (chaos.py):
\* whatever fails, both services get ready and the pages live again by
\* themselves.
Recovers == []<>(AllReady /\ \A p \in Pages : page[p] \in {"live", "gone"})

\* A page that left is noticed when the next frame comes for it: its call and
\* its mailbox do not stay.
LeftIsForgotten == \A p \in Pages : (page[p] = "gone" /\ rpc[p] # <<>>) ~> ~stream[p].served
=============================================================================
