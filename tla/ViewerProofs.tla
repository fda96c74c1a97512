---------------------------- MODULE ViewerProofs ----------------------------
(***************************************************************************)
(* What pages and clients are shown never goes back, for any number of     *)
(* channels, samples, pages, clients and restarts, and any flow control.   *)
(***************************************************************************)
EXTENDS Viewer, TLAPS

-----------------------------------------------------------------------------
\* The states on their way to a subscriber: what it was shown last, then the
\* frames (of a page), the states sent, and the mailbox.

Frames(c) == IF c \in Pages THEN ws[c] ELSE <<>>

Below(q, r) == \A i \in DOMAIN q, j \in DOMAIN r : AtLeast(r[j], q[i])

Sorted(q) == \A i, j \in DOMAIN q : i < j => AtLeast(q[j], q[i])

\* Each of them is at least what is ahead of it.
InOrder(s, w, r, b) ==
  /\ \A j \in DOMAIN w : AtLeast(w[j], s)
  /\ \A j \in DOMAIN r : AtLeast(r[j], s)
  /\ \A j \in DOMAIN b : AtLeast(b[j], s)
  /\ Sorted(w) /\ Sorted(r)
  /\ Below(w, r) /\ Below(w, b) /\ Below(r, b)

Among(s, w, r, b) ==
  {s} \union {w[i] : i \in DOMAIN w} \union {r[i] : i \in DOMAIN r} \union {b[i] : i \in DOMAIN b}

LEMMA SeqFacts ==
  ASSUME NEW S, NEW q \in Seq(S)
  PROVE  /\ DOMAIN <<>> = {}
         /\ \A x : DOMAIN <<x>> = {1} /\ <<x>>[1] = x
         /\ \A x \in S : \A i \in DOMAIN Append(q, x) :
              \/ i \in DOMAIN q /\ Append(q, x)[i] = q[i] /\ i < Len(q) + 1
              \/ i = Len(q) + 1 /\ Append(q, x)[i] = x
         /\ q # <<>> => /\ 1 \in DOMAIN q /\ Head(q) = q[1] /\ Head(q) \in S /\ Tail(q) \in Seq(S)
                        /\ \A i \in DOMAIN Tail(q) : i \in Nat /\ 1 < i + 1 /\ i + 1 \in DOMAIN q /\ Tail(q)[i] = q[i + 1]
OBVIOUS

LEMMA TailFacts ==
  ASSUME NEW q \in Seq(State), q # <<>>, Sorted(q)
  PROVE  /\ Sorted(Tail(q))
         /\ \A j \in DOMAIN Tail(q) : AtLeast(Tail(q)[j], Head(q))
         /\ 1 \in DOMAIN q /\ Head(q) = q[1]
         /\ \A j \in DOMAIN Tail(q) : \E i \in DOMAIN q : Tail(q)[j] = q[i]
<1>1. /\ 1 \in DOMAIN q /\ Head(q) = q[1]
      /\ \A i \in DOMAIN Tail(q) : i \in Nat /\ 1 < i + 1 /\ i + 1 \in DOMAIN q /\ Tail(q)[i] = q[i + 1]
  BY SeqFacts
<1>2. ASSUME NEW i \in DOMAIN Tail(q), NEW j \in DOMAIN Tail(q), i < j
      PROVE  AtLeast(Tail(q)[j], Tail(q)[i])
  <2>1. i + 1 < j + 1
    BY <1>1, <1>2
  <2> QED
    BY <1>1, <2>1 DEF Sorted
<1>3. \A j \in DOMAIN Tail(q) : AtLeast(Tail(q)[j], Head(q))
  BY <1>1 DEF Sorted
<1> QED
  BY <1>1, <1>2, <1>3 DEF Sorted

LEMMA AppendFacts ==
  ASSUME NEW q \in Seq(State), NEW x \in State, Sorted(q), \A i \in DOMAIN q : AtLeast(x, q[i])
  PROVE  /\ Sorted(Append(q, x))
         /\ \A j \in DOMAIN Append(q, x) : Append(q, x)[j] = x \/ \E i \in DOMAIN q : Append(q, x)[j] = q[i]
<1>1. \A i \in DOMAIN Append(q, x) :
        \/ i \in DOMAIN q /\ Append(q, x)[i] = q[i] /\ i < Len(q) + 1
        \/ i = Len(q) + 1 /\ Append(q, x)[i] = x
  BY SeqFacts
<1>2. ASSUME NEW i \in DOMAIN Append(q, x), NEW j \in DOMAIN Append(q, x), i < j
      PROVE  AtLeast(Append(q, x)[j], Append(q, x)[i])
  <2>1. i \in Nat /\ j \in Nat /\ Len(q) \in Nat
    OBVIOUS
  <2>2. i \in DOMAIN q /\ Append(q, x)[i] = q[i]
    <3>1. CASE j \in DOMAIN q /\ j < Len(q) + 1
      BY <3>1, <1>1, <1>2, <2>1
    <3>2. CASE j = Len(q) + 1
      BY <3>2, <1>1, <1>2, <2>1
    <3> QED
      BY <3>1, <3>2, <1>1
  <2> QED
    BY <1>1, <1>2, <2>2 DEF Sorted
<1> QED
  BY <1>1, <1>2 DEF Sorted

-----------------------------------------------------------------------------
\* The moves of a state along its way.

\* A frame, or a state sent to a client, is shown.
LEMMA ShowFrame ==
  ASSUME NEW s, NEW w \in Seq(State), NEW r, NEW b, InOrder(s, w, r, b), w # <<>>
  PROVE  /\ InOrder(Head(w), Tail(w), r, b) /\ AtLeast(Head(w), s)
         /\ Among(Head(w), Tail(w), r, b) \subseteq Among(s, w, r, b)
BY TailFacts DEF InOrder, Below, Among

LEMMA ShowSent ==
  ASSUME NEW s, NEW r \in Seq(State), NEW b, InOrder(s, <<>>, r, b), r # <<>>
  PROVE  /\ InOrder(Head(r), <<>>, Tail(r), b) /\ AtLeast(Head(r), s)
         /\ Among(Head(r), <<>>, Tail(r), b) \subseteq Among(s, <<>>, r, b)
BY TailFacts, SeqFacts DEF InOrder, Below, Among

\* A state sent becomes a frame.
LEMMA ToFrame ==
  ASSUME NEW s, NEW w \in Seq(State), NEW r \in Seq(State), NEW b, InOrder(s, w, r, b), r # <<>>
  PROVE  /\ InOrder(s, Append(w, Head(r)), Tail(r), b)
         /\ Among(s, Append(w, Head(r)), Tail(r), b) \subseteq Among(s, w, r, b)
<1>1. Head(r) \in State /\ Sorted(r) /\ Sorted(w)
  BY SeqFacts DEF InOrder
<1>2. \A i \in DOMAIN w : AtLeast(Head(r), w[i])
  BY TailFacts, <1>1 DEF InOrder, Below
<1>3. /\ Sorted(Append(w, Head(r)))
      /\ \A j \in DOMAIN Append(w, Head(r)) :
           Append(w, Head(r))[j] = Head(r) \/ \E i \in DOMAIN w : Append(w, Head(r))[j] = w[i]
  BY <1>1, <1>2, AppendFacts
<1>4. /\ Sorted(Tail(r))
      /\ \A j \in DOMAIN Tail(r) : AtLeast(Tail(r)[j], Head(r))
      /\ 1 \in DOMAIN r /\ Head(r) = r[1]
      /\ \A j \in DOMAIN Tail(r) : \E i \in DOMAIN r : Tail(r)[j] = r[i]
  BY <1>1, TailFacts
<1> QED
  BY <1>3, <1>4 DEF InOrder, Below, Among

\* The state in the mailbox is sent.
LEMMA ToSent ==
  ASSUME NEW s, NEW w, NEW r \in Seq(State), NEW x \in State, InOrder(s, w, r, <<x>>)
  PROVE  /\ InOrder(s, w, Append(r, x), <<>>)
         /\ Among(s, w, Append(r, x), <<>>) \subseteq Among(s, w, r, <<x>>)
<1>1. DOMAIN <<>> = {} /\ DOMAIN <<x>> = {1} /\ <<x>>[1] = x
  OBVIOUS
<1>2. Sorted(r) /\ \A i \in DOMAIN r : AtLeast(x, r[i])
  BY <1>1 DEF InOrder, Below
<1>3. /\ Sorted(Append(r, x))
      /\ \A j \in DOMAIN Append(r, x) : Append(r, x)[j] = x \/ \E i \in DOMAIN r : Append(r, x)[j] = r[i]
  BY <1>2, AppendFacts
<1> QED
  BY <1>1, <1>3 DEF InOrder, Below, Among

\* A state is put in the mailbox.
LEMMA ToMailbox ==
  ASSUME NEW s, NEW w, NEW r, NEW b, NEW x, InOrder(s, w, r, b),
         \A y \in Among(s, w, r, b) : AtLeast(x, y)
  PROVE  /\ InOrder(s, w, r, <<x>>)
         /\ Among(s, w, r, <<x>>) \subseteq Among(s, w, r, b) \union {x}
<1>1. DOMAIN <<x>> = {1} /\ <<x>>[1] = x
  OBVIOUS
<1> QED
  BY <1>1 DEF InOrder, Below, Among

\* Whatever is lost on the way leaves the rest in order.
LEMMA Losing ==
  ASSUME NEW s, NEW w, NEW r, NEW b, InOrder(s, w, r, b)
  PROVE  /\ InOrder(s, w, r, <<>>) /\ Among(s, w, r, <<>>) \subseteq Among(s, w, r, b)
         /\ InOrder(s, w, <<>>, <<>>) /\ Among(s, w, <<>>, <<>>) \subseteq Among(s, w, r, b)
         /\ InOrder(s, <<>>, r, b) /\ Among(s, <<>>, r, b) \subseteq Among(s, w, r, b)
         /\ InOrder(s, <<>>, <<>>, <<>>) /\ Among(s, <<>>, <<>>, <<>>) \subseteq Among(s, w, r, b)
<1>1. DOMAIN <<>> = {}
  OBVIOUS
<1> QED
  BY <1>1 DEF InOrder, Below, Sorted, Among

-----------------------------------------------------------------------------
\* Types.

\* What the subscribers' calls and buffers hold.
BuffersOK ==
  /\ call \in [Subscribers -> {"none", "open", "broken"}]
  /\ stream \in [Subscribers -> [served: BOOLEAN, mailbox: Mailbox, sent: BOOLEAN]]
  /\ rpc \in [Subscribers -> Seq(State)]
  /\ ws \in [Pages -> Seq(State)]
  /\ seen \in [Subscribers -> Shown]

\* What was read of the telemetry.
TelemetryOK ==
  /\ lastRead \in Message \union {NothingRead}
  /\ latest \in [Channels -> Stamps \union {0}]

LEMMA TypeParts == Pages \subseteq Subscribers /\ Clients \subseteq Subscribers /\ State \subseteq Shown
BY CallersType DEF Shown

LEMMA TypesInit == Init => BuffersOK /\ TelemetryOK
BY DEF Init, StreamInit, PagesInit, BuffersOK, TelemetryOK, NotServed, NoState, Mailbox, Shown

LEMMA MailboxFacts ==
  ASSUME NEW q \in Mailbox, q # <<>>
  PROVE  Head(q) \in State /\ q = <<Head(q)>>
BY DEF Mailbox

LEMMA MailedTypes ==
  ASSUME BuffersOK, NEW s \in State
  PROVE  Mailed(s) \in [Subscribers -> [served: BOOLEAN, mailbox: Mailbox, sent: BOOLEAN]]
BY DEF BuffersOK, Mailed, Mailbox

LEMMA CompleteIsState == ASSUME TelemetryOK, Complete PROVE latest \in State
BY DEF TelemetryOK, Complete, State

LEMMA TelemetryNext == TelemetryOK /\ [Next]_vars => TelemetryOK'
<1> SUFFICES ASSUME TelemetryOK, [Next]_vars PROVE TelemetryOK'
  OBVIOUS
<1>1. CASE \E m \in Message : Observe(m)
  BY <1>1 DEF Observe, Folded, Message, TelemetryOK
<1>2. CASE SvcCrash
  BY <1>2 DEF SvcCrash, Crash, NoState, TelemetryOK
<1>3. CASE UNCHANGED <<lastRead, latest>>
  BY <1>3 DEF TelemetryOK
<1> QED
  BY <1>1, <1>2, <1>3 DEF Next, vars, svcVars, Svc, Connect, Disconnected, Broadcast, Begin, Subscribe,
     SendOrSkip, Send, Skip, ClientStep, ClientCalls, ClientReceives, ClientFails, ChannelReady, Watch,
     VizStep, CallRefused, Forward, CallFails, PageStep, PageConnects, OnMessage, OnClose, Leave, VizCrash

LEMMA EndedTypes ==
  ASSUME BuffersOK, NEW cs, CallsEnd(cs)
  PROVE  /\ call' \in [Subscribers -> {"none", "open", "broken"}]
         /\ stream' \in [Subscribers -> [served: BOOLEAN, mailbox: Mailbox, sent: BOOLEAN]]
         /\ rpc' \in [Subscribers -> Seq(State)]
         /\ \A c \in Subscribers : c \notin cs => stream'[c] = stream[c] /\ rpc'[c] = rpc[c]
         /\ \A c \in Subscribers : c \in cs => stream'[c].mailbox = <<>> /\ rpc'[c] = <<>>
<1>1. NotServed \in [served: BOOLEAN, mailbox: Mailbox, sent: BOOLEAN] /\ NotServed.mailbox = <<>>
  BY DEF NotServed, Mailbox
<1>2. <<>> \in Seq(State)
  OBVIOUS
<1> HIDE DEF NotServed
<1> QED
  BY <1>1, <1>2 DEF BuffersOK, CallsEnd

LEMMA TakenTypes ==
  ASSUME NEW q \in Seq(State), q # <<>>
  PROVE  Head(q) \in State /\ Tail(q) \in Seq(State)
OBVIOUS

LEMMA BuffersNext == BuffersOK /\ TelemetryOK /\ [Next]_vars => BuffersOK'
<1> SUFFICES ASSUME BuffersOK, TelemetryOK, [Next]_vars PROVE BuffersOK'
  OBVIOUS
<1> USE TypeParts
<1>1. CASE Broadcast /\ UNCHANGED <<vizVars, seen>>
  BY <1>1, CompleteIsState, MailedTypes DEF Broadcast, vizVars, BuffersOK
<1>2. ASSUME NEW c \in Subscribers, Begin(c) PROVE BuffersOK'
  BY <1>2 DEF Begin, Subscribe, NotServed, Mailbox, vizVars, BuffersOK
<1>3. ASSUME NEW c \in Subscribers, SendOrSkip(c) PROVE BuffersOK'
  <2>1. stream[c].mailbox # <<>> /\ Head(stream[c].mailbox) \in State /\ <<>> \in Mailbox
    BY <1>3, MailboxFacts DEF SendOrSkip, Send, Skip, BuffersOK, Mailbox
  <2>2. /\ call' \in [Subscribers -> {"none", "open", "broken"}]
        /\ ws' \in [Pages -> Seq(State)] /\ seen' \in [Subscribers -> Shown]
    BY <1>3 DEF SendOrSkip, Send, Skip, vizVars, BuffersOK
  <2>3. rpc' \in [Subscribers -> Seq(State)]
    <3>1. Append(rpc[c], Head(stream[c].mailbox)) \in Seq(State)
      BY <2>1 DEF BuffersOK
    <3> QED
      BY <1>3, <3>1 DEF SendOrSkip, Send, Skip, BuffersOK
  <2>4. (stream \in [Subscribers -> [served: BOOLEAN, mailbox: Mailbox, sent: BOOLEAN]])'
    <3>1. CASE stream' = [stream EXCEPT ![c].mailbox = <<>>]
      BY <3>1, <2>1 DEF BuffersOK
    <3>2. CASE stream' = [stream EXCEPT ![c].mailbox = <<>>, ![c].sent = TRUE]
      BY <3>2, <2>1 DEF BuffersOK
    <3> QED
      BY <1>3, <3>1, <3>2 DEF SendOrSkip, Send, Skip
  <2> QED
    BY <2>2, <2>3, <2>4 DEF BuffersOK
<1>4. ASSUME NEW c \in Clients, ClientStep(c) PROVE BuffersOK'
  <2>1. CASE ClientCalls(c)
    BY <2>1 DEF ClientCalls, CallOpens, vizVars, BuffersOK
  <2>2. CASE ClientReceives(c)
    <3>1. rpc[c] \in Seq(State) /\ rpc[c] # <<>>
      BY <2>2 DEF ClientReceives, BuffersOK
    <3>2. Head(rpc[c]) \in Shown /\ Tail(rpc[c]) \in Seq(State)
      BY <3>1, TakenTypes
    <3> QED
      BY <2>2, <3>2 DEF ClientReceives, vizVars, BuffersOK
  <2>3. CASE ClientFails(c)
    BY <2>3, EndedTypes DEF ClientFails, vizVars, BuffersOK
  <2> QED
    BY <1>4, <2>1, <2>2, <2>3 DEF ClientStep
<1>5. ASSUME NEW p \in Pages, VizStep(p) PROVE BuffersOK'
  <2>1. CASE CallRefused(p)
    BY <2>1 DEF CallRefused, vizVars, BuffersOK
  <2>2. CASE Forward(p) /\ page[p] = "gone"
    BY <2>2, EndedTypes DEF Forward, BuffersOK
  <2>3. CASE Forward(p) /\ page[p] # "gone"
    <3>1. rpc[p] \in Seq(State) /\ rpc[p] # <<>>
      BY <2>3 DEF Forward, BuffersOK
    <3>2. Head(rpc[p]) \in State /\ Tail(rpc[p]) \in Seq(State)
      BY <3>1, TakenTypes
    <3>3. Append(ws[p], Head(rpc[p])) \in Seq(State)
      BY <3>2 DEF BuffersOK
    <3> QED
      BY <2>3, <3>2, <3>3 DEF Forward, BuffersOK
  <2>4. CASE CallFails(p)
    BY <2>4, EndedTypes DEF CallFails, BuffersOK
  <2> QED
    BY <1>5, <2>1, <2>2, <2>3, <2>4 DEF VizStep
<1>6. ASSUME NEW p \in Pages, PageStep(p) \/ Leave(p) PROVE BuffersOK'
  <2>1. CASE PageConnects(p)
    BY <2>1 DEF PageConnects, CallOpens, BuffersOK
  <2>2. CASE OnMessage(p)
    <3>1. ws[p] \in Seq(State) /\ ws[p] # <<>>
      BY <2>2 DEF OnMessage, BuffersOK
    <3>2. Head(ws[p]) \in Shown /\ Tail(ws[p]) \in Seq(State)
      BY <3>1, TakenTypes
    <3> QED
      BY <2>2, <3>2 DEF OnMessage, streamVars, BuffersOK
  <2>3. CASE OnClose(p)
    BY <2>3 DEF OnClose, streamVars, BuffersOK
  <2>4. CASE Leave(p)
    BY <2>4 DEF Leave, streamVars, BuffersOK
  <2> QED
    BY <1>6, <2>1, <2>2, <2>3, <2>4 DEF PageStep
<1>7. CASE SvcCrash
  BY <1>7 DEF SvcCrash, Crash, NotServed, Mailbox, BuffersOK
<1>8. CASE VizCrash
  BY <1>8, EndedTypes DEF VizCrash, BuffersOK
<1>9. CASE UNCHANGED <<streamVars, ws, seen>>
  BY <1>9 DEF streamVars, BuffersOK
<1> QED
  BY <1>1, <1>2, <1>3, <1>4, <1>5, <1>6, <1>7, <1>8, <1>9 DEF Next, vars, Svc, Connect, Disconnected,
     Observe, ChannelReady, Watch, vizVars

-----------------------------------------------------------------------------
\* The way to each subscriber, and how it fits what was read.

Ordered(c) == InOrder(seen[c], Frames(c), rpc[c], stream[c].mailbox)

Carried(c) == Among(seen[c], Frames(c), rpc[c], stream[c].mailbox)

\* Nothing is later than what was read last, also before a restart, nor than
\* what was read since in the same channel.
Fits(x) == \A k \in Channels : x[k] <= lastRead.stamp /\ (latest[k] # 0 => x[k] <= latest[k])

WayInv ==
  /\ \A c \in Subscribers : Ordered(c) /\ \A x \in Carried(c) : Fits(x)
  /\ Fits(latest)

Numbers == lastRead.stamp \in Nat /\ lastRead.channel \in Nat /\ latest \in [Channels -> Nat]

LEMMA NumbersFacts == ASSUME BuffersOK, TelemetryOK
  PROVE  Numbers /\ \A c \in Subscribers : \A x \in Carried(c) : x \in [Channels -> Nat]
<1> USE TelemetryType, CallersType
<1>1. Numbers
  <2>1. \A s \in Stamps \union {0} : s \in Nat
    OBVIOUS
  <2>2. \A c \in Channels : c \in Nat
    OBVIOUS
  <2>3. latest \in [Channels -> Nat]
    BY <2>1 DEF TelemetryOK
  <2>4. lastRead.stamp \in Nat /\ lastRead.channel \in Nat
    <3>1. CASE lastRead \in Message
      <4>1. lastRead.stamp \in Stamps /\ lastRead.channel \in Channels
        BY <3>1 DEF Message
      <4> QED
        BY <4>1, <2>1, <2>2
    <3>2. CASE lastRead = NothingRead
      BY <3>2 DEF NothingRead
    <3> QED
      BY <3>1, <3>2 DEF TelemetryOK
  <2> QED
    BY <2>3, <2>4 DEF Numbers
<1>2. Shown \subseteq [Channels -> Nat] /\ State \subseteq [Channels -> Nat]
  <2>1. \A s \in Stamps : s \in Nat
    OBVIOUS
  <2>2. State \subseteq [Channels -> Nat]
    BY <2>1 DEF State
  <2>3. NoState \in [Channels -> Nat]
    BY DEF NoState
  <2> QED
    BY <2>2, <2>3 DEF Shown
<1>3. ASSUME NEW c \in Subscribers, NEW x \in Carried(c) PROVE x \in [Channels -> Nat]
  <2>1. seen[c] \in Shown /\ rpc[c] \in Seq(State) /\ Frames(c) \in Seq(State) /\ stream[c].mailbox \in Mailbox
    BY DEF BuffersOK, Frames
  <2>2. \A i \in DOMAIN rpc[c] : rpc[c][i] \in State
    BY <2>1
  <2>3. \A i \in DOMAIN Frames(c) : Frames(c)[i] \in State
    BY <2>1
  <2>4. \A i \in DOMAIN stream[c].mailbox : stream[c].mailbox[i] \in State
    BY <2>1 DEF Mailbox
  <2> QED
    BY <1>2, <1>3, <2>1, <2>2, <2>3, <2>4 DEF Carried, Among
<1> QED
  BY <1>1, <1>3

\* A message is later than what was read last, and its channel's last value.
LEMMA WayObserve ==
  ASSUME BuffersOK, TelemetryOK, WayInv, NEW m \in Message, Observe(m), UNCHANGED <<vizVars, seen>>
  PROVE  WayInv'
<1> USE TelemetryType
<1>1. /\ m.stamp \in Nat /\ m.channel \in Nat /\ m.channel \in Channels
      /\ lastRead' = m /\ latest' = [latest EXCEPT ![m.channel] = m.stamp]
      /\ m.stamp >= lastRead.stamp
  <2>1. m.stamp \in Nat /\ m.channel \in Nat /\ m.channel \in Channels
    BY DEF Message
  <2>2. Numbers
    BY NumbersFacts
  <2> QED
    BY <2>1, <2>2 DEF Observe, Folded, Comes, Numbers
<1>2. ASSUME NEW x \in [Channels -> Nat], Fits(x) PROVE Fits(x)'
  BY <1>1, <1>2, NumbersFacts DEF Fits, Numbers
<1>3. Fits(latest)'
  <2>1. \A k \in Channels : latest[k] \in Nat /\ latest[k] <= lastRead.stamp
    BY NumbersFacts DEF Numbers, WayInv, Fits
  <2>2. \A k \in Channels : latest'[k] = IF k = m.channel THEN m.stamp ELSE latest[k]
    BY <1>1, NumbersFacts DEF Numbers
  <2>3. \A k \in Channels : latest'[k] <= m.stamp /\ latest'[k] <= latest'[k]
    BY <1>1, <2>1, <2>2, NumbersFacts DEF Numbers
  <2> QED
    BY <1>1, <2>3 DEF Fits
<1>4. \A c \in Subscribers : Ordered(c)' = Ordered(c) /\ Carried(c)' = Carried(c)
  BY DEF Observe, streamVars, vizVars, Ordered, Carried, Frames
<1>5. ASSUME NEW c \in Subscribers PROVE Ordered(c)' /\ \A x \in Carried(c)' : Fits(x)'
  <2>1. Ordered(c) /\ \A x \in Carried(c) : Fits(x) /\ x \in [Channels -> Nat]
    BY NumbersFacts DEF WayInv
  <2> QED
    BY <1>2, <1>4, <2>1
<1> QED
  BY <1>3, <1>5 DEF WayInv

\* A step that reads nothing: each way keeps its order, and nothing but the
\* latest values comes onto it.
LEMMA WayFromCarried ==
  ASSUME WayInv, UNCHANGED <<lastRead, latest>>,
         \A c \in Subscribers : Ordered(c)' /\ Carried(c)' \subseteq Carried(c) \union {latest}
  PROVE  WayInv'
BY DEF WayInv, Fits

LEMMA WaySame ==
  ASSUME WayInv, UNCHANGED <<lastRead, latest, seen, ws, rpc>>,
         \A c \in Subscribers : stream'[c].mailbox = stream[c].mailbox
  PROVE  WayInv'
<1>1. \A c \in Subscribers : Ordered(c)' = Ordered(c) /\ Carried(c)' = Carried(c)
  BY DEF Ordered, Carried, Frames
<1> QED
  BY <1>1, WayFromCarried DEF WayInv

-----------------------------------------------------------------------------
LEMMA WayInit == Init => WayInv
<1> SUFFICES ASSUME Init PROVE WayInv
  OBVIOUS
<1>1. DOMAIN <<>> = {}
  OBVIOUS
<1>2. ASSUME NEW c \in Subscribers PROVE Ordered(c) /\ Carried(c) = {NoState}
  <2>1. seen[c] = NoState /\ rpc[c] = <<>> /\ Frames(c) = <<>> /\ stream[c].mailbox = <<>>
    BY DEF Init, StreamInit, PagesInit, NotServed, Frames
  <2> QED
    BY <1>1, <2>1 DEF Ordered, Carried, InOrder, Sorted, Below, Among
<1>3. Fits(NoState) /\ latest = NoState
  BY DEF Fits, NoState, Init, StreamInit, NothingRead
<1> QED
  BY <1>2, <1>3 DEF WayInv

\* A complete state is at least all that is on the way, and replaces what a
\* mailbox holds.
LEMMA WayBroadcast ==
  ASSUME BuffersOK, TelemetryOK, WayInv, Broadcast, UNCHANGED <<vizVars, seen>>
  PROVE  WayInv'
<1>1. CASE ~Complete
  BY <1>1, WaySame DEF Broadcast, vizVars
<1>2. CASE Complete
  <2>1. /\ UNCHANGED <<lastRead, latest, rpc, ws, seen>>
        /\ stream' = Mailed(latest)
    BY <1>2 DEF Broadcast, vizVars
  <2>2. ASSUME NEW c \in Subscribers PROVE Ordered(c)' /\ Carried(c)' \subseteq Carried(c) \union {latest}
    <3>1. Ordered(c) /\ \A x \in Carried(c) : AtLeast(latest, x)
      BY <1>2 DEF WayInv, Fits, Complete, AtLeast
    <3>2. Frames(c)' = Frames(c) /\ seen'[c] = seen[c] /\ rpc'[c] = rpc[c]
      BY <2>1 DEF Frames
    <3>3. CASE stream[c].served
      <4>1. stream'[c].mailbox = <<latest>>
        BY <2>1, <3>3 DEF Mailed, BuffersOK
      <4>2. /\ InOrder(seen[c], Frames(c), rpc[c], <<latest>>)
            /\ Among(seen[c], Frames(c), rpc[c], <<latest>>) \subseteq Carried(c) \union {latest}
        BY <3>1, ToMailbox DEF Ordered, Carried
      <4> QED
        BY <3>2, <4>1, <4>2 DEF Ordered, Carried
    <3>4. CASE ~stream[c].served
      BY <2>1, <3>1, <3>2, <3>4 DEF Mailed, Ordered, Carried
    <3> QED
      BY <3>3, <3>4
  <2> QED
    BY <2>1, <2>2, WayFromCarried
<1> QED
  BY <1>1, <1>2

\* A step that only concerns the way to one subscriber.
LEMMA WayOfOne ==
  ASSUME WayInv, UNCHANGED <<lastRead, latest>>, NEW c \in Subscribers,
         Ordered(c)', Carried(c)' \subseteq Carried(c),
         \A d \in Subscribers : d # c => /\ seen'[d] = seen[d] /\ Frames(d)' = Frames(d)
                                         /\ rpc'[d] = rpc[d] /\ stream'[d].mailbox = stream[d].mailbox
  PROVE  WayInv'
<1>1. ASSUME NEW d \in Subscribers PROVE Ordered(d)' /\ Carried(d)' \subseteq Carried(d) \union {latest}
  <2>1. CASE d = c
    BY <2>1
  <2>2. CASE d # c
    <3>1. Ordered(d)' = Ordered(d) /\ Carried(d)' = Carried(d)
      BY <2>2 DEF Ordered, Carried
    <3> QED
      BY <3>1 DEF WayInv
  <2> QED
    BY <2>1, <2>2
<1> QED
  BY <1>1, WayFromCarried

\* A call begins with an empty mailbox; a state is sent, or skipped.
LEMMA WayServed ==
  ASSUME BuffersOK, TelemetryOK, WayInv, NEW c \in Subscribers, Begin(c) \/ SendOrSkip(c)
  PROVE  WayInv'
<1>1. /\ UNCHANGED <<lastRead, latest>>
      /\ \A d \in Subscribers : seen'[d] = seen[d] /\ Frames(d)' = Frames(d)
      /\ \A d \in Subscribers : d # c => rpc'[d] = rpc[d] /\ stream'[d].mailbox = stream[d].mailbox
  BY DEF Begin, Subscribe, SendOrSkip, Send, Skip, svcVars, vizVars, Frames, BuffersOK
<1>2. Ordered(c)
  BY DEF WayInv
<1>3. CASE rpc'[c] = rpc[c] /\ stream'[c].mailbox = <<>>
  BY <1>1, <1>2, <1>3, Losing, WayOfOne DEF Ordered, Carried
<1>4. CASE Send(c)
  <2>1. PICK x \in State : stream[c].mailbox = <<x>>
    BY <1>4 DEF Send, BuffersOK, Mailbox
  <2>2. rpc'[c] = Append(rpc[c], x) /\ stream'[c].mailbox = <<>> /\ rpc[c] \in Seq(State)
    BY <1>4, <2>1 DEF Send, BuffersOK
  <2> QED
    BY <1>1, <1>2, <2>1, <2>2, ToSent, WayOfOne DEF Ordered, Carried
<1>5. Begin(c) \/ Skip(c) => rpc'[c] = rpc[c] /\ stream'[c].mailbox = <<>>
  BY DEF Begin, Subscribe, Skip, NotServed, BuffersOK
<1> QED
  BY <1>3, <1>4, <1>5 DEF SendOrSkip

\* Calls end: what was on the way to viz-svc or a client is gone.
LEMMA WayEnded ==
  ASSUME BuffersOK, WayInv, NEW cs, CallsEnd(cs), UNCHANGED <<lastRead, latest, seen>>,
         ws' = ws \/ \A p \in Pages : ws'[p] = <<>>
  PROVE  WayInv'
<1>1. ASSUME NEW c \in Subscribers PROVE Ordered(c)' /\ Carried(c)' \subseteq Carried(c) \union {latest}
  <2>1. Ordered(c)
    BY DEF WayInv
  <2>2. Frames(c)' = Frames(c) \/ Frames(c)' = <<>>
    BY DEF Frames
  <2>3. \/ rpc'[c] = rpc[c] /\ stream'[c].mailbox = stream[c].mailbox
        \/ rpc'[c] = <<>> /\ stream'[c].mailbox = <<>>
    BY EndedTypes
  <2> QED
    BY <2>1, <2>2, <2>3, Losing DEF Ordered, Carried
<1> QED
  BY <1>1, WayFromCarried

\* A client is shown what it receives, a page the frame that comes.
LEMMA WayShown ==
  ASSUME BuffersOK, WayInv, NEW c \in Subscribers,
         (ClientReceives(c) /\ c \in Clients) \/ (OnMessage(c) /\ c \in Pages)
  PROVE  WayInv' /\ AtLeast(seen'[c], seen[c]) /\ \A d \in Subscribers : d # c => seen'[d] = seen[d]
<1> USE TypeParts
<1>1. CASE ClientReceives(c) /\ c \in Clients
  <2>1. /\ UNCHANGED <<lastRead, latest>>
        /\ \A d \in Subscribers : Frames(d)' = Frames(d) /\ stream'[d].mailbox = stream[d].mailbox
        /\ \A d \in Subscribers : d # c => seen'[d] = seen[d] /\ rpc'[d] = rpc[d]
    BY <1>1 DEF ClientReceives, svcVars, vizVars, Frames, BuffersOK
  <2>2. /\ rpc[c] \in Seq(State) /\ rpc[c] # <<>> /\ Frames(c) = <<>>
        /\ seen'[c] = Head(rpc[c]) /\ rpc'[c] = Tail(rpc[c])
    BY <1>1, CallersType DEF ClientReceives, BuffersOK, Frames
  <2>3. InOrder(seen[c], <<>>, rpc[c], stream[c].mailbox)
    BY <2>2 DEF WayInv, Ordered
  <2>4. /\ InOrder(Head(rpc[c]), <<>>, Tail(rpc[c]), stream[c].mailbox) /\ AtLeast(Head(rpc[c]), seen[c])
        /\ Among(Head(rpc[c]), <<>>, Tail(rpc[c]), stream[c].mailbox)
             \subseteq Among(seen[c], <<>>, rpc[c], stream[c].mailbox)
    BY <2>2, <2>3, ShowSent
  <2>5. Ordered(c)' /\ Carried(c)' \subseteq Carried(c)
    BY <2>1, <2>2, <2>4 DEF Ordered, Carried
  <2> QED
    BY <2>1, <2>2, <2>4, <2>5, WayOfOne
<1>2. CASE OnMessage(c) /\ c \in Pages
  <2>1. /\ UNCHANGED <<lastRead, latest>>
        /\ \A d \in Subscribers : rpc'[d] = rpc[d] /\ stream'[d].mailbox = stream[d].mailbox
        /\ \A d \in Subscribers : d # c => seen'[d] = seen[d] /\ Frames(d)' = Frames(d)
    BY <1>2 DEF OnMessage, svcVars, streamVars, Frames, BuffersOK
  <2>2. /\ Frames(c) \in Seq(State) /\ Frames(c) # <<>>
        /\ seen'[c] = Head(Frames(c)) /\ Frames(c)' = Tail(Frames(c))
    BY <1>2 DEF OnMessage, BuffersOK, Frames
  <2>3. InOrder(seen[c], Frames(c), rpc[c], stream[c].mailbox)
    BY DEF WayInv, Ordered
  <2>4. /\ InOrder(Head(Frames(c)), Tail(Frames(c)), rpc[c], stream[c].mailbox)
        /\ AtLeast(Head(Frames(c)), seen[c])
        /\ Among(Head(Frames(c)), Tail(Frames(c)), rpc[c], stream[c].mailbox) \subseteq Carried(c)
    BY <2>2, <2>3, ShowFrame DEF Carried
  <2>5. Ordered(c)' /\ Carried(c)' \subseteq Carried(c)
    BY <2>1, <2>2, <2>4 DEF Ordered, Carried
  <2> QED
    BY <2>1, <2>2, <2>4, <2>5, WayOfOne
<1> QED
  BY <1>1, <1>2

\* viz-svc forwards a state to a page, or notices that the page is gone.
LEMMA WayForward ==
  ASSUME BuffersOK, WayInv, NEW p \in Pages, Forward(p)
  PROVE  WayInv'
<1> USE TypeParts
<1>1. CASE page[p] = "gone"
  BY <1>1, WayEnded DEF Forward, svcVars
<1>2. CASE page[p] # "gone"
  <2>1. /\ UNCHANGED <<lastRead, latest>> /\ rpc[p] \in Seq(State) /\ rpc[p] # <<>> /\ Frames(p) \in Seq(State)
        /\ Frames(p)' = Append(Frames(p), Head(rpc[p])) /\ rpc'[p] = Tail(rpc[p])
        /\ seen' = seen /\ stream' = stream
        /\ \A d \in Subscribers : d # p => Frames(d)' = Frames(d) /\ rpc'[d] = rpc[d]
    BY <1>2 DEF Forward, svcVars, BuffersOK, Frames
  <2>2. InOrder(seen[p], Frames(p), rpc[p], stream[p].mailbox) /\ p \in Subscribers
    BY DEF WayInv, Ordered
  <2>3. Ordered(p)' /\ Carried(p)' \subseteq Carried(p)
    BY <2>1, <2>2, ToFrame DEF Ordered, Carried
  <2> QED
    BY <2>1, <2>2, <2>3, WayOfOne
<1> QED
  BY <1>1, <1>2

LEMMA WayLeave ==
  ASSUME BuffersOK, WayInv, NEW p \in Pages, Leave(p)
  PROVE  WayInv'
<1> USE TypeParts
<1>1. /\ UNCHANGED <<lastRead, latest, seen, rpc, stream>> /\ Frames(p)' = <<>>
      /\ \A d \in Subscribers : d # p => Frames(d)' = Frames(d)
  BY DEF Leave, svcVars, streamVars, Frames, BuffersOK
<1>2. p \in Subscribers /\ Ordered(p)
  BY DEF WayInv
<1>3. Ordered(p)' /\ Carried(p)' \subseteq Carried(p)
  BY <1>1, <1>2, Losing DEF Ordered, Carried
<1> QED
  BY <1>1, <1>2, <1>3, WayOfOne

\* A restart of state-svc forgets what was read, and not how late it was.
LEMMA WayCrash ==
  ASSUME BuffersOK, TelemetryOK, WayInv, SvcCrash
  PROVE  WayInv'
<1>1. /\ UNCHANGED <<lastRead, rpc, ws, seen>> /\ latest' = NoState
      /\ \A c \in Subscribers : stream'[c].mailbox = <<>>
  BY DEF SvcCrash, Crash, NotServed
<1>2. ASSUME NEW x, Fits(x) PROVE Fits(x)'
  BY <1>1, <1>2 DEF Fits, NoState
<1>3. Fits(latest)'
  BY <1>1, NumbersFacts DEF Fits, NoState, Numbers
<1>4. ASSUME NEW c \in Subscribers PROVE Ordered(c)' /\ Carried(c)' \subseteq Carried(c)
  <2>1. Ordered(c) /\ Frames(c)' = Frames(c)
    BY <1>1 DEF WayInv, Frames
  <2> QED
    BY <1>1, <2>1, Losing DEF Ordered, Carried
<1> QED
  BY <1>2, <1>3, <1>4 DEF WayInv

LEMMA WayNext == BuffersOK /\ TelemetryOK /\ WayInv /\ [Next]_vars => WayInv'
<1> SUFFICES ASSUME BuffersOK, TelemetryOK, WayInv, [Next]_vars PROVE WayInv'
  OBVIOUS
<1> USE TypeParts
<1>1. CASE Svc
  <2>1. CASE (Connect \/ Disconnected) /\ UNCHANGED <<vizVars, seen>>
    BY <2>1, WaySame DEF Connect, Disconnected, streamVars, vizVars
  <2>2. CASE Broadcast /\ UNCHANGED <<vizVars, seen>>
    BY <2>2, WayBroadcast
  <2>3. ASSUME NEW m \in Message, Observe(m) PROVE WayInv'
    BY <1>1, <2>3, WayObserve DEF Svc
  <2> QED
    BY <1>1, <2>1, <2>2, <2>3 DEF Svc
<1>2. ASSUME NEW c \in Subscribers, Begin(c) \/ SendOrSkip(c) PROVE WayInv'
  BY <1>2, WayServed
<1>3. ASSUME NEW c \in Clients, ClientStep(c) PROVE WayInv'
  <2>1. CASE ClientCalls(c)
    BY <2>1, WaySame DEF ClientCalls, svcVars, vizVars
  <2>2. CASE ClientReceives(c)
    BY <2>2, WayShown
  <2>3. CASE ClientFails(c)
    BY <2>3, WayEnded DEF ClientFails, svcVars, vizVars
  <2> QED
    BY <1>3, <2>1, <2>2, <2>3 DEF ClientStep
<1>4. ASSUME NEW p \in Pages, VizStep(p) PROVE WayInv'
  <2>1. CASE CallRefused(p)
    BY <2>1, WaySame DEF CallRefused, svcVars, vizVars
  <2>2. CASE Forward(p)
    BY <2>2, WayForward
  <2>3. CASE CallFails(p)
    BY <2>3, WayEnded DEF CallFails, svcVars
  <2> QED
    BY <1>4, <2>1, <2>2, <2>3 DEF VizStep
<1>5. ASSUME NEW p \in Pages, PageStep(p) PROVE WayInv'
  <2>1. CASE PageConnects(p)
    BY <2>1, WaySame DEF PageConnects, svcVars
  <2>2. CASE OnMessage(p)
    BY <2>2, WayShown
  <2>3. CASE OnClose(p)
    BY <2>3, WaySame DEF OnClose, svcVars, streamVars
  <2> QED
    BY <1>5, <2>1, <2>2, <2>3 DEF PageStep
<1>6. ASSUME NEW p \in Pages, Leave(p) PROVE WayInv'
  BY <1>6, WayLeave
<1>7. CASE SvcCrash
  BY <1>7, WayCrash
<1>8. CASE VizCrash
  <2>1. ws' = ws \/ \A p \in Pages : ws'[p] = <<>>
    BY <1>8 DEF VizCrash
  <2> QED
    BY <1>8, <2>1, WayEnded DEF VizCrash, svcVars
<1>9. CASE ChannelReady \/ Watch
  BY <1>9, WaySame DEF ChannelReady, Watch, svcVars, streamVars
<1>10. CASE UNCHANGED vars
  BY <1>10, WaySame DEF vars, svcVars, streamVars, vizVars
<1> QED
  BY <1>1, <1>2, <1>3, <1>4, <1>5, <1>6, <1>7, <1>8, <1>9, <1>10 DEF Next

\* Only what is taken off a way is shown, and it is at least what was.
LEMMA ShownNext ==
  BuffersOK /\ WayInv /\ [Next]_vars => \A c \in Subscribers : AtLeast(seen'[c], seen[c])
<1> SUFFICES ASSUME BuffersOK, WayInv, [Next]_vars, NEW c \in Subscribers PROVE AtLeast(seen'[c], seen[c])
  OBVIOUS
<1> USE TypeParts
<1>1. AtLeast(seen[c], seen[c])
  <2>1. \A s \in Stamps : s \in Nat
    BY TelemetryType
  <2>2. Shown \subseteq [Channels -> Nat]
    BY <2>1 DEF Shown, State, NoState
  <2>3. seen[c] \in [Channels -> Nat]
    BY <2>2 DEF BuffersOK
  <2> QED
    BY <2>3 DEF AtLeast
<1>2. ASSUME NEW d \in Clients, ClientReceives(d) PROVE AtLeast(seen'[c], seen[c])
  <2>1. d \in Subscribers
    OBVIOUS
  <2>2. AtLeast(seen'[d], seen[d]) /\ \A e \in Subscribers : e # d => seen'[e] = seen[e]
    BY <1>2, <2>1, WayShown
  <2> QED
    BY <1>1, <2>2
<1>3. ASSUME NEW p \in Pages, OnMessage(p) PROVE AtLeast(seen'[c], seen[c])
  <2>1. p \in Subscribers
    OBVIOUS
  <2>2. AtLeast(seen'[p], seen[p]) /\ \A e \in Subscribers : e # p => seen'[e] = seen[e]
    BY <1>3, <2>1, WayShown
  <2> QED
    BY <1>1, <2>2
<1>4. CASE seen' = seen
  BY <1>1, <1>4
<1> QED
  BY <1>2, <1>3, <1>4 DEF Next, vars, Svc, Begin, SendOrSkip, ClientStep, ClientCalls, ClientFails, ChannelReady, Watch,
     VizStep, CallRefused, Forward, CallFails, PageStep, PageConnects, OnClose, Leave, SvcCrash, VizCrash, vizVars

\* What a page or a client is shown never goes back, over restarts of either
\* service and reconnections.
THEOREM ShownNeverBack == Spec => NeverBack
<1>1. Spec => [](BuffersOK /\ TelemetryOK)
  BY TypesInit, TelemetryNext, BuffersNext, PTL DEF Spec
<1>2. Spec => []WayInv
  BY <1>1, WayInit, WayNext, PTL DEF Spec
<1>3. BuffersOK /\ WayInv /\ [Next]_vars => [\A c \in Subscribers : AtLeast(seen'[c], seen[c])]_vars
  BY ShownNext
<1> QED
  BY <1>1, <1>2, <1>3, PTL DEF Spec, NeverBack

-----------------------------------------------------------------------------
\* Types of the rest.

FlagsType == mqtt \in BOOLEAN /\ dirty \in BOOLEAN

HubType == hub \in State \union {NoState}

LinksType ==
  /\ chan \in {"READY", "DOWN"} /\ known \in {"READY", "DOWN"}
  /\ failures \in 0..MaxFailures

PagesType ==
  /\ page \in [Pages -> {"connecting", "live", "reconnecting", "gone"}]
  /\ socket \in [Pages -> {"none", "open", "closing"}]

FlowType ==
  /\ \A c \in Subscribers : Len(rpc[c]) <= Flow
  /\ \A p \in Pages : Len(ws[p]) <= Flow

RestType == FlagsType /\ HubType /\ LinksType /\ PagesType /\ FlowType

LEMMA RestInit == Init => RestType
<1> SUFFICES ASSUME Init PROVE RestType
  OBVIOUS
<1>1. FlagsType
  BY Zenon DEF Init, StreamInit, FlagsType
<1>2. HubType
  BY DEF Init, StreamInit, HubType
<1>3. LinksType
  BY BoundsType DEF Init, StreamInit, LinksType
<1>4. PagesType
  BY DEF Init, PagesInit, PagesType
<1>5. FlowType
  <2>1. Len(<<>>) <= Flow
    BY BoundsType
  <2> QED
    BY <2>1 DEF Init, StreamInit, PagesInit, FlowType
<1> QED
  BY <1>1, <1>2, <1>3, <1>4, <1>5 DEF RestType

LEMMA FlagsNext == FlagsType /\ [Next]_vars => FlagsType'
<1> SUFFICES ASSUME FlagsType, [Next]_vars PROVE FlagsType'
  OBVIOUS
<1>1. (mqtt' = mqtt) \/ (mqtt' = TRUE) \/ (mqtt' = FALSE)
  BY Zenon DEF Next, vars, svcVars, streamVars, vizVars, Svc, Connect, Disconnected, Observe, Broadcast, Begin, Subscribe,
     SendOrSkip, Send, Skip, ClientStep, ClientCalls, ClientReceives, ClientFails, ChannelReady, Watch,
     VizStep, CallRefused, Forward, CallFails, PageStep, PageConnects, OnMessage, OnClose, Leave, SvcCrash, Crash, VizCrash
<1>2. (dirty' = dirty) \/ (dirty' = TRUE) \/ (dirty' = FALSE)
  BY Zenon DEF Next, vars, svcVars, streamVars, vizVars, Svc, Connect, Disconnected, Observe, Broadcast, Begin, Subscribe,
     SendOrSkip, Send, Skip, ClientStep, ClientCalls, ClientReceives, ClientFails, ChannelReady, Watch,
     VizStep, CallRefused, Forward, CallFails, PageStep, PageConnects, OnMessage, OnClose, Leave, SvcCrash, Crash, VizCrash
<1> QED
  BY <1>1, <1>2, Zenon DEF FlagsType

LEMMA HubNext == TelemetryOK /\ HubType /\ [Next]_vars => HubType'
<1> SUFFICES ASSUME TelemetryOK, HubType, [Next]_vars PROVE HubType'
  OBVIOUS
<1>1. CASE Broadcast
  BY <1>1, CompleteIsState DEF Broadcast, HubType
<1>2. CASE SvcCrash
  BY <1>2 DEF SvcCrash, Crash, HubType
<1>3. CASE hub' = hub
  BY <1>3 DEF HubType
<1> QED
  BY <1>1, <1>2, <1>3 DEF Next, vars, svcVars, streamVars, vizVars, Svc, Connect, Disconnected, Observe, Broadcast, Begin, Subscribe,
     SendOrSkip, Send, Skip, ClientStep, ClientCalls, ClientReceives, ClientFails, ChannelReady, Watch,
     VizStep, CallRefused, Forward, CallFails, PageStep, PageConnects, OnMessage, OnClose, Leave, SvcCrash, Crash, VizCrash

LEMMA LinksNext == LinksType /\ [Next]_vars => LinksType'
<1> SUFFICES ASSUME LinksType, [Next]_vars PROVE LinksType'
  OBVIOUS
<1>1. \/ UNCHANGED <<chan, known, failures>>
      \/ ChannelReady \/ Watch \/ SvcCrash \/ VizCrash
  BY DEF Next, vars, svcVars, streamVars, vizVars, Svc, Connect, Disconnected, Observe, Broadcast, Begin, Subscribe,
     SendOrSkip, Send, Skip, ClientStep, ClientCalls, ClientReceives, ClientFails, ChannelReady, Watch,
     VizStep, CallRefused, Forward, CallFails, PageStep, PageConnects, OnMessage, OnClose, Leave, SvcCrash, Crash, VizCrash
<1> QED
  BY <1>1, BoundsType DEF ChannelReady, Watch, SvcCrash, Crash, VizCrash, LinksType

LEMMA PagesNext == PagesType /\ [Next]_vars => PagesType'
<1> SUFFICES ASSUME PagesType, [Next]_vars PROVE PagesType'
  OBVIOUS
<1> USE DEF PagesType
<1>1. CASE UNCHANGED <<page, socket>>
  BY <1>1
<1>2. ASSUME NEW p \in Pages, PageConnects(p) \/ OnClose(p) \/ Leave(p) \/ CallFails(p) PROVE PagesType'
  BY <1>2 DEF PageConnects, OnClose, Leave, CallFails
<1>3. CASE VizCrash
  BY <1>3 DEF VizCrash
<1> QED
  BY <1>1, <1>2, <1>3 DEF Next, vars, svcVars, streamVars, vizVars, Svc, Connect, Disconnected, Observe, Broadcast, Begin, Subscribe,
     SendOrSkip, Send, Skip, ClientStep, ClientCalls, ClientReceives, ClientFails, ChannelReady, Watch,
     VizStep, CallRefused, Forward, CallFails, PageStep, PageConnects, OnMessage, OnClose, Leave, SvcCrash, Crash, VizCrash

LEMMA FlowKept ==
  ASSUME NEW q \in Seq(State)
  PROVE  /\ q # <<>> /\ Len(q) <= Flow => Len(Tail(q)) <= Flow
         /\ \A x \in State : Len(q) < Flow => Len(Append(q, x)) <= Flow
<1>1. Len(q) \in Nat /\ Flow \in Nat
  BY BoundsType
<1>2. q # <<>> => Len(Tail(q)) = Len(q) - 1
  OBVIOUS
<1>3. \A x \in State : Len(Append(q, x)) = Len(q) + 1
  OBVIOUS
<1> QED
  BY <1>1, <1>2, <1>3

LEMMA FlowNext == BuffersOK /\ FlowType /\ [Next]_vars => FlowType'
<1> SUFFICES ASSUME BuffersOK, FlowType, [Next]_vars PROVE FlowType'
  OBVIOUS
<1> USE TypeParts, BoundsType
<1>1. Len(<<>>) = 0 /\ Flow \in Nat
  OBVIOUS
<1>2. CASE UNCHANGED <<rpc, ws>>
  BY <1>2 DEF FlowType
<1>3. ASSUME NEW c \in Subscribers, Send(c), UNCHANGED ws PROVE FlowType'
  <2>1. Head(stream[c].mailbox) \in State
    BY <1>3, MailboxFacts DEF Send, BuffersOK
  <2>2. \A d \in Subscribers : rpc'[d] = IF d = c THEN Append(rpc[d], Head(stream[c].mailbox)) ELSE rpc[d]
    BY <1>3 DEF Send, BuffersOK
  <2>3. rpc[c] \in Seq(State) /\ Len(rpc[c]) < Flow
    BY <1>3 DEF Send, BuffersOK
  <2>4. Len(Append(rpc[c], Head(stream[c].mailbox))) <= Flow
    BY <2>1, <2>3, FlowKept
  <2> QED
    BY <1>3, <2>2, <2>4 DEF FlowType
<1>4. ASSUME NEW c \in Clients, ClientReceives(c) PROVE FlowType'
  <2>1. rpc[c] \in Seq(State) /\ rpc[c] # <<>> /\ ws' = ws
    BY <1>4 DEF ClientReceives, vizVars, BuffersOK
  <2>2. \A d \in Subscribers : rpc'[d] = IF d = c THEN Tail(rpc[d]) ELSE rpc[d]
    BY <1>4 DEF ClientReceives, BuffersOK
  <2>3. Len(Tail(rpc[c])) <= Flow
    BY <2>1, FlowKept DEF FlowType
  <2> QED
    BY <2>1, <2>2, <2>3 DEF FlowType
<1>5. ASSUME NEW cs, CallsEnd(cs), ws' = ws \/ \A p \in Pages : ws'[p] = <<>> PROVE FlowType'
  BY <1>1, <1>5 DEF CallsEnd, FlowType
<1>6. ASSUME NEW p \in Pages, Forward(p), page[p] # "gone" PROVE FlowType'
  <2>1. rpc[p] \in Seq(State) /\ rpc[p] # <<>> /\ ws[p] \in Seq(State) /\ Len(ws[p]) < Flow
    BY <1>6 DEF Forward, BuffersOK
  <2>2. \A d \in Subscribers : rpc'[d] = IF d = p THEN Tail(rpc[d]) ELSE rpc[d]
    BY <1>6 DEF Forward, BuffersOK
  <2>3. \A d \in Pages : ws'[d] = IF d = p THEN Append(ws[d], Head(rpc[p])) ELSE ws[d]
    BY <1>6 DEF Forward, BuffersOK
  <2>4. Len(Tail(rpc[p])) <= Flow
    BY <2>1, FlowKept DEF FlowType
  <2>5. Len(Append(ws[p], Head(rpc[p]))) <= Flow
    BY <2>1, FlowKept, TakenTypes
  <2> QED
    BY <2>2, <2>3, <2>4, <2>5 DEF FlowType
<1>7. ASSUME NEW p \in Pages, OnMessage(p) PROVE FlowType'
  <2>1. ws[p] \in Seq(State) /\ ws[p] # <<>> /\ rpc' = rpc
    BY <1>7 DEF OnMessage, streamVars, BuffersOK
  <2>2. \A d \in Pages : ws'[d] = IF d = p THEN Tail(ws[d]) ELSE ws[d]
    BY <1>7 DEF OnMessage, BuffersOK
  <2>3. Len(Tail(ws[p])) <= Flow
    BY <2>1, FlowKept DEF FlowType
  <2> QED
    BY <2>1, <2>2, <2>3 DEF FlowType
<1>8. ASSUME NEW p \in Pages, Leave(p) PROVE FlowType'
  BY <1>1, <1>8 DEF Leave, streamVars, FlowType, BuffersOK
<1>9. CASE VizCrash
  <2>1. ws' = ws \/ \A p \in Pages : ws'[p] = <<>>
    BY <1>9 DEF VizCrash
  <2> QED
    BY <1>5, <1>9, <2>1 DEF VizCrash
<1>10. ASSUME NEW c \in Clients, ClientFails(c) PROVE FlowType'
  BY <1>5, <1>10 DEF ClientFails, vizVars
<1>11. ASSUME NEW p \in Pages, CallFails(p) \/ (Forward(p) /\ page[p] = "gone") PROVE FlowType'
  BY <1>5, <1>11 DEF CallFails, Forward
<1>12. ASSUME NEW c \in Subscribers, SendOrSkip(c) PROVE FlowType'
  BY <1>2, <1>3, <1>12 DEF SendOrSkip, Skip, vizVars
<1>13. ASSUME NEW p \in Pages, VizStep(p) PROVE FlowType'
  BY <1>2, <1>6, <1>11, <1>13 DEF VizStep, CallRefused, vizVars
<1>14. ASSUME NEW p \in Pages, PageStep(p) PROVE FlowType'
  BY <1>2, <1>7, <1>14 DEF PageStep, PageConnects, OnClose, streamVars
<1>15. ASSUME NEW c \in Clients, ClientStep(c) PROVE FlowType'
  BY <1>2, <1>4, <1>10, <1>15 DEF ClientStep, ClientCalls, vizVars
<1>16. CASE Svc \/ SvcCrash \/ ChannelReady \/ Watch \/ UNCHANGED vars
  BY <1>2, <1>16 DEF Svc, Connect, Disconnected, Observe, Broadcast, SvcCrash, Crash, ChannelReady, Watch,
     streamVars, vizVars, vars
<1>17. ASSUME NEW c \in Subscribers, Begin(c) PROVE FlowType'
  BY <1>2, <1>17 DEF Begin, Subscribe, vizVars
<1> QED
  BY <1>8, <1>9, <1>12, <1>13, <1>14, <1>15, <1>16, <1>17 DEF Next

\* Every variable stays within its type, and no buffer holds more than flow
\* control allows.
THEOREM ViewerTypes == Spec => []TypeOK
<1>1. Spec => [](BuffersOK /\ TelemetryOK)
  BY TypesInit, TelemetryNext, BuffersNext, PTL DEF Spec
<1>2. BuffersOK /\ TelemetryOK /\ RestType /\ [Next]_vars => RestType'
  BY FlagsNext, HubNext, LinksNext, PagesNext, FlowNext DEF RestType
<1>3. Spec => []RestType
  BY <1>1, <1>2, RestInit, PTL DEF Spec
<1>4. BuffersOK /\ TelemetryOK /\ RestType => TypeOK
  BY Zenon DEF BuffersOK, TelemetryOK, RestType, FlagsType, HubType, LinksType, PagesType, FlowType, StreamTypeOK,
     TypeOK
<1> QED
  BY <1>1, <1>3, <1>4, PTL
=============================================================================
