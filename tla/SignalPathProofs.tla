-------------------------- MODULE SignalPathProofs --------------------------
(***************************************************************************)
(* The injector's two threads, for any number of samples and faults, and   *)
(* the bridge's losses and the order it keeps, for any number of outages   *)
(* and any capacity of its queue.                                          *)
(***************************************************************************)
EXTENDS SignalPath, FiniteSetTheorems, TLAPS

-----------------------------------------------------------------------------
\* Types.

LEMMA TypeInit == Init => TypeOK
<1> SUFFICES ASSUME Init PROVE TypeOK
  OBVIOUS
<1>1. InjectorTypeOK
  BY BoundsType DEF Init, InjectorTypeOK, Unknown
<1>2. HandOverTypeOK
  <2>1. /\ topic = <<>> /\ puts = <<>> /\ waiting = <<>> /\ woken = <<>> /\ queue = <<>>
        /\ refused = {} /\ overrun = {}
    BY DEF Init
  <2>2. Len(<<>>) <= MaxQueue /\ Len(<<>>) <= Depth /\ <<>> \in Seq(Samples)
    BY CountsType
  <2>3. overflowed \in BOOLEAN
    BY Zenon DEF Init
  <2> QED BY <2>1, <2>2, <2>3 DEF HandOverTypeOK
<1>3. WorkerTypeOK
  <2>1. out = <<>> /\ fates = <<>> /\ failures = 0 /\ conn = "backoff" /\ worker = NoWork
    BY DEF Init
  <2>2. <<>> \in Seq(Samples) /\ <<>> \in Seq(Fates)
    OBVIOUS
  <2> QED BY <2>1, <2>2, BoundsType DEF WorkerTypeOK
<1> QED BY <1>1, <1>2, <1>3 DEF TypeOK

LEMMA Ends ==
  ASSUME NEW seq \in Seq(Samples)
  PROVE  /\ seq # <<>> => Head(seq) \in Samples /\ Tail(seq) \in Seq(Samples) /\ Len(Tail(seq)) = Len(seq) - 1
         /\ \A s \in Samples : Append(seq, s) \in Seq(Samples) /\ Len(Append(seq, s)) = Len(seq) + 1
  OBVIOUS

LEMMA ShownAreSamples ==
  ASSUME NEW f \in Faults \union {0}, NEW seq \in Seq(Samples), seq # <<>>
  PROVE  Shown(f, seq) \in SUBSET Samples
<1>1. \A i \in 1..Len(seq) : seq[i] \in Samples
  OBVIOUS
<1>2. /\ Last(seq) \in Samples /\ Head(seq) \in Samples
      /\ ToSet(seq) \in SUBSET Samples
  BY <1>1 DEF Last, ToSet
<1>3. CASE f = 0
  BY <1>2, <1>3 DEF Shown
<1>4. CASE f \in Faults
  <2>1. Kind[f] \in {"friction", "encoder", "stuck", "dropout"}
    BY <1>4, FaultsType
  <2>2. f # 0
    BY <1>4, FaultsType
  <2> QED BY <1>2, <2>1, <2>2 DEF Shown
<1> QED BY <1>3, <1>4

LEMMA InjectorTypeNext == TypeOK /\ [Next]_vars => InjectorTypeOK'
<1> SUFFICES ASSUME TypeOK, [Next]_vars PROVE InjectorTypeOK'
  OBVIOUS
<1> USE BoundsType DEF TypeOK, InjectorTypeOK, Unknown, injectorVars, sessionVars, nodeVars
<1>1. CASE Tick
  BY <1>1 DEF Tick
<1>2. ASSUME NEW f \in Faults, Activate(f) PROVE InjectorTypeOK'
  <2>1. now \in 0..Horizon + 1
    OBVIOUS
  <2> QED BY <1>2, <2>1 DEF Activate
<1>3. CASE SwapIn
  <2>1. doing.fault \in Faults
    BY <1>3 DEF SwapIn, Idle
  <2>2. given' \in Seq(Samples)
    BY <1>3 DEF SwapIn
  <2> QED BY <1>3, <2>1, <2>2 DEF SwapIn, Idle
<1>4. CASE SwapOut
  <2>1. doing.fault \in Faults
    BY <1>4 DEF SwapOut, Idle
  <2> QED BY <1>4, <2>1 DEF SwapOut, Idle
<1>5. CASE Clear
  BY <1>5 DEF Clear, Idle
<1>6. CASE Apply
  <2> DEFINE s == taken + 1
             seq == IF transform = 0 THEN <<s>> ELSE Append(given, s)
  <2>1. s \in Samples /\ seq \in Seq(Samples) /\ seq # <<>>
    BY <1>6 DEF Apply
  <2>2. Shown(transform, seq) \in SUBSET Samples
    BY <2>1, ShownAreSamples
  <2>3. /\ taken' = s
        /\ given' = IF transform = 0 THEN given ELSE seq
        /\ by' = [by EXCEPT ![s] = transform]
        /\ ros' = [sample |-> s, of |-> Shown(transform, seq), at |-> now]
        /\ UNCHANGED <<now, transform, label, doing, node>>
    BY <1>6 DEF Apply
  <2> HIDE DEF s, seq
  <2> QED BY <2>1, <2>2, <2>3
<1>9. CASE Raise
  <2>1. /\ taken + 1 \in Samples /\ taken' = taken + 1 /\ by' = [by EXCEPT ![taken + 1] = transform]
        /\ node' = "down" /\ UNCHANGED <<now, transform, label, doing, given, ros>>
    BY <1>9 DEF Raise
  <2> QED BY <2>1
<1>7. CASE Forward \/ Drop
  BY <1>7 DEF Forward, Drop
<1>8. CASE UNCHANGED injectorVars /\ UNCHANGED now
  BY <1>8
<1> QED
  BY <1>1, <1>2, <1>3, <1>4, <1>5, <1>6, <1>7, <1>8, <1>9
  DEF Next, vars, ReceiveInvalid, Receive, Put, PutAgain, Connect, Get, Publish, Refuse, PublishFails, LinkLost

\* A put leaves the queue within its capacity, wherever its sample goes.
LEMMA PutTypes ==
  ASSUME queue \in Seq(Samples), Len(queue) <= MaxQueue, waiting \in Seq(Samples), overflowed \in BOOLEAN,
         NEW s \in Samples, PutOf(s)
  PROVE  /\ queue' \in Seq(Samples) /\ Len(queue') <= MaxQueue
         /\ waiting' \in Seq(Samples)
         /\ overflowed' \in BOOLEAN
<1>1. CASE Len(queue) < MaxQueue
  <2>1. queue' = Append(queue, s) /\ waiting' = waiting /\ overflowed' = overflowed
    BY <1>1 DEF PutOf
  <2>2. queue' \in Seq(Samples) /\ Len(queue') = Len(queue) + 1 /\ Len(queue) \in Nat
    BY <2>1, Ends
  <2> QED BY <1>1, <2>1, <2>2, CountsType
<1>2. CASE ~(Len(queue) < MaxQueue)
  <2>1. waiting' = Append(waiting, s) /\ queue' = queue /\ overflowed' = TRUE
    BY <1>2, Zenon DEF PutOf
  <2>2. overflowed' \in BOOLEAN
    BY <2>1, Zenon
  <2>3. queue' \in Seq(Samples) /\ Len(queue') <= MaxQueue /\ waiting' \in Seq(Samples)
    BY <2>1, Ends
  <2> QED BY <2>2, <2>3
<1> QED BY <1>1, <1>2

LEMMA HandOverTypeNext == TypeOK /\ [Next]_vars => HandOverTypeOK'
<1> SUFFICES ASSUME TypeOK, [Next]_vars PROVE HandOverTypeOK'
  OBVIOUS
<1>0. /\ topic \in Seq(Samples) /\ Len(topic) <= Depth /\ puts \in Seq(Samples) /\ waiting \in Seq(Samples)
      /\ woken \in Seq(Samples) /\ queue \in Seq(Samples) /\ Len(queue) <= MaxQueue /\ overflowed \in BOOLEAN
      /\ refused \subseteq Samples /\ overrun \subseteq Samples
      /\ ros # NoSample => ros.sample \in Samples
      /\ worker # NoWork => worker.sample \in Samples
  <2>1. HandOverTypeOK
    BY DEF TypeOK
  <2>2. ros # NoSample => ros.sample \in Samples
    BY DEF TypeOK, InjectorTypeOK
  <2>3. worker # NoWork => worker.sample \in Samples
    BY DEF TypeOK, WorkerTypeOK
  <2> QED BY <2>1, <2>2, <2>3 DEF HandOverTypeOK
<1> USE DEF HandOverTypeOK
<1>1. CASE Forward
  <2>1. ros.sample \in Samples /\ UNCHANGED <<handOverVars, refused>>
    BY <1>0, <1>1 DEF Forward
  <2>2. topic' \in Seq(Samples) /\ Len(topic') <= Depth /\ overrun' \subseteq Samples
    <3>1. CASE Len(topic) < Depth
      <4>1. topic' = Append(topic, ros.sample) /\ overrun' = overrun
        BY <1>1, <3>1 DEF Forward
      <4>2. topic' \in Seq(Samples) /\ Len(topic') = Len(topic) + 1 /\ Len(topic) \in Nat
        BY <1>0, <2>1, <4>1, Ends
      <4> QED BY <1>0, <3>1, <4>1, <4>2, CountsType
    <3>2. CASE ~(Len(topic) < Depth)
      <4>1. topic' = Append(Tail(topic), ros.sample) /\ overrun' = overrun \union {Head(topic)}
        BY <1>1, <3>2 DEF Forward
      <4>2. topic # <<>>
        BY <1>0, <3>2, CountsType
      <4>3. Head(topic) \in Samples /\ Tail(topic) \in Seq(Samples) /\ Len(Tail(topic)) = Len(topic) - 1
        BY <1>0, <4>2, Ends
      <4>4. topic' \in Seq(Samples) /\ Len(topic') = Len(Tail(topic)) + 1 /\ Len(topic) \in Nat
        BY <1>0, <2>1, <4>1, <4>3, Ends
      <4> QED BY <1>0, <4>1, <4>3, <4>4, CountsType
    <3> QED BY <3>1, <3>2
  <2> QED BY <1>0, <2>1, <2>2 DEF handOverVars
<1>2. CASE Put
  <2>1. puts' = Tail(puts) /\ PutOf(Head(puts)) /\ UNCHANGED <<topicVars, woken, refused>> /\ puts # <<>>
    BY <1>2 DEF Put
  <2>2. Head(puts) \in Samples /\ Tail(puts) \in Seq(Samples)
    BY <1>0, <2>1, Ends
  <2>3. /\ queue' \in Seq(Samples) /\ Len(queue') <= MaxQueue /\ waiting' \in Seq(Samples)
        /\ overflowed' \in BOOLEAN
    BY <1>0, <2>1, <2>2, PutTypes
  <2> QED BY <1>0, <2>1, <2>2, <2>3 DEF topicVars
<1>3. CASE PutAgain
  <2>1. woken' = Tail(woken) /\ PutOf(Head(woken)) /\ UNCHANGED <<topicVars, puts, refused>> /\ woken # <<>>
    BY <1>3 DEF PutAgain
  <2>2. Head(woken) \in Samples /\ Tail(woken) \in Seq(Samples)
    BY <1>0, <2>1, Ends
  <2>3. /\ queue' \in Seq(Samples) /\ Len(queue') <= MaxQueue /\ waiting' \in Seq(Samples)
        /\ overflowed' \in BOOLEAN
    BY <1>0, <2>1, <2>2, PutTypes
  <2> QED BY <1>0, <2>1, <2>2, <2>3 DEF topicVars
<1>4. CASE Get
  <2>1. /\ queue # <<>> /\ queue' = Tail(queue) /\ UNCHANGED <<topicVars, puts, overflowed, refused>>
        /\ \/ waiting' = waiting /\ woken' = woken
           \/ waiting # <<>> /\ waiting' = Tail(waiting) /\ woken' = Append(woken, Head(waiting))
    BY <1>4 DEF Get
  <2>2. queue' \in Seq(Samples) /\ Len(queue') = Len(queue) - 1 /\ Len(queue) \in Nat
    BY <1>0, <2>1, Ends
  <2>3. waiting' \in Seq(Samples) /\ woken' \in Seq(Samples)
    BY <1>0, <2>1, Ends
  <2> QED BY <1>0, <2>1, <2>2, <2>3, CountsType DEF topicVars
<1>5. CASE Refuse
  <2>1. worker # NoWork /\ refused' = refused \union {worker.sample} /\ UNCHANGED <<topicVars, handOverVars>>
    BY <1>5 DEF Refuse
  <2> QED BY <1>0, <2>1 DEF topicVars, handOverVars
<1>6. CASE Drop
  <2>1. ros # NoSample /\ refused' = refused \union {ros.sample} /\ UNCHANGED <<topicVars, handOverVars>>
    BY <1>6 DEF Drop
  <2> QED BY <1>0, <2>1 DEF topicVars, handOverVars
<1>7. CASE Raise
  <2>1. taken + 1 \in Samples /\ refused' = refused \union {taken + 1} /\ UNCHANGED <<topicVars, handOverVars>>
    BY <1>7 DEF Raise
  <2> QED BY <1>0, <2>1 DEF topicVars, handOverVars
<1>8. CASE ReceiveInvalid \/ Receive
  <2>1. /\ topic # <<>> /\ topic' = Tail(topic) /\ UNCHANGED <<overrun, waiting, woken, queue, overflowed>>
        /\ \/ refused' = refused \union {Head(topic)} /\ puts' = puts
           \/ refused' = refused /\ puts' = Append(puts, Head(topic))
    BY <1>8 DEF ReceiveInvalid, Receive, handOverVars
  <2>2. Head(topic) \in Samples /\ topic' \in Seq(Samples) /\ Len(topic') = Len(topic) - 1 /\ Len(topic) \in Nat
    BY <1>0, <2>1, Ends
  <2>3. puts' \in Seq(Samples) /\ refused' \subseteq Samples
    BY <1>0, <2>1, <2>2, Ends
  <2> QED BY <1>0, <2>1, <2>2, <2>3, CountsType
<1>9. CASE UNCHANGED <<topicVars, handOverVars, refused>>
  BY <1>0, <1>9 DEF topicVars, handOverVars
<1> QED
  BY <1>1, <1>2, <1>3, <1>4, <1>5, <1>6, <1>7, <1>8, <1>9
  DEF Next, vars, Tick, Activate, SwapIn, SwapOut, Clear, Apply, Connect, Publish, PublishFails, LinkLost

LEMMA WorkerTypeNext == TypeOK /\ [Next]_vars => WorkerTypeOK'
<1> SUFFICES ASSUME TypeOK, [Next]_vars PROVE WorkerTypeOK'
  OBVIOUS
<1>0. WorkerTypeOK /\ queue \in Seq(Samples)
  BY DEF TypeOK, HandOverTypeOK
<1>1. CASE Get
  <2>1. queue # <<>> /\ worker' = [sample |-> Head(queue), left |-> Channels, fate |-> "carried"] /\ UNCHANGED <<conn, out, fates, failures>>
    BY <1>1 DEF Get
  <2>2. Head(queue) \in Samples
    BY <1>0, <2>1, Ends
  <2> QED BY <1>0, <2>1, <2>2, CountsType DEF WorkerTypeOK
<1>2. CASE Publish
  <2> DEFINE fate == IF conn = "up" THEN worker.fate ELSE "wasted"
  <2>1. /\ worker \in [sample: Samples, left: 1..Channels, fate: {"carried", "wasted"}]
        /\ UNCHANGED <<conn, failures>>
    BY <1>0, <1>2 DEF Publish, WorkerTypeOK
  <2>2. fate \in {"carried", "wasted"}
    BY <2>1
  <2>3. CASE worker.left > 1
    <3>1. worker' = [worker EXCEPT !.left = worker.left - 1, !.fate = fate] /\ out' = out /\ fates' = fates
      BY <1>2, <2>3 DEF Publish
    <3>2. worker.left \in 1..Channels /\ worker.left - 1 \in 1..Channels
      BY <2>1, <2>3, CountsType
    <3> HIDE DEF fate
    <3>3. worker' \in [sample: Samples, left: 1..Channels, fate: {"carried", "wasted"}]
      BY <2>1, <2>2, <3>1, <3>2
    <3> QED BY <1>0, <2>1, <3>1, <3>3 DEF WorkerTypeOK
  <2>4. CASE ~(worker.left > 1)
    <3>1. worker' = NoWork /\ out' = Append(out, worker.sample) /\ fates' = Append(fates, fate)
      BY <1>2, <2>4 DEF Publish
    <3> HIDE DEF fate
    <3>2. out' \in Seq(Samples) /\ fates' \in Seq(Fates)
      BY <1>0, <2>1, <2>2, <3>1 DEF WorkerTypeOK, Fates
    <3> QED BY <1>0, <2>1, <3>1, <3>2 DEF WorkerTypeOK
  <2> QED BY <2>3, <2>4
<1>3. CASE PublishFails
  <2>1. /\ out' = Append(out, worker.sample) /\ fates' = Append(fates, "failed") /\ worker # NoWork
        /\ worker' = NoWork /\ conn' = "backoff" /\ failures' = failures
    BY <1>3 DEF PublishFails, Fails
  <2>2. out' \in Seq(Samples) /\ fates' \in Seq(Fates)
    BY <1>0, <2>1 DEF WorkerTypeOK, Fates
  <2> QED BY <1>0, <2>1, <2>2 DEF WorkerTypeOK
<1>4. CASE Connect \/ Refuse \/ LinkLost
  BY <1>0, <1>4, BoundsType DEF Connect, Refuse, LinkLost, WorkerTypeOK
<1>5. CASE UNCHANGED workerVars
  BY <1>0, <1>5 DEF workerVars, WorkerTypeOK
<1> QED
  BY <1>1, <1>2, <1>3, <1>4, <1>5
  DEF Next, vars, Tick, Activate, SwapIn, SwapOut, Clear, Apply, Raise, Drop, Forward, ReceiveInvalid, Receive, Put, PutAgain

LEMMA TypeNext == TypeOK /\ [Next]_vars => TypeOK'
  BY InjectorTypeNext, HandOverTypeNext, WorkerTypeNext DEF TypeOK

\* Every state is of the types: the sequences hold samples, the queue keeps its
\* capacity, labels and the clock stay within the bound.
THEOREM SignalTypes == Spec => []TypeOK
<1>1. Init => TypeOK
  BY TypeInit
<1>2. TypeOK /\ [Next]_vars => TypeOK'
  BY TypeNext
<1> QED BY <1>1, <1>2, PTL DEF Spec

-----------------------------------------------------------------------------
\* The injector's threads.

\* The transform in place is that of the fault being active; the start of its
\* interval has been taken and the end has not.
SessionInv ==
  /\ transform # 0 => doing.at = "active" /\ transform = doing.fault
  /\ doing # Idle => label[doing.fault].start <= now /\ label[doing.fault].end = Unknown
  /\ \A f \in Faults : label[f].start = Unknown => label[f].end = Unknown

\* What the transform was given, it was given by Apply, and nothing since.
GivenInv ==
  /\ \A i \in DOMAIN given : given[i] <= taken
  /\ transform # 0 => \A i \in DOMAIN given : by[given[i]] = transform

HandInv ==
  ros # NoSample =>
    /\ ros.at <= now
    /\ ros.sample <= taken
    /\ ros.of \subseteq 1..taken

ThreadsInv == TypeOK /\ SessionInv /\ GivenInv /\ HandInv /\ PerturbedIsLabelled /\ FaultsStartAfresh

LEMMA ThreadsInit == Init => ThreadsInv
<1> SUFFICES ASSUME Init PROVE ThreadsInv
  OBVIOUS
<1>1. TypeOK
  BY TypeInit
<1>2. SessionInv /\ GivenInv /\ HandInv
  BY DEF Init, SessionInv, GivenInv, HandInv
<1>3. PerturbedIsLabelled /\ FaultsStartAfresh
  BY DEF Init, PerturbedIsLabelled, FaultsStartAfresh
<1> QED BY <1>1, <1>2, <1>3 DEF ThreadsInv

LEMMA SessionNext == ThreadsInv /\ [Next]_vars => SessionInv'
<1> SUFFICES ASSUME ThreadsInv, [Next]_vars PROVE SessionInv'
  OBVIOUS
<1> USE BoundsType, FaultsType DEF ThreadsInv, TypeOK, InjectorTypeOK, SessionInv, Unknown, injectorVars, sessionVars, nodeVars
<1>1. CASE Tick
  <2>1. ASSUME doing # Idle PROVE label[doing.fault].start \in Nat
    <3>1. doing.fault \in Faults
      BY <2>1
    <3>2. \A f \in Faults : label[f].start \in Nat
      OBVIOUS
    <3> QED BY <3>1, <3>2
  <2>2. now' = now + 1 /\ now \in Nat /\ UNCHANGED <<transform, label, doing>>
    BY <1>1 DEF Tick
  <2>3. SessionInv
    BY DEF ThreadsInv
  <2> HIDE DEF ThreadsInv, TypeOK, InjectorTypeOK, Unknown
  <2>4. doing # Idle => label[doing.fault].start <= now + 1
    BY <2>1, <2>2, <2>3
  <2> QED BY <2>2, <2>3, <2>4
<1>2. ASSUME NEW f \in Faults, Activate(f) PROVE SessionInv'
  <2>1. transform = 0
    BY <1>2 DEF Activate, Fresh, Idle
  <2>2. label[f].end = Unknown
    BY <1>2 DEF Activate, Fresh
  <2> QED BY <1>2, <2>1, <2>2 DEF Activate, Idle
<1>3. CASE SwapIn
  BY <1>3 DEF SwapIn, Idle
<1>4. CASE SwapOut
  BY <1>4 DEF SwapOut, Idle
<1>5. CASE Clear
  BY <1>5 DEF Clear, Idle
<1>6. CASE UNCHANGED sessionVars /\ UNCHANGED now
  BY <1>6
<1> QED
  BY <1>1, <1>2, <1>3, <1>4, <1>5, <1>6
  DEF Next, vars, Apply, Raise, Drop, Forward, ReceiveInvalid, Receive, Put, PutAgain, Connect, Get, Publish, Refuse, PublishFails, LinkLost

LEMMA GivenNext == ThreadsInv /\ [Next]_vars => GivenInv'
<1> SUFFICES ASSUME ThreadsInv, [Next]_vars PROVE GivenInv'
  OBVIOUS
<1> USE SamplesType, FaultsType DEF ThreadsInv, TypeOK, InjectorTypeOK, GivenInv, injectorVars, sessionVars, nodeVars
<1>1. CASE SwapIn
  <2>1. given' = <<>>
    BY <1>1 DEF SwapIn
  <2> QED BY <2>1
<1>2. CASE SwapOut
  BY <1>2 DEF SwapOut
<1>3. CASE Apply
  <2> DEFINE s == taken + 1
  <2>1. s \in Samples /\ taken' = s /\ by' = [by EXCEPT ![s] = transform] /\ transform' = transform
    BY <1>3 DEF Apply
  <2>2. \A i \in DOMAIN given : given[i] \in Samples /\ given[i] <= s /\ given[i] # s
    <3>1. taken \in Nat
      OBVIOUS
    <3>2. \A i \in DOMAIN given : given[i] \in Samples /\ given[i] \in Nat /\ given[i] <= taken
      <4>1. given \in Seq(Samples) /\ Samples \subseteq Nat
        OBVIOUS
      <4>2. \A i \in DOMAIN given : given[i] <= taken
        OBVIOUS
      <4>3. \A i \in DOMAIN given : given[i] \in Samples
        BY <4>1
      <4> HIDE DEF ThreadsInv, TypeOK, InjectorTypeOK, GivenInv
      <4> QED BY <4>1, <4>2, <4>3
    <3> QED BY <3>1, <3>2
  <2>5. by \in [Samples -> Faults \union {0}] /\ \A x \in Samples : x # s => by'[x] = by[x]
    BY <2>1
  <2>6. by'[s] = transform /\ s <= s
    BY <2>1
  <2>7. transform # 0 => \A i \in DOMAIN given : by[given[i]] = transform
    OBVIOUS
  <2>8. given \in Seq(Samples)
    OBVIOUS
  <2> HIDE DEF ThreadsInv, TypeOK, InjectorTypeOK, s
  <2>3. CASE transform = 0
    <3>1. given' = given
      BY <1>3, <2>3 DEF Apply
    <3> QED BY <2>1, <2>2, <2>3, <3>1 DEF GivenInv
  <2>4. CASE transform # 0
    <3>1. given' = Append(given, s)
      BY <1>3, <2>4 DEF Apply, s
    <3>2. ASSUME NEW i \in DOMAIN given' PROVE given'[i] <= taken' /\ by'[given'[i]] = transform'
      <4>1. CASE i \in DOMAIN given
        <5>1. given'[i] = given[i]
          BY <3>1, <4>1, <2>8
        <5> QED BY <2>1, <2>2, <2>4, <2>5, <2>7, <4>1, <5>1
      <4>2. CASE i \notin DOMAIN given
        <5>1. given'[i] = s
          BY <3>1, <4>2, <2>8
        <5> QED BY <2>1, <2>6, <5>1
      <4> QED BY <4>1, <4>2
    <3> QED BY <3>2
  <2> QED BY <2>3, <2>4
<1>4. CASE UNCHANGED <<given, taken, by, transform>>
  BY <1>4
<1>5. CASE Raise
  <2>1. taken' = taken + 1 /\ by' = [by EXCEPT ![taken + 1] = transform] /\ UNCHANGED <<given, transform>>
    BY <1>5 DEF Raise
  <2>2. taken \in Nat /\ \A i \in DOMAIN given : given[i] \in Samples /\ given[i] \in Nat /\ given[i] <= taken
    <3>1. given \in Seq(Samples) /\ taken \in Nat /\ Samples \subseteq Nat
      OBVIOUS
    <3>2. \A i \in DOMAIN given : given[i] <= taken
      OBVIOUS
    <3>3. \A i \in DOMAIN given : given[i] \in Samples
      BY <3>1
    <3> HIDE DEF ThreadsInv, TypeOK, InjectorTypeOK, GivenInv
    <3> QED BY <3>1, <3>2, <3>3
  <2>3. by \in [Samples -> Faults \union {0}] /\ (transform # 0 => \A i \in DOMAIN given : by[given[i]] = transform)
    OBVIOUS
  <2> HIDE DEF ThreadsInv, TypeOK, InjectorTypeOK
  <2>4. \A i \in DOMAIN given : given[i] <= taken + 1 /\ by'[given[i]] = by[given[i]]
    BY <2>1, <2>2, <2>3
  <2> QED BY <2>1, <2>3, <2>4
<1> QED
  BY <1>1, <1>2, <1>3, <1>4, <1>5
  DEF Next, vars, Tick, Activate, Clear, Drop, Forward, ReceiveInvalid, Receive, Put, PutAgain, Connect, Get, Publish, Refuse, PublishFails, LinkLost

\* The sample in the callback, when it has just been given to the transform.
LEMMA ApplyGives ==
  ASSUME ThreadsInv, Apply
  PROVE  /\ ros'.of \subseteq 1..taken' /\ ros'.sample = taken' /\ ros'.at = now /\ taken' = taken + 1
         /\ by'[taken'] = transform
         /\ \A s \in ros'.of : by'[s] = transform
         /\ transform = 0 => ros'.of = {taken'}
<1> USE SamplesType, FaultsType DEF ThreadsInv, TypeOK, InjectorTypeOK, GivenInv
<1> DEFINE s == taken + 1
           seq == IF transform = 0 THEN <<s>> ELSE Append(given, s)
<1>1. /\ s \in Samples /\ taken' = s /\ by' = [by EXCEPT ![s] = transform]
      /\ ros' = [sample |-> s, of |-> Shown(transform, seq), at |-> now]
  BY DEF Apply
<1>2. by'[s] = transform
  BY <1>1
<1>3. CASE transform = 0
  <2>1. Len(seq) = 1 /\ seq[1] = s
    BY <1>3
  <2>2. Shown(transform, seq) = {s}
    <3> HIDE DEF ThreadsInv, TypeOK, InjectorTypeOK, s, seq
    <3>1. Last(seq) = s
      BY <2>1 DEF Last
    <3>2. Shown(0, seq) = {Last(seq)}
      BY DEF Shown
    <3> QED BY <1>3, <3>1, <3>2
  <2> QED BY <1>1, <1>2, <1>3, <2>2
<1>4. CASE transform # 0
  <2>1. seq = Append(given, s) /\ seq \in Seq(Samples) /\ seq # <<>>
    BY <1>1, <1>4
  <2>2. ASSUME NEW i \in 1..Len(seq) PROVE seq[i] \in 1..taken' /\ by'[seq[i]] = transform
    <3>1. CASE i \in 1..Len(given)
      <4>1. seq[i] = given[i]
        BY <2>1, <3>1
      <4>2. given[i] \in Samples /\ given[i] \in Nat \ {0} /\ given[i] <= taken /\ by[given[i]] = transform
        <5>1. DOMAIN given = 1..Len(given) /\ given \in Seq(Samples)
          OBVIOUS
        <5>2. given[i] <= taken /\ by[given[i]] = transform
          BY <1>4, <3>1, <5>1
        <5> QED BY <3>1, <5>1, <5>2
      <4>3. taken \in Nat /\ given[i] # s /\ by'[given[i]] = by[given[i]]
        BY <1>1, <4>2
      <4> HIDE DEF ThreadsInv, TypeOK, InjectorTypeOK, seq
      <4> QED BY <1>1, <4>1, <4>2, <4>3
    <3>2. CASE i \notin 1..Len(given)
      <4>1. seq[i] = s
        BY <2>1, <3>2
      <4> QED BY <1>1, <1>2, <4>1
    <3> QED BY <3>1, <3>2
  <2>3. Shown(transform, seq) \subseteq {seq[i] : i \in 1..Len(seq)}
    <3>1. transform \in Faults /\ Kind[transform] \in {"friction", "encoder", "stuck", "dropout"}
      BY <1>4
    <3>2. Len(seq) \in 1..Len(seq) /\ 1 \in 1..Len(seq) /\ Head(seq) = seq[1]
      BY <2>1
    <3>3. DOMAIN seq = 1..Len(seq)
      BY <2>1
    <3> HIDE DEF seq
    <3>4. \/ Shown(transform, seq) = {Last(seq)}
          \/ Shown(transform, seq) = ToSet(seq)
          \/ Shown(transform, seq) = {Head(seq)}
          \/ Shown(transform, seq) = {}
      BY <1>4, <3>1 DEF Shown
    <3>5. Last(seq) = seq[Len(seq)] /\ ToSet(seq) = {seq[i] : i \in 1..Len(seq)}
      BY <3>3 DEF Last, ToSet
    <3> QED BY <3>2, <3>4, <3>5
  <2> HIDE DEF seq
  <2> QED BY <1>1, <1>2, <1>4, <2>2, <2>3
<1> QED BY <1>3, <1>4

LEMMA HandNext == ThreadsInv /\ [Next]_vars => HandInv' /\ PerturbedIsLabelled' /\ FaultsStartAfresh'
<1> SUFFICES ASSUME ThreadsInv, [Next]_vars PROVE HandInv' /\ PerturbedIsLabelled' /\ FaultsStartAfresh'
  OBVIOUS
<1> DEFINE Goal == HandInv /\ PerturbedIsLabelled /\ FaultsStartAfresh
<1> USE BoundsType, SamplesType, FaultsType
        DEF injectorVars, sessionVars, nodeVars, HandInv, PerturbedIsLabelled, FaultsStartAfresh
<1>0. Goal /\ TypeOK /\ SessionInv
  BY DEF ThreadsInv
<1>1. /\ now \in Nat /\ now <= Horizon /\ taken \in Nat
      /\ ros # NoSample => ros.sample \in Samples /\ ros.at \in Nat
      /\ \A s \in Samples : by[s] \in Faults \union {0}
      /\ \A f \in Faults : label[f].start \in Nat /\ label[f].end \in Nat
  BY <1>0 DEF TypeOK, InjectorTypeOK, Unknown
<1>2. CASE Tick
  BY <1>0, <1>1, <1>2 DEF Tick
<1>3. ASSUME NEW f \in Faults, Activate(f) PROVE Goal'
  <2>1. label[f].start = Unknown /\ label[f].end = Unknown
    BY <1>0, <1>3 DEF Activate, Fresh, SessionInv
  <2>2. ros # NoSample /\ by[ros.sample] # 0 => by[ros.sample] # f
    BY <1>0, <1>1, <2>1 DEF Unknown
  <2>3. label' = [label EXCEPT ![f].start = now] /\ UNCHANGED <<now, taken, by, ros>>
    BY <1>3 DEF Activate
  <2>4. label \in [Faults -> [start: 0..Unknown, end: 0..Unknown]]
    BY <1>0 DEF TypeOK, InjectorTypeOK
  <2>5. \A g \in Faults : g # f => label'[g] = label[g]
    BY <2>3, <2>4
  <2> QED BY <1>0, <1>1, <2>2, <2>3, <2>5
<1>4. CASE SwapIn
  BY <1>0, <1>1, <1>4 DEF SwapIn
<1>5. CASE SwapOut
  BY <1>0, <1>1, <1>5 DEF SwapOut
<1>6. CASE Clear
  <2>1. label' = [label EXCEPT ![doing.fault].end = now] /\ UNCHANGED <<now, taken, by, ros>>
    BY <1>6 DEF Clear
  <2>2. label \in [Faults -> [start: 0..Unknown, end: 0..Unknown]]
    BY <1>0 DEF TypeOK, InjectorTypeOK
  <2>3. \A g \in Faults : /\ label'[g].start = label[g].start
                          /\ label'[g].end = label[g].end \/ label'[g].end = now
    BY <2>1, <2>2
  <2> QED BY <1>0, <1>1, <2>1, <2>3
<1>7. CASE Apply
  <2>1. /\ ros'.of \subseteq 1..taken' /\ ros'.sample = taken' /\ ros'.at = now /\ taken' = taken + 1
        /\ by'[taken'] = transform
        /\ \A s \in ros'.of : by'[s] = transform
        /\ transform = 0 => ros'.of = {taken'}
    BY <1>7, ApplyGives
  <2>2. UNCHANGED <<now, label>>
    BY <1>7 DEF Apply
  <2>3. transform # 0 => label[transform].start <= now /\ now <= label[transform].end
    BY <1>0, <1>1 DEF SessionInv, Unknown, Idle
  <2> QED BY <1>1, <2>1, <2>2, <2>3
<1>8. CASE Forward \/ Drop
  BY <1>8 DEF Forward, Drop
<1>9. CASE UNCHANGED <<now, label, taken, by, ros>>
  BY <1>0, <1>9
<1>10. CASE Raise
  <2>1. ros = NoSample /\ UNCHANGED <<now, label, ros>>
    BY <1>10 DEF Raise
  <2> QED BY <2>1
<1> QED
  BY <1>2, <1>3, <1>4, <1>5, <1>6, <1>7, <1>8, <1>9, <1>10
  DEF Next, vars, ReceiveInvalid, Receive, Put, PutAgain, Connect, Get, Publish, Refuse, PublishFails, LinkLost

\* Whatever the threads do, the transform in place, what it remembers and the
\* labels agree.
THEOREM Threads == Spec => []ThreadsInv
<1>1. Init => ThreadsInv
  BY ThreadsInit
<1>2. ThreadsInv /\ [Next]_vars => ThreadsInv'
  BY TypeNext, SessionNext, GivenNext, HandNext DEF ThreadsInv
<1> QED BY <1>1, <1>2, PTL DEF Spec

\* No sample is perturbed outside the labelled interval of its fault, with no
\* lock between the threads and for any number of samples and faults.
THEOREM Labelled == Spec => []PerturbedIsLabelled
<1>1. ThreadsInv => PerturbedIsLabelled
  BY DEF ThreadsInv
<1> QED BY <1>1, Threads, PTL

\* What a sample shows is of samples that met the same fault.
THEOREM Afresh == Spec => []FaultsStartAfresh
<1>1. ThreadsInv => FaultsStartAfresh
  BY DEF ThreadsInv
<1> QED BY <1>1, Threads, PTL

-----------------------------------------------------------------------------
\* The bridge's losses.

\* An outage that no publication has found out yet has cost none that failed,
\* and while nothing was given to its connection in vain, nothing is lost.
LossInv ==
  /\ IsFiniteSet(Failed)
  /\ LossBounded
  /\ conn = "cut" => Cardinality(Failed) < failures
  /\ worker.fate = "wasted" => conn = "cut"

LEMMA FateAdded ==
  ASSUME TypeOK, LossInv, NEW f \in Fates, fates' = Append(fates, f),
         fates # <<>> /\ fates[Len(fates)] = "wasted" => f # "carried",
         f = "wasted" => conn' = "cut"
  PROVE  /\ \A i \in DOMAIN fates' :
              fates'[i] = "wasted" => IF i = Len(fates') THEN conn' = "cut" ELSE fates'[i + 1] # "carried"
         /\ IsFiniteSet(Failed') /\ Cardinality(Failed') \in Nat
         /\ f = "failed" => Cardinality(Failed') = Cardinality(Failed) + 1
         /\ f # "failed" => Failed' = Failed
<1> DEFINE n == Len(fates)
<1>1. /\ fates \in Seq(Fates) /\ n \in Nat /\ DOMAIN fates = 1..n
      /\ Len(fates') = n + 1 /\ DOMAIN fates' = 1..(n + 1)
      /\ \A i \in 1..n : fates'[i] = fates[i]
      /\ fates'[n + 1] = f
      /\ fates = <<>> <=> n = 0
  BY DEF TypeOK, WorkerTypeOK, HandOverTypeOK
<1>2. IsFiniteSet(Failed) /\ Cardinality(Failed) \in Nat
  BY FS_CardinalityType DEF LossInv
<1> HIDE DEF n
<1>3. ASSUME NEW i \in 1..(n + 1), fates'[i] = "wasted"
      PROVE  IF i = n + 1 THEN conn' = "cut" ELSE fates'[i + 1] # "carried"
  <2>1. CASE i = n + 1
    BY <1>1, <1>3, <2>1
  <2>2. CASE i = n /\ n # 0
    <3>1. fates[n] = "wasted"
      BY <1>1, <1>3, <2>2
    <3> QED BY <1>1, <2>2, <3>1 DEF n
  <2>3. CASE i # n + 1 /\ i # n
    <3>1. i \in 1..n /\ i + 1 \in 1..n
      BY <1>1, <2>3
    <3>2. fates[i] = "wasted" /\ i # Len(fates)
      BY <1>1, <1>3, <2>3, <3>1 DEF n
    <3>3. fates[i + 1] # "carried"
      BY <1>1, <3>1, <3>2 DEF LossInv, LossBounded
    <3> QED BY <1>1, <2>3, <3>1, <3>3
  <2> QED BY <1>1, <1>3, <2>1, <2>2, <2>3
<1>4. CASE f = "failed"
  <2>1. Failed' = Failed \union {n + 1}
    BY <1>1, <1>4 DEF Failed
  <2>2. n + 1 \notin Failed
    BY <1>1 DEF Failed
  <2> QED BY <1>1, <1>2, <1>3, <1>4, <2>1, <2>2, FS_AddElement, FS_CardinalityType
<1>5. CASE f # "failed"
  <2>1. Failed' = Failed
    BY <1>1, <1>5 DEF Failed
  <2> QED BY <1>1, <1>2, <1>3, <1>5, <2>1
<1> QED BY <1>4, <1>5

LEMMA LossNext == TypeOK /\ LossInv /\ [Next]_vars => LossInv'
<1> SUFFICES ASSUME TypeOK, LossInv, [Next]_vars PROVE LossInv'
  OBVIOUS
<1>1. /\ failures \in Nat /\ Cardinality(Failed) \in Nat /\ IsFiniteSet(Failed)
      /\ Cardinality(Failed) <= failures /\ (conn = "cut" => Cardinality(Failed) < failures)
      /\ (worker.fate = "wasted" => conn = "cut")
  <2>1. failures \in Nat
    BY BoundsType DEF TypeOK, WorkerTypeOK
  <2> QED
    BY <2>1, FS_CardinalityType DEF LossInv, LossBounded
<1>2. fates # <<>> /\ fates[Len(fates)] = "wasted" => conn = "cut"
  <2>1. fates # <<>> => Len(fates) \in DOMAIN fates
    BY DEF TypeOK, WorkerTypeOK, HandOverTypeOK
  <2> QED BY <2>1 DEF LossInv, LossBounded
<1>3. CASE PublishFails
  <2>1. fates' = Append(fates, "failed") /\ conn = "cut" /\ failures' = failures /\ worker' = NoWork /\ conn' = "backoff"
    BY <1>3 DEF PublishFails, Fails
  <2>2. /\ \A i \in DOMAIN fates' :
             fates'[i] = "wasted" => IF i = Len(fates') THEN conn' = "cut" ELSE fates'[i + 1] # "carried"
        /\ IsFiniteSet(Failed') /\ Cardinality(Failed') = Cardinality(Failed) + 1
    BY <2>1, FateAdded DEF Fates
  <2>3. Cardinality(Failed') <= failures'
    BY <1>1, <2>1, <2>2
  <2> QED BY <2>1, <2>2, <2>3 DEF LossInv, LossBounded, NoWork
<1>4. CASE Publish /\ worker.left > 1
  <2>1. /\ worker' = [worker EXCEPT !.left = worker.left - 1, !.fate = IF conn = "up" THEN worker.fate ELSE "wasted"]
        /\ UNCHANGED <<fates, conn, failures>> /\ conn \in {"up", "cut"} /\ worker # NoWork
    BY <1>4 DEF Publish
  <2>2. worker'.fate = IF conn = "up" THEN worker.fate ELSE "wasted"
    <3>1. worker \in [sample: Samples, left: 1..Channels, fate: {"carried", "wasted"}]
      BY <2>1 DEF TypeOK, WorkerTypeOK
    <3> QED
      BY <2>1, <3>1
  <2>3. worker'.fate = "wasted" => conn' = "cut"
    BY <1>1, <2>1, <2>2
  <2> QED BY <2>1, <2>3 DEF LossInv, LossBounded, Failed
<1>5. CASE Publish /\ ~(worker.left > 1)
  <2> DEFINE f == IF conn = "up" THEN worker.fate ELSE "wasted"
  <2>1. /\ fates' = Append(fates, f) /\ worker' = NoWork
        /\ UNCHANGED <<conn, failures>> /\ conn \in {"up", "cut"}
    BY <1>5 DEF Publish
  <2>2. /\ f \in Fates /\ f # "failed"
        /\ f = "wasted" => conn = "cut"
        /\ f = "carried" => conn = "up"
    <3>1. worker.fate \in {"carried", "wasted"}
      BY <1>5 DEF Publish, TypeOK, WorkerTypeOK
    <3> QED BY <1>1, <2>1, <3>1 DEF Fates
  <2> HIDE DEF f
  <2>3. /\ \A i \in DOMAIN fates' :
             fates'[i] = "wasted" => IF i = Len(fates') THEN conn' = "cut" ELSE fates'[i + 1] # "carried"
        /\ Failed' = Failed
    BY <1>2, <2>1, <2>2, FateAdded
  <2> QED BY <1>1, <2>1, <2>3 DEF LossInv, LossBounded, NoWork
<1>6. CASE LinkLost
  <2>1. conn = "up" /\ conn' = "cut" /\ failures' = failures + 1 /\ UNCHANGED <<worker, fates>> /\ Failed' = Failed
    BY <1>6 DEF LinkLost, Failed
  <2>2. Cardinality(Failed') < failures' /\ Cardinality(Failed') <= failures'
    BY <1>1, <2>1
  <2> QED BY <2>1, <2>2 DEF LossInv, LossBounded
<1>7. CASE Connect
  <2>1. conn = "backoff" /\ conn' = "up" /\ UNCHANGED <<worker, fates, failures>> /\ Failed' = Failed
    BY <1>7 DEF Connect, Failed
  <2>2. fates # <<>> => Len(fates) \in DOMAIN fates
    BY DEF TypeOK, WorkerTypeOK, HandOverTypeOK
  <2> QED BY <1>1, <2>1, <2>2 DEF LossInv, LossBounded
<1>8. CASE Get
  <2>1. worker'.fate = "carried" /\ UNCHANGED <<conn, fates, failures>> /\ Failed' = Failed
    BY <1>8 DEF Get, Failed
  <2> QED BY <2>1 DEF LossInv, LossBounded
<1>9. CASE Refuse
  <2>1. worker' = NoWork /\ UNCHANGED <<conn, fates, failures>> /\ Failed' = Failed
    BY <1>9 DEF Refuse, Failed
  <2> QED BY <2>1 DEF LossInv, LossBounded, NoWork
<1>10. CASE UNCHANGED <<conn, worker, fates, failures>>
  BY <1>10 DEF LossInv, LossBounded, Failed
<1> QED
  BY <1>3, <1>4, <1>5, <1>6, <1>7, <1>8, <1>9, <1>10
  DEF Next, vars, workerVars, Tick, Activate, SwapIn, SwapOut, Clear, Apply, Raise, Drop, Forward, ReceiveInvalid, Receive, Put, PutAgain

\* An outage costs what was given to its connection before a publication
\* failed, and that sample: however long it is and however many samples wait,
\* those after it are carried.
THEOREM LossesBounded == Spec => []LossBounded
<1>1. Init => TypeOK /\ LossInv
  <2>1. Init => fates = <<>> /\ failures = 0 /\ conn = "backoff" /\ worker = NoWork
    BY DEF Init
  <2>2. fates = <<>> => Failed = {} /\ DOMAIN fates = {}
    BY DEF Failed
  <2> QED BY <2>1, <2>2, TypeInit, FS_EmptySet DEF LossInv, LossBounded, NoWork
<1>2. TypeOK /\ LossInv /\ [Next]_vars => (TypeOK /\ LossInv)'
  BY TypeNext, LossNext
<1>3. LossInv => LossBounded
  BY DEF LossInv
<1> QED BY <1>1, <1>2, <1>3, PTL DEF Spec

-----------------------------------------------------------------------------
\* The order of the samples.

Increasing(q) == \A i, j \in DOMAIN q : i < j => q[i] < q[j]

AllBefore(A, B) == \A a \in A, b \in B : a < b

InRos == IF ros = NoSample THEN {} ELSE {ros.sample}

InWorker == IF worker = NoWork THEN {} ELSE {worker.sample}

\* While there has been room for every sample, none waits for room, and they
\* stand in line.
InLine ==
  /\ waiting = <<>> /\ woken = <<>>
  /\ Increasing(out) /\ Increasing(queue) /\ Increasing(puts) /\ Increasing(topic)
  /\ AllBefore(ToSet(out), InWorker \union ToSet(queue) \union ToSet(puts) \union ToSet(topic) \union InRos)
  /\ AllBefore(InWorker, ToSet(queue) \union ToSet(puts) \union ToSet(topic) \union InRos)
  /\ AllBefore(ToSet(queue), ToSet(puts) \union ToSet(topic) \union InRos)
  /\ AllBefore(ToSet(puts), ToSet(topic) \union InRos)
  /\ AllBefore(ToSet(topic), InRos)
  /\ \A s \in ToSet(out) \union InWorker \union ToSet(queue) \union ToSet(puts) \union ToSet(topic) \union InRos : s <= taken

LineInv == ~overflowed => InLine

LEMMA TakeFirst ==
  ASSUME NEW q \in Seq(Samples), q # <<>>, Increasing(q)
  PROVE  /\ Increasing(Tail(q)) /\ ToSet(q) = ToSet(Tail(q)) \union {Head(q)}
         /\ AllBefore({Head(q)}, ToSet(Tail(q)))
<1>1. /\ 1 \in DOMAIN q /\ Head(q) = q[1] /\ DOMAIN Tail(q) \subseteq Nat /\ DOMAIN q \subseteq Nat
      /\ \A i \in DOMAIN Tail(q) : 1 < i + 1 /\ i + 1 \in DOMAIN q /\ Tail(q)[i] = q[i + 1]
      /\ \A i \in DOMAIN q : i # 1 => i - 1 \in DOMAIN Tail(q) /\ i = (i - 1) + 1
  OBVIOUS
<1>2. ASSUME NEW i \in DOMAIN Tail(q), NEW j \in DOMAIN Tail(q), i < j PROVE Tail(q)[i] < Tail(q)[j]
  <2>1. i + 1 < j + 1
    BY <1>1, <1>2
  <2> QED
    BY <1>1, <2>1 DEF Increasing
<1>3. \A i \in DOMAIN Tail(q) : Head(q) < Tail(q)[i]
  BY <1>1 DEF Increasing
<1>4. ToSet(q) = ToSet(Tail(q)) \union {Head(q)}
  BY <1>1 DEF ToSet
<1> QED
  BY <1>2, <1>3, <1>4 DEF Increasing, AllBefore, ToSet

LEMMA PutLast ==
  ASSUME NEW q \in Seq(Samples), NEW s \in Samples, Increasing(q), AllBefore(ToSet(q), {s})
  PROVE  Increasing(Append(q, s)) /\ ToSet(Append(q, s)) = ToSet(q) \union {s}
<1>1. /\ DOMAIN Append(q, s) = DOMAIN q \union {Len(q) + 1} /\ Append(q, s)[Len(q) + 1] = s
      /\ \A i \in DOMAIN q : Append(q, s)[i] = q[i] /\ i \in Nat /\ i < Len(q) + 1
  OBVIOUS
<1>2. ASSUME NEW i \in DOMAIN Append(q, s), NEW j \in DOMAIN Append(q, s), i < j
      PROVE  Append(q, s)[i] < Append(q, s)[j]
  <2>1. i \in DOMAIN q
    <3>1. i \in Nat /\ j \in Nat /\ Len(q) \in Nat /\ j <= Len(q) + 1
      OBVIOUS
    <3> QED
      BY <1>1, <1>2, <3>1
  <2>2. CASE j \in DOMAIN q
    BY <1>1, <1>2, <2>1, <2>2 DEF Increasing
  <2>3. CASE j = Len(q) + 1
    BY <1>1, <2>1, <2>3 DEF AllBefore, ToSet
  <2> QED
    BY <1>1, <2>2, <2>3
<1>3. ToSet(Append(q, s)) = ToSet(q) \union {s}
  BY <1>1 DEF ToSet
<1> QED
  BY <1>2, <1>3 DEF Increasing

LEMMA InHandTypes ==
  ASSUME TypeOK
  PROVE  /\ topic \in Seq(Samples) /\ puts \in Seq(Samples) /\ queue \in Seq(Samples) /\ out \in Seq(Samples)
         /\ taken \in Nat
         /\ ros # NoSample => ros.sample \in Samples
         /\ worker # NoWork => worker.sample \in Samples
<1>1. topic \in Seq(Samples) /\ puts \in Seq(Samples) /\ queue \in Seq(Samples)
  BY DEF TypeOK, HandOverTypeOK
<1>2. out \in Seq(Samples) /\ (worker # NoWork => worker.sample \in Samples)
  BY DEF TypeOK, WorkerTypeOK
<1>3. taken \in Nat /\ (ros # NoSample => ros.sample \in Samples)
  BY SamplesType DEF TypeOK, InjectorTypeOK
<1> QED
  BY <1>1, <1>2, <1>3

LEMMA LineInit == Init => LineInv
<1>1. ToSet(<<>>) = {} /\ DOMAIN <<>> = {}
  BY DEF ToSet
<1> QED
  BY <1>1 DEF Init, LineInv, InLine, Increasing, AllBefore, InRos, InWorker

\* What keeps the line's parts keeps it, and so does whatever leaves it.
LEMMA LineSame ==
  ASSUME TypeOK, LineInv, overflowed' = overflowed, UNCHANGED <<topic, puts, waiting, woken, queue, out>>,
         taken' \in Nat, taken <= taken', InRos' \subseteq InRos, InWorker' \subseteq InWorker
  PROVE  LineInv'
<1>1. ToSet(out) \union InWorker \union ToSet(queue) \union ToSet(puts) \union ToSet(topic) \union InRos \subseteq Nat
  <2>1. /\ out \in Seq(Samples) /\ queue \in Seq(Samples) /\ puts \in Seq(Samples) /\ topic \in Seq(Samples)
        /\ ros # NoSample => ros.sample \in Samples
        /\ worker # NoWork => worker.sample \in Samples
    BY InHandTypes
  <2>2. ASSUME NEW q \in Seq(Samples) PROVE ToSet(q) \subseteq Samples
    BY DEF ToSet
  <2>3. InWorker \subseteq Samples /\ InRos \subseteq Samples
    BY <2>1 DEF InWorker, InRos
  <2> QED BY <2>1, <2>2, <2>3, SamplesType
<1>2. taken \in Nat
  BY SamplesType DEF TypeOK, InjectorTypeOK
<1> QED
  BY <1>1, <1>2 DEF LineInv, InLine, AllBefore

LEMMA LineNext == TypeOK /\ LineInv /\ [Next]_vars => LineInv'
<1> SUFFICES ASSUME TypeOK, LineInv, [Next]_vars, ~overflowed' PROVE InLine'
  BY DEF LineInv
<1>0. /\ topic \in Seq(Samples) /\ puts \in Seq(Samples) /\ queue \in Seq(Samples) /\ out \in Seq(Samples)
      /\ taken \in Nat /\ \A s \in Samples : s \in Nat
      /\ ros # NoSample => ros.sample \in Samples
      /\ worker # NoWork => worker.sample \in Samples
  BY InHandTypes, SamplesType
<1>1. ASSUME overflowed PROVE FALSE
  BY <1>1 DEF Next, vars, handOverVars, Tick, Activate, SwapIn, SwapOut, Clear, Apply, Raise, Drop, Forward,
     ReceiveInvalid, Receive, Put, PutAgain, PutOf, Connect, Get, Publish, Refuse, PublishFails, LinkLost
<1>2. InLine
  BY <1>1 DEF LineInv
<1> USE DEF InLine
<1>3. CASE Apply
  <2>1. /\ ros = NoSample /\ taken' = taken + 1 /\ ros'.sample = taken + 1 /\ ros' # NoSample
        /\ UNCHANGED <<topic, puts, waiting, woken, queue, worker, out>>
    BY <1>0, <1>3 DEF Apply, NoSample, topicVars, handOverVars, workerVars
  <2>2. InRos = {} /\ InRos' = {taken + 1} /\ InWorker' = InWorker
    BY <2>1 DEF InRos, InWorker
  <2>3. \A s \in ToSet(out) \union InWorker \union ToSet(queue) \union ToSet(puts) \union ToSet(topic) :
          s < taken + 1 /\ s <= taken + 1
    <3>1. ToSet(out) \union InWorker \union ToSet(queue) \union ToSet(puts) \union ToSet(topic) \subseteq Samples
      BY <1>0 DEF ToSet, InWorker
    <3> QED
      BY <1>0, <1>2, <3>1
  <2> QED
    BY <1>0, <1>2, <2>1, <2>2, <2>3 DEF AllBefore
<1>4. CASE Forward
  <2>1. /\ ros # NoSample /\ ros' = NoSample /\ UNCHANGED <<taken, puts, waiting, woken, queue, worker, out>>
        /\ \/ topic' = Append(topic, ros.sample)
           \/ topic # <<>> /\ topic' = Append(Tail(topic), ros.sample)
    <3>1. ~(Len(topic) < Depth) => topic # <<>>
      BY <1>0, CountsType
    <3> QED
      BY <1>4, <3>1 DEF Forward, handOverVars, workerVars
  <2>2. InRos = {ros.sample} /\ InRos' = {} /\ InWorker' = InWorker /\ ros.sample \in Samples
    BY <1>0, <2>1 DEF InRos, InWorker
  <2>3. Increasing(topic') /\ ToSet(topic') \subseteq ToSet(topic) \union {ros.sample}
    <3>1. AllBefore(ToSet(topic), {ros.sample})
      BY <1>2, <2>2
    <3>2. CASE topic' = Append(topic, ros.sample)
      BY <1>0, <1>2, <2>2, <3>1, <3>2, PutLast
    <3>3. CASE topic # <<>> /\ topic' = Append(Tail(topic), ros.sample)
      <4>3. Increasing(topic)
        BY <1>2
      <4>1. Increasing(Tail(topic)) /\ ToSet(Tail(topic)) \subseteq ToSet(topic) /\ Tail(topic) \in Seq(Samples)
        <5>1. Increasing(Tail(topic)) /\ ToSet(topic) = ToSet(Tail(topic)) \union {Head(topic)}
          BY <1>0, <3>3, <4>3, TakeFirst
        <5> QED BY <1>0, <3>3, <5>1
      <4>2. AllBefore(ToSet(Tail(topic)), {ros.sample})
        BY <3>1, <4>1 DEF AllBefore
      <4> QED
        BY <2>2, <3>3, <4>1, <4>2, PutLast
    <3> QED
      BY <2>1, <3>2, <3>3
  <2> QED
    BY <1>2, <2>1, <2>2, <2>3 DEF AllBefore
<1>11. CASE Receive
  <2>1. /\ UNCHANGED <<taken, ros, waiting, woken, queue, worker, out>> /\ topic # <<>>
        /\ topic' = Tail(topic) /\ puts' = Append(puts, Head(topic))
    BY <1>11 DEF Receive, injectorVars, nodeVars, workerVars
  <2>2. InRos' = InRos /\ InWorker' = InWorker /\ Head(topic) \in Samples
    BY <1>0, <2>1 DEF InRos, InWorker
  <2>3. /\ Increasing(topic') /\ ToSet(topic) = ToSet(topic') \union {Head(topic)}
        /\ AllBefore({Head(topic)}, ToSet(topic'))
    BY <1>0, <1>2, <2>1, TakeFirst
  <2>4. AllBefore(ToSet(puts), {Head(topic)})
    BY <1>2, <2>3 DEF AllBefore
  <2>5. Increasing(puts') /\ ToSet(puts') = ToSet(puts) \union {Head(topic)}
    BY <1>0, <1>2, <2>1, <2>2, <2>4, PutLast
  <2> QED
    BY <1>2, <2>1, <2>2, <2>3, <2>5 DEF AllBefore
<1>12. CASE ReceiveInvalid
  <2>1. /\ UNCHANGED <<taken, ros, puts, waiting, woken, queue, worker, out>> /\ topic # <<>> /\ topic' = Tail(topic)
    BY <1>12 DEF ReceiveInvalid, injectorVars, nodeVars, handOverVars, workerVars
  <2>2. InRos' = InRos /\ InWorker' = InWorker
    BY <2>1 DEF InRos, InWorker
  <2>3. Increasing(topic') /\ ToSet(topic') \subseteq ToSet(topic)
    BY <1>0, <1>2, <2>1, TakeFirst
  <2> QED
    BY <1>2, <2>1, <2>2, <2>3 DEF AllBefore
<1>5. CASE Put
  <2>1. /\ UNCHANGED <<taken, ros, topic, waiting, woken, worker, out>> /\ puts # <<>>
        /\ puts' = Tail(puts) /\ queue' = Append(queue, Head(puts))
    BY <1>5 DEF Put, PutOf, injectorVars, nodeVars, topicVars, workerVars
  <2>2. InRos' = InRos /\ InWorker' = InWorker /\ Head(puts) \in Samples
    BY <1>0, <2>1 DEF InRos, InWorker
  <2>3. /\ Increasing(puts') /\ ToSet(puts) = ToSet(puts') \union {Head(puts)}
        /\ AllBefore({Head(puts)}, ToSet(puts'))
    BY <1>0, <1>2, <2>1, TakeFirst
  <2>4. AllBefore(ToSet(queue), {Head(puts)})
    BY <1>2, <2>3 DEF AllBefore
  <2>5. Increasing(queue') /\ ToSet(queue') = ToSet(queue) \union {Head(puts)}
    BY <1>0, <1>2, <2>1, <2>2, <2>4, PutLast
  <2> QED
    BY <1>2, <2>1, <2>2, <2>3, <2>5 DEF AllBefore
<1>6. CASE PutAgain
  BY <1>2, <1>6 DEF PutAgain
<1>7. CASE Get
  <2>1. /\ UNCHANGED <<taken, ros, topic, puts, waiting, woken, out>> /\ queue # <<>> /\ worker = NoWork
        /\ queue' = Tail(queue) /\ worker' = [sample |-> Head(queue), left |-> Channels, fate |-> "carried"]
    BY <1>2, <1>7 DEF Get, injectorVars, nodeVars, topicVars
  <2>2. InRos' = InRos /\ InWorker = {} /\ InWorker' \subseteq {Head(queue)}
    BY <2>1 DEF InRos, InWorker
  <2>3. /\ Increasing(queue') /\ ToSet(queue) = ToSet(queue') \union {Head(queue)}
        /\ AllBefore({Head(queue)}, ToSet(queue'))
    BY <1>0, <1>2, <2>1, TakeFirst
  <2> QED
    BY <1>2, <2>1, <2>2, <2>3 DEF AllBefore
<1>8. CASE Publish \/ PublishFails
  <2>1. /\ UNCHANGED <<taken, ros, topic, puts, waiting, woken, queue>> /\ worker # NoWork
        /\ \/ out' = out /\ worker' = [worker EXCEPT !.left = @ - 1, !.fate = IF conn = "up" THEN worker.fate ELSE "wasted"]
           \/ out' = Append(out, worker.sample) /\ worker' = NoWork
    BY <1>8 DEF Publish, PublishFails, Fails, injectorVars, nodeVars, topicVars, handOverVars
  <2>2. InRos' = InRos /\ InWorker = {worker.sample}
    BY <2>1 DEF InRos, InWorker
  <2>3. CASE out' = out /\ worker' = [worker EXCEPT !.left = @ - 1, !.fate = IF conn = "up" THEN worker.fate ELSE "wasted"]
    <3>1. worker'.sample = worker.sample
      BY <1>0, <2>1, <2>3 DEF TypeOK, WorkerTypeOK, HandOverTypeOK
    <3>2. InWorker' \subseteq InWorker
      BY <3>1, <2>2 DEF InWorker
    <3> QED
      BY <1>2, <2>1, <2>2, <2>3, <3>2 DEF AllBefore
  <2>4. CASE out' = Append(out, worker.sample) /\ worker' = NoWork
    <3>1. AllBefore(ToSet(out), {worker.sample}) /\ worker.sample \in Samples
      BY <1>0, <1>2, <2>1, <2>2 DEF AllBefore
    <3>2. Increasing(out') /\ ToSet(out') = ToSet(out) \union {worker.sample}
      BY <1>0, <1>2, <2>4, <3>1, PutLast
    <3>3. InWorker' = {}
      BY <2>4 DEF InWorker
    <3> QED
      BY <1>2, <2>1, <2>2, <3>2, <3>3 DEF AllBefore
  <2> QED
    BY <2>1, <2>3, <2>4
<1>9. CASE Refuse \/ Drop \/ Raise
  <2>1. /\ UNCHANGED <<topic, puts, waiting, woken, queue, out, overflowed>>
        /\ taken' \in Nat /\ taken <= taken'
    BY <1>0, <1>9 DEF Refuse, Drop, Raise, injectorVars, nodeVars, topicVars, handOverVars, workerVars
  <2>2. InWorker' \subseteq InWorker /\ InRos' \subseteq InRos
    BY <1>9 DEF Refuse, Drop, Raise, injectorVars, nodeVars, workerVars, InWorker, InRos
  <2> QED
    BY <2>1, <2>2, LineSame DEF LineInv
<1>10. CASE UNCHANGED <<taken, ros, topic, handOverVars, worker, out>>
  <2>1. UNCHANGED <<overflowed, topic, puts, waiting, woken, queue, out>> /\ taken' \in Nat /\ taken <= taken'
    BY <1>0, <1>10 DEF handOverVars
  <2>2. InRos' = InRos /\ InWorker' = InWorker
    BY <1>10 DEF InRos, InWorker
  <2> QED
    BY <2>1, <2>2, LineSame DEF LineInv
<1> QED
  BY <1>3, <1>4, <1>5, <1>6, <1>7, <1>8, <1>9, <1>10, <1>11, <1>12 DEF Next, vars, injectorVars, nodeVars, topicVars, workerVars, Tick,
     Activate, SwapIn, SwapOut, Clear, Connect, LinkLost

\* Samples leave in the order they came as long as there was room for each,
\* whatever the capacity of the queue and the outages.
THEOREM LeaveInOrder == Spec => []OrderKept
<1>1. Spec => []LineInv
  BY SignalTypes, LineInit, LineNext, PTL DEF Spec
<1>2. LineInv => OrderKept
  BY DEF LineInv, InLine, Increasing, OrderKept
<1> QED
  BY <1>1, <1>2, PTL

-----------------------------------------------------------------------------
\* No sample vanishes, and none is twice.

LEMMA UnionSize ==
  ASSUME NEW A, NEW B, IsFiniteSet(A), IsFiniteSet(B)
  PROVE  /\ IsFiniteSet(A \union B) /\ Cardinality(A \union B) \in Nat
         /\ Cardinality(A \union B) <= Cardinality(A) + Cardinality(B)
<1>1. IsFiniteSet(A \intersect B)
  BY FS_Subset, A \intersect B \in SUBSET A
<1>2. /\ IsFiniteSet(A \union B)
      /\ Cardinality(A \union B) = Cardinality(A) + Cardinality(B) - Cardinality(A \intersect B)
  BY FS_Union
<1>3. Cardinality(A \intersect B) \in Nat /\ Cardinality(A \union B) \in Nat
      /\ Cardinality(A) \in Nat /\ Cardinality(B) \in Nat
  BY <1>1, <1>2, FS_CardinalityType
<1> QED
  BY <1>2, <1>3

LEMMA SequenceSize ==
  ASSUME NEW q \in Seq(Samples)
  PROVE  /\ IsFiniteSet(ToSet(q)) /\ Cardinality(ToSet(q)) \in Nat
         /\ Cardinality(ToSet(q)) <= Len(q) /\ Len(q) \in Nat
<1>1. Len(q) \in Nat /\ DOMAIN q = 1..Len(q) /\ q \in [1..Len(q) -> Samples]
  OBVIOUS
<1>2. ToSet(q) = {q[i] : i \in 1..Len(q)}
  BY <1>1 DEF ToSet
<1>3. IsFiniteSet(1..Len(q)) /\ Cardinality(1..Len(q)) = Len(q)
  BY <1>1, FS_Interval
<1>4. q \in Surjection(1..Len(q), ToSet(q))
  BY <1>1, <1>2 DEF Surjection
<1>5. IsFiniteSet(ToSet(q)) /\ Cardinality(ToSet(q)) <= Len(q)
  BY <1>3, <1>4, FS_Surjection
<1> QED
  BY <1>1, <1>5, FS_CardinalityType

\* There are at most as many places taken as samples were.
HandPlaces == Cardinality(InRos) + Cardinality(InWorker)

LeftPlaces == Cardinality(refused) + Cardinality(overrun)

PutPlaces == Len(topic) + Len(puts) + Len(waiting) + Len(woken)

Places == HandPlaces + LeftPlaces + PutPlaces + Len(queue) + Len(out)

PlaceInv ==
  /\ IsFiniteSet(refused) /\ IsFiniteSet(overrun)
  /\ Somewhere = 1..taken
  /\ Places <= taken

LEMMA PartSizes ==
  ASSUME TypeOK, IsFiniteSet(refused), IsFiniteSet(overrun)
  PROVE  /\ taken \in Nat /\ Cardinality(refused) \in Nat /\ Cardinality(overrun) \in Nat
         /\ IsFiniteSet(InRos) /\ IsFiniteSet(InWorker) /\ IsFiniteSet(InHand)
         /\ Cardinality(InRos) = IF ros = NoSample THEN 0 ELSE 1
         /\ Cardinality(InWorker) = IF worker = NoWork THEN 0 ELSE 1
         /\ Cardinality(InHand) \in Nat
         /\ Cardinality(InHand) <= Cardinality(InRos) + Cardinality(InWorker)
         /\ InHand = InRos \union InWorker
         /\ topic \in Seq(Samples) /\ puts \in Seq(Samples) /\ waiting \in Seq(Samples) /\ woken \in Seq(Samples)
         /\ queue \in Seq(Samples) /\ out \in Seq(Samples)
<1>1. \A x : IsFiniteSet({x}) /\ Cardinality({x}) = 1
  BY FS_Singleton
<1>2. IsFiniteSet({}) /\ Cardinality({}) = 0
  BY FS_EmptySet
<1>3. /\ IsFiniteSet(InRos) /\ Cardinality(InRos) = IF ros = NoSample THEN 0 ELSE 1
      /\ IsFiniteSet(InWorker) /\ Cardinality(InWorker) = IF worker = NoWork THEN 0 ELSE 1
  BY <1>1, <1>2 DEF InRos, InWorker
<1>4. InHand = InRos \union InWorker
  BY DEF InHand, InRos, InWorker
<1>5. /\ IsFiniteSet(InHand) /\ Cardinality(InHand) \in Nat
      /\ Cardinality(InHand) <= Cardinality(InRos) + Cardinality(InWorker)
  BY <1>3, <1>4, UnionSize
<1>6. taken \in Nat
  BY SamplesType DEF TypeOK, InjectorTypeOK
<1>7. Cardinality(refused) \in Nat /\ Cardinality(overrun) \in Nat
  BY FS_CardinalityType
<1>8. /\ topic \in Seq(Samples) /\ puts \in Seq(Samples) /\ waiting \in Seq(Samples) /\ woken \in Seq(Samples)
      /\ queue \in Seq(Samples) /\ out \in Seq(Samples)
  BY DEF TypeOK, WorkerTypeOK, HandOverTypeOK
<1> QED
  BY <1>3, <1>4, <1>5, <1>6, <1>7, <1>8

\* The samples there are need as many places: who counts no more places than
\* samples counts each of them once.
LEMMA PlacesEnough ==
  ASSUME TypeOK, PlaceInv
  PROVE  NothingVanishes
<1> DEFINE Hands == InHand
           A1 == Hands \union refused
           A2 == A1 \union overrun
           B2 == A2 \union ToSet(topic)
           A3 == B2 \union ToSet(puts)
           A4 == A3 \union ToSet(waiting)
           A5 == A4 \union ToSet(woken)
           A6 == A5 \union ToSet(queue)
           A7 == A6 \union ToSet(out)
<1>0. IsFiniteSet(refused) /\ IsFiniteSet(overrun)
  BY DEF PlaceInv
<1>1. /\ IsFiniteSet(InHand) /\ Cardinality(InHand) \in Nat /\ taken \in Nat
      /\ Cardinality(InHand) <= Cardinality(InRos) + Cardinality(InWorker)
      /\ Cardinality(refused) \in Nat /\ Cardinality(overrun) \in Nat
      /\ Cardinality(InRos) \in Nat /\ Cardinality(InWorker) \in Nat
  BY <1>0, PartSizes
<1>2. ASSUME NEW A, IsFiniteSet(A), NEW q \in Seq(Samples)
      PROVE  /\ IsFiniteSet(A \union ToSet(q)) /\ Cardinality(A \union ToSet(q)) \in Nat
             /\ Cardinality(A \union ToSet(q)) <= Cardinality(A) + Len(q)
  <2>1. /\ IsFiniteSet(ToSet(q)) /\ Cardinality(ToSet(q)) \in Nat
        /\ Cardinality(ToSet(q)) <= Len(q) /\ Len(q) \in Nat
    BY SequenceSize
  <2>2. /\ IsFiniteSet(A \union ToSet(q)) /\ Cardinality(A \union ToSet(q)) \in Nat
        /\ Cardinality(A \union ToSet(q)) <= Cardinality(A) + Cardinality(ToSet(q))
    BY <1>2, <2>1, UnionSize
  <2>3. Cardinality(A) \in Nat
    BY <1>2, FS_CardinalityType
  <2> QED
    BY <2>1, <2>2, <2>3
<1>3. /\ topic \in Seq(Samples) /\ puts \in Seq(Samples) /\ waiting \in Seq(Samples) /\ woken \in Seq(Samples)
      /\ queue \in Seq(Samples) /\ out \in Seq(Samples)
  BY <1>0, PartSizes
<1>4. A7 = 1..taken
  BY DEF PlaceInv, Somewhere
<1>5. Cardinality(1..taken) = taken
  BY <1>1, FS_Interval
<1>6. IsFiniteSet(A1) /\ Cardinality(A1) \in Nat /\ Cardinality(A1) <= Cardinality(InHand) + Cardinality(refused)
  BY <1>0, <1>1, UnionSize
<1> HIDE DEF A1
<1>7. IsFiniteSet(A2) /\ Cardinality(A2) \in Nat /\ Cardinality(A2) <= Cardinality(A1) + Cardinality(overrun)
  BY <1>0, <1>6, UnionSize
<1> HIDE DEF A2
<1>19. IsFiniteSet(B2) /\ Cardinality(B2) \in Nat /\ Cardinality(B2) <= Cardinality(A2) + Len(topic)
  BY <1>2, <1>3, <1>7
<1> HIDE DEF B2
<1>8. IsFiniteSet(A3) /\ Cardinality(A3) \in Nat /\ Cardinality(A3) <= Cardinality(B2) + Len(puts)
  BY <1>2, <1>3, <1>19
<1> HIDE DEF A3
<1>9. IsFiniteSet(A4) /\ Cardinality(A4) \in Nat /\ Cardinality(A4) <= Cardinality(A3) + Len(waiting)
  BY <1>2, <1>3, <1>8
<1> HIDE DEF A4
<1>10. IsFiniteSet(A5) /\ Cardinality(A5) \in Nat /\ Cardinality(A5) <= Cardinality(A4) + Len(woken)
  BY <1>2, <1>3, <1>9
<1> HIDE DEF A5
<1>11. IsFiniteSet(A6) /\ Cardinality(A6) \in Nat /\ Cardinality(A6) <= Cardinality(A5) + Len(queue)
  BY <1>2, <1>3, <1>10
<1> HIDE DEF A6
<1>12. Cardinality(A7) <= Cardinality(A6) + Len(out)
  BY <1>2, <1>3, <1>11
<1> HIDE DEF A7
<1>13. /\ Len(topic) \in Nat /\ Len(puts) \in Nat /\ Len(waiting) \in Nat /\ Len(woken) \in Nat
       /\ Len(queue) \in Nat /\ Len(out) \in Nat
  BY <1>3
<1>14. Places <= taken
  BY DEF PlaceInv
<1>15. PICK n \in Nat, a \in Nat, r \in Nat, l \in Nat, p \in Nat, w \in Nat, k \in Nat, q \in Nat, o \in Nat,
            i \in Nat, j \in Nat, t \in Nat :
         /\ n = taken /\ a = Cardinality(InHand) /\ r = Cardinality(refused) /\ l = Cardinality(overrun)
         /\ t = Len(topic) /\ p = Len(puts) /\ w = Len(waiting) /\ k = Len(woken) /\ q = Len(queue) /\ o = Len(out)
         /\ i = Cardinality(InRos) /\ j = Cardinality(InWorker)
  BY <1>1, <1>13
<1>16. n <= a + r + l + t + p + w + k + q + o
  <2>1. PICK a1 \in Nat, a2 \in Nat, a3 \in Nat, a4 \in Nat, a5 \in Nat, a6 \in Nat, b2 \in Nat :
          /\ a1 = Cardinality(A1) /\ a2 = Cardinality(A2) /\ a3 = Cardinality(A3)
          /\ a4 = Cardinality(A4) /\ a5 = Cardinality(A5) /\ a6 = Cardinality(A6) /\ b2 = Cardinality(B2)
    BY <1>6, <1>7, <1>19, <1>8, <1>9, <1>10, <1>11
  <2>2. /\ a1 <= a + r /\ a2 <= a1 + l /\ b2 <= a2 + t /\ a3 <= b2 + p /\ a4 <= a3 + w /\ a5 <= a4 + k
        /\ a6 <= a5 + q /\ n <= a6 + o
    BY <1>4, <1>5, <1>6, <1>7, <1>8, <1>9, <1>10, <1>11, <1>12, <1>15, <1>19, <2>1
  <2> QED
    BY <2>2
<1>17. a <= i + j /\ (i + j) + (r + l) + (t + p + w + k) + q + o <= n
  BY <1>1, <1>14, <1>15 DEF Places, HandPlaces, LeftPlaces, PutPlaces
<1>18. n = a + r + l + t + p + w + k + q + o
  BY <1>16, <1>17
<1> QED
  BY <1>15, <1>18 DEF NothingVanishes, PlaceInv

LEMMA PlaceInit == Init => PlaceInv
<1> SUFFICES ASSUME Init PROVE PlaceInv
  OBVIOUS
<1>1. ToSet(<<>>) = {}
  BY DEF ToSet
<1>2. InRos = {} /\ InWorker = {} /\ InHand = {}
  BY DEF Init, InRos, InWorker, InHand
<1>3. IsFiniteSet({}) /\ Cardinality({}) = 0
  BY FS_EmptySet
<1>4. Somewhere = {} /\ taken = 0
  BY <1>1, <1>2 DEF Init, Somewhere
<1>5. Places = 0
  BY <1>2, <1>3 DEF Init, Places, HandPlaces, LeftPlaces, PutPlaces
<1> QED
  BY <1>3, <1>4, <1>5 DEF Init, PlaceInv

LEMMA FrontMoves ==
  ASSUME NEW q \in Seq(Samples), q # <<>>
  PROVE  /\ Head(q) \in Samples /\ Tail(q) \in Seq(Samples)
         /\ ToSet(q) = ToSet(Tail(q)) \union {Head(q)}
         /\ Len(q) = Len(Tail(q)) + 1 /\ Len(Tail(q)) \in Nat
<1>1. /\ 1 \in DOMAIN q /\ Head(q) = q[1]
      /\ \A i \in DOMAIN Tail(q) : i + 1 \in DOMAIN q /\ Tail(q)[i] = q[i + 1]
      /\ \A i \in DOMAIN q : i # 1 => i - 1 \in DOMAIN Tail(q) /\ i = (i - 1) + 1
  OBVIOUS
<1>2. ToSet(q) = ToSet(Tail(q)) \union {Head(q)}
  BY <1>1 DEF ToSet
<1> QED
  BY <1>2

LEMMA BackGrows ==
  ASSUME NEW q \in Seq(Samples), NEW s \in Samples
  PROVE  /\ ToSet(Append(q, s)) = ToSet(q) \union {s}
         /\ Len(Append(q, s)) = Len(q) + 1 /\ Len(q) \in Nat
<1>1. /\ DOMAIN Append(q, s) = DOMAIN q \union {Len(q) + 1} /\ Append(q, s)[Len(q) + 1] = s
      /\ \A i \in DOMAIN q : Append(q, s)[i] = q[i]
  OBVIOUS
<1> QED
  BY <1>1 DEF ToSet

LEMMA PlaceNext == TypeOK /\ PlaceInv /\ [Next]_vars => PlaceInv'
<1> SUFFICES ASSUME TypeOK, PlaceInv, [Next]_vars PROVE PlaceInv'
  OBVIOUS
<1>0. /\ IsFiniteSet(refused) /\ IsFiniteSet(overrun) /\ Places <= taken
      /\ InRos \union InWorker \union refused \union overrun
           \union ToSet(topic) \union ToSet(puts) \union ToSet(waiting) \union ToSet(woken) \union ToSet(queue) \union ToSet(out) = 1..taken
  BY DEF PlaceInv, Somewhere, InHand, InRos, InWorker
<1>1. /\ taken \in Nat /\ Cardinality(refused) \in Nat /\ Cardinality(overrun) \in Nat
      /\ Cardinality(InRos) = IF ros = NoSample THEN 0 ELSE 1
      /\ Cardinality(InWorker) = IF worker = NoWork THEN 0 ELSE 1
      /\ InRos = IF ros = NoSample THEN {} ELSE {ros.sample}
      /\ InWorker = IF worker = NoWork THEN {} ELSE {worker.sample}
      /\ topic \in Seq(Samples) /\ puts \in Seq(Samples) /\ waiting \in Seq(Samples) /\ woken \in Seq(Samples)
      /\ queue \in Seq(Samples) /\ out \in Seq(Samples)
  BY <1>0, PartSizes DEF InRos, InWorker
<1>2. /\ Len(topic) \in Nat /\ Len(puts) \in Nat /\ Len(waiting) \in Nat /\ Len(woken) \in Nat
      /\ Len(queue) \in Nat /\ Len(out) \in Nat
  BY <1>1
<1>3. /\ ros # NoSample => ros.sample \in Samples
      /\ worker # NoWork => worker.sample \in Samples
  BY DEF TypeOK, InjectorTypeOK, HandOverTypeOK, WorkerTypeOK
<1>4. \A x : IsFiniteSet({x}) /\ Cardinality({x}) = 1
  BY FS_Singleton
<1>5. IsFiniteSet({}) /\ Cardinality({}) = 0
  BY FS_EmptySet
<1>6. /\ Cardinality(InRos') = IF ros' = NoSample THEN 0 ELSE 1
      /\ Cardinality(InWorker') = IF worker' = NoWork THEN 0 ELSE 1
      /\ InRos' = IF ros' = NoSample THEN {} ELSE {ros'.sample}
      /\ InWorker' = IF worker' = NoWork THEN {} ELSE {worker'.sample}
  BY <1>4, <1>5 DEF InRos, InWorker
<1>17. /\ taken \in Nat /\ Places <= taken
       /\ Cardinality(refused) \in Nat /\ Cardinality(overrun) \in Nat
       /\ Len(topic) \in Nat /\ Len(puts) \in Nat /\ Len(waiting) \in Nat /\ Len(woken) \in Nat /\ Len(queue) \in Nat /\ Len(out) \in Nat
       /\ Cardinality(InRos) \in Nat /\ Cardinality(InWorker) \in Nat
       /\ HandPlaces \in Nat /\ LeftPlaces \in Nat /\ PutPlaces \in Nat
  BY <1>0, <1>1, <1>2 DEF HandPlaces, LeftPlaces, PutPlaces
<1>18. /\ ros = NoSample => Cardinality(InRos) = 0
       /\ ros # NoSample => Cardinality(InRos) = 1
       /\ worker = NoWork => Cardinality(InWorker) = 0
       /\ worker # NoWork => Cardinality(InWorker) = 1
       /\ ros' = NoSample => Cardinality(InRos') = 0
       /\ ros' # NoSample => Cardinality(InRos') = 1
       /\ worker' = NoWork => Cardinality(InWorker') = 0
       /\ worker' # NoWork => Cardinality(InWorker') = 1
  BY <1>1, <1>6
<1>7. SUFFICES /\ IsFiniteSet(refused') /\ IsFiniteSet(overrun') /\ Places' <= taken'
               /\ InRos' \union InWorker' \union refused' \union overrun' \union ToSet(topic') \union ToSet(puts') \union ToSet(waiting')
                    \union ToSet(woken') \union ToSet(queue') \union ToSet(out') = 1..taken'
  BY DEF PlaceInv, Somewhere, InHand, InRos, InWorker
<1>8. CASE Apply
  <2>1. /\ ros = NoSample /\ taken' = taken + 1 /\ ros'.sample = taken + 1 /\ ros' # NoSample
        /\ UNCHANGED <<worker, refused, overrun, topic, puts, waiting, woken, queue, out>>
    BY <1>1, <1>8 DEF Apply, NoSample, topicVars, handOverVars, workerVars
  <2>2. 1..(taken + 1) = (1..taken) \union {taken + 1}
    BY <1>1
  <2>3. InWorker' = InWorker /\ InRos' = {taken + 1} /\ InRos = {}
    BY <1>1, <1>6, <2>1
  <2>4. Places' <= taken'
    <3>1. /\ HandPlaces' = HandPlaces + 1 /\ LeftPlaces' = LeftPlaces /\ PutPlaces' = PutPlaces
          /\ Len(queue') = Len(queue) /\ Len(out') = Len(out) /\ taken' = taken + 1
      BY <1>17, <1>18, <2>1, <2>3 DEF HandPlaces, LeftPlaces, PutPlaces
    <3> QED
      BY <1>17, <3>1 DEF Places
  <2> QED
    BY <1>0, <2>1, <2>2, <2>3, <2>4
<1>9. CASE Drop
  <2>1. /\ ros # NoSample /\ ros' = NoSample /\ refused' = refused \union {ros.sample}
        /\ UNCHANGED <<taken, worker, overrun, topic, puts, waiting, woken, queue, out>>
    BY <1>9 DEF Drop, topicVars, handOverVars, workerVars
  <2>2. InWorker' = InWorker /\ InRos = {ros.sample} /\ InRos' = {}
    BY <1>1, <1>6, <2>1
  <2>3. IsFiniteSet(refused') /\ (Cardinality(refused') = Cardinality(refused) \/ Cardinality(refused') = Cardinality(refused) + 1)
    BY <1>0, <1>1, <2>1, FS_AddElement
  <2>4. Places' <= taken'
    <3>1. HandPlaces' = HandPlaces - 1
      BY <1>17, <1>18, <2>1, <2>2 DEF HandPlaces
    <3>2. LeftPlaces' = LeftPlaces \/ LeftPlaces' = LeftPlaces + 1
      BY <1>17, <2>1, <2>3 DEF LeftPlaces
    <3>3. PutPlaces' = PutPlaces /\ Len(queue') = Len(queue) /\ Len(out') = Len(out) /\ taken' = taken
      BY <2>1 DEF PutPlaces
    <3>4. CASE LeftPlaces' = LeftPlaces
      BY <1>17, <3>1, <3>3, <3>4 DEF Places
    <3>5. CASE LeftPlaces' = LeftPlaces + 1
      BY <1>17, <3>1, <3>3, <3>5 DEF Places
    <3> QED
      BY <3>2, <3>4, <3>5
  <2> QED
    BY <1>0, <2>1, <2>2, <2>3, <2>4
<1>19. CASE Forward
  <2>1. /\ ros # NoSample /\ ros' = NoSample
        /\ UNCHANGED <<taken, worker, refused, puts, waiting, woken, queue, out>>
    BY <1>19 DEF Forward, handOverVars, workerVars
  <2>2. InWorker' = InWorker /\ InRos = {ros.sample} /\ InRos' = {} /\ ros.sample \in Samples
    BY <1>1, <1>3, <1>6, <2>1
  <2>3. HandPlaces' = HandPlaces - 1 /\ Len(queue') = Len(queue) /\ Len(out') = Len(out) /\ taken' = taken
    BY <1>17, <1>18, <2>1, <2>2 DEF HandPlaces
  <2>4. CASE Len(topic) < Depth
    <3>1. topic' = Append(topic, ros.sample) /\ overrun' = overrun
      BY <1>19, <2>4 DEF Forward
    <3>2. ToSet(topic') = ToSet(topic) \union {ros.sample} /\ Len(topic') = Len(topic) + 1
      BY <1>1, <2>2, <3>1, BackGrows
    <3>3. LeftPlaces' = LeftPlaces /\ PutPlaces' = PutPlaces + 1
      BY <1>17, <2>1, <3>1, <3>2 DEF LeftPlaces, PutPlaces
    <3>4. Places' <= taken'
      BY <1>17, <2>3, <3>3 DEF Places
    <3> QED
      BY <1>0, <2>1, <2>2, <3>1, <3>2, <3>4
  <2>5. CASE ~(Len(topic) < Depth)
    <3>1. topic' = Append(Tail(topic), ros.sample) /\ overrun' = overrun \union {Head(topic)} /\ topic # <<>>
      BY <1>1, <1>19, <2>5, CountsType DEF Forward
    <3>2. /\ Tail(topic) \in Seq(Samples) /\ ToSet(topic) = ToSet(Tail(topic)) \union {Head(topic)}
          /\ Len(topic) = Len(Tail(topic)) + 1 /\ Len(Tail(topic)) \in Nat
      BY <1>1, <3>1, FrontMoves
    <3>3. ToSet(topic') = ToSet(Tail(topic)) \union {ros.sample} /\ Len(topic') = Len(topic)
      BY <2>2, <3>1, <3>2, BackGrows
    <3>4. IsFiniteSet(overrun') /\ (Cardinality(overrun') = Cardinality(overrun) \/ Cardinality(overrun') = Cardinality(overrun) + 1)
      BY <1>0, <1>1, <3>1, FS_AddElement
    <3>5. LeftPlaces' = LeftPlaces \/ LeftPlaces' = LeftPlaces + 1
      BY <1>17, <2>1, <3>4 DEF LeftPlaces
    <3>6. PutPlaces' = PutPlaces
      BY <2>1, <3>3 DEF PutPlaces
    <3>7. Places' <= taken'
      <4>1. CASE LeftPlaces' = LeftPlaces
        BY <1>17, <2>3, <3>6, <4>1 DEF Places
      <4>2. CASE LeftPlaces' = LeftPlaces + 1
        BY <1>17, <2>3, <3>6, <4>2 DEF Places
      <4> QED
        BY <3>5, <4>1, <4>2
    <3> QED
      BY <1>0, <2>1, <2>2, <3>1, <3>2, <3>3, <3>4, <3>7
  <2> QED
    BY <2>4, <2>5
<1>20. CASE Raise
  <2>1. /\ taken' = taken + 1 /\ refused' = refused \union {taken + 1}
        /\ UNCHANGED <<ros, worker, overrun, topic, puts, waiting, woken, queue, out>>
    BY <1>20 DEF Raise, topicVars, handOverVars, workerVars
  <2>2. 1..(taken + 1) = (1..taken) \union {taken + 1}
    BY <1>1
  <2>3. InWorker' = InWorker /\ InRos' = InRos
    BY <2>1 DEF InRos, InWorker
  <2>4. IsFiniteSet(refused') /\ (Cardinality(refused') = Cardinality(refused) \/ Cardinality(refused') = Cardinality(refused) + 1)
    BY <1>0, <1>1, <2>1, FS_AddElement
  <2>5. Places' <= taken'
    <3>1. /\ HandPlaces' = HandPlaces /\ (LeftPlaces' = LeftPlaces \/ LeftPlaces' = LeftPlaces + 1) /\ PutPlaces' = PutPlaces
          /\ Len(queue') = Len(queue) /\ Len(out') = Len(out) /\ taken' = taken + 1
      BY <1>17, <2>1, <2>3, <2>4 DEF HandPlaces, LeftPlaces, PutPlaces
    <3>2. CASE LeftPlaces' = LeftPlaces
      BY <1>17, <3>1, <3>2 DEF Places
    <3>3. CASE LeftPlaces' = LeftPlaces + 1
      BY <1>17, <3>1, <3>3 DEF Places
    <3> QED
      BY <3>1, <3>2, <3>3
  <2> QED
    BY <1>0, <2>1, <2>2, <2>3, <2>4, <2>5
<1>21. CASE ReceiveInvalid \/ Receive
  <2>1. /\ topic # <<>> /\ topic' = Tail(topic)
        /\ UNCHANGED <<taken, ros, worker, overrun, waiting, woken, queue, out>>
    BY <1>21 DEF ReceiveInvalid, Receive, injectorVars, nodeVars, handOverVars, workerVars
  <2>2. /\ Head(topic) \in Samples /\ ToSet(topic) = ToSet(topic') \union {Head(topic)}
        /\ Len(topic) = Len(topic') + 1 /\ Len(topic') \in Nat
    BY <1>1, <2>1, FrontMoves
  <2>3. InRos' = InRos /\ InWorker' = InWorker
    BY <2>1 DEF InRos, InWorker
  <2>4. HandPlaces' = HandPlaces /\ Len(queue') = Len(queue) /\ Len(out') = Len(out) /\ taken' = taken
    BY <2>1, <2>3 DEF HandPlaces
  <2>5. CASE ReceiveInvalid
    <3>1. refused' = refused \union {Head(topic)} /\ puts' = puts
      BY <2>5 DEF ReceiveInvalid, handOverVars
    <3>2. IsFiniteSet(refused') /\ (Cardinality(refused') = Cardinality(refused) \/ Cardinality(refused') = Cardinality(refused) + 1)
      BY <1>0, <1>1, <3>1, FS_AddElement
    <3>3. (LeftPlaces' = LeftPlaces \/ LeftPlaces' = LeftPlaces + 1) /\ PutPlaces' = PutPlaces - 1
      <4>1. LeftPlaces' = LeftPlaces \/ LeftPlaces' = LeftPlaces + 1
        BY <1>17, <2>1, <3>2 DEF LeftPlaces
      <4>2. PutPlaces' = PutPlaces - 1
        BY <1>17, <2>1, <2>2, <3>1 DEF PutPlaces
      <4> QED
        BY <4>1, <4>2
    <3>4. Places' <= taken'
      <4>1. CASE LeftPlaces' = LeftPlaces
        BY <1>17, <2>4, <3>3, <4>1 DEF Places
      <4>2. CASE LeftPlaces' = LeftPlaces + 1
        BY <1>17, <2>4, <3>3, <4>2 DEF Places
      <4> QED
        BY <3>3, <4>1, <4>2
    <3> QED
      BY <1>0, <2>1, <2>2, <2>3, <3>1, <3>2, <3>4
  <2>6. CASE Receive
    <3>1. puts' = Append(puts, Head(topic)) /\ refused' = refused
      BY <2>6 DEF Receive
    <3>2. ToSet(puts') = ToSet(puts) \union {Head(topic)} /\ Len(puts') = Len(puts) + 1
      BY <1>1, <2>2, <3>1, BackGrows
    <3>3. LeftPlaces' = LeftPlaces /\ PutPlaces' = PutPlaces
      BY <1>17, <2>1, <2>2, <3>1, <3>2 DEF LeftPlaces, PutPlaces
    <3>4. Places' <= taken'
      BY <1>17, <2>4, <3>3 DEF Places
    <3> QED
      BY <1>0, <2>1, <2>2, <2>3, <3>1, <3>2, <3>4
  <2> QED
    BY <1>21, <2>5, <2>6
<1>10. CASE Put
  <2>1. /\ puts # <<>> /\ puts' = Tail(puts) /\ PutOf(Head(puts))
        /\ UNCHANGED <<taken, ros, worker, refused, overrun, topic, woken, out>>
    BY <1>10 DEF Put, injectorVars, nodeVars, topicVars, workerVars
  <2>2. /\ Head(puts) \in Samples /\ ToSet(puts) = ToSet(puts') \union {Head(puts)}
        /\ Len(puts) = Len(puts') + 1 /\ Len(puts') \in Nat
    BY <1>1, <2>1, FrontMoves
  <2>3. InRos' = InRos /\ InWorker' = InWorker
    BY <2>1 DEF InRos, InWorker
  <2>4. CASE queue' = Append(queue, Head(puts)) /\ waiting' = waiting
    <3>1. ToSet(queue') = ToSet(queue) \union {Head(puts)} /\ Len(queue') = Len(queue) + 1
      BY <1>1, <2>2, <2>4, BackGrows
    <3>2. Places' <= taken'
      <4>1. /\ HandPlaces' = HandPlaces /\ LeftPlaces' = LeftPlaces /\ PutPlaces' = PutPlaces - 1
            /\ Len(queue') = Len(queue) + 1 /\ Len(out') = Len(out) /\ taken' = taken
        BY <1>17, <2>1, <2>2, <2>3, <2>4, <3>1 DEF HandPlaces, LeftPlaces, PutPlaces
      <4> QED
        BY <1>17, <4>1 DEF Places
    <3> QED
      BY <1>0, <2>1, <2>2, <2>3, <2>4, <3>1, <3>2
  <2>5. CASE waiting' = Append(waiting, Head(puts)) /\ queue' = queue
    <3>1. ToSet(waiting') = ToSet(waiting) \union {Head(puts)} /\ Len(waiting') = Len(waiting) + 1
      BY <1>1, <2>2, <2>5, BackGrows
    <3>2. Places' <= taken'
      <4>1. /\ HandPlaces' = HandPlaces /\ LeftPlaces' = LeftPlaces /\ PutPlaces' = PutPlaces
            /\ Len(queue') = Len(queue) /\ Len(out') = Len(out) /\ taken' = taken
        BY <1>17, <2>1, <2>2, <2>3, <2>5, <3>1 DEF HandPlaces, LeftPlaces, PutPlaces
      <4> QED
        BY <1>17, <4>1 DEF Places
    <3> QED
      BY <1>0, <2>1, <2>2, <2>3, <2>5, <3>1, <3>2
  <2> QED
    BY <2>1, <2>4, <2>5 DEF PutOf
<1>11. CASE PutAgain
  <2>1. /\ woken # <<>> /\ woken' = Tail(woken) /\ PutOf(Head(woken))
        /\ UNCHANGED <<taken, ros, worker, refused, overrun, topic, puts, out>>
    BY <1>11 DEF PutAgain, injectorVars, nodeVars, topicVars, workerVars
  <2>2. /\ Head(woken) \in Samples /\ ToSet(woken) = ToSet(woken') \union {Head(woken)}
        /\ Len(woken) = Len(woken') + 1 /\ Len(woken') \in Nat
    BY <1>1, <2>1, FrontMoves
  <2>3. InRos' = InRos /\ InWorker' = InWorker
    BY <2>1 DEF InRos, InWorker
  <2>4. CASE queue' = Append(queue, Head(woken)) /\ waiting' = waiting
    <3>1. ToSet(queue') = ToSet(queue) \union {Head(woken)} /\ Len(queue') = Len(queue) + 1
      BY <1>1, <2>2, <2>4, BackGrows
    <3>2. Places' <= taken'
      <4>1. /\ HandPlaces' = HandPlaces /\ LeftPlaces' = LeftPlaces /\ PutPlaces' = PutPlaces - 1
            /\ Len(queue') = Len(queue) + 1 /\ Len(out') = Len(out) /\ taken' = taken
        BY <1>17, <2>1, <2>2, <2>3, <2>4, <3>1 DEF HandPlaces, LeftPlaces, PutPlaces
      <4> QED
        BY <1>17, <4>1 DEF Places
    <3> QED
      BY <1>0, <2>1, <2>2, <2>3, <2>4, <3>1, <3>2
  <2>5. CASE waiting' = Append(waiting, Head(woken)) /\ queue' = queue
    <3>1. ToSet(waiting') = ToSet(waiting) \union {Head(woken)} /\ Len(waiting') = Len(waiting) + 1
      BY <1>1, <2>2, <2>5, BackGrows
    <3>2. Places' <= taken'
      <4>1. /\ HandPlaces' = HandPlaces /\ LeftPlaces' = LeftPlaces /\ PutPlaces' = PutPlaces
            /\ Len(queue') = Len(queue) /\ Len(out') = Len(out) /\ taken' = taken
        BY <1>17, <2>1, <2>2, <2>3, <2>5, <3>1 DEF HandPlaces, LeftPlaces, PutPlaces
      <4> QED
        BY <1>17, <4>1 DEF Places
    <3> QED
      BY <1>0, <2>1, <2>2, <2>3, <2>5, <3>1, <3>2
  <2> QED
    BY <2>1, <2>4, <2>5 DEF PutOf
<1>12. CASE Get
  <2>1. /\ queue # <<>> /\ worker = NoWork /\ queue' = Tail(queue)
        /\ worker' = [sample |-> Head(queue), left |-> Channels, fate |-> "carried"]
        /\ UNCHANGED <<taken, ros, refused, overrun, topic, puts, out>>
        /\ \/ waiting = <<>> /\ waiting' = waiting /\ woken' = woken
           \/ waiting # <<>> /\ waiting' = Tail(waiting) /\ woken' = Append(woken, Head(waiting))
    BY <1>12 DEF Get, injectorVars, nodeVars, topicVars
  <2>2. /\ Head(queue) \in Samples /\ ToSet(queue) = ToSet(queue') \union {Head(queue)}
        /\ Len(queue) = Len(queue') + 1 /\ Len(queue') \in Nat
    BY <1>1, <2>1, FrontMoves
  <2>3. worker' # NoWork /\ InRos' = InRos /\ InWorker = {} /\ InWorker' = {Head(queue)}
    <3>1. worker'.sample = Head(queue) /\ worker'.left # 0
      BY <2>1, CountsType
    <3> QED
      BY <2>1, <3>1 DEF InRos, InWorker, NoWork
  <2>4. CASE waiting' = waiting /\ woken' = woken
    <3>1. Places' <= taken'
      <4>1. /\ HandPlaces' = HandPlaces + 1 /\ LeftPlaces' = LeftPlaces /\ PutPlaces' = PutPlaces
            /\ Len(queue') = Len(queue) - 1 /\ Len(out') = Len(out) /\ taken' = taken
        BY <1>17, <1>18, <2>1, <2>2, <2>3, <2>4 DEF HandPlaces, LeftPlaces, PutPlaces
      <4> QED
        BY <1>17, <4>1 DEF Places
    <3> QED
      BY <1>0, <2>1, <2>2, <2>3, <2>4, <3>1
  <2>5. CASE waiting # <<>> /\ waiting' = Tail(waiting) /\ woken' = Append(woken, Head(waiting))
    <3>1. /\ Head(waiting) \in Samples /\ ToSet(waiting) = ToSet(waiting') \union {Head(waiting)}
          /\ Len(waiting) = Len(waiting') + 1 /\ Len(waiting') \in Nat
      BY <1>1, <2>5, FrontMoves
    <3>2. ToSet(woken') = ToSet(woken) \union {Head(waiting)} /\ Len(woken') = Len(woken) + 1
      BY <1>1, <2>5, <3>1, BackGrows
    <3>3. Places' <= taken'
      <4>1. /\ HandPlaces' = HandPlaces + 1 /\ LeftPlaces' = LeftPlaces /\ PutPlaces' = PutPlaces
            /\ Len(queue') = Len(queue) - 1 /\ Len(out') = Len(out) /\ taken' = taken
        BY <1>17, <1>18, <2>1, <2>2, <2>3, <3>1, <3>2 DEF HandPlaces, LeftPlaces, PutPlaces
      <4> QED
        BY <1>17, <4>1 DEF Places
    <3> QED
      BY <1>0, <2>1, <2>2, <2>3, <3>1, <3>2, <3>3
  <2> QED
    BY <2>1, <2>4, <2>5
<1>13. CASE Publish \/ PublishFails
  <2>1. /\ worker # NoWork /\ UNCHANGED <<taken, ros, refused, overrun, topic, puts, waiting, woken, queue>>
        /\ \/ worker' = [worker EXCEPT !.left = @ - 1, !.fate = IF conn = "up" THEN worker.fate ELSE "wasted"] /\ worker.left > 1 /\ out' = out
           \/ worker' = NoWork /\ out' = Append(out, worker.sample)
    BY <1>13 DEF Publish, PublishFails, Fails, injectorVars, nodeVars, topicVars, handOverVars
  <2>2. InRos' = InRos /\ InWorker = {worker.sample} /\ worker.sample \in Samples
    BY <1>1, <1>3, <2>1 DEF InRos
  <2>3. CASE worker' = [worker EXCEPT !.left = @ - 1, !.fate = IF conn = "up" THEN worker.fate ELSE "wasted"] /\ worker.left > 1 /\ out' = out
    <3>1. worker'.sample = worker.sample /\ worker' # NoWork
      <4>1. worker \in [sample: Samples, left: 1..Channels, fate: {"carried", "wasted"}]
        BY <2>1 DEF TypeOK, WorkerTypeOK
      <4>3. worker'.sample = worker.sample /\ worker'.left = worker.left - 1
        BY <2>3, <4>1
      <4>2. worker'.sample = worker.sample /\ worker'.left # 0
        BY <2>3, <4>1, <4>3, CountsType
      <4> QED
        BY <4>2 DEF NoWork
    <3>2. InWorker' = InWorker
      BY <1>6, <2>2, <3>1
    <3> QED
      BY <1>0, <2>1, <2>2, <2>3, <3>2 DEF Places, HandPlaces, LeftPlaces, PutPlaces
  <2>4. CASE worker' = NoWork /\ out' = Append(out, worker.sample)
    <3>1. ToSet(out') = ToSet(out) \union {worker.sample} /\ Len(out') = Len(out) + 1 /\ InWorker' = {}
      BY <1>1, <1>6, <2>2, <2>4, BackGrows
    <3>2. Places' <= taken'
      <4>1. /\ HandPlaces' = HandPlaces - 1 /\ LeftPlaces' = LeftPlaces /\ PutPlaces' = PutPlaces
            /\ Len(queue') = Len(queue) /\ Len(out') = Len(out) + 1 /\ taken' = taken
        BY <1>17, <1>18, <2>1, <2>2, <3>1 DEF HandPlaces, LeftPlaces, PutPlaces
      <4> QED
        BY <1>17, <4>1 DEF Places
    <3> QED
      BY <1>0, <2>1, <2>2, <3>1, <3>2
  <2> QED
    BY <2>1, <2>3, <2>4
<1>14. CASE Refuse
  <2>1. /\ worker # NoWork /\ worker' = NoWork /\ refused' = refused \union {worker.sample}
        /\ UNCHANGED <<taken, ros, overrun, topic, puts, waiting, woken, queue, out>>
    BY <1>14 DEF Refuse, injectorVars, nodeVars, topicVars, handOverVars
  <2>2. InRos' = InRos /\ InWorker = {worker.sample} /\ InWorker' = {}
    BY <1>1, <1>6, <2>1 DEF InRos
  <2>3. IsFiniteSet(refused') /\ (Cardinality(refused') = Cardinality(refused) \/ Cardinality(refused') = Cardinality(refused) + 1)
    BY <1>0, <1>1, <2>1, FS_AddElement
  <2>4. Places' <= taken'
    <3>1. /\ HandPlaces' = HandPlaces - 1 /\ (LeftPlaces' = LeftPlaces \/ LeftPlaces' = LeftPlaces + 1) /\ PutPlaces' = PutPlaces
          /\ Len(queue') = Len(queue) /\ Len(out') = Len(out) /\ taken' = taken
      <4>1. HandPlaces' = HandPlaces - 1
        BY <1>17, <1>18, <2>1, <2>2 DEF HandPlaces
      <4>2. LeftPlaces' = LeftPlaces \/ LeftPlaces' = LeftPlaces + 1
        BY <1>17, <2>1, <2>3 DEF LeftPlaces
      <4> QED
        BY <2>1, <4>1, <4>2 DEF PutPlaces
    <3>2. CASE LeftPlaces' = LeftPlaces
      BY <1>17, <3>1, <3>2 DEF Places
    <3>3. CASE LeftPlaces' = LeftPlaces + 1
      BY <1>17, <3>1, <3>3 DEF Places
    <3> QED
      BY <3>1, <3>2, <3>3
  <2> QED
    BY <1>0, <2>1, <2>2, <2>3, <2>4
<1>16. CASE UNCHANGED <<taken, ros, worker, refused, overrun, topic, puts, waiting, woken, queue, out>>
  <2>1. InRos' = InRos /\ InWorker' = InWorker
    BY <1>16 DEF InRos, InWorker
  <2> QED
    BY <1>0, <1>16, <2>1 DEF Places, HandPlaces, LeftPlaces, PutPlaces
<1> QED
  BY <1>8, <1>9, <1>10, <1>11, <1>12, <1>13, <1>14, <1>16, <1>19, <1>20, <1>21
  DEF Next, vars, injectorVars, nodeVars, topicVars, handOverVars, workerVars, Tick, Activate, SwapIn, SwapOut, Clear, Connect, LinkLost

\* Whatever the threads and the coroutines do, every sample is in one place:
\* under way, out, refused, or overrun to an outage.
THEOREM EverySampleAccounted == Spec => []NothingVanishes
<1>1. Spec => []PlaceInv
  BY SignalTypes, PlaceInit, PlaceNext, PTL DEF Spec
<1>2. TypeOK /\ PlaceInv => NothingVanishes
  BY PlacesEnough
<1> QED
  BY <1>1, <1>2, SignalTypes, PTL
=============================================================================
