------------------------ MODULE AnomalyScoringProofs ------------------------
(***************************************************************************)
(* The window of anomaly_svc, for any channels, samples, lengths and       *)
(* failures: what is scored is what arrived complete within the length.    *)
(***************************************************************************)
EXTENDS AnomalyScoring, TLAPS

\* The part of the type invariant that the window needs.
WindowType ==
  /\ now \in Nat
  /\ lastRead \in [stamp: Nat, channel: Nat]
  /\ DOMAIN samples = DOMAIN recv /\ DOMAIN recv \subseteq Stamps
  /\ \A s \in DOMAIN recv : recv[s] \in Nat /\ samples[s] \subseteq Channels
  /\ heard \in [Stamps -> [got: SUBSET Channels, first: Nat]]

\* A channel that was heard does not come again for its sample.
HeardOnce == \A s \in Stamps : \A c \in heard[s].got : ~Comes([stamp |-> s, channel |-> c])

\* A sample is held as it was heard, or what is held of it is the rest of a
\* sample that has been pruned, and it stays incomplete.
HeldAsHeard ==
  \A s \in DOMAIN recv :
    \/ samples[s] = heard[s].got /\ recv[s] = heard[s].first /\ heard[s].got # {}
    \/ heard[s].first + Length < now /\ heard[s].got \ samples[s] # {}

\* Nothing fresh is missing.
FreshIsHeld ==
  \A s \in Stamps : heard[s].got # {} /\ heard[s].first + Length >= now => s \in DOMAIN recv

WindowInv == WindowType /\ HeardOnce /\ HeldAsHeard /\ FreshIsHeld

-----------------------------------------------------------------------------
\* What the parts say is what the property says.
LEMMA ExactFromInv == WindowInv => WindowExact
<1> SUFFICES ASSUME WindowInv PROVE WindowExact
  OBVIOUS
<1> USE TelemetryType, TimesType DEF WindowInv, WindowType
<1>1. ASSUME NEW s \in ToWindow
      PROVE  s \in Stamps /\ heard[s].got = Channels /\ heard[s].first + Length >= now
  <2>1. s \in DOMAIN recv /\ recv[s] + Length >= now /\ samples[s] = Channels
    BY <1>1 DEF ToWindow, Fresh
  <2>2. heard[s].got \in SUBSET Channels /\ s \in Stamps
    BY <2>1
  <2>3. samples[s] = heard[s].got /\ recv[s] = heard[s].first
    BY <2>1, <2>2 DEF HeldAsHeard
  <2> QED
    BY <2>1, <2>2, <2>3
<1>2. ASSUME NEW s \in Stamps, heard[s].got = Channels, heard[s].first + Length >= now
      PROVE  s \in ToWindow
  <2>1. heard[s].first \in Nat
    OBVIOUS
  <2>2. s \in DOMAIN recv
    BY <1>2 DEF FreshIsHeld
  <2>3. samples[s] = Channels /\ recv[s] = heard[s].first
    BY <1>2, <2>1, <2>2 DEF HeldAsHeard
  <2> QED
    BY <1>2, <2>2, <2>3 DEF ToWindow, Fresh
<1> QED
  BY <1>1, <1>2 DEF WindowExact

\* An empty window is exact while nothing has been heard.
LEMMA EmptyWindow ==
  ASSUME now \in Nat, lastRead \in [stamp: Nat, channel: Nat],
         samples = <<>>, recv = <<>>, heard = NothingHeard
  PROVE  WindowInv
BY DEF WindowInv, WindowType, HeardOnce, HeldAsHeard, FreshIsHeld, NothingHeard

\* Pruning keeps what is fresh as it is.
LEMMA PruneKeeps ==
  ASSUME WindowInv, Prune, UNCHANGED <<now, lastRead, heard>>
  PROVE  WindowInv'
<1> USE DEF WindowInv, WindowType
<1>1. DOMAIN recv' = Fresh(recv) /\ DOMAIN samples' = Fresh(recv) /\ Fresh(recv) \subseteq DOMAIN recv
  BY DEF Prune, Restrict, Fresh
<1>2. \A s \in Fresh(recv) : recv'[s] = recv[s] /\ samples'[s] = samples[s]
  BY DEF Prune, Restrict, Fresh
<1>3. WindowType'
  BY <1>1, <1>2
<1>4. HeardOnce'
  BY DEF HeardOnce, Comes
<1>5. HeldAsHeard'
  BY <1>1, <1>2 DEF HeldAsHeard
<1>6. FreshIsHeld'
  <2> SUFFICES ASSUME NEW s \in Stamps, heard[s].got # {}, heard[s].first + Length >= now
               PROVE  s \in Fresh(recv)
    BY <1>1 DEF FreshIsHeld
  <2>1. s \in DOMAIN recv /\ heard[s].first \in Nat
    BY DEF FreshIsHeld
  <2>2. recv[s] = heard[s].first
    BY <2>1, TimesType DEF HeldAsHeard
  <2> QED
    BY <2>1, <2>2 DEF Fresh
<1> QED
  BY <1>3, <1>4, <1>5, <1>6

-----------------------------------------------------------------------------
LEMMA WindowInit == Init => WindowInv
BY EmptyWindow, TimesType DEF Init, Empty, NothingRead

\* Time makes held samples stale, never the other way.
LEMMA WindowTick == WindowInv /\ Tick => WindowInv'
<1> SUFFICES ASSUME WindowInv, Tick PROVE WindowInv'
  OBVIOUS
<1> USE TimesType DEF WindowInv, WindowType
<1>1. WindowType' /\ now' = now + 1
  BY DEF Tick
<1>2. HeardOnce'
  BY DEF Tick, HeardOnce, Comes
<1>3. HeldAsHeard'
  <2> SUFFICES ASSUME NEW s \in DOMAIN recv,
                      heard[s].first + Length < now /\ heard[s].got \ samples[s] # {}
               PROVE  heard[s].first + Length < now + 1
    BY DEF Tick, HeldAsHeard
  <2>1. heard[s].first \in Nat
    OBVIOUS
  <2> QED
    BY <2>1
<1>4. FreshIsHeld'
  <2> SUFFICES ASSUME NEW s \in Stamps, heard[s].got # {}, heard[s].first + Length >= now + 1
               PROVE  s \in DOMAIN recv
    BY DEF Tick, FreshIsHeld
  <2>1. heard[s].first \in Nat
    OBVIOUS
  <2> QED
    BY <2>1 DEF FreshIsHeld
<1> QED
  BY <1>1, <1>2, <1>3, <1>4

\* Reading a message: the sample it is of, and all the others.
LEMMA WindowRead == ASSUME NEW m \in Message, WindowInv, Read(m) PROVE WindowInv'
<1> DEFINE s0 == m.stamp
           held == IF s0 \in DOMAIN recv THEN recv ELSE Put(recv, s0, now)
           got == (IF s0 \in DOMAIN samples THEN samples[s0] ELSE {}) \union {m.channel}
<1> USE TelemetryType, TimesType
<1>1. s0 \in Stamps /\ m.channel \in Channels /\ s0 \in Nat /\ m.channel \in Nat
  BY DEF Message
<1>2. /\ now \in Nat /\ lastRead \in [stamp: Nat, channel: Nat]
      /\ DOMAIN samples = DOMAIN recv /\ DOMAIN recv \subseteq Stamps
      /\ \A s \in DOMAIN recv : recv[s] \in Nat /\ samples[s] \subseteq Channels
      /\ \A s \in Stamps : heard[s].got \subseteq Channels /\ heard[s].first \in Nat
      /\ heard \in [Stamps -> [got: SUBSET Channels, first: Nat]]
  BY DEF WindowInv, WindowType
<1>3. Comes(m) /\ lastRead' = m /\ now' = now
  BY DEF Read
<1>4. /\ heard' \in [Stamps -> [got: SUBSET Channels, first: Nat]]
      /\ heard'[s0].got = heard[s0].got \union {m.channel}
      /\ heard'[s0].first = IF heard[s0].got = {} THEN now ELSE heard[s0].first
      /\ \A s \in Stamps : s # s0 => heard'[s] = heard[s]
  BY <1>1, <1>2 DEF Read
<1>5. /\ DOMAIN held = DOMAIN recv \union {s0}
      /\ \A s \in DOMAIN recv : held[s] = recv[s]
      /\ s0 \notin DOMAIN recv => held[s0] = now
  BY DEF Put
<1>6. /\ samples' = Restrict(Put(samples, s0, got), Fresh(held))
      /\ recv' = Restrict(held, Fresh(held))
  BY DEF Read, Observe
<1>7. Fresh(held) = {s \in DOMAIN recv \union {s0} : held[s] + Length >= now}
  BY <1>5 DEF Fresh
<1> HIDE DEF held
<1>8. /\ DOMAIN recv' = Fresh(held) /\ DOMAIN samples' = Fresh(held)
      /\ \A s \in Fresh(held) : recv'[s] = held[s]
      /\ \A s \in Fresh(held) : samples'[s] = IF s = s0 THEN got ELSE samples[s]
  BY <1>1, <1>2, <1>6, <1>7 DEF Restrict, Put
<1> HIDE DEF got
<1>9. got = (IF s0 \in DOMAIN recv THEN samples[s0] ELSE {}) \union {m.channel}
  BY <1>2 DEF got
<1> HIDE DEF s0
<1>10. m \in [stamp: Nat, channel: Nat] /\ m.stamp = s0
  BY <1>1 DEF Message, s0
<1>11. WindowType'
  <2>1. \A s \in Fresh(held) : recv'[s] \in Nat
    BY <1>2, <1>5, <1>7, <1>8
  <2>2. \A s \in Fresh(held) : samples'[s] \subseteq Channels
    BY <1>1, <1>2, <1>7, <1>8, <1>9
  <2> QED
    BY <2>1, <2>2, <1>1, <1>2, <1>3, <1>4, <1>7, <1>8, <1>10 DEF WindowType
<1>12. HeardOnce'
  <2> SUFFICES ASSUME NEW s \in Stamps, NEW c \in heard'[s].got
               PROVE  ~((s > m.stamp) \/ (s = m.stamp /\ c > m.channel))
    BY <1>3 DEF HeardOnce, Comes
  <2>1. CASE s = s0 /\ c = m.channel
    BY <2>1, <1>1, <1>10
  <2>2. CASE c \in heard[s].got
    <3>1. ~((s > lastRead.stamp) \/ (s = lastRead.stamp /\ c > lastRead.channel))
      BY <2>2 DEF WindowInv, HeardOnce, Comes
    <3>2. (m.stamp > lastRead.stamp) \/ (m.stamp = lastRead.stamp /\ m.channel > lastRead.channel)
      BY <1>3 DEF Comes
    <3>3. s \in Nat /\ c \in Nat /\ lastRead.stamp \in Nat /\ lastRead.channel \in Nat
      BY <2>2, <1>2
    <3> QED
      BY <3>1, <3>2, <3>3, <1>10
  <2> QED
    BY <2>1, <2>2, <1>4
<1>13. m.channel \notin heard[s0].got
  BY <1>1, <1>3, <1>10 DEF WindowInv, HeardOnce
<1>14. HeldAsHeard'
  <2> SUFFICES ASSUME NEW s \in Fresh(held)
               PROVE  \/ samples'[s] = heard'[s].got /\ recv'[s] = heard'[s].first /\ heard'[s].got # {}
                      \/ heard'[s].first + Length < now /\ heard'[s].got \ samples'[s] # {}
    BY <1>3, <1>8 DEF HeldAsHeard
  <2>1. CASE s # s0
    BY <2>1, <1>2, <1>4, <1>5, <1>7, <1>8 DEF WindowInv, HeldAsHeard
  <2>2. CASE s = s0 /\ s0 \in DOMAIN recv
    <3>1. samples'[s0] = samples[s0] \union {m.channel} /\ recv'[s0] = recv[s0]
      BY <2>2, <1>5, <1>8, <1>9
    <3>2. CASE samples[s0] = heard[s0].got /\ recv[s0] = heard[s0].first /\ heard[s0].got # {}
      BY <3>1, <3>2, <2>2, <1>4
    <3>3. CASE heard[s0].first + Length < now /\ heard[s0].got \ samples[s0] # {}
      BY <3>1, <3>3, <2>2, <1>4, <1>13
    <3> QED
      BY <3>2, <3>3, <2>2 DEF WindowInv, HeldAsHeard
  <2>3. CASE s = s0 /\ s0 \notin DOMAIN recv
    <3>1. samples'[s0] = {m.channel} /\ recv'[s0] = now
      BY <2>3, <1>5, <1>8, <1>9
    <3>2. CASE heard[s0].got = {}
      BY <3>1, <3>2, <2>3, <1>4
    <3>3. CASE heard[s0].got # {}
      <4>1. heard[s0].first + Length < now
        BY <3>3, <2>3, <1>1, <1>2, <1>10 DEF WindowInv, FreshIsHeld
      <4> QED
        BY <4>1, <3>1, <3>3, <2>3, <1>4, <1>13
    <3> QED
      BY <3>2, <3>3
  <2> QED
    BY <2>1, <2>2, <2>3
<1>15. FreshIsHeld'
  <2> SUFFICES ASSUME NEW s \in Stamps, heard'[s].got # {}, heard'[s].first + Length >= now
               PROVE  s \in Fresh(held)
    BY <1>3, <1>8 DEF FreshIsHeld
  <2>1. CASE s # s0
    <3>1. s \in DOMAIN recv /\ heard[s].first + Length >= now
      BY <2>1, <1>4 DEF WindowInv, FreshIsHeld
    <3>2. heard[s].first \in Nat
      BY <1>2
    <3>3. ~(heard[s].first + Length < now)
      BY <3>1, <3>2, <1>2
    <3>4. recv[s] = heard[s].first
      BY <3>1, <3>3 DEF WindowInv, HeldAsHeard
    <3> QED
      BY <3>1, <3>4, <1>5, <1>7
  <2>2. CASE s = s0 /\ s0 \notin DOMAIN recv
    BY <2>2, <1>2, <1>5, <1>7
  <2>3. CASE s = s0 /\ s0 \in DOMAIN recv
    <3>1. heard[s0].got # {}
      BY <2>3 DEF WindowInv, HeldAsHeard
    <3>2. heard[s0].first + Length >= now
      BY <3>1, <2>3, <1>4
    <3>3. heard[s0].first \in Nat
      BY <1>1, <1>2, <1>10
    <3>4. ~(heard[s0].first + Length < now)
      BY <3>2, <3>3, <1>2
    <3>5. recv[s0] = heard[s0].first
      BY <3>4, <2>3 DEF WindowInv, HeldAsHeard
    <3> QED
      BY <3>2, <3>5, <2>3, <1>5, <1>7
  <2> QED
    BY <2>1, <2>2, <2>3
<1> QED
  BY <1>11, <1>12, <1>14, <1>15 DEF WindowInv

\* Steps that leave the window, the clock and what was heard alone.
LEMMA WindowStutter ==
  ASSUME WindowInv, UNCHANGED <<now, lastRead, samples, recv, heard>>
  PROVE  WindowInv'
BY DEF WindowInv, WindowType, HeardOnce, Comes, HeldAsHeard, FreshIsHeld

LEMMA WindowNext == WindowInv /\ [Next]_vars => WindowInv'
<1> SUFFICES ASSUME WindowInv, [Next]_vars PROVE WindowInv'
  OBVIOUS
<1>1. CASE Tick
  BY <1>1, WindowTick
<1>2. ASSUME NEW m \in Message, Read(m) PROVE WindowInv'
  BY <1>2, WindowRead
<1>3. CASE LoopSkips
  BY <1>3, PruneKeeps, WindowStutter DEF LoopSkips
<1>4. CASE LoopScores
  BY <1>4, PruneKeeps DEF LoopScores
<1>5. CASE LoopFails
  BY <1>5, PruneKeeps DEF LoopFails
<1>6. CASE Connect
  BY <1>6, WindowStutter DEF Connect
<1>7. CASE ReaderFails
  BY <1>7, WindowStutter DEF ReaderFails
<1>8. CASE LinkLost
  BY <1>8, WindowStutter DEF LinkLost
<1>9. CASE UNCHANGED vars
  BY <1>9, WindowStutter DEF vars
<1>10. CASE Restart
  <2>1. (now \in Nat)' /\ (lastRead \in [stamp: Nat, channel: Nat])'
    BY <1>10 DEF Restart, WindowInv, WindowType
  <2> QED
    BY <1>10, <2>1 DEF Restart, Empty, NothingHeard, WindowInv, WindowType, HeardOnce, HeldAsHeard, FreshIsHeld
<1> QED
  BY <1>1, <1>2, <1>3, <1>4, <1>5, <1>6, <1>7, <1>8, <1>9, <1>10 DEF Next

\* What is scored is the complete samples that began to arrive within the
\* length, over any losses, delays, outages and restarts.
THEOREM ScoredIsArrived == Spec => []WindowExact
<1>1. Spec => []WindowInv
  BY WindowInit, WindowNext, PTL DEF Spec
<1> QED
  BY <1>1, ExactFromInv, PTL

-----------------------------------------------------------------------------
\* Types of the rest.

RestType ==
  /\ scorer \in {"none", "mismatch", "match"}
  /\ conn \in {"backoff", "up", "dead"}
  /\ wake \in Nat
  /\ failures \in 0..MaxFailures

LEMMA RestNext == WindowType /\ RestType /\ [Next]_vars => RestType'
<1> SUFFICES ASSUME WindowType, RestType, [Next]_vars PROVE RestType'
  OBVIOUS
<1> USE FailuresType, TimesType DEF RestType, CountFailure
<1>1. now \in Nat /\ now + Hop \in Nat
  BY DEF WindowType
<1>2. CASE LoopSkips \/ LoopScores \/ LoopFails
  BY <1>1, <1>2 DEF LoopSkips, LoopScores, LoopFails
<1>3. CASE Connect \/ ReaderFails \/ LinkLost
  BY <1>1, <1>3 DEF Connect, ReaderFails, LinkLost
<1>4. CASE Restart
  BY <1>4 DEF Restart
<1>5. CASE UNCHANGED <<scorer, conn, wake, failures>>
  BY <1>5
<1> QED
  BY <1>2, <1>3, <1>4, <1>5 DEF Next, Tick, Read, vars

MqttType == mqtt \in BOOLEAN

LEMMA MqttNext == MqttType /\ [Next]_vars => MqttType'
<1> SUFFICES ASSUME MqttType, [Next]_vars PROVE MqttType'
  OBVIOUS
<1>1. CASE mqtt' = mqtt
  BY <1>1, Zenon DEF MqttType
<1>2. CASE (mqtt' = TRUE) \/ (mqtt' = FALSE)
  BY <1>2, Zenon DEF MqttType
<1> QED
  BY <1>1, <1>2, Zenon DEF Next, Tick, Read, LoopSkips, LoopScores, Connect, ReaderFails, LoopFails, LinkLost,
     Restart, vars

\* A score is of some samples, ends after the last that was read, and names
\* an artefact.
ScoreType == score \in Scores \union {NoScore}

LEMMA ScoreNext == WindowType /\ RestType /\ ScoreType /\ [Next]_vars => ScoreType'
<1> SUFFICES ASSUME WindowType, RestType, ScoreType, [Next]_vars PROVE ScoreType'
  OBVIOUS
<1>1. CASE LoopScores
  <2>1. ToWindow \in (SUBSET Stamps) \ {{}}
    <3>1. ToWindow \subseteq DOMAIN recv
      BY DEF ToWindow, Fresh
    <3>2. ToWindow # {}
      BY <1>1 DEF LoopScores
    <3>3. ToWindow \in SUBSET Stamps
      BY <3>1 DEF WindowType
    <3> QED
      BY <3>2, <3>3, Zenon
  <2>2. lastRead.stamp + 1 \in Nat \ {0}
    BY DEF WindowType
  <2>3. scorer \in {"mismatch", "match"}
    BY <1>1 DEF LoopScores, RestType
  <2>4. score' = [stamps |-> ToWindow, end |-> lastRead.stamp + 1, by |-> scorer]
    BY <1>1 DEF LoopScores, ScoreOf
  <2> QED
    BY <2>1, <2>2, <2>3, <2>4 DEF ScoreType, Scores
<1>2. CASE score' = score
  BY <1>2 DEF ScoreType
<1> QED
  BY <1>1, <1>2 DEF Next, Tick, Read, LoopSkips, Connect, ReaderFails, LoopFails, LinkLost, Restart, vars

\* The clock stays within the bound, and so do the times it is read.
ClockType ==
  /\ now \in 0..Horizon
  /\ lastRead \in Message \union {NothingRead}
  /\ \A s \in DOMAIN recv : recv[s] <= now
  /\ recv = [s \in DOMAIN recv |-> recv[s]]
  /\ \A s \in Stamps : heard[s].first <= now

LEMMA ClockInit == Init => ClockType
<1> SUFFICES ASSUME Init PROVE ClockType
  OBVIOUS
<1>1. DOMAIN <<>> = {} /\ <<>> = [s \in DOMAIN <<>> |-> <<>>[s]]
  OBVIOUS
<1> QED
  BY <1>1, TimesType DEF Init, Empty, NothingHeard, ClockType

LEMMA ClockNext == WindowType /\ ClockType /\ [Next]_vars => ClockType'
<1> SUFFICES ASSUME WindowType, ClockType, [Next]_vars PROVE ClockType'
  OBVIOUS
<1>0. /\ now \in Nat /\ \A s \in DOMAIN recv : recv[s] \in Nat
      /\ \A s \in Stamps : heard[s].first \in Nat
      /\ now \in 0..Horizon /\ Horizon \in Nat
  BY TimesType DEF WindowType, ClockType
<1>1. CASE Tick
  <2>1. now' = now + 1 /\ now' \in 0..Horizon /\ UNCHANGED <<lastRead, recv, heard>>
    BY <1>0, <1>1 DEF Tick
  <2>2. (\A s \in DOMAIN recv : recv[s] <= now + 1) /\ (\A s \in Stamps : heard[s].first <= now + 1)
    BY <1>0 DEF ClockType
  <2> QED
    BY <2>1, <2>2 DEF ClockType
<1>2. ASSUME NEW m \in Message, Read(m) PROVE ClockType'
  <2> DEFINE held == IF m.stamp \in DOMAIN recv THEN recv ELSE Put(recv, m.stamp, now)
  <2>1. recv' = Restrict(held, Fresh(held)) /\ now' = now /\ lastRead' = m
    BY <1>2 DEF Read, Observe
  <2>2. \A s \in DOMAIN held : held[s] <= now
    BY <1>0 DEF Put, ClockType
  <2>3. \A s \in DOMAIN recv' : recv'[s] <= now
    <3> HIDE DEF held
    <3> QED
      BY <2>1, <2>2 DEF Restrict, Fresh
  <2>4. \A s \in Stamps : heard'[s].first <= now
    <3>1. heard' = [heard EXCEPT ![m.stamp] =
                      [got |-> heard[m.stamp].got \union {m.channel},
                       first |-> IF heard[m.stamp].got = {} THEN now ELSE heard[m.stamp].first]]
      BY <1>2 DEF Read
    <3>2. \A s \in Stamps : heard'[s].first \in {now, heard[s].first}
      BY <3>1 DEF WindowType
    <3> QED
      BY <1>0, <3>2 DEF ClockType
  <2>5. recv' = [s \in DOMAIN recv' |-> recv'[s]]
    BY <2>1 DEF Restrict
  <2> QED
    BY <1>0, <2>1, <2>3, <2>4, <2>5 DEF ClockType
<1>3. CASE UNCHANGED <<now, lastRead, heard>> /\ (recv' = recv \/ Prune)
  <2>1. \A s \in DOMAIN recv' : recv'[s] <= now
    BY <1>3 DEF Prune, Restrict, Fresh, ClockType
  <2>2. recv' = [s \in DOMAIN recv' |-> recv'[s]]
    BY <1>3 DEF Prune, Restrict, ClockType
  <2> QED
    BY <1>3, <2>1, <2>2 DEF ClockType
<1>4. CASE Restart
  <2>1. /\ UNCHANGED <<now, lastRead>> /\ recv' = <<>> /\ DOMAIN <<>> = {}
        /\ \A s \in Stamps : heard'[s].first = 0
    BY <1>4 DEF Restart, Empty, NothingHeard
  <2>2. <<>> = [s \in DOMAIN <<>> |-> <<>>[s]]
    OBVIOUS
  <2> QED
    BY <1>0, <2>1, <2>2 DEF ClockType
<1> QED
  BY <1>1, <1>2, <1>3, <1>4 DEF Next, LoopSkips, LoopScores, Connect, ReaderFails, LoopFails, LinkLost, vars

\* Every variable stays within its type.
THEOREM ScoringTypes == Spec => []TypeOK
<1>1. Spec => [](WindowInv /\ WindowType)
  <2>1. WindowInv => WindowType
    BY DEF WindowInv
  <2> QED
    BY <2>1, WindowInit, WindowNext, PTL DEF Spec
<1>2. Init => RestType /\ MqttType /\ ScoreType
  <2> SUFFICES ASSUME Init PROVE RestType /\ MqttType /\ ScoreType
    OBVIOUS
  <2>1. MqttType
    BY Zenon DEF Init, MqttType
  <2>2. RestType /\ ScoreType
    BY FailuresType DEF Init, RestType, ScoreType
  <2> QED
    BY <2>1, <2>2
<1>3. Spec => []RestType
  BY <1>1, <1>2, RestNext, PTL DEF Spec
<1>4. Spec => []MqttType
  BY <1>2, MqttNext, PTL DEF Spec
<1>5. Spec => []ScoreType
  BY <1>1, <1>2, <1>3, ScoreNext, PTL DEF Spec
<1>6. Spec => []ClockType
  BY <1>1, ClockInit, ClockNext, PTL DEF Spec
<1>7. WindowType /\ RestType /\ MqttType /\ ScoreType /\ ClockType => TypeOK
  <2> SUFFICES ASSUME WindowType, RestType, MqttType, ScoreType, ClockType PROVE TypeOK
    OBVIOUS
  <2>1. recv \in [DOMAIN samples -> 0..Horizon]
    <3>1. \A s \in DOMAIN recv : recv[s] \in 0..Horizon
      BY TimesType DEF WindowType, ClockType
    <3>2. DOMAIN samples = DOMAIN recv
      BY DEF WindowType
    <3> QED
      BY <3>1, <3>2 DEF ClockType
  <2>2. heard \in [Stamps -> [got: SUBSET Channels, first: 0..Horizon]]
    <3>1. \A s \in Stamps : heard[s].first \in 0..Horizon /\ heard[s] \in [got: SUBSET Channels, first: Nat]
      BY TimesType DEF WindowType, ClockType
    <3>2. \A s \in Stamps : heard[s] \in [got: SUBSET Channels, first: 0..Horizon]
      BY <3>1
    <3> QED
      BY <3>2 DEF WindowType
  <2>3. mqtt \in BOOLEAN
    BY Zenon DEF MqttType
  <2> QED
    BY <2>1, <2>2, <2>3 DEF TypeOK, WindowType, RestType, ScoreType, ClockType
<1> QED
  BY <1>1, <1>3, <1>4, <1>5, <1>6, <1>7, PTL
=============================================================================
