------------------------- MODULE FaultInjectorProofs -------------------------
(***************************************************************************)
(* FaultInjector's invariant, and that it implements LabelStream, for any  *)
(* commands, durations, heartbeat period and bounds.                       *)
(***************************************************************************)
EXTENDS FaultInjector, TLAPS

-----------------------------------------------------------------------------
\* Sequences of labels: what growing one, cutting one short and looking at its
\* last label only preserve and imply.

\* Appending a label that fits keeps a sequence of labels readable.
LEMMA AppendKeeps ==
  ASSUME NEW s \in Seq(Label), NEW l \in Label, WellFormed(s), Fits(s, l)
  PROVE  Append(s, l) \in Seq(Label) /\ WellFormed(Append(s, l))
<1> DEFINE t == Append(s, l)
           n == Len(s) + 1
<1>1. t \in Seq(Label)
  OBVIOUS
<1>2. /\ DOMAIN t \subseteq Nat /\ DOMAIN s \subseteq Nat /\ n \in Nat
      /\ \A i \in DOMAIN t : (i \in DOMAIN s /\ i < n /\ t[i] = s[i]) \/ (i = n /\ t[i] = l)
      /\ \A i \in DOMAIN t : i <= n
  OBVIOUS
<1> HIDE DEF t, n
<1>3. StampsOrdered(t)
  BY <1>2 DEF WellFormed, StampsOrdered, Fits
<1>4. StartIsFact(t)
  BY <1>2 DEF WellFormed, StartIsFact, Fits
<1>5. ClosedForGood(t)
  BY <1>2 DEF WellFormed, ClosedForGood, Fits
<1>6. IntervalsDisjoint(t)
  BY <1>2 DEF WellFormed, IntervalsDisjoint, Fits
<1>7. Contiguous(t)
  BY <1>2 DEF WellFormed, Contiguous, Fits
<1>8. QED
  BY <1>1, <1>3, <1>4, <1>5, <1>6, <1>7 DEF WellFormed, t

\* A prefix of a readable sequence is readable.
LEMMA PrefixKeeps ==
  ASSUME NEW s \in Seq(Label), NEW n \in 0..Len(s), WellFormed(s)
  PROVE  SubSeq(s, 1, n) \in Seq(Label) /\ WellFormed(SubSeq(s, 1, n))
<1> DEFINE t == SubSeq(s, 1, n)
<1>1. t \in Seq(Label) /\ Len(t) = n
  OBVIOUS
<1>2. /\ DOMAIN t = 1..n /\ DOMAIN s = 1..Len(s)
      /\ \A i \in DOMAIN t : i \in DOMAIN s /\ t[i] = s[i]
  OBVIOUS
<1> HIDE DEF t
<1>3. WellFormed(t)
  BY <1>2 DEF WellFormed, StampsOrdered, StartIsFact, ClosedForGood, IntervalsDisjoint,
              Contiguous
<1>4. QED
  BY <1>1, <1>3 DEF t

\* In a readable sequence each label is admissible after those before it.
LEMMA PrefixAdmits ==
  ASSUME NEW s \in Seq(Label), NEW n \in Nat, n < Len(s), WellFormed(s)
  PROVE  Admissible(SubSeq(s, 1, n), s[n + 1])
<1> DEFINE t == SubSeq(s, 1, n)
           l == s[n + 1]
<1>1. /\ DOMAIN t = 1..n /\ DOMAIN s = 1..Len(s) /\ Len(t) = n
      /\ \A i \in DOMAIN t : i \in DOMAIN s /\ t[i] = s[i]
      /\ t # <<>> <=> n > 0
  OBVIOUS
<1>2. n + 1 \in DOMAIN s /\ \A i \in DOMAIN s : s[i] \in Label
  OBVIOUS
<1>3. l.started <= l.stamp
  BY <1>2 DEF WellFormed, StartIsFact
<1>4. CASE n > 0 /\ s[n].id = l.id
  <2>1. Continues(t, l)
    BY <1>1, <1>2, <1>4 DEF Continues, WellFormed, StampsOrdered, StartIsFact, ClosedForGood
  <2>2. QED
    BY <1>1, <1>3, <1>4, <2>1 DEF Admissible
<1>5. CASE n = 0 \/ s[n].id # l.id
  <2>1. l.id \notin Ids(t)
    <3>1. SUFFICES ASSUME NEW i \in DOMAIN t, t[i].id = l.id
                   PROVE  FALSE
      BY DEF Ids
    <3>2. i \in 1..n /\ n > 0 /\ s[i].id = l.id
      BY <1>1, <3>1
    <3>3. i < n /\ i \in DOMAIN s /\ n \in DOMAIN s
      BY <1>1, <1>5, <3>2
    <3>4. s[n].id = s[i].id
      BY <1>2, <3>2, <3>3 DEF WellFormed, Contiguous
    <3>5. QED
      BY <1>5, <3>2, <3>4
  <2>2. n > 0 => s[n].stamp <= l.started
    BY <1>1, <1>2, <1>5 DEF WellFormed, IntervalsDisjoint
  <2>3. QED
    BY <1>1, <1>3, <2>1, <2>2 DEF Admissible, Opens
<1>6. QED
  BY <1>4, <1>5

\* The ids a sequence mentions, when it grows.
LEMMA IdsOfAppend ==
  ASSUME NEW s \in Seq(Label), NEW l \in Label
  PROVE  Ids(Append(s, l)) = Ids(s) \union {l.id}
<1>1. /\ Len(s) + 1 \in DOMAIN Append(s, l) /\ Append(s, l)[Len(s) + 1] = l
      /\ \A i \in DOMAIN s : i \in DOMAIN Append(s, l) /\ Append(s, l)[i] = s[i]
      /\ \A i \in DOMAIN Append(s, l) : i \in DOMAIN s \/ i = Len(s) + 1
  OBVIOUS
<1>2. QED
  BY <1>1, Zenon DEF Ids

\* A label that fits a sequence fits its prefixes.
LEMMA PrefixFits ==
  ASSUME NEW s \in Seq(Label), NEW n \in 0..Len(s), NEW l \in Label, Fits(s, l)
  PROVE  Fits(SubSeq(s, 1, n), l)
<1>1. \A i \in DOMAIN SubSeq(s, 1, n) : i \in DOMAIN s /\ SubSeq(s, 1, n)[i] = s[i]
  OBVIOUS
<1>2. QED
  BY <1>1 DEF Fits

\* What the running fault says later fits as well, whether or not it has
\* said l in between.
LEMMA LaterFits ==
  ASSUME NEW s \in Seq(Label), NEW l \in Label, NEW m \in Label, Fits(s, l),
         m.id = l.id, m.started = l.started, l.stamp <= m.stamp
  PROVE  Fits(s, m) /\ (l.active => Fits(Append(s, l), m))
<1>1. \A i \in DOMAIN s : s[i].stamp \in Nat
  <2>1. \A i \in DOMAIN s : s[i] \in Label
    OBVIOUS
  <2>2. QED
    BY <2>1 DEF Label
<1>2. Fits(s, m)
  BY <1>1 DEF Fits, Label
<1>3. ASSUME l.active
      PROVE  Fits(Append(s, l), m)
  <2> DEFINE t == Append(s, l)
             n == Len(s) + 1
  <2>1. /\ DOMAIN t \subseteq Nat /\ DOMAIN s \subseteq Nat /\ n \in Nat
        /\ \A i \in DOMAIN t : (i \in DOMAIN s /\ i < n /\ t[i] = s[i]) \/ (i = n /\ t[i] = l)
        /\ \A i \in DOMAIN t : i <= n
    OBVIOUS
  <2> HIDE DEF t, n
  <2>2. Fits(t, m)
    BY <1>2, <1>3, <2>1 DEF Fits
  <2>3. QED
    BY <2>2 DEF t
<1>4. QED
  BY <1>2, <1>3

-----------------------------------------------------------------------------
\* The label stream.

USE DurationType, NoneIsNoCommand, PeriodType, BoundsType, MessagesDiffer

\* What IInv says of the label stream and the running fault, without the
\* commands that wait.
StreamInv ==
  /\ now \in Nat /\ session \in Session /\ issued \subseteq Commands
  /\ stream \in Seq(Label)
  /\ WellFormed(stream)
  /\ LabelsArePast
  /\ SessionFits

-----------------------------------------------------------------------------
\* The labels of an active session are labels.
LEMMA SessionLabels ==
  ASSUME now \in Nat, session \in Session, Active(session)
  PROVE  /\ session.command \in Commands
         /\ ActiveLabel(session, now) \in Label
         /\ ClosingLabel(session, now) \in Label
  BY DEF Session, Active, ActiveLabel, ClosingLabel, Label

\* Ending a fault, by either task: the closing label, if it is published,
\* is the last the stream says of the experiment.
LEMMA EndFault ==
  ASSUME StreamInv, Active(session),
         session' = Cleared(session), Publish(ClosingLabel(session, now)),
         UNCHANGED <<now, issued>>
  PROVE  /\ StreamInv' /\ ~Active(session)'
         /\ Len(stream') >= Len(stream)
         /\ \A c : Fresh(c) => Fresh(c)'
<1> DEFINE l == ClosingLabel(session, now)
<1>1. /\ l \in Label /\ l.id = session.command /\ l.stamp = now
      /\ Fits(stream, l) /\ l.id \in issued
  BY SessionLabels DEF StreamInv, SessionFits, ActiveLabel, ClosingLabel, Fits
<1>2. session' \in Session /\ session'.command = None
  BY DEF Session, Cleared, StreamInv
<1>3. CASE stream' = stream
  <2>1. Ids(stream)' = Ids(stream)
    BY <1>3 DEF Ids
  <2>2. \A c : Fresh(c) => Fresh(c)'
    BY <1>2, <2>1 DEF Fresh, StreamInv
  <2>3. ~Active(session)'
    BY <1>2 DEF Active
  <2>4. QED
    BY <1>2, <1>3, <2>2, <2>3 DEF StreamInv, LabelsArePast, SessionFits
<1>4. CASE stream' = Append(stream, l)
  <2>1. stream' \in Seq(Label) /\ WellFormed(stream')
    BY <1>1, <1>4, AppendKeeps DEF StreamInv
  <2>2. LabelsArePast'
    BY <1>1, <1>4 DEF StreamInv, LabelsArePast
  <2>3. Ids(stream') = Ids(stream) \union {session.command}
    BY <1>1, <1>4, IdsOfAppend DEF StreamInv
  <2>4. \A c : Fresh(c) => Fresh(c)'
    <3>1. Ids(stream)' = Ids(stream) \union {session.command}
      BY <2>3 DEF Ids
    <3>2. QED
      BY <1>2, <3>1 DEF Fresh, StreamInv
  <2>5. QED
    BY <1>2, <1>4, <2>1, <2>2, <2>4 DEF StreamInv, SessionFits, Active
<1>5. QED
  BY <1>3, <1>4 DEF Publish

\* Starting a fault on an idle session, with a command not heard of before.
LEMMA BeginFault ==
  ASSUME StreamInv, ~Active(session), NEW cmd \in Commands, Fresh(cmd),
         session' = Activated(session, cmd, now),
         Publish(ActiveLabel(Activated(session, cmd, now), now)),
         UNCHANGED <<now, issued>>
  PROVE  /\ StreamInv'
         /\ Len(stream') >= Len(stream)
         /\ \A c : Fresh(c) /\ c # cmd => Fresh(c)'
<1> DEFINE l == ActiveLabel(Activated(session, cmd, now), now)
<1>1. /\ l \in Label /\ l.id = cmd /\ l.stamp = now /\ l.started = now /\ l.active
      /\ l.id \in issued
  BY DEF StreamInv, ActiveLabel, Activated, Label, Fresh
<1>2. session' \in Session /\ session'.command = cmd /\ ActiveLabel(session, now)' = l
  BY DEF StreamInv, Session, Activated, ActiveLabel
<1>3. Fits(stream, l)
  <2>1. \A i \in DOMAIN stream : stream[i].id # cmd /\ stream[i].stamp <= now
    BY DEF Fresh, Ids, StreamInv, LabelsArePast
  <2>2. QED
    BY <1>1, <2>1 DEF Fits, Label
<1>4. CASE stream' = stream
  <2>1. Ids(stream)' = Ids(stream)
    BY <1>4 DEF Ids
  <2>2. SessionFits'
    BY <1>1, <1>2, <1>3, <1>4 DEF SessionFits
  <2>3. QED
    BY <1>2, <1>4, <2>1, <2>2 DEF StreamInv, LabelsArePast, Fresh
<1>5. CASE stream' = Append(stream, l)
  <2>1. stream' \in Seq(Label) /\ WellFormed(stream')
    BY <1>1, <1>3, <1>5, AppendKeeps DEF StreamInv
  <2>2. LabelsArePast'
    BY <1>1, <1>5 DEF StreamInv, LabelsArePast
  <2>3. Fits(stream', l)
    <3>1. l.stamp <= l.stamp
      BY <1>1 DEF Label
    <3>2. QED
      BY <1>1, <1>3, <1>5, <3>1, LaterFits DEF StreamInv
  <2>4. SessionFits'
    BY <1>1, <1>2, <2>3 DEF SessionFits
  <2>5. Ids(stream)' = Ids(stream) \union {cmd}
    BY <1>1, <1>5, IdsOfAppend DEF StreamInv, Ids
  <2>6. QED
    BY <1>2, <1>5, <2>1, <2>2, <2>4, <2>5 DEF StreamInv, Fresh
<1>6. QED
  BY <1>4, <1>5 DEF Publish

\* A heartbeat.
LEMMA Beat ==
  ASSUME StreamInv, Active(session), Publish(ActiveLabel(session, now)),
         UNCHANGED <<now, session, issued>>
  PROVE  /\ StreamInv'
         /\ Len(stream') >= Len(stream)
         /\ \A c : Fresh(c) => Fresh(c)'
<1> DEFINE l == ActiveLabel(session, now)
<1>1. /\ l \in Label /\ l.id = session.command /\ l.stamp = now /\ l.active
      /\ Fits(stream, l) /\ l.id \in issued
  BY SessionLabels DEF StreamInv, SessionFits, ActiveLabel
<1>2. ActiveLabel(session, now)' = l /\ Active(session)'
  BY DEF ActiveLabel, Active
<1>3. CASE stream' = stream
  BY <1>2, <1>3 DEF StreamInv, LabelsArePast, SessionFits, Fresh, Ids
<1>4. CASE stream' = Append(stream, l)
  <2>1. stream' \in Seq(Label) /\ WellFormed(stream')
    BY <1>1, <1>4, AppendKeeps DEF StreamInv
  <2>2. LabelsArePast'
    BY <1>1, <1>4 DEF StreamInv, LabelsArePast
  <2>3. Fits(stream', l)
    <3>1. l.stamp <= l.stamp
      BY <1>1 DEF Label
    <3>2. QED
      BY <1>1, <1>4, <3>1, LaterFits DEF StreamInv
  <2>4. SessionFits'
    BY <1>1, <1>2, <2>3 DEF SessionFits
  <2>5. Ids(stream)' = Ids(stream) \union {session.command}
    BY <1>1, <1>4, IdsOfAppend DEF StreamInv, Ids
  <2>6. QED
    BY <1>4, <2>1, <2>2, <2>4, <2>5 DEF StreamInv, Fresh
<1>5. QED
  BY <1>3, <1>4 DEF Publish

\* The labels that were on their way are lost.
LEMMA Cut ==
  ASSUME StreamInv, received \in 0..Len(stream), LoseUnsent,
         UNCHANGED <<now, session, issued>>
  PROVE  /\ StreamInv' /\ Len(stream') = received
         /\ \A c : Fresh(c) => Fresh(c)'
<1>1. /\ stream' \in Seq(Label) /\ WellFormed(stream') /\ Len(stream') = received
      /\ \A i \in DOMAIN stream' : i \in DOMAIN stream /\ stream'[i] = stream[i]
  BY PrefixKeeps DEF LoseUnsent, Wire, StreamInv
<1>2. LabelsArePast'
  BY <1>1 DEF StreamInv, LabelsArePast
<1>3. SessionFits'
  <2>1. ASSUME Active(session)
        PROVE  session.command \in issued /\ Fits(stream', ActiveLabel(session, now))
    BY <2>1, SessionLabels, PrefixFits DEF StreamInv, SessionFits, LoseUnsent, Wire
  <2>2. Active(session)' = Active(session) /\ ActiveLabel(session, now)' = ActiveLabel(session, now)
    BY DEF Active, ActiveLabel
  <2>3. QED
    BY <2>1, <2>2 DEF SessionFits
<1>4. Ids(stream)' \subseteq Ids(stream)
  BY <1>1 DEF Ids
<1>5. QED
  BY <1>1, <1>2, <1>3, <1>4 DEF StreamInv, Fresh

-----------------------------------------------------------------------------
\* TypeOK and CommandsAreNew, like StreamInv, step by step.

LEMMA IInvParts == IInv <=> TypeOK /\ StreamInv /\ CommandsAreNew
  BY DEF IInv, TypeOK, StreamInv

\* Fresh commands stay so while the tasks' queue and hands are unchanged.
LEMMA WaitingStayNew ==
  ASSUME TypeOK, CommandsAreNew, \A c : Fresh(c) => Fresh(c)',
         ~Active(session)' \/ session' = session,
         UNCHANGED <<inbox, listener>>
  PROVE  CommandsAreNew'
<1>1. \A i \in DOMAIN inbox : inbox[i] \in Commands => Fresh(inbox[i])'
  BY DEF CommandsAreNew
<1>2. listener.at = "closing" => ~Active(session)'
  BY DEF CommandsAreNew, Active
<1>3. listener.cmd \in Commands /\ listener.at = "closing" => Fresh(listener.cmd)'
  BY DEF CommandsAreNew
<1>4. QED
  BY <1>1, <1>2, <1>3 DEF CommandsAreNew

\* The listener takes the message at the head of the inbox.
LEMMA InboxTail ==
  ASSUME TypeOK, inbox # <<>>
  PROVE  /\ Head(inbox) \in Messages /\ Head(inbox) = inbox[1] /\ 1 \in DOMAIN inbox
         /\ Tail(inbox) \in Seq(Messages)
         /\ DOMAIN inbox \subseteq Nat
         /\ \A i \in DOMAIN Tail(inbox) :
              i \in Nat /\ i + 1 \in DOMAIN inbox /\ i + 1 # 1 /\ Tail(inbox)[i] = inbox[i + 1]
<1>1. inbox \in Seq(Messages)
  BY DEF TypeOK
<1>2. QED
  BY <1>1

\* What CommandsAreNew says of the inbox, for the messages behind the head.
LEMMA TailIsNew ==
  ASSUME TypeOK, CommandsAreNew, inbox # <<>>
  PROVE  \A i \in DOMAIN Tail(inbox) :
           Tail(inbox)[i] \in Commands =>
             /\ Fresh(Tail(inbox)[i])
             /\ Tail(inbox)[i] # Head(inbox)
             /\ \A j \in DOMAIN Tail(inbox) : Tail(inbox)[j] = Tail(inbox)[i] => j = i
<1>1. SUFFICES ASSUME NEW i \in DOMAIN Tail(inbox), Tail(inbox)[i] \in Commands
               PROVE  /\ Fresh(Tail(inbox)[i])
                      /\ Tail(inbox)[i] # Head(inbox)
                      /\ \A j \in DOMAIN Tail(inbox) : Tail(inbox)[j] = Tail(inbox)[i] => j = i
  OBVIOUS
<1>2. i + 1 \in DOMAIN inbox /\ inbox[i + 1] = Tail(inbox)[i]
  BY InboxTail
<1>3. Fresh(inbox[i + 1]) /\ \A k \in DOMAIN inbox : inbox[k] = inbox[i + 1] => k = i + 1
  BY <1>1, <1>2 DEF CommandsAreNew
<1>4. Tail(inbox)[i] # Head(inbox)
  BY <1>2, <1>3, InboxTail
<1>5. ASSUME NEW j \in DOMAIN Tail(inbox), Tail(inbox)[j] = Tail(inbox)[i]
      PROVE  j = i
  BY <1>2, <1>3, <1>5, InboxTail
<1>6. QED
  BY <1>2, <1>3, <1>4, <1>5

-----------------------------------------------------------------------------
\* The whole invariant, one action or group of actions at a time.

LEMMA InitIInv == Init => IInv
<1> SUFFICES ASSUME Init PROVE IInv
  OBVIOUS
<1>1. TypeOK
  BY DEF Init, TypeOK, Session, NewSession, WaitingListener, SleepingBeater
<1>2. WellFormed(stream)
  BY DEF Init, WellFormed, StampsOrdered, StartIsFact, ClosedForGood, IntervalsDisjoint,
         Contiguous
<1>3. LabelsArePast /\ SessionFits /\ CommandsAreNew
  BY DEF Init, LabelsArePast, SessionFits, CommandsAreNew, Active, NewSession, WaitingListener
<1>4. QED
  BY <1>1, <1>2, <1>3 DEF IInv

LEMMA TickIInv == IInv /\ Tick => IInv'
<1> SUFFICES ASSUME IInv, Tick PROVE IInv'
  OBVIOUS
<1>1. TypeOK'
  BY DEF IInv, Tick, TypeOK
<1>2. WellFormed(stream)' /\ LabelsArePast'
  <2>1. WellFormed(stream') /\ \A i \in DOMAIN stream : stream[i].stamp \in Nat
    <3>1. \A i \in DOMAIN stream : stream[i] \in Label
      BY DEF IInv, TypeOK
    <3>2. QED
      BY <3>1 DEF IInv, Tick, Label
  <2>2. LabelsArePast'
    BY <2>1 DEF IInv, TypeOK, Tick, LabelsArePast
  <2>3. WellFormed(stream)'
    BY DEF IInv, Tick, WellFormed, StampsOrdered, StartIsFact, ClosedForGood,
           IntervalsDisjoint, Contiguous
  <2>4. QED
    BY <2>2, <2>3
<1>3. SessionFits'
  <2>1. ASSUME Active(session)
        PROVE  Fits(stream, ActiveLabel(session, now + 1))
    <3> DEFINE l == ActiveLabel(session, now)
               m == ActiveLabel(session, now + 1)
    <3>1. l \in Label /\ Fits(stream, l)
      BY <2>1, SessionLabels DEF IInv, TypeOK, SessionFits
    <3>2. m \in Label /\ m.id = l.id /\ m.started = l.started /\ l.stamp <= m.stamp
      BY <2>1 DEF IInv, TypeOK, Session, Active, ActiveLabel, Label
    <3>3. QED
      BY <3>1, <3>2, LaterFits DEF IInv, TypeOK
  <2>2. ActiveLabel(session, now)' = ActiveLabel(session, now + 1) /\ Active(session)' = Active(session)
    BY DEF Tick, ActiveLabel, Active
  <2>3. QED
    BY <2>1, <2>2 DEF IInv, Tick, SessionFits
<1>4. CommandsAreNew'
  <2>1. \A c : Fresh(c) => Fresh(c)'
    BY DEF Tick, Fresh, Ids
  <2>2. QED
    BY <2>1, WaitingStayNew DEF IInv, Tick
<1>5. QED
  BY <1>1, <1>2, <1>3, <1>4 DEF IInv

\* The steps that touch neither the session, nor the labels, nor the commands.
LEMMA QuietIInv ==
  ASSUME IInv, TypeOK', CommandsAreNew', UNCHANGED <<now, session, issued, stream>>
  PROVE  IInv'
<1>1. StreamInv
  BY DEF IInv, StreamInv, TypeOK
<1>2. ActiveLabel(session, now)' = ActiveLabel(session, now) /\ Active(session)' = Active(session)
  BY DEF ActiveLabel, Active
<1>3. WellFormed(stream)' /\ LabelsArePast' /\ SessionFits'
  BY <1>1, <1>2 DEF StreamInv, LabelsArePast, SessionFits, WellFormed, StampsOrdered, StartIsFact,
                    ClosedForGood, IntervalsDisjoint, Contiguous
<1>4. QED
  BY <1>3 DEF IInv

\* Nobody loses a claim to freshness when session, labels and ids are as before.
LEMMA QuietFresh ==
  ASSUME UNCHANGED <<session, stream>>, issued \subseteq issued'
  PROVE  \A c : Fresh(c) => Fresh(c)'
  BY DEF Fresh, Ids

\* Delivery is where freshness comes from: each command arrives only once.
LEMMA DeliverIInv ==
  ASSUME IInv, NEW m \in Messages, Deliver(m)
  PROVE  IInv'
<1>1. TypeOK'
  BY DEF IInv, TypeOK, Deliver
<1>2. /\ inbox' \in Seq(Messages) /\ DOMAIN inbox \subseteq Nat
      /\ \A i \in DOMAIN inbox' : (i \in DOMAIN inbox /\ inbox'[i] = inbox[i])
                                  \/ (i = Len(inbox) + 1 /\ inbox'[i] = m)
  BY DEF IInv, TypeOK, Deliver
<1>3. \A c : Fresh(c) => Fresh(c)'
  BY QuietFresh DEF Deliver
<1>4. m \in Commands => Fresh(m)'
  BY DEF Deliver, Fresh, IInv, StreamInv, LabelsArePast, SessionFits, Ids, Active, TypeOK
<1>5. \A i \in DOMAIN inbox : inbox[i] \in Commands => Fresh(inbox[i]) /\ inbox[i] # m
  BY DEF Deliver, IInv, CommandsAreNew, Fresh
<1>6. (\A i \in DOMAIN inbox :
         inbox[i] \in Commands =>
           Fresh(inbox[i]) /\ \A j \in DOMAIN inbox : inbox[j] = inbox[i] => j = i)'
  <2>1. SUFFICES ASSUME NEW i \in DOMAIN inbox', inbox'[i] \in Commands
                 PROVE  /\ Fresh(inbox[i])'
                        /\ \A j \in DOMAIN inbox' : inbox'[j] = inbox'[i] => j = i
    OBVIOUS
  <2>2. Fresh(inbox[i])'
    BY <1>2, <1>3, <1>4, <1>5, <2>1 DEF Fresh
  <2>3. ASSUME NEW j \in DOMAIN inbox', inbox'[j] = inbox'[i]
        PROVE  j = i
    BY <1>2, <1>5, <2>1, <2>3 DEF IInv, CommandsAreNew
  <2>4. QED
    BY <2>2, <2>3
<1>7. (listener.at = "closing" =>
         /\ ~Active(session)
         /\ listener.cmd \in Commands \union {Clear}
         /\ listener.cmd \in Commands =>
              Fresh(listener.cmd) /\ \A i \in DOMAIN inbox : inbox[i] # listener.cmd)'
  <2>1. SUFFICES ASSUME listener.at = "closing"
                 PROVE  /\ ~Active(session)
                        /\ listener.cmd \in Commands \union {Clear}
                        /\ listener.cmd \in Commands =>
                             /\ Fresh(listener.cmd)'
                             /\ \A i \in DOMAIN inbox' : inbox'[i] # listener.cmd
    BY DEF Deliver, Active
  <2>2. ASSUME listener.cmd \in Commands
        PROVE  /\ Fresh(listener.cmd)'
               /\ \A i \in DOMAIN inbox' : inbox'[i] # listener.cmd
    <3>1. Fresh(listener.cmd) /\ \A i \in DOMAIN inbox : inbox[i] # listener.cmd
      BY <2>1, <2>2 DEF IInv, CommandsAreNew
    <3>2. listener.cmd # m
      BY <3>1 DEF Fresh, Deliver
    <3>3. Fresh(listener.cmd)'
      BY <1>3, <3>1 DEF Fresh, Deliver
    <3>4. QED
      BY <1>2, <3>1, <3>2, <3>3
  <2>3. QED
    BY <2>1, <2>2 DEF IInv, CommandsAreNew
<1>8. CommandsAreNew'
  BY <1>6, <1>7 DEF CommandsAreNew
<1>9. WellFormed(stream)' /\ LabelsArePast' /\ SessionFits'
  <2>1. ActiveLabel(session, now)' = ActiveLabel(session, now) /\ Active(session)' = Active(session)
    BY DEF ActiveLabel, Active, Deliver
  <2>2. WellFormed(stream)'
    BY DEF IInv, Deliver, WellFormed, StampsOrdered, StartIsFact, ClosedForGood,
           IntervalsDisjoint, Contiguous
  <2>3. QED
    BY <2>1, <2>2 DEF IInv, Deliver, LabelsArePast, SessionFits
<1>10. QED
  BY <1>1, <1>8, <1>9 DEF IInv

\* The listener has taken the head of the inbox; what is behind it stays new,
\* unless it is the command that has just had its turn.
LEMMA TakenHead ==
  ASSUME TypeOK, CommandsAreNew, inbox # <<>>, inbox' = Tail(inbox),
         \A c : Fresh(c) /\ c # Head(inbox) => Fresh(c)',
         \/ listener'.at # "closing"
         \/ /\ ~Active(session)' /\ listener'.cmd = Head(inbox) /\ Head(inbox) # Invalid
            /\ \A c : Fresh(c) => Fresh(c)'
  PROVE  CommandsAreNew'
<1>1. (\A i \in DOMAIN inbox :
         inbox[i] \in Commands =>
           Fresh(inbox[i]) /\ \A j \in DOMAIN inbox : inbox[j] = inbox[i] => j = i)'
  BY TailIsNew DEF Fresh
<1>2. ASSUME listener'.at = "closing"
      PROVE  (/\ ~Active(session)
              /\ listener.cmd \in Commands \union {Clear}
              /\ listener.cmd \in Commands =>
                   Fresh(listener.cmd) /\ \A i \in DOMAIN inbox : inbox[i] # listener.cmd)'
  <2>1. ~Active(session)' /\ listener'.cmd = Head(inbox) /\ Head(inbox) \in Commands \union {Clear}
    BY <1>2, InboxTail DEF Messages
  <2>2. ASSUME Head(inbox) \in Commands
        PROVE  Fresh(listener.cmd)' /\ \A i \in DOMAIN inbox' : inbox'[i] # listener'.cmd
    <3>1. Fresh(Head(inbox))
      BY <2>2, InboxTail DEF CommandsAreNew
    <3>2. Fresh(listener.cmd)'
      BY <1>2, <2>1, <3>1 DEF Fresh
    <3>3. \A i \in DOMAIN inbox' : inbox'[i] # listener'.cmd
      BY <2>1, <2>2, TailIsNew
    <3>4. QED
      BY <3>2, <3>3
  <2>3. QED
    BY <2>1, <2>2
<1>3. QED
  BY <1>1, <1>2 DEF CommandsAreNew

\* The two branches of StartFault: a clear has nothing left to do ...
LEMMA StartNothing ==
  ASSUME IInv, StartFault(Clear), UNCHANGED <<now, issued>>
  PROVE  /\ StreamInv' /\ Len(stream') >= Len(stream)
         /\ listener' = WaitingListener
         /\ \A c : Fresh(c) => Fresh(c)'
<1>1. listener' = WaitingListener /\ UNCHANGED <<session, stream>>
  BY DEF StartFault
<1>2. ActiveLabel(session, now)' = ActiveLabel(session, now) /\ Active(session)' = Active(session)
  BY <1>1 DEF ActiveLabel, Active
<1>3. StreamInv'
  BY <1>1, <1>2 DEF IInv, TypeOK, StreamInv, LabelsArePast, SessionFits, WellFormed,
                    StampsOrdered, StartIsFact, ClosedForGood, IntervalsDisjoint, Contiguous
<1>4. QED
  BY <1>1, <1>3, QuietFresh DEF IInv, TypeOK

\* ... and a fault command starts its fault.
LEMMA StartCommand ==
  ASSUME IInv, NEW cmd \in Commands, StartFault(cmd), ~Active(session), Fresh(cmd),
         UNCHANGED <<now, issued>>
  PROVE  /\ StreamInv' /\ Len(stream') >= Len(stream)
         /\ listener' = [at |-> "opening", cmd |-> cmd, seq |-> Len(stream) + 1]
         /\ \A c : Fresh(c) /\ c # cmd => Fresh(c)'
<1>1. cmd # Clear
  OBVIOUS
<1>2. StreamInv
  BY IInvParts
<1>3. QED
  BY <1>1, <1>2, BeginFault DEF StartFault

LEMMA ListenerIInv == IInv /\ Listener => IInv'
<1> SUFFICES ASSUME IInv, Listener PROVE IInv'
  OBVIOUS
<1> USE IInvParts
<1>1. CASE ListenerSkips
  <2>1. TypeOK'
    BY <1>1, InboxTail DEF ListenerSkips, TypeOK
  <2>2. \A c : Fresh(c) => Fresh(c)'
    BY <1>1, QuietFresh DEF ListenerSkips
  <2>3. CommandsAreNew'
    BY <1>1, <2>2, TakenHead DEF ListenerSkips
  <2>4. QED
    BY <1>1, <2>1, <2>3, QuietIInv DEF ListenerSkips
<1>2. CASE ListenerEndsFault
  <2>1. /\ StreamInv' /\ ~Active(session)' /\ Len(stream') >= Len(stream)
        /\ \A c : Fresh(c) => Fresh(c)'
    BY <1>2, EndFault DEF ListenerEndsFault
  <2>2. TypeOK'
    BY <1>2, <2>1, InboxTail DEF ListenerEndsFault, TypeOK, StreamInv
  <2>3. CommandsAreNew'
    BY <1>2, <2>1, TakenHead DEF ListenerEndsFault
  <2>4. QED
    BY <2>1, <2>2, <2>3 DEF IInv, StreamInv
<1>3. CASE ListenerStartsFault
  <2>1. Head(inbox) \in Commands \union {Clear}
    BY <1>3, InboxTail DEF ListenerStartsFault, Messages
  <2>2. CASE Head(inbox) = Clear
    <3>1. /\ StreamInv' /\ Len(stream') >= Len(stream) /\ listener' = WaitingListener
          /\ \A c : Fresh(c) => Fresh(c)'
      BY <1>3, <2>2, StartNothing DEF ListenerStartsFault
    <3>2. TypeOK'
      BY <1>3, <3>1, InboxTail DEF ListenerStartsFault, TypeOK, StreamInv, WaitingListener
    <3>3. CommandsAreNew'
      BY <1>3, <3>1, TakenHead DEF ListenerStartsFault, WaitingListener
    <3>4. QED
      BY <3>1, <3>2, <3>3 DEF IInv, StreamInv
  <2>3. CASE Head(inbox) \in Commands
    <3>1. Fresh(Head(inbox))
      BY <1>3, <2>3, InboxTail DEF ListenerStartsFault, CommandsAreNew
    <3>2. /\ StreamInv' /\ Len(stream') >= Len(stream)
          /\ listener' = [at |-> "opening", cmd |-> Head(inbox), seq |-> Len(stream) + 1]
          /\ \A c : Fresh(c) /\ c # Head(inbox) => Fresh(c)'
      BY <1>3, <2>3, <3>1, StartCommand DEF ListenerStartsFault
    <3>3. TypeOK'
      BY <1>3, <3>2, InboxTail DEF ListenerStartsFault, TypeOK, StreamInv
    <3>4. CommandsAreNew'
      BY <1>3, <3>2, TakenHead DEF ListenerStartsFault
    <3>5. QED
      BY <3>2, <3>3, <3>4 DEF IInv, StreamInv
  <2>4. QED
    BY <2>1, <2>2, <2>3
<1>4. CASE ListenerClosed
  <2>1. ~Active(session) /\ listener.cmd \in Commands \union {Clear}
    BY <1>4 DEF ListenerClosed, CommandsAreNew
  <2>2. CASE listener.cmd = Clear
    <3>1. /\ StreamInv' /\ Len(stream') >= Len(stream) /\ listener' = WaitingListener
          /\ \A c : Fresh(c) => Fresh(c)'
      BY <1>4, <2>2, StartNothing DEF ListenerClosed
    <3>2. TypeOK'
      BY <1>4, <3>1 DEF ListenerClosed, TypeOK, StreamInv, WaitingListener
    <3>3. CommandsAreNew'
      BY <1>4, <3>1 DEF ListenerClosed, WaitingListener, CommandsAreNew, Fresh
    <3>4. QED
      BY <3>1, <3>2, <3>3 DEF IInv, StreamInv
  <2>3. CASE listener.cmd \in Commands
    <3>1. Fresh(listener.cmd) /\ \A i \in DOMAIN inbox : inbox[i] # listener.cmd
      BY <1>4, <2>3 DEF ListenerClosed, CommandsAreNew
    <3>2. /\ StreamInv' /\ Len(stream') >= Len(stream)
          /\ listener' = [at |-> "opening", cmd |-> listener.cmd, seq |-> Len(stream) + 1]
          /\ \A c : Fresh(c) /\ c # listener.cmd => Fresh(c)'
      BY <1>4, <2>1, <2>3, <3>1, StartCommand DEF ListenerClosed
    <3>3. TypeOK'
      BY <1>4, <3>2 DEF ListenerClosed, TypeOK, StreamInv
    <3>4. CommandsAreNew'
      BY <1>4, <3>1, <3>2 DEF ListenerClosed, CommandsAreNew, Fresh
    <3>5. QED
      BY <3>2, <3>3, <3>4 DEF IInv, StreamInv
  <2>4. QED
    BY <2>1, <2>2, <2>3
<1>5. CASE ListenerOpened
  <2>1. TypeOK'
    BY <1>5 DEF ListenerOpened, TypeOK, WaitingListener
  <2>2. CommandsAreNew'
    BY <1>5, QuietFresh DEF ListenerOpened, WaitingListener, CommandsAreNew, Fresh
  <2>3. QED
    BY <1>5, <2>1, <2>2, QuietIInv DEF ListenerOpened
<1>6. QED
  BY <1>1, <1>2, <1>3, <1>4, <1>5 DEF Listener

LEMMA BeaterPublishes ==
  TypeOK => BeaterPublishing \in [at: {"sleeping", "publishing"}, wake: Nat, seq: Nat]
<1>1. TypeOK => Len(stream) + 1 \in Nat /\ beater.wake \in Nat
  BY DEF TypeOK
<1>2. QED
  BY <1>1 DEF BeaterPublishing

LEMMA BeaterIInv == IInv /\ Beater => IInv'
<1> SUFFICES ASSUME IInv, Beater PROVE IInv'
  OBVIOUS
<1> USE IInvParts
<1>1. CASE BeaterExpires
  <2>1. /\ StreamInv' /\ ~Active(session)' /\ Len(stream') >= Len(stream)
        /\ \A c : Fresh(c) => Fresh(c)'
    BY <1>1, EndFault DEF BeaterExpires, Due
  <2>2. TypeOK'
    BY <1>1, <2>1, BeaterPublishes DEF BeaterExpires, TypeOK, StreamInv
  <2>3. CommandsAreNew'
    BY <1>1, <2>1, WaitingStayNew DEF BeaterExpires
  <2>4. QED
    BY <2>1, <2>2, <2>3 DEF IInv, StreamInv
<1>2. CASE BeaterBeats
  <2>1. StreamInv' /\ Len(stream') >= Len(stream) /\ \A c : Fresh(c) => Fresh(c)'
    BY <1>2, Beat DEF BeaterBeats
  <2>2. TypeOK'
    BY <1>2, <2>1, BeaterPublishes DEF BeaterBeats, TypeOK, StreamInv
  <2>3. CommandsAreNew'
    BY <1>2, <2>1, WaitingStayNew DEF BeaterBeats
  <2>4. QED
    BY <2>1, <2>2, <2>3 DEF IInv, StreamInv
<1>3. CASE BeaterIdles \/ BeaterSleeps
  <2>1. TypeOK'
    BY <1>3 DEF BeaterIdles, BeaterSleeps, TypeOK, SleepingBeater
  <2>2. CommandsAreNew'
    BY <1>3, QuietFresh, WaitingStayNew DEF BeaterIdles, BeaterSleeps
  <2>3. QED
    BY <1>3, <2>1, <2>2, QuietIInv DEF BeaterIdles, BeaterSleeps
<1>4. QED
  BY <1>1, <1>2, <1>3 DEF Beater

\* With the tasks cancelled, no command waits.
LEMMA CancelledWaitForNothing == CancelTasks => CommandsAreNew'
  BY DEF CancelTasks, WaitingListener, CommandsAreNew

LEMMA ConnectionIInv ==
  IInv /\ (BrokerReceives \/ LinkLost \/ TasksFail \/ PublishTimesOut \/ Connect) => IInv'
<1> SUFFICES ASSUME IInv, BrokerReceives \/ LinkLost \/ TasksFail \/ PublishTimesOut \/ Connect
             PROVE  IInv'
  OBVIOUS
<1> USE IInvParts
<1>1. CASE BrokerReceives
  <2>1. TypeOK'
    BY <1>1 DEF BrokerReceives, TypeOK
  <2>2. CommandsAreNew'
    BY <1>1, QuietFresh, WaitingStayNew DEF BrokerReceives
  <2>3. QED
    BY <1>1, <2>1, <2>2, QuietIInv DEF BrokerReceives
<1>2. CASE LinkLost
  <2>1. StreamInv' /\ Len(stream') = received /\ \A c : Fresh(c) => Fresh(c)'
    BY <1>2, Cut DEF LinkLost, TypeOK
  <2>2. TypeOK'
    BY <1>2, <2>1 DEF LinkLost, CountFailure, TypeOK, StreamInv
  <2>3. CommandsAreNew'
    BY <1>2, <2>1, WaitingStayNew DEF LinkLost
  <2>4. QED
    BY <2>1, <2>2, <2>3 DEF IInv, StreamInv
<1>3. CASE TasksFail
  <2>1. TypeOK'
    BY <1>3 DEF TasksFail, CancelTasks, TypeOK, WaitingListener, SleepingBeater
  <2>2. QED
    BY <1>3, <2>1, CancelledWaitForNothing, QuietIInv DEF TasksFail
<1>4. CASE PublishTimesOut
  <2>1. StreamInv' /\ Len(stream') = received
    BY <1>4, Cut DEF PublishTimesOut, TypeOK
  <2>2. TypeOK'
    BY <1>4, <2>1 DEF PublishTimesOut, CountFailure, CancelTasks, TypeOK, StreamInv,
                      WaitingListener, SleepingBeater
  <2>3. QED
    BY <1>4, <2>1, <2>2, CancelledWaitForNothing DEF PublishTimesOut, IInv, StreamInv
<1>5. CASE Connect
  <2>1. TypeOK'
    BY <1>5 DEF Connect, TypeOK, SleepingBeater
  <2>2. CommandsAreNew'
    BY <1>5, QuietFresh, WaitingStayNew DEF Connect
  <2>3. QED
    BY <1>5, <2>1, <2>2, QuietIInv DEF Connect
<1>6. QED
  BY <1>1, <1>2, <1>3, <1>4, <1>5

LEMMA RestartIInv == IInv /\ Restart => IInv'
<1> SUFFICES ASSUME IInv, Restart PROVE IInv'
  OBVIOUS
<1>1. /\ stream' \in Seq(Label) /\ WellFormed(stream') /\ Len(stream') = received
      /\ \A i \in DOMAIN stream' : i \in DOMAIN stream /\ stream'[i] = stream[i]
  BY PrefixKeeps DEF Restart, LoseUnsent, Wire, IInv, TypeOK
<1>2. TypeOK'
  BY <1>1 DEF IInv, Restart, TypeOK, CancelTasks, NewSession, Session, WaitingListener,
              SleepingBeater
<1>3. LabelsArePast'
  BY <1>1 DEF IInv, LabelsArePast, Restart
<1>4. SessionFits'
  BY DEF Restart, NewSession, SessionFits, Active
<1>5. QED
  BY <1>1, <1>2, <1>3, <1>4, CancelledWaitForNothing DEF IInv, Restart

-----------------------------------------------------------------------------
\* No interleaving of the listener, the heartbeat loop, lost connections and
\* restarts leaves the injector outside its invariant.
LEMMA NextIInv == IInv /\ [Next]_vars => IInv'
<1>1. SUFFICES ASSUME IInv, [Next]_vars
               PROVE  IInv'
  OBVIOUS
<1>2. CASE UNCHANGED vars
  <2>1. TypeOK'
    BY <1>1, <1>2 DEF vars, IInv, TypeOK
  <2>2. CommandsAreNew'
    BY <1>1, <1>2, QuietFresh, WaitingStayNew DEF vars, IInv
  <2>3. QED
    BY <1>1, <1>2, <2>1, <2>2, QuietIInv DEF vars
<1>3. QED
  BY <1>1, <1>2, TickIInv, DeliverIInv, ListenerIInv, BeaterIInv, ConnectionIInv, RestartIInv
     DEF Next, Worker

THEOREM InjectorInvariant == Spec => []IInv
  BY InitIInv, NextIInv, PTL DEF Spec

\* Every variable keeps its type, and no counter passes its bound.
THEOREM TypeCorrect == Spec => []TypeOK
<1>1. IInv => TypeOK
  BY DEF IInv
<1>2. QED
  BY <1>1, InjectorInvariant, PTL

\* At most one closing label for an experiment, and no heartbeat after it.
THEOREM ClosedOnce == Spec => []NothingAfterClosing
<1>1. IInv => NothingAfterClosing
  BY DEF IInv, WellFormed, NothingAfterClosing
<1>2. QED
  BY <1>1, InjectorInvariant, PTL

\* Labelled intervals never overlap, whatever labels were lost.
THEOREM Disjoint == Spec => []ExperimentsDisjoint
<1>1. IInv => ExperimentsDisjoint
  BY DEF IInv, WellFormed, ExperimentsDisjoint
<1>2. QED
  BY <1>1, InjectorInvariant, PTL

-----------------------------------------------------------------------------
\* While nothing has failed the connection is up whenever a task runs, so no
\* label is lost, and no interval is open but the running fault's.
Unharmed == failures = 0 /\ restarts = 0

ClosedInv == Unharmed => conn # "dead" /\ NoIntervalLeftOpen

\* The label of a fault that ends closes its interval.
LEMMA EndingCloses ==
  ASSUME TypeOK, NoIntervalLeftOpen, Active(session), NEW t \in Nat,
         session' = Cleared(session), stream' = Append(stream, ClosingLabel(session, t))
  PROVE  NoIntervalLeftOpen'
<1> DEFINE l == ClosingLabel(session, t)
<1>1. /\ stream \in Seq(Label) /\ l \in Label
      /\ ~l.active /\ l.id = session.command
  BY DEF TypeOK, Active, Session, ClosingLabel, Label
<1>2. /\ DOMAIN stream' = DOMAIN stream \union {Len(stream) + 1}
      /\ \A i \in DOMAIN stream : stream'[i] = stream[i]
      /\ stream'[Len(stream) + 1] = l
  BY <1>1
<1>3. SUFFICES ASSUME NEW i \in DOMAIN stream', stream'[i].active
               PROVE  \E j \in DOMAIN stream' : stream'[j].id = stream'[i].id /\ ~stream'[j].active
  BY DEF NoIntervalLeftOpen
<1>4. i \in DOMAIN stream /\ stream[i].active
  BY <1>1, <1>2, <1>3
<1>5. CASE stream[i].id = session.command
  BY <1>1, <1>2, <1>4, <1>5
<1>6. CASE stream[i].id # session.command
  BY <1>2, <1>4, <1>6 DEF NoIntervalLeftOpen
<1>7. QED
  BY <1>5, <1>6

\* A label of the fault that is now running opens no other interval.
LEMMA RunningStaysOpen ==
  ASSUME TypeOK, NoIntervalLeftOpen, NEW l \in Label, stream' = Append(stream, l),
         l.id = session'.command, session.command \in {None, session'.command}
  PROVE  NoIntervalLeftOpen'
<1>1. stream \in Seq(Label) /\ \A i \in DOMAIN stream : stream[i].id # None
  <2>1. stream \in Seq(Label)
    BY DEF TypeOK
  <2>2. \A i \in DOMAIN stream : stream[i] \in Label
    BY <2>1
  <2>3. QED
    BY <2>1, <2>2, NoneIsNoCommand DEF Label
<1>2. /\ DOMAIN stream' = DOMAIN stream \union {Len(stream) + 1}
      /\ \A i \in DOMAIN stream : stream'[i] = stream[i]
      /\ stream'[Len(stream) + 1] = l
  BY <1>1
<1>3. SUFFICES ASSUME NEW i \in DOMAIN stream', stream'[i].active, stream'[i].id # session'.command
               PROVE  \E j \in DOMAIN stream' : stream'[j].id = stream'[i].id /\ ~stream'[j].active
  BY DEF NoIntervalLeftOpen
<1>4. i \in DOMAIN stream /\ stream[i].active /\ stream[i].id # session.command
  BY <1>1, <1>2, <1>3
<1>5. QED
  BY <1>2, <1>4 DEF NoIntervalLeftOpen

\* Starting a fault on an idle session, with the connection up.
LEMMA StartingKeepsClosed ==
  ASSUME TypeOK, NoIntervalLeftOpen, ~Active(session), conn = "up",
         NEW c \in Commands \union {Clear}, StartFault(c)
  PROVE  NoIntervalLeftOpen'
<1>1. CASE c = Clear
  BY <1>1 DEF StartFault, NoIntervalLeftOpen
<1>2. CASE c # Clear
  <2> DEFINE l == ActiveLabel(Activated(session, c, now), now)
  <2>1. /\ l \in Label /\ l.id = session'.command /\ session.command = None
        /\ stream' = Append(stream, l)
    BY <1>2 DEF StartFault, Publish, ActiveLabel, Activated, Label, Active, TypeOK, Session
  <2>2. QED
    BY <2>1, RunningStaysOpen
<1>3. QED
  BY <1>1, <1>2

\* The code's own promise, as far as it goes: with no failure and no restart,
\* every fault that was announced and no longer runs has its closing label.
THEOREM ClosedWithoutFailure == Spec => []ClosedUnlessFailure
<1>1. Init => ClosedInv
  BY DEF Init, ClosedInv, NoIntervalLeftOpen
<1>2. IInv /\ ClosedInv /\ [Next]_vars => ClosedInv'
  <2>1. SUFFICES ASSUME IInv, ClosedInv, [Next]_vars, Unharmed'
                 PROVE  conn' # "dead" /\ NoIntervalLeftOpen'
    BY DEF ClosedInv
  <2>2. TypeOK
    BY <2>1 DEF IInv
  <2>3. ~LinkLost /\ ~PublishTimesOut /\ ~Restart /\ Unharmed
    BY <2>1, <2>2 DEF LinkLost, PublishTimesOut, Restart, CountFailure, TypeOK, Unharmed,
        Next, Tick, Deliver, BrokerReceives, Listener, ListenerSkips, ListenerEndsFault,
        ListenerStartsFault, ListenerClosed, ListenerOpened, Beater, BeaterExpires, BeaterBeats,
        BeaterIdles, BeaterSleeps, Worker, TasksFail, Connect, vars
  <2>4. conn # "dead" /\ NoIntervalLeftOpen /\ (Serving => conn = "up")
    BY <2>1, <2>2, <2>3 DEF ClosedInv, TypeOK, Serving
  <2>5. CASE ListenerEndsFault \/ BeaterExpires
    <3>1. /\ Active(session) /\ conn = "up" /\ conn' = conn /\ now \in Nat
          /\ session' = Cleared(session) /\ stream' = Append(stream, ClosingLabel(session, now))
      BY <2>2, <2>4, <2>5 DEF ListenerEndsFault, BeaterExpires, BeaterWakes, Due, Publish, TypeOK
    <3>2. QED
      BY <2>2, <2>4, <3>1, EndingCloses
  <2>6. CASE BeaterBeats
    <3>1. /\ session' = session /\ conn = "up" /\ conn' = conn
          /\ stream' = Append(stream, ActiveLabel(session, now))
          /\ ActiveLabel(session, now) \in Label /\ ActiveLabel(session, now).id = session.command
      BY <2>2, <2>4, <2>6 DEF BeaterBeats, BeaterWakes, Publish, TypeOK, ActiveLabel, Label,
                              Active, Session
    <3>2. QED
      BY <2>2, <2>4, <3>1, RunningStaysOpen
  <2>7. CASE ListenerStartsFault
    <3>1. /\ ~Active(session) /\ conn = "up" /\ conn' = conn
          /\ StartFault(Head(inbox)) /\ Head(inbox) \in Commands \union {Clear}
      BY <2>2, <2>4, <2>7 DEF ListenerStartsFault, TypeOK, Messages
    <3>2. QED
      BY <2>2, <2>4, <3>1, StartingKeepsClosed
  <2>8. CASE ListenerClosed
    <3>1. /\ ~Active(session) /\ conn = "up" /\ conn' = conn
          /\ StartFault(listener.cmd) /\ listener.cmd \in Commands \union {Clear}
      BY <2>1, <2>8 DEF ListenerClosed, Acked, IInv, CommandsAreNew
    <3>2. QED
      BY <2>2, <2>4, <3>1, StartingKeepsClosed
  <2>9. CASE \/ Tick \/ \E m \in Messages : Deliver(m)
             \/ BrokerReceives \/ ListenerSkips \/ ListenerOpened \/ BeaterIdles
             \/ BeaterSleeps \/ TasksFail \/ Connect \/ UNCHANGED vars
    <3>1. session' = session /\ stream' = stream /\ conn' # "dead"
      BY <2>4, <2>9 DEF Tick, Deliver, BrokerReceives, ListenerSkips, ListenerOpened,
                        BeaterIdles, BeaterSleeps, TasksFail, Connect, vars
    <3>2. QED
      BY <2>4, <3>1 DEF NoIntervalLeftOpen
  <2>10. QED
    BY <2>1, <2>3, <2>5, <2>6, <2>7, <2>8, <2>9 DEF Next, Listener, Beater, Worker
<1>3. ClosedInv => ClosedUnlessFailure
  BY DEF ClosedInv, Unharmed, ClosedUnlessFailure
<1>4. QED
  BY <1>1, <1>2, <1>3, InjectorInvariant, PTL DEF Spec

-----------------------------------------------------------------------------
\* LabelStream's own names for the operators of FaultLabels.
LEMMA LSNames ==
  /\ LS!Label = Label
  /\ \A s, l : LS!Admissible(s, l) <=> Admissible(s, l)
<1>1. LS!Label = Label
  BY DEF LS!Label, Label
<1>2. ASSUME NEW s, NEW l
      PROVE  LS!Admissible(s, l) <=> Admissible(s, l)
  BY DEF LS!Admissible, Admissible, LS!Continues, Continues, LS!Opens, Opens, LS!Ids, Ids
<1>3. QED
  BY <1>1, <1>2

\* Publishing puts a label behind what the broker has received.
LEMMA PublishKeepsWire ==
  ASSUME stream \in Seq(Label), received \in 0..Len(stream), NEW l, Publish(l),
         received' = received
  PROVE  Wire' = Wire
<1>1. CASE stream' = stream
  BY <1>1 DEF Wire
<1>2. CASE stream' = Append(stream, l)
  <2>1. SubSeq(Append(stream, l), 1, received) = SubSeq(stream, 1, received)
    OBVIOUS
  <2>2. QED
    BY <1>2, <2>1 DEF Wire
<1>3. QED
  BY <1>1, <1>2 DEF Publish

\* Losing the labels on their way takes nothing back from the broker.
LEMMA LossKeepsWire ==
  ASSUME stream \in Seq(Label), received \in 0..Len(stream), LoseUnsent, received' = received
  PROVE  Wire' = Wire
<1>1. SubSeq(SubSeq(stream, 1, received), 1, received) = SubSeq(stream, 1, received)
  OBVIOUS
<1>2. QED
  BY <1>1 DEF Wire, LoseUnsent

\* The broker receives a stream that LabelStream allows, however the two
\* tasks, failures and restarts interleave: the assumption of whoever records
\* the labels or reads them back.
THEOREM InjectorImplementsLabelStream == Spec => ImplementsLabelStream
<1>1. Init => LS!Init
  BY DEF Init, LS!Init, Wire
<1>2. IInv /\ [Next]_vars => [LS!Next]_Wire
  <2>1. SUFFICES ASSUME IInv, Next
                 PROVE  LS!Next \/ UNCHANGED Wire
    BY DEF vars, Wire
  <2>2. stream \in Seq(Label) /\ received \in 0..Len(stream)
    BY <2>1 DEF IInv, TypeOK
  <2>3. CASE BrokerReceives
    <3> DEFINE l == stream[received + 1]
    <3>1. received \in Nat /\ received < Len(stream) /\ WellFormed(stream)
      BY <2>1, <2>2, <2>3 DEF BrokerReceives, IInv
    <3>2. l \in Label /\ Admissible(Wire, l)
      BY <2>2, <3>1, PrefixAdmits DEF Wire
    <3>3. Wire' = Append(Wire, l)
      BY <2>2, <2>3, <3>1 DEF BrokerReceives, Wire
    <3>4. Len(Wire') > 0 /\ Wire'[Len(Wire')] = l
      <4>1. Wire \in Seq(Label)
        BY <2>2 DEF Wire
      <4>2. Len(Append(Wire, l)) > 0 /\ Append(Wire, l)[Len(Append(Wire, l))] = l
        BY <3>2, <4>1
      <4>3. QED
        BY <3>3, <4>2
    <3>5. QED
      BY <3>2, <3>3, <3>4, LSNames DEF LS!Next, LS!Receive
  <2>4. CASE ListenerEndsFault \/ BeaterExpires \/ BeaterBeats
    BY <2>2, <2>4, PublishKeepsWire DEF ListenerEndsFault, BeaterExpires, BeaterBeats
  <2>5. CASE ListenerStartsFault \/ ListenerClosed
    <3>1. \/ \E l : Publish(l)
          \/ UNCHANGED stream
      BY <2>5 DEF ListenerStartsFault, ListenerClosed, StartFault
    <3>2. received' = received
      BY <2>5 DEF ListenerStartsFault, ListenerClosed
    <3>3. QED
      BY <2>2, <3>1, <3>2, PublishKeepsWire DEF Wire
  <2>6. CASE LinkLost \/ PublishTimesOut \/ Restart
    BY <2>2, <2>6, LossKeepsWire DEF LinkLost, PublishTimesOut, Restart
  <2>7. CASE \/ Tick \/ \E m \in Messages : Deliver(m)
             \/ ListenerSkips \/ ListenerOpened \/ BeaterIdles \/ BeaterSleeps
             \/ TasksFail \/ Connect
    BY <2>7 DEF Tick, Deliver, ListenerSkips, ListenerOpened, BeaterIdles, BeaterSleeps,
                TasksFail, Connect, Wire
  <2>8. QED
    BY <2>1, <2>3, <2>4, <2>5, <2>6, <2>7 DEF Next, Listener, Beater, Worker
<1>3. QED
  BY <1>1, <1>2, InjectorInvariant, PTL DEF Spec, ImplementsLabelStream, LS!Spec
=============================================================================
