------------------------- MODULE LabelArchiveProofs -------------------------
(***************************************************************************)
(* What the database of telemetry_svc says of faults is sound, for any     *)
(* number of faults, labels, lost connections, failed writes and restarts. *)
(***************************************************************************)
EXTENDS LabelArchive, FiniteSetTheorems, TLAPS

-----------------------------------------------------------------------------
\* The labels.

\* A label admissible after a readable sequence fits it.
LEMMA AdmissibleFits ==
  ASSUME NEW s \in Seq(Label), NEW l \in Label, WellFormed(s), Admissible(s, l)
  PROVE  Fits(s, l)
<1>1. DOMAIN s = 1..Len(s) /\ \A i \in DOMAIN s : s[i] \in Label
  OBVIOUS
<1>2. CASE s # <<>> /\ Continues(s, l)
  <2>1. Len(s) \in DOMAIN s
    BY <1>1, <1>2
  <2>2. \A i \in DOMAIN s : s[i].stamp <= l.stamp
    BY <1>1, <1>2, <2>1 DEF Continues, WellFormed, StampsOrdered, Label
  <2>3. \A i \in DOMAIN s : s[i].id = l.id => s[i].active /\ s[i].started = l.started
    <3>1. SUFFICES ASSUME NEW i \in DOMAIN s, s[i].id = l.id
                   PROVE  s[i].active /\ s[i].started = l.started
      OBVIOUS
    <3>2. i = Len(s) \/ i < Len(s)
      BY <1>1
    <3>3. s[i].active
      BY <1>2, <2>1, <3>1, <3>2 DEF Continues, WellFormed, ClosedForGood
    <3>4. s[i].started = l.started
      BY <1>2, <2>1, <3>1 DEF Continues, WellFormed, StartIsFact
    <3>5. QED
      BY <3>3, <3>4
  <2>4. \A i \in DOMAIN s : s[i].id # l.id => s[i].stamp <= l.started
    BY <1>1, <1>2, <2>1 DEF Continues, WellFormed, IntervalsDisjoint, Label
  <2>5. \A i, j \in DOMAIN s : i < j /\ s[i].id = l.id => s[j].id = l.id
    <3>1. SUFFICES ASSUME NEW i \in DOMAIN s, NEW j \in DOMAIN s, i < j, s[i].id = l.id
                   PROVE  s[j].id = l.id
      OBVIOUS
    <3>2. j = Len(s) \/ j < Len(s)
      BY <1>1
    <3>3. s[Len(s)].id = l.id
      BY <1>2 DEF Continues
    <3>4. QED
      BY <2>1, <3>1, <3>2, <3>3 DEF WellFormed, Contiguous
  <2>6. QED
    BY <2>2, <2>3, <2>4, <2>5 DEF Fits, Admissible
<1>3. CASE Opens(s, l)
  <2>1. \A i \in DOMAIN s : s[i].id # l.id
    BY <1>3 DEF Opens, Ids
  <2>2. \A i \in DOMAIN s : s[i].stamp <= l.started
    BY <1>1, <1>3 DEF Opens, WellFormed, StampsOrdered, Label
  <2>3. QED
    BY <1>1, <2>1, <2>2 DEF Fits, Admissible, Label
<1>4. QED
  BY <1>2, <1>3 DEF Admissible

\* Appending a label that is admissible keeps a sequence of labels readable.
LEMMA AdmissibleKeeps ==
  ASSUME NEW s \in Seq(Label), NEW l \in Label, WellFormed(s), Admissible(s, l)
  PROVE  Append(s, l) \in Seq(Label) /\ WellFormed(Append(s, l))
<1> DEFINE t == Append(s, l)
           n == Len(s) + 1
<1>1. t \in Seq(Label) /\ Fits(s, l)
  BY AdmissibleFits
<1>2. /\ DOMAIN t \subseteq Nat /\ DOMAIN s \subseteq Nat /\ n \in Nat
      /\ \A i \in DOMAIN t : (i \in DOMAIN s /\ i < n /\ t[i] = s[i]) \/ (i = n /\ t[i] = l)
      /\ \A i \in DOMAIN t : i <= n
  OBVIOUS
<1> HIDE DEF t, n
<1>3. StampsOrdered(t)
  BY <1>1, <1>2 DEF WellFormed, StampsOrdered, Fits
<1>4. StartIsFact(t)
  BY <1>1, <1>2 DEF WellFormed, StartIsFact, Fits
<1>5. ClosedForGood(t)
  BY <1>1, <1>2 DEF WellFormed, ClosedForGood, Fits
<1>6. IntervalsDisjoint(t)
  BY <1>1, <1>2 DEF WellFormed, IntervalsDisjoint, Fits
<1>7. Contiguous(t)
  BY <1>1, <1>2 DEF WellFormed, Contiguous, Fits
<1> QED
  BY <1>1, <1>3, <1>4, <1>5, <1>6, <1>7 DEF WellFormed, t

-----------------------------------------------------------------------------
\* Rows.

IsFirst(rank, S, l) == l \in S /\ \A m \in S \ {l} : Before(rank, l, m)

IsLast(rank, S, l) == l \in S /\ \A m \in S \ {l} : Before(rank, m, l)

\* Rows of a database can be sorted: whichever of them are asked for, a query
\* answers one first and one last.  (For every finite set of rows with tags
\* and times of their own; kept by each write instead of by induction.)
Sortable(db_) ==
  \A rank \in TableOrders : \A S \in SUBSET db_ :
    S # {} => (\E l \in S : IsFirst(rank, S, l)) /\ (\E l \in S : IsLast(rank, S, l))

\* Before is a strict order, and total on rows with tags and times of their own.
LEMMA BeforeTransitive ==
  ASSUME NEW rank, NEW l, NEW m, NEW n,
         rank[Tags(l)] \in Nat, rank[Tags(m)] \in Nat, rank[Tags(n)] \in Nat,
         l.stamp \in Nat, m.stamp \in Nat, n.stamp \in Nat,
         Before(rank, l, m), Before(rank, m, n)
  PROVE  Before(rank, l, n)
BY DEF Before

LEMMA RankFacts ==
  ASSUME NEW rank \in TableOrders
  PROVE  /\ \A l \in Label : rank[Tags(l)] \in Nat
         /\ \A l, m \in Label : rank[Tags(l)] = rank[Tags(m)] => Tags(l) = Tags(m)
<1>1. Cardinality(AllTags) \in Nat
  <2>1. IsFiniteSet({[joint |-> AllJoints, kind |-> NoKind]})
    BY FS_Singleton
  <2>2. IsFiniteSet({[joint |-> Joint[c], kind |-> Kind[c]] : c \in Commands})
    <3> DEFINE T == {[joint |-> Joint[c], kind |-> Kind[c]] : c \in Commands}
               f == [c \in Commands |-> [joint |-> Joint[c], kind |-> Kind[c]]]
    <3>1. f \in Surjection(Commands, T)
      BY DEF Surjection
    <3> QED
      BY <3>1, CommandsFinite, FS_Surjection
  <2> QED
    BY <2>1, <2>2, FS_Union, FS_CardinalityType DEF AllTags
<1>2. \A l \in Label : Tags(l) \in AllTags
  BY DEF Label, Tags, AllTags
<1> QED
  BY <1>1, <1>2 DEF TableOrders

\* A write keeps the database a set of rows that can be sorted.
LEMMA WrittenSortable ==
  ASSUME NEW D \in SUBSET Label, NEW l \in Label, Sortable(D)
  PROVE  Written(D, l) \subseteq D \union {l} /\ Sortable(Written(D, l))
<1>1. Written(D, l) \subseteq D \union {l}
  BY DEF Written
<1>2. ASSUME NEW rank \in TableOrders, NEW S \in SUBSET Written(D, l), S # {}
      PROVE  (\E f \in S : IsFirst(rank, S, f)) /\ (\E f \in S : IsLast(rank, S, f))
  <2>1. CASE l \notin S
    <3>1. S \in SUBSET D
      BY <2>1, <1>1
    <3> QED
      BY <3>1, <1>2 DEF Sortable
  <2>2. CASE S = {l}
    BY <2>2 DEF IsFirst, IsLast
  <2>3. CASE l \in S /\ S # {l}
    <3> DEFINE R == S \ {l}
    <3>1. R \in SUBSET D /\ R # {} /\ S = R \union {l} /\ l \notin R /\ R \subseteq Label
      BY <2>3, <1>1
    <3>2. \A m \in R : Tags(m) # Tags(l) \/ m.stamp # l.stamp
      BY <1>2 DEF Written
    <3> HIDE DEF R
    <3>3. PICK f \in R : IsFirst(rank, R, f)
      BY <3>1 DEF Sortable
    <3>4. PICK g \in R : IsLast(rank, R, g)
      BY <3>1 DEF Sortable
    <3>5. /\ \A m \in R : rank[Tags(m)] \in Nat /\ m.stamp \in Nat
          /\ rank[Tags(l)] \in Nat /\ l.stamp \in Nat
      BY <3>1, RankFacts DEF Label
    <3>6. \A m \in R : Before(rank, m, l) \/ Before(rank, l, m)
      <4> SUFFICES ASSUME NEW m \in R PROVE Before(rank, m, l) \/ Before(rank, l, m)
        OBVIOUS
      <4>1. CASE Tags(m) = Tags(l)
        BY <4>1, <3>2, <3>5 DEF Before
      <4>2. CASE Tags(m) # Tags(l)
        <5>1. rank[Tags(m)] # rank[Tags(l)]
          BY <4>2, <3>1, RankFacts
        <5> QED
          BY <5>1, <3>5 DEF Before
      <4> QED
        BY <4>1, <4>2
    <3>7. \E x \in S : IsFirst(rank, S, x)
      <4>1. CASE Before(rank, f, l)
        BY <4>1, <3>1, <3>3 DEF IsFirst
      <4>2. CASE Before(rank, l, f)
        <5>1. \A m \in R : Before(rank, l, m)
          BY <4>2, <3>3, <3>5, BeforeTransitive DEF IsFirst
        <5> QED
          BY <5>1, <3>1 DEF IsFirst
      <4> QED
        BY <4>1, <4>2, <3>6
    <3>8. \E x \in S : IsLast(rank, S, x)
      <4>1. CASE Before(rank, l, g)
        BY <4>1, <3>1, <3>4 DEF IsLast
      <4>2. CASE Before(rank, g, l)
        <5>1. \A m \in R : Before(rank, m, l)
          BY <4>2, <3>4, <3>5, BeforeTransitive DEF IsLast
        <5> QED
          BY <5>1, <3>1 DEF IsLast
      <4> QED
        BY <4>1, <4>2, <3>6
    <3> QED
      BY <3>7, <3>8
  <2> QED
    BY <2>1, <2>2, <2>3
<1> QED
  BY <1>1, <1>2 DEF Sortable

-----------------------------------------------------------------------------
\* The invariant: what waits to be stored, or is, was published, and what was
\* published can be read.

Published == {wire[i] : i \in DOMAIN wire}

WireOK ==
  /\ wire \in Seq(Label) /\ WellFormed(wire)
  /\ \A i \in DOMAIN wire : wire[i].stamp \in Times

HeldOK ==
  /\ queue \in Seq(Message) /\ \A i \in DOMAIN queue : queue[i] \in Label => queue[i] \in Published
  /\ writing \in Label \union {Reading, Nothing} /\ (writing \in Label => writing \in Published)

StoredOK == db \in SUBSET Label /\ db \subseteq Published /\ Sortable(db)

ArchiveInv == WireOK /\ HeldOK /\ StoredOK

LEMMA ArchiveInit == Init => ArchiveInv
<1> SUFFICES ASSUME Init PROVE ArchiveInv
  OBVIOUS
<1>1. WireOK
  BY DEF Init, WireOK, WellFormed, StampsOrdered, StartIsFact, ClosedForGood, IntervalsDisjoint, Contiguous
<1>2. HeldOK
  BY MessagesType DEF Init, HeldOK
<1>3. StoredOK
  BY DEF Init, StoredOK, Sortable
<1> QED
  BY <1>1, <1>2, <1>3 DEF ArchiveInv

LEMMA PublishedGrows ==
  ASSUME NEW l \in Label, l.stamp \in Times, WireOK, Admissible(wire, l), wire' = Append(wire, l)
  PROVE  WireOK' /\ Published \subseteq Published' /\ l \in Published'
<1>1. wire' \in Seq(Label) /\ WellFormed(wire')
  BY AdmissibleKeeps DEF WireOK
<1>2. DOMAIN wire' = DOMAIN wire \union {Len(wire) + 1} /\ wire'[Len(wire) + 1] = l
      /\ \A i \in DOMAIN wire : wire'[i] = wire[i]
  BY DEF WireOK
<1>3. \A i \in DOMAIN wire' : wire'[i].stamp \in Times
  BY <1>2 DEF WireOK
<1> QED
  BY <1>1, <1>2, <1>3 DEF Published, WireOK

\* A message that is delivered or not.
LEMMA DeliveredHeld ==
  ASSUME HeldOK, NEW m \in Message, Delivered(m), Published \subseteq Published', m \in Label => m \in Published',
         writing' = writing
  PROVE  HeldOK'
<1>1. queue' = queue \/ queue' = Append(queue, m)
  BY DEF Delivered
<1>2. \A i \in DOMAIN queue' : (i \in DOMAIN queue /\ queue'[i] = queue[i]) \/ queue'[i] = m
  BY <1>1 DEF HeldOK
<1>3. queue' \in Seq(Message)
  BY <1>1 DEF HeldOK
<1> QED
  BY <1>2, <1>3 DEF HeldOK

\* The row of the label that is being written.
LEMMA StoreKeeps ==
  ASSUME HeldOK, StoredOK, Store \/ UNCHANGED db, UNCHANGED wire
  PROVE  StoredOK'
<1>1. CASE UNCHANGED db
  BY <1>1 DEF StoredOK, Published
<1>2. CASE writing \in Label /\ db' = Written(db, writing)
  <2>1. db' \subseteq db \union {writing} /\ Sortable(db')
    BY <1>2, WrittenSortable DEF StoredOK
  <2> QED
    BY <1>2, <2>1 DEF StoredOK, HeldOK, Published
<1> QED
  BY <1>1, <1>2 DEF Store

LEMMA ArchiveNext == ArchiveInv /\ [Next]_vars => ArchiveInv'
<1> SUFFICES ASSUME ArchiveInv, [Next]_vars PROVE ArchiveInv'
  OBVIOUS
<1> USE DEF ArchiveInv
<1>1. ASSUME NEW l \in [id: Commands, active: BOOLEAN, started: Times, stamp: Times], Publish(l)
      PROVE  ArchiveInv'
  <2>1. l \in Label /\ l \in Message /\ l.stamp \in Times
    BY TimesType DEF Label, Message
  <2>2. WireOK' /\ Published \subseteq Published' /\ l \in Published'
    BY <1>1, <2>1, PublishedGrows DEF Publish
  <2>3. HeldOK'
    BY <1>1, <2>1, <2>2, DeliveredHeld DEF Publish
  <2>4. StoredOK'
    BY <1>1, <2>2 DEF Publish, StoredOK
  <2> QED
    BY <2>2, <2>3, <2>4
<1>2. ASSUME NEW m \in {Reading, Malformed}, Arrive(m) PROVE ArchiveInv'
  <2>1. m \in Message /\ m \notin Label /\ UNCHANGED <<wire, writing, db>>
    BY <1>2, MessagesType DEF Arrive, Message
  <2>2. Published' = Published
    BY <2>1 DEF Published
  <2>3. HeldOK'
    BY <1>2, <2>1, <2>2, DeliveredHeld DEF Arrive
  <2> QED
    BY <2>1, <2>2, <2>3 DEF WireOK, StoredOK
<1>3. CASE Take
  <2>1. /\ UNCHANGED <<wire, db>> /\ queue # <<>> /\ queue' = Tail(queue)
        /\ writing' = IF Head(queue) = Malformed THEN Nothing ELSE Head(queue)
    BY <1>3 DEF Take
  <2>2. /\ Head(queue) = queue[1] /\ 1 \in DOMAIN queue /\ Head(queue) \in Message /\ queue' \in Seq(Message)
        /\ \A i \in DOMAIN queue' : i + 1 \in DOMAIN queue /\ queue'[i] = queue[i + 1]
    BY <2>1 DEF HeldOK
  <2>3. writing' \in Label \union {Reading, Nothing} /\ (writing' \in Label => writing' \in Published)
    BY <2>1, <2>2, MessagesType DEF HeldOK, Message
  <2>4. Published' = Published
    BY <2>1 DEF Published
  <2>5. HeldOK'
    BY <2>2, <2>3, <2>4 DEF HeldOK
  <2> QED
    BY <2>1, <2>4, <2>5 DEF WireOK, StoredOK
<1>4. CASE WriteSucceeds \/ WriteFails \/ Restart
  <2>1. /\ UNCHANGED wire /\ writing' = Nothing /\ (queue' = queue \/ queue' = <<>>)
        /\ Store \/ UNCHANGED db
    BY <1>4 DEF WriteSucceeds, WriteFails, Restart
  <2>2. StoredOK'
    BY <2>1, StoreKeeps
  <2>3. HeldOK'
    <3>1. Published' = Published /\ Nothing \notin Label
      BY <2>1, MessagesType DEF Published
    <3>2. queue' \in Seq(Message) /\ \A i \in DOMAIN queue' : queue'[i] \in Label => queue'[i] \in Published
      <4>1. CASE queue' = queue
        BY <4>1 DEF HeldOK
      <4>2. CASE queue' = <<>>
        <5>1. <<>> \in Seq(Message) /\ DOMAIN <<>> = {}
          OBVIOUS
        <5> QED
          BY <4>2, <5>1
      <4> QED
        BY <2>1, <4>1, <4>2
    <3> QED
      BY <2>1, <3>1, <3>2 DEF HeldOK
  <2> QED
    BY <2>1, <2>2, <2>3 DEF WireOK
<1>5. CASE UNCHANGED <<wire, queue, writing, db>>
  BY <1>5 DEF WireOK, HeldOK, StoredOK, Published
<1> QED
  BY <1>1, <1>2, <1>3, <1>4, <1>5 DEF Next, Loop, Connect, Disconnected, LinkLost, vars

-----------------------------------------------------------------------------
\* An interval that a query answers is read off two rows of its experiment.
LEMMA IntervalRows ==
  ASSUME StoredOK, NEW rank \in TableOrders, NEW f \in FaultIntervals(db, rank)
  PROVE  \E first, last \in RowsOf(db, f.id) :
           /\ f.start = first.started /\ f.end = ToNs(last.stamp)
           /\ IsLast(rank, RowsOf(db, f.id), last)
<1>1. PICK c \in {l.id : l \in {m \in db : m.active}} :
        f = [id |-> c, start |-> FirstRow(db, rank, c).started, end |-> ToNs(LastRow(db, rank, c).stamp)]
  BY DEF FaultIntervals
<1>2. RowsOf(db, c) \in SUBSET db /\ RowsOf(db, c) # {}
  BY <1>1 DEF RowsOf
<1>3. /\ \E l \in RowsOf(db, c) : IsFirst(rank, RowsOf(db, c), l)
      /\ \E l \in RowsOf(db, c) : IsLast(rank, RowsOf(db, c), l)
  BY <1>2 DEF StoredOK, Sortable
<1> DEFINE first == FirstRow(db, rank, c)
           last == LastRow(db, rank, c)
<1>4. first \in RowsOf(db, c)
  BY <1>3 DEF FirstRow, IsFirst
<1>5. last \in RowsOf(db, c) /\ IsLast(rank, RowsOf(db, c), last)
  BY <1>3 DEF LastRow, IsLast
<1>6. f.id = c /\ f.start = first.started /\ f.end = ToNs(last.stamp)
  BY <1>1
<1> QED
  BY <1>4, <1>5, <1>6

\* Such rows are labels of the stream.
LEMMA RowsPublished ==
  ASSUME StoredOK, NEW c, NEW l \in RowsOf(db, c)
  PROVE  \E i \in DOMAIN wire : wire[i] = l /\ wire[i].id = c
BY DEF StoredOK, Published, RowsOf

LEMMA SoundFromInv == ArchiveInv => DatasetSound
<1> SUFFICES ASSUME ArchiveInv, NEW rank \in TableOrders, NEW f \in FaultIntervals(db, rank)
             PROVE  /\ \E i \in DOMAIN wire :
                         wire[i].id = f.id /\ f.start = wire[i].started /\ f.end = ToNs(wire[i].stamp)
                    /\ f.start < f.end + Grain
                    /\ \A g \in FaultIntervals(db, rank) :
                         f.id # g.id => f.end <= g.start \/ g.end <= f.start
  BY DEF DatasetSound
<1> USE DEF ArchiveInv
<1>1. /\ DOMAIN wire \subseteq Nat
      /\ \A i \in DOMAIN wire : wire[i].started \in Nat /\ wire[i].stamp \in Nat
  <2>1. DOMAIN wire \subseteq Nat /\ \A i \in DOMAIN wire : wire[i] \in Label
    BY DEF WireOK
  <2>2. \A l \in Label : l.started \in Nat /\ l.stamp \in Nat
    BY DEF Label
  <2> QED
    BY <2>1, <2>2
<1>2. \A i \in DOMAIN wire :
        /\ ToNs(wire[i].stamp) \in Nat
        /\ ToNs(wire[i].stamp) <= wire[i].stamp /\ wire[i].stamp < ToNs(wire[i].stamp) + Grain
  BY ReadBack DEF WireOK
<1>3. ASSUME NEW g \in FaultIntervals(db, rank)
      PROVE  \E j \in DOMAIN wire : wire[j].id = g.id /\ g.start = wire[j].started /\ g.end = ToNs(wire[j].stamp)
  <2>1. PICK first \in RowsOf(db, g.id), last \in RowsOf(db, g.id) :
          g.start = first.started /\ g.end = ToNs(last.stamp)
    BY IntervalRows
  <2>2. PICK i \in DOMAIN wire : wire[i] = first /\ wire[i].id = g.id
    BY RowsPublished
  <2>3. PICK j \in DOMAIN wire : wire[j] = last /\ wire[j].id = g.id
    BY RowsPublished
  <2>4. wire[i].started = wire[j].started
    BY <2>2, <2>3 DEF WireOK, WellFormed, StartIsFact
  <2> QED
    BY <2>1, <2>2, <2>3, <2>4
<1>4. PICK j \in DOMAIN wire : wire[j].id = f.id /\ f.start = wire[j].started /\ f.end = ToNs(wire[j].stamp)
  BY <1>3
<1>5. f.start < f.end + Grain
  <2>1. wire[j].started <= wire[j].stamp
    BY DEF WireOK, WellFormed, StartIsFact
  <2> QED
    BY <1>1, <1>2, <1>4, <2>1, GrainType
<1>6. ASSUME NEW g \in FaultIntervals(db, rank), f.id # g.id
      PROVE  f.end <= g.start \/ g.end <= f.start
  <2>1. PICK k \in DOMAIN wire : wire[k].id = g.id /\ g.start = wire[k].started /\ g.end = ToNs(wire[k].stamp)
    BY <1>3
  <2>2. j < k \/ k < j
    BY <1>1, <1>4, <1>6, <2>1
  <2>3. wire[j].stamp <= wire[k].started \/ wire[k].stamp <= wire[j].started
    BY <1>4, <1>6, <2>1, <2>2 DEF WireOK, WellFormed, IntervalsDisjoint
  <2> QED
    BY <1>1, <1>2, <1>4, <2>1, <2>3
<1> QED
  BY <1>4, <1>5, <1>6

\* Whatever labels are lost on the way and whatever order the database
\* answers in, an interval is made of what the injector said of that fault,
\* ends before it starts by less than the grain of the query's clock at worst,
\* and two faults never claim the same time.
THEOREM ArchiveSound == Spec => []DatasetSound
<1>1. Spec => []ArchiveInv
  BY ArchiveInit, ArchiveNext, PTL DEF Spec
<1> QED
  BY <1>1, SoundFromInv, PTL

-----------------------------------------------------------------------------
LEMMA ClosingFromInv == ArchiveInv => EndIsClosingWhenLast
<1> SUFFICES ASSUME ArchiveInv, NEW rank \in TableOrders,
                    \A t \in AllTags : rank[t] <= rank[[joint |-> AllJoints, kind |-> NoKind]],
                    NEW f \in FaultIntervals(db, rank), NEW l \in ClosingRows(f.id)
             PROVE  f.end = ToNs(l.stamp)
  BY DEF EndIsClosingWhenLast
<1> USE DEF ArchiveInv
<1>1. PICK last \in RowsOf(db, f.id) : f.end = ToNs(last.stamp) /\ IsLast(rank, RowsOf(db, f.id), last)
  BY IntervalRows
<1>2. l \in RowsOf(db, f.id) /\ ~l.active /\ Tags(l) = [joint |-> AllJoints, kind |-> NoKind]
  BY DEF ClosingRows, Tags
<1>3. last \in Label /\ l \in Label /\ last.id = f.id /\ l.id = f.id
  BY <1>1, <1>2 DEF StoredOK, RowsOf
<1>4. CASE l # last
  <2>1. Before(rank, l, last)
    BY <1>1, <1>2, <1>4 DEF IsLast
  <2>2. rank[Tags(last)] <= rank[Tags(l)] /\ rank[Tags(last)] \in Nat /\ rank[Tags(l)] \in Nat
    <3>1. Tags(last) \in AllTags
      BY <1>3 DEF Label, Tags, AllTags
    <3> QED
      BY <1>2, <1>3, <3>1, RankFacts
  <2>3. Tags(last) = Tags(l)
    BY <2>1, <2>2 DEF Before
  <2>4. ~last.active
    BY <1>2, <1>3, <2>3, KindType DEF Tags, Label
  <2>5. PICK i \in DOMAIN wire : wire[i] = last
    BY RowsPublished
  <2>6. PICK j \in DOMAIN wire : wire[j] = l
    BY <1>2, RowsPublished
  <2>7. (i < j) \/ (j < i)
    BY <1>4, <2>5, <2>6 DEF WireOK
  <2> QED
    BY <1>2, <1>3, <2>4, <2>5, <2>6, <2>7 DEF WireOK, WellFormed, ClosedForGood
<1> QED
  BY <1>1, <1>4

\* A fault ends at its closing label if that is in the database and its table
\* is the last to be read, whatever was lost before it.
THEOREM ClosingEnds == Spec => []EndIsClosingWhenLast
<1>1. Spec => []ArchiveInv
  BY ArchiveInit, ArchiveNext, PTL DEF Spec
<1> QED
  BY <1>1, ClosingFromInv, PTL

-----------------------------------------------------------------------------
\* Types of the rest.

RestType ==
  /\ conn \in {"backoff", "up", "dead"}
  /\ ready \in [mqtt: BOOLEAN, influxdb: BOOLEAN]
  /\ failures \in 0..MaxFailures

LEMMA ReadyUpdate ==
  ASSUME NEW r \in [mqtt: BOOLEAN, influxdb: BOOLEAN], NEW b \in BOOLEAN
  PROVE  /\ [r EXCEPT !.mqtt = b] \in [mqtt: BOOLEAN, influxdb: BOOLEAN]
         /\ [r EXCEPT !.influxdb = b] \in [mqtt: BOOLEAN, influxdb: BOOLEAN]
OBVIOUS

LEMMA RestNext == RestType /\ [Next]_vars => RestType'
<1> SUFFICES ASSUME RestType, [Next]_vars PROVE RestType'
  OBVIOUS
<1> USE FailuresType DEF RestType, CountFailure
<1>1. ASSUME NEW ping \in BOOLEAN, Connect(ping) PROVE RestType'
  <2>1. conn' = "up" /\ failures' = failures
    BY <1>1 DEF Connect
  <2>2. (ready \in [mqtt: BOOLEAN, influxdb: BOOLEAN])'
    BY <1>1 DEF Connect
  <2> QED
    BY <2>1, <2>2
<1>2. CASE WriteSucceeds \/ WriteFails \/ LinkLost \/ Restart \/ Disconnected
  <2>1. conn' \in {"backoff", "up", "dead"} /\ failures' \in 0..MaxFailures
    BY <1>2 DEF WriteSucceeds, WriteFails, LinkLost, Restart, Disconnected
  <2>2. \/ ready' = ready
        \/ ready' = [mqtt |-> FALSE, influxdb |-> FALSE]
        \/ ready' = [ready EXCEPT !.mqtt = FALSE]
        \/ ready' = [ready EXCEPT !.influxdb = TRUE]
        \/ ready' = [ready EXCEPT !.influxdb = FALSE]
    BY <1>2, Zenon DEF WriteSucceeds, WriteFails, LinkLost, Restart, Disconnected
  <2>3. [mqtt |-> FALSE, influxdb |-> FALSE] \in [mqtt: BOOLEAN, influxdb: BOOLEAN]
    OBVIOUS
  <2>4. (ready \in [mqtt: BOOLEAN, influxdb: BOOLEAN])'
    <3>1. ready \in [mqtt: BOOLEAN, influxdb: BOOLEAN]
      OBVIOUS
    <3>2. [ready EXCEPT !.mqtt = FALSE] \in [mqtt: BOOLEAN, influxdb: BOOLEAN]
      BY <3>1, ReadyUpdate
    <3>3. [ready EXCEPT !.influxdb = TRUE] \in [mqtt: BOOLEAN, influxdb: BOOLEAN]
      BY <3>1, ReadyUpdate
    <3>4. [ready EXCEPT !.influxdb = FALSE] \in [mqtt: BOOLEAN, influxdb: BOOLEAN]
      BY <3>1, ReadyUpdate
    <3> HIDE DEF RestType
    <3> QED
      BY <2>2, <2>3, <3>1, <3>2, <3>3, <3>4, Zenon
  <2> QED
    BY <2>1, <2>4
<1>3. CASE UNCHANGED <<conn, ready, failures>>
  BY <1>3
<1> QED
  BY <1>1, <1>2, <1>3 DEF Next, Loop, Publish, Arrive, Take, vars

\* Every variable stays within its type.
THEOREM ArchiveTypes == Spec => []TypeOK
<1>1. Init => RestType
  BY FailuresType DEF Init, RestType
<1>2. Spec => []ArchiveInv
  BY ArchiveInit, ArchiveNext, PTL DEF Spec
<1>3. Spec => []RestType
  BY <1>1, RestNext, PTL DEF Spec
<1>4. ArchiveInv /\ RestType => TypeOK
  BY DEF ArchiveInv, WireOK, HeldOK, StoredOK, RestType, TypeOK
<1> QED
  BY <1>2, <1>3, <1>4, PTL

-----------------------------------------------------------------------------
\* The labels that the broker may receive, as LabelStream promises them.
LS == INSTANCE LabelStream

LEMMA LSNames ==
  /\ LS!Label = Label
  /\ \A s, l : LS!Admissible(s, l) <=> Admissible(s, l)
<1>1. LS!Label = Label
  BY DEF LS!Label, Label
<1>2. ASSUME NEW s, NEW l
      PROVE  LS!Admissible(s, l) <=> Admissible(s, l)
  BY DEF LS!Admissible, Admissible, LS!Continues, Continues, LS!Opens, Opens, LS!Ids, Ids
<1> QED
  BY <1>1, <1>2

Readable == wire \in Seq(Label) /\ WellFormed(wire)

\* Whatever is recorded from a label stream is a set of disjoint intervals
\* in time order, each with one fixed start and one closing label at most:
\* what telemetry-svc stores and data-pipeline reads back.
THEOREM StreamIsReadable == LS!Spec => []Readable
<1>1. LS!Init => Readable
  BY DEF LS!Init, Readable, WellFormed, StampsOrdered, StartIsFact, ClosedForGood, IntervalsDisjoint, Contiguous
<1>2. Readable /\ [LS!Next]_wire => Readable'
  BY AdmissibleKeeps, LSNames DEF LS!Next, LS!Receive, Readable
<1> QED
  BY <1>1, <1>2, PTL DEF LS!Spec

\* The labels that reach the archive are a label stream, whatever the archive
\* does with them: the injector and the archive meet in LabelStream.
THEOREM ArchiveHearsStream == Spec => LS!Spec
<1>1. Init => LS!Init
  BY DEF Init, LS!Init
<1>2. WireOK /\ [Next]_vars => [LS!Next]_wire
  <2>1. ASSUME WireOK, NEW l \in Label, Publish(l)
        PROVE  LS!Next
    <3>1. wire' = Append(wire, l) /\ Admissible(wire, l) /\ wire \in Seq(Label)
      BY <2>1 DEF Publish, WireOK
    <3>2. Len(wire') > 0 /\ wire'[Len(wire')] = l
      BY <3>1
    <3> QED
      BY <3>1, <3>2, LSNames DEF LS!Next, LS!Receive
  <2>2. [id: Commands, active: BOOLEAN, started: Times, stamp: Times] \subseteq Label
    BY TimesType DEF Label
  <2> QED
    BY <2>1, <2>2 DEF Next, vars, Loop, Arrive, Connect, Take, WriteSucceeds, WriteFails, LinkLost, Disconnected, Restart
<1>3. Spec => []WireOK
  BY ArchiveInit, ArchiveNext, PTL DEF Spec, ArchiveInv
<1> QED
  BY <1>1, <1>2, <1>3, PTL DEF Spec, LS!Spec
=============================================================================
