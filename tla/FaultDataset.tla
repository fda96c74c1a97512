---------------------------- MODULE FaultDataset ----------------------------
(***************************************************************************)
(* How fault labels become rows of the fault_state measurement             *)
(* (telemetry_svc/ingest.py, _fault_point) and how the rows become the     *)
(* fault intervals of a dataset (data_pipeline/query.py).                  *)
(***************************************************************************)
EXTENDS FaultLabels, FiniteSetsExt

CONSTANTS Joint,          \* the joint a command targets, AllJoints for none
          Kind,           \* the kind of fault a command asks for
          AllJoints,      \* the tag of an untargeted fault and of a closing label
          NoKind,         \* the kind of a closing label
          ToNs(_)         \* a row's time as the query reads it: _to_ns, which
                          \* cuts the nanoseconds by way of a float datetime

ASSUME CommandsFinite == IsFiniteSet(Commands)
ASSUME KindType == \A c \in Commands : Kind[c] # NoKind

\* The tags of a label's row; the rows with the same tags form one table of
\* a query's answer.
Tags(l) ==
  IF l.active THEN [joint |-> Joint[l.id], kind |-> Kind[l.id]]
              ELSE [joint |-> AllJoints, kind |-> NoKind]

AllTags ==
  {[joint |-> AllJoints, kind |-> NoKind]} \union
    {[joint |-> Joint[c], kind |-> Kind[c]] : c \in Commands}

\* Writing a label's row replaces the row with the same tags and time, as
\* InfluxDB does.
Written(db, l) ==
  {row \in db : Tags(row) # Tags(l) \/ row.stamp # l.stamp} \union {l}

-----------------------------------------------------------------------------
\* The order in which a query answers its tables: InfluxDB's choice.
TableOrders ==
  {rank \in [AllTags -> 1..Cardinality(AllTags)] :
     \A t, u \in AllTags : rank[t] = rank[u] => t = u}

\* Row l comes before row m: tables in their order, sorted by time inside.
Before(rank, l, m) ==
  \/ rank[Tags(l)] < rank[Tags(m)]
  \/ Tags(l) = Tags(m) /\ l.stamp < m.stamp

RowsOf(db, c) == {l \in db : l.id = c}

FirstRow(db, rank, c) ==
  CHOOSE l \in RowsOf(db, c) : \A m \in RowsOf(db, c) \ {l} : Before(rank, l, m)

LastRow(db, rank, c) ==
  CHOOSE l \in RowsOf(db, c) : \A m \in RowsOf(db, c) \ {l} : Before(rank, m, l)

\* Mutant: an interval starts at its first row instead of at the injection.
IntervalsFromFirstRow(db, rank) ==
  {[id |-> c, start |-> ToNs(FirstRow(db, rank, c).stamp), end |-> ToNs(LastRow(db, rank, c).stamp)] :
     c \in {l.id : l \in {m \in db : m.active}}}

\* Mutant: the first row's time is kept as the end.
IntervalsToFirstRow(db, rank) ==
  {[id |-> c, start |-> FirstRow(db, rank, c).started, end |-> ToNs(FirstRow(db, rank, c).stamp)] :
     c \in {l.id : l \in {m \in db : m.active}}}

\* fetch_fault_intervals: the start is the first row's and is never replaced,
\* the end is every row's in turn, and an experiment no row of which is
\* active has no interval.  The end is a time of the database and is cut, the
\* start is a field of the row and is exact.
FaultIntervals(db, rank) ==
  {[id |-> c, start |-> FirstRow(db, rank, c).started, end |-> ToNs(LastRow(db, rank, c).stamp)] :
     c \in {l.id : l \in {m \in db : m.active}}}
=============================================================================
