----------------------------- MODULE FaultLabels -----------------------------
(***************************************************************************)
(* The ground-truth labels (contracts FaultState) that travel on           *)
(* twin/<asset>/fault/state, and what a sequence of them has to satisfy to *)
(* be read as a set of experiments, each one a closed interval of time.    *)
(*                                                                         *)
(* A label's kind, joint and severity are functions of the command it      *)
(* names and of its active flag (the contract's _kind_matches_active), so  *)
(* the model keeps the four fields that carry information of their own.    *)
(***************************************************************************)
EXTENDS Naturals, Sequences

CONSTANT Commands         \* ids of the fault commands an operator may send

Label == [id: Commands, active: BOOLEAN, started: Nat, stamp: Nat]

\* The command ids that a sequence of labels mentions.
Ids(s) == {s[i].id : i \in DOMAIN s}

-----------------------------------------------------------------------------
\* What makes a sequence of labels readable.

\* Label times never run backwards.
StampsOrdered(s) ==
  \A i, j \in DOMAIN s : i < j => s[i].stamp <= s[j].stamp

\* All the labels of an experiment state the same injection time, and none
\* was stamped before it.
StartIsFact(s) ==
  /\ \A i \in DOMAIN s : s[i].started <= s[i].stamp
  /\ \A i, j \in DOMAIN s : s[i].id = s[j].id => s[i].started = s[j].started

\* Nothing follows an experiment's closing label: one closing label at most,
\* and no heartbeat of a fault that has already been declared over.
ClosedForGood(s) ==
  \A i, j \in DOMAIN s : i < j /\ s[i].id = s[j].id => s[i].active

\* An experiment starts after everything said about the earlier ones: the
\* intervals read off the labels do not overlap.
IntervalsDisjoint(s) ==
  \A i, j \in DOMAIN s : i < j /\ s[i].id # s[j].id => s[i].stamp <= s[j].started

\* The labels of an experiment are not interleaved with another's.
Contiguous(s) ==
  \A i, j, k \in DOMAIN s : i < j /\ j < k /\ s[i].id = s[k].id => s[j].id = s[i].id

WellFormed(s) ==
  /\ StampsOrdered(s)
  /\ StartIsFact(s)
  /\ ClosedForGood(s)
  /\ IntervalsDisjoint(s)
  /\ Contiguous(s)

-----------------------------------------------------------------------------
\* Label l continues the experiment that the last label of s is about.
Continues(s, l) ==
  LET last == s[Len(s)] IN
  /\ last.active
  /\ l.id = last.id
  /\ l.started = last.started
  /\ last.stamp <= l.stamp

\* Label l is the first one seen of a new experiment.
Opens(s, l) ==
  /\ l.id \notin Ids(s)
  /\ s # <<>> => s[Len(s)].stamp <= l.started

\* The labels that may come after s.
Admissible(s, l) ==
  /\ l.started <= l.stamp
  /\ \/ s # <<>> /\ Continues(s, l)
     \/ Opens(s, l)

\* The same, stated against every label of s instead of the last one: how
\* the session's next label relates to all that it has published.
Fits(s, l) ==
  /\ l.started <= l.stamp
  /\ \A i \in DOMAIN s :
       /\ s[i].stamp <= l.stamp
       /\ s[i].id = l.id => s[i].active /\ s[i].started = l.started
       /\ s[i].id # l.id => s[i].stamp <= l.started
       /\ \A j \in DOMAIN s : i < j /\ s[i].id = l.id => s[j].id = l.id
=============================================================================
