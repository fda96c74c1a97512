--------------------------- MODULE MCTrainingTable ---------------------------
(***************************************************************************)
(* Instances of TrainingTable for TLC: all lists of at most two faults     *)
(* that do not overlap (what DatasetSound says of an archive), in either   *)
(* order.  An end may precede its start by a grain of the query's clock.   *)
(***************************************************************************)
EXTENDS TrainingTable

CONSTANT Horizon          \* bound: the last instant at which a fault may end

MCInstants == 0..(Horizon - 1)

MCIntervals == {f \in [start: 0..Horizon, end: 0..Horizon] : f.start <= f.end + 1}

MCIntervalLists ==
  {<<>>} \union {<<f>> : f \in MCIntervals}
    \union {<<f, g>> : <<f, g>> \in
              {p \in MCIntervals \X MCIntervals : p[1].end <= p[2].start \/ p[2].end <= p[1].start}}
=============================================================================
