SPECIFICATION Spec
CONSTANTS
  Length = 4
  Hop = 2
  Horizon = 8
  Instants <- MCInstants
  IntervalLists <- MCIntervalLists
INVARIANTS
  LabelsRight
  NormalIsObserved
  FaultTimeIsLabelled
  LongFaultsHaveRows
\* build_table returns when there is no window left.
CHECK_DEADLOCK FALSE
