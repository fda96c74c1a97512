SPECIFICATION FairSpec
CONSTANTS
  Samples <- MCSamples
  Faults <- MCFaults
  Kind <- MCKind
  Malformed = {2}
  Breaks <- MCBreaks
  Invalid = {3}
  Depth = 1
  Channels = 2
  MaxQueue = 1
  MaxFailures = 1
  Horizon = 1
INVARIANTS
  PerturbedIsLabelled
  FaultsStartAfresh
  NothingVanishes
  LossBounded
  OrderKept
PROPERTY EverySampleLeaves
\* The simulation ends after the last sample.
CHECK_DEADLOCK FALSE
