SPECIFICATION FairSpec
CONSTANTS
  long = long
  short = short
  Commands <- MCCommands
  Duration <- MCDuration
  None = None
  Clear = Clear
  Invalid = Invalid
  Period = 1
  MaxInbox = 1
  MaxFailures = 1
  MaxRestarts = 1
  Horizon = 2
INVARIANTS
  TypeOK
  NothingAfterClosing
  ExperimentsDisjoint
  ClosedUnlessFailure
PROPERTIES
  ImplementsLabelStream
  FaultEnds
  EveryCommandRecorded
