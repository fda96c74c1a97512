SPECIFICATION FairSpec
CONSTANTS
  encoder = encoder
  stuck = stuck
  elbow = elbow
  all = all
  none = none
  one = one
  two = two
  Commands <- MCCommands
  Kind <- MCKind
  Joint <- MCJoint
  AllJoints = all
  NoKind = none
  ToNs <- MCToNs
  Grain = 2
  Times <- MCTimes
  Reading = Reading
  Malformed = Malformed
  Nothing = Nothing
  MaxLabels = 4
  MaxQueue = 1
  MaxFailures = 1
INVARIANTS
  DatasetSound
  EndIsClosingWhenLast
PROPERTIES
  BrokerLossShows
  Recovers
