SPECIFICATION Spec
CONSTANTS
  Channels <- MCChannels
  Stamps <- MCStamps
  Length = 2
  Hop = 1
  NoScore = NoScore
  MaxFailures = 0
  Horizon = 5
INVARIANT OnlyReadyScores
CHECK_DEADLOCK FALSE
