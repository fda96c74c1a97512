SPECIFICATION FairSpec
CONSTANTS
  Channels <- MCChannels
  Stamps <- MCStamps
  Length = 2
  Hop = 1
  NoScore = NoScore
  MaxFailures = 1
  Horizon = 5
INVARIANT WindowExact
PROPERTY BrokerLossShows
\* The clock is bounded: the service idles when it stops.
CHECK_DEADLOCK FALSE
