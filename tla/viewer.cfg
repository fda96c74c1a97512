SPECIFICATION FairSpec
CONSTANTS
  Channels <- MCChannels
  Stamps <- MCStamps
  Subscribers <- MCSubscribers
  Limited = {p1}
  Pages = {p1}
  Clients = {c1}
  Flow = 1
  MaxFailures = 2
PROPERTIES
  NeverBack
  LatestArrives
  Recovers
  LeftIsForgotten
