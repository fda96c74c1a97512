SPECIFICATION FairPathSpec
CONSTANTS
  Requests = {r1, r2}
  MaxLosses = 2
  SlowBroker = TRUE
  Stray = Stray
  MaxOutages = 1
  MaxWaiting = 1
INVARIANTS
  AcceptedWasReceived
  ClientIsCurrent
PROPERTIES
  FollowsReceipts
  EveryRequestAnswered
  LossShows
  DeliveredIsTold
