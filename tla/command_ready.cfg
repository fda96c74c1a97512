SPECIFICATION FairSpec
CONSTANTS
  Requests = {r1, r2, r3}
  MaxLosses = 2
  SlowBroker = FALSE
PROPERTY ReadyAgain
