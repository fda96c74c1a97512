SPECIFICATION Spec
CONSTANTS
  long = long
  short = short
  Commands <- MCCommands
  Duration <- MCDuration
  None = None
  Clear = Clear
  Invalid = Invalid
  Period = 1
  MaxInbox = 2
  MaxFailures = 1
  MaxRestarts = 0
  Horizon = 2
INVARIANT NoIntervalLeftOpen
