SPECIFICATION ReleaseSpec
CONSTANTS
  Schedule <- MCSchedule
  Commands <- MCCommands
  Duration <- MCDuration
  None = 0
  Clear = Clear
  Invalid = Invalid
  Period = 2
  MaxInbox = 1
  MaxFailures = 0
  MaxRestarts = 0
  Horizon = 1000
  Latency = 1
  Length = 2
  Trail = 2
  Drain = 3
  Spans <- MCSpans
  Rank <- MCRank
  MaxBuilds = 2
  MaxDeaths = 1
  Nothing = Nothing
INVARIANTS
  FaultsRunTheirCourse
  FaultsShow
  NormalsJudgedClean
  
  ServedPairWhole
  LongerDataUnseen
  ReportIsFair
