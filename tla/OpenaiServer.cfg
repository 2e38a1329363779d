SPECIFICATION FairSpec
CHECK_DEADLOCK FALSE
CONSTANTS
  Request = {r1, r2}
  MaxInFlight = 1
  MaxPieces = 1
  ReportsUsage = TRUE
INVARIANTS
  OneConnection
  WellFormedResponse
  FinishedStreamIsTheAnswer
  LogTellsTheExchange
  AbandonedOnlyWhenUnknown
PROPERTIES
  EveryRequestIsAnswered
