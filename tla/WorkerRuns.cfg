SPECIFICATION FairSpec
CHECK_DEADLOCK FALSE
CONSTANTS
  Task = {t1}
  MaxAssignments = 6
  LastPiece = 3
  MaximumAnswerPieces = 3
  MaxAttempts = 2
  MaxExpiries = 2
  MaxHeartbeats = 1
INVARIANTS
  CurrentRunKeepsItsAnswer
  NothingReadForNobody
  LeaseExtendedWhileRunning
  NoPieceDroppedByTheWorker
  PiecesArriveInOrder
PROPERTIES
  CancelledRunsStaySilent
  EveryAssignmentIsSettled
