SPECIFICATION Spec
CHECK_DEADLOCK FALSE
CONSTANTS
  Task = {t1}
  MaxAssignments = 3
  LastPiece = 2
  MaximumAnswerPieces = 3
  MaxAttempts = 2
  MaxExpiries = 1
  MaxHeartbeats = 0
INVARIANTS
  NoPieceIsLost
