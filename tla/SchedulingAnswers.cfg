SPECIFICATION Spec
CONSTANTS
  Task = {t1, t2}
  Worker = {w1, w2}
  NoWorker = NoWorker
  StageCount = 1
  Repeats = TRUE
  Sticky = {1}
  ResultValues = {"continuation", "done"}
  Offers = {{1}}
  Limits = {1, 2}
  MaxAttempts = 1
  MaxActiveTasks = 2
  Reregisters = FALSE
  MaxStageRuns = 2
  MaxRenewals = 0
SYMMETRY Symmetry
INVARIANTS
  NoStrandedTask
  HeldByConnectedWorker
  NoTaskPassedOver
  CountsEveryAssignment
  ContinuationAtItsHolder
PROPERTIES
  NeverOverbooked
