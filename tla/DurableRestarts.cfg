SPECIFICATION DurableSpec
CONSTANTS
  Task = {t1}
  Worker = {w1, w2}
  NoWorker = NoWorker
  StageCount = 2
  Repeats = TRUE
  Sticky = {2}
  ResultValues = {"plain", "done"}
  Offers = {{1, 2}}
  Limits = {1}
  MaxAttempts = 2
  MaxActiveTasks = 2
  Reregisters = TRUE
  MaxStageRuns = 2
  MaxRenewals = 1
  MaxCrashes = 1
  CutOff = TRUE
SYMMETRY WorkerSymmetry
INVARIANTS
  TypeOK
  PaidOnceForAcceptedWork
  EachStageCountedOnce
  AttemptsWithinBudget
  CurrentIsNotWithdrawn
PROPERTIES
  StrandedOnlyBehindAStage
  FinishedIsForGood
  ImplementsLifecycle
  RetryMovesAway
