SPECIFICATION DurableFairSpec
CONSTANTS
  Task = {t1}
  Worker = {w1, w2}
  NoWorker = NoWorker
  StageCount = 1
  Repeats = TRUE
  Sticky = {1}
  ResultValues = {"continuation", "done"}
  Offers = {{1}}
  Limits = {1}
  MaxAttempts = 2
  MaxActiveTasks = 2
  Reregisters = FALSE
  MaxStageRuns = 2
  MaxRenewals = 0
  MaxCrashes = 1
  CutOff = FALSE
PROPERTIES
  TasksSurviveRestart
