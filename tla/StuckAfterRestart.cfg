SPECIFICATION DurableFairSpec
CONSTANTS
  Task = {t1}
  Worker = {w1, w2}
  NoWorker = NoWorker
  StageCount = 1
  Repeats = FALSE
  Sticky = {}
  ResultValues = {"plain"}
  Offers = {{1}}
  Limits = {1}
  MaxAttempts = 2
  MaxActiveTasks = 2
  Reregisters = FALSE
  MaxStageRuns = 1
  MaxRenewals = 0
  MaxCrashes = 1
  CutOff = TRUE
PROPERTIES
  TasksSurviveRestart
