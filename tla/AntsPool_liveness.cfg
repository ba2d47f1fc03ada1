SPECIFICATION LoopFairSpec
CONSTANTS
  Tasks = {t1, t2}
  NilTasks = {}
  Panicking = {t2}
  Workers = {w1, w2}
  Purgers = {p1}
  OptionSet <- NonblockingOptions
  TuneSizes = {1, 2}
  NoWorker = NoWorker
  Nil = Nil
  Nothing = Nothing
PROPERTIES AcceptedRuns ReleaseReturns PurgeDrains
CHECK_DEADLOCK FALSE
