SPECIFICATION Spec
CONSTANTS
  Tasks = {t1, t2, t3}
  NilTasks = {}
  Panicking = {}
  Workers = {w1, w2}
  Purgers = {p1, p2}
  OptionSet <- TwoWorkers
  TuneSizes = {}
  NoWorker = NoWorker
  Nil = Nil
  Nothing = Nothing
INVARIANT PurgedAlone
CHECK_DEADLOCK FALSE
