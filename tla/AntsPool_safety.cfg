SPECIFICATION LoopSpec
CONSTANTS
  Tasks = {t1, t2, t3}
  NilTasks = {}
  Panicking = {t3}
  Workers = {w1, w2, w3}
  Purgers = {p1}
  OptionSet <- AllOptions
  TuneSizes = {1, 2}
  NoWorker = NoWorker
  Nil = Nil
  Nothing = Nothing
INVARIANTS TypeOK RunningCountsLive NonblockingOneOwner NonblockingIdleIsReceiving
           LoopHoldsItems
PROPERTIES PoolSpec
SYMMETRY WorkerAndTaskSymmetry
CHECK_DEADLOCK FALSE
