SPECIFICATION Spec
CONSTANTS
  Calls = {c1, c2, c3}
  NilArgs = {}
  Panicking = {c3}
  Workers = {w1, w2, w3}
  Purgers = {p1}
  OptionSet <- AllOptions
  TuneSizes = {1, 2}
  NoWorker = NoWorker
  Nil = Nil
  Nothing = Nothing
INVARIANTS TypeOK RunningCountsLive BlockedCountExact OneOwnerUntilTick NoIdleWhileWaiting
PROPERTIES PoolSpec
SYMMETRY WorkerAndCallSymmetry
CHECK_DEADLOCK FALSE
