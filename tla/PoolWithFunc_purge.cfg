SPECIFICATION Spec
CONSTANTS
  Calls = {c1, c2}
  NilArgs = {}
  Panicking = {}
  Workers = {w1, w2}
  Purgers = {p1}
  OptionSet <- Ticking
  TuneSizes = {}
  NoWorker = NoWorker
  Nil = Nil
  Nothing = Nothing
INVARIANTS IdleIsReceiving
SYMMETRY WorkerSymmetry
CHECK_DEADLOCK FALSE
