SPECIFICATION LiveSpec
CONSTANTS
  Fds = {f1, f2}
  Jobs = {j1, j2, j3}
  Failing = {j3}
  Hanging = {f2}
  InitEvents = 3
  User = User
INVARIANTS TypeOK NoLostWakeup
PROPERTIES ExecutorSpec JobsAreRun ReadyIsReported
CHECK_DEADLOCK FALSE
