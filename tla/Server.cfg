SPECIFICATION LiveSpec
CONSTANTS
  NumEventLoop = 2
  MaxRenumber = 1
  OptionSet <- AllOptions
INVARIANTS TypeOK OnShutdownLast TicktockClosedOnce
PROPERTIES StopReturns
CHECK_DEADLOCK FALSE
