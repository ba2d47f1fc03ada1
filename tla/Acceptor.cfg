SPECIFICATION Spec
CONSTANTS
  NumEventLoop = 2
  MaxFd = 3
  MaxConns = 3
  MaxBatch = 2
  OptionSet <- AllOptions
INVARIANTS TypeOK CountsMatch SocketsAccounted EventsForOwner
PROPERTIES NextNearMinimal
CHECK_DEADLOCK FALSE
