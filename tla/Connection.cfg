SPECIFICATION LiveSpec
CONSTANTS
  Codec = "BuiltIn"
  MaxSent = 2
  LineEnds = {}
  MaxIssued = 4
  MaxReply = 2
  Packet = 2
  SendBuffer = 2
  Writers = {w1}
  Wakers = {k1}
  Closers = {c1}
  Actions = {"None", "Close", "Shutdown"}
INVARIANTS TypeOK OutputInOrder InputInOrder WriteRegistered ClosedOnce
PROPERTIES OutputFlows InputIsRead
CHECK_DEADLOCK FALSE
