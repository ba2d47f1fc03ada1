SPECIFICATION Spec
CONSTANTS
  Codec = "Line"
  MaxSent = 3
  LineEnds = {2, 3}
  MaxIssued = 1
  MaxReply = 1
  Packet = 2
  SendBuffer = 1
  Writers = {}
  Wakers = {}
  Closers = {}
  Actions = {"None"}
INVARIANTS GivenInOrder
CHECK_DEADLOCK FALSE
