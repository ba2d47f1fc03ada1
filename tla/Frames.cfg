SPECIFICATION Spec
CONSTANTS
  Radix = 3
  MaxMessages = 2
  Messages <- AllMessages
  Codecs <- AllCodecs
INVARIANTS RoundTrip
CHECK_DEADLOCK FALSE
