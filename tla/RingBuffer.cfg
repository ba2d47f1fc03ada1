SPECIFICATION Spec
CONSTANTS
  Byte = {0, 1}
  Zero = 0
  Payloads <- SomePayloads
  Lengths <- SomeLengths
  StartSizes = {0, 2}
  InitSize = 4
  PowerAtLeast <- CeilToPowerOfTwo
  MaxSize = 8
INVARIANTS TypeOK AccessorsAgree
PROPERTIES QueueSpec
