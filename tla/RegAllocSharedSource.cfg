CONSTANTS
  Functions <- SharedSource
  Colors = 6
  Hashes = {1}
  MaxSlots = 6
  ByteBits = 3
  ImmediateBits = 8
  WordBits = 12
  StackTop = 3992
  Signatures <- Callees
SPECIFICATION Spec
INVARIANT SameValues
CHECK_DEADLOCK FALSE
