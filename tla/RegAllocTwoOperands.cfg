CONSTANTS
  Functions <- SpilledSum
  Colors = 14
  Hashes = {30}
  MaxSlots = 6
  ByteBits = 3
  ImmediateBits = 8
  WordBits = 12
  StackTop = 3992
  Signatures <- Callees
SPECIFICATION Spec
INVARIANT OperandsTied
CHECK_DEADLOCK FALSE
