CONSTANTS
  Functions <- All
  Colors = 6
  Hashes = {1, 60}
  MaxSlots = 6
  ByteBits = 3
  ImmediateBits = 8
  WordBits = 12
  StackTop = 3992
  Signatures <- Callees
SPECIFICATION Spec
INVARIANTS
  SameValues
  StackMapSound
  NothingOverwritten
  LivenessExact
  FoldingRight
  SelectionRight
  CallsKeepFrame
CHECK_DEADLOCK FALSE
