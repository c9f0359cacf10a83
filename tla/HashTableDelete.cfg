CONSTANTS
  Keys = {j, k, l}
  Values = {v, w}
  Hashes <- SmallHashes
  MaxCapacity = 6
SPECIFICATION Spec
PROPERTY DeletePanicsOnlyIfAbsent
CHECK_DEADLOCK FALSE
