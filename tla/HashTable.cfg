CONSTANTS
  Keys = {j, k, l}
  Values = {v, w}
  Hashes <- SmallHashes
  MaxCapacity = 6
SYMMETRY Names
SPECIFICATION Spec
INVARIANTS
  TypeOK
  ProbesEnd
  IterationExact
PROPERTIES
  ActsAsMap
CHECK_DEADLOCK FALSE
