CONSTANTS
  InitialWords = 12
  PageWords = 4
  MaxWords = 64
  Requests <- SomeRequests
SPECIFICATION FairSpec
INVARIANTS
  TypeOK
  ToSpaceFits
  OnlyExactFitFails
  GrowthBounded
PROPERTIES
  AtMostHalfFull
  AllocationEnds
CHECK_DEADLOCK FALSE
