CONSTANT Programs <- SsaPrograms
SPECIFICATION Spec
INVARIANTS
  TypeOK
  SameValues
  NothingUndefined
  DominatorsRight
  PhisWhereDefinitionsMeet
  CodegenFollowsTree
CHECK_DEADLOCK FALSE
