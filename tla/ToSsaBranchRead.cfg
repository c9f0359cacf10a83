CONSTANT Programs <- BranchRead
SPECIFICATION Spec
INVARIANT SameValues
CHECK_DEADLOCK FALSE
