CONSTANTS
    Start <- SomeStart
    Impls <- SomeImpls
    Equations <- SomeEquations
    Iterations <- SomeIterations
    Questions <- SomeQuestions
    Concrete <- SomeConcrete
    MaxRequests = 3
SPECIFICATION Spec
CHECK_DEADLOCK FALSE
INVARIANTS
    TypeOK
    UnifiedStaySame
    ConstraintsHold
    RefusedUnsolvable
    OneInstancePerType
    SubtypeIsSubset
