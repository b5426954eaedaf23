SPECIFICATION Spec
CONSTANTS
    w1 = w1
    w2 = w2
    a = a
    b = b
    Worker = {w1, w2}
    Code = {a, b}
    MaxAttempts = 2
    Limited = TRUE
    Lifetime = 1
    MaxClock = 2
    MaxIssues = 2
    MaxMisses = 2
    Mongo = TRUE
    None = None
SYMMETRY Symmetry
INVARIANT TypeOK
INVARIANT GuessesAreBounded
INVARIANT PipelineAgrees
INVARIANT WorksOnceInTime
CHECK_DEADLOCK FALSE
