SPECIFICATION Spec
CONSTANTS
    w1 = w1
    w2 = w2
    old = old
    fresh = fresh
    Worker = {w1, w2}
    Renamer = {w1}
    Id = {old, fresh}
    First = old
    MaxFailures = 1
    Window = 2
    Passes = 2
    Stores = {"memory", "postgres", "mongo"}
    MaxClock = 2
    MaxCount = 1
    MaxRenames = 1
    None = None
SYMMETRY Symmetry
CHECK_DEADLOCK FALSE
INVARIANT TypeOK
INVARIANT GuessesPerWindow
PROPERTY ExistingFailuresAreKept
