SPECIFICATION Spec
CONSTANTS
    w1 = w1
    w2 = w2
    t0 = t0
    t1 = t1
    t2 = t2
    s0 = s0
    s1 = s1
    s2 = s2
    Worker = {w1, w2}
    Token = {t0, t1, t2}
    Session = {s0, s1, s2}
    None = None
    MaxAge = 1
    AbsoluteAge = 2
    MaxClock = 1
    Faulty = TRUE
SYMMETRY Symmetry
INVARIANT TypeOK
INVARIANT RevocationReachesSessions
INVARIANT HolderKeepsSession
PROPERTY ImplementsFamily
INVARIANT ExchangedOnceInTime
CHECK_DEADLOCK FALSE
