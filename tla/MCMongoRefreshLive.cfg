SPECIFICATION FairSpec
CONSTANTS
    w1 = w1
    w2 = w2
    t0 = t0
    t1 = t1
    t2 = t2
    s0 = s0
    s1 = s1
    s2 = s2
    Worker = {w1, w2}
    Token = {t0, t1, t2}
    Session = {s0, s1, s2}
    None = None
    MaxAge = 2
    AbsoluteAge = 2
    MaxClock = 0
    Faulty = FALSE
INVARIANT SignOutEndsFamily
PROPERTY RevocationCompletes
CHECK_DEADLOCK FALSE
