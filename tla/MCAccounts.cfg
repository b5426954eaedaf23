SPECIFICATION Spec
CONSTANTS
    r1 = r1
    r2 = r2
    r3 = r3
    Old = old
    a = a
    b = b
    n = n
    None = None
    Request = {r1, r2, r3}
    Email = {a, b}
    Username = {n}
    Confs <- mc_Confs
INVARIANT TypeOK
INVARIANT IdentityIsWhole
INVARIANT DeletedIsGone
CHECK_DEADLOCK FALSE
