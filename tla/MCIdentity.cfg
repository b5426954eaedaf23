SPECIFICATION Spec
CONSTANTS
    w1 = w1
    w2 = w2
    u1 = u1
    u2 = u2
    x = x
    y = y
    z = z
    MaxAsked = 3
    Anyone = Anyone
    None = None
    Worker = {w1, w2}
    User = {u1, u2}
    Address = {x, y, z}
    Mixes = {{"change_link", "change_otp", "sign_up"},
             {"change_link", "profile", "delete"},
             {"change_link", "verify_link"},
             {"change_otp", "profile", "status"},
             {"sign_up", "verify_otp", "profile"},
             {"sign_up", "otp_sign_in", "profile", "verify_link", "status"}}
SYMMETRY Symmetry
INVARIANT TypeOK
PROPERTY LateWritesAreHarmless
CHECK_DEADLOCK FALSE
