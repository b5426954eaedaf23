SPECIFICATION Spec
CONSTANTS
    w1 = w1
    w2 = w2
    adm = adm
    c0 = c0
    c1 = c1
    pw1 = pw1
    pw2 = pw2
    NoPassword = NoPassword
    None = None
    Client = {w1, w2}
    Admin = adm
    Chain = {c0, c1}
    First = c0
    MaxGen = 2
    Password = {pw1, pw2}
    Initial = pw1
    Mixes = {{"sign_in", "refresh", "reset"},
             {"sign_in", "refresh", "status", "crash"},
             {"sign_in", "refresh", "set", "change"},
             {"sign_in", "refresh", "revoke", "sign_out", "crash"}}
SYMMETRY Symmetry
INVARIANT TypeOK
INVARIANT PasswordIsChosen
INVARIANT SuspendedHoldsNoSession
INVARIANT RevocationIsExact
CHECK_DEADLOCK FALSE
