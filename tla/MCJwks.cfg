SPECIFICATION JwksSpec
CONSTANTS
    w1 = w1
    w2 = w2
    old = old
    new = new
    NoKey = NoKey
    Process = {w1, w2}
    Secret = {old, new}
    Confs <- TheConfs
    MaxKeys = 3
    Ttl = 1
    Delay = 1
    MaxClock = 2
INVARIANT JwksTypeOK
INVARIANT RotationIsSeamless
CHECK_DEADLOCK FALSE
