SPECIFICATION KeySpec
CONSTANTS
    Absent = Absent
    v1 = v1
    v2 = v2
    Caller = {v1, v2}
    Confs <- TheConfs
    MaxClock = 2
    MaxCalls = 4
SYMMETRY Symmetry
INVARIANT KeyTypeOK
INVARIANT NoAnswerAfterRevocation
INVARIANT UsesAreBounded
CHECK_DEADLOCK FALSE
