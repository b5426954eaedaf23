SPECIFICATION FairSpec
CONSTANTS
    p1 = p1
    p2 = p2
    Runner = {p1, p2}
    MaxRelease = 2
    Element <- TheElements
    Builds <- TheBuilds
    Confs <- TheConfs
    Newest = 3
    MaxCrashes = 2
INVARIANT TypeOK
PROPERTY Converges
INVARIANT MigratedIsSound
CHECK_DEADLOCK FALSE
