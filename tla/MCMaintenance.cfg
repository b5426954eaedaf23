SPECIFICATION FairMaintenance
CONSTANTS
    cron = cron
    endpoint = endpoint
    s1 = s1
    s2 = s2
    challenge = challenge
    key = key
    log = log
    Run = {cron, endpoint}
    Endpoint = {endpoint}
    Row = {s1, s2, challenge, key, log}
    KindOf <- mc_KindOf
    Deployments <- mc_Deployments
    Life = 1
    MaxClock = 3
    MaxFaults = 1
INVARIANT MaintenanceTypeOK
PROPERTY EventuallyClean
PROPERTY RemovalIsTrue
CHECK_DEADLOCK FALSE
