SPECIFICATION FairSpec
CONSTANTS
    r1 = r1
    r2 = r2
    s1 = s1
    s2 = s2
    h1 = h1
    h2 = h2
    h3 = h3
    auditor = auditor
    public = public
    private = private
    None = None
    Plugins = 2
    Event <- mc_Event
    Handler = {h1, h2, h3, auditor}
    Subscribed <- mc_Subscribed
    Confs <- mc_Confs
    Request = {r1, r2}
    Session = {s1, s2}
    Candidates <- mc_Candidates
    Idle = 1
    Window = 2
    MaxClock = 2
    Name = {public, private}
INVARIANT TypeOK
INVARIANT LifespanIsTrue
INVARIANT SeenWithSession
INVARIANT EventsReachHandlers
PROPERTY RevokedStaysGone
PROPERTY EverythingEnds
CHECK_DEADLOCK FALSE
