SPECIFICATION FairSpec
CONSTANTS
    g1 = g1
    g2 = g2
    t1 = t1
    Host = Host
    None = None
    Guests = {g1, g2}
    Terms = {t1}
    Hubs = {1, 2}
INVARIANTS
    RunningHubIsRegistered
    AbsentDriverIsTimed
    EndReachesEveryone
PROPERTIES
    DriverLosesControl
    SessionEndsForEveryone
CHECK_DEADLOCK FALSE
