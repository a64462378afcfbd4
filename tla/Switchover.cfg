SPECIFICATION FairSpec
CONSTANTS
    a = a
    b = b
    c = c
    x = x
    y = y
    Members = {a, b, c}
    First = a
    Txns = {x, y}
    MaxSwitches = 2
    MaxFaults = 2
    None = None
INVARIANTS
    AtMostOneWriter
    NothingLost
    NoDuplicate
    SuccessMovesEveryone
PROPERTY
    EveryoneConverges
CHECK_DEADLOCK FALSE
