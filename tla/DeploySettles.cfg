SPECIFICATION FairSpec
CONSTANTS
    n1 = n1
    n2 = n2
    d1 = d1
    d2 = d2
    t1 = t1
    Nodes = {n1, n2}
    Loud = {n1}
    Designs = {{n1, n2}}
    Deploys = {d1}
    Teardowns = {t1}
    MaxCrashes = 1
    None = None
    Background = Background
    Tail = Tail
INVARIANT
    InFlightHasBuilder
PROPERTIES
    RunReleased
    RowsSettle
CHECK_DEADLOCK FALSE
