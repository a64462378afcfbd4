SPECIFICATION Spec
CONSTANTS
    n1 = n1
    n2 = n2
    d1 = d1
    d2 = d2
    t1 = t1
    Nodes = {n1}
    Loud = {}
    Designs = {{n1}, {}}
    Deploys = {d1, d2}
    Teardowns = {t1}
    MaxCrashes = 0
    None = None
    Background = Background
    Tail = Tail
INVARIANTS
    TypeOK
    OneProvisionerPerNode
    RowHasOneWriter
    TeardownIsFinal
CHECK_DEADLOCK FALSE
