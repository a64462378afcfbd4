SPECIFICATION FairSpec
CONSTANTS
    n1 = n1
    n2 = n2
    e1 = e1
    e2 = e2
    p1 = p1
    s1 = s1
    d1 = d1
    None = None
    Nodes = {n1, n2}
    Drawn = {n1}
    Edits = {e1, e2}
    Puts = {p1}
    Promotes = {s1}
    Deploys = {d1}
INVARIANTS
    DeployedAsRead
PROPERTIES
    FrozenOnceRowsExist
    EditsSurvive
    RemovedIsTornDown
CHECK_DEADLOCK FALSE
