SPECIFICATION Spec
CONSTANTS
    o1 = o1
    o2 = o2
    p1 = p1
    p2 = p2
    Ports = {p1, p2}
    Owners = {o1, o2}
    MaxPublish = 1
    MaxFaults = 0
    None = None
INVARIANT
    NoPortGivenTwice
CHECK_DEADLOCK FALSE
