SPECIFICATION Spec
CONSTANTS
    a = a
    b = b
    c = c
    x = x
    y = y
    Members = {a, b, c}
    First = a
    Txns = {x, y}
    MaxSwitches = 1
    MaxFaults = 1
    None = None
INVARIANT
    WritesAreBack
CHECK_DEADLOCK FALSE
