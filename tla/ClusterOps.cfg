SPECIFICATION Spec
CONSTANTS
    a = a
    b = b
    c = c
    s1 = s1
    r1 = r1
    r2 = r2
    k1 = k1
    x = x
    None = None
    Members = {a, b, c}
    First = a
    Switches = {s1}
    Rebuilds = {r1, r2}
    Rollings = {k1}
    Txns = {x}
    MaxBreaks = 1
INVARIANTS
    NothingWiped
    RollingKeepsService
SYMMETRY
    Interchangeable
CHECK_DEADLOCK FALSE
