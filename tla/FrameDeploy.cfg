SPECIFICATION FairSpec
CONSTANTS
    P = P
    A = A
    p1 = p1
    a1 = a1
    a2 = a2
    Nodes = {p1, a1, a2}
    Frames = {P, A}
    Kind <- MCKind
    Members <- MCMembers
    MaxDeploys = 2
    Drawn <- Grows
    MaxFaults = 1
    Repl = Repl
    None = None
INVARIANTS
    VerdictIsOwn
    StuckOnlyBesideAFailure
PROPERTIES
    ImplementsRendezvous
    RunReleased
CHECK_DEADLOCK FALSE
