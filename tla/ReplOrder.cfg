SPECIFICATION Spec
CONSTANTS
    Nodes = {1, 2, 3}
    Topologies <- BidirThenChain
    MaxPasses = 1
    MaxRedraws = 0
    MaxFaults = 0
    MaxWrites = 1
INVARIANT
    NoFatalGap
CHECK_DEADLOCK FALSE
