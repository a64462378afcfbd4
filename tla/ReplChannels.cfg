SPECIFICATION FairSpec
CONSTANTS
    Nodes = {1, 2, 3}
    Topologies <- Plain
    MaxPasses = 2
    MaxRedraws = 1
    MaxFaults = 1
    MaxWrites = 1
INVARIANTS
    NothingSkippedOnKeptChannels
    NoFatalGapUndisturbed
PROPERTY
    CatchesUp
CHECK_DEADLOCK FALSE
