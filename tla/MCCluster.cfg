SPECIFICATION FairSpec
CONSTANTS
    N = 3
    Addrs = {a1, a2}
    Reuse = TRUE
    Wanted = 2
    Procs = 1
    NSamples = 5
INVARIANTS DialShares NotForgotten EstimateComplete
PROPERTY MainEnds
CHECK_DEADLOCK FALSE
