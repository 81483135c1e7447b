SPECIFICATION StatsSpec
CONSTANTS
    c1 = c1
    c2 = c2
    StatsCalls = {c1, c2}
    Addr <- MCAddr
    Method <- MCMethod
    NoAddr = "none"
    Elapsed <- MCElapsed
INVARIANTS CountsKept MaxKept
CHECK_DEADLOCK FALSE
