SPECIFICATION FairSpec
CONSTANTS
    Machines = {1, 2}
    r1 = r1
    r2 = r2
    Requests = {r1, r2}
    Mixes <- MCMixes
    Owned = {1}
    Debugs = {r1}
    Singles = {r2}
INVARIANTS NothingLeft OneProfiler Complete
PROPERTIES RequestsEnd
CHECK_DEADLOCK FALSE
