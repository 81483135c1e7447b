SPECIFICATION FairSpec
CONSTANTS
    Callers = {}
    Waiters = {}
    Services = {s1}
    Owners = {TRUE}
    HasSystem = TRUE
    NoExec = FALSE
    MaxOOM = 1
PROPERTY StateMonotonic
