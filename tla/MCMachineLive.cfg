SPECIFICATION FairSpec
CONSTANTS
    Callers = {c1}
    Waiters = {w1}
    Services = {s1}
    Owners = {TRUE, FALSE}
    HasSystem = FALSE
    NoExec = FALSE
    MaxOOM = 0
INVARIANTS CtxErrIsCallers
PROPERTIES CancelStops ImplementsLifecycle
