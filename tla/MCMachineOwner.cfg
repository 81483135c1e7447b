SPECIFICATION Spec
CONSTANTS
    Callers = {c1}
    Waiters = {w1}
    Services = {s1}
    Owners = {TRUE}
    HasSystem = TRUE
    NoExec = FALSE
    MaxOOM = 1
INVARIANTS StoppedCancelsCalls StoppedHasErr NoLostWakeup NoDoubleClose
