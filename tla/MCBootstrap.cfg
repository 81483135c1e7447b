SPECIFICATION Spec
CONSTANTS
    Services = {s1, s2}
    BootKnows = FALSE
    MaxFaults = 3
    MaxTries = 2
INVARIANTS ExecConfigured ServicesServed ServedIsInitialized
CHECK_DEADLOCK FALSE
