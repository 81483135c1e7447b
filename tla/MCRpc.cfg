SPECIFICATION Spec
CONSTANTS
    Calls = {c1, c2, c3}
    Streams = {c3}
    Receivers = {r1, r2}
    AppErrors <- MCAppErrors
INVARIANTS NetIsLocal OkMeansRun MethodErrorReaches FailedClientGone IdleReclaimed
SYMMETRY MCSymmetry
CHECK_DEADLOCK FALSE
