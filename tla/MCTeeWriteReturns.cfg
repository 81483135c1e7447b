SPECIFICATION FairSpec
CONSTANTS
    Writers = {w1, w2}
    Sinks = {s1}
    BufferSize = 2
    Sizes = {1}
    MaxBytes = 2
PROPERTIES WriteReturns
CHECK_DEADLOCK FALSE
