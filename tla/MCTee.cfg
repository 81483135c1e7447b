SPECIFICATION FairSpec
CONSTANTS
    Writers = {w1}
    Sinks = {s1, s2}
    BufferSize = 2
    Sizes = {1, 3}
    MaxBytes = 4
INVARIANTS DropsOnlyWhenFull
PROPERTIES ForwardingStops WriteReturns LastByteDelivered
CHECK_DEADLOCK FALSE
