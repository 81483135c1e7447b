SPECIFICATION KeepaliveFairSpec
CONSTANTS
    Lease = 10
    Grace = 4
    TickPeriod = 1
    Period = 2
    Timeout = 4
    RpcTimeout = 1
    MaxBackoff = 1
    Diags = {3, 4, 13}
    Stall = 1
    MaxStray = 1
INVARIANTS LeaseBound DriverGivesUpFirst DetectsDeath
PROPERTIES OrphanExits
CHECK_DEADLOCK FALSE
