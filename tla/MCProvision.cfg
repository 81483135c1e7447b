SPECIFICATION FairSpec
CONSTANTS
    Drivers = {"d1", "d2"}
    Instances = {1, 2}
    Count = 1
    MaxStarts <- MCMaxStarts
    CertDuration = 1
    MaxClock = 2
    Configs <- MCConfigs
    Sizes <- MCSizes
    Striped <- MCStriped
INVARIANTS StorageMatches BootAfterMount LaunchedOnce MachineTrustsDriver RefusedExpired
PROPERTIES OrphansTerminate
CHECK_DEADLOCK FALSE
