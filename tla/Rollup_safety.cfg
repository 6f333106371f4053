\* Two segments of one chat, three workers, an upgrade, a purge, a failure and crashes.
CONSTANTS
    Chats <- OneChat
    N = 2
    Segments = 2
    MaxFailures = 1
    Sweeps <- OneSweep
    CanPurge = TRUE
    CanUpgrade = TRUE
    CanCrash = TRUE
    RunsCli = TRUE
SPECIFICATION Spec
INVARIANTS ContentMatchesWatermark CurrentIsRebuilt
CHECK_DEADLOCK FALSE
