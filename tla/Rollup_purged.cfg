\* Two chats, one purged while an elepha rollup is in flight.
CONSTANTS
    Chats <- TwoChats
    N = 1
    Segments = 1
    MaxFailures = 0
    Sweeps <- OneSweep
    CanPurge = TRUE
    CanUpgrade = FALSE
    CanCrash = TRUE
    RunsCli = TRUE
SPECIFICATION Spec
INVARIANT PurgedStaysGone
CHECK_DEADLOCK FALSE
