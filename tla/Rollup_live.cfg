\* Two segments, two overlapping sweeps, an upgrade, a failure and crashes: do the
\* sweeps close the latest segment?
CONSTANTS
    Chats <- OneChat
    N = 2
    Segments = 2
    MaxFailures = 1
    Sweeps <- TwoSweeps
    CanPurge = FALSE
    CanUpgrade = TRUE
    CanCrash = TRUE
    RunsCli = FALSE
SPECIFICATION FairSpec
PROPERTY LatestCloses
CHECK_DEADLOCK FALSE
