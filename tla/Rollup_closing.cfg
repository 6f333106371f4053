\* Two segments and one failure: does every segment close?
CONSTANTS
    Chats <- OneChat
    N = 1
    Segments = 2
    MaxFailures = 1
    Sweeps <- OneSweep
    CanPurge = FALSE
    CanUpgrade = FALSE
    CanCrash = FALSE
    RunsCli = FALSE
SPECIFICATION FairSpec
PROPERTY IdleSessionsClose
CHECK_DEADLOCK FALSE
