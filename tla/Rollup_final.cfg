\* One segment, nothing fails: does 'final' mean every stored turn is folded in?
CONSTANTS
    Chats <- OneChat
    N = 2
    Segments = 1
    MaxFailures = 0
    Sweeps <- OneSweep
    CanPurge = FALSE
    CanUpgrade = FALSE
    CanCrash = FALSE
    RunsCli = FALSE
SPECIFICATION Spec
INVARIANT FinalIsComplete
CHECK_DEADLOCK FALSE
