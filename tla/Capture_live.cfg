\* One process, six turns of two projects, three of which leave no memory; room
\* enough, crashes, decisions and purges at any time.
CONSTANTS
    N = 6
    Kind <- Kinds6
    Quotes <- Quotes6
    Boundary <- Boundary6
    Roots <- TwoRoots
    FileRoot = "p"
    TurnRoot <- TwoRoots6
    Daemon = "daemon"
    Backfills = {}
    ReceiptRoom = 1
    CanFill = FALSE
    Long = {}
    Derives = TRUE
    CanTouch = FALSE
    Prunes = {"p"}
    CanCrash = {"daemon"}
SPECIFICATION FairSpec
INVARIANT SegmentsFollowBoundaries
PROPERTY EventuallyCaptured
CHECK_DEADLOCK FALSE
