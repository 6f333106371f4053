\* The store fills and empties again: does a deferred chat get its retry?
CONSTANTS
    N = 2
    Kind <- Kinds2
    Quotes <- Quotes2
    Boundary <- Boundary2
    Roots <- OneRoot
    FileRoot = "p"
    TurnRoot <- OneRoots2
    Daemon = "daemon"
    Backfills = {"cli"}
    ReceiptRoom = 1
    CanFill = TRUE
    Long = {}
    Derives = FALSE
    CanTouch = FALSE
    Prunes = {}
    CanCrash = {"daemon"}
SPECIFICATION FairSpec
PROPERTY DeferralRetried
CHECK_DEADLOCK FALSE
