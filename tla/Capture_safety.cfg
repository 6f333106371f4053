\* Four turns, the first a question to Elepha, the daemon and one grant's replay,
\* everything may happen: crashes, a full store, an exhausted comparison, spurious events.
CONSTANTS
    N = 4
    Kind <- Kinds4
    Quotes <- Quotes4
    Boundary <- Boundary4
    Roots <- OneRoot
    FileRoot = "p"
    TurnRoot <- OneRoots4
    Daemon = "daemon"
    Backfills = {"cli"}
    ReceiptRoom = 1
    CanFill = TRUE
    Long = {3}
    Derives = TRUE
    CanTouch = TRUE
    Prunes = {}
    CanCrash = {"daemon", "cli"}
SPECIFICATION Spec
INVARIANTS TypeOK NothingLostBehindCursor OneHomePerTurn NoSelfIngest
PROPERTY KeepsPromise
CHECK_DEADLOCK FALSE
