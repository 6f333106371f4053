CONSTANTS
    Openers = {o1}
    Restorers = {r1}
    Migrators = {g1, g2}
    MaxFiles = 3
    MaxDeaths = 2
    ArchiveChats = {c1}
    ArchiveMaxChanges = 2
    Backups = {b1, b2}
    MigrationMaxStops = 3
    MigrationMaxWrites = 1
    MaxHeaders = 1
    MaxRecords = 6
    MaxAttempts = 2
    Natives = {1}
    Migrants = {2}
    PageRows = 4
    OpencodeMaxWrites = 3
    OpencodeMaxStops = 1
    TaskStateMaxTurns = 2
    TaskStateMaxChanges = 3
    Clones = {1, 2}
    Nested = {1}
    RulesChats = {c1}
    Texts = {1, 2}
    MaxRules = 1
    MaxChars = 2
    RulesMaxChanges = 2
    ParanoidProcs = {p1, p2}
    Readers = {p2}
    Phrases = {1}
    MaxOps = 3
    ParanoidMaxStops = 1
    TurnCount = 2
    Versions = {1, 2}
    Edited = {2}
    Long = {2}
    Window = 1
    Native = TRUE
    MaxEvents = 2
    Setups = {s1, s2}
    Commands = {c1}
    Projects = {p1}
    Old = {p1}
    Modes = {"folder"}
    Searches = {"on"}
    Tools = {t1}
    MaxApplies = 1
    SetupMaxChanges = 1
    SetupMaxStops = 1
    Files = {1, 2}
    MaxUpdates = 1
    InstallMaxTroubles = 2
    OpenTurnMaxTurns = 3
    Asks = {2}
    Quotes = {3}
    OpenTurnMaxChanges = 2
    OpenTurnMaxTroubles = 1
    MaxDue = 2
    MaxEpochs = 3
SPECIFICATION Spec
INVARIANTS
    ExclusiveMeansAlone
    OpenMeansWhole
    EncryptedIsReadable
    FinishedIsWhole
    ResumingIsInvisible
    AnswersAreWithheld
    TurnsAreOfOneFile
    CapturedInOrder
    NothingForgotten
    OneReportPerRequest
    RegrantRevivesNothing
    ServesCurrentText
    VectorsDescribeTurns
    AllOrNothing
    NoHalfInstall
    SnapshotIsOfTheTurn
    FailedTurnIsNotForgotten
PROPERTIES
    NoCommitIsLost
    DecisionsSurvive
    ImportsOnlyGranted
    MigrationEnds
    CurrentMeansLatest
    ServedInPlace
    WrittenWithinBounds
    ServedWhileOpen
    CommitsWhatWasReviewed
CHECK_DEADLOCK FALSE
