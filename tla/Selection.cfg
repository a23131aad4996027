SPECIFICATION Spec
CONSTANTS
    Ops <- MCOps
    Matrices = {}
    MaxEvents = 3
    Keyboard = {"cursor", "space", "quit"}
    MaxKeys = 4
    StreamCap = 2
    LedgerCap = 2
    AnomalyCap = 1
    FlameLimit = 2
    ViewRows = 2
    ViewCols = 4
INVARIANTS
    MarkFollowsTarget
    ViewWithinData
PROPERTIES
    RowsOnlyInserted
    WrongOnlyByRowAbove
CHECK_DEADLOCK FALSE
