SPECIFICATION Spec
CONSTANTS
    Ops <- MCOps
    Matrices <- MCMatrices
    MaxEvents = 3
    Keyboard = {"focus", "pan", "stream", "edit"}
    MaxKeys = 5
    StreamCap = 2
    LedgerCap = 1
    AnomalyCap = 1
    FlameLimit = 2
    ViewRows = 2
    ViewCols = 4
INVARIANTS
    PanesTellTheEvents
    FlamesAreSlowest
    ViewWithinData
CHECK_DEADLOCK FALSE
