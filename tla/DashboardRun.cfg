SPECIFICATION FairSpec
CONSTANTS
    Modes = {"live", "replay"}
    Cap = 1
    NLayers = 2
    MaxOps = 2
    Item = {1, 2}
    MaxRefusals = 2
    MaxPresses = 2
INVARIANTS
    DroppedMeansLost
PROPERTIES
    NothingAfterClose
    QuitEnds
    EventsDrawn
    AttentionDrawn
    SelectionTakesEffect
CHECK_DEADLOCK FALSE
