SPECIFICATION FairSpec
CONSTANTS
    Cap = 1
    Item = {1, 2, 3}
    Threads = {t1, t2}
    NLayers = 1
    HeadCap = 2
    WireCap = 2
    MaxLines = 3
    MaxSelects = 1
INVARIANTS
    LinesAsSent
    SinkFollowsTarget
PROPERTIES
    EndsWithPeer
CHECK_DEADLOCK FALSE
