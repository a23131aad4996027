SPECIFICATION Spec
CONSTANTS
    Modes = {"live"}
    Cap = 1
    NLayers = 1
    MaxOps = 2
    Item = {1, 2}
    MaxRefusals = 1
    MaxPresses = 0
INVARIANTS
    RecordingComplete
CHECK_DEADLOCK FALSE
