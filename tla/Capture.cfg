SPECIFICATION Spec
CONSTANTS
    Graph <- MCGraph
    Mask = {"Attn"}
    Prompt = 5
    UBatch = 3
    MaxDim = 2
    MaxTokens = 3
    Targets = {0, 1}
    NsPerUs = 3
    MaxPause = 3
    MaxSelects = 3
INVARIANTS
    LatencyIsTimeInPass
    RichestPublished
CHECK_DEADLOCK FALSE
