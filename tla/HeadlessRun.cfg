SPECIFICATION FairSpec
CONSTANTS
    Cap = 2
    MaxOps = 5
    Item = {1, 2, 3, 4, 5}
    MaxRefusals = 3
INVARIANTS
    AllRecorded
    TotalsAddUp
    LastAttentionReported
PROPERTY
    Termination
CHECK_DEADLOCK FALSE
