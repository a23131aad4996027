SPECIFICATION Spec
CONSTANTS
    NEvents = 5
    NParts = 3
    BufCap = 7
    DiskSizes = {0, 1, 2, 3, 4, 5, 6, 7, 8, 9, 10, 11, 12, 13, 14, 15, 16, 17}
INVARIANTS
    ReplayedAsRecorded
    NothingLostIfClosed
CHECK_DEADLOCK FALSE
