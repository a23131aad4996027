SPECIFICATION StatsSpec
CONSTANTS
    Finite <- MCFinite
    NaN = NaN
    MaxElements = 5
    MaxScans = 3
INVARIANTS
    SumsOfSample
    ExtremesOfSample
    ScanBounded
CHECK_DEADLOCK FALSE
