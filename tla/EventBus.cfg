SPECIFICATION BusSpec
CONSTANTS
    Threads = {t1, t2}
    Priorities = {0, 1}
    MaxTokens = 3
    MaxEvents = 2
    MaxDepth = 2
INVARIANTS
    OnceToEachSubscriber
    OrderedAndBounded
CHECK_DEADLOCK FALSE
