SPECIFICATION LiveSpec
CONSTANTS
    Cap = 2
    IndexMod = 4
    MaxPush = 10
    Torn = Torn
INVARIANTS
    NoSlotRace
    FifoIntegrity
    Accounting
    HonestRefusal
    SizeIsCount
PROPERTIES
    ChannelSpec
    PushReturns
    Delivery
