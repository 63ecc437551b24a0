SPECIFICATION FairSpec
CONSTANTS
    Event <- OwnMessage
    NoEvent <- MC_NoEvent
    Msg = {"a"}
    Slot = {s1, s2}
    NoSlot = NoSlot
    MaxFaults = 2
PROPERTIES
    KeptReceiptsMonotone
    Drains
CHECK_DEADLOCK FALSE
