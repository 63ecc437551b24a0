SPECIFICATION Spec
CONSTANTS
    Event <- Traffic
    NoEvent <- MC_NoEvent
    Msg = {"a"}
    Slot = {s1, s2}
    NoSlot = NoSlot
    MaxFaults = 1
SYMMETRY Threads
INVARIANTS
    StatusFollowsSequence
    UnreadCounts
    NothingLost
    ForgottenIsRecorded
PROPERTIES
    AppliedInOrder
CHECK_DEADLOCK FALSE
