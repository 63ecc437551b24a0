SPECIFICATION FairSpec
CONSTANTS
    Thread = {t1}
    MaxGen = 2
    MaxEvents = 1
    MaxOps = 2
    MaxFaults = 1
INVARIANTS
    OffIsOff
    StatusFollows
PROPERTIES
    ComesBack
CHECK_DEADLOCK FALSE
