SPECIFICATION Spec
CONSTANTS
    Message = {1, 2}
    hello = hello
    bye = bye
    Source <- Sources
    Thread = {t1, t2, s1}
    Lone = {s1}
    Kept = Kept
    MaxCrashes = 1
    None = None
SYMMETRY Threads
INVARIANTS
    MemoryFollowsLastSaver
PROPERTIES
    CorrectionStays
CHECK_DEADLOCK FALSE
