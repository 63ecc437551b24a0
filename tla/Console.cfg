SPECIFICATION ConsolesSpec
CONSTANTS
    User = {alice, bob}
    Registered = {alice}
    Thread = {t1, t2, t3}
    Main = Main
    Torn = Torn
    MaxRestarts = 1
    MaxFaults = 1
    None = None
SYMMETRY Threads
INVARIANTS
    FileIsCurrent
    LegacyFileFollows
PROPERTIES
    UsersChangeKnowingly
    SessionsBacked
    LegacyChangesKnowingly
CHECK_DEADLOCK FALSE
