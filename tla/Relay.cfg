SPECIFICATION Spec
CONSTANTS
    Runner = {r1, r2}
    Contact <- Contacts
    Listing <- Listings
    Named = {1}
    MaxRows = 3
    MaxRuns = 2
    Nobody = 0
    Torn = Torn
SYMMETRY Runners
INVARIANTS
    NothingSkipped
    ResentExplained
    PairsForwarded
PROPERTY NumbersStay
CHECK_DEADLOCK FALSE
