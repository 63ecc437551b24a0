SPECIFICATION Spec
CONSTANTS
    Message = {1, 2, 3}
    Request = {r1}
    Batch = {1, 2}
    Kind <- Kinds
    Pos <- Places
    WindowSize = 2
    Retries = 1
    MaxEdits <- Edits
    MaxCrashes = 1
    None = None
INVARIANTS
    BatchCovers
    FailedByRace
    MistranslationExplained
PROPERTIES
    CompletedStays
    BatchesEnd
CHECK_DEADLOCK FALSE
