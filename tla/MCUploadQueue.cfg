SPECIFICATION FairSpec
CONSTANTS
    Drops = {1, 2}
    Items <- MCItems
    PathOf <- MCPathOf
    NameOf <- MCNameOf
    ContentOf <- MCContentOf
    Large = {"big"}
    Selections <- MCSelections
    Parts = {1, 2}
    CONCURRENCY = 2
    MAX_RETRIES = 1
    Nobody = Nobody
INVARIANTS
    DropsInOrder
    SessionsKept
PROPERTIES
    EveryDropEnds
CHECK_DEADLOCK FALSE
