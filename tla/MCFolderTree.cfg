SPECIFICATION FairSpec
CONSTANTS
    Tasks = {t1, t2}
    Folders = {f1, f2, f3}
    Root = Root
    NoTask = NoTask
    MaxRequests = 5
INVARIANTS
    TreeInOrder
    CopiesOriginals
PROPERTIES
    WalksEnd
CHECK_DEADLOCK FALSE
