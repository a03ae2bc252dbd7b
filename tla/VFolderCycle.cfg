SPECIFICATION FairSpec
CONSTANTS
    Tasks = {t1}
    Folders = {f1, f2}
    Root = Root
    NoTask = NoTask
    MaxRequests = 3
INVARIANT Acyclic
CHECK_DEADLOCK FALSE
