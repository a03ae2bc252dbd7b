SPECIFICATION CrowdSpec
CONSTANTS
    d = d
    f = f
    g = g
    c1 = c1
    c2 = c2
    Root = Root
    None = None
    Folders <- MCFolders
    Files <- MCFiles
    Contents = {c1, c2, c3}
    Links = {l1}
    Tickets = {t1}
    Visits = {v}
    Commands = {o1, o2}
    InitialPlace <- MCInitialPlace
    InitialContent <- MCInitialContent
    InitialPending <- MCInitialPending
    FileExpiry <- MCFileExpiry
    FileLives = {9}
    Scanners = {s1, s2}
    LinkLives <- MCLinkLives
    TicketLife = 0
    MaxTime = 1
    MaxWrites = 3
    MaxRestarts = 1
SYMMETRY Perms
INVARIANTS
    LogsInOrder
    DeletedHaveNoLinks
PROPERTIES
    NothingGoneIsServed
    RefusedForCause
CHECK_DEADLOCK FALSE
