SPECIFICATION SharedSpec
CONSTANTS
    Tasks = {t1, t2, t3}
    Users = {u1, u2}
    Folders = {f1}
    Names = {n1, n2}
    Hashes = {h1, h2}
    Items = {i1, i2, i3, i4, i5}
    Ids = {b1, b2}
    NoHash = NoHash
    NoId = NoId
    NoFile = NoFile
    NoRow = NoRow
    NoKey = NoKey
    NoPlace = NoPlace
    NoUser = NoUser
    Expiries = {FALSE}
    MaxRef = 2
    MaxRequests = 3
    MaxFaults = 1
    Locking = {t1, t2, t3}
    Plain = {t1, t2, t3}
SYMMETRY Symmetry
VIEW View
INVARIANTS
    LocksFit
CHECK_DEADLOCK FALSE
