SPECIFICATION OverlapSpec
CONSTANTS
    Tasks = {t1, t2}
    Users = {u1}
    Folders = {f1}
    Names = {n1, n2}
    Hashes = {h1, h2}
    Items = {i1, i2, i3}
    Ids = {b1, b2, b3}
    NoHash = NoHash
    NoId = NoId
    NoFile = NoFile
    NoRow = NoRow
    NoKey = NoKey
    NoPlace = NoPlace
    NoUser = NoUser
    Expiries = {FALSE}
    MaxRef = 3
    MaxRequests = 2
    MaxFaults = 0
    Occupied = 2
SYMMETRY Symmetry
VIEW Present
CONSTRAINT Overlapping


INVARIANT
    SharedStorageKept
CHECK_DEADLOCK FALSE
