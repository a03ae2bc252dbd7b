SPECIFICATION Spec
CONSTANTS
    Tasks = {t1}
    Users = {u1}
    Folders = {f1}
    Names = {n1, n2}
    Hashes = {h1, h2}
    Items = {i1, i2, i3}
    Ids = {b1, b2}
    NoHash = NoHash
    NoId = NoId
    NoFile = NoFile
    NoRow = NoRow
    NoKey = NoKey
    NoPlace = NoPlace
    NoUser = NoUser
    Expiries = {TRUE, FALSE}
    MaxRef = 3
    MaxRequests = 4
    MaxFaults = 0
SYMMETRY Symmetry
INVARIANTS
    StorageKept
PROPERTIES
    RefinesLifecycle
CHECK_DEADLOCK FALSE
