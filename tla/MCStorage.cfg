SPECIFICATION PartSpec
CONSTANTS
    Users = {u1}
    Folders = {f1}
    Names = {n1, n2}
    Hashes = {h1, h2}
    Items = {i1, i2, i3}
    NoHash = NoHash
    NoFile = NoFile
    NoRow = NoRow
    MaxRef = 3
    Handlers = {i1, i2, i3}
    Sessions = {s1}
    Data = {h1, h2}
    NoSession = NoSession
    NoObject = NoObject
    MaxChunks = 2
    MaxEnded = 1
SYMMETRY Symmetry
INVARIANTS
    TypeOK
    RefCountCovers
    LiveFileReadable
    NoOrphanObject
    SessionsInOrder
    AckedPartsKept
    OneWholeFile
PROPERTIES
    ContentKept
CHECK_DEADLOCK FALSE
