SPECIFICATION Spec
CONSTANTS
    None = None
    Absent = Absent
    Question = {q1, q2, q3, q4}
    MaxStrikes = 3
    MaxFetches = 2
    Tab = {t1, t2}
    User = {u1, u2}
    MaxSeen = 2
    Newest = 3
    root = root
    sub = sub
    Gone = Gone
    Polled = {1}
    PageSize = 1
    FavLimit = 1
    MaxCalls = 2
    MaxActs = 3
    outer = outer
    inner = inner
    deep = deep
    file = file
    Root = Root
    MaxInputs = 4
    File = {f1, f2}
    Link = {l1, l2}
    MaxClicks = 3
    Shared = {a, b, c}
    Text = {a, b}
    Media = {c}
    MaxVisits = 4
    Visited = {x, y, z}
    MaxMoves = 5
    Upload = {v1, v2}
    MaxPushes = 5
    MAX_POLLS = 2
    MaxChanges = 6
    Long = {long, longer}
    Blank = {blank}
    Found = {long}
    MaxTyped = 6
    MaxOps = 3
INVARIANTS
    RowsFit
    ShownFits
    SharedAsShown
    HistoryFits
PROPERTIES
    RightAnswerCounts
    QuestionsRefreshed
    SessionsApart
    CircularConfined
    MenuHitsItsFile
    ClipboardKept
    UploadsSeen
CHECK_DEADLOCK FALSE
