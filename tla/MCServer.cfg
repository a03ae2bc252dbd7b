SPECIFICATION ServerSpec
CONSTANTS
    Tasks = {t1, t2, t3}
    Keys = {k1, k2}
    Mutexes = {m1, m2, m3}
    NoMutex = NoMutex
    NoKey = NoKey
    Contents = {c1, c2}
    Threats = {c1}
    Workers = {w1, w2}
    BatchLimit = 1
    NoContent = NoContent
    MaxFaults = 2
INVARIANTS
    TypeOK
    MutualExclusion
    ScansInOrder
    ThreatNotForgotten
PROPERTIES
    RefinesKeyedLock
    EventuallyServed
    EventuallyJudged
CHECK_DEADLOCK FALSE
