SPECIFICATION FairSpec
CONSTANTS
    w1 = w1
    w2 = w2
    p1 = p1
    d1 = d1
    Workers = {w1, w2}
    Producers = {p1}
    Drainers = {d1}
    NoThread = NoThread
    MaxDispatch = 3
INVARIANTS
    TypeOK
    LockDiscipline
    NothingLostOrRepeated
    NoLostWakeup
    DestroyedIsQuiet
PROPERTIES
    ImplementsContract
    DestructorReturns
    EveryCallbackServed
