SPECIFICATION FairSpec
CONSTANT
    MaxSessions = 3
INVARIANTS
    TypeOK
    AcceptLoopAlive
    ServesUntilStopped
    JoinedIsQuiet
PROPERTIES
    NoSessionAfterStop
    FinishReturns
