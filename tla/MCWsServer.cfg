SPECIFICATION FairSpec
CONSTANTS
    s1 = s1
    s2 = s2
    Sessions = {s1, s2}
    NoSession = NoSession
    MaxMessages = 2
INVARIANTS
    TypeOK
    CallbackOnLiveSession
    PartialNeverRegistered
    
PROPERTIES
    NoResurrection
    EveryMessageServed
    SessionFreed
