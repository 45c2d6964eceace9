SPECIFICATION FairSpec
CONSTANTS
    io1 = io1
    main = main
    Workers = {}
    Producers = {io1}
    Drainers = {main}
    NoThread = NoThread
    MaxDispatch = 4
INVARIANTS
    InOrder
PROPERTIES
    EveryCallbackServed
