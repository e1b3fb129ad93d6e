SPECIFICATION MCSpec
CONSTANTS
    main = main
    c2 = c2
    w1 = w1
    w2 = w2
    r1 = r1
    r2 = r2
    r3 = r3
    Writers = {w1, w2}
    Readers = {r1, r2, r3}
    MaxSize = 2
    MaxPosts = 3
    Callers = {main, c2}
    Workers = {w1, w2}
    MaxQueue = 1
    MaxRuns = 2
    MaxSpurious = 1
CHECK_DEADLOCK FALSE
INVARIANTS
    InOrder
    NoLostSignal
PROPERTIES
    Fetched
    
