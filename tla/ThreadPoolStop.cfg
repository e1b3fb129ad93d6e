SPECIFICATION FairSpec
CONSTANTS
    main = main
    Callers = {main}
    Workers = {w1}
    MaxQueue = 2
    MaxRuns = 2
    MaxSpurious = 0
CHECK_DEADLOCK FALSE
PROPERTY StopReturns
