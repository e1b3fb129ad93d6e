SPECIFICATION FairSpec
CONSTANTS
    Callers = {c1, c2}
    NumThreads = 2
    MaxAdds = 1
    MaxStarts = 2
CHECK_DEADLOCK FALSE

    
PROPERTIES
    AcceptedRuns
    StopReturns
