SPECIFICATION FairSpec
CONSTANTS
    Loop = Loop
    Callers = {c1, c2}
    QueueSize = 2
    RecvMax = 2
    PipeSize = 3
    MaxTasks = 7
CHECK_DEADLOCK FALSE
INVARIANTS
    IInv
PROPERTIES
    ImplementsExecutor
    AcceptedRuns
    StopReturns
