SPECIFICATION MCSpec
CONSTANTS
    Main = Main
    NumThreads = 2
    NumClients = 3
    Concurrent = 2
    QueueSize = 1
    IndexMod = 4
    MaxReqs = 3
    MaxCalls = 3
CHECK_DEADLOCK FALSE
INVARIANTS
    Conserved
    SafeTeardown
    OwnAnswer
PROPERTY
    CalledBack
