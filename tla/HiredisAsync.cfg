SPECIFICATION FairSpec
CONSTANTS
    Ops = {"get", "quiet", "sub", "unsub"}
    Channels = {"a", "b"}
    MaxCmds = 3
    MaxPublish = 1
CHECK_DEADLOCK FALSE

    
    
PROPERTY
    DisconnectEnds
