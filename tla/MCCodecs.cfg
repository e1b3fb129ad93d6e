SPECIFICATION Spec
CONSTANTS
    Bits = 8
    FirstBuf = 4
    MaxData = 4
    Slack = 2
INVARIANTS
    
    
    
    RpcOutcome
CHECK_DEADLOCK FALSE
