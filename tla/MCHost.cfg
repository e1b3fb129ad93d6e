CONSTANTS
    Process = {1, 2, 3}
    Thread = {1, 2}
    Sizes = {0, 1}
    Tries = 3
    Versions = {1, 2}
    Ips = {1, 2}
    SrcLen = 5
    BufLen = 2
    MaxLines = 2
    MaxMoves = 2
    RotateSize = 2
    LineLen = 2
    MaxSec = 2
    MaxLogged = 6
    BUF_SIZE = 3
    ITERS = 8
    DataLen = 3
    SockBuf = 4
    Messages = 3
SPECIFICATION HostSpec
INVARIANTS
    OneInside
    
    
    
    BufferSound
PROPERTIES
    NothingTorn
CHECK_DEADLOCK FALSE
