SPECIFICATION Spec
CONSTANTS
    Streams <- MCStreams
    StackSize = 3
    DiscardAt = 6
CHECK_DEADLOCK FALSE
INVARIANTS
    ReaderSound
    Faithful
    LengthRight
