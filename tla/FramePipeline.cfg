SPECIFICATION PipeSpec
CONSTANTS
    BlobLen = 3
    BufSize = 2
    MaxReadLen = 4
    MaxMessages = 5
    LateZon = FALSE
INVARIANT Conserved
PROPERTY ImplementsStream
CHECK_DEADLOCK FALSE
