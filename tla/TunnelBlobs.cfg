SPECIFICATION Spec
CONSTANTS
    DownBytes = 3
    UpBytes = 1
    MaxChunk = 2
    Window = 2
    BlobsInOrder = FALSE
    MayRefuse = FALSE
    MayClose = FALSE
    MayReset = FALSE
    MayBreak = FALSE
PROPERTY DownIsStream
CHECK_DEADLOCK FALSE
