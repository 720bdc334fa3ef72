SPECIFICATION FairSpec
CONSTANTS
    DownBytes = 3
    UpBytes = 2
    MaxChunk = 2
    Window = 2
    BlobsInOrder = TRUE
    MayRefuse = TRUE
    MayClose = TRUE
    MayReset = TRUE
    MayBreak = TRUE
INVARIANTS TypeOK EndLosesNothing NoEventIsMissed
PROPERTIES UpIsStream DownIsStream AllIsRead AllIsWritten EndIsNoticed
CHECK_DEADLOCK FALSE
