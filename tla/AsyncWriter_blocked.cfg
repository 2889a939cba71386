\* The thread has died of a disk error while the queue is full.
SPECIFICATION FairSpec
CONSTANTS
    Depth = 3
    MaxFrames = 6
    DiskMayFail = TRUE
    MayStall = FALSE
PROPERTIES
    CloseReturns
CHECK_DEADLOCK FALSE
