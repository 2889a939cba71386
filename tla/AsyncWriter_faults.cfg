\* The disk may fail at any operation and may be too slow for the join.
\* The caller can wait for ever in queue.put(None) (see README), so the
\* system really may stop.
SPECIFICATION FairSpec
CONSTANTS
    Depth = 3
    MaxFrames = 6
    DiskMayFail = TRUE
    MayStall = TRUE
INVARIANTS
    NothingVanishes
    HighWaterIsHonest
    CloseIsFinal
PROPERTIES
    ImplementsLog
    CloseReturnsUnlessStuck
CHECK_DEADLOCK FALSE
