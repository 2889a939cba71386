\* Killed after a rollover, with the manifest of the start on disk.
SPECIFICATION Spec
CONSTANTS
    MaxRuns = 1
    MaxFrames = 3
    MaxSegments = 2
    Depth = 1
    MayFail = FALSE
    MayCrash = TRUE
INVARIANTS
    CrashLosesNothing
