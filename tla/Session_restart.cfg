\* The service starts again with the directory its unit file names.
SPECIFICATION Spec
CONSTANTS
    MaxRuns = 2
    MaxFrames = 2
    MaxSegments = 2
    Depth = 1
    MayFail = TRUE
    MayCrash = FALSE
INVARIANTS
    EarlierRecordingSurvives
