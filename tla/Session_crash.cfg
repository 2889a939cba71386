\* Two sessions into one directory, killed or failing at any step.
SPECIFICATION FairSpec
CONSTANTS
    MaxRuns = 2
    MaxFrames = 4
    MaxSegments = 3
    Depth = 2
    MayFail = TRUE
    MayCrash = TRUE
INVARIANTS
    NoMixedRecording
    SelfDescribing
    EndedIsExact
PROPERTIES
    StopFinishes
