\* Every failure of disk and device, and a signal at any step.
SPECIFICATION FairSpec
CONSTANTS
    Depth = 2
    MaxFrames = 4
    MaxSegments = 2
    MayFail = TRUE
INVARIANTS
    StopsPromptly
    ManifestIsHonest
PROPERTIES
    ImplementsLog
    StopFinishes
