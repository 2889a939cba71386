\* Crashes, power cuts and I/O errors at every step.
SPECIFICATION Spec
CONSTANTS
    Lens = {1, 2, 4}
    SegmentBytes = 3
    FsyncEvery = 2
    MaxFrames = 4
    DiskMayFail = TRUE
    Samples = {1, 2}
INVARIANTS
    RecordsTile
    KillLosesNothing
    PowerCutBound
    ClosedIsDurable
    RolloverIsTight
    ErrorHurtsLastOnly
    SampleIsEnough
