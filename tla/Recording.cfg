\* Every question to every small recording, and every small JPEG, cut short.
SPECIFICATION PlaybackSpec
CONSTANTS
    Indexes <- MCIndexes
    Recordings <- MCRecordings
    Targets <- MCTargets
    Tolerances <- MCTolerances
    AnyDistance = AnyDistance
    Payloads <- MCPayloads
INVARIANTS
    SearchIsRight
    LocateIsPosition
    IndexAtIsGlobal
    NearestIsNearest
    PrefixIsDecoded
    CutScanIsFinished
    FragmentsAreTold
