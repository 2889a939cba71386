\* Two streams of a few frames each, unplugged at any moment.
SPECIFICATION FairSpec
CONSTANTS
    Requested = 2
    Timeout = 2
    Patience = 3
    MaxFrames = 4
    MaxStreams = 2
    ErrorSeqs = {1}
    TornSeqs = {0}
INVARIANTS
    BuffersConserved
    PatienceIsKept
    FrameMatchesItsSeq
    DropAccountingIsExact
PROPERTIES
    LoopProgresses
