\* Two frames of three paintings of a window in any scene, over a wrap of the
\* counter.
SPECIFICATION FairSpec
CONSTANTS
    DataBits = 20
    Scenes <- MCScenes
    FirstPaint <- MCFirstPaint
    Gaps <- MCGaps
    Takes <- MCTakes
    MaxPaints = 3
    FramesWanted = 2
INVARIANTS
    LatencyIsTrue
    CleanFramesCount
PROPERTIES
    Finishes
