\* A full disk while the manifest is rewritten.
SPECIFICATION Spec
CONSTANTS
    Depth = 2
    MaxFrames = 2
    MaxSegments = 1
    MayFail = TRUE
INVARIANTS
    NeverHalfAManifest
