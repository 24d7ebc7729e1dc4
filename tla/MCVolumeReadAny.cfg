SPECIFICATION Spec
CONSTANTS
    PlainSize = 4
    PatchSize = 2
    SignatureBytes = {0}
    MirrorBytes = {1}
    Layouts <- MCLayouts
    Offsets <- MCOffsets
    Sizes <- MCSizes
    MaxOffset = 11
    CacheSize = 2
    Whole = FALSE
    NoSector = NoSector
    NoResult = NoResult
INVARIANTS
    BufferIsView
