SPECIFICATION Spec
CONSTANTS
    f1 = f1
    f2 = f2
    Files = {f1, f2}
    NoListing = NoListing
    Paths <- MCPaths
    CommandLines <- MCCommandLines
    Width = 8
    MaxFailures = 1
    Protectors = 2
INVARIANTS
    TypeOK
    ServedIsUnlocked
    EntriesOwned
    NothingFreedTwice
    NothingLeft
    InfoComplete
PROPERTIES
    ListingComplete
    ToolsProceed
CHECK_DEADLOCK FALSE
