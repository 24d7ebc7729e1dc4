SPECIFICATION Spec
CONSTANTS
    NoBlock = NoBlock
    BytesPerSector = 2
    Volumes <- MCVolumes
    Identifiers = {"id1", "id2"}
    NoIdentifier = NoIdentifier
    NotRead = NotRead
    Faults <- MCFaultVolumes
INVARIANTS
    TypeOK
    KeysAsListed
    ReadIffInOrder
    EveryStructureOwned
PROPERTIES
    OpenReturns
