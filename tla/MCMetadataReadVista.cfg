SPECIFICATION Spec
CONSTANTS
    NoBlock = NoBlock
    BytesPerSector = 2
    Volumes <- MCVistaVolumes
    Identifiers = {"id1", "id2"}
    NoIdentifier = NoIdentifier
    NotRead = NotRead
    Faults = {}
INVARIANTS
    VistaOpens
