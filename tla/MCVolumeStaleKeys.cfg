SPECIFICATION Spec
CONSTANTS
    dA = dA
    dB = dB
    kA = kA
    kB = kB
    sA = sA
    sB = sB
    NoSecret = NoSecret
    NoProtector = NoProtector
    Malformed = Malformed
    Unknown = Unknown
    ZeroKey = ZeroKey
    Disks <- MCDisks
    DiskKey <- MCDiskKey
    DiskMethod <- MCDiskMethod
    Blocks <- MCBlocks
    HeaderSize <- MCStatedSize
    NtfsSize <- MCNtfsSize
    EncryptedSize <- MCEncryptedSize
    FileSize <- MCFileSize
    Secrets = {sA, sB}
    EmptyBek = EmptyBek
    CallerKeys = {}
    CallerKeySizes = {32, 64}
    OpenFaults = {"sector"}
    UnlockFaults = {}
    Liberties = {}
    NoDisk = NoDisk
    NoBlocks = NoBlocks
    NoContext = NoContext
INVARIANTS
    ReadsAreClear
