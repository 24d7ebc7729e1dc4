SPECIFICATION Spec
CONSTANTS
    dA = dA
    dB = dB
    kA = kA
    kB = kB
    sA = sA
    sB = sB
    NoSecret = NoSecret
    NoProtector = NoProtector
    Malformed = Malformed
    Unknown = Unknown
    ZeroKey = ZeroKey
    Disks <- MCDisks
    DiskKey <- MCDiskKey
    DiskMethod <- MCDiskMethod
    Blocks <- MCBlocks
    HeaderSize <- MCHeaderSize
    NtfsSize <- MCNtfsSize
    EncryptedSize <- MCEncryptedSize
    FileSize <- MCFileSize
    Secrets = {sA, sB}
    EmptyBek = EmptyBek
    CallerKeys = {kA}
    CallerKeySizes = {16, 32, 64}
    OpenFaults = {"header", "metadata"}
    UnlockFaults = {"sector", "size"}
    Liberties = {}
    NoDisk = NoDisk
    NoBlocks = NoBlocks
    NoContext = NoContext
INVARIANTS
    TypeOK
    KeysOfVolume
    KeysNeedSecret
    DetachedIsClean
    HandlesRestored
    RightKeysDecrypt
    SizeIsDisks
PROPERTY FollowsLifeCycle
