------------------------------ MODULE Volume ------------------------------
(***************************************************************************)
(* The life of one libbde_volume_t: initialize, free, the open functions,  *)
(* close, unlock, the functions that give it secrets and keys, seek, read  *)
(* and at which of their steps they can fail. One action is one call made  *)
(* by a single thread; VolumeThreads has the calls of several threads.     *)
(*                                                                         *)
(* A disk is a BitLocker volume in a file. What the library finds on it is *)
(* given by the constants below; a disk never changes.                     *)
(***************************************************************************)
EXTENDS KeyProtectors

CONSTANTS
    Disks,          \* the volumes that are opened
    DiskKey,        \* disk |-> its full volume encryption (and TWEAK) key
    DiskMethod,     \* disk |-> the method it is encrypted with
    Blocks,         \* disk |-> its three metadata blocks, see KeyProtectors
    HeaderSize,     \* disk |-> the volume size its volume header states, in
                    \* sectors, 0 when it does not
    NtfsSize,       \* disk |-> the one in the NTFS volume header, encrypted
    EncryptedSize,  \* disk |-> the one in the metadata
    FileSize,       \* disk |-> the size of the file
    Secrets,        \* passwords, recovery passwords and startup keys
    EmptyBek,       \* a startup key file without a usable external key
    CallerKeys,     \* keys that callers pass to libbde_volume_set_keys
    CallerKeySizes, \* the sizes they have
    OpenFaults,     \* where an open can fail: "header", "metadata", "sector",
                    \* "size" or "vector"
    UnlockFaults,   \* where an unlock can fail: "sector" or "size"
    Liberties,      \* what callers do although the header does not say so:
                    \* "unlock_detached" calls unlock before open,
                    \* "keys_attached" calls set_keys after it
    NoDisk, NoBlocks, NoContext

Keys == {DiskKey[d] : d \in Disks} \union CallerKeys

KeyBuffer == [KeyParts -> Keys \union {ZeroKey}]
TweakBuffer == [TweakParts -> Keys \union {ZeroKey}]

Sources == {"none", "metadata", "caller"}

Contexts == [method : EncryptionMethods, fvek : KeyBuffer, tweak : TweakBuffer,
             source : Sources]

Protectors == Secrets \union {NoProtector, Malformed}

MetadataBlock == [method : EncryptionMethods, clearKey : Protectors,
                  startupKey : Protectors, password : Protectors, recovery : Protectors,
                  fvek : Keys \union {NoProtector, Malformed, Unknown}]

ASSUME BlocksAssumption ==
    /\ Blocks \in [Disks -> [1 .. 3 -> MetadataBlock]]
    /\ NoBlocks \notin [1 .. 3 -> MetadataBlock]
    /\ NoContext \notin Contexts
    /\ Keys \intersect {NoProtector, Malformed, Unknown} = {}

ASSUME VolumeAssumption ==
    /\ DiskMethod \in [Disks -> EncryptionMethods]
    /\ HeaderSize \in [Disks -> Nat]
    /\ NtfsSize \in [Disks -> Nat \ {0}]
    /\ EncryptedSize \in [Disks -> Nat]
    /\ FileSize \in [Disks -> Nat]
    /\ NoDisk \notin Disks
    /\ NoSecret \notin Secrets
    /\ EmptyBek \notin Secrets
    /\ EmptyBek # NoSecret
    /\ OpenFaults \subseteq {"header", "metadata", "sector", "size", "vector"}
    /\ UnlockFaults \subseteq {"sector", "size"}
    /\ Liberties \subseteq {"unlock_detached", "keys_attached"}

VARIABLES
    allocated,      \* the volume exists: between initialize and free
    attached,       \* the disk behind file_io_handle, NoDisk when it is NULL
    created,        \* file_io_handle_created_in_library
    opened,         \* file_io_handle_opened_in_library
    openHandles,    \* disks of which the caller's own handle is open
    password,       \* password_keep: the password, NoSecret when not set
    recovery,       \* password_keep: the recovery password
    startupKey,     \* external_key_metadata: NoSecret when NULL
    keys,           \* the key buffers, keys_are_set and where they came from
    context,        \* encryption_context
    blocks,         \* the three metadata; stands for volume_header and
                    \* sector_data_vector too, NULL together with them
    method,         \* encryption_method
    isLocked,       \* is_locked
    volumeSize,     \* volume_size of the IO handle, in sectors
    currentOffset,  \* current_offset: 0, or 1 when it is further
    lastRead,       \* what the last read delivered
    callerOpened,   \* disks of which the caller opened a handle (history)
    presented       \* kinds and secrets given since the volume exists (history)

secrets == <<password, recovery, startupKey, presented>>
handle == <<attached, created, opened, openHandles, callerOpened>>
unlocking == <<keys, context, blocks, method, isLocked, volumeSize>>
vars == <<allocated, handle, secrets, unlocking, currentOffset, lastRead>>

NoKeys == [set |-> FALSE, fvek |-> NoKey, tweak |-> NoTweak, source |-> "none"]

Given == [external |-> IF startupKey = EmptyBek THEN NoSecret ELSE startupKey,
          password |-> password,
          recovery |-> recovery]

(* libbde_volume_initialize *)
Init ==
    /\ allocated = TRUE
    /\ attached = NoDisk
    /\ created = FALSE
    /\ opened = FALSE
    /\ password = NoSecret
    /\ recovery = NoSecret
    /\ startupKey = NoSecret
    /\ presented = {}
    /\ keys = NoKeys
    /\ context = NoContext
    /\ blocks = NoBlocks
    /\ method = "none"
    /\ isLocked = TRUE
    /\ volumeSize = 0
    /\ currentOffset = 0
    /\ lastRead = "none"
    /\ openHandles = {}
    /\ callerOpened = {}

-----------------------------------------------------------------------------
(* Unlocking *)

(* The startup key protector of a block is only kept when its identifier   *)
(* is that of the startup key read before.                                 *)
Parsed(disk) ==
    [n \in 1 .. 3 |->
        IF Blocks[disk][n].startupKey = Given.external
        THEN Blocks[disk][n]
        ELSE [Blocks[disk][n] EXCEPT !.startupKey = NoProtector]]

(* A context decrypts a disk when it has its method and, in the parts that *)
(* the method uses, its keys.                                              *)
Decrypts(ctx, disk) ==
    /\ ctx.method = DiskMethod[disk]
    /\ \A p \in PartsOfSize(UsedSize(ctx.method)) : ctx.fvek[p] = DiskKey[disk]
    /\ Diffuser(ctx.method) =>
        \A p \in PartsOfSize(UsedSize(ctx.method)) : ctx.tweak[p] = DiskKey[disk]

(* libbde_internal_volume_open_read_keys_from_metadata: the outcome of     *)
(* reading the keys from one block.                                        *)
KeysFromBlock(block, old) ==
    LET unwrapped == FullVolumeEncryptionKey(block)
    IN  IF block.method = "none"
        THEN [failed |-> FALSE,
              keys |-> [old EXCEPT !.set = TRUE, !.source = "metadata"]]
        ELSE IF VolumeMasterKey(block, Given) # "key"
        THEN [failed |-> VolumeMasterKey(block, Given) = "error", keys |-> old]
        ELSE IF unwrapped # "key"
        THEN [failed |-> unwrapped = "error", keys |-> NoKeys]
        ELSE [failed |-> FALSE,
              keys |-> [set |-> TRUE,
                        fvek |-> KeyOfSize(block.fvek, WrappedSize(block.method)),
                        tweak |-> IF Diffuser(block.method)
                                  THEN TweakOfSize(block.fvek, 32)
                                  ELSE NoTweak,
                        source |-> "metadata"]]

(* The next block is read only when the ones before gave no key and no error. *)
NextBlock(outcome, block) ==
    IF outcome.failed \/ outcome.keys.set
    THEN outcome
    ELSE KeysFromBlock(block, outcome.keys)

(* A fault in one block ends the search, the other two are not tried. *)
KeysFromBlocks(read, old) ==
    LET start == [failed |-> FALSE, keys |-> old]
    IN  IF old.set
        THEN start
        ELSE IF read = NoBlocks
        THEN [start EXCEPT !.failed = TRUE]
        ELSE NextBlock(NextBlock(NextBlock(start, read[1]), read[2]), read[3])

FaultyContextWith(old, newMethod, newKeys) ==       \* half of the key only
    IF old = NoContext /\ newKeys.set
    THEN [method |-> newMethod, fvek |-> [newKeys.fvek EXCEPT ![3] = ZeroKey],
          tweak |-> newKeys.tweak, source |-> newKeys.source]
    ELSE old

(* libbde_internal_volume_open_read_keys makes a context when there is     *)
(* none yet.                                                               *)
ContextWith(old, newMethod, newKeys) ==
    IF old = NoContext /\ newKeys.set
    THEN [method |-> newMethod, fvek |-> newKeys.fvek, tweak |-> newKeys.tweak,
          source |-> newKeys.source]
    ELSE old

(* Reading the unencrypted volume header notices a wrong key only when it  *)
(* needs the size of the volume from it.                                   *)
HeaderRead(disk, ctx, size, fault) ==
    /\ disk # NoDisk
    /\ fault # "sector"
    /\ size # 0 \/ Decrypts(ctx, disk)

(* The size of the volume is that of the NTFS volume header when there is  *)
(* none yet; one that is a sector short is corrected.                      *)
SizeRead(disk, size) == IF size = 0 THEN NtfsSize[disk] ELSE size

Corrected(disk, size) ==
    IF EncryptedSize[disk] = size + 1 /\ size + 1 <= FileSize[disk]
    THEN size + 1
    ELSE size

(* libbde_internal_volume_unlock for the disk behind a file IO handle.     *)
UnlockOutcome(disk, read, newMethod, oldContext, oldSize, fault) ==
    LET found == KeysFromBlocks(read, keys)
        ctx == IF found.failed
               THEN oldContext
               ELSE ContextWith(oldContext, newMethod, found.keys)
        same == [keys |-> found.keys, context |-> ctx, size |-> oldSize,
                 result |-> "error"]
    IN  IF found.failed
        THEN same
        ELSE IF ctx = NoContext
        THEN [same EXCEPT !.result = "locked"]
        ELSE IF ~HeaderRead(disk, ctx, oldSize, fault)
        THEN same
        ELSE IF fault = "size"
        THEN [same EXCEPT !.size = SizeRead(disk, oldSize)]
        ELSE [same EXCEPT !.size = Corrected(disk, SizeRead(disk, oldSize)),
                          !.result = "unlocked"]

(***************************************************************************)
(* libbde_volume_unlock. When it fails after the context was made, keys    *)
(* and context stay.                                                       *)
(***************************************************************************)
Unlock ==
    /\ allocated
    /\ attached # NoDisk \/ "unlock_detached" \in Liberties
    /\ isLocked
    /\ \E fault \in UnlockFaults \union {"none"} :
        LET outcome == UnlockOutcome(attached, blocks, method, context, volumeSize, fault)
        IN  /\ keys' = outcome.keys
            /\ context' = outcome.context
            /\ volumeSize' = outcome.size
            /\ isLocked' = (outcome.result # "unlocked")
    /\ UNCHANGED <<allocated, handle, secrets, blocks, method, currentOffset, lastRead>>

-----------------------------------------------------------------------------
(* Opening and closing *)

FaultySizeOnOpen(disk) ==      \* only a size that is stated is taken
    IF HeaderSize[disk] = 0 THEN volumeSize ELSE HeaderSize[disk]

(* Opening takes the size from the volume header of the disk, 0 when it    *)
(* has none; close leaves it.                                              *)
SizeOnOpen(disk) == HeaderSize[disk]

(***************************************************************************)
(* libbde_internal_volume_open_read, and what becomes of the volume's      *)
(* structures. Its on_error frees the context, the metadata, the volume    *)
(* header and the sector vector; keys, encryption method and is_locked     *)
(* stay as they are then.                                                  *)
(***************************************************************************)
OpenRead(disk, fault) ==
    IF fault = "header"
    THEN /\ context' = NoContext
         /\ UNCHANGED <<keys, blocks, method, isLocked, volumeSize>>
    ELSE IF fault = "metadata"
    THEN /\ context' = NoContext
         /\ volumeSize' = SizeOnOpen(disk)
         /\ UNCHANGED <<keys, blocks, method, isLocked>>
    ELSE LET read == Parsed(disk)
             outcome == UnlockOutcome(disk, read, read[1].method, context,
                                      SizeOnOpen(disk), fault)
             failed == outcome.result = "error" \/ fault = "vector"
         IN  /\ keys' = outcome.keys
             /\ context' = IF failed THEN NoContext ELSE outcome.context
             /\ blocks' = IF failed THEN NoBlocks ELSE read
             /\ method' = read[1].method
             /\ volumeSize' = outcome.size
             /\ isLocked' = (isLocked /\ outcome.result # "unlocked")

OpenSucceeded == blocks' # NoBlocks

(* libbde_volume_open_file_io_handle with the caller's handle, which is    *)
(* opened when it is not and closed again when the open fails.             *)
OpenFileIoHandle(disk) ==
    /\ allocated
    /\ attached = NoDisk
    /\ \E fault \in OpenFaults \union {"none"} : OpenRead(disk, fault)
    /\ IF OpenSucceeded
       THEN /\ attached' = disk
            /\ opened' = (disk \notin openHandles)
            /\ openHandles' = openHandles \union {disk}
       ELSE UNCHANGED <<attached, opened, openHandles>>
    /\ UNCHANGED <<allocated, created, callerOpened, secrets, currentOffset, lastRead>>

(* libbde_volume_open: with a handle the library creates, opens and, when  *)
(* the open fails, frees.                                                  *)
Open(disk) ==
    /\ allocated
    /\ attached = NoDisk
    /\ \E fault \in OpenFaults \union {"none"} : OpenRead(disk, fault)
    /\ IF OpenSucceeded
       THEN /\ attached' = disk
            /\ opened' = TRUE
            /\ created' = TRUE
       ELSE UNCHANGED <<attached, opened, created>>
    /\ UNCHANGED <<allocated, openHandles, callerOpened, secrets, currentOffset, lastRead>>

FaultyClearedKeys(old) == old      \* keys_are_set is not reset

(* The first 32 bytes of the full volume encryption key are cleared. *)
ClearedKeys(old) ==
    [set |-> FALSE,
     fvek |-> [p \in KeyParts |-> IF p \in PartsOfSize(32) THEN ZeroKey ELSE old.fvek[p]],
     tweak |-> NoTweak,
     source |-> "none"]

FaultyHandlesAfterClose == openHandles     \* nothing is closed

(* The caller's handle is closed when the library opened it; a handle the  *)
(* library created is closed and freed.                                    *)
HandlesAfterClose ==
    IF opened /\ ~created THEN openHandles \ {attached} ELSE openHandles

FaultyLockedAfterClose == isLocked     \* stays as it was

LockedAfterClose == TRUE

(* libbde_volume_close. Passwords and the encryption method stay. *)
CloseVolume ==
    /\ openHandles' = HandlesAfterClose
    /\ attached' = NoDisk
    /\ created' = FALSE
    /\ opened' = FALSE
    /\ currentOffset' = 0
    /\ isLocked' = LockedAfterClose
    /\ keys' = ClearedKeys(keys)
    /\ context' = NoContext
    /\ blocks' = NoBlocks
    /\ startupKey' = NoSecret

Close ==
    /\ allocated
    /\ attached # NoDisk
    /\ CloseVolume
    /\ lastRead' = "none"
    /\ UNCHANGED <<allocated, callerOpened, password, recovery, presented, method,
                   volumeSize>>

(***************************************************************************)
(* libbde_volume_free closes an open volume and frees what is left except  *)
(* the structures of open and of the startup key, which close would free.  *)
(***************************************************************************)
Free ==
    /\ allocated
    /\ allocated' = FALSE
    /\ IF attached # NoDisk
       THEN /\ openHandles' = HandlesAfterClose
            /\ context' = NoContext
            /\ blocks' = NoBlocks
            /\ startupKey' = NoSecret
       ELSE UNCHANGED <<openHandles, context, blocks, startupKey>>
    /\ attached' = NoDisk
    /\ created' = FALSE
    /\ opened' = FALSE
    /\ password' = NoSecret
    /\ recovery' = NoSecret
    /\ presented' = {}
    /\ keys' = NoKeys
    /\ method' = "none"
    /\ isLocked' = TRUE
    /\ volumeSize' = 0
    /\ currentOffset' = 0
    /\ lastRead' = "none"
    /\ UNCHANGED callerOpened

(* libbde_volume_initialize, for the next volume: Free left the members    *)
(* that it does not name with the values they start with.                  *)
Initialize ==
    /\ ~allocated
    /\ allocated' = TRUE
    /\ startupKey' = NoSecret
    /\ context' = NoContext
    /\ blocks' = NoBlocks
    /\ UNCHANGED <<handle, password, recovery, presented, keys, method,
                   isLocked, volumeSize, currentOffset, lastRead>>

-----------------------------------------------------------------------------
(* What the caller gives *)

(* libbde_volume_set_keys: the rest of the buffers is zeroed. *)
SetKeys(key, size, tweakSize) ==
    /\ allocated
    /\ attached = NoDisk \/ "keys_attached" \in Liberties
    /\ tweakSize \in {0, size} /\ tweakSize <= 32
    /\ keys' = [set |-> TRUE,
                fvek |-> KeyOfSize(key, size),
                tweak |-> TweakOfSize(key, tweakSize),
                source |-> "caller"]
    /\ UNCHANGED <<allocated, handle, secrets, context, blocks, method,
                   isLocked, volumeSize, currentOffset, lastRead>>

(* libbde_volume_set_utf8_password and _utf16_password *)
SetPassword(secret) ==
    /\ allocated
    /\ password' = secret
    /\ presented' = presented \union {<<"password", secret>>}
    /\ UNCHANGED <<allocated, handle, recovery, startupKey, unlocking,
                   currentOffset, lastRead>>

(* libbde_volume_set_utf8_recovery_password and _utf16_recovery_password *)
SetRecoveryPassword(secret) ==
    /\ allocated
    /\ recovery' = secret
    /\ presented' = presented \union {<<"recovery", secret>>}
    /\ UNCHANGED <<allocated, handle, password, startupKey, unlocking,
                   currentOffset, lastRead>>

(* libbde_volume_read_startup_key and _file_io_handle; a file that cannot  *)
(* be read changes nothing.                                                *)
ReadStartupKey(secret) ==
    /\ allocated
    /\ attached = NoDisk
    /\ startupKey = NoSecret
    /\ startupKey' = secret
    /\ presented' = presented \union {<<"startupKey", secret>>}
    /\ UNCHANGED <<allocated, handle, password, recovery, unlocking,
                   currentOffset, lastRead>>

-----------------------------------------------------------------------------
(* Using the volume *)

(* libbde_volume_seek_offset: to the start or beyond it *)
SeekOffset ==
    /\ allocated
    /\ ~isLocked
    /\ currentOffset' \in {0, 1}
    /\ UNCHANGED <<allocated, handle, secrets, unlocking, lastRead>>

(***************************************************************************)
(* libbde_volume_read_buffer of an encrypted sector: VolumeRead has the    *)
(* details. It needs the sector vector, a context and a file; it delivers  *)
(* clear text when the context is that of the disk.                        *)
(***************************************************************************)
ReadBuffer ==
    /\ allocated
    /\ IF isLocked \/ blocks = NoBlocks \/ context = NoContext
       THEN lastRead' = "failed" /\ UNCHANGED currentOffset
       ELSE \/ lastRead' = "failed" /\ UNCHANGED currentOffset
            \/ /\ lastRead' = IF Decrypts(context, attached) THEN "plain" ELSE "garbage"
               /\ currentOffset' = 1
    /\ UNCHANGED <<allocated, handle, secrets, unlocking>>

(* Outside the library: the caller opens and closes a handle of its own    *)
(* while the volume does not use it.                                       *)
CallerHandle(disk) ==
    /\ attached # disk
    /\ \/ /\ disk \in openHandles
          /\ openHandles' = openHandles \ {disk}
          /\ callerOpened' = callerOpened \ {disk}
       \/ /\ disk \notin openHandles
          /\ openHandles' = openHandles \union {disk}
          /\ callerOpened' = callerOpened \union {disk}
    /\ UNCHANGED <<allocated, attached, created, opened, secrets, unlocking,
                   currentOffset, lastRead>>

Give ==
    \/ \E key \in CallerKeys, size \in CallerKeySizes, tweakSize \in {0, 16, 32} :
            SetKeys(key, size, tweakSize)
    \/ \E secret \in Secrets : SetPassword(secret) \/ SetRecoveryPassword(secret)
    \/ \E secret \in Secrets \union {EmptyBek} : ReadStartupKey(secret)

Next ==
    \/ Initialize \/ Free
    \/ \E disk \in Disks : OpenFileIoHandle(disk) \/ Open(disk) \/ CallerHandle(disk)
    \/ Close \/ Unlock \/ Give \/ SeekOffset \/ ReadBuffer

Spec == Init /\ [][Next]_vars

-----------------------------------------------------------------------------
Kinds == {"startupKey", "password", "recovery"}

(* The members have their types; the TWEAK key has two parts, not three.   *)
TypeOK ==
    /\ allocated \in BOOLEAN
    /\ attached \in Disks \union {NoDisk}
    /\ created \in BOOLEAN
    /\ opened \in BOOLEAN
    /\ openHandles \subseteq Disks
    /\ callerOpened \subseteq Disks
    /\ password \in Secrets \union {NoSecret}
    /\ recovery \in Secrets \union {NoSecret}
    /\ startupKey \in Secrets \union {NoSecret, EmptyBek}
    /\ presented \subseteq Kinds \X (Secrets \union {EmptyBek})
    /\ keys \in [set : BOOLEAN, fvek : KeyBuffer, tweak : TweakBuffer, source : Sources]
    /\ context \in Contexts \union {NoContext}
    /\ blocks \in [1 .. 3 -> MetadataBlock] \union {NoBlocks}
    /\ method \in EncryptionMethods
    /\ isLocked \in BOOLEAN
    /\ volumeSize \in Nat
    /\ currentOffset \in {0, 1}
    /\ lastRead \in {"none", "failed", "plain", "garbage"}

(* An unlocked volume whose keys came from its metadata is decrypted with  *)
(* the keys and the method of the very disk it is attached to, whatever    *)
(* was opened, closed, refused or given before.                            *)
KeysOfVolume ==
    attached # NoDisk /\ ~isLocked /\ context.source = "metadata" =>
        Decrypts(context, attached)

(* The size that its disk states, and a sector more when the metadata say  *)
(* so and the file has it.                                                 *)
SizeOfDisk(disk) ==
    LET stated == IF HeaderSize[disk] # 0 THEN HeaderSize[disk] ELSE NtfsSize[disk]
    IN  IF EncryptedSize[disk] = stated + 1 /\ EncryptedSize[disk] <= FileSize[disk]
        THEN EncryptedSize[disk]
        ELSE stated

(* The size of an unlocked volume, which ends its reads and seeks, is that *)
(* of the disk it is attached to, however often it was unlocked or failed  *)
(* to, and whatever was open before: no sector is added twice and none is  *)
(* left of another disk.                                                   *)
SizeIsDisks ==
    attached # NoDisk /\ ~isLocked => volumeSize = SizeOfDisk(attached)

(* The keys that are set are those of the disk. *)
Fits(disk) ==
    /\ keys.set
    /\ Decrypts([method |-> DiskMethod[disk], fvek |-> keys.fvek, tweak |-> keys.tweak], disk)

(* Keys that the caller gives and that are those of the disk are the ones  *)
(* it is decrypted with.                                                   *)
RightKeysDecrypt ==
    attached # NoDisk /\ ~isLocked /\ keys.source = "caller" /\ Fits(attached) =>
        Decrypts(context, attached)

(* What opens a block: a kind and the secret the block keeps of it. *)
Openers(block) == {<<kind, block[kind]>> : kind \in Kinds}

(* No keys come out of the metadata of an encrypted disk unless it has a   *)
(* clear key or the caller gave a secret of a kind for which one of its    *)
(* blocks keeps that very secret.                                          *)
KeysNeedSecret ==
    attached # NoDisk /\ ~isLocked /\ context.source = "metadata" =>
        \E n \in 1 .. 3 :
            \/ Blocks[attached][n].method = "none"
            \/ Blocks[attached][n].clearKey # NoProtector
            \/ Openers(Blocks[attached][n]) \intersect presented # {}

(* Between close and open nothing of the last volume is left to be used:   *)
(* no context, no parsed structures, no offset, no keys but those the      *)
(* caller gave for the next one, and the volume is locked.                 *)
DetachedIsClean ==
    attached = NoDisk =>
        /\ context = NoContext
        /\ blocks = NoBlocks
        /\ isLocked
        /\ currentOffset = 0
        /\ keys.source # "metadata"
        /\ ~keys.set =>
            \A p \in TweakParts : keys.fvek[p] = ZeroKey /\ keys.tweak[p] = ZeroKey

(* What a read delivers is garbage only when the caller gave the keys:     *)
(* keys from the metadata decrypt.                                         *)
ReadsAreClear == lastRead = "garbage" => context.source = "caller"

(* The life of the volume as its callers see it. A volume that is not open *)
(* and yet not locked has no place in it.                                  *)
LifeCycleState ==
    CASE ~allocated -> "absent"
      [] allocated /\ attached = NoDisk /\ isLocked -> "closed"
      [] allocated /\ attached = NoDisk /\ ~isLocked -> "broken"
      [] allocated /\ attached # NoDisk /\ isLocked -> "locked"
      [] OTHER -> "unlocked"

LifeCycle == INSTANCE VolumeLifeCycle WITH state <- LifeCycleState

(* Whatever calls are made and fail, a volume goes from closed to open by  *)
(* an open only, from locked to unlocked by an unlock only, and one that   *)
(* is closed is locked.                                                    *)
FollowsLifeCycle == LifeCycle!Spec

(* The library leaves the handles of its callers the way it found them:    *)
(* what it opens it closes, on a failed open too, and nothing else.        *)
HandlesRestored ==
    openHandles = callerOpened \union
                    (IF attached # NoDisk /\ opened /\ ~created THEN {attached} ELSE {})
=============================================================================
