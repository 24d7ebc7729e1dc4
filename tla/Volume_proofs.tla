--------------------------- MODULE Volume_proofs ---------------------------
(***************************************************************************)
(* What holds of Volume for all disks, keys and secrets: its types; the    *)
(* library leaves its callers' handles the way it found them; and, when    *)
(* the metadata of each disk agree with it and callers do what the header  *)
(* says, an unlocked volume has the keys and the size of its disk, opened  *)
(* with a secret that was given, a closed one has nothing left of it, and  *)
(* the calls follow the volume's life cycle.                               *)
(***************************************************************************)
EXTENDS Volume, TLAPS

(* The handles: an invariant of every volume. *)
HandlesInv ==
    /\ opened \in BOOLEAN
    /\ created \in BOOLEAN
    /\ attached \in Disks \union {NoDisk}
    /\ attached = NoDisk => ~opened /\ ~created
    /\ attached # NoDisk /\ opened /\ ~created => attached \notin callerOpened
    /\ HandlesRestored

LEMMA InitHandles == Init => HandlesInv
  BY DEF Init, HandlesInv, HandlesRestored

LEMMA NextHandles == HandlesInv /\ [Next]_vars => HandlesInv'
<1> SUFFICES ASSUME HandlesInv, [Next]_vars PROVE HandlesInv'
  OBVIOUS
<1> USE VolumeAssumption DEF HandlesInv, HandlesRestored
<1>1. CASE Initialize
  BY <1>1 DEF Initialize, handle
<1>2. CASE Free
  BY <1>2 DEF Free, HandlesAfterClose
<1>3. ASSUME NEW disk \in Disks, OpenFileIoHandle(disk) PROVE HandlesInv'
  BY <1>3 DEF OpenFileIoHandle
<1>4. ASSUME NEW disk \in Disks, Open(disk) PROVE HandlesInv'
  BY <1>4 DEF Open
<1>5. ASSUME NEW disk \in Disks, CallerHandle(disk) PROVE HandlesInv'
  BY <1>5 DEF CallerHandle
<1>6. CASE Close
  BY <1>6 DEF Close, CloseVolume, HandlesAfterClose
<1>7. CASE Unlock
  BY <1>7 DEF Unlock, handle
<1>8. CASE Give
  BY <1>8 DEF Give, SetKeys, SetPassword, SetRecoveryPassword, ReadStartupKey, handle
<1>9. CASE SeekOffset \/ ReadBuffer
  BY <1>9 DEF SeekOffset, ReadBuffer, handle
<1>10. CASE UNCHANGED vars
  BY <1>10 DEF vars, handle
<1> QED
  BY <1>1, <1>2, <1>3, <1>4, <1>5, <1>6, <1>7, <1>8, <1>9, <1>10 DEF Next

(* Whatever is opened, closed, freed and refused, in whatever order and    *)
(* with whatever faults, the handles of the callers are as they left them, *)
(* but for the one the library opened for the volume that is open.         *)
THEOREM HandlesAreRestored == Spec => []HandlesRestored
<1>1. HandlesInv => HandlesRestored
  BY DEF HandlesInv
<1> QED
  BY InitHandles, NextHandles, <1>1, PTL DEF Spec

-----------------------------------------------------------------------------
(* Unlocking: what comes of the keys, the context and the size. *)

KeysType == [set : BOOLEAN, fvek : KeyBuffer, tweak : TweakBuffer, source : Sources]

BlocksType == [1 .. 3 -> MetadataBlock]

LEMMA ZeroKeyTypes == NoKeys \in KeysType
  BY DEF NoKeys, KeysType, NoKey, NoTweak, KeyBuffer, TweakBuffer, Sources

LEMMA BufferTypes ==
    ASSUME NEW key \in Keys, NEW size
    PROVE  KeyOfSize(key, size) \in KeyBuffer /\ TweakOfSize(key, size) \in TweakBuffer
  BY DEF KeyOfSize, TweakOfSize, KeyBuffer, TweakBuffer

LEMMA BlockKeysTypes ==
    ASSUME NEW block \in MetadataBlock, NEW old \in KeysType
    PROVE  /\ KeysFromBlock(block, old).keys \in KeysType
           /\ KeysFromBlock(block, old).failed \in BOOLEAN
<1> DEFINE made == [set |-> TRUE,
                    fvek |-> KeyOfSize(block.fvek, WrappedSize(block.method)),
                    tweak |-> IF Diffuser(block.method)
                              THEN TweakOfSize(block.fvek, 32)
                              ELSE NoTweak,
                    source |-> "metadata"]
           none == [old EXCEPT !.set = TRUE, !.source = "metadata"]
<1>1. none \in KeysType
  BY DEF KeysType, Sources
<1>2. FullVolumeEncryptionKey(block) = "key" => made \in KeysType
  <2> SUFFICES ASSUME FullVolumeEncryptionKey(block) = "key" PROVE made \in KeysType
    OBVIOUS
  <2>1. block.fvek \in Keys
    BY DEF FullVolumeEncryptionKey, MetadataBlock
  <2>2. /\ KeyOfSize(block.fvek, WrappedSize(block.method)) \in KeyBuffer
        /\ TweakOfSize(block.fvek, 32) \in TweakBuffer
        /\ NoTweak \in TweakBuffer
    BY <2>1, BufferTypes DEF NoTweak, TweakBuffer
  <2> QED
    BY <2>2 DEF KeysType, Sources
<1>3. FullVolumeEncryptionKey(block) \in {"error", "none", "key"}
  BY DEF FullVolumeEncryptionKey
<1> HIDE DEF made, none
<1>4. /\ KeysFromBlock(block, old).keys \in {none, old, NoKeys}
            \union (IF FullVolumeEncryptionKey(block) = "key" THEN {made} ELSE {})
      /\ KeysFromBlock(block, old).failed \in BOOLEAN
  BY <1>3 DEF KeysFromBlock, made, none
<1> QED
  BY <1>1, <1>2, <1>4, ZeroKeyTypes

LEMMA BlocksKeysTypes ==
    ASSUME NEW read \in BlocksType \union {NoBlocks}, NEW old \in KeysType
    PROVE  /\ KeysFromBlocks(read, old).keys \in KeysType
           /\ KeysFromBlocks(read, old).failed \in BOOLEAN
<1> DEFINE Outcome(o) == o.keys \in KeysType /\ o.failed \in BOOLEAN
           start == [failed |-> FALSE, keys |-> old]
<1>1. ASSUME NEW block \in MetadataBlock, NEW o, Outcome(o)
      PROVE  Outcome(NextBlock(o, block))
  BY <1>1, BlockKeysTypes DEF NextBlock
<1>2. Outcome(start) /\ Outcome([start EXCEPT !.failed = TRUE])
  OBVIOUS
<1>3. ASSUME read \in BlocksType
      PROVE  Outcome(NextBlock(NextBlock(NextBlock(start, read[1]), read[2]), read[3]))
  <2>1. read[1] \in MetadataBlock /\ read[2] \in MetadataBlock /\ read[3] \in MetadataBlock
    BY <1>3 DEF BlocksType
  <2> HIDE DEF Outcome, start
  <2> QED
    BY <1>1, <1>2, <2>1
<1> QED
  BY <1>2, <1>3 DEF KeysFromBlocks

LEMMA UnlockTypes ==
    ASSUME keys \in KeysType,
           NEW disk \in Disks \union {NoDisk}, NEW read \in BlocksType \union {NoBlocks},
           NEW m \in EncryptionMethods, NEW ctx \in Contexts \union {NoContext}, NEW size \in Nat,
           NEW fault
    PROVE  LET o == UnlockOutcome(disk, read, m, ctx, size, fault)
           IN  /\ o.keys \in KeysType
               /\ o.context \in Contexts \union {NoContext}
               /\ o.size \in Nat
<1> DEFINE found == KeysFromBlocks(read, keys)
           made == IF found.failed THEN ctx ELSE ContextWith(ctx, m, found.keys)
<1>1. found.keys \in KeysType
  BY BlocksKeysTypes
<1>2. made \in Contexts \union {NoContext}
  BY <1>1 DEF ContextWith, Contexts, KeysType
<1>3. disk # NoDisk => SizeRead(disk, size) \in Nat /\ Corrected(disk, SizeRead(disk, size)) \in Nat
  <2>1. disk # NoDisk => SizeRead(disk, size) \in Nat
    BY VolumeAssumption DEF SizeRead
  <2>2. ASSUME NEW s \in Nat PROVE Corrected(disk, s) \in Nat
    BY DEF Corrected
  <2> QED
    BY <2>1, <2>2
<1> HIDE DEF found, made
<1>4. HeaderRead(disk, made, size, fault) => disk # NoDisk
  BY DEF HeaderRead
<1>5. LET o == UnlockOutcome(disk, read, m, ctx, size, fault)
      IN  /\ o.keys = found.keys
          /\ o.context = made
          /\ \/ o.size = size
             \/ /\ disk # NoDisk
                /\ o.size \in {SizeRead(disk, size), Corrected(disk, SizeRead(disk, size))}
  BY <1>4 DEF UnlockOutcome, found, made
<1> QED
  BY <1>1, <1>2, <1>3, <1>5

-----------------------------------------------------------------------------
(* Types *)

LEMMA ParsedTypes ==
    ASSUME NEW disk \in Disks
    PROVE  Parsed(disk) \in BlocksType
<1>1. ASSUME NEW n \in 1 .. 3
      PROVE  /\ Blocks[disk][n] \in MetadataBlock
             /\ [Blocks[disk][n] EXCEPT !.startupKey = NoProtector] \in MetadataBlock
  <2>1. Blocks[disk][n] \in MetadataBlock
    BY BlocksAssumption
  <2> QED
    BY <2>1 DEF MetadataBlock, Protectors
<1> QED
  BY <1>1 DEF Parsed, BlocksType

(* The part of the type invariant that opening and unlocking touch. *)
UnlockingTypes ==
    /\ keys \in KeysType
    /\ context \in Contexts \union {NoContext}
    /\ blocks \in BlocksType \union {NoBlocks}
    /\ method \in EncryptionMethods
    /\ isLocked \in BOOLEAN
    /\ volumeSize \in Nat

LEMMA OpenTypes ==
    ASSUME UnlockingTypes, NEW disk \in Disks, NEW fault, OpenRead(disk, fault)
    PROVE  UnlockingTypes'
<1> USE DEF UnlockingTypes
<1>1. SizeOnOpen(disk) \in Nat
  BY VolumeAssumption DEF SizeOnOpen
<1>2. CASE fault \in {"header", "metadata"}
  BY <1>1, <1>2 DEF OpenRead
<1>3. CASE fault \notin {"header", "metadata"}
  <2> DEFINE read == Parsed(disk)
             o == UnlockOutcome(disk, read, read[1].method, context, SizeOnOpen(disk), fault)
  <2>1. read \in BlocksType
    BY ParsedTypes
  <2>2. read[1].method \in EncryptionMethods
    BY <2>1 DEF BlocksType, MetadataBlock
  <2> HIDE DEF read
  <2>3. /\ o.keys \in KeysType
        /\ o.context \in Contexts \union {NoContext}
        /\ o.size \in Nat
    BY <1>1, <2>1, <2>2, UnlockTypes
  <2>4. /\ keys' = o.keys
        /\ context' \in {NoContext, o.context}
        /\ blocks' \in {NoBlocks, read}
        /\ method' = read[1].method
        /\ volumeSize' = o.size
        /\ isLocked' \in BOOLEAN
    BY <1>3 DEF OpenRead, read
  <2> HIDE DEF o
  <2> QED
    BY <2>1, <2>2, <2>3, <2>4
<1> QED
  BY <1>2, <1>3

Types ==
    /\ UnlockingTypes
    /\ allocated \in BOOLEAN
    /\ attached \in Disks \union {NoDisk}
    /\ created \in BOOLEAN
    /\ opened \in BOOLEAN
    /\ openHandles \subseteq Disks
    /\ callerOpened \subseteq Disks
    /\ password \in Secrets \union {NoSecret}
    /\ recovery \in Secrets \union {NoSecret}
    /\ startupKey \in Secrets \union {NoSecret, EmptyBek}
    /\ presented \subseteq Kinds \X (Secrets \union {EmptyBek})
    /\ currentOffset \in {0, 1}
    /\ lastRead \in {"none", "failed", "plain", "garbage"}

LEMMA InitTypes == Init => Types
<1> SUFFICES ASSUME Init PROVE Types
  OBVIOUS
<1>1. keys \in KeysType
  BY ZeroKeyTypes DEF Init
<1>2. UnlockingTypes
  BY <1>1 DEF Init, UnlockingTypes, EncryptionMethods
<1> QED
  BY <1>2 DEF Init, Types

LEMMA NextTypes == Types /\ [Next]_vars => Types'
<1> SUFFICES ASSUME Types, [Next]_vars PROVE Types'
  OBVIOUS
<1> USE DEF Types
<1>1. CASE Initialize
  BY <1>1 DEF Initialize, handle, UnlockingTypes
<1>2. CASE Free
  <2>1. keys' \in KeysType
    BY <1>2, ZeroKeyTypes DEF Free
  <2> QED
    BY <1>2, <2>1 DEF Free, HandlesAfterClose, UnlockingTypes, EncryptionMethods
<1>3. ASSUME NEW disk \in Disks, OpenFileIoHandle(disk) \/ Open(disk) PROVE Types'
  <2>1. UnlockingTypes'
    BY <1>3, OpenTypes DEF OpenFileIoHandle, Open
  <2> QED
    BY <1>3, <2>1 DEF OpenFileIoHandle, Open, secrets
<1>4. ASSUME NEW disk \in Disks, CallerHandle(disk) PROVE Types'
  BY <1>4 DEF CallerHandle, secrets, unlocking, UnlockingTypes
<1>5. CASE Close
  <2>1. ClearedKeys(keys) \in KeysType
    BY DEF ClearedKeys, UnlockingTypes, KeysType, KeyBuffer, TweakBuffer, NoTweak, Sources
  <2> HIDE DEF ClearedKeys
  <2> QED
    BY <1>5, <2>1 DEF Close, CloseVolume, HandlesAfterClose, LockedAfterClose, UnlockingTypes
<1>6. CASE Unlock
  <2> PICK fault \in UnlockFaults \union {"none"} :
        LET o == UnlockOutcome(attached, blocks, method, context, volumeSize, fault)
        IN  /\ keys' = o.keys
            /\ context' = o.context
            /\ volumeSize' = o.size
            /\ isLocked' = (o.result # "unlocked")
    BY <1>6 DEF Unlock
  <2>1. LET o == UnlockOutcome(attached, blocks, method, context, volumeSize, fault)
        IN  /\ o.keys \in KeysType
            /\ o.context \in Contexts \union {NoContext}
            /\ o.size \in Nat
    BY UnlockTypes DEF UnlockingTypes
  <2>2. UNCHANGED <<allocated, handle, secrets, blocks, method, currentOffset, lastRead>>
    BY <1>6 DEF Unlock
  <2>3. UnlockingTypes'
    BY <2>1, <2>2 DEF UnlockingTypes
  <2> QED
    BY <2>2, <2>3 DEF handle, secrets
<1>7. CASE Give
  <2>1. ASSUME NEW key \in CallerKeys, NEW size \in CallerKeySizes,
               NEW tweakSize \in {0, 16, 32}, SetKeys(key, size, tweakSize)
        PROVE  Types'
    <3>1. KeyOfSize(key, size) \in KeyBuffer /\ TweakOfSize(key, tweakSize) \in TweakBuffer
      BY BufferTypes DEF Keys
    <3>2. keys' \in KeysType
      BY <2>1, <3>1 DEF SetKeys, KeysType, Sources
    <3> QED
      BY <2>1, <3>2 DEF SetKeys, handle, secrets, UnlockingTypes
  <2>2. ASSUME NEW secret \in Secrets, SetPassword(secret) \/ SetRecoveryPassword(secret)
        PROVE  Types'
    BY <2>2 DEF SetPassword, SetRecoveryPassword, handle, unlocking, UnlockingTypes, Kinds
  <2>3. ASSUME NEW secret \in Secrets \union {EmptyBek}, ReadStartupKey(secret)
        PROVE  Types'
    BY <2>3 DEF ReadStartupKey, handle, unlocking, UnlockingTypes, Kinds
  <2> QED
    BY <1>7, <2>1, <2>2, <2>3 DEF Give
<1>8. CASE SeekOffset \/ ReadBuffer
  BY <1>8 DEF SeekOffset, ReadBuffer, handle, secrets, unlocking, UnlockingTypes
<1>9. CASE UNCHANGED vars
  BY <1>9 DEF vars, handle, secrets, unlocking, UnlockingTypes
<1> QED
  BY <1>1, <1>2, <1>3, <1>4, <1>5, <1>6, <1>7, <1>8, <1>9 DEF Next

(* The members keep their types whatever the disks hold and callers do:    *)
(* no key is longer than its buffer, and a parsed block has the protectors *)
(* of a block.                                                             *)
THEOREM TypesKept == Spec => []TypeOK
<1>1. Types => TypeOK
  BY DEF Types, UnlockingTypes, TypeOK, KeysType, BlocksType
<1> QED
  BY InitTypes, NextTypes, <1>1, PTL DEF Spec

-----------------------------------------------------------------------------
(***************************************************************************)
(* The rest needs disks whose metadata agree with them and callers that do *)
(* what the header says. An open that fails late may leave keys behind, so *)
(* it is assumed to fail before the keys are read or because of them.      *)
(***************************************************************************)
BlocksAgree ==
    \A d \in Disks : \A n \in 1 .. 3 :
        /\ Blocks[d][n].method = DiskMethod[d]
        /\ Blocks[d][n].fvek \in {DiskKey[d], NoProtector, Malformed, Unknown}

Regular ==
    /\ BlocksAgree
    /\ Liberties = {}
    /\ OpenFaults \subseteq {"header", "metadata"}

(* Keys that decrypt a disk. *)
Suits(k, disk) ==
    Decrypts([method |-> DiskMethod[disk], fvek |-> k.fvek, tweak |-> k.tweak], disk)

(* Buffers of keys that are not set can be used for the next ones. *)
Unset(k) ==
    /\ k.source # "metadata"
    /\ \A p \in TweakParts : k.fvek[p] = ZeroKey /\ k.tweak[p] = ZeroKey

(* Something that the caller gave opens the block. *)
Opened(block) ==
    \/ block.method = "none"
    \/ block.clearKey # NoProtector
    \/ \E kind \in Kinds :
        block[kind] \notin {NoProtector, Malformed} /\ <<kind, block[kind]>> \in presented

OpenedDisk(disk) == \E n \in 1 .. 3 : Opened(Blocks[disk][n])

(* A block as parsed has the startup key protector or not. *)
ParsedBlock(block, disk) ==
    \E n \in 1 .. 3 :
        block \in {Blocks[disk][n], [Blocks[disk][n] EXCEPT !.startupKey = NoProtector]}

ParsedBlocks(read, disk) ==
    read \in BlocksType /\ \A n \in 1 .. 3 : ParsedBlock(read[n], disk)

(* What the volume keeps of the caller's secrets was given. *)
SecretsInv ==
    /\ password # NoSecret => <<"password", password>> \in presented
    /\ recovery # NoSecret => <<"recovery", recovery>> \in presented
    /\ startupKey # NoSecret => <<"startupKey", startupKey>> \in presented

LEMMA ParsedIsParsed ==
    ASSUME NEW disk \in Disks
    PROVE  ParsedBlocks(Parsed(disk), disk)
<1>1. \A n \in 1 .. 3 : ParsedBlock(Parsed(disk)[n], disk)
  BY DEF Parsed, ParsedBlock
<1> QED
  BY <1>1, ParsedTypes DEF ParsedBlocks

(* A volume master key was opened by a secret that was given. *)
LEMMA MasterKeyOpened ==
    ASSUME NEW block \in MetadataBlock, SecretsInv, VolumeMasterKey(block, Given) = "key"
    PROVE  Opened(block)
<1> DEFINE a == Attempts(block, Given)
<1>1. PICK i \in 1 .. 4 : a[i] = "key"
  <2> DEFINE Decisive(i) == a[i] # "none" /\ \A j \in 1 .. i - 1 : a[j] = "none"
             first == CHOOSE i \in 1 .. 4 : Decisive(i)
  <2>1. a[first] = "key" /\ \E i \in 1 .. 4 : a[i] # "none"
    BY DEF VolumeMasterKey
  <2> HIDE DEF a
  <2>2. \E i \in 1 .. 4 : Decisive(i)
    BY <2>1
  <2>3. first \in 1 .. 4
    BY <2>2
  <2> QED
    BY <2>1, <2>3
<1>2. /\ a[1] = ClearKeyAttempt(block.clearKey)
      /\ a[2] = Attempt(block.startupKey, Given.external)
      /\ a[3] = Attempt(block.password, Given.password)
      /\ a[4] = Attempt(block.recovery, Given.recovery)
  BY DEF Attempts
<1> HIDE DEF a
<1>3. ASSUME NEW protector, NEW secret, Attempt(protector, secret) = "key"
      PROVE  secret # NoSecret /\ protector \notin {NoProtector, Malformed} /\ protector = secret
  BY <1>3 DEF Attempt
<1>4. CASE a[1] = "key"
  BY <1>2, <1>4 DEF ClearKeyAttempt, Opened
<1>5. CASE a[2] = "key"
  <2>1. /\ block.startupKey \notin {NoProtector, Malformed}
        /\ block.startupKey = Given.external
        /\ Given.external # NoSecret
    BY <1>2, <1>3, <1>5
  <2>2. block.startupKey = startupKey /\ startupKey # NoSecret
    BY <2>1 DEF Given
  <2> QED
    BY <2>1, <2>2 DEF SecretsInv, Opened, Kinds
<1>6. CASE a[3] = "key"
  BY <1>2, <1>3, <1>6 DEF SecretsInv, Opened, Kinds, Given
<1>7. CASE a[4] = "key"
  BY <1>2, <1>3, <1>7 DEF SecretsInv, Opened, Kinds, Given
<1> QED
  BY <1>1, <1>4, <1>5, <1>6, <1>7

LEMMA ParsedOpened ==
    ASSUME NEW disk \in Disks, NEW block, ParsedBlock(block, disk), Opened(block)
    PROVE  OpenedDisk(disk)
<1>1. PICK n \in 1 .. 3 :
        block \in {Blocks[disk][n], [Blocks[disk][n] EXCEPT !.startupKey = NoProtector]}
  BY DEF ParsedBlock
<1>2. Blocks[disk][n] \in MetadataBlock
  BY BlocksAssumption
<1>3. /\ block.method = Blocks[disk][n].method
      /\ block.clearKey = Blocks[disk][n].clearKey
      /\ \A kind \in Kinds :
            block[kind] \notin {NoProtector, Malformed} => block[kind] = Blocks[disk][n][kind]
  BY <1>1, <1>2 DEF MetadataBlock, Kinds
<1>4. Opened(Blocks[disk][n])
  BY <1>3 DEF Opened
<1> QED
  BY <1>4 DEF OpenedDisk

(* What unwrapping writes is at least what the method uses. *)
LEMMA KeySuits ==
    ASSUME NEW disk \in Disks, NEW k,
           k.fvek = KeyOfSize(DiskKey[disk], WrappedSize(DiskMethod[disk])),
           Diffuser(DiskMethod[disk]) => k.tweak = TweakOfSize(DiskKey[disk], 32)
    PROVE  Suits(k, disk)
<1> DEFINE m == DiskMethod[disk]
<1>1. PartsOfSize(UsedSize(m)) \subseteq PartsOfSize(WrappedSize(m))
  BY VolumeAssumption DEF PartsOfSize, UsedSize, WrappedSize, EncryptionMethods, KeyParts, PartEnd
<1>2. PartsOfSize(UsedSize(m)) \subseteq KeyParts
  BY DEF PartsOfSize
<1>3. Diffuser(m) => PartsOfSize(UsedSize(m)) \subseteq PartsOfSize(32) \intersect TweakParts
  BY DEF Diffuser, PartsOfSize, UsedSize, KeyParts, TweakParts, PartEnd
<1> HIDE DEF m
<1>4. \A p \in PartsOfSize(UsedSize(m)) : k.fvek[p] = DiskKey[disk]
  BY <1>1, <1>2 DEF KeyOfSize, m
<1>5. Diffuser(m) => \A p \in PartsOfSize(UsedSize(m)) : k.tweak[p] = DiskKey[disk]
  BY <1>3 DEF TweakOfSize, m
<1> QED
  BY <1>4, <1>5 DEF Suits, Decrypts, m

LEMMA NoKeysUnset == Unset(NoKeys) /\ ~NoKeys.set
  BY DEF NoKeys, Unset, NoKey, NoTweak, TweakParts, KeyParts

(* The outcome of reading keys: none, or those of the disk. *)
KeysRead(o, disk) ==
    /\ o.keys \in KeysType
    /\ o.failed => ~o.keys.set
    /\ ~o.keys.set => Unset(o.keys)
    /\ o.keys.source = "metadata" => Suits(o.keys, disk) /\ OpenedDisk(disk)

LEMMA BlockKeysRead ==
    ASSUME Regular, SecretsInv, NEW disk \in Disks, NEW block \in MetadataBlock,
           ParsedBlock(block, disk), NEW old \in KeysType, ~old.set, Unset(old)
    PROVE  KeysRead(KeysFromBlock(block, old), disk)
<1> DEFINE o == KeysFromBlock(block, old)
<1> SUFFICES KeysRead(o, disk)
  OBVIOUS
<1>0. o.keys \in KeysType
  BY BlockKeysTypes
<1>1. /\ block.method = DiskMethod[disk]
      /\ block.fvek \in {DiskKey[disk], NoProtector, Malformed, Unknown}
  <2>1. PICK n \in 1 .. 3 :
          block \in {Blocks[disk][n], [Blocks[disk][n] EXCEPT !.startupKey = NoProtector]}
    BY DEF ParsedBlock
  <2>2. Blocks[disk][n] \in MetadataBlock
    BY BlocksAssumption
  <2>3. block.method = Blocks[disk][n].method /\ block.fvek = Blocks[disk][n].fvek
    BY <2>1, <2>2 DEF MetadataBlock
  <2> QED
    BY <2>3 DEF Regular, BlocksAgree
<1>2. CASE block.method = "none"
  <2>1. ~o.failed /\ o.keys = [old EXCEPT !.set = TRUE, !.source = "metadata"]
    BY <1>2 DEF KeysFromBlock
  <2>2. o.keys.set
    BY <2>1 DEF KeysType
  <2>3. PartsOfSize(UsedSize(DiskMethod[disk])) = {} /\ ~Diffuser(DiskMethod[disk])
    BY <1>1, <1>2 DEF PartsOfSize, UsedSize, Diffuser, KeyParts, PartEnd
  <2> HIDE DEF o
  <2>4. Suits(o.keys, disk)
    BY <2>3 DEF Suits, Decrypts
  <2>5. OpenedDisk(disk)
    BY <1>2, ParsedOpened DEF Opened
  <2> QED
    BY <1>0, <2>1, <2>2, <2>4, <2>5 DEF KeysRead
<1>3. CASE block.method # "none" /\ VolumeMasterKey(block, Given) # "key"
  <2>1. o.keys = old
    BY <1>3 DEF KeysFromBlock
  <2> HIDE DEF o
  <2> QED
    BY <2>1 DEF KeysRead, Unset
<1>4. CASE /\ block.method # "none" /\ VolumeMasterKey(block, Given) = "key"
           /\ FullVolumeEncryptionKey(block) # "key"
  <2>1. o.keys = NoKeys
    BY <1>4 DEF KeysFromBlock
  <2> HIDE DEF o
  <2> QED
    BY <2>1, <1>0, NoKeysUnset DEF KeysRead, Unset
<1>5. CASE /\ block.method # "none" /\ VolumeMasterKey(block, Given) = "key"
           /\ FullVolumeEncryptionKey(block) = "key"
  <2>1. block.fvek = DiskKey[disk]
    BY <1>1, <1>5 DEF FullVolumeEncryptionKey
  <2>2. /\ ~o.failed /\ o.keys.set
        /\ o.keys.fvek = KeyOfSize(DiskKey[disk], WrappedSize(DiskMethod[disk]))
        /\ Diffuser(DiskMethod[disk]) => o.keys.tweak = TweakOfSize(DiskKey[disk], 32)
    BY <1>1, <1>5, <2>1 DEF KeysFromBlock
  <2> HIDE DEF o
  <2>3. Suits(o.keys, disk)
    BY <2>2, KeySuits
  <2>4. OpenedDisk(disk)
    BY <1>5, MasterKeyOpened, ParsedOpened
  <2> QED
    BY <1>0, <2>2, <2>3, <2>4 DEF KeysRead
<1> QED
  BY <1>2, <1>3, <1>4, <1>5

LEMMA BlocksKeysRead ==
    ASSUME Regular, SecretsInv, NEW disk \in Disks, NEW read, ParsedBlocks(read, disk),
           NEW old \in KeysType, ~old.set => Unset(old),
           old.source = "metadata" => Suits(old, disk) /\ OpenedDisk(disk)
    PROVE  KeysRead(KeysFromBlocks(read, old), disk)
<1> DEFINE start == [failed |-> FALSE, keys |-> old]
<1>1. /\ read # NoBlocks
      /\ \A n \in 1 .. 3 : read[n] \in MetadataBlock /\ ParsedBlock(read[n], disk)
  BY BlocksAssumption DEF ParsedBlocks, BlocksType
<1>2. CASE old.set
  <2>1. KeysFromBlocks(read, old) = start
    BY <1>2 DEF KeysFromBlocks
  <2>2. KeysRead(start, disk)
    BY <1>2 DEF KeysRead
  <2> QED
    BY <2>1, <2>2
<1>3. CASE ~old.set
  <2>1. KeysFromBlocks(read, old) =
            NextBlock(NextBlock(NextBlock(start, read[1]), read[2]), read[3])
    BY <1>1, <1>3 DEF KeysFromBlocks
  <2>2. KeysRead(start, disk)
    BY <1>3 DEF KeysRead, Unset
  <2>3. ASSUME NEW o, KeysRead(o, disk), NEW n \in 1 .. 3
        PROVE  KeysRead(NextBlock(o, read[n]), disk)
    <3>1. CASE o.failed \/ o.keys.set
      BY <2>3, <3>1 DEF NextBlock
    <3>2. CASE ~o.failed /\ ~o.keys.set
      <4>1. NextBlock(o, read[n]) = KeysFromBlock(read[n], o.keys)
        BY <3>2 DEF NextBlock
      <4>2. o.keys \in KeysType /\ Unset(o.keys)
        BY <2>3, <3>2 DEF KeysRead
      <4> QED
        BY <1>1, <3>2, <4>1, <4>2, BlockKeysRead
    <3> QED
      BY <3>1, <3>2
  <2> HIDE DEF start
  <2> QED
    BY <2>1, <2>2, <2>3
<1> QED
  BY <1>2, <1>3

(* A context is made of the keys and the method of the disk. *)
ContextOf(k, disk) ==
    [method |-> DiskMethod[disk], fvek |-> k.fvek, tweak |-> k.tweak, source |-> k.source]

KeysInv(k, disk) ==
    /\ k \in KeysType
    /\ ~k.set => Unset(k)
    /\ k.source = "metadata" => Suits(k, disk) /\ OpenedDisk(disk)

ContextInv(ctx, k, disk) ==
    ctx = NoContext \/ (k.set /\ ctx = ContextOf(k, disk))

LEMMA ContextMade ==
    ASSUME NEW disk \in Disks, NEW k \in KeysType
    PROVE  /\ ContextOf(k, disk) # NoContext
           /\ Suits(k, disk) <=> Decrypts(ContextOf(k, disk), disk)
<1>1. ContextOf(k, disk) \in Contexts
  BY VolumeAssumption DEF ContextOf, Contexts, KeysType
<1> QED
  BY <1>1, BlocksAssumption DEF ContextOf, Suits, Decrypts

(* What is known of the outcome of an unlock. *)
UnlockInv(o, disk, size, fault) ==
    /\ KeysInv(o.keys, disk)
    /\ ContextInv(o.context, o.keys, disk)
    /\ o.result = "unlocked" =>
        o.context # NoContext /\ o.size = Corrected(disk, SizeRead(disk, size))
    /\ o.result # "unlocked" => o.size \in {size, SizeRead(disk, size)}
    /\ o.result = "error" /\ fault \notin {"sector", "size"} => o.keys.source # "metadata"

LEMMA UnlockFacts ==
    ASSUME Regular, SecretsInv, NEW disk \in Disks, NEW read, ParsedBlocks(read, disk),
           KeysInv(keys, disk), NEW ctx, ContextInv(ctx, keys, disk), NEW size \in Nat,
           NEW fault
    PROVE  UnlockInv(UnlockOutcome(disk, read, DiskMethod[disk], ctx, size, fault),
                     disk, size, fault)
<1> DEFINE found == KeysFromBlocks(read, keys)
           made == IF found.failed
                   THEN ctx
                   ELSE ContextWith(ctx, DiskMethod[disk], found.keys)
           o == UnlockOutcome(disk, read, DiskMethod[disk], ctx, size, fault)
<1>1. KeysRead(found, disk)
  BY BlocksKeysRead DEF KeysInv
<1>2. KeysInv(found.keys, disk)
  BY <1>1 DEF KeysRead, KeysInv
<1>3. keys.set => found.keys = keys /\ ~found.failed
  BY DEF KeysFromBlocks
<1>4. ContextInv(made, found.keys, disk)
  <2>1. CASE ctx # NoContext
    BY <1>3, <2>1 DEF ContextInv, ContextWith
  <2>2. CASE ctx = NoContext
    <3> HIDE DEF found
    <3> QED
      BY <2>2 DEF ContextInv, ContextWith, ContextOf
  <2> QED
    BY <2>1, <2>2
<1>5. made # NoContext /\ found.keys.source = "metadata" => Decrypts(made, disk)
  <2> HIDE DEF found, made
  <2> QED
    BY <1>2, <1>4, ContextMade DEF ContextInv, KeysInv
<1>6. disk # NoDisk
  BY VolumeAssumption
<1>7. /\ o.keys = found.keys
      /\ o.context = made
      /\ o.result = "unlocked" =>
            made # NoContext /\ o.size = Corrected(disk, SizeRead(disk, size))
      /\ o.result # "unlocked" => o.size \in {size, SizeRead(disk, size)}
      /\ o.result = "error" =>
            \/ found.failed
            \/ made # NoContext /\ (fault \in {"sector", "size"} \/ ~Decrypts(made, disk))
  <2> HIDE DEF found, made
  <2> DEFINE same == [keys |-> found.keys, context |-> made, size |-> size,
                      result |-> "error"]
  <2>1. o = IF found.failed
            THEN same
            ELSE IF made = NoContext
            THEN [same EXCEPT !.result = "locked"]
            ELSE IF ~HeaderRead(disk, made, size, fault)
            THEN same
            ELSE IF fault = "size"
            THEN [same EXCEPT !.size = SizeRead(disk, size)]
            ELSE [same EXCEPT !.size = Corrected(disk, SizeRead(disk, size)),
                              !.result = "unlocked"]
    BY Zenon DEF UnlockOutcome, found, made
  <2> HIDE DEF o
  <2> QED
    BY <1>6, <2>1 DEF HeaderRead
<1>8. o.result = "error" /\ fault \notin {"sector", "size"} => o.keys.source # "metadata"
  <2>1. found.failed => found.keys.source # "metadata"
    BY <1>1 DEF KeysRead, Unset
  <2> HIDE DEF found, made, o
  <2> QED
    BY <1>5, <1>7, <2>1
<1> HIDE DEF found, made, o
<1>9. KeysInv(o.keys, disk) /\ ContextInv(o.context, o.keys, disk)
  BY <1>2, <1>4, <1>7
<1> QED
  BY <1>7, <1>8, <1>9 DEF UnlockInv, o

-----------------------------------------------------------------------------
(* The inductive invariant of a volume that is used as the header says. *)

DetachedInv ==
    attached = NoDisk =>
        /\ context = NoContext
        /\ blocks = NoBlocks
        /\ isLocked
        /\ currentOffset = 0
        /\ keys.source # "metadata"

AttachedInv ==
    attached # NoDisk =>
        /\ allocated
        /\ ParsedBlocks(blocks, attached)
        /\ method = DiskMethod[attached]
        /\ KeysInv(keys, attached)
        /\ ContextInv(context, keys, attached)
        /\ isLocked => volumeSize \in {HeaderSize[attached],
                                       SizeRead(attached, HeaderSize[attached])}
        /\ ~isLocked =>
            /\ context # NoContext
            /\ volumeSize = Corrected(attached, SizeRead(attached, HeaderSize[attached]))

IInv ==
    /\ Types
    /\ DetachedInv
    /\ AttachedInv
    /\ ~keys.set => Unset(keys)
    /\ allocated => SecretsInv
    /\ ~allocated => password = NoSecret /\ recovery = NoSecret

LEMMA InitIInv == Init => IInv
<1> SUFFICES ASSUME Init PROVE IInv
  OBVIOUS
<1>1. keys.source = "none" /\ Unset(keys)
  BY NoKeysUnset DEF Init, NoKeys
<1>2. DetachedInv /\ AttachedInv /\ SecretsInv
  BY <1>1 DEF Init, DetachedInv, AttachedInv, SecretsInv
<1> QED
  BY <1>1, <1>2, InitTypes DEF IInv, Init

LEMMA OpenIInv ==
    ASSUME Regular, IInv, NEW disk \in Disks, OpenFileIoHandle(disk) \/ Open(disk)
    PROVE  IInv'
<1>1. Types'
  BY NextTypes DEF IInv, Next
<1>2. /\ allocated /\ allocated'
      /\ attached = NoDisk
      /\ UNCHANGED <<password, recovery, startupKey, presented, currentOffset>>
      /\ attached' = IF blocks' # NoBlocks THEN disk ELSE NoDisk
  BY DEF OpenFileIoHandle, Open, secrets, OpenSucceeded
<1>3. PICK fault \in OpenFaults \union {"none"} : OpenRead(disk, fault)
  BY DEF OpenFileIoHandle, Open
<1>4. context = NoContext /\ blocks = NoBlocks /\ isLocked /\ keys.source # "metadata"
  BY <1>2 DEF IInv, DetachedInv
<1>5. SecretsInv /\ SecretsInv'
  BY <1>2 DEF IInv, SecretsInv
<1>6. CASE fault \in {"header", "metadata"}
  <2>1. /\ context' = NoContext
        /\ UNCHANGED <<keys, blocks, isLocked>>
    BY <1>3, <1>6 DEF OpenRead
  <2>2. DetachedInv' /\ AttachedInv'
    BY <1>2, <1>4, <2>1 DEF IInv, DetachedInv, AttachedInv
  <2> QED
    BY <1>1, <1>2, <1>5, <2>1, <2>2 DEF IInv, Unset
<1>7. CASE fault = "none"
  <2> DEFINE read == Parsed(disk)
             size == SizeOnOpen(disk)
             o == UnlockOutcome(disk, read, DiskMethod[disk], NoContext, size, fault)
  <2>1. ParsedBlocks(read, disk) /\ read # NoBlocks
    BY ParsedIsParsed, BlocksAssumption DEF ParsedBlocks, BlocksType
  <2>2. read[1].method = DiskMethod[disk]
    <3>1. PICK n \in 1 .. 3 :
            read[1] \in {Blocks[disk][n], [Blocks[disk][n] EXCEPT !.startupKey = NoProtector]}
      BY <2>1 DEF ParsedBlocks, ParsedBlock
    <3>2. Blocks[disk][n] \in MetadataBlock
      BY BlocksAssumption
    <3>3. read[1].method = Blocks[disk][n].method
      BY <3>1, <3>2 DEF MetadataBlock
    <3> QED
      BY <3>3 DEF Regular, BlocksAgree
  <2>3. size \in Nat
    BY VolumeAssumption DEF SizeOnOpen
  <2>4. KeysInv(keys, disk) /\ ContextInv(NoContext, keys, disk)
    BY <1>4 DEF KeysInv, ContextInv, IInv, Types, UnlockingTypes
  <2>5. /\ KeysInv(o.keys, disk)
        /\ ContextInv(o.context, o.keys, disk)
        /\ o.result = "unlocked" =>
                o.context # NoContext /\ o.size = Corrected(disk, SizeRead(disk, size))
        /\ o.result # "unlocked" => o.size \in {size, SizeRead(disk, size)}
        /\ o.result = "error" => o.keys.source # "metadata"
    <3>1. UnlockInv(o, disk, size, fault)
      <4> HIDE DEF read, size
      <4> QED
        BY <1>5, <2>1, <2>3, <2>4, UnlockFacts
    <3> HIDE DEF o, read, size
    <3> QED
      BY <1>7, <3>1 DEF UnlockInv
  <2>6. /\ keys' = o.keys
        /\ context' = IF o.result = "error" THEN NoContext ELSE o.context
        /\ blocks' = IF o.result = "error" THEN NoBlocks ELSE read
        /\ method' = DiskMethod[disk]
        /\ volumeSize' = o.size
        /\ isLocked' = (o.result # "unlocked")
    BY <1>3, <1>4, <1>7, <2>2 DEF OpenRead
  <2> HIDE DEF o, read
  <2>7. attached' = IF o.result = "error" THEN NoDisk ELSE disk
    BY <1>2, <2>1, <2>6
  <2>8. CASE o.result = "error"
    <3>1. DetachedInv' /\ AttachedInv'
      BY <1>2, <2>5, <2>6, <2>7, <2>8, <1>4 DEF DetachedInv, AttachedInv, IInv
    <3> QED
      BY <1>1, <1>2, <1>5, <2>5, <2>6, <3>1 DEF IInv, KeysInv, Unset
  <2>9. CASE o.result # "error"
    <3>1. DetachedInv'
      BY <2>7, <2>9, VolumeAssumption DEF DetachedInv
    <3>2. KeysInv(keys, disk)' /\ ContextInv(context, keys, disk)'
      BY <2>5, <2>6, <2>9, <1>2 DEF KeysInv, ContextInv, OpenedDisk, Opened, Unset, Suits,
                                    Decrypts, ContextOf
    <3>3. ParsedBlocks(blocks, disk)'
      BY <2>1, <2>6, <2>9 DEF ParsedBlocks, ParsedBlock
    <3>4. AttachedInv'
      BY <1>2, <2>5, <2>6, <2>7, <2>9, <3>2, <3>3 DEF AttachedInv, SizeOnOpen
    <3> QED
      BY <1>1, <1>2, <1>5, <3>1, <3>2, <3>4 DEF IInv, KeysInv
  <2> QED
    BY <2>8, <2>9
<1> QED
  BY <1>6, <1>7 DEF Regular

LEMMA UnlockIInv == ASSUME Regular, IInv, Unlock PROVE IInv'
<1>1. Types'
  BY NextTypes DEF IInv, Next
<1>2. /\ attached \in Disks /\ isLocked
      /\ UNCHANGED <<allocated, attached, password, recovery, startupKey, presented,
                     blocks, method, currentOffset>>
  BY DEF Unlock, Regular, IInv, Types, handle, secrets
<1>3. allocated /\ SecretsInv /\ SecretsInv'
  BY <1>2 DEF Unlock, IInv, SecretsInv
<1>4. PICK fault \in UnlockFaults \union {"none"} :
        LET o == UnlockOutcome(attached, blocks, method, context, volumeSize, fault)
        IN  /\ keys' = o.keys
            /\ context' = o.context
            /\ volumeSize' = o.size
            /\ isLocked' = (o.result # "unlocked")
  BY DEF Unlock
<1> DEFINE o == UnlockOutcome(attached, blocks, DiskMethod[attached], context, volumeSize, fault)
<1>5. /\ attached # NoDisk
      /\ ParsedBlocks(blocks, attached)
      /\ method = DiskMethod[attached]
      /\ KeysInv(keys, attached)
      /\ ContextInv(context, keys, attached)
      /\ volumeSize \in Nat
      /\ volumeSize \in {HeaderSize[attached], SizeRead(attached, HeaderSize[attached])}
  BY <1>2, VolumeAssumption DEF IInv, AttachedInv, Types, UnlockingTypes
<1>6. /\ KeysInv(o.keys, attached)
      /\ ContextInv(o.context, o.keys, attached)
      /\ o.result = "unlocked" =>
            /\ o.context # NoContext
            /\ o.size = Corrected(attached, SizeRead(attached, volumeSize))
      /\ o.result # "unlocked" => o.size \in {volumeSize, SizeRead(attached, volumeSize)}
  <2>1. /\ attached \in Disks /\ SecretsInv
        /\ ParsedBlocks(blocks, attached)
        /\ KeysInv(keys, attached)
        /\ ContextInv(context, keys, attached)
        /\ volumeSize \in Nat
    BY <1>2, <1>3, <1>5
  <2>2. UnlockInv(o, attached, volumeSize, fault)
    BY <2>1, UnlockFacts
  <2> HIDE DEF o
  <2> QED
    BY <2>2 DEF UnlockInv
<1>7. /\ keys' = o.keys
      /\ context' = o.context
      /\ volumeSize' = o.size
      /\ isLocked' = (o.result # "unlocked")
  BY <1>4, <1>5
<1> HIDE DEF o
<1>8. SizeRead(attached, volumeSize) = SizeRead(attached, HeaderSize[attached])
  BY <1>2, <1>5, VolumeAssumption DEF SizeRead
<1>9. KeysInv(keys, attached)' /\ ContextInv(context, keys, attached)'
  BY <1>2, <1>6, <1>7 DEF KeysInv, ContextInv, OpenedDisk, Opened, Unset, Suits, Decrypts,
                          ContextOf
<1>10. ParsedBlocks(blocks, attached)'
  BY <1>2, <1>5 DEF ParsedBlocks, ParsedBlock
<1>11. AttachedInv'
  BY <1>2, <1>3, <1>5, <1>6, <1>7, <1>8, <1>9, <1>10 DEF AttachedInv
<1>12. DetachedInv'
  BY <1>2, <1>5 DEF DetachedInv
<1> QED
  BY <1>1, <1>2, <1>3, <1>9, <1>11, <1>12 DEF IInv, KeysInv

LEMMA CloseIInv == ASSUME IInv, Close PROVE IInv'
<1>1. Types'
  BY NextTypes DEF IInv, Next
<1>2. /\ attached' = NoDisk /\ isLocked' = TRUE /\ currentOffset' = 0
      /\ context' = NoContext /\ blocks' = NoBlocks
      /\ keys' = ClearedKeys(keys)
      /\ startupKey' = NoSecret /\ allocated
      /\ UNCHANGED <<allocated, password, recovery, presented>>
  BY DEF Close, CloseVolume, LockedAfterClose
<1>3. Unset(ClearedKeys(keys))
  BY DEF ClearedKeys, Unset, TweakParts, KeyParts, PartsOfSize, PartEnd, NoTweak
<1>4. DetachedInv' /\ AttachedInv'
  BY <1>2, <1>3 DEF DetachedInv, AttachedInv, Unset
<1> QED
  BY <1>1, <1>2, <1>3, <1>4 DEF IInv, SecretsInv, Unset

LEMMA FreeIInv == ASSUME IInv, Free PROVE IInv'
<1>1. Types'
  BY NextTypes DEF IInv, Next
<1>2. /\ attached' = NoDisk /\ isLocked' = TRUE /\ currentOffset' = 0
      /\ context' = NoContext /\ blocks' = NoBlocks
      /\ keys' = NoKeys
      /\ allocated' = FALSE /\ password' = NoSecret /\ recovery' = NoSecret
  BY DEF Free, IInv, DetachedInv
<1>3. DetachedInv' /\ AttachedInv'
  BY <1>2 DEF DetachedInv, AttachedInv, NoKeys
<1> QED
  BY <1>1, <1>2, <1>3, NoKeysUnset DEF IInv, Unset

LEMMA GiveIInv == ASSUME Regular, IInv, Give PROVE IInv'
<1>1. Types'
  BY NextTypes DEF IInv, Next
<1>2. ASSUME NEW key, NEW size, NEW tweakSize, SetKeys(key, size, tweakSize)
      PROVE  IInv'
  <2>1. /\ attached = NoDisk
        /\ keys'.set /\ keys'.source = "caller"
        /\ allocated
        /\ UNCHANGED <<allocated, attached, password, recovery, startupKey, presented,
                       context, blocks, isLocked, currentOffset>>
    BY <1>2 DEF SetKeys, Regular, handle, secrets
  <2>2. DetachedInv' /\ AttachedInv'
    BY <2>1 DEF IInv, DetachedInv, AttachedInv
  <2> QED
    BY <1>1, <2>1, <2>2 DEF IInv, SecretsInv
<1>3. ASSUME NEW secret,
             SetPassword(secret) \/ SetRecoveryPassword(secret) \/ ReadStartupKey(secret)
      PROVE  IInv'
  <2>1. /\ presented \subseteq presented' /\ allocated
        /\ UNCHANGED <<allocated, attached, keys, context, blocks, method, isLocked,
                       volumeSize, currentOffset>>
    BY <1>3 DEF SetPassword, SetRecoveryPassword, ReadStartupKey, handle, unlocking
  <2>2. SecretsInv => SecretsInv'
    BY <1>3 DEF SetPassword, SetRecoveryPassword, ReadStartupKey, SecretsInv
  <2>3. ASSUME NEW disk, OpenedDisk(disk) PROVE OpenedDisk(disk)'
    BY <2>1, <2>3 DEF OpenedDisk, Opened
  <2>4. DetachedInv'
    BY <2>1 DEF IInv, DetachedInv
  <2>5. ASSUME attached # NoDisk PROVE KeysInv(keys, attached)'
    BY <2>1, <2>3, <2>5 DEF IInv, AttachedInv, KeysInv, Unset, Suits, Decrypts
  <2>6. AttachedInv'
    BY <2>1, <2>5 DEF IInv, AttachedInv, ContextInv, ParsedBlocks, ParsedBlock, ContextOf
  <2> QED
    BY <1>1, <2>1, <2>2, <2>4, <2>6 DEF IInv, Unset
<1> QED
  BY <1>2, <1>3 DEF Give

LEMMA NextIInv == ASSUME Regular, IInv, [Next]_vars PROVE IInv'
<1>1. Types'
  BY NextTypes DEF IInv
<1>2. CASE Initialize
  <2>1. attached = NoDisk
    BY <1>2 DEF Initialize, IInv, AttachedInv
  <2>2. DetachedInv' /\ AttachedInv'
    BY <1>2, <2>1 DEF Initialize, IInv, DetachedInv, AttachedInv, handle
  <2>3. SecretsInv'
    BY <1>2 DEF Initialize, IInv, SecretsInv
  <2> QED
    BY <1>1, <1>2, <2>2, <2>3 DEF Initialize, IInv, Unset
<1>3. ASSUME UNCHANGED <<attached, secrets, unlocking, allocated>>,
             currentOffset' = currentOffset \/ ~isLocked
      PROVE  IInv'
  <2>1. DetachedInv'
    BY <1>3 DEF IInv, DetachedInv, unlocking
  <2>2. AttachedInv'
    BY <1>3 DEF IInv, AttachedInv, unlocking, secrets, KeysInv, ContextInv, ParsedBlocks,
                ParsedBlock, ContextOf, Unset, Suits, Decrypts, OpenedDisk, Opened
  <2> QED
    BY <1>1, <1>3, <2>1, <2>2 DEF IInv, unlocking, secrets, Unset, SecretsInv
<1>4. ASSUME NEW disk \in Disks, CallerHandle(disk) PROVE IInv'
  BY <1>3, <1>4 DEF CallerHandle
<1>5. CASE SeekOffset \/ ReadBuffer
  BY <1>3, <1>5 DEF SeekOffset, ReadBuffer, handle
<1>6. CASE UNCHANGED vars
  BY <1>3, <1>6 DEF vars, handle
<1> QED
  BY <1>2, <1>4, <1>5, <1>6, OpenIInv, UnlockIInv, CloseIInv, FreeIInv, GiveIInv DEF Next

LEMMA SpecIInv == ASSUME Regular PROVE Spec => []IInv
  BY InitIInv, NextIInv, PTL DEF Spec

(* The context of an unlocked volume is made of its keys and its method. *)
LEMMA UnlockedContext ==
    ASSUME IInv, attached # NoDisk, ~isLocked
    PROVE  /\ attached \in Disks
           /\ keys \in KeysType
           /\ context = ContextOf(keys, attached)
           /\ Suits(keys, attached) <=> Decrypts(context, attached)
           /\ keys.source = "metadata" => Suits(keys, attached) /\ OpenedDisk(attached)
           /\ volumeSize = Corrected(attached, SizeRead(attached, HeaderSize[attached]))
<1>1. attached \in Disks /\ keys \in KeysType /\ context = ContextOf(keys, attached)
  BY DEF IInv, AttachedInv, Types, KeysInv, ContextInv
<1>2. Suits(keys, attached) <=> Decrypts(context, attached)
  BY <1>1, ContextMade
<1> QED
  BY <1>1, <1>2 DEF IInv, AttachedInv, KeysInv

(* An unlocked volume has the key and the method of the disk it is         *)
(* attached to when its key came from the metadata, after whatever calls,  *)
(* wrong secrets and failed opens.                                         *)
THEOREM KeysAreVolumes == ASSUME Regular PROVE Spec => []KeysOfVolume
<1>1. ASSUME IInv PROVE KeysOfVolume
  <2> SUFFICES ASSUME attached # NoDisk, ~isLocked, context.source = "metadata"
               PROVE  Decrypts(context, attached)
    BY DEF KeysOfVolume
  <2>1. keys.source = "metadata"
    BY <1>1, UnlockedContext DEF ContextOf
  <2> QED
    BY <1>1, <2>1, UnlockedContext
<1> QED
  BY SpecIInv, <1>1, PTL

(* No key comes out of an encrypted disk's metadata but by a clear key or  *)
(* a secret that was given to this volume.                                 *)
THEOREM SecretsOpenKeys == ASSUME Regular PROVE Spec => []KeysNeedSecret
<1>1. ASSUME IInv PROVE KeysNeedSecret
  <2> SUFFICES ASSUME attached # NoDisk, ~isLocked, context.source = "metadata"
               PROVE  \E n \in 1 .. 3 :
                        \/ Blocks[attached][n].method = "none"
                        \/ Blocks[attached][n].clearKey # NoProtector
                        \/ Openers(Blocks[attached][n]) \intersect presented # {}
    BY DEF KeysNeedSecret
  <2>1. OpenedDisk(attached)
    BY <1>1, UnlockedContext DEF ContextOf
  <2>2. PICK n \in 1 .. 3 : Opened(Blocks[attached][n])
    BY <2>1 DEF OpenedDisk
  <2> QED
    BY <2>2 DEF Opened, Openers
<1> QED
  BY SpecIInv, <1>1, PTL

(* Right keys of the caller are used whole. *)
THEOREM CallersKeysUsed == ASSUME Regular PROVE Spec => []RightKeysDecrypt
<1>1. ASSUME IInv PROVE RightKeysDecrypt
  BY <1>1, UnlockedContext DEF RightKeysDecrypt, Fits, Suits
<1> QED
  BY SpecIInv, <1>1, PTL

(* Close, a failed open and free leave nothing of a volume to the next.    *)
THEOREM NothingIsLeft == ASSUME Regular PROVE Spec => []DetachedIsClean
<1>1. ASSUME IInv PROVE DetachedIsClean
  BY <1>1 DEF IInv, DetachedInv, DetachedIsClean, Unset
<1> QED
  BY SpecIInv, <1>1, PTL

(* The size of an unlocked volume is the one its disk states, corrected    *)
(* once, however often it was unlocked.                                    *)
THEOREM SizeIsRight == ASSUME Regular PROVE Spec => []SizeIsDisks
<1>1. ASSUME IInv PROVE SizeIsDisks
  <2> SUFFICES ASSUME attached # NoDisk, ~isLocked
               PROVE  volumeSize = SizeOfDisk(attached)
    BY DEF SizeIsDisks
  <2>1. /\ attached \in Disks
        /\ volumeSize = Corrected(attached, SizeRead(attached, HeaderSize[attached]))
    BY <1>1, UnlockedContext
  <2> QED
    BY <2>1, VolumeAssumption DEF Corrected, SizeRead, SizeOfDisk
<1> QED
  BY SpecIInv, <1>1, PTL

-----------------------------------------------------------------------------
(* The volume's calls follow its life cycle: each maps to a step of it or  *)
(* to none.                                                                *)

LEMMA LifeCycleStates ==
    ASSUME IInv
    PROVE  /\ ~allocated => LifeCycleState = "absent"
           /\ allocated /\ attached = NoDisk => LifeCycleState = "closed"
           /\ allocated /\ attached # NoDisk /\ isLocked => LifeCycleState = "locked"
           /\ allocated /\ attached # NoDisk /\ ~isLocked => LifeCycleState = "unlocked"
           /\ attached # NoDisk => allocated
  BY DEF LifeCycleState, IInv, Types, UnlockingTypes, DetachedInv, AttachedInv

LEMMA LifeCycleStep ==
    ASSUME Regular, IInv, IInv', [Next]_vars
    PROVE  [LifeCycle!Next]_LifeCycleState
<1>1. /\ ~allocated' => LifeCycleState' = "absent"
      /\ allocated' /\ attached' = NoDisk => LifeCycleState' = "closed"
      /\ allocated' /\ attached' # NoDisk /\ isLocked' => LifeCycleState' = "locked"
      /\ allocated' /\ attached' # NoDisk /\ ~isLocked' => LifeCycleState' = "unlocked"
      /\ attached' # NoDisk => allocated'
  BY DEF LifeCycleState, IInv, Types, UnlockingTypes, DetachedInv, AttachedInv
<1> USE DEF LifeCycle!Next
<1>2. CASE Initialize
  <2>1. LifeCycle!Initialize
    BY <1>1, <1>2, LifeCycleStates DEF Initialize, handle, LifeCycle!Initialize
  <2> QED
    BY <2>1
<1>3. CASE Free
  <2>1. LifeCycle!Free
    BY <1>1, <1>3, LifeCycleStates DEF Free, LifeCycle!Free
  <2> QED
    BY <2>1
<1>4. ASSUME NEW disk \in Disks, OpenFileIoHandle(disk) \/ Open(disk)
      PROVE  LifeCycle!Open \/ UNCHANGED LifeCycleState
  <2>1. /\ allocated /\ allocated' /\ attached = NoDisk
        /\ attached' = disk \/ attached' = NoDisk
    BY <1>4 DEF OpenFileIoHandle, Open
  <2> QED
    BY <1>1, <2>1, LifeCycleStates DEF LifeCycle!Open
<1>5. CASE Close
  <2>1. LifeCycle!Close
    BY <1>1, <1>5, LifeCycleStates DEF Close, CloseVolume, LifeCycle!Close, LifeCycle!IsOpen
  <2> QED
    BY <2>1
<1>6. CASE Unlock
  <2>1. /\ allocated /\ allocated' /\ attached' = attached /\ attached # NoDisk /\ isLocked
    BY <1>6 DEF Unlock, Regular, handle
  <2>2. LifeCycle!Unlock \/ UNCHANGED LifeCycleState
    BY <1>1, <2>1, LifeCycleStates DEF LifeCycle!Unlock
  <2> QED
    BY <2>2
<1>7. CASE Give \/ SeekOffset \/ ReadBuffer \/ (\E disk \in Disks : CallerHandle(disk))
  <2>1. UNCHANGED <<allocated, attached, isLocked>>
    BY <1>7 DEF Give, SetKeys, SetPassword, SetRecoveryPassword, ReadStartupKey, SeekOffset,
                ReadBuffer, CallerHandle, handle, unlocking
  <2> QED
    BY <1>1, <2>1, LifeCycleStates
<1>8. CASE UNCHANGED vars
  BY <1>8 DEF vars, handle, unlocking, LifeCycleState
<1> QED
  BY <1>2, <1>3, <1>4, <1>5, <1>6, <1>7, <1>8 DEF Next

(* A libbde volume with its keys, blocks, context and handles is the life  *)
(* cycle that its callers rely on.                                         *)
THEOREM VolumeHasLifeCycle == ASSUME Regular PROVE Spec => FollowsLifeCycle
<1>1. Init => LifeCycle!Init
  BY DEF Init, LifeCycle!Init, LifeCycleState
<1> QED
  BY SpecIInv, <1>1, LifeCycleStep, PTL DEF Spec, FollowsLifeCycle, LifeCycle!Spec
=============================================================================
