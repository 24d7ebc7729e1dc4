---------------------------- MODULE MetadataRead ----------------------------
(***************************************************************************)
(* Opening a volume up to the keys: libbde_internal_volume_open_read with  *)
(* the volume header, libbde_metadata_read_block for each of the three     *)
(* blocks and the loop over the entries of a block, down to what it        *)
(* allocates and frees. With volumes in Faults it may run out of memory.   *)
(*                                                                         *)
(* A structure in memory is named by <<block, entry, what>>. The entries   *)
(* and keys of a block are named by the index of the entry they were read  *)
(* from, 0 is the null pointer.                                            *)
(***************************************************************************)
EXTENDS MetadataFormat

CONSTANTS
    Volumes,        \* the files considered: [header, at]
    Identifiers,    \* identifiers of startup keys
    NoIdentifier,   \* the caller read no startup key
    NotRead,        \* the metadata pointer is NULL
    Faults          \* those during whose opening memory may run out

ASSUME FaultsAssumption == Faults \subseteq Volumes

(* What has been read of a block. *)
MetadataRecords ==
    [headerOffset : Nat, headerSize : Nat, entries : SUBSET Nat,
     keys : Seq(Nat),
     clearKey : Nat, startupKey : Nat, recoveryPassword : Nat, password : Nat,
     fullVolumeEncryptionKey : Nat, externalKey : Nat, description : Nat]

ASSUME NotReadAssumption == NotRead \notin MetadataRecords

BlockTyped(header) ==
    /\ {header.first, header.second, header.third} \subseteq Nat
    /\ header.headerOffset \in Nat
    /\ header.headerSectors \in Nat
    /\ Len(header.entries) \in Nat
    /\ DOMAIN header.entries = 1 .. Len(header.entries)
    /\ \A n \in DOMAIN header.entries :
          LET entry == header.entries[n]
          IN  entry.fits /\ entry.type = "volume_header_block" => entry.size \in Nat

(* The header is at offset 0, where so no block is. *)
ASSUME VolumesAssumption ==
    \A v \in Volumes :
        /\ {v.header.first, v.header.second, v.header.third} \subseteq Nat
        /\ v.at[0] = NoBlock
        /\ \A o \in DOMAIN v.at : v.at[o] # NoBlock => BlockTyped(v.at[o])

VARIABLES
    volume,             \* the file: does not change
    startupKey,         \* identifier of the startup key, for this open
    pc,                 \* where the open is
    offsets,            \* first, second and third metadata offset of the io_handle
    block,              \* the block being read
    metadata,           \* primary, secondary and tertiary metadata
    position,           \* of each block: the entries before entries_data_offset
    metadataEntry,      \* the local metadata_entry: its index
    allocated           \* structures in memory

vars == <<volume, startupKey, pc, offsets, block, metadata, position,
          metadataEntry, allocated>>

At(offset) == IF offset \in DOMAIN volume.at THEN volume.at[offset] ELSE NoBlock
BlockAt(i) == At(HeaderOffsets(volume.header)[i])
Entry == BlockAt(block).entries[metadataEntry]

NewMetadata ==
    [headerOffset |-> 0, headerSize |-> 0, entries |-> {},
     keys |-> << >>,
     clearKey |-> 0, startupKey |-> 0, recoveryPassword |-> 0, password |-> 0,
     fullVolumeEncryptionKey |-> 0, externalKey |-> 0, description |-> 0]

Init ==
    /\ volume \in Volumes
    /\ startupKey = NoIdentifier
    /\ pc = "closed"
    /\ offsets = [i \in Copies |-> 0]
    /\ block = 1
    /\ metadata = [i \in Copies |-> NotRead]
    /\ position = [i \in Copies |-> 0]
    /\ metadataEntry = 0
    /\ allocated = {}

-----------------------------------------------------------------------------
(* The volume header. The caller may have read another startup key since. *)
ReadHeader ==
    /\ pc \in {"closed", "failed"}
    /\ startupKey' \in Identifiers \union {NoIdentifier}
    /\ block' = 1
    /\ position' = [i \in Copies |-> 0]
    /\ IF HeaderReads(volume.header)
       THEN /\ offsets' = HeaderOffsets(volume.header)
            /\ pc' = "block"
       ELSE /\ pc' = "failing"
            /\ UNCHANGED offsets
    /\ UNCHANGED <<volume, metadata, metadataEntry, allocated>>

(* Offsets that Vista's header lacks are taken from the block. *)
Filled(header) ==
    IF Version(volume.header) = "vista"
    THEN [i \in Copies |-> IF i # 1 /\ offsets[i] = 0
                           THEN BlockOffsets(header)[i]
                           ELSE offsets[i]]
    ELSE offsets

FaultyAgrees(header) == Filled(header)[1] = header.first    \* one of the three

Agrees(header) == \A i \in Copies : Filled(header)[i] = BlockOffsets(header)[i]

BlockHeaderReads(header) ==
    /\ header # NoBlock
    /\ header.signature
    /\ header.version \in {1, 2}

(* Version 1 of a block has no volume header. *)
HeaderOffset(header) == IF header.version = 2 THEN header.headerOffset ELSE 0

(* libbde_metadata_read_block up to the entries. *)
ReadBlock ==
    LET header == BlockAt(block)
        new == [metadata EXCEPT ![block] = NewMetadata]
    IN  /\ pc = "block"
        /\ allocated' = allocated \union {<<block, 0, "metadata">>}
        /\ IF BlockHeaderReads(header)
           THEN /\ offsets' = Filled(header)
                /\ metadata' = [new EXCEPT ![block].headerOffset = HeaderOffset(header)]
                /\ pc' = IF Agrees(header) /\ header.inBounds
                         THEN "entries" ELSE "failing"
           ELSE /\ metadata' = new
                /\ pc' = "failing"
                /\ UNCHANGED offsets
        /\ UNCHANGED <<volume, startupKey, block, position, metadataEntry>>

-----------------------------------------------------------------------------
(* The loop over the entries of a block, libbde_metadata_read_entries_data.*)

Local == IF metadataEntry = 0 THEN {} ELSE {<<block, metadataEntry, "entry">>}

(* on_error: the entry at hand, the description and the entries read so    *)
(* far are freed; keys stay with the metadata, which the caller frees.     *)
EntriesFail(m) ==
    /\ pc' = "failing"
    /\ metadata' = [metadata EXCEPT
            ![block] = [m EXCEPT !.entries = {}, !.description = 0]]
    /\ metadataEntry' = 0
    /\ allocated' = allocated \ ( Local
            \union {<<block, i, "entry">> : i \in m.entries}
            \union {<<block, m.description, "description">>})
    /\ UNCHANGED <<volume, startupKey, offsets, block, position>>

AtEnd ==
    IF position[block] = Len(BlockAt(block).entries)
    THEN TRUE
    ELSE BlockAt(block).entries[position[block] + 1].form = "empty"

FaultyEntrySize(entry) ==           \* no lower bound: the loop stays where it is
    CASE entry.form = "whole" -> 1
      [] entry.form = "short" -> 0
      [] OTHER -> -1

(* What libbde_metadata_entry_read returns, in entries: -1 on error. *)
EntrySize(entry) == IF entry.form = "whole" THEN 1 ELSE -1

ReadEntry ==
    LET size == EntrySize(BlockAt(block).entries[position[block] + 1])
    IN  /\ pc = "entries"
        /\ ~AtEnd
        /\ IF size = -1
           THEN EntriesFail(metadata[block])
           ELSE /\ pc' = "value"
                /\ metadataEntry' = position[block] + 1
                /\ position' = [position EXCEPT ![block] = @ + size]
                /\ allocated' = allocated \union {<<block, position[block] + 1, "entry">>}
                /\ UNCHANGED <<volume, startupKey, offsets, block, metadata>>

(* The value of the entry is in m, and the structures in kept were made. *)
ValueRead(m, kept) ==
    /\ pc' = "append"
    /\ metadata' = [metadata EXCEPT ![block] = m]
    /\ allocated' = allocated \union {<<block, metadataEntry, what>> : what \in kept}
    /\ UNCHANGED <<volume, startupKey, offsets, block, position, metadataEntry>>

AtValue(types) == pc = "value" /\ Entry.type \in types

FaultyFirst(slot) == metadataEntry      \* the last one wins

First(slot) == IF slot = 0 THEN metadataEntry ELSE slot

(* The four pointers to the keys that this library can use. *)
WithProtector(m, key) ==
    CASE key.kind = "clear_key" -> [m EXCEPT !.clearKey = First(@)]
      [] key.kind = "startup_key"
            -> IF startupKey # NoIdentifier /\ key.identifier = startupKey
               THEN [m EXCEPT !.startupKey = First(@)]
               ELSE m
      [] key.kind = "recovery_password" -> [m EXCEPT !.recoveryPassword = First(@)]
      [] key.kind = "password" -> [m EXCEPT !.password = First(@)]
      [] OTHER -> m

(* The array of the volume master keys. *)
WithKey(m) ==
    [m EXCEPT !.keys = Append(@, metadataEntry)]

KeepVolumeMasterKey ==
    /\ AtValue({"volume_master_key"})
    /\ IF KeyReads(Entry, VolumeMasterKeyParts)
       THEN ValueRead(WithKey(WithProtector(metadata[block], Entry)), {"value"})
       ELSE EntriesFail(metadata[block])

FaultyKeepEncryptedKey ==           \* does not free the one it does not keep
    /\ AtValue({"full_volume_encryption_key", "other_key"})
    /\ IF Entry.fits
       THEN ValueRead(IF Entry.type = "full_volume_encryption_key"
                      THEN [metadata[block] EXCEPT !.fullVolumeEncryptionKey = First(@)]
                      ELSE metadata[block], {"value"})
       ELSE EntriesFail(metadata[block])

(* The first full volume encryption key is kept. A later one and a key of  *)
(* entry type 0x000b are freed once read.                                  *)
KeepEncryptedKey ==
    /\ AtValue({"full_volume_encryption_key", "other_key"})
    /\ IF Entry.fits
       THEN IF /\ Entry.type = "full_volume_encryption_key"
               /\ metadata[block].fullVolumeEncryptionKey = 0
            THEN ValueRead([metadata[block] EXCEPT
                               !.fullVolumeEncryptionKey = First(@)], {"value"})
            ELSE ValueRead(metadata[block], {})
       ELSE EntriesFail(metadata[block])

KeepExternalKey ==
    /\ AtValue({"startup_key"})
    /\ IF KeyReads(Entry, ExternalKeyParts)
       THEN IF metadata[block].externalKey = 0
            THEN ValueRead([metadata[block] EXCEPT !.externalKey = First(@)], {"value"})
            ELSE ValueRead(metadata[block], {})
       ELSE EntriesFail(metadata[block])

(* A second description is an error, an empty one is none. *)
KeepDescription ==
    /\ AtValue({"description"})
    /\ IF metadata[block].description # 0
       THEN EntriesFail(metadata[block])
       ELSE IF Entry.size > 0
       THEN ValueRead([metadata[block] EXCEPT !.description = metadataEntry],
                      {"description"})
       ELSE ValueRead(metadata[block], {})

FaultyKeepHeaderSize ==             \* does not check the size of the value
    /\ AtValue({"volume_header_block"})
    /\ IF Entry.offset = metadata[block].headerOffset
       THEN ValueRead([metadata[block] EXCEPT !.headerSize = Entry.size], {})
       ELSE EntriesFail(metadata[block])

(* The offset is that of the block header, the last size counts. *)
KeepHeaderSize ==
    /\ AtValue({"volume_header_block"})
    /\ IF Entry.fits /\ Entry.offset = metadata[block].headerOffset
       THEN ValueRead([metadata[block] EXCEPT !.headerSize = Entry.size], {})
       ELSE EntriesFail(metadata[block])

KeepNothing ==
    /\ pc = "value"
    /\ Entry.type \notin {"volume_master_key", "full_volume_encryption_key", "other_key",
                          "startup_key", "description", "volume_header_block"}
    /\ ValueRead(metadata[block], {})

AppendEntry ==
    /\ pc = "append"
    /\ pc' = "entries"
    /\ metadata' = [metadata EXCEPT ![block].entries = @ \union {metadataEntry}]
    /\ metadataEntry' = 0
    /\ UNCHANGED <<volume, startupKey, offsets, block, position, allocated>>

(* A structure cannot be made, or an array cannot grow. A volume master    *)
(* key that cannot be put in its array is freed, what points at it stays.  *)
OutOfMemory ==
    /\ volume \in Faults
    /\ pc \in {"entries", "value", "append"}
    /\ pc = "entries" => ~AtEnd
    /\ \/ EntriesFail(metadata[block])
       \/ /\ AtValue({"volume_master_key"})
          /\ KeyReads(Entry, VolumeMasterKeyParts)
          /\ EntriesFail(WithProtector(metadata[block], Entry))

-----------------------------------------------------------------------------
(* Without an entry for it the volume header is as long as the block header*)
(* says, in sectors; version 1 says none.                                  *)
HeaderSize(m) ==
    IF m.headerSize # 0 THEN m.headerSize
    ELSE IF BlockAt(block).version = 2
    THEN BlockAt(block).headerSectors * BytesPerSector
    ELSE 0

(* What open checks of the primary block once it has all three. *)
PrimaryUsable(m) == m.headerOffset # 0 => m.headerSize # 0

FinishBlock ==
    /\ pc = "entries"
    /\ AtEnd
    /\ metadata' = [metadata EXCEPT ![block].headerSize = HeaderSize(metadata[block])]
    /\ IF block < 3
       THEN /\ block' = block + 1
            /\ pc' = "block"
       ELSE /\ pc' = IF PrimaryUsable(metadata[1]) THEN "read" ELSE "failing"
            /\ UNCHANGED block
    /\ UNCHANGED <<volume, startupKey, offsets, position, metadataEntry, allocated>>

KeyEntries(m) == {m.keys[k] : k \in DOMAIN m.keys}

(* The structures of a block that was read, which libbde_metadata_free     *)
(* frees: its arrays, and what it points at that is in no array.           *)
Structures(i, m) ==
    {<<i, 0, "metadata">>}
        \union {<<i, n, "entry">> : n \in m.entries}
        \union {<<i, n, "value">> : n \in KeyEntries(m)}
        \union {<<i, n, "value">> :
                    n \in {m.fullVolumeEncryptionKey, m.externalKey} \ {0}}
        \union {<<i, n, "description">> : n \in {m.description} \ {0}}

Owned(i) == IF metadata[i] = NotRead THEN {} ELSE Structures(i, metadata[i])

FreeMetadata ==
    /\ metadata' = [i \in Copies |-> NotRead]
    /\ allocated' = allocated \ UNION {Owned(i) : i \in Copies}
    /\ UNCHANGED <<volume, startupKey, offsets, block, position, metadataEntry>>

(* on_error of libbde_internal_volume_open_read. *)
OpenFails ==
    /\ pc = "failing"
    /\ pc' = "failed"
    /\ FreeMetadata

(* What comes between the metadata and this is the module Volume. *)
Close ==
    /\ pc = "read"
    /\ pc' = "closed"
    /\ FreeMetadata

KeepValue ==
    \/ KeepVolumeMasterKey
    \/ KeepEncryptedKey
    \/ KeepExternalKey
    \/ KeepDescription
    \/ KeepHeaderSize
    \/ KeepNothing

Open ==
    \/ ReadBlock
    \/ ReadEntry
    \/ KeepValue
    \/ AppendEntry
    \/ FinishBlock
    \/ OpenFails

Next == ReadHeader \/ Open \/ OutOfMemory \/ Close

Spec == Init /\ [][Next]_vars /\ WF_vars(Open)

-----------------------------------------------------------------------------
(* The volume is one of Volumes and does not change. *)
TypeOK ==
    /\ startupKey \in Identifiers \union {NoIdentifier}
    /\ pc \in {"closed", "block", "entries", "value", "append", "failing", "failed", "read"}
    /\ offsets \in [Copies -> Nat]
    /\ block \in Copies
    /\ metadata \in [Copies -> MetadataRecords \union {NotRead}]
    /\ position \in [Copies -> Nat]
    /\ metadataEntry \in Nat
    /\ allocated \subseteq Copies \X Nat \X {"metadata", "entry", "value", "description"}

(* The entries of a block whose values were read. *)
Handled(i) ==
    1 .. (IF i = block /\ pc = "value" THEN position[i] - 1 ELSE position[i])

OfType(i, type) == {n \in Handled(i) : BlockAt(i).entries[n].type = type}

OfKind(i, kind) ==
    {n \in OfType(i, "volume_master_key") : BlockAt(i).entries[n].kind = kind}

(* A pointer is the first of a set of entries, or null if there is none. *)
IsFirst(slot, indices) ==
    IF indices = {} THEN slot = 0
    ELSE slot \in indices /\ \A n \in indices : slot <= n

FirstProtectors(i) ==
    /\ IsFirst(metadata[i].clearKey, OfKind(i, "clear_key"))
    /\ IsFirst(metadata[i].password, OfKind(i, "password"))
    /\ IsFirst(metadata[i].recoveryPassword, OfKind(i, "recovery_password"))
    /\ IsFirst(metadata[i].startupKey,
               {n \in OfKind(i, "startup_key") :
                    /\ startupKey # NoIdentifier
                    /\ BlockAt(i).entries[n].identifier = startupKey})

FirstKeys(i) ==
    /\ IsFirst(metadata[i].fullVolumeEncryptionKey,
               OfType(i, "full_volume_encryption_key"))
    /\ IsFirst(metadata[i].externalKey, OfType(i, "startup_key"))

(* The keys the library goes by are the first of their kind in the block,  *)
(* of startup keys the first that the caller's file is for, whatever lies  *)
(* between them, and all volume master keys are in the array               *)
(* (libbde_metadata_read_entries_data).                                    *)
KeysAsListed ==
    \A i \in Copies : metadata[i] # NotRead /\ pc \notin {"failing", "failed"} =>
        /\ FirstProtectors(i)
        /\ FirstKeys(i)
        /\ KeyEntries(metadata[i]) = OfType(i, "volume_master_key")

(* Whatever fails and wherever memory runs out, each structure is held by  *)
(* exactly one of the local variable, the arrays and the pointers of the   *)
(* metadata: none is lost, none is freed twice, and a volume that is not   *)
(* open has none (on_error of metadata.c:1164 and volume.c:1453).          *)
EveryStructureOwned ==
    /\ allocated = Local \union UNION {Owned(i) : i \in Copies}
    /\ \A i \in Copies : Local \intersect Owned(i) = {}

-----------------------------------------------------------------------------
(* What an entry can be read as, without the loop. *)
ValueReads(header, n) ==
    LET entry == header.entries[n]
    IN  CASE entry.type = "volume_master_key" -> KeyReads(entry, VolumeMasterKeyParts)
          [] entry.type = "startup_key" -> KeyReads(entry, ExternalKeyParts)
          [] entry.type \in {"full_volume_encryption_key", "other_key"} -> entry.fits
          [] entry.type = "description"
                -> ~\E k \in 1 .. n - 1 : /\ header.entries[k].type = "description"
                                          /\ header.entries[k].size > 0
          [] entry.type = "volume_header_block"
                -> entry.fits /\ entry.offset = HeaderOffset(header)
          [] OTHER -> TRUE

EntriesRead(header) ==
    \A n \in Listed(header.entries) :
        header.entries[n].form = "whole" /\ ValueReads(header, n)

(* The last size that an entry gives, or that of the block header. *)
VolumeHeaderSize(header) ==
    LET given == {n \in Listed(header.entries) :
                    header.entries[n].type = "volume_header_block"}
        last == CHOOSE n \in given : \A k \in given : k <= n
    IN  IF given # {} /\ header.entries[last].size # 0
        THEN header.entries[last].size
        ELSE IF header.version = 2 THEN header.headerSectors * BytesPerSector ELSE 0

(* A volume with these three blocks is in order. *)
InOrder(blocks, blockOffsets) ==
    /\ HeaderReads(volume.header)
    /\ \A i \in Copies :
          /\ BlockHeaderReads(blocks[i])
          /\ BlockOffsets(blocks[i]) = blockOffsets
          /\ blocks[i].inBounds
          /\ EntriesRead(blocks[i])
    /\ HeaderOffset(blocks[1]) # 0 => VolumeHeaderSize(blocks[1]) # 0

(* Opening reads the metadata of exactly the volumes in order: a volume    *)
(* with a damaged, misplaced or contradictory copy is refused, and without *)
(* such damage none is. The offset and size of the volume header in use    *)
(* are those of the primary block (volume.c:1299 to 1408).                 *)
ReadIffInOrder ==
    LET blocks == <<BlockAt(1), BlockAt(2), BlockAt(3)>>
        ordered == InOrder(blocks, HeaderOffsets(volume.header))
    IN  /\ pc = "read" => /\ ordered
                          /\ metadata[1].headerOffset = HeaderOffset(blocks[1])
                          /\ metadata[1].headerSize = VolumeHeaderSize(blocks[1])
        /\ pc \in {"failing", "failed"} /\ volume \notin Faults => ~ordered

(* The README of the library names Vista among the supported formats: a    *)
(* volume in order opens, where Vista's header names the first block and   *)
(* that one names the others (metadata.c:342). It does not: the other two  *)
(* are looked for where the volume header says, at offset 0.               *)
VistaOpens ==
    LET first == BlockAt(1)
        named == <<At(first.first), At(first.second), At(first.third)>>
    IN  /\ Version(volume.header) = "vista"
        /\ first # NoBlock
        /\ first.first = volume.header.first
        /\ InOrder(named, BlockOffsets(first))
        => pc # "failed"

(* An open that began comes to an end, with the metadata or with an error: *)
(* each entry read brings the loop over the entries closer to its end.     *)
OpenReturns == pc \in {"block", "entries", "value", "append", "failing"}
                ~> pc \in {"read", "failed"}
=============================================================================
