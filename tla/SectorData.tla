---------------------------- MODULE SectorData ----------------------------
(***************************************************************************)
(* The contents of one sector of a BitLocker volume as the library         *)
(* delivers it: libbde_sector_data_read_file_io_handle.  A byte is not a   *)
(* number but its provenance: the zero of a blanked area, the clear text   *)
(* of a byte of the file, the cipher text stored there, a patched byte of  *)
(* the boot sector, or what decrypting with the key of another block gives.*)
(*                                                                         *)
(* An io is the libbde_io_handle of an unlocked volume:                    *)
(*   version            "vista", "windows_7" or "to_go"                    *)
(*   bytesPerSector     size of a sector                                   *)
(*   metadataOffsets    the three FVE metadata offsets                     *)
(*   metadataSize       size of each FVE metadata area                     *)
(*   headerOffset, headerSize   where the first sectors were moved to      *)
(*   encryptedSize      size of the encrypted part, 0 if it is all of it   *)
(*   method             encryption method of the context                   *)
(*   volumeSize         size of the volume                                 *)
(*   fileSize           size of the file that holds it                     *)
(***************************************************************************)
EXTENDS Integers

CONSTANTS
    PlainSize,      \* bytes at the start of a Vista volume stored as is: 8192
    PatchSize,      \* bytes of the Vista boot sector, which is patched: 512
    SignatureBytes, \* bytes of the boot sector that hold its signature
    MirrorBytes     \* bytes that hold the MFT mirror cluster block number

ASSUME SectorDataAssumption ==
    /\ PlainSize \in Nat
    /\ PatchSize \in Nat
    /\ PatchSize <= PlainSize
    /\ SignatureBytes \subseteq 0 .. PatchSize - 1
    /\ MirrorBytes \subseteq 0 .. PatchSize - 1

Zero == <<"zero", 0>>
Clear(position) == <<"clear", position>>
Cipher(position) == <<"cipher", position>>
Scrambled(position) == <<"scrambled", position>>
Signature(i) == <<"signature", i>>
Mirror(i) == <<"mirror", i>>

Relocates(io) == io.version \in {"windows_7", "to_go"}

(* The three areas that are delivered as zero bytes. *)
InMetadata(io, offset) ==
    \E n \in 1 .. 3 :
        /\ offset >= io.metadataOffsets[n]
        /\ offset < io.metadataOffsets[n] + io.metadataSize

(* The area the first sectors were moved to is delivered as zero too. *)
InMovedHeader(io, offset) ==
    /\ Relocates(io)
    /\ offset >= io.headerOffset
    /\ offset < io.headerOffset + io.headerSize

(* The first sectors are read from where they were moved to. *)
Relocated(io, offset) ==
    IF Relocates(io) /\ offset < io.headerSize
    THEN offset + io.headerOffset
    ELSE offset

(* Whether the sector at this offset of the file is decrypted. *)
Encrypted(io, offset) ==
    /\ ~(io.version = "vista" /\ offset < PlainSize)
    /\ io.method # "none"
    /\ ~(io.encryptedSize # 0 /\ offset >= io.encryptedSize)

Aligned(io, offset) == offset % io.bytesPerSector = 0

(* The byte stored at a position of the file; encryption is by sector. *)
Stored(io, position) ==
    IF Encrypted(io, position - (position % io.bytesPerSector))
    THEN Cipher(position)
    ELSE Clear(position)

(***************************************************************************)
(* Decrypting the bytesPerSector bytes found at offset: the block key is   *)
(* the offset (CBC) or the offset divided by the size of a sector (XTS),   *)
(* so that only what starts at a sector comes out as clear text.           *)
(***************************************************************************)
Decrypted(io, offset, i) ==
    IF Aligned(io, offset) THEN Clear(offset + i) ELSE Scrambled(offset + i)

(* The first sector of a Vista volume gets the signature of an NTFS volume *)
(* and its MFT mirror cluster block number.                                *)
Patched(io, offset, i) ==
    IF io.version = "vista" /\ offset < PatchSize /\ i \in SignatureBytes
    THEN Signature(i)
    ELSE IF io.version = "vista" /\ offset < PatchSize /\ i \in MirrorBytes
    THEN Mirror(i)
    ELSE Stored(io, offset + i)

(***************************************************************************)
(* A volume as the volume header and the metadata describe it: a sector    *)
(* holds the boot sector, and the areas are made of whole sectors. For the *)
(* sizes the code sees to it, for the offsets the format does.             *)
(***************************************************************************)
MadeOfSectors(io) ==
    /\ io.version \in {"vista", "windows_7", "to_go"}
    /\ io.bytesPerSector \in Nat \ {0}
    /\ io.bytesPerSector >= PatchSize
    /\ io.metadataOffsets \in [1 .. 3 -> Nat]
    /\ {io.metadataSize, io.headerOffset, io.headerSize, io.volumeSize} \subseteq Nat
    /\ \A n \in 1 .. 3 : Aligned(io, io.metadataOffsets[n])
    /\ Aligned(io, io.metadataSize)
    /\ Aligned(io, io.headerOffset)
    /\ Aligned(io, io.headerSize)

(* What reading the sector at offset fills the sector data with. *)
SectorContents(io, offset) ==
    [i \in 0 .. io.bytesPerSector - 1 |->
        IF InMetadata(io, offset) \/ InMovedHeader(io, offset)
        THEN Zero
        ELSE IF Encrypted(io, Relocated(io, offset))
        THEN Decrypted(io, Relocated(io, offset), i)
        ELSE Patched(io, Relocated(io, offset), i)]

(* Whether it can be filled: blanked areas are not read, others must be    *)
(* inside the file for a whole sector.                                     *)
SectorReadable(io, offset) ==
    \/ InMetadata(io, offset)
    \/ InMovedHeader(io, offset)
    \/ Relocated(io, offset) + io.bytesPerSector <= io.fileSize
=============================================================================
