--------------------------- MODULE MetadataFormat ---------------------------
(***************************************************************************)
(* The volume header and the metadata blocks of a BitLocker volume as the  *)
(* library finds them in a file, and how it reads one value of them.       *)
(*                                                                         *)
(* A header is a record of                                                 *)
(*   boot       the boot entry point: "vista", "windows_7" or another      *)
(*   identifier where bde_identifier is: "windows_7", "to_go" or "none"    *)
(*   signature  it has the signature -FVE-FS-                              *)
(*   inBounds   its numbers pass the checks of their bounds                *)
(*   first, second, third   offsets of the metadata blocks                 *)
(*                                                                         *)
(* A block is a record of                                                  *)
(*   signature, version, first, second, third, headerOffset, headerSectors *)
(*              the block header                                           *)
(*   inBounds   the metadata header is of version 1, has its size and one  *)
(*              size of the entries in both places, within the limits      *)
(*   entries    a sequence of entries                                      *)
(*                                                                         *)
(* An entry, of a block or nested in one, is a record of                   *)
(*   form       "whole", or "empty" (its header is zero), "short" (its     *)
(*              size is less than its header), "long" (it is more than     *)
(*              what is left) or "unsupported" (its version)               *)
(*   type       what it is: an entry type of a block, or what its value    *)
(*              type says of a nested entry. A volume header block whose   *)
(*              value is no offset and size is ignored, thus another type. *)
(*   fits       its value has the type and the size that reading it needs  *)
(*   kind, identifier, nested   of a key: the protection type, the         *)
(*              identifier and the nested entries                          *)
(*   offset, size   of a volume header block; size: of a description       *)
(***************************************************************************)
EXTENDS Integers, Sequences

CONSTANTS
    NoBlock,            \* there is no metadata block at this offset
    BytesPerSector

ASSUME BytesPerSectorAssumption == BytesPerSector \in Nat \ {0}

Copies == 1 .. 3

(* The entries before the first that is empty: a list ends there. *)
Listed(entries) ==
    {i \in 1 .. Len(entries) : \A j \in 1 .. i : entries[j].form # "empty"}

-----------------------------------------------------------------------------
(* The volume header. *)

Version(header) ==
    CASE header.boot = "vista" -> "vista"
      [] header.boot = "windows_7" /\ header.identifier \in {"windows_7", "to_go"}
            -> header.identifier
      [] OTHER -> "unknown"

HeaderReads(header) ==
    /\ Version(header) # "unknown"
    /\ Version(header) # "to_go" => header.signature
    /\ header.inBounds

(* Vista's header has the first offset only, the other two stay zero. *)
HeaderOffsets(header) ==
    [i \in Copies |->
        CASE i = 1 -> header.first
          [] i # 1 /\ Version(header) = "vista" -> 0
          [] i = 2 /\ Version(header) # "vista" -> header.second
          [] i = 3 /\ Version(header) # "vista" -> header.third]

BlockOffsets(block) == <<block.first, block.second, block.third>>

-----------------------------------------------------------------------------
(* Keys: what is nested in a volume master key or an external key. *)

VolumeMasterKeyParts == {"key", "string", "stretch_key", "aes_ccm_key"}
ExternalKeyParts == {"key", "string"}

(* Reading a nested entry of these parts; of others only its header is. *)
PartReads(entry, parts) ==
    /\ entry.form = "whole"
    /\ entry.type \in parts \ {"string"} => entry.fits

KeyReads(entry, parts) ==
    /\ entry.fits
    /\ \A i \in Listed(entry.nested) : PartReads(entry.nested[i], parts)
=============================================================================
