--------------------------- MODULE MCMetadataRead ---------------------------
(***************************************************************************)
(* Small volumes for MetadataRead: the primary block has any two entries   *)
(* of those below, or three of the fewer ones, and the other copies are    *)
(* good, or the primary is good and one of the others is damaged.          *)
(***************************************************************************)
EXTENDS MetadataRead

Nested(type, form, fits) ==
    [form |-> form, type |-> type, fits |-> fits, kind |-> "", identifier |-> "",
     nested |-> << >>, offset |-> 0, size |-> 0]

Plain(type, fits) == Nested(type, "whole", fits)
Sized(type, offset, size) ==
    [Plain(type, size >= 0) EXCEPT !.offset = offset, !.size = size]

Key(kind, identifier, nested) ==
    [Plain("volume_master_key", TRUE) EXCEPT
        !.kind = kind, !.identifier = identifier, !.nested = nested]

Stretched == <<Plain("stretch_key", TRUE), Plain("aes_ccm_key", TRUE)>>

(* Parts twice, and one behind the end of the list. *)
Repeated == <<Plain("aes_ccm_key", TRUE), Plain("key", TRUE), Plain("key", TRUE),
              Plain("aes_ccm_key", TRUE), Nested("other", "empty", TRUE),
              Plain("string", TRUE)>>

FewEntries ==
    {Key("password", "id1", Stretched),
     Key("startup_key", "id1", <<Plain("aes_ccm_key", TRUE)>>),
     Key("startup_key", "id2", <<Plain("string", FALSE), Plain("aes_ccm_key", TRUE)>>),
     Plain("full_volume_encryption_key", TRUE),
     Sized("description", 0, 4),
     Sized("volume_header_block", 8, 6)}

AllEntries == FewEntries \union
    {Key("clear_key", "id1", Repeated),
     Key("recovery_password", "id2", Stretched),
     Key("password", "id2", <<Plain("other", FALSE), Plain("stretch_key", FALSE)>>),
     Key("clear_key", "id2", <<Plain("key", TRUE), Nested("string", "long", TRUE)>>),
     Key("tpm", "id1", << >>),
     [Plain("startup_key", TRUE) EXCEPT !.identifier = "id1",
            !.nested = <<Plain("stretch_key", FALSE), Plain("key", TRUE)>>],
     [Plain("startup_key", TRUE) EXCEPT !.nested = <<Plain("key", FALSE)>>],
     Plain("full_volume_encryption_key", FALSE),
     Plain("other_key", TRUE),
     Plain("validation", TRUE),
     Sized("description", 0, 0),
     Sized("volume_header_block", 8, 0),
     Sized("volume_header_block", 9, 6),
     Sized("volume_header_block", 8, -1),
     Nested("other", "empty", TRUE),
     Nested("description", "short", TRUE),
     Nested("description", "long", TRUE),
     Nested("description", "unsupported", TRUE)}

Lists == UNION {[1 .. n -> AllEntries] : n \in 0 .. 2} \union [1 .. 3 -> FewEntries]

GoodBlock(entries) ==
    [signature |-> TRUE, version |-> 2, first |-> 2, second |-> 4, third |-> 6,
     headerOffset |-> 8, headerSectors |-> 1, inBounds |-> TRUE, entries |-> entries]

Good == GoodBlock(<<Key("password", "id1", Stretched)>>)

DamagedBlocks ==
    {NoBlock,
     [Good EXCEPT !.signature = FALSE],
     [Good EXCEPT !.version = 3],
     [Good EXCEPT !.version = 1],
     [Good EXCEPT !.first = 4],
     [Good EXCEPT !.second = 6],
     [Good EXCEPT !.third = 0],
     [Good EXCEPT !.inBounds = FALSE],
     [Good EXCEPT !.headerSectors = 0],
     GoodBlock(<<Sized("description", 0, 4), Sized("description", 0, 4)>>),
     GoodBlock(<<Nested("description", "short", TRUE)>>)}

Header(boot, identifier) ==
    [boot |-> boot, identifier |-> identifier, signature |-> TRUE, inBounds |-> TRUE,
     first |-> 2, second |-> 4, third |-> 6]

Blocks(b1, b2, b3) == [o \in {0, 2, 4, 6} |->
    CASE o = 0 -> NoBlock [] o = 2 -> b1 [] o = 4 -> b2 [] o = 6 -> b3]

Volume(header, b1, b2, b3) == [header |-> header, at |-> Blocks(b1, b2, b3)]

Windows7 == Header("windows_7", "windows_7")
Vista == Header("vista", "none")

(* Headers of each version, and some that are none. *)
Headers ==
    {Windows7, Vista, Header("windows_7", "to_go"), Header("windows_7", "none"),
     Header("other", "windows_7"),
     [Windows7 EXCEPT !.signature = FALSE],
     [Header("windows_7", "to_go") EXCEPT !.signature = FALSE],
     [Windows7 EXCEPT !.inBounds = FALSE]}

(* Where memory may run out, at each of these entries. *)
FaultEntries ==
    {Key("password", "id1", Stretched),
     Key("password", "id2", <<Nested("string", "long", TRUE)>>),
     Plain("full_volume_encryption_key", TRUE),
     Plain("other_key", TRUE),
     Plain("startup_key", TRUE),
     Plain("startup_key", FALSE),
     Sized("description", 0, 4)}

MCFaultVolumes ==
    {Volume(Windows7, GoodBlock(list), Good, Good) : list \in [1 .. 3 -> FaultEntries]}

MCVolumes ==
    {Volume(header, Good, Good, Good) : header \in Headers}
    \union {Volume(Windows7, GoodBlock(list), Good, Good) : list \in Lists}
    \union {Volume(Windows7, b, Good, Good) : b \in DamagedBlocks}
    \union {Volume(Windows7, Good, b, Good) : b \in DamagedBlocks}
    \union {Volume(Windows7, Good, Good, b) : b \in DamagedBlocks}
    \union MCFaultVolumes

MCVistaVolumes ==
    {[header |-> Vista,
      at |-> Blocks([Good EXCEPT !.version = version], [Good EXCEPT !.version = version],
                    [Good EXCEPT !.version = version])] : version \in {1, 2}}
=============================================================================
